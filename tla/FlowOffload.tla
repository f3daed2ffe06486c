----------------------------- MODULE FlowOffload -----------------------------
(***************************************************************************)
(* Hardware offload of datapath flows (dpif-netdev.c): the threads that    *)
(* change flow tables queue additions, modifications and deletions to one  *)
(* offload thread, which gives each mega flow a mark, installs it in the   *)
(* network card, and associates the mark with the flow of every PMD thread *)
(* that has the mega flow, so that a marked packet finds its flow without  *)
(* a lookup.                                                               *)
(*                                                                         *)
(* A flow table is changed under its flow_mutex, the card under the        *)
(* port_mutex, the list under its own mutex; the marks belong to the       *)
(* offload thread.  flow->mark and flow->dead are read and written under   *)
(* no lock at all, so each access to them is a step of its own.            *)
(* The flow API is enabled.  The card may refuse whatever it is asked to   *)
(* do.  The offload thread takes a mark from a mega flow whether or not    *)
(* the card has deleted the rule, so that a rule the card has kept may     *)
(* carry a mark that goes to another mega flow; `undeleted' tells such     *)
(* rules from those whose deletion nobody has asked for.  A packet is      *)
(* marked and looked up at once.                                           *)
(***************************************************************************)
EXTENDS Naturals, Sequences, FiniteSets

CONSTANTS
  Pmds,       \* the threads, each with its flow table
  Megas,      \* mega flows: what a flow matches, whichever thread has it
  Flows,      \* bound: the memory flows are allocated from
  MAX_MARK,   \* marks are 1 .. MAX_MARK
  MaxQueue,   \* bound: length of the offload list
  None        \* no flow, no thread, no mega flow

INVALID_FLOW_MARK == 0
Marks == 1 .. MAX_MARK

ASSUME OffloadAssumption ==
  /\ MAX_MARK \in Nat /\ MaxQueue \in Nat
  /\ None \notin Pmds \cup Megas \cup Flows

VARIABLES
  flow,               \* struct dp_netdev_flow; Unused when it is freed
  flow_table,         \* the flows in the tables and classifiers of the threads
  removing,           \* the flow each thread's flow_mutex is held to remove
  list,               \* dp_flow_offload.list
  asleep,             \* the offload thread waits for dp_flow_offload.cond
  pc, item,           \* where the offload thread is, and with which request
  held,               \* the mark it works with
  pool,               \* flow_mark.pool: the marks that are taken
  megaflow_to_mark,   \* flow_mark.megaflow_to_mark
  mark_to_flow,       \* flow_mark.mark_to_flow
  port_up,            \* the port of the flows is in the datapath
  hw,                 \* the mark each mega flow has in the card
  undeleted           \* ghost: mega flows whose rule the card was to delete

tables  == <<flow_table, removing>>
thread  == <<asleep, pc, item, held>>
marking == <<pool, megaflow_to_mark, mark_to_flow>>
card    == <<port_up, hw, undeleted>>
vars == <<flow, tables, list, thread, marking, card>>

Unused == [pmd_id |-> None, mega_ufid |-> None, mark |-> INVALID_FLOW_MARK,
           dead |-> FALSE, ref_cnt |-> 0]
NoItem == [op |-> "NONE", flow |-> None]

Init ==
  /\ flow = [f \in Flows |-> Unused]
  /\ flow_table = {} /\ removing = [p \in Pmds |-> None]
  /\ list = <<>>
  /\ asleep = FALSE /\ pc = "idle" /\ item = NoItem /\ held = INVALID_FLOW_MARK
  /\ pool = {} /\ mark_to_flow = {}
  /\ megaflow_to_mark = [m \in Megas |-> INVALID_FLOW_MARK]
  /\ port_up = TRUE /\ hw = [m \in Megas |-> INVALID_FLOW_MARK]
  /\ undeleted = {}

-----------------------------------------------------------------------------
(* References.  A flow that loses its last one is freed (the grace period  *)
(* of RCU is for PMD threads that look flows up, which are not here).      *)

Ref(f) == [flow EXCEPT ![f].ref_cnt = @ + 1]

Unref(fl, f, n) ==
  LET left == fl[f].ref_cnt - n IN
  [fl EXCEPT ![f] = IF left = 0 THEN Unused ELSE [fl[f] EXCEPT !.ref_cnt = left]]

Append1Quiet(op, f) ==     \* mutant: a waiting thread is not woken
  /\ Len(list) < MaxQueue
  /\ list' = Append(list, [op |-> op, flow |-> f])
  /\ UNCHANGED asleep

(* The item holds a reference; the thread waiting for the list is woken.   *)
Append1(op, f) ==
  /\ Len(list) < MaxQueue
  /\ list' = Append(list, [op |-> op, flow |-> f])
  /\ asleep' = FALSE

-----------------------------------------------------------------------------
(* The threads that change a flow table, under its flow_mutex.             *)

Locked(p) == removing[p] # None

InTable(p, m) == {f \in flow_table : flow[f].pmd_id = p /\ flow[f].mega_ufid = m}

(* One reference for the table, one for the item in the list.              *)
dp_netdev_flow_add(p, m) ==
  /\ ~Locked(p) /\ InTable(p, m) = {}
  /\ \E f \in Flows :
       /\ flow[f] = Unused
       /\ flow' = [flow EXCEPT ![f] = [Unused EXCEPT
                     !.pmd_id = p, !.mega_ufid = m, !.ref_cnt = 2]]
       /\ flow_table' = flow_table \cup {f}
       /\ Append1("ADD", f)
  /\ UNCHANGED <<removing, pc, item, held, marking, card>>

flow_modify(p) ==
  /\ ~Locked(p)
  /\ \E f \in flow_table :
       /\ flow[f].pmd_id = p
       /\ flow' = Ref(f)
       /\ Append1("MOD", f)
  /\ UNCHANGED <<tables, pc, item, held, marking, card>>

(* dp_netdev_pmd_remove_flow looks at the mark, and only then sets dead.   *)
remove_flow(p) ==
  /\ ~Locked(p)
  /\ \E f \in flow_table :
       /\ flow[f].pmd_id = p
       /\ flow_table' = flow_table \ {f}
       /\ removing' = [removing EXCEPT ![p] = f]
       /\ IF flow[f].mark # INVALID_FLOW_MARK
          THEN flow' = Ref(f) /\ Append1("DEL", f)
          ELSE UNCHANGED <<flow, list, asleep>>
  /\ UNCHANGED <<pc, item, held, marking, card>>

remove_flow_dead(p) ==
  /\ Locked(p)
  /\ flow' = Unref([flow EXCEPT ![removing[p]].dead = TRUE], removing[p], 1)
  /\ removing' = [removing EXCEPT ![p] = None]
  /\ UNCHANGED <<flow_table, list, thread, marking, card>>

(* The card was to delete the rules of these mega flows.                   *)
Deletes(megas) ==
  undeleted' = {m \in undeleted \cup megas : hw'[m] # INVALID_FLOW_MARK}

(* do_del_port flushes the card, which may keep rules all the same, and    *)
(* takes the flow API from the port.                                       *)
do_del_port ==
  /\ port_up /\ port_up' = FALSE
  /\ \E kept \in SUBSET Megas :
       hw' = [m \in Megas |-> IF m \in kept THEN hw[m] ELSE INVALID_FLOW_MARK]
  /\ Deletes(Megas)
  /\ UNCHANGED <<flow, tables, list, thread, marking>>

do_add_port ==
  /\ ~port_up /\ port_up' = TRUE
  /\ UNCHANGED <<flow, tables, list, thread, marking, hw, undeleted>>

-----------------------------------------------------------------------------
(* The offload thread.                                                     *)

offload_wait ==
  /\ pc = "idle" /\ list = <<>> /\ ~asleep
  /\ asleep' = TRUE
  /\ UNCHANGED <<flow, tables, list, pc, item, held, marking, card>>

offload_pop ==
  /\ pc = "idle" /\ ~asleep /\ list # <<>>
  /\ item' = Head(list) /\ list' = Tail(list)
  /\ pc' = IF item'.op = "DEL" THEN "disassociate" ELSE "put"
  /\ UNCHANGED <<flow, tables, asleep, held, marking, card>>

(* dp_netdev_free_flow_offload, with a reference that goes before it.      *)
Finish(fl, refs) ==
  /\ flow' = Unref(fl, item.flow, 1 + refs)
  /\ pc' = "idle" /\ item' = NoItem /\ held' = INVALID_FLOW_MARK

mega == flow[item.flow].mega_ufid

(* A MOD of a flow that has no mark is an addition.                        *)
modification == item.op = "MOD" /\ flow[item.flow].mark # INVALID_FLOW_MARK

put_dead ==
  /\ pc = "put" /\ flow[item.flow].dead
  /\ Finish(flow, 0)
  /\ UNCHANGED <<tables, list, asleep, marking, card>>

put_alive ==
  /\ pc = "put" /\ ~flow[item.flow].dead
  /\ IF modification
     THEN pc' = "hw" /\ held' = flow[item.flow].mark
     ELSE pc' = "find" /\ UNCHANGED held
  /\ UNCHANGED <<flow, tables, list, asleep, item, marking, card>>

(* The association takes a reference as the item gives one back.           *)
Associate(mark) ==
  /\ mark_to_flow' = mark_to_flow \cup {item.flow}
  /\ flow' = [flow EXCEPT ![item.flow].mark = mark]
  /\ pc' = "idle" /\ item' = NoItem /\ held' = INVALID_FLOW_MARK

(* Another thread has had the mega flow offloaded.                         *)
put_found ==
  /\ pc = "find" /\ megaflow_to_mark[mega] # INVALID_FLOW_MARK
  /\ IF flow[item.flow].mark # INVALID_FLOW_MARK
     THEN Finish(flow, 0) /\ UNCHANGED mark_to_flow
     ELSE Associate(megaflow_to_mark[mega])
  /\ UNCHANGED <<tables, list, asleep, pool, megaflow_to_mark, card>>

put_no_mark ==
  /\ pc = "find" /\ megaflow_to_mark[mega] = INVALID_FLOW_MARK
  /\ pool = Marks
  /\ Finish(flow, 0)
  /\ UNCHANGED <<tables, list, asleep, marking, card>>

flow_mark_alloc ==
  /\ pc = "find" /\ megaflow_to_mark[mega] = INVALID_FLOW_MARK
  /\ \E mark \in Marks \ pool : held' = mark /\ pool' = pool \cup {mark}
  /\ pc' = "hw"
  /\ UNCHANGED <<flow, tables, list, asleep, item, megaflow_to_mark, mark_to_flow, card>>

netdev_flow_put ==
  /\ pc = "hw" /\ port_up
  /\ hw' = [hw EXCEPT ![mega] = held] /\ undeleted' = undeleted \ {mega}
  /\ IF modification
     THEN Finish(flow, 0)
     ELSE pc' = "associate" /\ UNCHANGED <<flow, item, held>>
  /\ UNCHANGED <<tables, list, asleep, marking, port_up>>

(* No port, or the card refuses; what it had for the mega flow may be gone.*)
put_failed ==
  /\ pc = "hw"
  /\ \/ hw' = hw
     \/ port_up /\ hw' = [hw EXCEPT ![mega] = INVALID_FLOW_MARK]
  /\ Deletes({})
  /\ IF modification
     THEN pc' = "disassociate" /\ UNCHANGED <<flow, item, held, pool>>
     ELSE pool' = pool \ {held} /\ Finish(flow, 0)
  /\ UNCHANGED <<tables, list, asleep, megaflow_to_mark, mark_to_flow, port_up>>

put_associate ==
  /\ pc = "associate"
  /\ megaflow_to_mark' = [megaflow_to_mark EXCEPT ![mega] = held]
  /\ Associate(held)
  /\ UNCHANGED <<tables, list, asleep, pool, card>>

flow_mark_has_no_refItself(mark) ==     \* mutant: the flow is still on the list
  \A f \in mark_to_flow : flow[f].mark # mark
flow_mark_has_no_ref(mark) ==
  \A f \in mark_to_flow \ {item.flow} : flow[f].mark # mark

del_no_mark ==
  /\ pc = "disassociate" /\ flow[item.flow].mark = INVALID_FLOW_MARK
  /\ Finish(flow, 0)
  /\ UNCHANGED <<tables, list, asleep, marking, card>>

mark_to_flow_disassociate ==
  /\ pc = "disassociate" /\ flow[item.flow].mark # INVALID_FLOW_MARK
  /\ mark_to_flow' = mark_to_flow \ {item.flow}
  /\ LET unmarked == [flow EXCEPT ![item.flow].mark = INVALID_FLOW_MARK] IN
     IF flow_mark_has_no_ref(flow[item.flow].mark)
     THEN /\ pc' = "netdev_flow_del" /\ held' = flow[item.flow].mark
          /\ flow' = unmarked /\ UNCHANGED item
     ELSE Finish(unmarked, 1)
  /\ UNCHANGED <<tables, list, asleep, pool, megaflow_to_mark, card>>

netdev_flow_delDead ==     \* mutant: the rule goes only when the flow is dead
  /\ pc = "netdev_flow_del"
  /\ hw' = IF flow[item.flow].dead THEN [hw EXCEPT ![mega] = INVALID_FLOW_MARK] ELSE hw
  /\ UNCHANGED undeleted
  /\ pool' = pool \ {held}
  /\ megaflow_to_mark' = [megaflow_to_mark EXCEPT ![mega] = INVALID_FLOW_MARK]
  /\ Finish(flow, 1)
  /\ UNCHANGED <<tables, list, asleep, mark_to_flow, port_up>>
(* The mark is given up whatever the card answers, and when there is no    *)
(* port to ask.                                                            *)
netdev_flow_del ==
  /\ pc = "netdev_flow_del"
  /\ \/ hw' = hw
     \/ port_up /\ hw' = [hw EXCEPT ![mega] = INVALID_FLOW_MARK]
  /\ Deletes({mega})
  /\ pool' = pool \ {held}
  /\ megaflow_to_mark' = [megaflow_to_mark EXCEPT ![mega] = INVALID_FLOW_MARK]
  /\ Finish(flow, 1)
  /\ UNCHANGED <<tables, list, asleep, mark_to_flow, port_up>>

-----------------------------------------------------------------------------
(* dp_netdev_hw_flow: the flows that a PMD thread may find for a packet    *)
(* with this mark.                                                         *)
mark_to_flow_findDead(p, mark) ==     \* mutant: dead is not looked at
  {f \in mark_to_flow : flow[f].mark = mark /\ flow[f].pmd_id = p}
mark_to_flow_find(p, mark) ==
  {f \in mark_to_flow : flow[f].mark = mark /\ flow[f].pmd_id = p /\ ~flow[f].dead}

-----------------------------------------------------------------------------
TableStep(p) ==
  \/ \E m \in Megas : dp_netdev_flow_add(p, m)
  \/ flow_modify(p) \/ remove_flow(p) \/ remove_flow_dead(p)

OffloadStep ==
  \/ offload_wait \/ offload_pop
  \/ put_dead \/ put_alive \/ put_found \/ put_no_mark \/ flow_mark_alloc
  \/ netdev_flow_put \/ put_failed \/ put_associate
  \/ del_no_mark \/ mark_to_flow_disassociate \/ netdev_flow_del

Next ==
  \/ \E p \in Pmds : TableStep(p)
  \/ do_del_port \/ do_add_port
  \/ OffloadStep

Spec == Init /\ [][Next]_vars

(* The offload thread runs, and nobody keeps a flow_mutex.                 *)
FairSpec ==
  /\ Spec /\ WF_vars(OffloadStep)
  /\ \A p \in Pmds : WF_vars(remove_flow_dead(p))

-----------------------------------------------------------------------------
FlowRecords ==
  [pmd_id : Pmds \cup {None}, mega_ufid : Megas \cup {None},
   mark : Marks \cup {INVALID_FLOW_MARK}, dead : BOOLEAN, ref_cnt : Nat]
Items == [op : {"ADD", "MOD", "DEL"}, flow : Flows]

TypeOK ==
  /\ flow \in [Flows -> FlowRecords]
  /\ flow_table \in SUBSET Flows /\ removing \in [Pmds -> Flows \cup {None}]
  /\ list \in Seq(Items)
  /\ pc \in {"idle", "put", "find", "hw", "associate", "disassociate", "netdev_flow_del"}
  /\ asleep \in BOOLEAN /\ port_up \in BOOLEAN
  /\ IF pc = "idle" THEN item = NoItem ELSE item \in Items
  /\ held \in Marks \cup {INVALID_FLOW_MARK} /\ pool \in SUBSET Marks
  /\ megaflow_to_mark \in [Megas -> Marks \cup {INVALID_FLOW_MARK}]
  /\ mark_to_flow \in SUBSET Flows
  /\ hw \in [Megas -> Marks \cup {INVALID_FLOW_MARK}]
  /\ undeleted \in SUBSET Megas

(* A mark is taken while a mega flow has it or is getting it, one mark for *)
(* each; every flow that holds it is one of that mega flow, and there is   *)
(* one as long as the mega flow has the mark.                              *)
Adding == pc \in {"hw", "associate"} /\ ~modification

MarksOwned ==
  /\ \A f \in Flows : f \in mark_to_flow <=> flow[f].mark # INVALID_FLOW_MARK
  /\ \A f \in mark_to_flow : flow[f].mark = megaflow_to_mark[flow[f].mega_ufid]
  /\ \A m, n \in Megas :
       m # n /\ megaflow_to_mark[m] = megaflow_to_mark[n] =>
         megaflow_to_mark[m] = INVALID_FLOW_MARK
  /\ \A m \in Megas :
       megaflow_to_mark[m] # INVALID_FLOW_MARK =>
         \/ \E f \in mark_to_flow : flow[f].mega_ufid = m
         \/ pc = "netdev_flow_del" /\ mega = m
  /\ \A mark \in Marks :
       mark \in pool <=>
         \/ \E m \in Megas : megaflow_to_mark[m] = mark
         \/ Adding /\ mark = held

(* A rule in the card has the mark its mega flow has, or is about to have; *)
(* only a rule that the card has refused to delete may have the mark of    *)
(* another mega flow, and only while its own has none.                     *)
HardwareOwned ==
  \A m \in Megas :
    hw[m] # INVALID_FLOW_MARK =>
      \/ hw[m] = megaflow_to_mark[m]
      \/ pc = "associate" /\ mega = m /\ hw[m] = held
      \/ m \in undeleted /\ megaflow_to_mark[m] = INVALID_FLOW_MARK

(* A packet the card has marked finds the flow of its mega flow, unless    *)
(* the card was to delete the rule: there is no other the thread could     *)
(* take for it, neither of another mega flow nor one that was replaced.    *)
FoundByMark ==
  \A m \in Megas, p \in Pmds :
    hw[m] # INVALID_FLOW_MARK /\ m \notin undeleted =>
      \A f, g \in mark_to_flow_find(p, hw[m]) : flow[f].mega_ufid = m /\ f = g

InList(l, f) == Cardinality({i \in DOMAIN l : l[i].flow = f})

References(f) ==
  LET one(b) == IF b THEN 1 ELSE 0 IN
  one(f \in flow_table) + one(f \in mark_to_flow) + one(\E p \in Pmds : removing[p] = f)
    + InList(list, f) + one(item.flow = f) + one(item.flow = f /\ pc = "netdev_flow_del")

(* The reference count of a flow is that of the places that refer to it;   *)
(* in particular none of them refers to freed memory, and no flow that     *)
(* nothing refers to stays allocated.                                      *)
RefsExact == \A f \in Flows : flow[f].ref_cnt = References(f)

(* Whoever deletes a flow that has a mark gets rid of both: the flow loses *)
(* the mark and its memory is freed.  (A flow that gets its mark between   *)
(* remove_flow's look at it and the store of dead is not in the list, and  *)
(* keeps mark, rule and memory for good.)                                  *)
RemovedFlowsAreFreed ==
  \A f \in Flows :
    flow[f].dead /\ (\E i \in DOMAIN list : list[i] = [op |-> "DEL", flow |-> f])
      ~> flow[f] = Unused

=============================================================================
