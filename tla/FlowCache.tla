------------------------------ MODULE FlowCache ------------------------------
(***************************************************************************)
(* How a PMD thread finds the flows of a batch of packets (dpif-netdev.c): *)
(* in its exact match cache (EMC), its signature match cache (SMC), its    *)
(* classifier, and at last by an upcall that makes a flow.  Meanwhile      *)
(* other threads add flows to the thread's table and remove them, under    *)
(* its flow_mutex; the lookups take no lock.                               *)
(*                                                                         *)
(* A flow matches the keys of one mega flow.  Mega flows do not overlap:   *)
(* the upcall sees to it.  The classifier's inside is Classifier; marks    *)
(* and the card are FlowOffload, so the flow API is off here.  An action   *)
(* that recirculates packets begins another batch.                         *)
(***************************************************************************)
EXTENDS Naturals, SequencesExt, FiniteSets

CONSTANTS
  Keys,         \* what the miniflow of a packet can be
  Megas,        \* mega flows
  mega_of,      \* the mega flow that matches a key
  key_hash,     \* netdev_flow_key's hash, 1 and up
  emc_pos,      \* the two EMC entries of a key, in the order they are tried
  smc_sig,      \* the upper half of the hash; all keys are in one bucket
  Flows,        \* bound: the memory flows are allocated from
  EMC_ENTRIES,  \* entries of the EMC
  SMC_ENTRIES,  \* entries of the SMC bucket
  TABLE_SLOTS,  \* bound: positions of a flow in pmd->flow_table
  SMC_INDEXES,  \* the positions an SMC entry can hold
  Runt,         \* a packet too short for an Ethernet header
  None,
  Settings,     \* the sets of caches that can be in use at a time
  Batches       \* bound: the batches that are received

CacheAssumption ==
  /\ mega_of \in [Keys -> Megas] /\ key_hash \in [Keys -> Nat \ {0}]
  /\ smc_sig \in [Keys -> Nat] /\ SMC_INDEXES \subseteq TABLE_SLOTS
  /\ emc_pos \in [Keys -> EMC_ENTRIES \X EMC_ENTRIES] /\ IsFiniteSet(EMC_ENTRIES)
  /\ Settings \subseteq SUBSET {"EMC", "SMC"}
  /\ Batches \subseteq Seq(Keys \cup {Runt}) \ {<<>>}
  /\ None \notin Keys \cup Megas \cup Flows \cup TABLE_SLOTS
  /\ Runt \notin Keys \cup Flows \cup {None}

VARIABLES
  flow,         \* struct dp_netdev_flow; Unused when it is freed
  classifier,   \* the flows in pmd->classifiers
  flow_table,   \* the flow at each position of pmd->flow_table
  updating,     \* what the holder of flow_mutex has still to do, and to which flow
  emc, smc,     \* pmd->flow_cache
  pc, in        \* dp_netdev_input__: where it is, and with what

table == <<flow, classifier, flow_table, updating>>
cache == <<emc, smc>>
input == <<pc, in>>
vars == <<table, cache, input>>

Unused == [mega |-> None, dead |-> FALSE, ref_cnt |-> 0]
Idle == [op |-> "none", flow |-> None]
UPCALL == Runt     \* executed by the upcall, by no flow

NoBatch == [
  caching  |-> {},      \* which of the two caches may be used
  packets  |-> <<>>,    \* the batch, by order of arrival
  next     |-> 1,       \* the place each loop has come to
  missed   |-> <<>>,    \* the packets of the array, with their places in flow_map
  rules    |-> <<>>,    \* what the classifier gave for them
  made     |-> None,    \* the flow handle_packet_upcall has found or made
  flow_map |-> <<>>,    \* packets that are not batched yet, and their flows
  batches  |-> <<>>,    \* packets by flow, in the order they will be executed
  executed |-> <<>>,    \* packets whose actions have been executed, and by which flow
  dropped  |-> {},      \* packets that have been dropped
  dead     |-> {},      \* observed: the flows that were dead when the batch came
  removed  |-> FALSE ]  \* observed: a flow was removed while the batch was here

(* dfc_cache_init *)
Init ==
  /\ flow = [f \in Flows |-> Unused] /\ classifier = {}
  /\ flow_table = [s \in TABLE_SLOTS |-> None] /\ updating = Idle
  /\ emc = [e \in EMC_ENTRIES |-> [key |-> None, flow |-> None]]
  /\ smc = [e \in SMC_ENTRIES |-> [sig |-> 0, flow_idx |-> None]]
  /\ pc = "idle" /\ in = NoBatch

-----------------------------------------------------------------------------
(* The flow table.                                                         *)

TableFlows == {flow_table[s] : s \in TABLE_SLOTS} \ {None}

(* Inserting into a cuckoo map may move what is there.                     *)
Places(flows) ==
  {t \in [TABLE_SLOTS -> flows \cup {None}] :
     \A f \in flows : Cardinality({s \in TABLE_SLOTS : t[s] = f}) = 1}

dp_netdev_pmd_lookup_flow(k) == {f \in classifier : flow[f].mega = mega_of[k]}

Allocate(f, m) ==
  /\ flow[f] = Unused
  /\ flow' = [flow EXCEPT ![f] = [Unused EXCEPT !.mega = m, !.ref_cnt = 1]]

(* flow_put_on_pmd: a rule first, then a place in the table.               *)
flow_put ==
  /\ updating = Idle
  /\ \E m \in Megas, f \in Flows :
       /\ \A g \in classifier : flow[g].mega # m
       /\ Allocate(f, m)
       /\ classifier' = classifier \cup {f}
       /\ updating' = [op |-> "put", flow |-> f]
  /\ UNCHANGED <<flow_table, cache, input>>

flow_put_table ==
  /\ updating.op = "put"
  /\ flow_table' \in Places(TableFlows \cup {updating.flow})
  /\ updating' = Idle
  /\ UNCHANGED <<flow, classifier, cache, input>>

(* dp_netdev_pmd_remove_flow *)
flow_del ==
  /\ updating = Idle
  /\ \E f \in classifier :
       classifier' = classifier \ {f} /\ updating' = [op |-> "del", flow |-> f]
  /\ in' = [in EXCEPT !.removed = pc # "idle"]
  /\ UNCHANGED <<flow, flow_table, cache, pc>>

flow_del_table ==
  /\ updating.op = "del"
  /\ flow_table' = [s \in TABLE_SLOTS |->
       IF flow_table[s] = updating.flow THEN None ELSE flow_table[s]]
  /\ updating' = [updating EXCEPT !.op = "dead"]
  /\ UNCHANGED <<flow, classifier, cache, input>>

flow_del_dead ==
  /\ updating.op = "dead"
  /\ flow' = [flow EXCEPT ![updating.flow].dead = TRUE,
                          ![updating.flow].ref_cnt = @ - 1]
  /\ updating' = Idle
  /\ UNCHANGED <<classifier, flow_table, cache, input>>

(* Freeing is postponed until the thread has been quiescent.               *)
Quiesce ==
  /\ pc = "idle"
  /\ \E f \in Flows : flow[f] # Unused /\ flow[f].ref_cnt = 0
  /\ flow' = [f \in Flows |-> IF flow[f].ref_cnt = 0 THEN Unused ELSE flow[f]]
  /\ UNCHANGED <<classifier, flow_table, updating, cache, input>>

-----------------------------------------------------------------------------
(* The caches.                                                             *)

emc_entry_aliveAny(e) == emc[e].flow # None     \* mutant: dead flows are taken
emc_entry_alive(e) == emc[e].flow # None /\ ~flow[emc[e].flow].dead

emc_lookup(k) ==
  LET hit(e) == emc[e].key = k /\ emc_entry_alive(e)
  IN  IF hit(emc_pos[k][1]) THEN emc[emc_pos[k][1]].flow
      ELSE IF hit(emc_pos[k][2]) THEN emc[emc_pos[k][2]].flow
      ELSE None

HashAt(e) == IF emc[e].key = None THEN 0 ELSE key_hash[emc[e].key]

(* The entry with the key, or else the second if it is better than the    *)
(* first: free where that is not, or of a lower hash.                      *)
EntryFor(k) ==
  LET first == emc_pos[k][1]
      second == emc_pos[k][2]
      better ==
        \/ emc_entry_alive(first) /\ ~emc_entry_alive(second)
        \/ HashAt(second) < HashAt(first)
  IN  IF emc[first].key = k THEN first
      ELSE IF emc[second].key = k \/ better THEN second
      ELSE first

emc_insertNoUnref(fl, k, f) ==     \* mutant: the old flow keeps its reference
  /\ emc' = [emc EXCEPT ![EntryFor(k)] =
       [key |-> k, flow |-> IF fl[f].ref_cnt > 0 THEN f ELSE None]]
  /\ flow' = [fl EXCEPT ![f].ref_cnt = IF @ > 0 THEN @ + 1 ELSE @]

(* emc_change_entry: the entry's old flow loses a reference, the new one   *)
(* gets one unless it has none left.                                       *)
emc_insert(fl, k, f) ==
  LET e == EntryFor(k)
      was == emc[e].flow
      same == was = f
      got == fl[f].ref_cnt > 0
  IN  /\ emc' = [emc EXCEPT ![e] =
           [key |-> k, flow |-> IF same \/ got THEN f ELSE None]]
      /\ flow' = [g \in Flows |-> [fl[g] EXCEPT !.ref_cnt =
           @ - (IF g = was /\ ~same THEN 1 ELSE 0)
             + (IF g = f /\ ~same /\ got THEN 1 ELSE 0)]]

(* Only a share of the insertions is made.                                 *)
emc_probabilistic_insert(fl, k, f) ==
  \/ "EMC" \in in.caching /\ emc_insert(fl, k, f)
  \/ flow' = fl /\ UNCHANGED emc

emc_cache_slow_sweep ==
  /\ pc = "idle"
  /\ \E e \in EMC_ENTRIES :
       /\ emc[e].flow # None /\ ~emc_entry_alive(e)
       /\ emc' = [emc EXCEPT ![e].flow = None]
       /\ flow' = [flow EXCEPT ![emc[e].flow].ref_cnt = @ - 1]
  /\ UNCHANGED <<classifier, flow_table, updating, smc, input>>

First(S) == {e \in S : \A o \in S : e <= o}
SmcEntries(k) == {e \in SMC_ENTRIES : smc[e].sig = smc_sig[k]}

(* The flow at the position the first entry with the signature holds.      *)
smc_lookup(k) ==
  LET idx == {smc[e].flow_idx : e \in First(SmcEntries(k))} \ {None}
      hits == {f \in {flow_table[i] : i \in idx} \ {None} : flow[f].mega = mega_of[k]}
  IN  IF hits = {} THEN None ELSE CHOOSE f \in hits : TRUE

(* Positions an entry cannot hold, and flows that have left the table, are *)
(* not inserted.                                                           *)
smc_insert(k, f) ==
  LET idx == {s \in SMC_INDEXES : flow_table[s] = f}
      empty == {e \in SMC_ENTRIES : smc[e].flow_idx = None}
      entry == IF SmcEntries(k) # {} THEN First(SmcEntries(k))
               ELSE IF empty # {} THEN First(empty) ELSE SMC_ENTRIES
  IN  IF "SMC" \notin in.caching \/ idx = {} THEN UNCHANGED smc
      ELSE \E e \in entry, s \in idx :
             smc' = [smc EXCEPT ![e] = [sig |-> smc_sig[k], flow_idx |-> s]]

-----------------------------------------------------------------------------
(* dp_netdev_input__ *)

Receive ==
  /\ pc = "idle" /\ pc' = "dfc"
  /\ \E packets \in Batches, c \in Settings :
       in' = [NoBatch EXCEPT !.packets = packets, !.caching = c,
                             !.dead = {f \in Flows : flow[f].dead},
                             !.removed = updating.op \in {"del", "dead"}]
  /\ UNCHANGED <<table, cache>>

(* A packet joins the batch its flow has already.                          *)
dp_netdev_queue_batches(batches, i, f) ==
  IF \E j \in DOMAIN batches : batches[j].flow = f
  THEN [j \in DOMAIN batches |->
          IF batches[j].flow = f THEN [batches[j] EXCEPT !.packets = Append(@, i)]
          ELSE batches[j]]
  ELSE Append(batches, [flow |-> f, packets |-> <<i>>])

(* Flow batching stops with the first miss, or packets would be reordered. *)
batch_enableAlways == TRUE     \* mutant: batching goes on
batch_enable == in.missed = <<>>

Mapped(f) == [in EXCEPT !.flow_map = Append(@, [packet |-> in.next, flow |-> f])]

(* One packet of dfc_processing.                                           *)
dfc_processing ==
  /\ pc = "dfc" /\ in.next <= Len(in.packets)
  /\ LET i == in.next
         k == in.packets[i]
         f == IF k # Runt /\ "EMC" \in in.caching THEN emc_lookup(k) ELSE None
         did ==
           IF k = Runt THEN [in EXCEPT !.dropped = @ \cup {i}]
           ELSE IF f = None
           THEN [Mapped(None) EXCEPT !.missed =
                   Append(@, [packet |-> i, recv_idx |-> Len(in.flow_map) + 1])]
           ELSE IF batch_enable
           THEN [in EXCEPT !.batches = dp_netdev_queue_batches(@, i, f)]
           ELSE Mapped(f)
     IN  in' = [did EXCEPT !.next = i + 1]
  /\ UNCHANGED <<table, cache, pc>>

dfc_done ==
  /\ pc = "dfc" /\ in.next > Len(in.packets)
  /\ pc' = IF "SMC" \in in.caching THEN "smc" ELSE "lookup"
  /\ in' = [in EXCEPT !.next = 1]
  /\ UNCHANGED <<table, cache>>

-----------------------------------------------------------------------------
Current == in.missed[in.next]
Key == in.packets[Current.packet]
AtEnd == in.next > Len(in.missed)
Advance(i) == [i EXCEPT !.next = @ + 1]

(* packet_enqueue_to_flow_map, at the packet's place in the order received *)
Enqueued(f) ==
  [in EXCEPT !.flow_map[Current.recv_idx] = [packet |-> Current.packet, flow |-> f]]

(* One packet of smc_lookup_batch.  Those that miss stay in the array.     *)
smc_hit ==
  /\ pc = "smc" /\ ~AtEnd /\ smc_lookup(Key) # None
  /\ emc_probabilistic_insert(flow, Key, smc_lookup(Key))
  /\ in' = [Enqueued(smc_lookup(Key)) EXCEPT !.missed =
               SubSeq(@, 1, in.next - 1) \o SubSeq(@, in.next + 1, Len(@))]
  /\ UNCHANGED <<classifier, flow_table, updating, smc, pc>>

smc_miss ==
  /\ pc = "smc" /\ ~AtEnd /\ smc_lookup(Key) = None
  /\ in' = Advance(in)
  /\ UNCHANGED <<table, cache, pc>>

smc_done ==
  /\ pc = "smc" /\ AtEnd /\ pc' = "lookup"
  /\ in' = [in EXCEPT !.next = 1]
  /\ UNCHANGED <<table, cache>>

-----------------------------------------------------------------------------
(* fast_path_processing *)

(* dpcls_lookup has no lock: each packet sees the classifier of its time.  *)
dpcls_lookup ==
  /\ pc = "lookup" /\ ~AtEnd
  /\ LET found == dp_netdev_pmd_lookup_flow(Key) IN
     \E f \in (IF found = {} THEN {None} ELSE found) :
       in' = Advance([in EXCEPT !.rules = Append(@, f)])
  /\ UNCHANGED <<table, cache, pc>>

(* upcall_rwlock is taken if it is free; else the packets are dropped.     *)
lookup_done ==
  /\ pc = "lookup" /\ AtEnd
  /\ LET unmatched == {i \in DOMAIN in.rules : in.rules[i] = None}
         from1 == [in EXCEPT !.next = 1]
     IN  \/ pc' = "upcall" /\ unmatched # {} /\ in' = from1
         \/ pc' = "enqueue" /\ in' = [from1 EXCEPT
              !.dropped = @ \cup {in.missed[i].packet : i \in unmatched}]
  /\ UNCHANGED <<table, cache>>

Unmatched == pc = "upcall" /\ ~AtEnd /\ in.rules[in.next] = None

upcall_skip ==
  /\ pc = "upcall" /\ ~AtEnd /\ in.rules[in.next] # None
  /\ in' = Advance(in)
  /\ UNCHANGED <<table, cache, pc>>

(* An earlier upcall, or another thread, has made the flow.                *)
upcall_found ==
  /\ Unmatched
  /\ \E f \in dp_netdev_pmd_lookup_flow(Key) :
       in' = Advance([in EXCEPT !.rules[in.next] = f])
  /\ UNCHANGED <<table, cache, pc>>

upcall_error ==
  /\ Unmatched /\ dp_netdev_pmd_lookup_flow(Key) = {}
  /\ in' = Advance([in EXCEPT !.dropped = @ \cup {Current.packet}])
  /\ UNCHANGED <<table, cache, pc>>

(* The actions are executed at once; a flow is made unless space ran out.  *)
handle_packet_upcall ==
  /\ Unmatched /\ dp_netdev_pmd_lookup_flow(Key) = {}
  /\ LET done == [in EXCEPT !.executed =
                    Append(@, [packet |-> Current.packet, flow |-> UPCALL])]
     IN  \/ pc' = "install" /\ in' = done
         \/ pc' = "upcall" /\ in' = Advance(done)
  /\ UNCHANGED <<table, cache>>

(* Under flow_mutex: another thread may have added the flow meanwhile.     *)
install ==
  /\ pc = "install" /\ updating = Idle
  /\ \E f \in Flows :
       /\ in' = [in EXCEPT !.made = f]
       /\ \/ /\ f \in dp_netdev_pmd_lookup_flow(Key)
             /\ UNCHANGED <<flow, classifier, flow_table>>
          \/ /\ dp_netdev_pmd_lookup_flow(Key) = {}
             /\ Allocate(f, mega_of[Key])
             /\ classifier' = classifier \cup {f}
             /\ flow_table' \in Places(TableFlows \cup {f})
  /\ pc' = "insert"
  /\ UNCHANGED <<updating, cache>>

(* Without the lock: the flow may be gone again.                           *)
install_insert ==
  /\ pc = "insert" /\ pc' = "upcall"
  /\ smc_insert(Key, in.made)
  /\ emc_probabilistic_insert(flow, Key, in.made)
  /\ in' = Advance([in EXCEPT !.made = None])
  /\ UNCHANGED <<classifier, flow_table, updating>>

upcall_done ==
  /\ pc = "upcall" /\ AtEnd /\ pc' = "enqueue"
  /\ in' = [in EXCEPT !.next = 1]
  /\ UNCHANGED <<table, cache>>

(* Packets with a rule go to the caches and to their places in flow_map.   *)
enqueue ==
  /\ pc = "enqueue" /\ ~AtEnd
  /\ LET f == in.rules[in.next] IN
     IF f = None THEN in' = Advance(in) /\ UNCHANGED <<flow, cache>>
     ELSE /\ smc_insert(Key, f)
          /\ emc_probabilistic_insert(flow, Key, f)
          /\ in' = Advance(Enqueued(f))
  /\ UNCHANGED <<classifier, flow_table, updating, pc>>

-----------------------------------------------------------------------------
(* The rest of the batch is batched by flow, and the batches are executed. *)

enqueue_done ==
  /\ pc = "enqueue" /\ AtEnd /\ pc' = "queue"
  /\ in' = [in EXCEPT !.next = 1]
  /\ UNCHANGED <<table, cache>>

queue ==
  /\ pc = "queue" /\ in.next <= Len(in.flow_map)
  /\ LET map == in.flow_map[in.next] IN
     in' = Advance(IF map.flow = None THEN in
                   ELSE [in EXCEPT !.batches =
                           dp_netdev_queue_batches(@, map.packet, map.flow)])
  /\ UNCHANGED <<table, cache, pc>>

queue_done ==
  /\ pc = "queue" /\ in.next > Len(in.flow_map) /\ pc' = "execute"
  /\ in' = [in EXCEPT !.next = 1]
  /\ UNCHANGED <<table, cache>>

Run(b) == [i \in DOMAIN b.packets |-> [packet |-> b.packets[i], flow |-> b.flow]]

packet_batch_per_flow_execute ==
  /\ pc = "execute" /\ in.next <= Len(in.batches)
  /\ in' = Advance([in EXCEPT !.executed = @ \o Run(in.batches[in.next])])
  /\ UNCHANGED <<table, cache, pc>>

Done == pc = "execute" /\ in.next > Len(in.batches)

Return ==
  /\ Done /\ pc' = "idle" /\ in' = NoBatch
  /\ UNCHANGED <<table, cache>>

-----------------------------------------------------------------------------
UpdateStep == flow_put \/ flow_put_table \/ flow_del \/ flow_del_table \/ flow_del_dead

PmdStep ==
  \/ Quiesce \/ emc_cache_slow_sweep \/ Receive
  \/ dfc_processing \/ dfc_done \/ smc_hit \/ smc_miss \/ smc_done
  \/ dpcls_lookup \/ lookup_done
  \/ upcall_skip \/ upcall_found \/ upcall_error \/ handle_packet_upcall
  \/ install \/ install_insert \/ upcall_done \/ enqueue \/ enqueue_done
  \/ queue \/ queue_done \/ packet_batch_per_flow_execute \/ Return

Next == UpdateStep \/ PmdStep

Spec == Init /\ [][Next]_vars

-----------------------------------------------------------------------------
Held ==   \* what the thread holds of flows, for packets of the batch
  {<<in.missed[i].packet, in.rules[i]>> : i \in DOMAIN in.rules \cap DOMAIN in.missed}
    \cup {<<in.flow_map[i].packet, in.flow_map[i].flow>> : i \in DOMAIN in.flow_map}
    \cup (IF pc = "insert" THEN {<<Current.packet, in.made>>} ELSE {})
    \cup UNION {{<<b.packets[i], b.flow>> : i \in DOMAIN b.packets} : b \in ToSet(in.batches)}

(* Whichever cache it came from, the flow a packet is given matches it, is *)
(* still allocated, and was not removed before the batch came: a cache     *)
(* never brings back a flow that is gone, also when its memory or its      *)
(* place in the table belongs to another.                                  *)
RightFlow ==
  \A h \in Held :
    h[2] # None =>
      /\ flow[h[2]].mega = mega_of[in.packets[h[1]]]
      /\ h[2] \notin in.dead

(* Packets of one flow are executed in the order they came.  So are those  *)
(* of one mega flow, but when a flow is removed during the batch: then a   *)
(* packet of the upcall overtakes those the flow still has.                *)
NotOvertaken ==
  \A i, j \in DOMAIN in.executed :
    LET a == in.executed[i]
        b == in.executed[j]
    IN  /\ i < j
        /\ IF in.removed THEN a.flow = b.flow /\ a.flow # UPCALL
           ELSE mega_of[in.packets[a.packet]] = mega_of[in.packets[b.packet]]
        => a.packet < b.packet

(* Every packet of a batch is executed or dropped, and only once.          *)
EachOnce ==
  /\ \A i, j \in DOMAIN in.executed :
       in.executed[i].packet = in.executed[j].packet => i = j
  /\ \A i \in DOMAIN in.executed : in.executed[i].packet \notin in.dropped
  /\ Done =>
       DOMAIN in.packets = in.dropped \cup {e.packet : e \in ToSet(in.executed)}

(* A batch is executed packet by packet once each, and in order where the  *)
(* code can keep it: no packet is lost between the caches, the classifier  *)
(* and the batches by flow, and none is in two of them.                    *)
OrderKept == NotOvertaken /\ EachOnce

(* A flow's references are its place in the table and its EMC entries: so  *)
(* an entry never refers to freed memory, and once a removed flow has left *)
(* the entries it is freed.                                                *)
RefsExact ==
  \A f \in Flows :
    flow[f].ref_cnt =
      Cardinality({e \in EMC_ENTRIES : emc[e].flow = f})
      + (IF f \in classifier \/ updating.flow = f THEN 1 ELSE 0)

=============================================================================
