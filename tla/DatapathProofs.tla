--------------------------- MODULE DatapathProofs ---------------------------
(***************************************************************************)
(* The parts of the datapath that MCDatapath checks side by side, each     *)
(* proved for every value of its constants: hardware offload (FlowOffload, *)
(* which this module extends), the classifier (Class), the output batches  *)
(* (Output) and a meter (Metering).  They share no state.                  *)
(***************************************************************************)
EXTENDS FlowOffload, SequencesExt, FoldLemmas, SequenceTheorems

(* Of the classifier; see Classifier.                                      *)
CONSTANTS Keys, Rules, Masks, mask_of, matching, Subtables
VARIABLES cls, mask, rules, subtables_map, subtables, updating, lookup, seen

Class == INSTANCE Classifier

(* Of the output batches; see OutputBatch.                                 *)
CONSTANTS Ports, Sources, Buckets, NETDEV_MAX_BURST, Intervals, MaxTime, MaxOutputs
VARIABLES ctx_now, tx_flush_interval, tx_ports, send_port_cache, n_output_batches,
  tx_bond, tx_pc, batch, outputs, bonding, given, sent

Output == INSTANCE OutputBatch WITH pc <- tx_pc

(* Of a meter; see Meter.                                                  *)
CONSTANTS Configs, Batches, SCALE, DELTA_VALUES, Meters, MaxBatches
VARIABLES clock, pmd_now, meters, attached, using, log

Metering == INSTANCE Meter WITH now <- pmd_now

-----------------------------------------------------------------------------
(***************************************************************************)
(* For any number of threads, mega flows, flows and marks: the reference   *)
(* counts of flows are exact, every mark has one owner, and the card has   *)
(* no rule with the mark of another mega flow but one it was to delete.    *)
(*                                                                         *)
(* The three need each other.  A flow that is freed loses its mark, so     *)
(* that MarksOwned depends on RefsExact: what has a mark has a reference.  *)
(* What the offload thread reads of a flow before a step is still true     *)
(* after it (PcInv), since its item keeps the flow and since nobody else   *)
(* changes marks.                                                          *)
(***************************************************************************)
(* Memory that nothing refers to is free; other memory is a flow of a      *)
(* thread.                                                                 *)
AllocInv ==
  \A f \in Flows :
    IF flow[f].ref_cnt = 0 THEN flow[f] = Unused
    ELSE flow[f].mega_ufid \in Megas /\ flow[f].pmd_id \in Pmds

(* A thread removes a flow of its own, which is in no table any more.      *)
RemovingInv ==
  \A p \in Pmds : removing[p] # None =>
    removing[p] \notin flow_table /\ flow[removing[p]].pmd_id = p

(* What the offload thread knows at each place.                            *)
PcInv ==
  /\ Adding =>
       /\ held \in Marks /\ \A m \in Megas : megaflow_to_mark[m] # held
       /\ megaflow_to_mark[mega] = INVALID_FLOW_MARK
       /\ flow[item.flow].mark = INVALID_FLOW_MARK
  /\ pc = "associate" => ~modification /\ hw[mega] \in {INVALID_FLOW_MARK, held}
  /\ pc = "hw" /\ modification => held = flow[item.flow].mark
  /\ pc = "netdev_flow_del" =>
       /\ held = megaflow_to_mark[mega] /\ held # INVALID_FLOW_MARK
       /\ flow[item.flow].mark = INVALID_FLOW_MARK
       /\ \A f \in mark_to_flow : flow[f].mega_ufid # mega

MarksInv == MarksOwned /\ PcInv /\ HardwareOwned

Inv == TypeOK /\ AllocInv /\ RemovingInv /\ RefsExact /\ MarksInv

-----------------------------------------------------------------------------
(* Counting references. *)

LEMMA InListNat ==
  ASSUME NEW S, NEW l \in Seq(S), NEW f
  PROVE  /\ IsFiniteSet({i \in DOMAIN l : l[i].flow = f})
         /\ InList(l, f) \in Nat
         /\ InList(l, f) = 0 => \A i \in DOMAIN l : l[i].flow # f
<1> DEFINE T == {i \in DOMAIN l : l[i].flow = f}
<1>1. IsFiniteSet(1 .. Len(l))
  BY FS_Interval
<1>2. IsFiniteSet(T)
  BY <1>1, FS_Subset
<1>3. Cardinality(T) \in Nat /\ (Cardinality(T) = 0 => T = {})
  BY <1>2, FS_CardinalityType, FS_EmptySet
<1> QED BY <1>2, <1>3 DEF InList

LEMMA AppendCount ==
  ASSUME NEW S, NEW l \in Seq(S), NEW e \in S, NEW f
  PROVE  InList(Append(l, e), f) = InList(l, f) + (IF e.flow = f THEN 1 ELSE 0)
<1> DEFINE T == {i \in DOMAIN l : l[i].flow = f}
           A == {i \in DOMAIN Append(l, e) : Append(l, e)[i].flow = f}
<1>0. InList(l, f) = Cardinality(T) /\ InList(Append(l, e), f) = Cardinality(A)
  BY DEF InList
<1>1. IsFiniteSet(T) /\ Cardinality(T) \in Nat /\ Len(l) + 1 \notin T
  <2>1. IsFiniteSet(T) /\ InList(l, f) \in Nat
    BY InListNat
  <2>2. DOMAIN l = 1 .. Len(l) /\ Len(l) \in Nat
    OBVIOUS
  <2> QED BY <1>0, <2>1, <2>2
<1>2. CASE e.flow = f
  <2>1. A = T \cup {Len(l) + 1}
    BY <1>2, AppendProperties
  <2>2. Cardinality(T \cup {Len(l) + 1}) = Cardinality(T) + 1
    BY <1>1, FS_AddElement
  <2> HIDE DEF T, A
  <2> QED BY <1>0, <1>2, <2>1, <2>2
<1>3. CASE e.flow # f
  <2>1. A = T
    BY <1>3, AppendProperties
  <2> HIDE DEF T, A
  <2> QED BY <1>0, <1>1, <1>3, <2>1
<1> QED BY <1>2, <1>3

LEMMA TailCount ==
  ASSUME NEW S, NEW l \in Seq(S), l # <<>>, NEW f
  PROVE  InList(l, f) = InList(Tail(l), f) + (IF Head(l).flow = f THEN 1 ELSE 0)
<1> DEFINE T == {i \in DOMAIN l : l[i].flow = f}
           R == {i \in DOMAIN Tail(l) : Tail(l)[i].flow = f}
           A == {i \in T : i # 1}
           b == [i \in R |-> i + 1]
<1>t. /\ Tail(l) \in Seq(S) /\ Len(Tail(l)) = Len(l) - 1 /\ Len(l) \in Nat /\ Len(l) > 0
      /\ \A i \in 1 .. Len(Tail(l)) : Tail(l)[i] = l[i + 1]
      /\ Head(l) = l[1] /\ DOMAIN l = 1 .. Len(l)
  BY HeadTailProperties
<1>0. InList(l, f) = Cardinality(T) /\ InList(Tail(l), f) = Cardinality(R)
  BY DEF InList
<1>1. IsFiniteSet(T) /\ Cardinality(T) \in Nat /\ IsFiniteSet(R) /\ Cardinality(R) \in Nat
  <2>1. IsFiniteSet(T) /\ InList(l, f) \in Nat
    BY InListNat
  <2>2. IsFiniteSet(R) /\ InList(Tail(l), f) \in Nat
    BY <1>t, InListNat
  <2> QED BY <1>0, <2>1, <2>2
<1>2. Cardinality(A) = Cardinality(R)
  <2>1. b \in [R -> A]
    BY <1>t
  <2>2. \A i, j \in R : b[i] = b[j] => i = j
    BY <1>t
  <2>3. \A j \in A : \E i \in R : b[i] = j
    <3>1. SUFFICES ASSUME NEW j \in A PROVE j - 1 \in R /\ b[j - 1] = j
      OBVIOUS
    <3>2. j \in 2 .. Len(l) /\ j - 1 \in 1 .. Len(Tail(l)) /\ Tail(l)[j - 1] = l[j]
      BY <1>t
    <3> QED BY <3>2, <1>t
  <2>4. ExistsBijection(R, A)
    <3> HIDE DEF b, R, A
    <3> QED BY <2>1, <2>2, <2>3 DEF ExistsBijection, Bijection, Injection,
               Surjection, IsInjective
  <2> QED BY <2>4, <1>1, FS_Bijection
<1>3. IsFiniteSet(A)
  BY <1>1, FS_Subset
<1>4. CASE Head(l).flow = f
  <2>1. T = A \cup {1}
    BY <1>4, <1>t
  <2>2. Cardinality(A \cup {1}) = Cardinality(A) + 1
    BY <1>3, FS_AddElement
  <2> HIDE DEF T, A, R
  <2> QED BY <1>0, <1>1, <1>2, <1>4, <2>1, <2>2
<1>5. CASE Head(l).flow # f
  <2>1. T = A
    BY <1>5, <1>t
  <2> HIDE DEF T, A, R
  <2> QED BY <1>0, <1>1, <1>2, <1>5, <2>1
<1> QED BY <1>4, <1>5

LEMMA UseCounts ==
  ASSUME list \in Seq(Items), NEW f
  PROVE  /\ References(f) \in Nat /\ InList(list, f) \in Nat
         /\ References(f) = 0 =>
              /\ f \notin flow_table /\ f \notin mark_to_flow /\ item.flow # f
              /\ \A p \in Pmds : removing[p] # f
<1>1. InList(list, f) \in Nat
  BY InListNat
<1> DEFINE a == IF f \in flow_table THEN 1 ELSE 0
           b == IF f \in mark_to_flow THEN 1 ELSE 0
           c == IF \E p \in Pmds : removing[p] = f THEN 1 ELSE 0
           d == IF item.flow = f THEN 1 ELSE 0
           e == IF item.flow = f /\ pc = "netdev_flow_del" THEN 1 ELSE 0
<1>2. References(f) = a + b + c + InList(list, f) + d + e
  BY DEF References
<1>3. a \in {0, 1} /\ b \in {0, 1} /\ c \in {0, 1} /\ d \in {0, 1} /\ e \in {0, 1}
  OBVIOUS
<1>4. References(f) \in Nat /\ (References(f) = 0 => a = 0 /\ b = 0 /\ c = 0 /\ d = 0)
  <2> DEFINE n == InList(list, f)
             r == References(f)
  <2>1. n \in Nat /\ r = a + b + c + n + d + e
    BY <1>1, <1>2
  <2> HIDE DEF a, b, c, d, e, n, r
  <2>2. r \in Nat /\ (r = 0 => a = 0 /\ b = 0 /\ c = 0 /\ d = 0)
    BY <2>1, <1>3
  <2> QED BY <2>2 DEF r
<1>5. /\ a = 0 => f \notin flow_table
      /\ b = 0 => f \notin mark_to_flow
      /\ c = 0 => \A p \in Pmds : removing[p] # f
      /\ d = 0 => item.flow # f
  OBVIOUS
<1> HIDE DEF a, b, c, d, e
<1> QED BY <1>1, <1>4, <1>5

LEMMA UseCountsNext ==
  ASSUME list' \in Seq(Items), NEW f
  PROVE  /\ References(f)' \in Nat
         /\ References(f)' = 0 =>
              /\ f \notin flow_table' /\ f \notin mark_to_flow' /\ item'.flow # f
              /\ \A p \in Pmds : removing'[p] # f
<1>1. InList(list', f) \in Nat
  BY InListNat
<1> DEFINE a == IF f \in flow_table' THEN 1 ELSE 0
           b == IF f \in mark_to_flow' THEN 1 ELSE 0
           c == IF \E p \in Pmds : removing'[p] = f THEN 1 ELSE 0
           d == IF item'.flow = f THEN 1 ELSE 0
           e == IF item'.flow = f /\ pc' = "netdev_flow_del" THEN 1 ELSE 0
<1>2. References(f)' = a + b + c + InList(list', f) + d + e
  BY DEF References
<1>3. a \in {0, 1} /\ b \in {0, 1} /\ c \in {0, 1} /\ d \in {0, 1} /\ e \in {0, 1}
  OBVIOUS
<1>4. References(f)' \in Nat /\ (References(f)' = 0 => a = 0 /\ b = 0 /\ c = 0 /\ d = 0)
  <2> DEFINE n == InList(list', f)
             r == References(f)'
  <2>1. n \in Nat /\ r = a + b + c + n + d + e
    BY <1>1, <1>2
  <2> HIDE DEF a, b, c, d, e, n, r
  <2>2. r \in Nat /\ (r = 0 => a = 0 /\ b = 0 /\ c = 0 /\ d = 0)
    BY <2>1, <1>3
  <2> QED BY <2>2 DEF r
<1>5. /\ a = 0 => f \notin flow_table'
      /\ b = 0 => f \notin mark_to_flow'
      /\ c = 0 => \A p \in Pmds : removing'[p] # f
      /\ d = 0 => item'.flow # f
  OBVIOUS
<1> HIDE DEF a, b, c, d, e
<1> QED BY <1>1, <1>4, <1>5

LEMMA ListGrows ==
  ASSUME list \in Seq(Items), NEW op \in {"ADD", "MOD", "DEL"}, NEW f \in Flows, Append1(op, f)
  PROVE  /\ list' \in Seq(Items) /\ asleep' = FALSE
         /\ \A g : InList(list', g) = InList(list, g) + (IF g = f THEN 1 ELSE 0)
<1> DEFINE e == [op |-> op, flow |-> f]
<1>1. e \in Items /\ e.flow = f /\ list' = Append(list, e) /\ asleep' = FALSE
  BY DEF Append1, Items
<1>2. list' \in Seq(Items)
  BY <1>1, AppendProperties
<1>3. \A g : InList(list', g) = InList(list, g) + (IF e.flow = g THEN 1 ELSE 0)
  BY <1>1, AppendCount
<1> QED BY <1>1, <1>2, <1>3

LEMMA UnrefProperties ==
  ASSUME NEW fl \in [Flows -> FlowRecords], NEW f \in Flows, NEW n \in Nat,
         n <= fl[f].ref_cnt
  PROVE  /\ Unref(fl, f, n) \in [Flows -> FlowRecords]
         /\ \A g \in Flows : g # f => Unref(fl, f, n)[g] = fl[g]
         /\ fl[f].ref_cnt = n => Unref(fl, f, n)[f] = Unused
         /\ fl[f].ref_cnt # n => Unref(fl, f, n)[f] = [fl[f] EXCEPT !.ref_cnt = fl[f].ref_cnt - n]
         /\ Unref(fl, f, n)[f].ref_cnt = fl[f].ref_cnt - n
<1>1. Unused \in FlowRecords /\ Unused.ref_cnt = 0
  BY DEF Unused, FlowRecords
<1>2. fl[f] \in FlowRecords /\ fl[f].ref_cnt \in Nat
  BY DEF FlowRecords
<1>3. fl[f].ref_cnt # n =>
        /\ [fl[f] EXCEPT !.ref_cnt = fl[f].ref_cnt - n] \in FlowRecords
        /\ [fl[f] EXCEPT !.ref_cnt = fl[f].ref_cnt - n].ref_cnt = fl[f].ref_cnt - n
  <2>1. fl[f].ref_cnt - n \in Nat
    BY <1>2
  <2> QED BY <1>2, <2>1 DEF FlowRecords
<1>5. fl[f].ref_cnt - n \in Nat /\ (fl[f].ref_cnt = n => fl[f].ref_cnt - n = 0)
  BY <1>2
<1> DEFINE new == IF fl[f].ref_cnt = n THEN Unused ELSE [fl[f] EXCEPT !.ref_cnt = fl[f].ref_cnt - n]
<1>6. new \in FlowRecords /\ new.ref_cnt = fl[f].ref_cnt - n
  BY <1>1, <1>3, <1>5
<1>7. /\ fl[f].ref_cnt = n => new = Unused
      /\ fl[f].ref_cnt # n => new = [fl[f] EXCEPT !.ref_cnt = fl[f].ref_cnt - n]
  OBVIOUS
<1>8. Unref(fl, f, n) = [fl EXCEPT ![f] = new]
  <2>1. fl[f].ref_cnt - n = 0 <=> fl[f].ref_cnt = n
    BY <1>2
  <2> QED BY <2>1 DEF Unref
<1> HIDE DEF new
<1> QED BY <1>6, <1>7, <1>8

-----------------------------------------------------------------------------
(* What the invariant says in short of a flow of the tables.               *)
LEMMA InUse ==
  ASSUME OffloadAssumption, Inv, NEW f \in Flows, flow[f].ref_cnt # 0
  PROVE  flow[f].mega_ufid \in Megas /\ flow[f].pmd_id \in Pmds
BY DEF Inv, AllocInv

LEMMA UsedHasRefs ==
  ASSUME Inv, NEW f \in Flows,
         f \in flow_table \/ f \in mark_to_flow \/ item.flow = f \/ \E p \in Pmds : removing[p] = f
  PROVE  flow[f].ref_cnt # 0
BY UseCounts DEF Inv, TypeOK, RefsExact

(* The offload thread has a request. *)
LEMMA AtWork ==
  ASSUME OffloadAssumption, Inv, pc # "idle"
  PROVE  /\ item \in Items /\ item.flow \in Flows /\ mega \in Megas
         /\ flow[item.flow].ref_cnt # 0
<1>1. item \in Items /\ item.flow \in Flows
  BY DEF Inv, TypeOK, Items
<1>2. flow[item.flow].ref_cnt # 0
  BY <1>1, UsedHasRefs
<1> QED BY <1>1, <1>2, InUse DEF mega

-----------------------------------------------------------------------------
(* Steps that leave the marks as they are. *)

(* The card has lost rules, or got one with the mark of its mega flow, and *)
(* none that it was to delete is forgotten.                                *)
RulesStay ==
  \A m \in Megas :
    \/ hw'[m] \in {INVALID_FLOW_MARK, megaflow_to_mark[m]}
    \/ hw'[m] = hw[m] /\ (m \in undeleted => m \in undeleted')

(* Another thread's step, or one of the offload thread between requests.   *)
LEMMA MarksFrame ==
  ASSUME OffloadAssumption, Inv, UNCHANGED <<pc, item, held, marking>>, RulesStay,
         \A f \in Flows : flow'[f].mark = flow[f].mark,
         \A f \in Flows : f \in mark_to_flow \/ f = item.flow =>
           flow'[f].mega_ufid = flow[f].mega_ufid
  PROVE  MarksInv'
<1>1. mark_to_flow \subseteq Flows
  BY DEF Inv, TypeOK
<1>2. pc # "idle" => item.flow \in Flows
  BY DEF Inv, TypeOK, Items
<1>3. pc # "idle" => mega' = mega /\ (modification' <=> modification)
  BY <1>2 DEF mega, modification
<1>4. Adding' <=> Adding
  BY <1>3 DEF Adding
<1>5. MarksOwned'
  BY <1>1, <1>3, <1>4 DEF Inv, MarksInv, MarksOwned, marking
<1>6. PcInv'
  <2>1. pc = "associate" => hw'[mega] \in {INVALID_FLOW_MARK, held}
    BY AtWork DEF Inv, MarksInv, PcInv, Adding, RulesStay
  <2> QED BY <1>1, <1>2, <1>3, <1>4, <2>1 DEF Inv, MarksInv, PcInv, marking, Adding
<1>7. HardwareOwned'
  BY <1>3 DEF Inv, MarksInv, HardwareOwned, marking, RulesStay
<1> QED BY <1>5, <1>6, <1>7 DEF MarksInv

(* The offload thread ends a request, and gives back the mark it may have  *)
(* allocated for it.                                                       *)
LEMMA FinishFrame ==
  ASSUME Inv, pc \notin {"associate", "netdev_flow_del"}, pc' = "idle",
         UNCHANGED <<megaflow_to_mark, mark_to_flow>>,
         pool' = IF Adding THEN pool \ {held} ELSE pool,
         RulesStay, \A f \in Flows : flow'[f].mark = flow[f].mark,
         \A f \in mark_to_flow : flow'[f].mega_ufid = flow[f].mega_ufid
  PROVE  MarksInv'
<1>1. mark_to_flow \subseteq Flows
  BY DEF Inv, TypeOK
<1>2. ~Adding'
  BY DEF Adding
<1>3. MarksOwned'
  BY <1>1, <1>2 DEF Inv, MarksInv, MarksOwned, PcInv
<1>4. PcInv'
  BY <1>2 DEF PcInv
<1>5. HardwareOwned'
  BY DEF Inv, MarksInv, HardwareOwned, RulesStay
<1> QED BY <1>3, <1>4, <1>5 DEF MarksInv

(* Finish gives back the references of the request, and frees the flow if  *)
(* there are no others.                                                    *)
LEMMA FinishRefs ==
  ASSUME OffloadAssumption, Inv, NEW i \in Flows, i = item.flow, NEW fl \in [Flows -> FlowRecords], NEW n \in Nat,
         Finish(fl, n), UNCHANGED <<flow_table, removing, list>>,
         \A f \in Flows :
           /\ fl[f].ref_cnt = flow[f].ref_cnt /\ fl[f].mega_ufid = flow[f].mega_ufid
           /\ fl[f].pmd_id = flow[f].pmd_id
           /\ f # i => fl[f] = flow[f],
         \A f \in Flows : References(f)' = References(f) - (IF f = i THEN 1 + n ELSE 0)
  PROVE  /\ flow' \in [Flows -> FlowRecords] /\ AllocInv' /\ RemovingInv' /\ RefsExact'
         /\ \A f \in Flows : f \in mark_to_flow' =>
              flow'[f].mark = fl[f].mark /\ flow'[f].mega_ufid = fl[f].mega_ufid
         /\ \A f \in Flows : flow'[f].mark = fl[f].mark \/
              (f \notin mark_to_flow' /\ flow'[f].mark = INVALID_FLOW_MARK)
         /\ \A f \in Flows : f # i => flow'[f] = flow[f]
<1>1. i \in Flows /\ list' \in Seq(Items) /\ flow \in [Flows -> FlowRecords]
  BY DEF Inv, TypeOK
<1>2. \A f \in Flows : References(f)' \in Nat /\ References(f) \in Nat /\ flow[f].ref_cnt = References(f)
  BY <1>1, UseCounts, UseCountsNext DEF Inv, TypeOK, RefsExact
<1>3. 1 + n <= fl[i].ref_cnt /\ 1 + n \in Nat
  BY <1>1, <1>2
<1>4. flow' = Unref(fl, i, 1 + n)
  BY DEF Finish
<1>h. References(i)' = References(i) - (1 + n)
  BY <1>1
<1>f. fl[i].ref_cnt = flow[i].ref_cnt
  BY <1>1
<1>5. /\ flow' \in [Flows -> FlowRecords]
      /\ \A g \in Flows : g # i => flow'[g] = fl[g]
      /\ fl[i].ref_cnt = 1 + n => flow'[i] = Unused
      /\ fl[i].ref_cnt # 1 + n => flow'[i] = [fl[i] EXCEPT !.ref_cnt = fl[i].ref_cnt - (1 + n)]
      /\ flow'[i].ref_cnt = fl[i].ref_cnt - (1 + n)
  BY <1>1, <1>3, <1>4, UnrefProperties
<1>6. /\ fl[i] \in FlowRecords
      /\ fl[i].ref_cnt # 1 + n =>
          /\ flow'[i].mark = fl[i].mark /\ flow'[i].mega_ufid = fl[i].mega_ufid
          /\ flow'[i].pmd_id = fl[i].pmd_id
  BY <1>1, <1>5 DEF FlowRecords
<1>7. \A g \in Flows : g # i => flow'[g] = flow[g]
  BY <1>5
<1>8. RefsExact'
  BY <1>1, <1>2, <1>5, <1>7 DEF RefsExact
<1>9. fl[i].ref_cnt = 1 + n =>
        /\ i \notin mark_to_flow' /\ flow'[i].mark = INVALID_FLOW_MARK
        /\ \A p \in Pmds : removing'[p] # i
  <2>0. fl[i].ref_cnt = References(i) /\ References(i)' = References(i) - (1 + n)
    BY <1>1, <1>2, <1>h, <1>f
  <2>1. fl[i].ref_cnt = 1 + n => References(i)' = 0
    BY <2>0, <1>1, <1>2
  <2>2. References(i)' = 0 => i \notin mark_to_flow' /\ \A p \in Pmds : removing'[p] # i
    BY <1>1, UseCountsNext
  <2>3. fl[i].ref_cnt = 1 + n => flow'[i].mark = INVALID_FLOW_MARK
    <3>1. Unused.mark = INVALID_FLOW_MARK BY DEF Unused
    <3> QED BY <1>5, <3>1
  <2> QED BY <2>1, <2>2, <2>3
<1>10. AllocInv'
  <2>1. fl[i].ref_cnt # 1 + n => flow[i].ref_cnt # 0 /\ flow'[i].ref_cnt # 0
    BY <1>1, <1>2, <1>3, <1>5
  <2>2. fl[i].ref_cnt = 1 + n => flow'[i].ref_cnt = 0 /\ flow'[i] = Unused
    BY <1>5 DEF Unused
  <2> QED BY <1>1, <1>6, <1>7, <2>1, <2>2 DEF Inv, AllocInv
<1>11. RemovingInv'
  <2>1. ASSUME NEW p \in Pmds, removing'[p] # None
        PROVE  removing'[p] \notin flow_table' /\ flow'[removing'[p]].pmd_id = p
    <3>1. removing'[p] \in Flows /\ removing'[p] = removing[p]
      BY <2>1 DEF Inv, TypeOK
    <3> DEFINE r == removing'[p]
    <3>2. removing'[p] \notin flow_table' /\ flow[removing'[p]].pmd_id = p
      BY <2>1, <3>1 DEF Inv, RemovingInv
    <3>3. r = i => flow'[r].pmd_id = flow[r].pmd_id
      BY <1>1, <1>6, <1>9
    <3>4. r # i => flow'[r].pmd_id = flow[r].pmd_id
      BY <1>7, <3>1
    <3> QED BY <3>2, <3>3, <3>4
  <2> QED BY <2>1 DEF RemovingInv
<1>12. \A f \in Flows : f \in mark_to_flow' =>
         flow'[f].mark = fl[f].mark /\ flow'[f].mega_ufid = fl[f].mega_ufid
  BY <1>5, <1>6, <1>9
<1>13. \A f \in Flows : flow'[f].mark = fl[f].mark \/
         (f \notin mark_to_flow' /\ flow'[f].mark = INVALID_FLOW_MARK)
  BY <1>5, <1>6, <1>9
<1> QED BY <1>5, <1>7, <1>8, <1>10, <1>11, <1>12, <1>13

-----------------------------------------------------------------------------
LEMMA InitInv ==
  ASSUME OffloadAssumption, Init
  PROVE  Inv
<1> USE DEF Init
<1>1. TypeOK
  <2>1. Unused \in FlowRecords
    BY DEF Unused, FlowRecords
  <2>2. list \in Seq(Items)
    OBVIOUS
  <2> QED BY <2>1, <2>2 DEF TypeOK
<1>2. AllocInv /\ RemovingInv
  BY DEF AllocInv, RemovingInv, Unused
<1>3. RefsExact
  <2> SUFFICES ASSUME NEW f \in Flows PROVE References(f) = 0
    BY DEF RefsExact, Unused
  <2>1. {i \in DOMAIN list : list[i].flow = f} = {}
    OBVIOUS
  <2>2. InList(list, f) = 0
    BY <2>1, FS_EmptySet DEF InList
  <2>3. item.flow # f /\ \A q \in Pmds : removing[q] # f
    BY DEF NoItem, OffloadAssumption
  <2> QED BY <2>2, <2>3 DEF References
<1>4. MarksInv
  BY DEF MarksInv, MarksOwned, PcInv, HardwareOwned, Adding, Unused, Marks,
     INVALID_FLOW_MARK
<1> QED BY <1>1, <1>2, <1>3, <1>4 DEF Inv

-----------------------------------------------------------------------------
(* The threads that change a flow table, and the port. *)

LEMMA AddKeeps ==
  ASSUME OffloadAssumption, Inv, NEW p \in Pmds, NEW m \in Megas, dp_netdev_flow_add(p, m)
  PROVE  Inv'
<1> DEFINE new == [Unused EXCEPT !.pmd_id = p, !.mega_ufid = m, !.ref_cnt = 2]
<1>1. PICK f \in Flows :
        /\ flow[f] = Unused /\ flow' = [flow EXCEPT ![f] = new]
        /\ flow_table' = flow_table \cup {f} /\ Append1("ADD", f)
  BY DEF dp_netdev_flow_add
<1>2. UNCHANGED <<removing, pc, item, held, marking, card>>
  BY DEF dp_netdev_flow_add
<1>3. /\ new \in FlowRecords /\ new.pmd_id = p /\ new.mega_ufid = m
      /\ new.mark = INVALID_FLOW_MARK /\ new.ref_cnt = 2
  BY DEF Unused, FlowRecords
<1>4. /\ list' \in Seq(Items) /\ asleep' = FALSE
      /\ \A g : InList(list', g) = InList(list, g) + (IF g = f THEN 1 ELSE 0)
  BY <1>1, ListGrows DEF Inv, TypeOK
<1>5. /\ f \notin flow_table /\ f \notin mark_to_flow /\ item.flow # f
      /\ \A q \in Pmds : removing[q] # f
  BY <1>1, UseCounts DEF Inv, TypeOK, RefsExact, Unused
<1> HIDE DEF new
<1>6. flow' \in [Flows -> FlowRecords] /\ flow'[f] = new /\ \A g \in Flows : g # f => flow'[g] = flow[g]
  BY <1>1, <1>3 DEF Inv, TypeOK
<1>7. TypeOK'
  BY <1>1, <1>2, <1>4, <1>6 DEF Inv, TypeOK, marking, card
<1>8. AllocInv'
  BY <1>3, <1>6 DEF Inv, AllocInv
<1>9. RemovingInv'
  BY <1>1, <1>2, <1>5, <1>6 DEF Inv, TypeOK, RemovingInv
<1>10. RefsExact'
  <2> SUFFICES ASSUME NEW g \in Flows PROVE flow'[g].ref_cnt = References(g)'
    BY DEF RefsExact
  <2>1. flow[g].ref_cnt = References(g) /\ InList(list, g) \in Nat
    BY UseCounts DEF Inv, TypeOK, RefsExact
  <2>2. InList(list', g) = InList(list, g) + (IF g = f THEN 1 ELSE 0)
    BY <1>4
  <2>3. References(g)' = References(g) + (IF g = f THEN 2 ELSE 0)
    BY <1>1, <1>2, <1>5, <2>1, <2>2 DEF References, marking
  <2>4. flow'[g].ref_cnt = flow[g].ref_cnt + (IF g = f THEN 2 ELSE 0)
    <3>1. flow[f].ref_cnt = 0 BY <1>1 DEF Unused
    <3>2. flow[g].ref_cnt \in Nat BY DEF Inv, TypeOK, FlowRecords
    <3> QED BY <1>3, <1>6, <3>1, <3>2
  <2> QED BY <2>1, <2>3, <2>4
<1>11. MarksInv'
  <2>1. \A g \in Flows : flow'[g].mark = flow[g].mark
    BY <1>1, <1>3, <1>6 DEF Unused
  <2>2. \A g \in Flows : g # f => flow'[g].mega_ufid = flow[g].mega_ufid
    BY <1>6
  <2>3. UNCHANGED <<pc, item, held, marking>> /\ RulesStay
    BY <1>2 DEF card, RulesStay
  <2> QED BY <1>5, <2>1, <2>2, <2>3, MarksFrame
<1> QED BY <1>7, <1>8, <1>9, <1>10, <1>11 DEF Inv

(* A flow of the table gets a reference for its item in the list.          *)
LEMMA RefAppend ==
  ASSUME OffloadAssumption, Inv, NEW op \in {"ADD", "MOD", "DEL"}, NEW f \in Flows, f \in flow_table,
         flow' = Ref(f), Append1(op, f), UNCHANGED <<pc, item, held, marking, card>>,
         removing' \in [Pmds -> Flows \cup {None}], flow_table' \in SUBSET Flows,
         \A g \in Flows :
           (IF g \in flow_table' THEN 1 ELSE 0) + (IF \E p \in Pmds : removing'[p] = g THEN 1 ELSE 0)
           = (IF g \in flow_table THEN 1 ELSE 0) + (IF \E p \in Pmds : removing[p] = g THEN 1 ELSE 0)
  PROVE  /\ TypeOK' /\ AllocInv' /\ RefsExact' /\ MarksInv'
         /\ \A g \in Flows : flow'[g].pmd_id = flow[g].pmd_id
<1>1. flow \in [Flows -> FlowRecords] /\ flow[f] \in FlowRecords /\ flow[f].ref_cnt \in Nat
  BY DEF Inv, TypeOK, FlowRecords
<1> DEFINE new == [flow[f] EXCEPT !.ref_cnt = flow[f].ref_cnt + 1]
<1>2. flow' = [flow EXCEPT ![f] = new]
  BY DEF Ref
<1>3. /\ new \in FlowRecords /\ new.pmd_id = flow[f].pmd_id /\ new.mega_ufid = flow[f].mega_ufid
      /\ new.mark = flow[f].mark /\ new.ref_cnt = flow[f].ref_cnt + 1
  BY <1>1 DEF FlowRecords
<1> HIDE DEF new
<1>4. /\ list' \in Seq(Items) /\ asleep' = FALSE
      /\ \A g : InList(list', g) = InList(list, g) + (IF g = f THEN 1 ELSE 0)
  <2>1. list \in Seq(Items) /\ Append1(op, f)
    BY DEF Inv, TypeOK
  <2> QED BY ONLY <2>1, f \in Flows, op \in {"ADD", "MOD", "DEL"}, ListGrows
<1>6. flow' \in [Flows -> FlowRecords] /\ flow'[f] = new /\ \A g \in Flows : g # f => flow'[g] = flow[g]
  BY <1>1, <1>2, <1>3
<1>7. TypeOK'
  BY <1>4, <1>6 DEF Inv, TypeOK, marking, card
<1>8. AllocInv'
  <2>1. flow[f].ref_cnt # 0 /\ new.ref_cnt # 0
    BY <1>1, <1>3, UsedHasRefs
  <2> QED BY <1>3, <1>6, <2>1 DEF Inv, AllocInv
<1>10. RefsExact'
  <2> SUFFICES ASSUME NEW g \in Flows PROVE flow'[g].ref_cnt = References(g)'
    BY DEF RefsExact
  <2> DEFINE a == IF g \in flow_table THEN 1 ELSE 0
             c == IF \E q \in Pmds : removing[q] = g THEN 1 ELSE 0
             a1 == IF g \in flow_table' THEN 1 ELSE 0
             c1 == IF \E q \in Pmds : removing'[q] = g THEN 1 ELSE 0
             b == IF g \in mark_to_flow THEN 1 ELSE 0
             d == IF item.flow = g THEN 1 ELSE 0
             e == IF item.flow = g /\ pc = "netdev_flow_del" THEN 1 ELSE 0
  <2>1. flow[g].ref_cnt = References(g) /\ InList(list, g) \in Nat
    BY UseCounts DEF Inv, TypeOK, RefsExact
  <2>2. InList(list', g) = InList(list, g) + (IF g = f THEN 1 ELSE 0)
    BY <1>4
  <2>3. References(g) = a + b + c + InList(list, g) + d + e
    BY DEF References
  <2>4. References(g)' = a1 + b + c1 + InList(list', g) + d + e
    BY DEF References, marking
  <2>5. a1 + c1 = a + c
    OBVIOUS
  <2>6. /\ a \in {0, 1} /\ b \in {0, 1} /\ c \in {0, 1} /\ d \in {0, 1} /\ e \in {0, 1}
        /\ a1 \in {0, 1} /\ c1 \in {0, 1}
    OBVIOUS
  <2> HIDE DEF a, b, c, d, e, a1, c1
  <2>7. References(g)' = References(g) + (IF g = f THEN 1 ELSE 0)
    <3> DEFINE n == InList(list, g)
               n1 == InList(list', g)
    <3>1. n \in Nat /\ n1 = n + (IF g = f THEN 1 ELSE 0)
      BY <2>1, <2>2
    <3> HIDE DEF n, n1
    <3>2. a1 + b + c1 + n1 + d + e = a + b + c + n + d + e + (IF g = f THEN 1 ELSE 0)
      BY <2>5, <2>6, <3>1
    <3> QED BY <2>3, <2>4, <3>2 DEF n, n1
  <2>8. flow'[g].ref_cnt = flow[g].ref_cnt + (IF g = f THEN 1 ELSE 0)
    <3>1. flow[g].ref_cnt \in Nat BY DEF Inv, TypeOK, FlowRecords
    <3> QED BY <1>3, <1>6, <3>1
  <2> QED BY <2>1, <2>7, <2>8
<1>11. MarksInv'
  <2>1. \A g \in Flows : flow'[g].mark = flow[g].mark /\ flow'[g].mega_ufid = flow[g].mega_ufid
    BY <1>3, <1>6
  <2>3. RulesStay
    BY DEF card, RulesStay
  <2> QED BY <2>1, <2>3, MarksFrame
<1>12. \A g \in Flows : flow'[g].pmd_id = flow[g].pmd_id
  BY <1>3, <1>6
<1> QED BY <1>7, <1>8, <1>10, <1>11, <1>12

LEMMA ModifyKeeps ==
  ASSUME OffloadAssumption, Inv, NEW p \in Pmds, flow_modify(p)
  PROVE  Inv'
<1>1. PICK f \in flow_table : flow' = Ref(f) /\ Append1("MOD", f)
  BY DEF flow_modify
<1>2. UNCHANGED <<tables, pc, item, held, marking, card>>
  BY DEF flow_modify
<1>3. f \in Flows /\ removing' \in [Pmds -> Flows \cup {None}] /\ flow_table' \in SUBSET Flows
  BY <1>1, <1>2 DEF Inv, TypeOK, tables
<1>4. /\ TypeOK' /\ AllocInv' /\ RefsExact' /\ MarksInv'
      /\ \A g \in Flows : flow'[g].pmd_id = flow[g].pmd_id
  <2>1. UNCHANGED <<flow_table, removing>>
    BY <1>2 DEF tables
  <2>2. \A g \in Flows :
          (IF g \in flow_table' THEN 1 ELSE 0) + (IF \E q \in Pmds : removing'[q] = g THEN 1 ELSE 0)
          = (IF g \in flow_table THEN 1 ELSE 0) + (IF \E q \in Pmds : removing[q] = g THEN 1 ELSE 0)
    BY <2>1
  <2> QED BY <1>1, <1>2, <1>3, <2>2, RefAppend
<1>5. RemovingInv'
  <2>1. \A q \in Pmds : removing[q] # None => removing[q] \in Flows
    BY DEF Inv, TypeOK
  <2> QED BY <1>2, <1>4, <2>1 DEF Inv, RemovingInv, tables
<1> QED BY <1>4, <1>5 DEF Inv

LEMMA RemoveKeeps ==
  ASSUME OffloadAssumption, Inv, NEW p \in Pmds, remove_flow(p)
  PROVE  Inv'
<1>1. PICK f \in flow_table :
        /\ flow[f].pmd_id = p /\ flow_table' = flow_table \ {f}
        /\ removing' = [removing EXCEPT ![p] = f]
        /\ IF flow[f].mark # INVALID_FLOW_MARK
           THEN flow' = Ref(f) /\ Append1("DEL", f)
           ELSE UNCHANGED <<flow, list, asleep>>
  BY DEF remove_flow
<1>2. removing[p] = None /\ UNCHANGED <<pc, item, held, marking, card>>
  BY DEF remove_flow, Locked
<1>3. /\ f \in Flows /\ f # None /\ removing \in [Pmds -> Flows \cup {None}]
      /\ removing' \in [Pmds -> Flows \cup {None}] /\ flow_table' \in SUBSET Flows
  BY <1>1 DEF Inv, TypeOK, OffloadAssumption
<1>4. \A g \in Flows : (\E q \in Pmds : removing'[q] = g) <=> (g = f \/ \E q \in Pmds : removing[q] = g)
  BY <1>1, <1>2, <1>3 DEF OffloadAssumption
<1>5. \A q \in Pmds : removing[q] # f
  BY <1>1, <1>3 DEF Inv, RemovingInv
<1>6. \A g \in Flows :
        (IF g \in flow_table' THEN 1 ELSE 0) + (IF \E q \in Pmds : removing'[q] = g THEN 1 ELSE 0)
        = (IF g \in flow_table THEN 1 ELSE 0) + (IF \E q \in Pmds : removing[q] = g THEN 1 ELSE 0)
  BY <1>1, <1>4, <1>5
<1>7. /\ TypeOK' /\ AllocInv' /\ RefsExact' /\ MarksInv'
      /\ \A g \in Flows : flow'[g].pmd_id = flow[g].pmd_id
  <2>1. CASE flow[f].mark # INVALID_FLOW_MARK
    BY <1>1, <1>2, <1>3, <1>6, <2>1, RefAppend
  <2>2. CASE flow[f].mark = INVALID_FLOW_MARK
    <3>1. UNCHANGED <<flow, list, asleep>>
      BY <1>1, <2>2
    <3>2. TypeOK' /\ AllocInv'
      BY <1>2, <1>3, <3>1 DEF Inv, TypeOK, AllocInv, marking, card
    <3>3. RefsExact'
      <4> SUFFICES ASSUME NEW g \in Flows PROVE flow'[g].ref_cnt = References(g)'
        BY DEF RefsExact
      <4>1. flow[g].ref_cnt = References(g) /\ InList(list, g) \in Nat
        BY UseCounts DEF Inv, TypeOK, RefsExact
      <4>2. References(g)' = References(g)
        BY <1>1, <1>2, <1>4, <1>5, <3>1, <4>1 DEF References, marking
      <4> QED BY <3>1, <4>1, <4>2
    <3>4. MarksInv'
      BY <1>2, <3>1, MarksFrame DEF card, RulesStay
    <3> QED BY <3>1, <3>2, <3>3, <3>4
  <2> QED BY <2>1, <2>2
<1>8. RemovingInv'
  <2>1. ASSUME NEW q \in Pmds, removing'[q] # None
        PROVE  removing'[q] \notin flow_table' /\ flow'[removing'[q]].pmd_id = q
    <3>1. CASE q = p
      BY <3>1, <1>1, <1>3, <1>7
    <3>2. CASE q # p
      <4>1. removing'[q] = removing[q] /\ removing[q] \in Flows
        BY <2>1, <3>2, <1>1, <1>3
      <4> QED BY <2>1, <4>1, <1>1, <1>7 DEF Inv, RemovingInv
    <3> QED BY <3>1, <3>2
  <2> QED BY <2>1 DEF RemovingInv
<1> QED BY <1>7, <1>8 DEF Inv

LEMMA RemoveDeadKeeps ==
  ASSUME OffloadAssumption, Inv, NEW p \in Pmds, remove_flow_dead(p)
  PROVE  Inv'
<1>1. PICK f \in Flows : f = removing[p]
  BY DEF Inv, TypeOK, remove_flow_dead, Locked
<1> DEFINE fl == [flow EXCEPT ![f] = [flow[f] EXCEPT !.dead = TRUE]]
<1>2. /\ flow' = Unref(fl, f, 1) /\ removing' = [removing EXCEPT ![p] = None]
      /\ UNCHANGED <<flow_table, list, thread, marking, card>>
  <2>1. [flow EXCEPT ![f].dead = TRUE] = fl
    OBVIOUS
  <2> QED BY <1>1, <2>1 DEF remove_flow_dead
<1>3. /\ fl \in [Flows -> FlowRecords] /\ \A g \in Flows : g # f => fl[g] = flow[g]
      /\ fl[f].mark = flow[f].mark /\ fl[f].mega_ufid = flow[f].mega_ufid
      /\ fl[f].pmd_id = flow[f].pmd_id /\ fl[f].ref_cnt = flow[f].ref_cnt
      /\ fl[f] \in FlowRecords /\ fl[f].ref_cnt \in Nat
  <2>1. flow \in [Flows -> FlowRecords] /\ flow[f] \in FlowRecords
    BY DEF Inv, TypeOK
  <2> DEFINE r == [flow[f] EXCEPT !.dead = TRUE]
  <2>2. /\ r \in FlowRecords /\ r.mark = flow[f].mark /\ r.mega_ufid = flow[f].mega_ufid
        /\ r.pmd_id = flow[f].pmd_id /\ r.ref_cnt = flow[f].ref_cnt /\ r.ref_cnt \in Nat
    BY <2>1 DEF FlowRecords
  <2> HIDE DEF r
  <2>3. fl = [flow EXCEPT ![f] = r]
    BY DEF r
  <2> HIDE DEF fl
  <2>4. fl \in [Flows -> FlowRecords] /\ fl[f] = r /\ \A g \in Flows : g # f => fl[g] = flow[g]
    BY <2>1, <2>2, <2>3
  <2> QED BY <2>2, <2>4
<1>4. removing \in [Pmds -> Flows \cup {None}] /\ f # None
  BY DEF Inv, TypeOK, OffloadAssumption
<1>5. \A q \in Pmds : removing[q] = f => q = p
  BY <1>1, <1>4 DEF Inv, RemovingInv
<1>6. \A g \in Flows : (\E q \in Pmds : removing'[q] = g) <=> (g # f /\ \E q \in Pmds : removing[q] = g)
  BY <1>1, <1>2, <1>4, <1>5 DEF OffloadAssumption
<1>7. \A g \in Flows : References(g)' = References(g) - (IF g = f THEN 1 ELSE 0)
  <2> TAKE g \in Flows
  <2>1. InList(list, g) \in Nat
    BY UseCounts DEF Inv, TypeOK
  <2>2. UNCHANGED <<flow_table, list, item, pc, mark_to_flow>>
    BY <1>2 DEF thread, marking
  <2> QED BY <1>1, <1>6, <2>1, <2>2 DEF References
<1>8. \A g \in Flows : References(g)' \in Nat /\ References(g) \in Nat /\ flow[g].ref_cnt = References(g)
  BY <1>2, UseCounts, UseCountsNext DEF Inv, TypeOK, RefsExact
<1>9. 1 <= fl[f].ref_cnt
  BY <1>3, <1>7, <1>8
<1> HIDE DEF fl
<1>10. /\ flow' \in [Flows -> FlowRecords]
       /\ \A g \in Flows : g # f => flow'[g] = flow[g]
       /\ fl[f].ref_cnt = 1 => flow'[f] = Unused
       /\ fl[f].ref_cnt # 1 => flow'[f] = [fl[f] EXCEPT !.ref_cnt = fl[f].ref_cnt - 1]
       /\ flow'[f].ref_cnt = fl[f].ref_cnt - 1
  BY <1>2, <1>3, <1>9, UnrefProperties
<1>11. fl[f].ref_cnt # 1 =>
         /\ flow'[f].mark = flow[f].mark /\ flow'[f].mega_ufid = flow[f].mega_ufid
         /\ flow'[f].pmd_id = flow[f].pmd_id
  BY <1>3, <1>10 DEF FlowRecords
<1>12. fl[f].ref_cnt = 1 => f \notin mark_to_flow /\ item.flow # f
  <2>0. /\ fl[f].ref_cnt = References(f) /\ References(f)' = References(f) - 1
        /\ References(f) \in Nat
    BY <1>3, <1>7, <1>8
  <2>1. fl[f].ref_cnt = 1 => References(f)' = 0
    BY <2>0
  <2>2. list' \in Seq(Items) /\ UNCHANGED <<mark_to_flow, item>>
    BY <1>2 DEF Inv, TypeOK, thread, marking
  <2> QED BY <2>1, <2>2, UseCountsNext
<1>13. TypeOK'
  BY <1>2, <1>4, <1>10 DEF Inv, TypeOK, thread, marking, card
<1>14. AllocInv'
  <2>1. fl[f].ref_cnt # 1 => flow[f].ref_cnt # 0 /\ flow'[f].ref_cnt # 0
    BY <1>3, <1>9, <1>10
  <2>2. Unused.ref_cnt = 0
    BY DEF Unused
  <2> QED BY <1>10, <1>11, <2>1, <2>2 DEF Inv, AllocInv
<1>15. RemovingInv'
  <2>1. ASSUME NEW q \in Pmds, removing'[q] # None
        PROVE  removing'[q] = removing[q] /\ removing[q] # f
    BY <2>1, <1>2, <1>4, <1>5
  <2>2. \A q \in Pmds : removing[q] # None => removing[q] \in Flows
    BY <1>4
  <2> QED BY <1>2, <1>10, <2>1, <2>2 DEF Inv, RemovingInv
<1>16. RefsExact'
  BY <1>3, <1>7, <1>8, <1>10 DEF RefsExact
<1>17. MarksInv'
  <2>1. f \notin mark_to_flow => flow[f].mark = INVALID_FLOW_MARK
    BY DEF Inv, MarksInv, MarksOwned
  <2>2. Unused.mark = INVALID_FLOW_MARK
    BY DEF Unused
  <2>3. \A g \in Flows : flow'[g].mark = flow[g].mark
    BY <1>10, <1>11, <1>12, <2>1, <2>2
  <2>4. \A g \in Flows : g \in mark_to_flow \/ g = item.flow =>
          flow'[g].mega_ufid = flow[g].mega_ufid
    BY <1>10, <1>11, <1>12
  <2>5. UNCHANGED <<pc, item, held, marking>> /\ RulesStay
    BY <1>2 DEF thread, card, RulesStay
  <2> QED BY <2>3, <2>4, <2>5, MarksFrame
<1> QED BY <1>13, <1>14, <1>15, <1>16, <1>17 DEF Inv

(* What changes no reference. *)
LEMMA RefsFrame ==
  ASSUME Inv, UNCHANGED <<flow, tables, mark_to_flow>>, list' \in Seq(Items),
         \A f \in Flows :
           InList(list', f) + (IF item'.flow = f THEN 1 ELSE 0)
             + (IF item'.flow = f /\ pc' = "netdev_flow_del" THEN 1 ELSE 0)
           = InList(list, f) + (IF item.flow = f THEN 1 ELSE 0)
             + (IF item.flow = f /\ pc = "netdev_flow_del" THEN 1 ELSE 0)
  PROVE  AllocInv' /\ RemovingInv' /\ RefsExact'
<1>1. UNCHANGED <<flow_table, removing>>
  BY DEF tables
<1>2. AllocInv' /\ RemovingInv'
  BY <1>1 DEF Inv, AllocInv, RemovingInv
<1>3. RefsExact'
  <2> SUFFICES ASSUME NEW f \in Flows PROVE References(f)' = References(f)
    BY DEF Inv, RefsExact
  <2> DEFINE a == IF f \in flow_table THEN 1 ELSE 0
             b == IF f \in mark_to_flow THEN 1 ELSE 0
             c == IF \E q \in Pmds : removing[q] = f THEN 1 ELSE 0
             d == IF item.flow = f THEN 1 ELSE 0
             e == IF item.flow = f /\ pc = "netdev_flow_del" THEN 1 ELSE 0
             d1 == IF item'.flow = f THEN 1 ELSE 0
             e1 == IF item'.flow = f /\ pc' = "netdev_flow_del" THEN 1 ELSE 0
             n == InList(list, f)
             n1 == InList(list', f)
  <2>1. References(f) = a + b + c + n + d + e
    BY DEF References
  <2>2. References(f)' = a + b + c + n1 + d1 + e1
    BY <1>1 DEF References
  <2>3. n1 + d1 + e1 = n + d + e
    OBVIOUS
  <2>4. n \in Nat /\ n1 \in Nat
    <3>1. list \in Seq(Items)
      BY DEF Inv, TypeOK
    <3> QED BY <3>1, InListNat
  <2>5. /\ a \in {0, 1} /\ b \in {0, 1} /\ c \in {0, 1} /\ d \in {0, 1} /\ e \in {0, 1}
        /\ d1 \in {0, 1} /\ e1 \in {0, 1}
    OBVIOUS
  <2> HIDE DEF a, b, c, d, e, d1, e1, n, n1
  <2>6. a + b + c + n1 + d1 + e1 = a + b + c + n + d + e
    BY <2>3, <2>4, <2>5
  <2> QED BY <2>1, <2>2, <2>6
<1> QED BY <1>2, <1>3

LEMMA PortKeeps ==
  ASSUME OffloadAssumption, Inv, do_del_port \/ do_add_port
  PROVE  Inv'
<1>1. /\ UNCHANGED <<flow, tables, list, thread, marking>> /\ port_up' \in BOOLEAN
      /\ hw' \in [Megas -> Marks \cup {INVALID_FLOW_MARK}]
      /\ undeleted' \in SUBSET Megas /\ RulesStay
  <2>1. CASE do_add_port BY <2>1 DEF do_add_port, Inv, TypeOK, RulesStay
  <2>2. CASE do_del_port
    <3>1. PICK kept \in SUBSET Megas :
            hw' = [m \in Megas |-> IF m \in kept THEN hw[m] ELSE INVALID_FLOW_MARK]
      BY <2>2 DEF do_del_port
    <3> QED BY <2>2, <3>1 DEF do_del_port, Deletes, Inv, TypeOK, RulesStay
  <2> QED BY <2>1, <2>2
<1>2. TypeOK'
  BY <1>1 DEF Inv, TypeOK, tables, thread, marking
<1>3. AllocInv' /\ RemovingInv' /\ RefsExact'
  BY <1>1, RefsFrame DEF Inv, TypeOK, thread, marking
<1>4. MarksInv'
  BY <1>1, MarksFrame DEF thread
<1> QED BY <1>2, <1>3, <1>4 DEF Inv

-----------------------------------------------------------------------------
(* The offload thread. *)

LEMMA WaitKeeps ==
  ASSUME OffloadAssumption, Inv, offload_wait
  PROVE  Inv'
<1> USE DEF offload_wait
<1>1. TypeOK'
  BY DEF Inv, TypeOK, tables, marking, card
<1>2. AllocInv' /\ RemovingInv' /\ RefsExact'
  BY RefsFrame DEF Inv, TypeOK, marking
<1>3. MarksInv'
  BY MarksFrame DEF card, RulesStay
<1> QED BY <1>1, <1>2, <1>3 DEF Inv

LEMMA PopKeeps ==
  ASSUME OffloadAssumption, Inv, offload_pop
  PROVE  Inv'
<1>1. /\ pc = "idle" /\ list # <<>> /\ item' = Head(list) /\ list' = Tail(list)
      /\ pc' = IF item'.op = "DEL" THEN "disassociate" ELSE "put"
      /\ UNCHANGED <<flow, tables, asleep, held, marking, card>>
  BY DEF offload_pop
<1>2. list \in Seq(Items) /\ list' \in Seq(Items) /\ item' \in Items /\ item.flow = None
  BY <1>1, HeadTailProperties DEF Inv, TypeOK, NoItem
<1>3. TypeOK'
  BY <1>1, <1>2 DEF Inv, TypeOK, tables, marking, card
<1>4. AllocInv' /\ RemovingInv' /\ RefsExact'
  <2>1. ASSUME NEW f \in Flows
        PROVE  InList(list, f) = InList(list', f) + (IF item'.flow = f THEN 1 ELSE 0)
    BY <1>1, <1>2, TailCount
  <2>2. ASSUME NEW f \in Flows
        PROVE  InList(list', f) \in Nat /\ item.flow # f
    BY <1>2, InListNat DEF OffloadAssumption
  <2>3. pc' # "netdev_flow_del"
    BY <1>1
  <2>4. \A f \in Flows :
           InList(list', f) + (IF item'.flow = f THEN 1 ELSE 0)
             + (IF item'.flow = f /\ pc' = "netdev_flow_del" THEN 1 ELSE 0)
           = InList(list, f) + (IF item.flow = f THEN 1 ELSE 0)
             + (IF item.flow = f /\ pc = "netdev_flow_del" THEN 1 ELSE 0)
    BY <2>1, <2>2, <2>3
  <2>5. UNCHANGED mark_to_flow
    BY <1>1 DEF marking
  <2> QED BY <1>1, <1>2, <2>4, <2>5, RefsFrame
<1>5. MarksInv'
  <2>1. ~Adding /\ ~Adding'
    BY <1>1 DEF Adding
  <2>2. MarksOwned'
    BY <1>1, <2>1 DEF Inv, MarksInv, MarksOwned, marking
  <2>3. PcInv'
    BY <1>1, <2>1 DEF PcInv
  <2>4. HardwareOwned'
    BY <1>1 DEF Inv, MarksInv, HardwareOwned, marking, card
  <2> QED BY <2>2, <2>3, <2>4 DEF MarksInv
<1> QED BY <1>3, <1>4, <1>5 DEF Inv

(* A request that ends and leaves all marks of flows as they were.         *)
LEMMA FinishKeeps ==
  ASSUME OffloadAssumption, Inv, pc \notin {"idle", "associate", "netdev_flow_del"}, Finish(flow, 0),
         UNCHANGED <<tables, list, asleep, megaflow_to_mark, mark_to_flow, port_up>>,
         pool' = IF Adding THEN pool \ {held} ELSE pool,
         hw' \in [Megas -> Marks \cup {INVALID_FLOW_MARK}],
         undeleted' \in SUBSET Megas, RulesStay
  PROVE  Inv'
<1>0. PICK i \in Flows : i = item.flow
  BY AtWork
<1>1. pc' = "idle" /\ item' = NoItem /\ held' = INVALID_FLOW_MARK /\ item'.flow = None
  BY DEF Finish, NoItem
<1>2. UNCHANGED <<flow_table, removing>>
  BY DEF tables
<1>3. \A f \in Flows : References(f)' = References(f) - (IF f = i THEN 1 + 0 ELSE 0)
  <2> TAKE f \in Flows
  <2>1. InList(list, f) \in Nat
    BY UseCounts DEF Inv, TypeOK
  <2>2. item'.flow # f
    BY <1>1 DEF OffloadAssumption
  <2> QED BY <1>0, <1>1, <1>2, <2>1, <2>2 DEF References
<1>4. /\ flow' \in [Flows -> FlowRecords] /\ AllocInv' /\ RemovingInv' /\ RefsExact'
      /\ \A f \in Flows : f \in mark_to_flow' =>
           flow'[f].mark = flow[f].mark /\ flow'[f].mega_ufid = flow[f].mega_ufid
      /\ \A f \in Flows : flow'[f].mark = flow[f].mark \/
           (f \notin mark_to_flow' /\ flow'[f].mark = INVALID_FLOW_MARK)
  <2>1. flow \in [Flows -> FlowRecords] /\ 0 \in Nat
    BY DEF Inv, TypeOK
  <2> QED BY <1>0, <1>2, <1>3, <2>1, FinishRefs
<1>5. TypeOK'
  BY <1>1, <1>2, <1>4 DEF Inv, TypeOK
<1>6. MarksInv'
  <2>1. \A f \in Flows : f \notin mark_to_flow => flow[f].mark = INVALID_FLOW_MARK
    BY DEF Inv, MarksInv, MarksOwned
  <2>2. \A f \in Flows : flow'[f].mark = flow[f].mark
    BY <1>4, <2>1
  <2>3. \A f \in mark_to_flow : flow'[f].mega_ufid = flow[f].mega_ufid
    BY <1>4 DEF Inv, TypeOK
  <2> QED BY <1>1, <2>2, <2>3, FinishFrame
<1> QED BY <1>4, <1>5, <1>6 DEF Inv

LEMMA PutDeadKeeps ==
  ASSUME OffloadAssumption, Inv, put_dead \/ put_no_mark \/ del_no_mark
  PROVE  Inv'
<1>1. /\ pc \notin {"idle", "associate", "netdev_flow_del", "hw"} /\ Finish(flow, 0)
      /\ UNCHANGED <<tables, list, asleep, marking, card>>
  BY DEF put_dead, put_no_mark, del_no_mark
<1>2. ~Adding
  BY <1>1 DEF Adding
<1>3. /\ UNCHANGED <<tables, list, asleep, megaflow_to_mark, mark_to_flow, port_up, pool, hw>>
      /\ hw \in [Megas -> Marks \cup {INVALID_FLOW_MARK}]
      /\ undeleted' \in SUBSET Megas /\ RulesStay
  BY <1>1 DEF marking, card, Inv, TypeOK, RulesStay
<1> QED BY <1>1, <1>2, <1>3, FinishKeeps

LEMMA PutAliveKeeps ==
  ASSUME OffloadAssumption, Inv, put_alive
  PROVE  Inv'
<1>1. /\ pc = "put" /\ UNCHANGED <<flow, tables, list, asleep, item, marking, card>>
      /\ IF modification
         THEN pc' = "hw" /\ held' = flow[item.flow].mark
         ELSE pc' = "find" /\ UNCHANGED held
  BY DEF put_alive
<1>2. item \in Items /\ item.flow \in Flows
  BY <1>1, AtWork
<1>3. modification' <=> modification
  BY <1>1 DEF modification
<1>4. ~Adding /\ ~Adding'
  BY <1>1, <1>3 DEF Adding
<1>5. TypeOK'
  <2>1. flow[item.flow].mark \in Marks \cup {INVALID_FLOW_MARK}
    BY <1>2 DEF Inv, TypeOK, FlowRecords
  <2> QED BY <1>1, <1>2, <2>1 DEF Inv, TypeOK, tables, marking, card
<1>6. AllocInv' /\ RemovingInv' /\ RefsExact'
  <2>1. pc' # "netdev_flow_del" /\ UNCHANGED mark_to_flow /\ list' \in Seq(Items)
    BY <1>1 DEF Inv, TypeOK, marking
  <2> QED BY <1>1, <2>1, RefsFrame
<1>7. MarksOwned'
  BY <1>1, <1>4 DEF Inv, MarksInv, MarksOwned, marking
<1>8. PcInv'
  BY <1>1, <1>3, <1>4 DEF PcInv
<1>9. HardwareOwned'
  BY <1>1 DEF Inv, MarksInv, HardwareOwned, marking, card
<1> QED BY <1>5, <1>6, <1>7, <1>8, <1>9 DEF Inv, MarksInv

(* The item of a flow that has no mark yet ends with its association.      *)
LEMMA AssociateKeeps ==
  ASSUME OffloadAssumption, Inv, pc \in {"find", "associate"}, NEW mark \in Marks, Associate(mark),
         flow[item.flow].mark = INVALID_FLOW_MARK,
         UNCHANGED <<tables, list, asleep, pool, card>>,
         megaflow_to_mark' = [megaflow_to_mark EXCEPT ![mega] = mark],
         \/ pc = "find" /\ megaflow_to_mark[mega] = mark
         \/ pc = "associate" /\ mark = held
  PROVE  Inv'
<1>0. PICK i \in Flows : i = item.flow
  BY AtWork
<1>1. /\ mark_to_flow' = mark_to_flow \cup {i} /\ flow' = [flow EXCEPT ![i] = [flow[i] EXCEPT !.mark = mark]]
      /\ pc' = "idle" /\ item' = NoItem /\ held' = INVALID_FLOW_MARK /\ item'.flow = None
  BY <1>0 DEF Associate, NoItem
<1>2. UNCHANGED <<flow_table, removing>>
  BY DEF tables
<1>m. mark # INVALID_FLOW_MARK
  BY DEF Marks, INVALID_FLOW_MARK
<1> DEFINE new == [flow[i] EXCEPT !.mark = mark]
<1>3. /\ flow[i] \in FlowRecords /\ flow \in [Flows -> FlowRecords]
      /\ new \in FlowRecords /\ new.mark = mark /\ new.mega_ufid = flow[i].mega_ufid
      /\ new.pmd_id = flow[i].pmd_id /\ new.ref_cnt = flow[i].ref_cnt
  <2>1. flow[i] \in FlowRecords /\ flow \in [Flows -> FlowRecords]
    BY DEF Inv, TypeOK
  <2> QED BY <2>1 DEF FlowRecords
<1>4. flow' = [flow EXCEPT ![i] = new]
  BY <1>1
<1> HIDE DEF new
<1>5. flow' \in [Flows -> FlowRecords] /\ flow'[i] = new /\ \A f \in Flows : f # i => flow'[f] = flow[f]
  BY <1>3, <1>4
<1>6. /\ i \notin mark_to_flow /\ mega \in Megas /\ mega = flow[i].mega_ufid /\ flow[i].ref_cnt # 0
      /\ mark_to_flow \subseteq Flows
  <2>1. i \notin mark_to_flow
    BY <1>0 DEF Inv, MarksInv, MarksOwned
  <2>2. mega = flow[i].mega_ufid
    BY <1>0 DEF mega
  <2> QED BY <1>0, <2>1, <2>2, AtWork DEF Inv, TypeOK
<1>7. TypeOK'
  BY <1>1, <1>2, <1>5 DEF Inv, TypeOK, card
<1>8. AllocInv'
  BY <1>3, <1>5, <1>6 DEF Inv, AllocInv
<1>9. RemovingInv'
  <2>1. \A q \in Pmds : removing[q] # None => removing[q] \in Flows
    BY DEF Inv, TypeOK
  <2> QED BY <1>2, <1>3, <1>5, <2>1 DEF Inv, RemovingInv
<1>10. RefsExact'
  <2> SUFFICES ASSUME NEW f \in Flows PROVE flow'[f].ref_cnt = References(f)'
    BY DEF RefsExact
  <2>1. flow[f].ref_cnt = References(f) /\ InList(list, f) \in Nat
    BY UseCounts DEF Inv, TypeOK, RefsExact
  <2>2. item'.flow # f
    BY <1>1 DEF OffloadAssumption
  <2>3. References(f)' = References(f)
    BY <1>0, <1>1, <1>2, <1>6, <2>1, <2>2 DEF References
  <2> QED BY <1>3, <1>5, <2>1, <2>3
<1>11. \A f \in mark_to_flow' :
         IF f = i THEN flow'[f].mark = mark /\ flow'[f].mega_ufid = mega
         ELSE f \in mark_to_flow /\ flow'[f] = flow[f]
  BY <1>1, <1>3, <1>5, <1>6
<1>12. /\ megaflow_to_mark'[mega] = mark
       /\ \A m \in Megas : m # mega => megaflow_to_mark'[m] = megaflow_to_mark[m]
  BY <1>6 DEF Inv, TypeOK
<1>13. CASE pc = "find"
  <2>1. megaflow_to_mark' = megaflow_to_mark /\ ~Adding /\ ~Adding'
    BY <1>1, <1>13, <1>12, <1>6 DEF Adding, Inv, TypeOK
  <2>2. MarksOwned'
    BY <1>1, <1>3, <1>5, <1>6, <1>11, <1>13, <1>m, <2>1 DEF Inv, MarksInv, MarksOwned
  <2>3. PcInv'
    BY <1>1, <2>1 DEF PcInv
  <2>4. HardwareOwned'
    BY <1>1, <1>13, <2>1 DEF Inv, MarksInv, HardwareOwned, card
  <2> QED BY <1>7, <1>8, <1>9, <1>10, <2>2, <2>3, <2>4 DEF Inv, MarksInv
<1>14. CASE pc = "associate"
  <2>1. Adding /\ mark = held /\ ~Adding'
    BY <1>1, <1>14 DEF Adding, Inv, MarksInv, PcInv
  <2>2. /\ megaflow_to_mark[mega] = INVALID_FLOW_MARK
        /\ \A m \in Megas : megaflow_to_mark[m] # mark
    BY <2>1 DEF Inv, MarksInv, PcInv
  <2>3. \A f \in mark_to_flow : f \in Flows /\ flow[f].mega_ufid # mega /\ flow[f].mega_ufid \in Megas
    <3> TAKE f \in mark_to_flow
    <3>1. f \in Flows /\ flow[f].mark # INVALID_FLOW_MARK
      BY <1>6 DEF Inv, MarksInv, MarksOwned
    <3>2. flow[f].mega_ufid # mega
      BY <3>1, <2>2 DEF Inv, MarksInv, MarksOwned
    <3>3. flow[f].mega_ufid \in Megas
      BY <3>1, UsedHasRefs, InUse
    <3> QED BY <3>1, <3>2, <3>3
  <2>4. \A f \in Flows : f \in mark_to_flow' <=> flow'[f].mark # INVALID_FLOW_MARK
    BY <1>1, <1>3, <1>5, <1>m DEF Inv, MarksInv, MarksOwned
  <2>5. \A f \in mark_to_flow' : flow'[f].mark = megaflow_to_mark'[flow'[f].mega_ufid]
    BY <1>11, <1>12, <2>3 DEF Inv, MarksInv, MarksOwned
  <2>6. \A m, n \in Megas : m # n /\ megaflow_to_mark'[m] = megaflow_to_mark'[n] =>
          megaflow_to_mark'[m] = INVALID_FLOW_MARK
    BY <1>12, <2>2 DEF Inv, MarksInv, MarksOwned
  <2>7. \A m \in Megas : megaflow_to_mark'[m] # INVALID_FLOW_MARK =>
          \E f \in mark_to_flow' : flow'[f].mega_ufid = m
    <3> SUFFICES ASSUME NEW m \in Megas, megaflow_to_mark'[m] # INVALID_FLOW_MARK
                 PROVE  \E f \in mark_to_flow' : flow'[f].mega_ufid = m
      OBVIOUS
    <3>1. CASE m = mega
      BY <3>1, <1>1, <1>11
    <3>2. CASE m # mega
      <4>1. PICK f \in mark_to_flow : flow[f].mega_ufid = m
        BY <3>2, <1>12, <1>14 DEF Inv, MarksInv, MarksOwned
      <4> QED BY <4>1, <1>1, <1>6, <1>11
    <3> QED BY <3>1, <3>2
  <2>8. \A k \in Marks : k \in pool' <=> \E m \in Megas : megaflow_to_mark'[m] = k
    <3> SUFFICES ASSUME NEW k \in Marks
                 PROVE  k \in pool <=> \E m \in Megas : megaflow_to_mark'[m] = k
      OBVIOUS
    <3>1. k \in pool <=> (k = mark \/ \E m \in Megas : megaflow_to_mark[m] = k)
      BY <2>1 DEF Inv, MarksInv, MarksOwned
    <3>2. k # INVALID_FLOW_MARK
      BY DEF Marks, INVALID_FLOW_MARK
    <3> QED BY <1>6, <1>12, <2>2, <3>1, <3>2
  <2>9. MarksOwned'
    BY <2>1, <2>4, <2>5, <2>6, <2>7, <2>8 DEF MarksOwned
  <2>10. PcInv'
    BY <1>1, <2>1 DEF PcInv
  <2>11. HardwareOwned'
    BY <1>1, <1>12, <1>14, <2>1, <2>2 DEF Inv, MarksInv, PcInv, HardwareOwned, card
  <2> QED BY <1>7, <1>8, <1>9, <1>10, <2>9, <2>10, <2>11 DEF Inv, MarksInv
<1> QED BY <1>13, <1>14

LEMMA PutFoundKeeps ==
  ASSUME OffloadAssumption, Inv, put_found
  PROVE  Inv'
<1>1. /\ pc = "find" /\ megaflow_to_mark[mega] # INVALID_FLOW_MARK
      /\ UNCHANGED <<tables, list, asleep, pool, megaflow_to_mark, card>>
  BY DEF put_found
<1>2. CASE flow[item.flow].mark # INVALID_FLOW_MARK
  <2>1. Finish(flow, 0) /\ UNCHANGED mark_to_flow
    BY <1>2 DEF put_found
  <2>2. /\ ~Adding /\ UNCHANGED <<port_up, hw>> /\ hw \in [Megas -> Marks \cup {INVALID_FLOW_MARK}]
        /\ undeleted' \in SUBSET Megas /\ RulesStay
    BY <1>1 DEF Adding, card, Inv, TypeOK, RulesStay
  <2> QED BY <1>1, <2>1, <2>2, FinishKeeps
<1>3. CASE flow[item.flow].mark = INVALID_FLOW_MARK
  <2>1. Associate(megaflow_to_mark[mega])
    BY <1>3 DEF put_found
  <2>2. mega \in Megas
    BY <1>1, AtWork
  <2>3. megaflow_to_mark[mega] \in Marks
    BY <1>1, <2>2 DEF Inv, TypeOK
  <2>4. megaflow_to_mark' = [megaflow_to_mark EXCEPT ![mega] = megaflow_to_mark[mega]]
    BY <1>1, <2>2 DEF Inv, TypeOK
  <2> QED BY <1>1, <1>3, <2>1, <2>3, <2>4, AssociateKeeps
<1> QED BY <1>2, <1>3

LEMMA PutAssociateKeeps ==
  ASSUME OffloadAssumption, Inv, put_associate
  PROVE  Inv'
<1>1. /\ pc = "associate" /\ Associate(held) /\ UNCHANGED <<tables, list, asleep, pool, card>>
      /\ megaflow_to_mark' = [megaflow_to_mark EXCEPT ![mega] = held]
  BY DEF put_associate
<1>2. held \in Marks /\ flow[item.flow].mark = INVALID_FLOW_MARK
  BY <1>1 DEF Inv, MarksInv, PcInv, Adding
<1> QED BY <1>1, <1>2, AssociateKeeps

LEMMA FlowMarkAllocKeeps ==
  ASSUME OffloadAssumption, Inv, flow_mark_alloc
  PROVE  Inv'
<1>1. /\ pc = "find" /\ pc' = "hw" /\ megaflow_to_mark[mega] = INVALID_FLOW_MARK
      /\ UNCHANGED <<flow, tables, list, asleep, item, megaflow_to_mark, mark_to_flow, card>>
  BY DEF flow_mark_alloc
<1>2. PICK mark \in Marks \ pool : held' = mark /\ pool' = pool \cup {mark}
  BY DEF flow_mark_alloc
<1>m. mark # INVALID_FLOW_MARK
  BY DEF Marks, INVALID_FLOW_MARK
<1>3. item \in Items /\ item.flow \in Flows /\ mega \in Megas
  BY <1>1, AtWork
<1>4. flow[item.flow].mark = INVALID_FLOW_MARK
  <2>1. SUFFICES ASSUME flow[item.flow].mark # INVALID_FLOW_MARK PROVE FALSE
    OBVIOUS
  <2>2. item.flow \in mark_to_flow
    BY <1>3, <2>1 DEF Inv, MarksInv, MarksOwned
  <2>3. flow[item.flow].mark = megaflow_to_mark[mega]
    BY <2>2 DEF Inv, MarksInv, MarksOwned, mega
  <2> QED BY <1>1, <2>1, <2>3
<1>5. mega' = mega /\ ~modification /\ ~modification' /\ ~Adding /\ Adding'
  BY <1>1, <1>4 DEF mega, modification, Adding
<1>6. \A m \in Megas : megaflow_to_mark[m] # mark
  BY <1>2 DEF Inv, MarksInv, MarksOwned
<1>7. TypeOK'
  BY <1>1, <1>2 DEF Inv, TypeOK, tables, card
<1>8. AllocInv' /\ RemovingInv' /\ RefsExact'
  <2>1. pc' # "netdev_flow_del" /\ list' \in Seq(Items)
    BY <1>1 DEF Inv, TypeOK
  <2> QED BY <1>1, <2>1, RefsFrame
<1>9. MarksOwned'
  <2>1. \A k \in Marks : k \in pool <=> \E m \in Megas : megaflow_to_mark[m] = k
    BY <1>5 DEF Inv, MarksInv, MarksOwned
  <2>2. \A k \in Marks : k \in pool' <=>
          (\E m \in Megas : megaflow_to_mark'[m] = k) \/ (Adding' /\ k = held')
    BY <1>1, <1>2, <1>5, <2>1
  <2>3. \A m \in Megas : megaflow_to_mark'[m] # INVALID_FLOW_MARK =>
          \E f \in mark_to_flow' : flow'[f].mega_ufid = m
    BY <1>1 DEF Inv, MarksInv, MarksOwned
  <2> QED BY <1>1, <2>2, <2>3 DEF Inv, MarksInv, MarksOwned
<1>10. PcInv'
  BY <1>1, <1>2, <1>4, <1>5, <1>6 DEF PcInv
<1>11. HardwareOwned'
  BY <1>1 DEF Inv, MarksInv, HardwareOwned, card
<1> QED BY <1>7, <1>8, <1>9, <1>10, <1>11 DEF Inv, MarksInv

(* At "hw" the offload thread has the mark of the mega flow, or a new one. *)
LEMMA ModificationMark ==
  ASSUME OffloadAssumption, Inv, pc = "hw", modification
  PROVE  held = megaflow_to_mark[mega] /\ ~Adding
<1>1. item.flow \in Flows
  BY AtWork
<1>2. item.flow \in mark_to_flow
  BY <1>1 DEF modification, Inv, MarksInv, MarksOwned
<1>3. held = flow[item.flow].mark
  BY DEF Inv, MarksInv, PcInv
<1> QED BY <1>2, <1>3 DEF Inv, MarksInv, MarksOwned, mega, Adding

LEMMA NetdevFlowPutKeeps ==
  ASSUME OffloadAssumption, Inv, netdev_flow_put
  PROVE  Inv'
<1>1. /\ pc = "hw" /\ hw' = [hw EXCEPT ![mega] = held] /\ undeleted' = undeleted \ {mega}
      /\ UNCHANGED <<tables, list, asleep, marking, port_up>>
  BY DEF netdev_flow_put
<1>2. /\ hw' \in [Megas -> Marks \cup {INVALID_FLOW_MARK}]
      /\ mega \in Megas /\ hw'[mega] = held
      /\ \A m \in Megas : m # mega => hw'[m] = hw[m]
      /\ undeleted' \in SUBSET Megas
  BY <1>1, AtWork DEF Inv, TypeOK
<1>3. CASE modification
  <2>1. Finish(flow, 0) /\ held = megaflow_to_mark[mega] /\ ~Adding
    BY <1>1, <1>3, ModificationMark DEF netdev_flow_put
  <2>2. RulesStay
    BY <1>1, <1>2, <2>1 DEF RulesStay
  <2>3. pc \notin {"idle", "associate", "netdev_flow_del"}
        /\ UNCHANGED <<megaflow_to_mark, mark_to_flow, pool>>
    BY <1>1 DEF marking
  <2> QED BY <1>1, <1>2, <2>1, <2>2, <2>3, FinishKeeps
<1>4. CASE ~modification
  <2>1. pc' = "associate" /\ UNCHANGED <<flow, item, held>>
    BY <1>4 DEF netdev_flow_put
  <2>2. mega' = mega /\ ~modification' /\ Adding /\ Adding'
    BY <1>1, <1>4, <2>1 DEF mega, modification, Adding
  <2>3. TypeOK'
    BY <1>1, <1>2, <2>1 DEF Inv, TypeOK, tables, marking
  <2>4. AllocInv' /\ RemovingInv' /\ RefsExact'
    <3>1. pc' # "netdev_flow_del" /\ list' \in Seq(Items) /\ UNCHANGED mark_to_flow
      BY <1>1, <2>1 DEF Inv, TypeOK, marking
    <3> QED BY <1>1, <2>1, <3>1, RefsFrame
  <2>5. MarksOwned'
    BY <1>1, <2>1, <2>2 DEF Inv, MarksInv, MarksOwned, marking
  <2>6. PcInv'
    BY <1>1, <1>2, <2>1, <2>2 DEF Inv, MarksInv, PcInv, marking
  <2>7. HardwareOwned'
    BY <1>1, <1>2, <2>1, <2>2 DEF Inv, MarksInv, HardwareOwned, marking
  <2> QED BY <2>3, <2>4, <2>5, <2>6, <2>7 DEF Inv, MarksInv
<1> QED BY <1>3, <1>4

LEMMA PutFailedKeeps ==
  ASSUME OffloadAssumption, Inv, put_failed
  PROVE  Inv'
<1>1. /\ pc = "hw" /\ hw' \in {hw, [hw EXCEPT ![mega] = INVALID_FLOW_MARK]} /\ Deletes({})
      /\ UNCHANGED <<tables, list, asleep, megaflow_to_mark, mark_to_flow, port_up>>
  BY DEF put_failed
<1>2. /\ hw' \in [Megas -> Marks \cup {INVALID_FLOW_MARK}]
      /\ undeleted' \in SUBSET Megas /\ RulesStay
  BY <1>1 DEF Inv, TypeOK, Deletes, RulesStay
<1>3. CASE modification
  <2>1. pc' = "disassociate" /\ UNCHANGED <<flow, item, held, pool>>
    BY <1>3 DEF put_failed
  <2>2. ~Adding /\ ~Adding'
    BY <1>3, <2>1 DEF Adding
  <2>3. TypeOK'
    BY <1>1, <1>2, <2>1 DEF Inv, TypeOK, tables
  <2>4. AllocInv' /\ RemovingInv' /\ RefsExact'
    <3>1. pc' # "netdev_flow_del" /\ list' \in Seq(Items)
      BY <1>1, <2>1 DEF Inv, TypeOK
    <3> QED BY <1>1, <2>1, <3>1, RefsFrame
  <2>5. MarksOwned'
    BY <1>1, <2>1, <2>2 DEF Inv, MarksInv, MarksOwned
  <2>6. PcInv'
    BY <2>1, <2>2 DEF PcInv
  <2>7. HardwareOwned'
    BY <1>1, <1>2, <2>1 DEF Inv, MarksInv, HardwareOwned, RulesStay
  <2> QED BY <2>3, <2>4, <2>5, <2>6, <2>7 DEF Inv, MarksInv
<1>4. CASE ~modification
  <2>1. pool' = pool \ {held} /\ Finish(flow, 0) /\ Adding
    BY <1>1, <1>4 DEF put_failed, Adding
  <2>2. pc \notin {"idle", "associate", "netdev_flow_del"}
    BY <1>1
  <2> QED BY <1>1, <1>2, <2>1, <2>2, FinishKeeps
<1> QED BY <1>3, <1>4

(* A flow loses its mark; the last one of its mega flow leaves the card to *)
(* netdev_flow_del, another one ends the request.                          *)
LEMMA DisassociateKeeps ==
  ASSUME OffloadAssumption, Inv, mark_to_flow_disassociate
  PROVE  Inv'
<1>0. PICK i \in Flows : i = item.flow
  BY AtWork DEF mark_to_flow_disassociate
<1> DEFINE mark == flow[i].mark
           new == [flow[i] EXCEPT !.mark = INVALID_FLOW_MARK]
           unmarked == [flow EXCEPT ![i] = new]
<1>1. /\ pc = "disassociate" /\ mark # INVALID_FLOW_MARK /\ mark_to_flow' = mark_to_flow \ {i}
      /\ UNCHANGED <<tables, list, asleep, pool, megaflow_to_mark, card>>
      /\ IF flow_mark_has_no_ref(mark)
         THEN pc' = "netdev_flow_del" /\ held' = mark /\ flow' = unmarked /\ UNCHANGED item
         ELSE Finish(unmarked, 1)
  BY <1>0 DEF mark_to_flow_disassociate
<1>2. UNCHANGED <<flow_table, removing, port_up, hw, undeleted>>
  BY <1>1 DEF tables, card
<1>3. /\ flow[i] \in FlowRecords /\ flow \in [Flows -> FlowRecords] /\ mark_to_flow \subseteq Flows
      /\ mega = flow[i].mega_ufid /\ mega \in Megas
  BY <1>0, <1>1, AtWork DEF Inv, TypeOK, mega
<1>4. /\ new \in FlowRecords /\ new.mark = INVALID_FLOW_MARK /\ new.mega_ufid = flow[i].mega_ufid
      /\ new.pmd_id = flow[i].pmd_id /\ new.ref_cnt = flow[i].ref_cnt
      /\ mark \in Marks
  BY <1>1, <1>3 DEF FlowRecords, INVALID_FLOW_MARK
<1>5. i \in mark_to_flow /\ mark = megaflow_to_mark[mega]
  <2>1. i \in mark_to_flow
    BY <1>1 DEF Inv, MarksInv, MarksOwned
  <2> QED BY <1>3, <2>1 DEF Inv, MarksInv, MarksOwned
<1> HIDE DEF new
<1>6. /\ unmarked \in [Flows -> FlowRecords] /\ unmarked[i] = new
      /\ \A f \in Flows : f # i => unmarked[f] = flow[f]
  BY <1>3, <1>4
<1>7. ~Adding /\ ~Adding'
  BY <1>1 DEF Adding, Finish
<1> HIDE DEF mark, unmarked
<1>8. CASE flow_mark_has_no_ref(mark)
  <2>1. pc' = "netdev_flow_del" /\ held' = mark /\ flow' = unmarked /\ UNCHANGED item
    BY <1>1, <1>8
  <2>2. TypeOK'
    BY <1>1, <1>2, <1>3, <1>4, <1>6, <2>1 DEF Inv, TypeOK
  <2>3. AllocInv'
    <3>1. flow[i].ref_cnt # 0
      BY <1>0, UsedHasRefs
    <3> QED BY <1>4, <1>6, <2>1, <3>1 DEF Inv, AllocInv
  <2>4. RemovingInv'
    <3>1. \A q \in Pmds : removing[q] # None => removing[q] \in Flows
      BY DEF Inv, TypeOK
    <3> QED BY <1>2, <1>4, <1>6, <2>1, <3>1 DEF Inv, RemovingInv
  <2>5. RefsExact'
    <3> SUFFICES ASSUME NEW f \in Flows PROVE flow'[f].ref_cnt = References(f)'
      BY DEF RefsExact
    <3>1. flow[f].ref_cnt = References(f) /\ InList(list, f) \in Nat
      BY UseCounts DEF Inv, TypeOK, RefsExact
    <3>2. References(f)' = References(f)
      BY <1>0, <1>1, <1>2, <1>5, <2>1, <3>1 DEF References
    <3> QED BY <1>4, <1>6, <2>1, <3>1, <3>2
  <2>6. \A f \in mark_to_flow' : f \in Flows /\ f # i /\ flow'[f] = flow[f] /\ flow[f].mark # mark
    BY <1>0, <1>1, <1>3, <1>6, <1>8, <2>1 DEF flow_mark_has_no_ref
  <2>7. \A f \in mark_to_flow' : flow'[f].mega_ufid # mega
    BY <1>1, <1>5, <2>6 DEF Inv, MarksInv, MarksOwned
  <2>8. mega' = mega /\ flow'[item'.flow].mark = INVALID_FLOW_MARK
    BY <1>0, <1>3, <1>4, <1>6, <2>1 DEF mega
  <2>9. MarksOwned'
    <3>1. \A f \in Flows : f \in mark_to_flow' <=> flow'[f].mark # INVALID_FLOW_MARK
      BY <1>1, <1>4, <1>6, <2>1 DEF Inv, MarksInv, MarksOwned
    <3>2. \A f \in mark_to_flow' : flow'[f].mark = megaflow_to_mark'[flow'[f].mega_ufid]
      BY <1>1, <2>6 DEF Inv, MarksInv, MarksOwned
    <3>3. \A m \in Megas : megaflow_to_mark'[m] # INVALID_FLOW_MARK =>
            \/ \E f \in mark_to_flow' : flow'[f].mega_ufid = m
            \/ pc' = "netdev_flow_del" /\ mega' = m
      <4> SUFFICES ASSUME NEW m \in Megas, megaflow_to_mark[m] # INVALID_FLOW_MARK, m # mega
                   PROVE  \E f \in mark_to_flow' : flow'[f].mega_ufid = m
        BY <1>1, <2>1, <2>8
      <4>1. PICK f \in mark_to_flow : flow[f].mega_ufid = m
        BY <1>1 DEF Inv, MarksInv, MarksOwned
      <4> QED BY <1>1, <1>3, <2>6, <4>1
    <3>4. \A k \in Marks : k \in pool' <=>
            (\E m \in Megas : megaflow_to_mark'[m] = k) \/ (Adding' /\ k = held')
      BY <1>1, <1>7 DEF Inv, MarksInv, MarksOwned
    <3> QED BY <1>1, <3>1, <3>2, <3>3, <3>4 DEF Inv, MarksInv, MarksOwned
  <2>10. PcInv'
    BY <1>1, <1>5, <1>7, <2>1, <2>7, <2>8 DEF PcInv
  <2>11. HardwareOwned'
    BY <1>1, <1>2 DEF Inv, MarksInv, HardwareOwned
  <2> QED BY <2>2, <2>3, <2>4, <2>5, <2>9, <2>10, <2>11 DEF Inv, MarksInv
<1>9. CASE ~flow_mark_has_no_ref(mark)
  <2>1. Finish(unmarked, 1)
    BY <1>1, <1>9
  <2>2. pc' = "idle" /\ item' = NoItem /\ held' = INVALID_FLOW_MARK /\ item'.flow = None
    BY <2>1 DEF Finish, NoItem
  <2>3. \A f \in Flows : References(f)' = References(f) - (IF f = i THEN 1 + 1 ELSE 0)
    <3> TAKE f \in Flows
    <3>1. InList(list, f) \in Nat
      BY UseCounts DEF Inv, TypeOK
    <3>2. item'.flow # f
      BY <2>2 DEF OffloadAssumption
    <3> QED BY <1>0, <1>1, <1>2, <1>5, <2>2, <3>1, <3>2 DEF References
  <2>4. \A f \in Flows :
          /\ unmarked[f].ref_cnt = flow[f].ref_cnt /\ unmarked[f].mega_ufid = flow[f].mega_ufid
          /\ unmarked[f].pmd_id = flow[f].pmd_id
          /\ f # i => unmarked[f] = flow[f]
    BY <1>4, <1>6
  <2>5. /\ flow' \in [Flows -> FlowRecords] /\ AllocInv' /\ RemovingInv' /\ RefsExact'
        /\ \A f \in Flows : f # i => flow'[f] = flow[f]
        /\ flow'[i].mark = unmarked[i].mark \/ flow'[i].mark = INVALID_FLOW_MARK
    <3>1. 1 \in Nat /\ UNCHANGED <<flow_table, removing, list>>
      BY <1>1, <1>2
    <3> QED BY <1>0, <1>6, <2>1, <2>3, <2>4, <3>1, FinishRefs
  <2>6. flow'[i].mark = INVALID_FLOW_MARK
    BY <1>4, <1>6, <2>5
  <2>7. TypeOK'
    BY <1>1, <1>2, <1>3, <2>2, <2>5 DEF Inv, TypeOK
  <2>8. \A f \in mark_to_flow' : f \in Flows /\ f # i /\ f \in mark_to_flow /\ flow'[f] = flow[f]
    BY <1>1, <1>3, <2>5
  <2>9. PICK g \in mark_to_flow' : flow[g].mark = mark
    BY <1>0, <1>1, <1>9 DEF flow_mark_has_no_ref
  <2>10. flow[g].mega_ufid = mega
    <3>1. g \in Flows /\ g \in mark_to_flow /\ flow[g].mark = megaflow_to_mark[mega]
      BY <1>5, <2>8, <2>9
    <3>2. flow[g].mega_ufid \in Megas
      BY <3>1, UsedHasRefs, InUse
    <3>3. megaflow_to_mark[flow[g].mega_ufid] = megaflow_to_mark[mega]
      BY <3>1 DEF Inv, MarksInv, MarksOwned
    <3>4. megaflow_to_mark[mega] # INVALID_FLOW_MARK
      BY <1>1, <1>5
    <3> QED BY <1>3, <3>2, <3>3, <3>4 DEF Inv, MarksInv, MarksOwned
  <2>11. MarksOwned'
    <3>1. \A f \in Flows : f \in mark_to_flow' <=> flow'[f].mark # INVALID_FLOW_MARK
      BY <1>1, <2>5, <2>6 DEF Inv, MarksInv, MarksOwned
    <3>2. \A f \in mark_to_flow' : flow'[f].mark = megaflow_to_mark'[flow'[f].mega_ufid]
      BY <1>1, <2>8 DEF Inv, MarksInv, MarksOwned
    <3>3. \A m \in Megas : megaflow_to_mark'[m] # INVALID_FLOW_MARK =>
            \E f \in mark_to_flow' : flow'[f].mega_ufid = m
      <4> SUFFICES ASSUME NEW m \in Megas, megaflow_to_mark[m] # INVALID_FLOW_MARK
                   PROVE  \E f \in mark_to_flow' : flow'[f].mega_ufid = m
        BY <1>1
      <4>1. CASE m = mega
        BY <2>8, <2>9, <2>10, <4>1
      <4>2. CASE m # mega
        <5>1. PICK f \in mark_to_flow : flow[f].mega_ufid = m
          BY <1>1 DEF Inv, MarksInv, MarksOwned
        <5> QED BY <1>1, <1>3, <2>8, <4>2, <5>1
      <4> QED BY <4>1, <4>2
    <3>4. \A k \in Marks : k \in pool' <=>
            (\E m \in Megas : megaflow_to_mark'[m] = k) \/ (Adding' /\ k = held')
      BY <1>1, <1>7 DEF Inv, MarksInv, MarksOwned
    <3> QED BY <1>1, <3>1, <3>2, <3>3, <3>4 DEF Inv, MarksInv, MarksOwned
  <2>12. PcInv'
    BY <1>7, <2>2 DEF PcInv
  <2>13. HardwareOwned'
    BY <1>1, <1>2 DEF Inv, MarksInv, HardwareOwned
  <2> QED BY <2>5, <2>7, <2>11, <2>12, <2>13 DEF Inv, MarksInv
<1> QED BY <1>8, <1>9

(* The rule goes with the mark, unless the card keeps it; and the          *)
(* reference of the lost mark goes too.                                    *)
LEMMA DelKeeps ==
  ASSUME OffloadAssumption, Inv, netdev_flow_del
  PROVE  Inv'
<1>0. PICK i \in Flows : i = item.flow
  BY AtWork DEF netdev_flow_del
<1>1. /\ pc = "netdev_flow_del" /\ hw' \in {hw, [hw EXCEPT ![mega] = INVALID_FLOW_MARK]}
      /\ Deletes({mega})
      /\ pool' = pool \ {held}
      /\ megaflow_to_mark' = [megaflow_to_mark EXCEPT ![mega] = INVALID_FLOW_MARK]
      /\ Finish(flow, 1) /\ UNCHANGED <<tables, list, asleep, mark_to_flow, port_up>>
  BY DEF netdev_flow_del
<1>2. /\ pc' = "idle" /\ item' = NoItem /\ held' = INVALID_FLOW_MARK /\ item'.flow = None
      /\ UNCHANGED <<flow_table, removing>>
  BY <1>1 DEF Finish, NoItem, tables
<1>3. /\ held = megaflow_to_mark[mega] /\ held # INVALID_FLOW_MARK
      /\ \A f \in mark_to_flow : flow[f].mega_ufid # mega
      /\ mega \in Megas /\ ~Adding /\ ~Adding' /\ mark_to_flow \subseteq Flows
  BY <1>1, <1>2, AtWork DEF Inv, MarksInv, PcInv, Adding, TypeOK
<1>4. \A f \in Flows : References(f)' = References(f) - (IF f = i THEN 1 + 1 ELSE 0)
  <2> TAKE f \in Flows
  <2>1. InList(list, f) \in Nat
    BY UseCounts DEF Inv, TypeOK
  <2>2. item'.flow # f
    BY <1>2 DEF OffloadAssumption
  <2> QED BY <1>0, <1>1, <1>2, <2>1, <2>2 DEF References
<1>5. /\ flow' \in [Flows -> FlowRecords] /\ AllocInv' /\ RemovingInv' /\ RefsExact'
      /\ \A f \in Flows : f \in mark_to_flow' =>
           flow'[f].mark = flow[f].mark /\ flow'[f].mega_ufid = flow[f].mega_ufid
      /\ \A f \in Flows : flow'[f].mark = flow[f].mark \/
           (f \notin mark_to_flow' /\ flow'[f].mark = INVALID_FLOW_MARK)
  <2>1. flow \in [Flows -> FlowRecords] /\ 1 \in Nat
    BY DEF Inv, TypeOK
  <2> QED BY <1>0, <1>1, <1>2, <1>4, <2>1, FinishRefs
<1>6. /\ megaflow_to_mark'[mega] = INVALID_FLOW_MARK
      /\ hw'[mega] # INVALID_FLOW_MARK => mega \in undeleted'
      /\ \A m \in Megas : m # mega => megaflow_to_mark'[m] = megaflow_to_mark[m] /\ hw'[m] = hw[m]
      /\ \A m \in Megas : m \in undeleted /\ hw'[m] # INVALID_FLOW_MARK => m \in undeleted'
      /\ hw' \in [Megas -> Marks \cup {INVALID_FLOW_MARK}] /\ undeleted' \in SUBSET Megas
  BY <1>1, <1>3 DEF Inv, TypeOK, Deletes
<1>7. TypeOK'
  BY <1>1, <1>2, <1>5, <1>6 DEF Inv, TypeOK
<1>8. \A f \in mark_to_flow' :
        /\ f \in Flows /\ f \in mark_to_flow /\ flow'[f].mark = flow[f].mark
        /\ flow'[f].mega_ufid = flow[f].mega_ufid /\ flow[f].mega_ufid # mega
        /\ flow[f].mega_ufid \in Megas
  BY <1>1, <1>3, <1>5, UsedHasRefs, InUse
<1>9. MarksOwned'
  <2>1. \A f \in Flows : f \in mark_to_flow' <=> flow'[f].mark # INVALID_FLOW_MARK
    BY <1>1, <1>5 DEF Inv, MarksInv, MarksOwned
  <2>2. \A f \in mark_to_flow' : flow'[f].mark = megaflow_to_mark'[flow'[f].mega_ufid]
    BY <1>6, <1>8 DEF Inv, MarksInv, MarksOwned
  <2>3. \A m, n \in Megas : m # n /\ megaflow_to_mark'[m] = megaflow_to_mark'[n] =>
          megaflow_to_mark'[m] = INVALID_FLOW_MARK
    BY <1>6 DEF Inv, MarksInv, MarksOwned
  <2>4. \A m \in Megas : megaflow_to_mark'[m] # INVALID_FLOW_MARK =>
          \E f \in mark_to_flow' : flow'[f].mega_ufid = m
    <3> SUFFICES ASSUME NEW m \in Megas, megaflow_to_mark'[m] # INVALID_FLOW_MARK
                 PROVE  \E f \in mark_to_flow' : flow'[f].mega_ufid = m
      OBVIOUS
    <3>1. m # mega /\ megaflow_to_mark[m] # INVALID_FLOW_MARK
      BY <1>6
    <3>2. PICK f \in mark_to_flow : flow[f].mega_ufid = m
      BY <3>1 DEF Inv, MarksInv, MarksOwned
    <3> QED BY <1>1, <1>8, <3>2
  <2>5. \A k \in Marks : k \in pool' <=> \E m \in Megas : megaflow_to_mark'[m] = k
    <3> SUFFICES ASSUME NEW k \in Marks
                 PROVE  k \in pool' <=> \E m \in Megas : megaflow_to_mark'[m] = k
      OBVIOUS
    <3>1. k \in pool <=> \E m \in Megas : megaflow_to_mark[m] = k
      BY <1>3 DEF Inv, MarksInv, MarksOwned
    <3>2. k # INVALID_FLOW_MARK
      BY DEF Marks, INVALID_FLOW_MARK
    <3>3. k = held => \A m \in Megas : megaflow_to_mark'[m] # k
      BY <1>3, <1>6, <3>2 DEF Inv, MarksInv, MarksOwned
    <3>4. k # held => \A m \in Megas : megaflow_to_mark'[m] = k <=> megaflow_to_mark[m] = k
      BY <1>3, <1>6, <3>2
    <3> QED BY <1>1, <3>1, <3>3, <3>4
  <2> QED BY <1>3, <2>1, <2>2, <2>3, <2>4, <2>5 DEF MarksOwned
<1>10. PcInv'
  BY <1>2, <1>3 DEF PcInv
<1>11. HardwareOwned'
  BY <1>1, <1>6 DEF Inv, MarksInv, HardwareOwned
<1> QED BY <1>5, <1>7, <1>9, <1>10, <1>11 DEF Inv, MarksInv

-----------------------------------------------------------------------------
LEMMA NextKeeps ==
  ASSUME OffloadAssumption, Inv, [Next]_vars
  PROVE  Inv'
<1>1. CASE UNCHANGED vars
  <2>1. UNCHANGED <<flow, tables, list, thread, marking, card>>
    BY <1>1 DEF vars
  <2>2. TypeOK'
    BY <2>1 DEF Inv, TypeOK, tables, thread, marking, card
  <2>3. AllocInv' /\ RemovingInv' /\ RefsExact'
    BY <2>1, RefsFrame DEF Inv, TypeOK, thread, marking
  <2>4. MarksInv'
    BY <2>1, MarksFrame DEF thread, card, RulesStay
  <2> QED BY <2>2, <2>3, <2>4 DEF Inv
<1>2. ASSUME NEW p \in Pmds, TableStep(p) PROVE Inv'
  BY <1>2, AddKeeps, ModifyKeeps, RemoveKeeps, RemoveDeadKeeps DEF TableStep
<1>3. CASE do_del_port \/ do_add_port
  BY <1>3, PortKeeps
<1>4. CASE OffloadStep
  BY <1>4, WaitKeeps, PopKeeps, PutDeadKeeps, PutAliveKeeps, PutFoundKeeps,
     FlowMarkAllocKeeps, NetdevFlowPutKeeps, PutFailedKeeps, PutAssociateKeeps,
     DisassociateKeeps, DelKeeps DEF OffloadStep
<1> QED BY <1>1, <1>2, <1>3, <1>4 DEF Next

LEMMA Invariant == Spec => []Inv
<1>1. Init => Inv
  BY OffloadAssumption, InitInv
<1>2. Inv /\ [Next]_vars => Inv'
  BY OffloadAssumption, NextKeeps
<1> QED BY <1>1, <1>2, PTL DEF Spec

(* dp_netdev_flow_ref and _unref are balanced: the count of a flow is that *)
(* of the tables, the list, the marks and the threads that refer to it, so *)
(* none of them has freed memory.                                          *)
THEOREM ReferenceCounts == Spec => []RefsExact
<1>1. Inv => RefsExact
  BY DEF Inv
<1> QED BY <1>1, Invariant, PTL

(* flow_mark_alloc and flow_mark_free: a mark that is taken belongs to one *)
(* mega flow, whose flows are those that have it.                          *)
THEOREM MarkOwnership == Spec => []MarksOwned
<1>1. Inv => MarksOwned
  BY DEF Inv, MarksInv
<1> QED BY <1>1, Invariant, PTL

(* netdev_flow_put and netdev_flow_del: no rule of the card carries a mark *)
(* that is not of its mega flow, whatever the card refuses and whenever    *)
(* its port goes and comes back, unless it has refused to delete the rule  *)
(* and the mark was taken from the mega flow all the same.                 *)
THEOREM CardOwnership == Spec => []HardwareOwned
<1>1. Inv => HardwareOwned
  BY DEF Inv, MarksInv
<1> QED BY <1>1, Invariant, PTL

-----------------------------------------------------------------------------
(***************************************************************************)
(* What a PMD thread finds by a mark.  A thread has one flow of a mega     *)
(* flow at a time that is not dead: a flow leaves the table under the      *)
(* flow_mutex, which is held until it is dead.                             *)
(***************************************************************************)
Live(f) == flow[f].pmd_id # None /\ ~flow[f].dead

LiveInv ==
  /\ \A f \in Flows : Live(f) => f \in flow_table \/ removing[flow[f].pmd_id] = f
  /\ \A f, g \in Flows :
       Live(f) /\ Live(g) /\ flow[f].pmd_id = flow[g].pmd_id
         /\ flow[f].mega_ufid = flow[g].mega_ufid => f = g

(* No flow comes, nor comes back, nor leaves its thread or mega flow.      *)
NoneComes ==
  \A f \in Flows : Live(f)' =>
    /\ Live(f) /\ flow'[f].pmd_id = flow[f].pmd_id /\ flow'[f].mega_ufid = flow[f].mega_ufid
    /\ f \in flow_table \/ removing[flow[f].pmd_id] = f
         => f \in flow_table' \/ removing'[flow[f].pmd_id] = f

LEMMA LiveFrame ==
  ASSUME LiveInv, NoneComes
  PROVE  LiveInv'
<1>1. ASSUME NEW f \in Flows, Live(f)'
      PROVE  f \in flow_table' \/ removing'[flow'[f].pmd_id] = f
  BY <1>1 DEF NoneComes, LiveInv
<1>2. ASSUME NEW f \in Flows, NEW g \in Flows, Live(f)', Live(g)',
             flow'[f].pmd_id = flow'[g].pmd_id, flow'[f].mega_ufid = flow'[g].mega_ufid
      PROVE  f = g
  BY <1>2 DEF NoneComes, LiveInv
<1> QED BY <1>1, <1>2 DEF LiveInv

(* Flows that only lose or gain references or marks.                       *)
LEMMA NoneComesUnref ==
  ASSUME NEW fl \in [Flows -> FlowRecords], NEW i \in Flows, NEW n, flow' = Unref(fl, i, n),
         UNCHANGED tables, \A f \in Flows :
           /\ fl[f].pmd_id = flow[f].pmd_id /\ fl[f].mega_ufid = flow[f].mega_ufid
           /\ fl[f].dead = flow[f].dead
  PROVE  NoneComes
<1>1. ASSUME NEW f \in Flows
      PROVE  \/ flow'[f] = Unused
             \/ /\ flow'[f].pmd_id = flow[f].pmd_id /\ flow'[f].mega_ufid = flow[f].mega_ufid
                /\ flow'[f].dead = flow[f].dead
  <2>1. fl[f] \in FlowRecords OBVIOUS
  <2>2. CASE f # i BY <2>2 DEF Unref
  <2>3. CASE f = i
    <3>1. flow'[i] = IF fl[i].ref_cnt - n = 0 THEN Unused
                     ELSE [fl[i] EXCEPT !.ref_cnt = fl[i].ref_cnt - n]
      BY DEF Unref
    <3> QED BY <2>1, <2>3, <3>1 DEF FlowRecords
  <2> QED BY <2>2, <2>3
<1> QED BY <1>1 DEF NoneComes, Live, Unused, tables

LEMMA NoneComesMarked ==
  ASSUME \A f \in Flows :
           /\ flow'[f].pmd_id = flow[f].pmd_id /\ flow'[f].mega_ufid = flow[f].mega_ufid
           /\ flow'[f].dead = flow[f].dead,
         UNCHANGED tables
  PROVE  NoneComes
BY DEF NoneComes, Live, tables

LEMMA FinishNoneComes ==
  ASSUME NEW fl \in [Flows -> FlowRecords], item.flow \in Flows, NEW n, Finish(fl, n),
         UNCHANGED tables, \A f \in Flows :
           /\ fl[f].pmd_id = flow[f].pmd_id /\ fl[f].mega_ufid = flow[f].mega_ufid
           /\ fl[f].dead = flow[f].dead
  PROVE  NoneComes
<1>1. flow' = Unref(fl, item.flow, 1 + n) BY DEF Finish
<1> QED BY <1>1, NoneComesUnref

LEMMA AddKeepsLive ==
  ASSUME OffloadAssumption, Inv, LiveInv, NEW p \in Pmds, NEW m \in Megas, dp_netdev_flow_add(p, m)
  PROVE  LiveInv'
<1> DEFINE new == [Unused EXCEPT !.pmd_id = p, !.mega_ufid = m, !.ref_cnt = 2]
<1>1. PICK f \in Flows :
        /\ flow[f] = Unused /\ flow' = [flow EXCEPT ![f] = new]
        /\ flow_table' = flow_table \cup {f}
  BY DEF dp_netdev_flow_add
<1>2. /\ removing[p] = None /\ UNCHANGED removing
      /\ \A g \in flow_table : ~(flow[g].pmd_id = p /\ flow[g].mega_ufid = m)
  BY DEF dp_netdev_flow_add, Locked, InTable
<1>3. new.pmd_id = p /\ new.mega_ufid = m BY DEF Unused
<1>4. flow'[f] = new /\ \A g \in Flows : g # f => flow'[g] = flow[g]
  BY <1>1 DEF Inv, TypeOK
<1> HIDE DEF new
<1>5. ASSUME NEW g \in Flows, g # f, Live(g)'
      PROVE  /\ Live(g) /\ (g \in flow_table \/ removing[flow[g].pmd_id] = g)
             /\ ~(flow[g].pmd_id = p /\ flow[g].mega_ufid = m)
  <2>1. Live(g) BY <1>4, <1>5 DEF Live
  <2>2. g \in flow_table \/ removing[flow[g].pmd_id] = g BY <2>1 DEF LiveInv
  <2>3. g # None BY DEF OffloadAssumption
  <2> QED BY <1>2, <2>1, <2>2, <2>3
<1>6. ASSUME NEW g \in Flows, Live(g)'
      PROVE  g \in flow_table' \/ removing'[flow'[g].pmd_id] = g
  BY <1>1, <1>2, <1>4, <1>5, <1>6
<1>7. ASSUME NEW g \in Flows, NEW h \in Flows, Live(g)', Live(h)',
             flow'[g].pmd_id = flow'[h].pmd_id, flow'[g].mega_ufid = flow'[h].mega_ufid
      PROVE  g = h
  BY <1>3, <1>4, <1>5, <1>7 DEF LiveInv
<1> QED BY <1>6, <1>7 DEF LiveInv

LEMMA RemoveKeepsLive ==
  ASSUME OffloadAssumption, Inv, LiveInv, NEW p \in Pmds, remove_flow(p)
  PROVE  LiveInv'
<1>1. PICK f \in flow_table :
        /\ flow[f].pmd_id = p /\ flow_table' = flow_table \ {f}
        /\ removing' = [removing EXCEPT ![p] = f]
        /\ flow' = Ref(f) \/ UNCHANGED flow
  BY DEF remove_flow
<1>2. removing[p] = None /\ f \in Flows /\ removing \in [Pmds -> Flows \cup {None}]
      /\ None \notin Flows
  BY DEF remove_flow, Locked, Inv, TypeOK, OffloadAssumption
<1>3. \A g \in Flows :
        /\ flow'[g].pmd_id = flow[g].pmd_id /\ flow'[g].mega_ufid = flow[g].mega_ufid
        /\ flow'[g].dead = flow[g].dead
  BY <1>1 DEF Ref, Inv, TypeOK, FlowRecords
<1>4. removing'[p] = f /\ \A q \in Pmds : q # p => removing'[q] = removing[q]
  BY <1>1, <1>2
<1>5. \A g \in Flows : flow[g].pmd_id \in Pmds \cup {None}
  BY DEF Inv, TypeOK, FlowRecords
<1>6. NoneComes
  <2> SUFFICES ASSUME NEW g \in Flows, Live(g)',
                      g \in flow_table \/ removing[flow[g].pmd_id] = g
               PROVE  g \in flow_table' \/ removing'[flow[g].pmd_id] = g
    BY <1>3 DEF NoneComes, Live
  <2>1. flow[g].pmd_id \in Pmds BY <1>3, <1>5 DEF Live
  <2>2. CASE g = f BY <1>1, <1>4, <2>2
  <2>3. CASE g # f BY <1>1, <1>2, <1>4, <2>1, <2>3
  <2> QED BY <2>2, <2>3
<1> QED BY <1>6, LiveFrame

LEMMA RemoveDeadKeepsLive ==
  ASSUME OffloadAssumption, Inv, LiveInv, NEW p \in Pmds, remove_flow_dead(p)
  PROVE  LiveInv'
<1>1. PICK i \in Flows : i = removing[p]
  BY DEF remove_flow_dead, Locked, Inv, TypeOK
<1> DEFINE fl == [flow EXCEPT ![i].dead = TRUE]
<1>2. /\ flow' = Unref(fl, i, 1) /\ UNCHANGED flow_table
      /\ removing' = [removing EXCEPT ![p] = None]
  BY <1>1 DEF remove_flow_dead
<1>3. /\ fl[i].dead /\ \A g \in Flows : g # i => fl[g] = flow[g]
      /\ flow \in [Flows -> FlowRecords] /\ fl[i] \in FlowRecords
      /\ removing \in [Pmds -> Flows \cup {None}]
  <2>1. /\ flow \in [Flows -> FlowRecords] /\ removing \in [Pmds -> Flows \cup {None}]
        /\ flow[i] \in FlowRecords
    BY DEF Inv, TypeOK
  <2>2. fl[i] = [flow[i] EXCEPT !.dead = TRUE] /\ \A g \in Flows : g # i => fl[g] = flow[g]
    BY <2>1
  <2>3. [flow[i] EXCEPT !.dead = TRUE] \in FlowRecords /\ [flow[i] EXCEPT !.dead = TRUE].dead
    BY <2>1 DEF FlowRecords
  <2> QED BY <2>1, <2>2, <2>3
<1>4. \A g \in Flows : g # i => flow'[g] = flow[g]
  BY <1>2, <1>3 DEF Unref
<1>5. ~Live(i)'
  <2>1. \/ flow'[i] = Unused
        \/ flow'[i] = [fl[i] EXCEPT !.ref_cnt = fl[i].ref_cnt - 1]
    BY <1>2, <1>3 DEF Unref
  <2>2. flow'[i] = Unused \/ flow'[i].dead BY <1>3, <2>1 DEF FlowRecords
  <2> QED BY <2>2 DEF Live, Unused
<1>6. \A q \in Pmds : q # p => removing'[q] = removing[q]
  BY <1>2, <1>3
<1>7. NoneComes
  <2> SUFFICES ASSUME NEW g \in Flows, Live(g)'
               PROVE  /\ Live(g) /\ flow'[g].pmd_id = flow[g].pmd_id
                      /\ flow'[g].mega_ufid = flow[g].mega_ufid
                      /\ g \in flow_table \/ removing[flow[g].pmd_id] = g
                           => g \in flow_table' \/ removing'[flow[g].pmd_id] = g
    BY DEF NoneComes
  <2>1. g # i /\ flow'[g] = flow[g] BY <1>4, <1>5
  <2>2. Live(g) BY <2>1 DEF Live
  <2>3. flow[g].pmd_id \in Pmds BY <1>3, <2>2 DEF Live, FlowRecords
  <2> QED BY <1>1, <1>2, <1>6, <2>1, <2>2, <2>3
<1> QED BY <1>7, LiveFrame

LEMMA OffloadKeepsLive ==
  ASSUME OffloadAssumption, Inv, LiveInv, OffloadStep
  PROVE  LiveInv'
<1> SUFFICES NoneComes BY LiveFrame
<1>0. flow \in [Flows -> FlowRecords] BY DEF Inv, TypeOK
<1>1. pc # "idle" => item.flow \in Flows BY AtWork
<1>2. ASSUME UNCHANGED <<flow, tables>> PROVE NoneComes
  BY <1>2, NoneComesMarked
<1>3. ASSUME pc # "idle", NEW n, Finish(flow, n), UNCHANGED tables PROVE NoneComes
  BY <1>0, <1>1, <1>3, FinishNoneComes
<1>4. ASSUME pc # "idle", NEW mark, Associate(mark), UNCHANGED tables PROVE NoneComes
  <2>1. flow' = [flow EXCEPT ![item.flow].mark = mark] BY <1>4 DEF Associate
  <2>2. \A f \in Flows : flow'[f] = flow[f] \/ flow'[f] = [flow[f] EXCEPT !.mark = mark]
    BY <1>0, <2>1
  <2>3. \A f \in Flows :
          /\ flow'[f].pmd_id = flow[f].pmd_id /\ flow'[f].mega_ufid = flow[f].mega_ufid
          /\ flow'[f].dead = flow[f].dead
    BY <1>0, <2>2 DEF FlowRecords
  <2> QED BY <1>4, <2>3, NoneComesMarked
<1>5. CASE offload_wait \/ offload_pop \/ put_alive \/ flow_mark_alloc
  <2>1. UNCHANGED <<flow, tables>>
    BY <1>5 DEF offload_wait, offload_pop, put_alive, flow_mark_alloc
  <2> QED BY <1>2, <2>1
<1>6. CASE put_dead \/ put_no_mark \/ del_no_mark \/ netdev_flow_del
  <2>1. pc # "idle" /\ UNCHANGED tables /\ (Finish(flow, 0) \/ Finish(flow, 1))
    BY <1>6 DEF put_dead, put_no_mark, del_no_mark, netdev_flow_del
  <2> QED BY <1>3, <2>1
<1>7. CASE put_found \/ put_associate
  <2>1. /\ pc # "idle" /\ UNCHANGED tables
        /\ \/ Finish(flow, 0) \/ Associate(held) \/ Associate(megaflow_to_mark[mega])
    BY <1>7 DEF put_found, put_associate
  <2> QED BY <1>3, <1>4, <2>1
<1>8. CASE netdev_flow_put \/ put_failed
  <2>1. pc # "idle" /\ UNCHANGED tables /\ (Finish(flow, 0) \/ UNCHANGED flow)
    BY <1>8 DEF netdev_flow_put, put_failed
  <2> QED BY <1>2, <1>3, <2>1
<1>9. CASE mark_to_flow_disassociate
  <2> DEFINE unmarked == [flow EXCEPT ![item.flow].mark = INVALID_FLOW_MARK]
  <2>1. /\ pc # "idle" /\ UNCHANGED tables
        /\ flow' = unmarked \/ Finish(unmarked, 1)
    BY <1>9 DEF mark_to_flow_disassociate
  <2>2. item.flow \in Flows BY <1>1, <2>1
  <2>3. ASSUME NEW f \in Flows
        PROVE  /\ unmarked[f] \in FlowRecords
               /\ unmarked[f].pmd_id = flow[f].pmd_id
               /\ unmarked[f].mega_ufid = flow[f].mega_ufid
               /\ unmarked[f].dead = flow[f].dead
    <3>1. flow[f] \in FlowRecords BY <1>0
    <3>2. \/ unmarked[f] = flow[f]
          \/ unmarked[f] = [flow[f] EXCEPT !.mark = INVALID_FLOW_MARK]
      BY <1>0
    <3> QED BY <3>1, <3>2 DEF FlowRecords
  <2>4. unmarked \in [Flows -> FlowRecords]
    <3>1. unmarked = [f \in Flows |-> unmarked[f]] BY <1>0
    <3> HIDE DEF unmarked
    <3> QED BY <2>3, <3>1
  <2> HIDE DEF unmarked
  <2>5. CASE flow' = unmarked
    <3>1. \A f \in Flows :
            /\ flow'[f].pmd_id = flow[f].pmd_id /\ flow'[f].mega_ufid = flow[f].mega_ufid
            /\ flow'[f].dead = flow[f].dead
      BY <2>3, <2>5
    <3> QED BY <2>1, <3>1, NoneComesMarked
  <2>6. CASE Finish(unmarked, 1)
    <3>1. \A f \in Flows :
            /\ unmarked[f].pmd_id = flow[f].pmd_id
            /\ unmarked[f].mega_ufid = flow[f].mega_ufid
            /\ unmarked[f].dead = flow[f].dead
      BY <2>3
    <3> QED BY <2>1, <2>2, <2>4, <2>6, <3>1, FinishNoneComes
  <2> QED BY <2>1, <2>5, <2>6
<1> QED BY <1>5, <1>6, <1>7, <1>8, <1>9 DEF OffloadStep

LEMMA NextKeepsLive ==
  ASSUME OffloadAssumption, Inv, LiveInv, [Next]_vars
  PROVE  LiveInv'
<1>1. ASSUME UNCHANGED <<flow, tables>> PROVE LiveInv'
  BY <1>1, NoneComesMarked, LiveFrame
<1>2. CASE UNCHANGED vars BY <1>1, <1>2 DEF vars
<1>3. CASE do_del_port \/ do_add_port BY <1>1, <1>3 DEF do_del_port, do_add_port
<1>4. ASSUME NEW p \in Pmds, flow_modify(p) PROVE LiveInv'
  <2>1. PICK f \in Flows : flow' = Ref(f) /\ UNCHANGED tables
    BY <1>4 DEF flow_modify, Inv, TypeOK
  <2>2. \A g \in Flows :
          /\ flow'[g].pmd_id = flow[g].pmd_id /\ flow'[g].mega_ufid = flow[g].mega_ufid
          /\ flow'[g].dead = flow[g].dead
    BY <2>1 DEF Ref, Inv, TypeOK, FlowRecords
  <2> QED BY <2>1, <2>2, NoneComesMarked, LiveFrame
<1>5. ASSUME NEW p \in Pmds, TableStep(p) PROVE LiveInv'
  BY <1>4, <1>5, AddKeepsLive, RemoveKeepsLive, RemoveDeadKeepsLive DEF TableStep
<1> QED BY <1>2, <1>3, <1>5, OffloadKeepsLive DEF Next

LEMMA InitLive ==
  ASSUME Init
  PROVE  LiveInv
BY DEF Init, LiveInv, Live, Unused

LEMMA MarkFinds ==
  ASSUME OffloadAssumption, Inv, LiveInv
  PROVE  FoundByMark
<1> SUFFICES ASSUME NEW m \in Megas, NEW p \in Pmds,
                    hw[m] # INVALID_FLOW_MARK, m \notin undeleted,
                    NEW f \in mark_to_flow_find(p, hw[m]), NEW g \in mark_to_flow_find(p, hw[m])
             PROVE  flow[f].mega_ufid = m /\ f = g
  BY DEF FoundByMark
<1>1. /\ f \in mark_to_flow /\ f \in Flows /\ flow[f].mark = hw[m] /\ Live(f)
      /\ g \in mark_to_flow /\ g \in Flows /\ flow[g].mark = hw[m] /\ Live(g)
      /\ flow[f].pmd_id = p /\ flow[g].pmd_id = p
  BY DEF mark_to_flow_find, Live, Inv, TypeOK, OffloadAssumption
<1>2. /\ megaflow_to_mark[flow[f].mega_ufid] = hw[m] /\ flow[f].mega_ufid \in Megas
      /\ megaflow_to_mark[flow[g].mega_ufid] = hw[m] /\ flow[g].mega_ufid \in Megas
  BY <1>1, UsedHasRefs, InUse DEF Inv, MarksInv, MarksOwned
<1>3. hw[m] = megaflow_to_mark[m]
  <2>1. ~(pc = "associate" /\ mega = m /\ hw[m] = held)
    BY <1>2 DEF Inv, MarksInv, PcInv, Adding
  <2> QED BY <2>1 DEF Inv, MarksInv, HardwareOwned
<1>4. flow[f].mega_ufid = m /\ flow[g].mega_ufid = m
  BY <1>2, <1>3 DEF Inv, MarksInv, MarksOwned
<1> QED BY <1>1, <1>4 DEF LiveInv

(* mark_to_flow_find: a PMD thread finds by the mark of a packet its one   *)
(* live flow of the packet's mega flow and no other, unless the card was   *)
(* to delete the rule that marked the packet and has kept it.              *)
THEOREM MarkFindsFlow == Spec => []FoundByMark
<1>1. Init => Inv /\ LiveInv
  BY OffloadAssumption, InitInv, InitLive
<1>2. Inv /\ LiveInv /\ [Next]_vars => (Inv /\ LiveInv)'
  BY OffloadAssumption, NextKeeps, NextKeepsLive
<1>3. Inv /\ LiveInv => FoundByMark
  BY OffloadAssumption, MarkFinds
<1> QED BY <1>1, <1>2, <1>3, PTL DEF Spec

-----------------------------------------------------------------------------
(***************************************************************************)
(* For any number of keys, rules and masks: a classifier lookup, which     *)
(* takes no lock, returns for each key what was right at some time since   *)
(* it began.  An answer "no rule" is the hard case: if a rule has been     *)
(* there for the key all the time, the rule is in a subtable the lookup    *)
(* has still to come to (Ahead), or the key has matched already.           *)
(***************************************************************************)
Matches(k) == Class!Present \cap matching[k]

(* The subtables in which the lookup will still look for the key.          *)
Ahead(k) ==
  {lookup.vector[i] : i \in {j \in DOMAIN lookup.vector : j = 1 => k \in lookup.todo}}

ClassUpdates ==
  {Class!Idle} \cup [op : {"insert"}, rule : Rules] \cup [op : {"destroy"}, subtable : Subtables]

ClassLookups ==
  [keys : SUBSET Keys, keys_map : SUBSET Keys, vector : Seq(Subtables),
   todo : SUBSET Keys, found : [Keys -> Rules \cup {None}]]

ClassTypes ==
  /\ cls \in BOOLEAN
  /\ mask \in [Subtables -> Masks \cup {None}] /\ rules \in [Subtables -> SUBSET Rules]
  /\ subtables_map \in SUBSET Subtables /\ subtables \in Seq(Subtables)
  /\ updating \in ClassUpdates /\ lookup \in ClassLookups
  /\ seen \in [Keys -> SUBSET (Rules \cup {None})]

(* A subtable that has left the map is empty, so that what a lookup finds  *)
(* in its vector is in the classifier; each rule is in the one subtable of *)
(* its mask; and the vector has all the subtables.                         *)
TableInv ==
  /\ \A s \in Subtables : s \notin subtables_map => rules[s] = {}
  /\ \A s \in subtables_map : mask[s] # None
  /\ \A s \in subtables_map : \A r \in rules[s] : mask_of[r] = mask[s]
  /\ \A s, t \in subtables_map : mask[s] = mask[t] => s = t
  /\ \A s \in subtables_map : \E i \in DOMAIN subtables : subtables[i] = s
  /\ subtables_map # {} => cls
  /\ updating.op = "destroy" => rules[updating.subtable] = {}

(* Rules do not overlap, with the one that is being inserted.              *)
ApartInv ==
  /\ \A k \in Keys : \A q, r \in Matches(k) : q = r
  /\ updating.op = "insert" =>
       \A k \in Keys : updating.rule \in matching[k] => Matches(k) = {}

LookupInv ==
  /\ \A k \in lookup.todo : k \in lookup.keys_map /\ lookup.found[k] = None
  /\ \A k \in lookup.keys :
       /\ Class!Answers(Class!Present, k) \subseteq seen[k]
       /\ lookup.found[k] # None => lookup.found[k] \in seen[k]
       /\ lookup.found[k] = None => k \in lookup.keys_map
       /\ lookup.found[k] = None /\ None \notin seen[k] =>
            \E s \in Ahead(k) : s \in subtables_map /\ rules[s] \cap matching[k] # {}

ClassInv == ClassTypes /\ TableInv /\ ApartInv /\ LookupInv

-----------------------------------------------------------------------------
LEMMA ClassInit ==
  ASSUME Class!ClassifierAssumption, Class!Init
  PROVE  ClassInv
<1>1. ClassTypes
  <2>1. lookup \in ClassLookups BY DEF Class!Init, ClassLookups, Class!NoLookup
  <2>2. updating \in ClassUpdates BY DEF Class!Init, ClassUpdates
  <2>3. subtables \in Seq(Subtables) BY DEF Class!Init
  <2> QED BY <2>1, <2>2, <2>3 DEF Class!Init, ClassTypes
<1>2. TableInv BY DEF Class!Init, TableInv, Class!Idle
<1>3. ApartInv BY DEF Class!Init, ApartInv, Class!Idle, Matches, Class!Present
<1>4. LookupInv BY DEF Class!Init, LookupInv, Class!NoLookup
<1> QED BY <1>1, <1>2, <1>3, <1>4 DEF ClassInv

(* Updates that change no rule: what a lookup finds does not change, if    *)
(* no subtable with rules comes to the map or leaves it.                   *)
LEMMA NoRuleChanges ==
  ASSUME ClassInv, ClassTypes', UNCHANGED <<rules, lookup, seen>>,
         \A s \in Subtables : rules[s] # {} => (s \in subtables_map <=> s \in subtables_map')
  PROVE  LookupInv' /\ Class!Present' = Class!Present
<1>1. subtables_map \subseteq Subtables /\ subtables_map' \subseteq Subtables
  BY DEF ClassInv, ClassTypes
<1>2. Class!Present' = Class!Present
  BY <1>1 DEF Class!Present
<1>3. \A k \in Keys : Ahead(k)' = Ahead(k) /\ Class!Answers(Class!Present, k)' = Class!Answers(Class!Present, k)
  BY <1>2 DEF Ahead, Class!Answers
<1>4. lookup.keys \subseteq Keys
  BY DEF ClassInv, ClassTypes, ClassLookups
<1>5. ASSUME NEW k \in lookup.keys, NEW s \in Ahead(k),
             s \in subtables_map, rules[s] \cap matching[k] # {}
      PROVE  s \in subtables_map'
  BY <1>1, <1>5
<1> QED
  BY <1>2, <1>3, <1>4, <1>5 DEF ClassInv, LookupInv

LEMMA FindKeeps ==
  ASSUME Class!ClassifierAssumption, ClassInv, Class!dp_netdev_pmd_find_dpcls
  PROVE  ClassInv'
<1> USE DEF Class!dp_netdev_pmd_find_dpcls
<1>1. ClassTypes' BY DEF ClassInv, ClassTypes
<1>2. LookupInv' /\ Class!Present' = Class!Present BY <1>1, NoRuleChanges
<1>3. TableInv' BY DEF ClassInv, TableInv
<1>4. ApartInv' BY <1>2 DEF ClassInv, ApartInv, Matches
<1> QED BY <1>1, <1>2, <1>3, <1>4 DEF ClassInv

LEMMA ClassInsertKeeps ==
  ASSUME Class!ClassifierAssumption, ClassInv, NEW r \in Rules, Class!dpcls_insert(r)
  PROVE  ClassInv'
<1> USE DEF Class!dpcls_insert
<1>1. CASE UNCHANGED <<mask, subtables_map, subtables>>
  <2>1. ClassTypes' BY <1>1 DEF ClassInv, ClassTypes, ClassUpdates
  <2>2. LookupInv' /\ Class!Present' = Class!Present BY <1>1, <2>1, NoRuleChanges
  <2>3. TableInv' BY <1>1 DEF ClassInv, TableInv
  <2>4. ApartInv' BY <2>2 DEF ClassInv, ApartInv, Matches
  <2> QED BY <2>1, <2>2, <2>3, <2>4 DEF ClassInv
<1>2. CASE \E s \in Subtables :
             /\ mask[s] = None
             /\ \A t \in subtables_map : mask[t] # mask_of[r]
             /\ mask' = [mask EXCEPT ![s] = mask_of[r]]
             /\ subtables_map' = subtables_map \cup {s}
             /\ subtables' = Append(subtables, s)
  <2>0. PICK s \in Subtables :
             /\ mask[s] = None
             /\ \A t \in subtables_map : mask[t] # mask_of[r]
             /\ mask' = [mask EXCEPT ![s] = mask_of[r]]
             /\ subtables_map' = subtables_map \cup {s}
             /\ subtables' = Append(subtables, s)
    BY <1>2
  <2>m. mask_of[r] \in Masks /\ mask_of[r] # None
    BY DEF Class!ClassifierAssumption
  <2>1. ClassTypes'
    BY <2>0, <2>m, AppendProperties DEF ClassInv, ClassTypes, ClassUpdates
  <2>2. s \notin subtables_map /\ rules[s] = {}
    BY <2>0 DEF ClassInv, TableInv
  <2>3. LookupInv' /\ Class!Present' = Class!Present
    BY <2>0, <2>1, <2>2, NoRuleChanges
  <2>4. TableInv'
    <3>1. \A t \in subtables_map' : \E i \in DOMAIN subtables' : subtables'[i] = t
      <4>1. \A i \in DOMAIN subtables : i \in DOMAIN subtables' /\ subtables'[i] = subtables[i]
        BY <2>0, AppendProperties DEF ClassInv, ClassTypes
      <4>2. Len(subtables) + 1 \in DOMAIN subtables' /\ subtables'[Len(subtables) + 1] = s
        BY <2>0, AppendProperties DEF ClassInv, ClassTypes
      <4> QED BY <4>1, <4>2, <2>0 DEF ClassInv, TableInv
    <3>2. \A t \in Subtables : t # s => mask'[t] = mask[t]
      BY <2>0 DEF ClassInv, ClassTypes
    <3>3. mask'[s] = mask_of[r]
      BY <2>0 DEF ClassInv, ClassTypes
    <3>4. subtables_map \subseteq Subtables
      BY DEF ClassInv, ClassTypes
    <3> QED
      BY <3>1, <3>2, <3>3, <3>4, <2>0, <2>2, <2>m DEF ClassInv, TableInv
  <2>5. ApartInv' BY <2>3 DEF ClassInv, ApartInv, Matches
  <2> QED BY <2>1, <2>3, <2>4, <2>5 DEF ClassInv
<1> QED BY <1>1, <1>2

LEMMA InsertRuleKeeps ==
  ASSUME Class!ClassifierAssumption, ClassInv, Class!dpcls_insert_rule
  PROVE  ClassInv'
<1> DEFINE r == updating.rule
<1>0. PICK s \in subtables_map :
        mask[s] = mask_of[r] /\ rules' = [rules EXCEPT ![s] = @ \cup {r}]
  BY DEF Class!dpcls_insert_rule
<1>s. s \in Subtables /\ r \in Rules /\ subtables_map \subseteq Subtables
  BY DEF ClassInv, ClassTypes, ClassUpdates, Class!Idle, Class!dpcls_insert_rule
<1>o. UNCHANGED <<cls, mask, subtables_map, subtables, lookup>> /\ updating' = Class!Idle
      /\ Class!Observe(Class!Present \cup {r})
  BY DEF Class!dpcls_insert_rule
<1>p. Class!Present' = Class!Present \cup {r}
  BY <1>0, <1>s, <1>o DEF ClassInv, ClassTypes, Class!Present
<1>q. \A k \in Keys : r \in matching[k] => Matches(k) = {}
  BY DEF ClassInv, ApartInv, Class!dpcls_insert_rule
<1>1. ClassTypes'
  <2>1. Class!Present \subseteq Rules
    BY <1>s DEF ClassInv, ClassTypes, Class!Present
  <2>2. seen' \in [Keys -> SUBSET (Rules \cup {None})]
    BY <1>o, <1>s, <2>1 DEF Class!Observe, Class!Answers, ClassInv, ClassTypes,
       Class!ClassifierAssumption
  <2> QED BY <1>0, <1>s, <1>o, <2>2 DEF ClassInv, ClassTypes, ClassUpdates
<1>2. TableInv'
  BY <1>0, <1>s, <1>o DEF ClassInv, ClassTypes, TableInv, Class!Idle
<1>3. ApartInv'
  BY <1>p, <1>q, <1>o DEF ClassInv, ApartInv, Matches, Class!Idle
<1>4. LookupInv'
  <2>1. lookup.keys \subseteq Keys BY DEF ClassInv, ClassTypes, ClassLookups
  <2>2. \A k \in lookup.keys : seen'[k] = seen[k] \cup Class!Answers(Class!Present', k)
    BY <2>1, <1>o, <1>p DEF Class!Observe
  <2>3. ASSUME NEW k \in lookup.keys, NEW t \in Ahead(k),
               t \in subtables_map, rules[t] \cap matching[k] # {}
        PROVE  t \in Ahead(k)' /\ t \in subtables_map' /\ rules'[t] \cap matching[k] # {}
    BY <2>3, <1>0, <1>o, <1>s DEF ClassInv, ClassTypes, Ahead
  <2> QED BY <2>1, <2>2, <2>3, <1>o DEF ClassInv, LookupInv
<1> QED BY <1>1, <1>2, <1>3, <1>4 DEF ClassInv

LEMMA ClassRemoveKeeps ==
  ASSUME Class!ClassifierAssumption, ClassInv, NEW r \in Rules, Class!dpcls_remove(r)
  PROVE  ClassInv'
<1>0. PICK s \in subtables_map :
        /\ r \in rules[s]
        /\ rules' = [rules EXCEPT ![s] = @ \ {r}]
        /\ updating' = IF rules[s] = {r} THEN [op |-> "destroy", subtable |-> s] ELSE Class!Idle
  BY DEF Class!dpcls_remove
<1>s. s \in Subtables /\ subtables_map \subseteq Subtables
  BY DEF ClassInv, ClassTypes
<1>o. UNCHANGED <<cls, mask, subtables_map, subtables, lookup>> /\ Class!Observe(Class!Present \ {r})
  BY DEF Class!dpcls_remove
<1>u. \A t \in subtables_map : r \in rules[t] => t = s
  BY <1>0 DEF ClassInv, TableInv
<1>p. Class!Present' = Class!Present \ {r}
  BY <1>0, <1>s, <1>o, <1>u DEF ClassInv, ClassTypes, Class!Present
<1>1. ClassTypes'
  <2>1. Class!Present \subseteq Rules
    BY <1>s DEF ClassInv, ClassTypes, Class!Present
  <2>2. seen' \in [Keys -> SUBSET (Rules \cup {None})]
    BY <1>o, <1>s, <2>1 DEF Class!Observe, Class!Answers, ClassInv, ClassTypes,
       Class!ClassifierAssumption
  <2> QED BY <1>0, <1>s, <1>o, <2>2 DEF ClassInv, ClassTypes, ClassUpdates
<1>2. TableInv'
  <2>1. \A t \in Subtables : rules'[t] \subseteq rules[t]
    BY <1>0, <1>s DEF ClassInv, ClassTypes
  <2>2. updating'.op = "destroy" => rules'[updating'.subtable] = {}
    BY <1>0, <1>s DEF ClassInv, ClassTypes, Class!Idle
  <2> QED BY <2>1, <2>2, <1>s, <1>o DEF ClassInv, TableInv
<1>3. ApartInv'
  BY <1>p, <1>0 DEF ClassInv, ApartInv, Matches, Class!Idle
<1>4. LookupInv'
  <2>1. lookup.keys \subseteq Keys BY DEF ClassInv, ClassTypes, ClassLookups
  <2>2. \A k \in lookup.keys : seen'[k] = seen[k] \cup Class!Answers(Class!Present', k)
    BY <2>1, <1>o, <1>p DEF Class!Observe
  <2>3. ASSUME NEW k \in lookup.keys, None \notin seen'[k], NEW t \in Ahead(k),
               t \in subtables_map, rules[t] \cap matching[k] # {}
        PROVE  t \in Ahead(k)' /\ t \in subtables_map' /\ rules'[t] \cap matching[k] # {}
    <3>1. Class!Present' \cap matching[k] # {}
      BY <2>2, <2>3 DEF Class!Answers
    <3>2. r \notin matching[k]
      <4>1. SUFFICES ASSUME r \in matching[k] PROVE FALSE
        OBVIOUS
      <4>2. r \in Matches(k)
        BY <4>1, <1>0 DEF Matches, Class!Present
      <4>3. PICK q \in Class!Present' : q \in matching[k]
        BY <3>1
      <4>4. q \in Matches(k) /\ q # r
        BY <4>3, <1>p DEF Matches
      <4> QED BY <4>2, <4>4, <2>1 DEF ClassInv, ApartInv
    <3>3. rules'[t] \cap matching[k] = rules[t] \cap matching[k]
      BY <3>2, <2>3, <1>0, <1>s DEF ClassInv, ClassTypes
    <3> QED BY <3>3, <2>3, <1>o DEF Ahead
  <2> QED BY <2>1, <2>2, <2>3, <1>o DEF ClassInv, LookupInv
<1> QED BY <1>1, <1>2, <1>3, <1>4 DEF ClassInv

LEMMA RemoveAtProperties ==
  ASSUME NEW S, NEW q \in Seq(S), NEW i \in DOMAIN q
  PROVE  /\ RemoveAt(q, i) \in Seq(S)
         /\ \A j \in DOMAIN q : j # i =>
              \E n \in DOMAIN RemoveAt(q, i) : RemoveAt(q, i)[n] = q[j]
<1> DEFINE before == SubSeq(q, 1, i - 1)
           after == SubSeq(q, i + 1, Len(q))
           rest == RemoveAt(q, i)
<1>0. DOMAIN q = 1 .. Len(q) /\ Len(q) \in Nat /\ \A j \in 1 .. Len(q) : q[j] \in S
  OBVIOUS
<1>1. /\ before \in Seq(S) /\ Len(before) = i - 1
      /\ \A j \in 1 .. i - 1 : before[j] = q[j]
  <2>1. i - 1 \in Int /\ \A j \in 1 .. i - 1 : q[j] \in S
    BY <1>0
  <2>2. /\ before \in Seq(S) /\ Len(before) = IF 1 <= i - 1 THEN (i - 1) - 1 + 1 ELSE 0
        /\ \A j \in 1 .. (i - 1) - 1 + 1 : before[j] = q[1 + j - 1]
    BY <2>1, SubSeqProperties
  <2> QED BY <2>2, <1>0
<1>2. /\ after \in Seq(S) /\ Len(after) = Len(q) - i
      /\ \A j \in 1 .. Len(q) - i : after[j] = q[i + j]
  <2>1. i + 1 \in Int /\ Len(q) \in Int /\ \A j \in i + 1 .. Len(q) : q[j] \in S
    BY <1>0
  <2>2. /\ after \in Seq(S) /\ Len(after) = IF i + 1 <= Len(q) THEN Len(q) - (i + 1) + 1 ELSE 0
        /\ \A j \in 1 .. Len(q) - (i + 1) + 1 : after[j] = q[(i + 1) + j - 1]
    BY <2>1, SubSeqProperties
  <2> QED BY <2>2, <1>0
<1>3. rest = before \o after
  BY DEF RemoveAt
<1>4. /\ rest \in Seq(S) /\ Len(rest) = Len(q) - 1
      /\ \A j \in 1 .. Len(q) - 1 : rest[j] = IF j <= i - 1 THEN before[j] ELSE after[j - (i - 1)]
  <2> HIDE DEF before, after, rest
  <2>1. /\ rest \in Seq(S) /\ Len(rest) = Len(before) + Len(after)
        /\ \A j \in 1 .. Len(before) + Len(after) :
             rest[j] = IF j <= Len(before) THEN before[j] ELSE after[j - Len(before)]
    BY <1>1, <1>2, <1>3, ConcatProperties
  <2> QED BY <2>1, <1>0, <1>1, <1>2
<1>5. ASSUME NEW j \in DOMAIN q, j # i
      PROVE  \E n \in DOMAIN rest : rest[n] = q[j]
  <2> HIDE DEF before, after, rest
  <2>1. CASE j < i
    <3>1. j \in DOMAIN rest /\ rest[j] = q[j]
      BY <2>1, <1>0, <1>1, <1>4
    <3> QED BY <3>1
  <2>2. CASE j > i
    <3>0. i \in 1 .. Len(q) /\ j \in 1 .. Len(q)
      BY <1>0
    <3>1. j - 1 \in 1 .. Len(q) - 1 /\ ~(j - 1 <= i - 1)
      BY <2>2, <1>0, <3>0
    <3>2. rest[j - 1] = after[(j - 1) - (i - 1)]
      BY <3>1, <1>4
    <3>3. (j - 1) - (i - 1) = j - i /\ j - i \in 1 .. Len(q) - i /\ i + (j - i) = j
      BY <2>2, <1>0, <3>0
    <3>4. j - 1 \in DOMAIN rest /\ rest[j - 1] = q[j]
      BY <3>1, <3>2, <3>3, <1>0, <1>2, <1>4
    <3> QED BY <3>4
  <2> QED BY <2>1, <2>2, <1>5, <1>0
<1> QED BY <1>4, <1>5

LEMMA DestroyKeeps ==
  ASSUME Class!ClassifierAssumption, ClassInv, Class!dpcls_destroy_subtable
  PROVE  ClassInv'
<1> DEFINE s == updating.subtable
<1>0. PICK i \in DOMAIN subtables : subtables[i] = s /\ subtables' = RemoveAt(subtables, i)
  BY DEF Class!dpcls_destroy_subtable, Class!RemoveAt, RemoveAt
<1>s. s \in Subtables /\ rules[s] = {} /\ subtables_map \subseteq Subtables
  BY DEF ClassInv, ClassTypes, TableInv, ClassUpdates, Class!Idle,
     Class!dpcls_destroy_subtable
<1>o. UNCHANGED <<cls, mask, rules, lookup, seen>> /\ updating' = Class!Idle
      /\ subtables_map' = subtables_map \ {s}
  BY DEF Class!dpcls_destroy_subtable
<1>v. /\ subtables' \in Seq(Subtables)
      /\ \A j \in DOMAIN subtables : j # i =>
           \E n \in DOMAIN subtables' : subtables'[n] = subtables[j]
  BY <1>0, RemoveAtProperties DEF ClassInv, ClassTypes
<1>1. ClassTypes' BY <1>o, <1>v DEF ClassInv, ClassTypes, ClassUpdates
<1>2. LookupInv' /\ Class!Present' = Class!Present BY <1>1, <1>o, <1>s, NoRuleChanges
<1>3. TableInv' BY <1>0, <1>s, <1>o, <1>v DEF ClassInv, TableInv, Class!Idle
<1>4. ApartInv' BY <1>2, <1>o DEF ClassInv, ApartInv, Matches, Class!Idle
<1> QED BY <1>1, <1>2, <1>3, <1>4 DEF ClassInv

LEMMA DestroyCbKeeps ==
  ASSUME Class!ClassifierAssumption, ClassInv, Class!dpcls_subtable_destroy_cb
  PROVE  ClassInv'
<1> USE DEF Class!dpcls_subtable_destroy_cb
<1>1. ClassTypes' BY DEF ClassInv, ClassTypes
<1>2. LookupInv' /\ Class!Present' = Class!Present BY <1>1, NoRuleChanges
<1>3. TableInv' BY DEF ClassInv, ClassTypes, TableInv
<1>4. ApartInv' BY <1>2 DEF ClassInv, ApartInv, Matches
<1> QED BY <1>1, <1>2, <1>3, <1>4 DEF ClassInv

LEMMA SortKeeps ==
  ASSUME Class!ClassifierAssumption, ClassInv, Class!dpcls_sort_subtable_vector
  PROVE  ClassInv'
<1> USE DEF Class!dpcls_sort_subtable_vector
<1>v. /\ subtables' \in [DOMAIN subtables -> ToSet(subtables)]
      /\ ToSet(subtables') = ToSet(subtables)
  BY DEF ToSet, Class!ToSet
<1>0. subtables' \in Seq(Subtables)
  <2>1. subtables \in Seq(Subtables) BY DEF ClassInv, ClassTypes
  <2>2. ToSet(subtables) \subseteq Subtables BY <2>1 DEF ToSet
  <2>3. subtables' \in [1 .. Len(subtables) -> Subtables] BY <1>v, <2>1, <2>2
  <2> QED BY <2>1, <2>3
<1>1. ClassTypes' BY <1>0 DEF ClassInv, ClassTypes
<1>2. LookupInv' /\ Class!Present' = Class!Present BY <1>1, NoRuleChanges
<1>3. TableInv'
  <2>0. \A s \in subtables_map : s \in ToSet(subtables)
    BY DEF ClassInv, TableInv, ToSet
  <2>1. \A s \in subtables_map : s \in ToSet(subtables')
    BY <1>v, <2>0
  <2> QED BY <2>1 DEF ClassInv, TableInv, ToSet
<1>4. ApartInv' BY <1>2 DEF ClassInv, ApartInv, Matches
<1> QED BY <1>1, <1>2, <1>3, <1>4 DEF ClassInv

-----------------------------------------------------------------------------
(* The lookup changes no rule. *)

LEMMA UpdateUnchanged ==
  ASSUME ClassInv, UNCHANGED (Class!update)
  PROVE  TableInv' /\ ApartInv' /\ Class!Present' = Class!Present /\ (ClassTypes' <=>
           (lookup \in ClassLookups /\ seen \in [Keys -> SUBSET (Rules \cup {None})])')
BY DEF ClassInv, ClassTypes, TableInv, ApartInv, Matches, Class!Present, Class!update

LEMMA LookupKeeps ==
  ASSUME Class!ClassifierAssumption, ClassInv, NEW keys \in SUBSET Keys, Class!dpcls_lookup(keys)
  PROVE  ClassInv'
<1> USE DEF Class!dpcls_lookup
<1>u. UNCHANGED (Class!update) /\ keys # {} OBVIOUS
<1>l. /\ lookup'.keys = keys /\ lookup'.keys_map = keys /\ lookup'.todo = keys
      /\ lookup'.vector = IF cls THEN subtables ELSE <<>>
      /\ lookup'.found = [k \in Keys |-> None]
  BY DEF Class!NoLookup
<1>0. subtables_map \subseteq Subtables /\ Class!Present \subseteq Rules
  BY DEF ClassInv, ClassTypes, Class!Present
<1>1. lookup' \in ClassLookups /\ seen' \in [Keys -> SUBSET (Rules \cup {None})]
  BY <1>0 DEF ClassInv, ClassTypes, ClassLookups, Class!NoLookup, Class!Answers,
     Class!ClassifierAssumption
<1>2. ClassTypes' /\ TableInv' /\ ApartInv' /\ Class!Present' = Class!Present
  BY <1>1, <1>u, UpdateUnchanged
<1>3. LookupInv'
  <2>1. \A k \in keys : seen'[k] = Class!Answers(Class!Present, k)
    OBVIOUS
  <2>2. ASSUME NEW k \in keys, None \notin seen'[k]
        PROVE  \E s \in Ahead(k)' : s \in subtables_map' /\ rules'[s] \cap matching[k] # {}
    <3>1. Class!Present \cap matching[k] # {}
      BY <2>1, <2>2 DEF Class!Answers
    <3>2. PICK s \in subtables_map : rules[s] \cap matching[k] # {}
      BY <3>1 DEF Class!Present
    <3>3. cls /\ \E i \in DOMAIN subtables : subtables[i] = s
      BY <3>2 DEF ClassInv, TableInv
    <3>4. s \in Ahead(k)'
      BY <3>3, <1>l DEF Ahead
    <3> QED BY <3>2, <3>4, <1>u DEF Class!update
  <2> QED BY <2>1, <2>2, <1>l, <1>2 DEF LookupInv
<1> QED BY <1>2, <1>3 DEF ClassInv

LEMMA LookupFuncKeeps ==
  ASSUME Class!ClassifierAssumption, ClassInv, Class!lookup_func
  PROVE  ClassInv'
<1> DEFINE head == Head(lookup.vector)
           hit(k) == rules[head] \cap matching[k]
<1>0. PICK k \in lookup.todo : \E r \in (IF hit(k) = {} THEN {None} ELSE hit(k)) :
        lookup' = [lookup EXCEPT !.todo = @ \ {k}, !.found[k] = r]
  BY DEF Class!lookup_func
<1>1. PICK r \in (IF hit(k) = {} THEN {None} ELSE hit(k)) :
        lookup' = [lookup EXCEPT !.todo = @ \ {k}, !.found[k] = r]
  BY <1>0
<1>u. UNCHANGED <<Class!update, seen>> BY DEF Class!lookup_func
<1>v. lookup \in ClassLookups /\ lookup.vector \in Seq(Subtables) /\ lookup.vector # <<>>
  BY DEF ClassInv, ClassTypes, ClassLookups, Class!lookup_func, Class!Searching
<1>h. head \in Subtables /\ 1 \in DOMAIN lookup.vector /\ lookup.vector[1] = head
  BY <1>v, HeadTailProperties
<1>k. k \in Keys /\ k \in lookup.keys_map /\ lookup.found[k] = None
  BY DEF ClassInv, ClassTypes, ClassLookups, LookupInv
<1>r. r \in Rules \cup {None} /\ (r = None <=> hit(k) = {})
  BY <1>1, <1>h DEF ClassInv, ClassTypes, Class!ClassifierAssumption
<1>l. /\ lookup'.keys = lookup.keys /\ lookup'.keys_map = lookup.keys_map
      /\ lookup'.todo = lookup.todo \ {k} /\ lookup'.vector = lookup.vector
      /\ lookup'.found = [lookup.found EXCEPT ![k] = r] /\ lookup' \in ClassLookups
  BY <1>1, <1>r, <1>v DEF ClassLookups
<1>2. ClassTypes' /\ TableInv' /\ ApartInv' /\ Class!Present' = Class!Present
  BY <1>u, <1>l, UpdateUnchanged DEF ClassInv, ClassTypes
<1>3. r # None /\ k \in lookup.keys => r \in seen[k]
  <2>1. r # None => head \in subtables_map
    BY <1>1, <1>r, <1>h DEF ClassInv, TableInv
  <2>2. r # None => r \in Class!Answers(Class!Present, k)
    BY <2>1, <1>1, <1>r DEF Class!Answers, Class!Present
  <2> QED BY <2>2 DEF ClassInv, LookupInv
<1>4. ASSUME NEW j \in lookup.keys, lookup'.found[j] = None, None \notin seen[j]
      PROVE  \E s \in Ahead(j)' : s \in subtables_map /\ rules[s] \cap matching[j] # {}
  <2>1. j \in Keys /\ lookup.found[j] = None
    BY <1>4, <1>l, <1>k, <1>v DEF ClassLookups
  <2>2. PICK s \in Ahead(j) : s \in subtables_map /\ rules[s] \cap matching[j] # {}
    BY <2>1, <1>4 DEF ClassInv, LookupInv
  <2>3. s \in Ahead(j)'
    <3>1. CASE j # k
      BY <3>1, <1>l DEF Ahead
    <3>2. CASE j = k
      <4>1. r = None
        BY <3>2, <1>4, <1>l, <1>k, <1>v DEF ClassLookups
      <4>2. s # head
        BY <4>1, <3>2, <2>2, <1>r
      <4> QED BY <4>2, <2>2, <1>l, <1>h DEF Ahead
    <3> QED BY <3>1, <3>2
  <2> QED BY <2>2, <2>3
<1>5. LookupInv'
  <2>1. \A j \in lookup.keys : Class!Answers(Class!Present', j) = Class!Answers(Class!Present, j)
    BY <1>2
  <2>2. \A j \in Keys : lookup'.found[j] = IF j = k THEN r ELSE lookup.found[j]
    BY <1>l, <1>v DEF ClassLookups
  <2>3. lookup.keys \subseteq Keys /\ lookup.todo \subseteq Keys
    BY <1>v DEF ClassLookups
  <2>4. \A j \in lookup'.todo : j \in lookup'.keys_map /\ lookup'.found[j] = None
    BY <2>2, <2>3, <1>l DEF ClassInv, LookupInv
  <2>5. \A j \in lookup.keys : lookup'.found[j] # None => lookup'.found[j] \in seen[j]
    BY <2>2, <2>3, <1>3 DEF ClassInv, LookupInv
  <2>6. \A j \in lookup.keys : lookup'.found[j] = None => j \in lookup'.keys_map
    BY <2>2, <2>3, <1>k, <1>l DEF ClassInv, LookupInv
  <2>7. \A j \in lookup.keys : Class!Answers(Class!Present, j) \subseteq seen[j]
    BY DEF ClassInv, LookupInv
  <2>8. UNCHANGED <<subtables_map, rules>>
    BY <1>u DEF Class!update
  <2> QED BY <2>1, <2>4, <2>5, <2>6, <2>7, <2>8, <1>4, <1>l, <1>u DEF LookupInv
<1> QED BY <1>2, <1>5 DEF ClassInv

LEMMA NextSubtableKeeps ==
  ASSUME Class!ClassifierAssumption, ClassInv, Class!next_subtable
  PROVE  ClassInv'
<1> DEFINE left == {k \in lookup.keys_map : lookup.found[k] = None}
<1>u. UNCHANGED <<Class!update, seen>> /\ lookup.todo = {} BY DEF Class!next_subtable
<1>v. lookup \in ClassLookups /\ lookup.vector \in Seq(Subtables) /\ lookup.vector # <<>>
  BY DEF ClassInv, ClassTypes, ClassLookups, Class!next_subtable, Class!Searching
<1>t. /\ Tail(lookup.vector) \in Seq(Subtables)
      /\ Len(Tail(lookup.vector)) = Len(lookup.vector) - 1
      /\ \A i \in 1 .. Len(Tail(lookup.vector)) : Tail(lookup.vector)[i] = lookup.vector[i + 1]
  BY <1>v, HeadTailProperties
<1>l. /\ lookup'.keys = lookup.keys /\ lookup'.keys_map = left
      /\ lookup'.todo = left /\ lookup'.vector = Tail(lookup.vector)
      /\ lookup'.found = lookup.found /\ lookup' \in ClassLookups
  BY <1>v, <1>t DEF ClassLookups, Class!next_subtable
<1>2. ClassTypes' /\ TableInv' /\ ApartInv' /\ Class!Present' = Class!Present
  BY <1>u, <1>l, UpdateUnchanged DEF ClassInv, ClassTypes
<1>3. ASSUME NEW k \in lookup.keys, lookup.found[k] = None
      PROVE  k \in left /\ Ahead(k) \subseteq Ahead(k)'
  <2>1. k \in left
    BY <1>3 DEF ClassInv, LookupInv
  <2>2. ASSUME NEW i \in DOMAIN lookup.vector, i # 1
        PROVE  lookup.vector[i] \in Ahead(k)'
    <3>1. i - 1 \in 1 .. Len(Tail(lookup.vector)) /\ Tail(lookup.vector)[i - 1] = lookup.vector[i]
      BY <2>2, <1>t, <1>v
    <3> QED BY <3>1, <2>1, <1>l, <1>t DEF Ahead
  <2> QED BY <2>1, <2>2, <1>u DEF Ahead
<1>4. LookupInv'
  <2>1. UNCHANGED <<subtables_map, rules, seen>>
    BY <1>u DEF Class!update
  <2>2. \A k \in lookup.keys : Class!Answers(Class!Present', k) = Class!Answers(Class!Present, k)
    BY <1>2
  <2> QED BY <1>3, <2>1, <2>2, <1>l DEF ClassInv, LookupInv
<1> QED BY <1>2, <1>4 DEF ClassInv

LEMMA ReturnKeeps ==
  ASSUME Class!ClassifierAssumption, ClassInv, Class!LookupReturns
  PROVE  ClassInv'
<1>u. UNCHANGED (Class!update) /\ lookup' = Class!NoLookup /\ seen' = [k \in Keys |-> {}]
  BY DEF Class!LookupReturns
<1>1. lookup' \in ClassLookups /\ seen' \in [Keys -> SUBSET (Rules \cup {None})]
  BY <1>u DEF ClassLookups, Class!NoLookup
<1>2. ClassTypes' /\ TableInv' /\ ApartInv'
  BY <1>u, <1>1, UpdateUnchanged
<1>3. LookupInv'
  BY <1>u DEF LookupInv, Class!NoLookup
<1> QED BY <1>2, <1>3 DEF ClassInv

-----------------------------------------------------------------------------
LEMMA ClassNextKeeps ==
  ASSUME Class!ClassifierAssumption, ClassInv, [Class!Next]_(Class!vars)
  PROVE  ClassInv'
<1>1. ASSUME NEW r \in Rules, Class!dpcls_insert(r) \/ Class!dpcls_remove(r) PROVE ClassInv'
  BY <1>1, ClassInsertKeeps, ClassRemoveKeeps
<1>2. ASSUME NEW keys \in SUBSET Keys, Class!dpcls_lookup(keys) PROVE ClassInv'
  BY <1>2, LookupKeeps
<1>3. CASE UNCHANGED (Class!vars)
  BY <1>3 DEF Class!vars, Class!update, ClassInv, ClassTypes, TableInv, ApartInv,
     LookupInv, Matches, Class!Present, Ahead, Class!Answers
<1> QED
  BY <1>1, <1>2, <1>3, FindKeeps, InsertRuleKeeps, DestroyKeeps, DestroyCbKeeps,
     SortKeeps, LookupFuncKeeps, NextSubtableKeeps, ReturnKeeps
  DEF Class!Next

LEMMA InvGivesAtomic ==
  ASSUME ClassInv
  PROVE  Class!LookupIsAtomic
<1> SUFFICES ASSUME ~Class!Searching, NEW k \in lookup.keys
             PROVE  lookup.found[k] \in seen[k]
  BY DEF Class!LookupIsAtomic
<1>1. CASE lookup.found[k] # None
  BY <1>1 DEF ClassInv, LookupInv
<1>2. CASE lookup.found[k] = None
  <2>1. lookup.vector = <<>>
    BY <1>2 DEF ClassInv, LookupInv, Class!Searching
  <2>2. Ahead(k) = {}
    BY <2>1 DEF Ahead
  <2> QED BY <1>2, <2>2 DEF ClassInv, LookupInv
<1> QED BY <1>1, <1>2

(* A lookup without the lock, of any number of keys in any classifier,     *)
(* while rules and subtables come and go, returns for each key what was    *)
(* right at some time since it began.                                      *)
THEOREM LookupAtomic ==
  ASSUME Class!ClassifierAssumption
  PROVE  Class!Spec => []Class!LookupIsAtomic
<1>1. Class!Init => ClassInv BY ClassInit
<1>2. ClassInv /\ [Class!Next]_(Class!vars) => ClassInv' BY ClassNextKeeps
<1>3. ClassInv => Class!LookupIsAtomic BY InvGivesAtomic
<1> QED BY <1>1, <1>2, <1>3, PTL DEF Class!Spec

-----------------------------------------------------------------------------
(***************************************************************************)
(* For any number of ports, any burst, batches and bonds: a port sends     *)
(* what it was given, in order and in time.  A flush is a fold over the    *)
(* ports that are due; as it clears each port whole, it does not matter    *)
(* in which order it takes them (Cleared).                                 *)
(***************************************************************************)
OutTypes ==
  [cache : [Ports -> Output!TxPorts \cup {None}], n : Int,
   given : [Ports -> Nat], sent : [Ports -> Nat]]

QueueOf(out, p) == IF out.cache[p] = None THEN <<>> ELSE out.cache[p].output_pkts
WithPackets(out) == {p \in Ports : QueueOf(out, p) # <<>>}

(* What OutputOrder and BatchesCounted say of a port.                      *)
PortSound(out, p) ==
  /\ out.given[p] = out.sent[p] + Len(QueueOf(out, p))
  /\ \A i \in DOMAIN QueueOf(out, p) : QueueOf(out, p)[i].number = out.sent[p] + i - 1
  /\ Len(QueueOf(out, p)) <= NETDEV_MAX_BURST
  /\ \A i, j \in DOMAIN QueueOf(out, p) : QueueOf(out, p)[i].source = QueueOf(out, p)[j].source

OutSound(out) ==
  /\ out \in OutTypes /\ \A p \in Ports : PortSound(out, p)
  /\ out.n = Cardinality(WithPackets(out))

Settings == ctx_now \in Nat /\ tx_flush_interval \in Nat

Flushed(now) == [output_pkts |-> <<>>, flush_time |-> now + tx_flush_interval]

(* A flush of the ports in D, as one step.                                 *)
Cleared(out, D, now) ==
  [cache |-> [p \in Ports |-> IF p \in D THEN Flushed(now) ELSE out.cache[p]],
   n |-> out.n - Cardinality(D),
   given |-> [p \in Ports |-> IF p \in D THEN 0 ELSE out.given[p]],
   sent |-> [p \in Ports |-> IF p \in D THEN 0 ELSE out.sent[p]]]

-----------------------------------------------------------------------------
LEMMA BatchConstants ==
  ASSUME Output!BatchAssumption
  PROVE  /\ IsFiniteSet(Ports) /\ None \notin Output!TxPorts /\ Intervals \subseteq Nat
         /\ NETDEV_MAX_BURST \in Nat \ {0} /\ MaxTime \in Nat
BY DEF Output!BatchAssumption, Output!IsFiniteSet, IsFiniteSet

(* Packets that are numbered from n on are all counted.                    *)
LEMMA AllCounted ==
  ASSUME NEW pkts, NEW len \in Nat, DOMAIN pkts = 1 .. len, NEW n \in Nat,
         \A i \in 1 .. len : pkts[i].number = n + i - 1
  PROVE  LET Fix(g) == g = [s \in SUBSET DOMAIN pkts |->
                         IF s = {} THEN n
                         ELSE (IF pkts[Max(s)].number = g[s \ {Max(s)}]
                               THEN g[s \ {Max(s)}] + 1 ELSE g[s \ {Max(s)}])]
         IN  (CHOOSE g : Fix(g))[DOMAIN pkts] = n + len
<1> DEFINE Fix(g) == g = [s \in SUBSET DOMAIN pkts |->
                       IF s = {} THEN n
                       ELSE (IF pkts[Max(s)].number = g[s \ {Max(s)}]
                             THEN g[s \ {Max(s)}] + 1 ELSE g[s \ {Max(s)}])]
           h == CHOOSE g : Fix(g)
           F == [x \in (1 .. len) \X Nat |->
                   IF pkts[x[1]].number = x[2] THEN x[2] + 1 ELSE x[2]]
<1>1. /\ \A t \in 1 .. len, v \in Nat : F[<<t, v>>] \in Nat
      /\ \A t \in 1 .. len, v \in Nat :
           F[<<t, v>>] = IF pkts[t].number = v THEN v + 1 ELSE v
  OBVIOUS
<1>2. PICK g \in [SUBSET (1 .. len) -> Nat] : \A s \in SUBSET (1 .. len) :
        g[s] = IF s = {} THEN n ELSE F[<<Max(s), g[s \ {Max(s)}]>>]
  <2> HIDE DEF F
  <2>2. RunOf(len, Nat, n, F) # {}
    BY <1>1, RunExists
  <2> QED  BY <2>2 DEF RunOf
<1>3. Fix(g)
  <2>1. \A s \in SUBSET (1 .. len) :
          g[s] = IF s = {} THEN n
                 ELSE (IF pkts[Max(s)].number = g[s \ {Max(s)}]
                       THEN g[s \ {Max(s)}] + 1 ELSE g[s \ {Max(s)}])
    <3> TAKE s \in SUBSET (1 .. len)
    <3>1. CASE s = {}
      BY <3>1, <1>2
    <3>2. CASE s # {}
      <4>1. Max(s) \in s
        BY <3>2, MaxOfSome
      <4>2. Max(s) \in 1 .. len /\ g[s \ {Max(s)}] \in Nat
        BY <4>1, <1>2
      <4>3. g[s] = F[<<Max(s), g[s \ {Max(s)}]>>]
        BY <3>2, <1>2
      <4> HIDE DEF F
      <4> QED  BY <3>2, <4>2, <4>3, <1>1
    <3> QED  BY <3>1, <3>2
  <2> QED  BY <2>1, <1>2
<1>4. Fix(h)
  <2> HIDE DEF Fix
  <2> QED  BY <1>3
<1>5. (CHOOSE g_1 : Fix(g_1))[DOMAIN pkts] = h[1 .. len]
  OBVIOUS
<1> HIDE DEF h, F
<1>6. \A s \in SUBSET (1 .. len) :
        h[s] = IF s = {} THEN n
               ELSE (IF pkts[Max(s)].number = h[s \ {Max(s)}]
                     THEN h[s \ {Max(s)}] + 1 ELSE h[s \ {Max(s)}])
  BY <1>4
<1> HIDE DEF Fix
<1> DEFINE P == {i \in 0 .. len : h[1 .. i] = n + i}
<1>7. 0 \in P
  <2>1. 1 .. 0 = {} /\ {} \in SUBSET (1 .. len)
    OBVIOUS
  <2>2. h[{}] = n
    BY <1>6, <2>1
  <2> QED  BY <2>1, <2>2
<1>8. \A i \in 0 .. len - 1 : i \in P => i + 1 \in P
  <2> SUFFICES ASSUME NEW i \in 0 .. len - 1, h[1 .. i] = n + i
               PROVE  i + 1 \in 0 .. len /\ h[1 .. (i + 1)] = n + (i + 1)
    OBVIOUS
  <2>1. i \in Nat /\ i + 1 \in Nat \ {0} /\ i + 1 \in 1 .. len /\ (i + 1) - 1 = i
    OBVIOUS
  <2>2. Max(1 .. (i + 1)) = i + 1 /\ (1 .. (i + 1)) \ {i + 1} = 1 .. i
    BY <2>1, LastOf
  <2>3. 1 .. (i + 1) \in SUBSET (1 .. len) /\ 1 .. (i + 1) # {}
    <3>1. ASSUME NEW x \in 1 .. (i + 1) PROVE x \in 1 .. len
      BY <2>1
    <3>2. 1 \in 1 .. (i + 1)
      BY <2>1
    <3> QED  BY <3>1, <3>2
  <2>4. pkts[i + 1].number = n + i
    BY <2>1
  <2>5. h[1 .. (i + 1)] = IF n + i = h[1 .. i] THEN h[1 .. i] + 1 ELSE h[1 .. i]
    BY <1>6, <2>2, <2>3, <2>4
  <2>6. i + 1 \in 0 .. len /\ (n + i) + 1 = n + (i + 1)
    OBVIOUS
  <2> QED  BY <2>5, <2>6
<1> HIDE DEF P
<1>9. \A i \in 0 .. len : i \in P
  BY <1>7, <1>8, CountUp
<1> QED  BY <1>5, <1>9 DEF P, Fix

LEMMA QueueType ==
  ASSUME NEW out \in OutTypes, NEW p \in Ports
  PROVE  /\ QueueOf(out, p) \in Seq([number : Nat, source : Sources])
         /\ Len(QueueOf(out, p)) \in Nat /\ DOMAIN QueueOf(out, p) = 1 .. Len(QueueOf(out, p))
         /\ out.given[p] \in Nat /\ out.sent[p] \in Nat /\ out.n \in Int
<1>1. out.cache[p] \in Output!TxPorts \cup {None} /\ out.given[p] \in Nat /\ out.sent[p] \in Nat /\ out.n \in Int
  BY DEF OutTypes
<1>2. QueueOf(out, p) \in Seq([number : Nat, source : Sources])
  BY <1>1 DEF QueueOf, Output!TxPorts
<1> QED  BY <1>1, <1>2

(* A flush of one port sends all it has been given.                        *)
LEMMA PortFlushed ==
  ASSUME NEW out \in OutTypes, NEW p \in Ports, out.cache[p] # None,
         PortSound(out, p), NEW now
  PROVE  Output!dp_netdev_pmd_flush_output_on_port(out, p, now) = Cleared(out, {p}, now)
<1> DEFINE pkts == out.cache[p].output_pkts
           Fix(g) == g = [s \in SUBSET DOMAIN pkts |->
                       IF s = {} THEN out.sent[p]
                       ELSE (IF pkts[Max(s)].number = g[s \ {Max(s)}]
                             THEN g[s \ {Max(s)}] + 1 ELSE g[s \ {Max(s)}])]
           count == (CHOOSE g : Fix(g))[DOMAIN pkts]
           all == count = out.given[p]
<1>1. Output!dp_netdev_pmd_flush_output_on_port(out, p, now) =
        [out EXCEPT
           !.sent[p] = IF all THEN 0 ELSE count, !.given[p] = IF all THEN 0 ELSE @,
           !.n = @ - 1,
           !.cache[p] = [output_pkts |-> <<>>, flush_time |-> now + tx_flush_interval]]
  BY DEF Output!dp_netdev_pmd_flush_output_on_port, Output!FoldLeft,
     Output!MapThenFoldSet, Output!Max, Max
<1>2. count = out.given[p]
  <2>1. pkts = QueueOf(out, p)
    BY DEF QueueOf
  <2>2. /\ Len(pkts) \in Nat /\ DOMAIN pkts = 1 .. Len(pkts) /\ out.sent[p] \in Nat
        /\ out.given[p] = out.sent[p] + Len(pkts)
        /\ \A i \in 1 .. Len(pkts) : pkts[i].number = out.sent[p] + i - 1
    BY <2>1, QueueType DEF PortSound
  <2> HIDE DEF pkts
  <2>3. count = out.sent[p] + Len(pkts)
    BY <2>2, AllCounted
  <2> QED  BY <2>2, <2>3
<1> HIDE DEF count
<1>3. out = [cache |-> out.cache, n |-> out.n, given |-> out.given, sent |-> out.sent]
  BY DEF OutTypes
<1>4. ASSUME NEW a, NEW b, NEW c, NEW d, out = [cache |-> a, n |-> b, given |-> c, sent |-> d]
      PROVE  [out EXCEPT !.sent[p] = 0, !.given[p] = 0, !.n = @ - 1, !.cache[p] = Flushed(now)] =
               [cache |-> [a EXCEPT ![p] = Flushed(now)], n |-> b - 1,
                given |-> [c EXCEPT ![p] = 0], sent |-> [d EXCEPT ![p] = 0]]
  <2> DEFINE r1 == [cache |-> a, n |-> b, given |-> c, sent |-> [d EXCEPT ![p] = 0]]
             r2 == [cache |-> a, n |-> b, given |-> [c EXCEPT ![p] = 0], sent |-> [d EXCEPT ![p] = 0]]
             r3 == [cache |-> a, n |-> b - 1, given |-> [c EXCEPT ![p] = 0], sent |-> [d EXCEPT ![p] = 0]]
  <2>1. [out EXCEPT !.sent[p] = 0] = r1
    BY <1>4
  <2>2. [r1 EXCEPT !.given[p] = 0] = r2
    OBVIOUS
  <2>3. [r2 EXCEPT !.n = @ - 1] = r3
    OBVIOUS
  <2>4. [r3 EXCEPT !.cache[p] = Flushed(now)] =
          [cache |-> [a EXCEPT ![p] = Flushed(now)], n |-> b - 1,
           given |-> [c EXCEPT ![p] = 0], sent |-> [d EXCEPT ![p] = 0]]
    OBVIOUS
  <2>5. [out EXCEPT !.sent[p] = 0, !.given[p] = 0, !.n = @ - 1, !.cache[p] = Flushed(now)] =
          [[[[out EXCEPT !.sent[p] = 0] EXCEPT !.given[p] = 0] EXCEPT !.n = @ - 1]
             EXCEPT !.cache[p] = Flushed(now)]
    BY <1>4
  <2> HIDE DEF r1, r2, r3
  <2> QED  BY <2>1, <2>2, <2>3, <2>4, <2>5
<1>5. Cardinality({p}) = 1
  BY FS_Singleton
<1>6. /\ [out.cache EXCEPT ![p] = Flushed(now)] =
           [q \in Ports |-> IF q \in {p} THEN Flushed(now) ELSE out.cache[q]]
      /\ [out.given EXCEPT ![p] = 0] = [q \in Ports |-> IF q \in {p} THEN 0 ELSE out.given[q]]
      /\ [out.sent EXCEPT ![p] = 0] = [q \in Ports |-> IF q \in {p} THEN 0 ELSE out.sent[q]]
  BY DEF OutTypes
<1>7. Output!dp_netdev_pmd_flush_output_on_port(out, p, now) =
        [out EXCEPT !.sent[p] = 0, !.given[p] = 0, !.n = @ - 1, !.cache[p] = Flushed(now)]
  BY <1>1, <1>2 DEF Flushed
<1> QED  BY <1>3, <1>4, <1>5, <1>6, <1>7 DEF Cleared

LEMMA ClearedSound ==
  ASSUME Output!BatchAssumption, Settings, NEW now \in Nat,
         NEW out, OutSound(out), NEW D \in SUBSET WithPackets(out)
  PROVE  /\ OutSound(Cleared(out, D, now))
         /\ \A p \in Ports : QueueOf(Cleared(out, D, now), p) = IF p \in D THEN <<>> ELSE QueueOf(out, p)
         /\ \A p \in D : out.cache[p] # None
<1> DEFINE new == Cleared(out, D, now)
<1>0. IsFiniteSet(Ports) /\ None \notin Output!TxPorts /\ NETDEV_MAX_BURST \in Nat
  BY BatchConstants
<1>1. /\ D \in SUBSET Ports /\ WithPackets(out) \in SUBSET Ports
      /\ out \in OutTypes /\ \A p \in Ports : PortSound(out, p)
  BY DEF WithPackets, OutSound
<1>2. Flushed(now) \in Output!TxPorts
  <2>1. now + tx_flush_interval \in Nat
    BY DEF Settings
  <2>2. <<>> \in Seq([number : Nat, source : Sources])
    OBVIOUS
  <2> QED  BY <2>1, <2>2 DEF Flushed, Output!TxPorts
<1>3. IsFiniteSet(D) /\ IsFiniteSet(WithPackets(out)) /\ Cardinality(D) \in Nat
  BY <1>0, <1>1, FS_Subset, FS_CardinalityType
<1>4. new \in OutTypes
  <2>1. /\ new.cache \in [Ports -> Output!TxPorts \cup {None}] /\ new.n \in Int
        /\ new.given \in [Ports -> Nat] /\ new.sent \in [Ports -> Nat]
    BY <1>1, <1>2, <1>3 DEF Cleared, OutTypes
  <2>2. new = [cache |-> new.cache, n |-> new.n, given |-> new.given, sent |-> new.sent]
    BY DEF Cleared
  <2> QED  BY <2>1, <2>2 DEF OutTypes
<1>5. ASSUME NEW p \in Ports
      PROVE  QueueOf(new, p) = IF p \in D THEN <<>> ELSE QueueOf(out, p)
  <2>1. new.cache[p] = IF p \in D THEN Flushed(now) ELSE out.cache[p]
    BY DEF Cleared
  <2>2. Flushed(now) # None /\ Flushed(now).output_pkts = <<>>
    BY <1>0, <1>2 DEF Flushed
  <2> QED  BY <2>1, <2>2 DEF QueueOf
<1>6. ASSUME NEW p \in Ports PROVE PortSound(new, p)
  <2>1. /\ new.given[p] = IF p \in D THEN 0 ELSE out.given[p]
        /\ new.sent[p] = IF p \in D THEN 0 ELSE out.sent[p]
    BY DEF Cleared
  <2>2. CASE p \notin D
    BY <2>1, <2>2, <1>1, <1>5 DEF PortSound
  <2>3. CASE p \in D
    <3>2. 0 <= NETDEV_MAX_BURST
      BY <1>0
    <3>3. Len(<<>>) = 0 /\ DOMAIN <<>> = {}
      OBVIOUS
    <3> QED  BY <2>1, <2>3, <1>5, <3>2, <3>3 DEF PortSound
  <2> QED  BY <2>2, <2>3
<1>7. new.n = Cardinality(WithPackets(new))
  <2>1. WithPackets(new) = WithPackets(out) \ D
    BY <1>5 DEF WithPackets
  <2>2. Cardinality(WithPackets(out) \ D) = Cardinality(WithPackets(out)) - Cardinality(D)
    <3>1. WithPackets(out) \cap D = D
      OBVIOUS
    <3> QED  BY <1>3, <3>1, FS_Difference
  <2>3. new.n = out.n - Cardinality(D)
    BY DEF Cleared
  <2> QED  BY <2>1, <2>2, <2>3 DEF OutSound
<1>8. \A p \in D : out.cache[p] # None
  BY DEF WithPackets, QueueOf
<1> QED  BY <1>4, <1>5, <1>6, <1>7, <1>8 DEF OutSound

(* One more port.                                                          *)
LEMMA ClearedOneMore ==
  ASSUME IsFiniteSet(Ports), NEW out, OutSound(out), NEW D \in SUBSET WithPackets(out),
         NEW p \in D, NEW now
  PROVE  Cleared(Cleared(out, D \ {p}, now), {p}, now) = Cleared(out, D, now)
<1>1. D \in SUBSET Ports /\ out.n \in Int
  BY DEF WithPackets, OutSound, OutTypes
<1>2. IsFiniteSet(D) /\ IsFiniteSet(D \ {p})
  BY <1>1, FS_Subset
<1>3. /\ Cardinality(D \ {p}) = Cardinality(D) - 1 /\ Cardinality({p}) = 1
      /\ Cardinality(D) \in Nat
  BY <1>2, FS_RemoveElement, FS_Singleton, FS_CardinalityType
<1> DEFINE one == Cleared(out, D \ {p}, now)
           two == Cleared(one, {p}, now)
           all == Cleared(out, D, now)
<1>4. two.cache = all.cache
  <2>1. \A q \in Ports : (IF q \in {p} THEN Flushed(now) ELSE
                            (IF q \in D \ {p} THEN Flushed(now) ELSE out.cache[q]))
                         = IF q \in D THEN Flushed(now) ELSE out.cache[q]
    OBVIOUS
  <2> QED  BY <2>1 DEF Cleared
<1>5. two.given = all.given
  <2>1. \A q \in Ports : (IF q \in {p} THEN 0 ELSE (IF q \in D \ {p} THEN 0 ELSE out.given[q]))
                         = IF q \in D THEN 0 ELSE out.given[q]
    OBVIOUS
  <2> QED  BY <2>1 DEF Cleared
<1>6. two.sent = all.sent
  <2>1. \A q \in Ports : (IF q \in {p} THEN 0 ELSE (IF q \in D \ {p} THEN 0 ELSE out.sent[q]))
                         = IF q \in D THEN 0 ELSE out.sent[q]
    OBVIOUS
  <2> QED  BY <2>1 DEF Cleared
<1>7. two.n = all.n
  BY <1>1, <1>3 DEF Cleared
<1>8. /\ two = [cache |-> two.cache, n |-> two.n, given |-> two.given, sent |-> two.sent]
      /\ all = [cache |-> all.cache, n |-> all.n, given |-> all.given, sent |-> all.sent]
  BY DEF Cleared
<1> HIDE DEF two, all
<1> QED  BY <1>4, <1>5, <1>6, <1>7, <1>8 DEF two, one, all

LEMMA ClearedNone ==
  ASSUME NEW out \in OutTypes, NEW now
  PROVE  Cleared(out, {}, now) = out
<1>1. Cardinality({}) = 0 /\ out.n \in Int
  BY FS_EmptySet DEF OutTypes
<1>2. out = [cache |-> out.cache, n |-> out.n, given |-> out.given, sent |-> out.sent]
  BY DEF OutTypes
<1>3. /\ out.cache = [p \in Ports |-> out.cache[p]] /\ out.given = [p \in Ports |-> out.given[p]]
      /\ out.sent = [p \in Ports |-> out.sent[p]]
  BY DEF OutTypes
<1> HIDE DEF OutTypes
<1>4. Cleared(out, {}, now) =
        [cache |-> [p \in Ports |-> out.cache[p]], n |-> out.n - 0,
         given |-> [p \in Ports |-> out.given[p]], sent |-> [p \in Ports |-> out.sent[p]]]
  BY <1>1 DEF Cleared
<1> QED  BY <1>1, <1>2, <1>3, <1>4

(* The fold over the ports that are due, in whatever order, flushes them   *)
(* all; and there are none where no port is counted.                       *)
LEMMA PacketsFlushed ==
  ASSUME Output!BatchAssumption, Settings, NEW now \in Nat, NEW out, OutSound(out), NEW force
  PROVE  /\ Output!Due(out, force, now) \in SUBSET WithPackets(out)
         /\ Output!dp_netdev_pmd_flush_output_packets(out, force, now) =
              Cleared(out, Output!Due(out, force, now), now)
<1> DEFINE D == Output!Due(out, force, now)
           Fix(g) == g = [s \in SUBSET D |-> IF s = {} THEN out
                            ELSE Output!dp_netdev_pmd_flush_output_on_port(
                                   g[s \ {PickOf(s)}], PickOf(s), now)]
           h == CHOOSE g : Fix(g)
           all == [s \in SUBSET D |-> Cleared(out, s, now)]
<1>0. IsFiniteSet(Ports)
  BY BatchConstants
<1>1. D \in SUBSET WithPackets(out) /\ WithPackets(out) \in SUBSET Ports
  BY DEF Output!Due, WithPackets, QueueOf
<1>2. IsFiniteSet(WithPackets(out)) /\ IsFiniteSet(D)
  BY <1>0, <1>1, FS_Subset
<1>3. CASE out.n = 0
  <2>1. D = {}
    BY <1>1, <1>2, <1>3, FS_EmptySet DEF OutSound
  <2> QED  BY <1>1, <1>3, <2>1, ClearedNone
              DEF Output!dp_netdev_pmd_flush_output_packets, OutSound
<1>4. CASE out.n # 0
  <2>1. Output!dp_netdev_pmd_flush_output_packets(out, force, now) = h[D]
    BY <1>4 DEF Output!dp_netdev_pmd_flush_output_packets, Output!FoldSet,
       Output!MapThenFoldSet, PickOf
  <2> HIDE DEF D
  <2>2. ASSUME NEW s \in SUBSET D, s # {}
        PROVE  all[s] = Output!dp_netdev_pmd_flush_output_on_port(all[s \ {PickOf(s)}], PickOf(s), now)
    <3> DEFINE p == PickOf(s)
               before == Cleared(out, s \ {p}, now)
    <3>1. p \in s
      BY <2>2 DEF PickOf
    <3> HIDE DEF p
    <3>2. s \in SUBSET WithPackets(out) /\ s \ {p} \in SUBSET WithPackets(out) /\ p \in Ports
      BY <1>1, <3>1
    <3>3. OutSound(before) /\ before.cache[p] # None
      <4>1. OutSound(before)
        BY <3>2, ClearedSound
      <4>2. before.cache[p] = out.cache[p]
        BY <3>2 DEF Cleared
      <4>3. out.cache[p] # None
        BY <3>1, <3>2, ClearedSound
      <4> QED  BY <4>1, <4>2, <4>3
    <3>4. before \in OutTypes /\ PortSound(before, p)
      BY <3>2, <3>3 DEF OutSound
    <3> HIDE DEF before
    <3>5. Output!dp_netdev_pmd_flush_output_on_port(before, p, now) = Cleared(before, {p}, now)
      BY <3>2, <3>3, <3>4, PortFlushed
    <3>6. Cleared(before, {p}, now) = Cleared(out, s, now)
      BY <1>0, <3>1, <3>2, ClearedOneMore DEF before
    <3>7. all[s] = Cleared(out, s, now) /\ all[s \ {p}] = before
      BY DEF before
    <3> QED  BY <3>5, <3>6, <3>7 DEF p
  <2>3. all[{}] = out
    BY ClearedNone DEF OutSound
  <2>4. Fix(all)
    <3>1. \A s \in SUBSET D : all[s] = IF s = {} THEN out
             ELSE Output!dp_netdev_pmd_flush_output_on_port(all[s \ {PickOf(s)}], PickOf(s), now)
      BY <2>2, <2>3
    <3>2. all = [s \in SUBSET D |-> all[s]]
      OBVIOUS
    <3> HIDE DEF all
    <3> QED  BY <3>1, <3>2
  <2>5. Fix(h)
    <3> HIDE DEF Fix, all
    <3> QED  BY <2>4
  <2> HIDE DEF h
  <2> DEFINE P == {s \in SUBSET D : h[s] = all[s]}
  <2>6. \A s \in SUBSET D : (\A x \in s : s \ {x} \in P) => s \in P
    <3> SUFFICES ASSUME NEW s \in SUBSET D, \A x \in s : s \ {x} \in P
                 PROVE  h[s] = all[s]
      OBVIOUS
    <3> HIDE DEF all
    <3>1. CASE s = {}
      BY <3>1, <2>5, <2>3
    <3>2. CASE s # {}
      <4>1. PickOf(s) \in s
        BY <3>2 DEF PickOf
      <4>2. h[s \ {PickOf(s)}] = all[s \ {PickOf(s)}]
        BY <4>1
      <4>3. h[s] = Output!dp_netdev_pmd_flush_output_on_port(h[s \ {PickOf(s)}], PickOf(s), now)
        BY <2>5, <3>2
      <4> QED  BY <3>2, <4>2, <4>3, <2>2
    <3> QED  BY <3>1, <3>2
  <2>7. D \in P
    <3> HIDE DEF P
    <3>1. \A s \in SUBSET D : s \in P
      BY <2>6, <1>2, SubsetInduction
    <3> QED  BY <3>1
  <2>8. h[D] = Cleared(out, D, now)
    BY <2>7
  <2> QED  BY <1>1, <2>1, <2>8 DEF D
<1> QED  BY <1>3, <1>4

-----------------------------------------------------------------------------
(* dp_execute_output_action: first room is made, then the packets are      *)
(* added.                                                                  *)
Fresh(room, p, packets) ==
  [i \in 1 .. packets.n |-> [number |-> room.given[p] + i - 1, source |-> packets.source]]

Added(room, p, packets) ==
  [room EXCEPT
     !.n = IF room.cache[p].output_pkts = <<>> THEN @ + 1 ELSE @,
     !.cache[p].output_pkts = @ \o Fresh(room, p, packets),
     !.given[p] = @ + packets.n]

Received == [n : 1 .. NETDEV_MAX_BURST, source : Sources]

(* The batch has room for the packets, and is of their source.             *)
HasRoom(room, p, packets) ==
  /\ OutSound(room) /\ room.cache[p] # None
  /\ Len(QueueOf(room, p)) + packets.n <= NETDEV_MAX_BURST
  /\ \A i \in DOMAIN QueueOf(room, p) : QueueOf(room, p)[i].source = packets.source

LEMMA OneFlushed ==
  ASSUME Output!BatchAssumption, Settings, NEW out, OutSound(out), NEW p \in Ports,
         out.cache[p] # None, QueueOf(out, p) # <<>>
  PROVE  /\ Output!dp_netdev_pmd_flush_output_on_port(out, p, ctx_now) = Cleared(out, {p}, ctx_now)
         /\ OutSound(Cleared(out, {p}, ctx_now))
         /\ Cleared(out, {p}, ctx_now).cache[p] # None
         /\ QueueOf(Cleared(out, {p}, ctx_now), p) = <<>>
<1>1. out \in OutTypes /\ PortSound(out, p) /\ {p} \in SUBSET WithPackets(out) /\ ctx_now \in Nat
  BY DEF OutSound, WithPackets, Settings
<1>2. Output!dp_netdev_pmd_flush_output_on_port(out, p, ctx_now) = Cleared(out, {p}, ctx_now)
  BY <1>1, PortFlushed
<1>3. OutSound(Cleared(out, {p}, ctx_now)) /\ QueueOf(Cleared(out, {p}, ctx_now), p) = <<>>
  BY <1>1, ClearedSound
<1>4. Flushed(ctx_now) # None
  <2>1. Flushed(ctx_now) \in Output!TxPorts
    <3>1. ctx_now + tx_flush_interval \in Nat /\ <<>> \in Seq([number : Nat, source : Sources])
      BY DEF Settings
    <3> QED  BY <3>1 DEF Flushed, Output!TxPorts
  <2> QED  BY <2>1, BatchConstants
<1>5. Cleared(out, {p}, ctx_now).cache[p] = Flushed(ctx_now)
  BY DEF Cleared
<1> QED  BY <1>2, <1>3, <1>4, <1>5

LEMMA RoomMade ==
  ASSUME Output!BatchAssumption, Settings, NEW out, OutSound(out), NEW p \in Ports,
         out.cache[p] # None, NEW packets \in Received
  PROVE  \E room \in {out, Cleared(out, {p}, ctx_now)} :
           /\ HasRoom(room, p, packets)
           /\ Output!dp_execute_output_action(out, p, packets) = Added(room, p, packets)
<1> DEFINE flushIf(cond, o) ==
             IF cond THEN Output!dp_netdev_pmd_flush_output_on_port(o, p, ctx_now) ELSE o
           queued(o) == o.cache[p].output_pkts
           source(o) ==
             flushIf(queued(o) # <<>> /\ packets.source # Head(queued(o)).source, o)
           burst(o) == flushIf(Len(queued(o)) + packets.n > NETDEV_MAX_BURST, o)
           room == burst(source(out))
           clear == Cleared(out, {p}, ctx_now)
<1>1. Output!dp_execute_output_action(out, p, packets) = Added(room, p, packets)
  BY DEF Output!dp_execute_output_action, Added, Fresh
<1>2. /\ packets.n \in Nat \ {0} /\ packets.n <= NETDEV_MAX_BURST
      /\ NETDEV_MAX_BURST \in Nat
  BY BatchConstants DEF Received
<1>3. out \in OutTypes /\ PortSound(out, p)
  BY DEF OutSound
<1>4. Len(QueueOf(out, p)) \in Nat /\ QueueOf(out, p) \in Seq([number : Nat, source : Sources])
      /\ DOMAIN QueueOf(out, p) = 1 .. Len(QueueOf(out, p))
  BY <1>3, QueueType
<1>5. queued(out) = QueueOf(out, p)
  BY DEF QueueOf
<1>6. ASSUME QueueOf(out, p) # <<>>
      PROVE  /\ Output!dp_netdev_pmd_flush_output_on_port(out, p, ctx_now) = clear
             /\ HasRoom(clear, p, packets) /\ queued(clear) = <<>>
  <2>1. /\ Output!dp_netdev_pmd_flush_output_on_port(out, p, ctx_now) = clear
        /\ OutSound(clear) /\ clear.cache[p] # None /\ QueueOf(clear, p) = <<>>
    BY <1>6, OneFlushed
  <2> HIDE DEF clear
  <2>2. queued(clear) = <<>>
    BY <2>1 DEF QueueOf
  <2>3. Len(<<>>) = 0 /\ DOMAIN <<>> = {}
    OBVIOUS
  <2> QED  BY <2>1, <2>2, <2>3, <1>2 DEF HasRoom
<1> HIDE DEF clear
<1>7. CASE queued(out) # <<>> /\ packets.source # Head(queued(out)).source
  <2>1. source(out) = clear
    BY <1>5, <1>6, <1>7
  <2>2. room = clear
    <3>1. Len(queued(clear)) = 0
      BY <1>5, <1>6, <1>7
    <3>2. burst(clear) = clear
      BY <3>1, <1>2
    <3> QED  BY <2>1, <3>2
  <2> QED  BY <1>1, <1>5, <1>6, <1>7, <2>2 DEF clear
<1>8. CASE ~(queued(out) # <<>> /\ packets.source # Head(queued(out)).source)
  <2>1. source(out) = out
    BY <1>8
  <2>2. CASE Len(queued(out)) + packets.n > NETDEV_MAX_BURST
    <3>1. QueueOf(out, p) # <<>>
      BY <1>2, <1>5, <2>2
    <3>2. room = clear
      BY <2>1, <2>2, <3>1, <1>6
    <3> QED  BY <1>1, <1>6, <3>1, <3>2 DEF clear
  <2>3. CASE ~(Len(queued(out)) + packets.n > NETDEV_MAX_BURST)
    <3>1. room = out
      BY <2>1, <2>3
    <3>2. Len(QueueOf(out, p)) + packets.n <= NETDEV_MAX_BURST
      BY <1>2, <1>4, <1>5, <2>3
    <3>3. \A i \in DOMAIN QueueOf(out, p) : QueueOf(out, p)[i].source = packets.source
      <4> TAKE i \in DOMAIN QueueOf(out, p)
      <4>1. 1 \in DOMAIN QueueOf(out, p) /\ QueueOf(out, p) # <<>>
        BY <1>4
      <4>2. Head(QueueOf(out, p)) = QueueOf(out, p)[1]
        BY <4>1, <1>4
      <4>3. QueueOf(out, p)[i].source = QueueOf(out, p)[1].source
        BY <4>1, <1>3 DEF PortSound
      <4> QED  BY <1>5, <1>8, <4>1, <4>2, <4>3
    <3> QED  BY <1>1, <3>1, <3>2, <3>3 DEF HasRoom
  <2> QED  BY <2>2, <2>3
<1> QED  BY <1>7, <1>8

LEMMA AddedSound ==
  ASSUME Output!BatchAssumption, NEW room, NEW p \in Ports, NEW packets \in Received,
         HasRoom(room, p, packets)
  PROVE  /\ OutSound(Added(room, p, packets))
         /\ \A q \in Ports :
              /\ Added(room, p, packets).cache[q] # None => room.cache[q] # None
              /\ Added(room, p, packets).cache[q] # None =>
                   Added(room, p, packets).cache[q].flush_time = room.cache[q].flush_time
<1> DEFINE new   == Added(room, p, packets)
           pkts  == QueueOf(room, p)
           fresh == Fresh(room, p, packets)
           a == room.cache  b == room.n  c == room.given  d == room.sent
           a1 == [a EXCEPT ![p].output_pkts = @ \o fresh]
           b1 == IF a[p].output_pkts = <<>> THEN b + 1 ELSE b
           c1 == [c EXCEPT ![p] = @ + packets.n]
<1>1. room \in OutTypes /\ OutSound(room) /\ PortSound(room, p) /\ a[p] # None
  BY DEF HasRoom, OutSound
<1>2. new = [cache |-> a1, n |-> b1, given |-> c1, sent |-> d]
  <2>1. room = [cache |-> a, n |-> b, given |-> c, sent |-> d]
    BY <1>1 DEF OutTypes
  <2> DEFINE r1 == [cache |-> a, n |-> b1, given |-> c, sent |-> d]
             r2 == [cache |-> a1, n |-> b1, given |-> c, sent |-> d]
  <2>2. [room EXCEPT !.n = IF room.cache[p].output_pkts = <<>> THEN @ + 1 ELSE @] = r1
    <3> HIDE DEF fresh
    <3> QED  BY <2>1
  <2>3. [r1 EXCEPT !.cache[p].output_pkts = @ \o fresh] = r2
    <3> HIDE DEF fresh, b1
    <3>1. r1.cache = a
      OBVIOUS
    <3>2. [r1 EXCEPT !.cache[p].output_pkts = @ \o fresh] = [r1 EXCEPT !.cache = a1]
      <4> HIDE DEF r1, a
      <4> QED  BY <3>1
    <3>3. [r1 EXCEPT !.cache = a1] = r2
      <4> HIDE DEF a1
      <4> QED  OBVIOUS
    <3> QED  BY <3>2, <3>3
  <2>4. [r2 EXCEPT !.given[p] = @ + packets.n] = [cache |-> a1, n |-> b1, given |-> c1, sent |-> d]
    <3> HIDE DEF fresh, b1, a1
    <3> QED  OBVIOUS
  <2>5. new = [[[room EXCEPT !.n = IF room.cache[p].output_pkts = <<>> THEN @ + 1 ELSE @]
                  EXCEPT !.cache[p].output_pkts = @ \o fresh]
                  EXCEPT !.given[p] = @ + packets.n]
    <3> HIDE DEF fresh
    <3> QED  BY <2>1 DEF Added, fresh
  <2> HIDE DEF r1, r2, new, a1, b1, c1, fresh
  <2> QED  BY <2>2, <2>3, <2>4, <2>5
<1> HIDE DEF new
<1>3. /\ packets.n \in Nat \ {0} /\ packets.source \in Sources
      /\ NETDEV_MAX_BURST \in Nat
  BY BatchConstants DEF Received
<1>4. /\ c[p] \in Nat /\ d[p] \in Nat /\ pkts \in Seq([number : Nat, source : Sources])
      /\ Len(pkts) \in Nat /\ DOMAIN pkts = 1 .. Len(pkts) /\ b \in Int
  BY <1>1, QueueType
<1>5. a[p].output_pkts = pkts /\ a[p] \in Output!TxPorts
  <2>1. a[p] \in Output!TxPorts \cup {None}
    BY <1>1 DEF OutTypes
  <2> QED  BY <2>1, <1>1 DEF QueueOf
<1>6. fresh \in Seq([number : Nat, source : Sources]) /\ Len(fresh) = packets.n
      /\ \A i \in 1 .. packets.n : fresh[i] = [number |-> c[p] + i - 1, source |-> packets.source]
  <2>1. \A i \in 1 .. packets.n :
          [number |-> c[p] + i - 1, source |-> packets.source] \in [number : Nat, source : Sources]
    BY <1>3, <1>4
  <2>2. /\ fresh \in [1 .. packets.n -> [number : Nat, source : Sources]]
        /\ \A i \in 1 .. packets.n :
             fresh[i] = [number |-> c[p] + i - 1, source |-> packets.source]
    BY <2>1 DEF Fresh
  <2> HIDE DEF fresh
  <2>3. fresh \in Seq([number : Nat, source : Sources])
    BY <2>2, <1>3, SeqDef
  <2>4. Len(fresh) = packets.n
    BY <2>2, <2>3, <1>3, LenProperties
  <2> QED  BY <2>2, <2>3, <2>4
<1> DEFINE all == pkts \o fresh
<1> HIDE DEF fresh, pkts
<1>7. /\ all \in Seq([number : Nat, source : Sources]) /\ Len(all) = Len(pkts) + packets.n
      /\ DOMAIN all = 1 .. Len(pkts) + packets.n
      /\ \A i \in 1 .. Len(pkts) : all[i] = pkts[i]
      /\ \A i \in 1 .. packets.n : all[Len(pkts) + i] = fresh[i]
  <2>1. all \in Seq([number : Nat, source : Sources])
    BY <1>4, <1>6, ConcatProperties
  <2>2. /\ Len(all) = Len(pkts) + packets.n
        /\ \A i \in 1 .. Len(pkts) : all[i] = pkts[i]
        /\ \A i \in Len(pkts) + 1 .. Len(pkts) + packets.n : all[i] = fresh[i - Len(pkts)]
    BY <1>4, <1>6, ConcatProperties
  <2>3. \A i \in 1 .. packets.n : Len(pkts) + i \in Len(pkts) + 1 .. Len(pkts) + packets.n
          /\ (Len(pkts) + i) - Len(pkts) = i
    BY <1>3, <1>4
  <2>4. \A i \in 1 .. packets.n : all[Len(pkts) + i] = fresh[i]
    BY <2>2, <2>3
  <2> HIDE DEF all
  <2> QED  BY <2>1, <2>2, <2>4, LenProperties
<1>8. a1[p] = [output_pkts |-> all, flush_time |-> a[p].flush_time] /\ a1[p] \in Output!TxPorts
  <2>1. a[p].flush_time \in Nat /\ a[p] = [output_pkts |-> pkts, flush_time |-> a[p].flush_time]
    BY <1>5 DEF Output!TxPorts
  <2>2. a1[p] = [output_pkts |-> all, flush_time |-> a[p].flush_time]
    <3>1. a1[p] = [a[p] EXCEPT !.output_pkts = @ \o fresh]
      BY <1>1 DEF OutTypes
    <3>2. ASSUME NEW f, NEW r, r = [output_pkts |-> pkts, flush_time |-> f]
          PROVE  [r EXCEPT !.output_pkts = @ \o fresh] = [output_pkts |-> all, flush_time |-> f]
      <4>1. [r EXCEPT !.output_pkts = @ \o fresh] = [r EXCEPT !.output_pkts = all]
        BY <3>2
      <4> HIDE DEF all
      <4>2. [r EXCEPT !.output_pkts = all] = [output_pkts |-> all, flush_time |-> f]
        BY <3>2
      <4> QED  BY <4>1, <4>2
    <3> HIDE DEF all, a1
    <3> QED  BY <2>1, <3>1, <3>2
  <2> HIDE DEF all
  <2> QED  BY <2>1, <2>2, <1>7 DEF Output!TxPorts
<1> HIDE DEF all
<1>9. \A q \in Ports : q # p => a1[q] = a[q]
  BY <1>1 DEF OutTypes
<1>10. a1 \in [Ports -> Output!TxPorts \cup {None}] /\ c1 \in [Ports -> Nat]
       /\ d \in [Ports -> Nat] /\ b1 \in Int /\ c1[p] = c[p] + packets.n
       /\ \A q \in Ports : q # p => c1[q] = c[q]
  <2>1. a \in [Ports -> Output!TxPorts \cup {None}] /\ c \in [Ports -> Nat] /\ d \in [Ports -> Nat]
    BY <1>1 DEF OutTypes
  <2>2. DOMAIN a1 = Ports /\ a1 = [q \in Ports |-> a1[q]]
    BY <2>1
  <2>3. a1 \in [Ports -> Output!TxPorts \cup {None}]
    <3> HIDE DEF a1
    <3> QED  BY <2>1, <2>2, <1>8, <1>9
  <2> QED  BY <2>1, <2>3, <1>3, <1>4
<1> HIDE DEF a1, c1
<1>11. new \in OutTypes
  BY <1>2, <1>10 DEF OutTypes
<1>12. QueueOf(new, p) = all /\ \A q \in Ports : q # p => QueueOf(new, q) = QueueOf(room, q)
  <2>1. a1[p] # None
    BY <1>8, BatchConstants
  <2> QED  BY <2>1, <1>2, <1>8, <1>9 DEF QueueOf
<1>13. PortSound(new, p)
  <2>1. /\ c[p] = d[p] + Len(pkts)
        /\ \A i \in 1 .. Len(pkts) : pkts[i].number = d[p] + i - 1
        /\ Len(pkts) + packets.n <= NETDEV_MAX_BURST
        /\ \A i \in 1 .. Len(pkts) : pkts[i].source = packets.source
    BY <1>1, <1>4 DEF PortSound, HasRoom, pkts
  <2>2. ASSUME NEW i \in 1 .. Len(pkts) + packets.n
        PROVE  all[i].number = d[p] + i - 1 /\ all[i].source = packets.source
    <3>1. CASE i \in 1 .. Len(pkts)
      BY <3>1, <1>7, <2>1
    <3>2. CASE i \notin 1 .. Len(pkts)
      <4>1. i - Len(pkts) \in 1 .. packets.n /\ Len(pkts) + (i - Len(pkts)) = i
        BY <3>2, <1>3, <1>4
      <4>2. all[i] = fresh[i - Len(pkts)]
        BY <4>1, <1>7
      <4>3. all[i] = [number |-> c[p] + (i - Len(pkts)) - 1, source |-> packets.source]
        BY <4>1, <4>2, <1>6
      <4> QED  BY <4>3, <2>1, <1>3, <1>4
    <3> QED  BY <3>1, <3>2
  <2>3. new.given[p] = c[p] + packets.n /\ new.sent[p] = d[p]
    BY <1>2, <1>10
  <2>4. new.given[p] = new.sent[p] + Len(all)
    <3>1. c[p] = d[p] + Len(pkts) /\ Len(all) = Len(pkts) + packets.n
      BY <2>1, <1>7
    <3>2. c[p] \in Nat /\ d[p] \in Nat /\ Len(pkts) \in Nat /\ packets.n \in Nat
      BY <1>3, <1>4
    <3> HIDE DEF c, d
    <3> QED  BY <2>3, <3>1, <3>2
  <2> QED  BY <2>1, <2>2, <2>3, <2>4, <1>7, <1>12 DEF PortSound
<1>14. ASSUME NEW q \in Ports PROVE PortSound(new, q)
  <2>1. CASE q = p
    BY <2>1, <1>13
  <2>2. CASE q # p
    <3>1. PortSound(room, q)
      BY <1>1 DEF OutSound
    <3>2. new.given[q] = c[q] /\ new.sent[q] = d[q] /\ QueueOf(new, q) = QueueOf(room, q)
      BY <2>2, <1>2, <1>10, <1>12
    <3> QED  BY <3>1, <3>2 DEF PortSound
  <2> QED  BY <2>1, <2>2
<1>15. new.n = Cardinality(WithPackets(new))
  <2>1. all # <<>>
    <3>1. Len(all) # 0
      BY <1>3, <1>4, <1>7
    <3> QED  BY <3>1
  <2>2. WithPackets(new) = WithPackets(room) \cup {p}
    BY <2>1, <1>12 DEF WithPackets
  <2>3. IsFiniteSet(WithPackets(room)) /\ b = Cardinality(WithPackets(room))
    <3>1. WithPackets(room) \in SUBSET Ports
      BY DEF WithPackets
    <3> QED  BY <3>1, <1>1, BatchConstants, FS_Subset DEF OutSound
  <2>4. Cardinality(WithPackets(room) \cup {p}) =
          IF p \in WithPackets(room) THEN b ELSE b + 1
    BY <2>3, FS_AddElement
  <2>5. p \in WithPackets(room) <=> a[p].output_pkts # <<>>
    BY <1>5 DEF WithPackets, pkts
  <2> QED  BY <2>2, <2>4, <2>5, <1>2
<1>16. ASSUME NEW q \in Ports, new.cache[q] # None
       PROVE  room.cache[q] # None /\ new.cache[q].flush_time = room.cache[q].flush_time
  <2>1. CASE q = p
    BY <2>1, <1>1, <1>2, <1>8
  <2>2. CASE q # p
    BY <2>2, <1>2, <1>9, <1>16
  <2> QED  BY <2>1, <2>2
<1> QED  BY <1>11, <1>14, <1>15, <1>16 DEF OutSound, new

LEMMA Executed ==
  ASSUME Output!BatchAssumption, Settings, NEW out, OutSound(out), NEW p \in Ports,
         NEW packets \in Received
  PROVE  LET new == Output!dp_execute_output_action(out, p, packets) IN
         /\ OutSound(new)
         /\ \A q \in Ports : new.cache[q] # None =>
              /\ out.cache[q] # None
              /\ new.cache[q].flush_time \in {out.cache[q].flush_time, ctx_now + tx_flush_interval}
<1> DEFINE new == Output!dp_execute_output_action(out, p, packets)
           clear == Cleared(out, {p}, ctx_now)
<1>1. CASE out.cache[p] = None
  BY <1>1 DEF Output!dp_execute_output_action
<1>2. CASE out.cache[p] # None
  <2>1. PICK room \in {out, clear} : HasRoom(room, p, packets) /\ new = Added(room, p, packets)
    BY <1>2, RoomMade
  <2>2. \A q \in Ports : room.cache[q] # None =>
          /\ out.cache[q] # None
          /\ room.cache[q].flush_time \in {out.cache[q].flush_time, ctx_now + tx_flush_interval}
    BY <1>2, <2>1 DEF Cleared, Flushed
  <2> HIDE DEF new, clear
  <2>3. OutSound(new)
    BY <2>1, AddedSound
  <2>4. \A q \in Ports :
          /\ new.cache[q] # None => room.cache[q] # None
          /\ new.cache[q] # None => new.cache[q].flush_time = room.cache[q].flush_time
    BY <2>1, AddedSound
  <2> QED  BY <2>2, <2>3, <2>4 DEF new
<1> QED  BY <1>1, <1>2

-----------------------------------------------------------------------------
(* No port is flushed later than the longest interval from now, and while  *)
(* the thread is idle nothing is left that is due.                         *)
InTime(cache, now) ==
  \A p \in Ports : cache[p] # None => \E t \in Intervals : cache[p].flush_time <= now + t

NotDue(cache, now) ==
  \A p \in Ports : cache[p] # None /\ cache[p].output_pkts # <<>> => cache[p].flush_time > now

OutputInv ==
  /\ ctx_now \in Nat /\ tx_flush_interval \in Intervals
  /\ tx_bond \in [Buckets -> Ports] \cup {None}
  /\ OutSound(Output!Out) /\ InTime(send_port_cache, ctx_now)
  /\ tx_pc = "idle" => NotDue(send_port_cache, ctx_now)
  /\ tx_pc # "idle" => batch \in Received
  /\ bonding # None => tx_pc # "idle" /\ bonding.members \in [Buckets -> Ports]

LEMMA NewPortType ==
  ASSUME Output!BatchAssumption
  PROVE  /\ Output!NewPort \in Output!TxPorts /\ Output!NewPort # None
         /\ Output!NewPort.output_pkts = <<>> /\ Output!NewPort.flush_time = 0
<1>1. <<>> \in Seq([number : Nat, source : Sources])
  OBVIOUS
<1>2. /\ Output!NewPort = [output_pkts |-> <<>>, flush_time |-> 0]
      /\ Output!NewPort.output_pkts = <<>> /\ Output!NewPort.flush_time = 0
  BY DEF Output!NewPort
<1>3. Output!NewPort \in Output!TxPorts
  BY <1>1, <1>2 DEF Output!TxPorts
<1> QED  BY <1>2, <1>3, BatchConstants

LEMMA NoneQueued ==
  ASSUME Output!BatchAssumption, NEW out \in OutTypes, out.n = 0,
         \A p \in Ports : QueueOf(out, p) = <<>> /\ out.given[p] = out.sent[p]
  PROVE  OutSound(out)
<1>1. WithPackets(out) = {} /\ Cardinality({}) = 0
  BY FS_EmptySet DEF WithPackets
<1>2. ASSUME NEW p \in Ports PROVE PortSound(out, p)
  <2>1. Len(<<>>) = 0 /\ DOMAIN <<>> = {}
    OBVIOUS
  <2>2. out.given[p] \in Nat /\ out.sent[p] \in Nat
    BY DEF OutTypes
  <2> QED  BY <2>1, <2>2, BatchConstants DEF PortSound
<1> QED  BY <1>1, <1>2 DEF OutSound

LEMMA OutputInit ==
  ASSUME Output!BatchAssumption, Output!Init
  PROVE  OutputInv
<1> USE DEF Output!Init
<1>1. /\ Output!NewPort \in Output!TxPorts /\ Output!NewPort # None
      /\ Output!NewPort.output_pkts = <<>> /\ Output!NewPort.flush_time = 0
  BY NewPortType
<1>2. OutSound(Output!Out) /\ NotDue(send_port_cache, ctx_now)
  BY <1>1, NoneQueued DEF Output!Out, OutTypes, QueueOf, NotDue
<1>3. InTime(send_port_cache, ctx_now)
  <2>1. tx_flush_interval \in Nat /\ 0 <= ctx_now + tx_flush_interval
    BY BatchConstants
  <2> QED  BY <1>1, <2>1 DEF InTime
<1> QED  BY <1>2, <1>3 DEF OutputInv

LEMMA OutIs ==
  ASSUME NEW out, OutSound(out), Output!Becomes(out)
  PROVE  Output!Out' = out /\ send_port_cache' = out.cache
<1>1. out = [cache |-> out.cache, n |-> out.n, given |-> out.given, sent |-> out.sent]
  BY DEF OutSound, OutTypes
<1>2. Output!Out' = [cache |-> send_port_cache', n |-> n_output_batches', given |-> given', sent |-> sent']
  BY DEF Output!Out
<1> QED  BY <1>1, <1>2 DEF Output!Becomes

LEMMA LaterInTime ==
  ASSUME Output!BatchAssumption, NEW out, OutSound(out), NEW now \in Nat, NEW later \in Nat,
         later >= now, InTime(out.cache, now)
  PROVE  InTime(out.cache, later)
<1> SUFFICES ASSUME NEW p \in Ports, out.cache[p] # None
             PROVE  \E t \in Intervals : out.cache[p].flush_time <= later + t
  BY DEF InTime
<1>1. PICK t \in Intervals : out.cache[p].flush_time <= now + t
  BY DEF InTime
<1>2. t \in Nat
  BY BatchConstants
<1>3. out.cache[p].flush_time \in Nat
  BY DEF OutSound, OutTypes, Output!TxPorts
<1> QED  BY <1>1, <1>2, <1>3

(* What is due is flushed, in a pass that ends or finds nothing to do.     *)
LEMMA FlushSound ==
  ASSUME Output!BatchAssumption, NEW out, OutSound(out), NEW now \in Nat, Settings,
         tx_flush_interval \in Intervals, InTime(out.cache, now), NEW force
  PROVE  LET new == Output!dp_netdev_pmd_flush_output_packets(out, force, now) IN
         OutSound(new) /\ InTime(new.cache, now) /\ NotDue(new.cache, now)
         /\ (force => WithPackets(new) = {})
<1> DEFINE D == Output!Due(out, force, now)
           new == Cleared(out, D, now)
<1>1. D \in SUBSET WithPackets(out)
      /\ Output!dp_netdev_pmd_flush_output_packets(out, force, now) = new
  BY PacketsFlushed
<1>2. /\ OutSound(new)
      /\ \A p \in Ports : QueueOf(new, p) = IF p \in D THEN <<>> ELSE QueueOf(out, p)
      /\ \A p \in D : out.cache[p] # None
  BY <1>1, ClearedSound
<1>3. \A p \in Ports : new.cache[p] = IF p \in D THEN Flushed(now) ELSE out.cache[p]
  BY DEF Cleared
<1>4. Flushed(now).flush_time = now + tx_flush_interval /\ Flushed(now).output_pkts = <<>>
  BY DEF Flushed
<1>5. InTime(new.cache, now)
  <2> SUFFICES ASSUME NEW p \in Ports, new.cache[p] # None
               PROVE  \E t \in Intervals : new.cache[p].flush_time <= now + t
    BY DEF InTime
  <2>1. CASE p \in D
    <3>1. new.cache[p].flush_time = now + tx_flush_interval /\ tx_flush_interval \in Nat
      BY <2>1, <1>3, <1>4 DEF Settings
    <3>2. new.cache[p].flush_time <= now + tx_flush_interval
      BY <3>1
    <3> QED  BY <3>2
  <2>2. CASE p \notin D
    BY <2>2, <1>3 DEF InTime
  <2> QED  BY <2>1, <2>2
<1>6. NotDue(new.cache, now)
  <2> SUFFICES ASSUME NEW p \in Ports, new.cache[p] # None, new.cache[p].output_pkts # <<>>
               PROVE  new.cache[p].flush_time > now
    BY DEF NotDue
  <2>1. p \notin D /\ new.cache[p] = out.cache[p]
    BY <1>3, <1>4
  <2>2. ~(now >= out.cache[p].flush_time)
    BY <2>1 DEF Output!Due
  <2>3. out.cache[p].flush_time \in Nat
    BY <2>1 DEF OutSound, OutTypes, Output!TxPorts
  <2> QED  BY <2>1, <2>2, <2>3
<1>7. ASSUME force PROVE WithPackets(new) = {}
  <2>1. D = WithPackets(out)
    BY <1>7 DEF Output!Due, WithPackets, QueueOf
  <2> HIDE DEF D, new
  <2>2. \A p \in Ports : QueueOf(new, p) = <<>>
    BY <2>1, <1>2 DEF WithPackets
  <2> QED  BY <2>2 DEF WithPackets
<1> QED  BY <1>1, <1>2, <1>5, <1>6, <1>7

-----------------------------------------------------------------------------
LEMMA MainKeeps ==
  ASSUME Output!BatchAssumption, OutputInv, Output!MainStep
  PROVE  OutputInv'
<1>1. /\ UNCHANGED <<ctx_now, tx_pc, batch, outputs, bonding>>
      /\ UNCHANGED <<send_port_cache, n_output_batches, given, sent>>
  BY DEF Output!MainStep, Output!SetFlushInterval, Output!ChangePorts,
     Output!dp_netdev_add_bond_tx_to_pmd, Output!dp_netdev_del_bond_tx_from_pmd,
     Output!work, Output!ports
<1>2. tx_flush_interval' \in Intervals /\ tx_bond' \in [Buckets -> Ports] \cup {None}
  BY DEF OutputInv, Output!MainStep, Output!SetFlushInterval, Output!ChangePorts,
     Output!dp_netdev_add_bond_tx_to_pmd, Output!dp_netdev_del_bond_tx_from_pmd
<1>3. Output!Out' = Output!Out
  BY <1>1 DEF Output!Out
<1>4. OutSound(Output!Out)' = OutSound(Output!Out)
  BY <1>3 DEF OutSound, PortSound, QueueOf, WithPackets
<1> QED  BY <1>1, <1>2, <1>4 DEF OutputInv, InTime, NotDue

LEMMA Known ==
  ASSUME Output!BatchAssumption, OutputInv
  PROVE  Settings /\ Output!Out.cache = send_port_cache
BY BatchConstants DEF OutputInv, Settings, Output!Out

(* A step that puts the ports in a state that is sound.                    *)
LEMMA NewOut ==
  ASSUME Output!BatchAssumption, OutputInv, NEW out, OutSound(out), Output!Becomes(out)
  PROVE  OutSound(Output!Out)' /\ send_port_cache' = out.cache
<1>1. Output!Out' = out /\ send_port_cache' = out.cache
  BY OutIs
<1> QED  BY <1>1 DEF OutSound, PortSound, QueueOf, WithPackets

LEMMA ReceiveKeeps ==
  ASSUME Output!BatchAssumption, OutputInv, NEW next \in {"input", "execute"}, Output!Receive(next)
  PROVE  OutputInv'
<1> USE DEF Output!Receive, Output!pmd_thread_ctx_time_update
<1>1. ctx_now' \in Nat /\ ctx_now' >= ctx_now
  BY BatchConstants DEF OutputInv
<1>2. batch' \in Received
  <2>1. 1 .. (IF next = "execute" THEN 1 ELSE NETDEV_MAX_BURST) \subseteq 1 .. NETDEV_MAX_BURST
    BY BatchConstants
  <2>2. batch' \in [n : 1 .. (IF next = "execute" THEN 1 ELSE NETDEV_MAX_BURST), source : Sources]
    OBVIOUS
  <2> QED  BY <2>1, <2>2 DEF Received
<1>3. UNCHANGED <<send_port_cache, n_output_batches, given, sent, tx_flush_interval, tx_bond, bonding>>
  BY DEF Output!main, Output!ports
<1>4. Output!Out' = Output!Out
  BY <1>3 DEF Output!Out
<1>5. OutSound(Output!Out)'
  BY <1>4 DEF OutputInv, OutSound, PortSound, QueueOf, WithPackets
<1>6. InTime(send_port_cache, ctx_now)'
  <2>1. InTime(Output!Out.cache, ctx_now')
    BY <1>1, Known, LaterInTime DEF OutputInv
  <2> QED  BY <2>1, <1>3, Known DEF InTime
<1>7. tx_pc' # "idle"
  OBVIOUS
<1> QED  BY <1>1, <1>2, <1>3, <1>5, <1>6, <1>7 DEF OutputInv

(* While it works on a batch, the thread adds packets to ports.            *)
LEMMA OutputsKeep ==
  ASSUME Output!BatchAssumption, OutputInv, tx_pc # "idle", NEW p \in Ports, NEW packets \in Received,
         Output!Becomes(Output!dp_execute_output_action(Output!Out, p, packets)),
         UNCHANGED <<ctx_now, tx_flush_interval, tx_bond, tx_pc, batch>>,
         bonding' # None => bonding' .members \in [Buckets -> Ports]
  PROVE  OutputInv'
<1> DEFINE out == Output!Out
           new == Output!dp_execute_output_action(out, p, packets)
<1>1. OutSound(out) /\ Settings /\ out.cache = send_port_cache
      /\ tx_flush_interval \in Intervals /\ InTime(send_port_cache, ctx_now)
  BY Known DEF OutputInv
<1> HIDE DEF out
<1>2. /\ OutSound(new)
      /\ \A q \in Ports : new.cache[q] # None =>
           /\ out.cache[q] # None
           /\ new.cache[q].flush_time \in {out.cache[q].flush_time, ctx_now + tx_flush_interval}
  BY <1>1, Executed
<1>3. Output!Becomes(new)
  BY DEF out
<1> HIDE DEF new
<1>4. OutSound(Output!Out)' /\ send_port_cache' = new.cache
  BY <1>2, <1>3, NewOut
<1>5. InTime(send_port_cache, ctx_now)'
  <2>1. ASSUME NEW q \in Ports, new.cache[q] # None
        PROVE  \E t \in Intervals : new.cache[q].flush_time <= ctx_now + t
    <3>1. CASE new.cache[q].flush_time = out.cache[q].flush_time
      BY <3>1, <2>1, <1>1, <1>2 DEF InTime
    <3>2. CASE new.cache[q].flush_time = ctx_now + tx_flush_interval
      <4>1. ctx_now + tx_flush_interval <= ctx_now + tx_flush_interval
        BY <1>1 DEF Settings
      <4> QED  BY <3>2, <4>1, <1>1
    <3> QED  BY <3>1, <3>2, <2>1, <1>2
  <2> QED  BY <2>1, <1>4 DEF InTime
<1> QED  BY <1>4, <1>5 DEF OutputInv

LEMMA OutputKeeps ==
  ASSUME Output!BatchAssumption, OutputInv, NEW p \in Ports, Output!output(p)
  PROVE  OutputInv'
<1>1. /\ tx_pc # "idle" /\ batch \in Received /\ bonding = None /\ bonding' = None
      /\ Output!Becomes(Output!dp_execute_output_action(Output!Out, p, batch))
      /\ UNCHANGED <<ctx_now, tx_flush_interval, tx_bond, tx_pc, batch>>
  BY DEF Output!output, Output!Busy, Output!main, OutputInv
<1> QED  BY <1>1, OutputsKeep

LEMMA LbOutputKeeps ==
  ASSUME Output!BatchAssumption, OutputInv, Output!lb_output
  PROVE  OutputInv'
<1>1. /\ tx_pc # "idle"
      /\ UNCHANGED <<ctx_now, tx_flush_interval, tx_bond, tx_pc, batch>>
      /\ UNCHANGED <<send_port_cache, n_output_batches, given, sent>>
  BY DEF Output!lb_output, Output!Busy, Output!main, Output!ports
<1>2. bonding' # None => bonding' .members \in [Buckets -> Ports]
  BY DEF Output!lb_output, OutputInv
<1>3. Output!Out' = Output!Out
  BY <1>1 DEF Output!Out
<1>4. OutSound(Output!Out)'
  BY <1>3 DEF OutputInv, OutSound, PortSound, QueueOf, WithPackets
<1> QED  BY <1>1, <1>2, <1>4 DEF OutputInv, InTime, NotDue

LEMMA LbPacketKeeps ==
  ASSUME Output!BatchAssumption, OutputInv, Output!lb_output_packet
  PROVE  OutputInv'
<1>1. PICK b \in Buckets :
        Output!Becomes(Output!dp_execute_output_action(Output!Out, bonding.members[b],
                                                       [batch EXCEPT !.n = 1]))
  BY DEF Output!lb_output_packet
<1>2. /\ tx_pc # "idle" /\ batch \in Received /\ bonding.members \in [Buckets -> Ports]
      /\ UNCHANGED <<ctx_now, tx_flush_interval, tx_bond, tx_pc, batch>>
  BY DEF Output!lb_output_packet, Output!main, OutputInv
<1>3. [batch EXCEPT !.n = 1] \in Received /\ bonding.members[b] \in Ports
  <2>1. batch = [n |-> batch.n, source |-> batch.source] /\ batch.source \in Sources
    BY <1>2 DEF Received
  <2>2. [batch EXCEPT !.n = 1] = [n |-> 1, source |-> batch.source]
    BY <2>1
  <2>3. 1 \in 1 .. NETDEV_MAX_BURST
    BY BatchConstants
  <2> QED  BY <2>1, <2>2, <2>3, <1>2 DEF Received
<1>4. bonding' # None => bonding' .members \in [Buckets -> Ports]
  <2>1. ASSUME bonding' # None PROVE bonding' = [bonding EXCEPT !.left = @ - 1]
    BY <2>1 DEF Output!lb_output_packet
  <2>2. [bonding EXCEPT !.left = @ - 1].members = bonding.members
    OBVIOUS
  <2> QED  BY <2>1, <2>2, <1>2
<1> QED  BY <1>1, <1>2, <1>3, <1>4, OutputsKeep

LEMMA FlushesKeep ==
  ASSUME Output!BatchAssumption, OutputInv, NEW force,
         ctx_now' \in Nat, ctx_now' >= ctx_now,
         Output!Becomes(Output!dp_netdev_pmd_flush_output_packets(Output!Out, force, ctx_now')),
         UNCHANGED <<tx_flush_interval, tx_bond>>, tx_pc' = "idle", bonding' = None
  PROVE  OutputInv'
<1> DEFINE out == Output!Out
           new == Output!dp_netdev_pmd_flush_output_packets(out, force, ctx_now')
<1>1. OutSound(out) /\ Settings /\ tx_flush_interval \in Intervals /\ InTime(out.cache, ctx_now')
  BY Known, LaterInTime DEF OutputInv, Settings
<1> HIDE DEF out
<1>2. OutSound(new) /\ InTime(new.cache, ctx_now') /\ NotDue(new.cache, ctx_now')
  BY <1>1, FlushSound
<1>3. Output!Becomes(new)
  BY DEF out
<1> HIDE DEF new
<1>4. OutSound(Output!Out)' /\ send_port_cache' = new.cache
  BY <1>2, <1>3, NewOut
<1>5. InTime(send_port_cache, ctx_now)' /\ NotDue(send_port_cache, ctx_now)'
  BY <1>2, <1>4 DEF InTime, NotDue
<1> QED  BY <1>4, <1>5 DEF OutputInv

LEMMA DoneKeeps ==
  ASSUME Output!BatchAssumption, OutputInv, Output!Done
  PROVE  OutputInv'
<1>1. /\ UNCHANGED <<ctx_now, tx_flush_interval, tx_bond>> /\ tx_pc' = "idle" /\ bonding' = None
      /\ ctx_now' \in Nat /\ ctx_now' >= ctx_now
  BY DEF Output!Done, Output!main, OutputInv
<1>2. Output!Becomes(Output!dp_netdev_pmd_flush_output_packets(Output!Out, tx_pc = "execute", ctx_now'))
  BY <1>1 DEF Output!Done
<1> QED  BY <1>1, <1>2, FlushesKeep

LEMMA NothingKeeps ==
  ASSUME Output!BatchAssumption, OutputInv, Output!NothingReceived
  PROVE  OutputInv'
<1>1. /\ UNCHANGED <<tx_flush_interval, tx_bond>> /\ tx_pc' = "idle" /\ bonding' = None
      /\ ctx_now' \in Nat /\ ctx_now' >= ctx_now
  BY BatchConstants DEF Output!NothingReceived, Output!pmd_thread_ctx_time_update,
     Output!main, Output!work, OutputInv
<1>2. Output!Becomes(Output!dp_netdev_pmd_flush_output_packets(Output!Out, FALSE, ctx_now'))
  BY DEF Output!NothingReceived
<1> QED  BY <1>1, <1>2, FlushesKeep

LEMMA LoadKeeps ==
  ASSUME Output!BatchAssumption, OutputInv, Output!pmd_load_cached_ports
  PROVE  OutputInv'
<1> DEFINE out == Output!Out
           flushed == Output!dp_netdev_pmd_flush_output_packets(out, TRUE, ctx_now)
           cache == [p \in Ports |-> IF p \in tx_ports THEN Output!NewPort ELSE None]
           new == [flushed EXCEPT !.cache = cache]
<1>1. OutSound(out) /\ Settings /\ tx_flush_interval \in Intervals /\ InTime(out.cache, ctx_now)
      /\ ctx_now \in Nat
  BY Known DEF OutputInv, Settings
<1>2. /\ UNCHANGED <<ctx_now, tx_flush_interval, tx_bond, tx_pc, bonding>> /\ tx_pc = "idle"
      /\ Output!Becomes(new)
  BY DEF Output!pmd_load_cached_ports, Output!main, Output!work
<1> HIDE DEF out
<1>3. OutSound(flushed) /\ WithPackets(flushed) = {}
  BY <1>1, FlushSound
<1> HIDE DEF flushed
<1>4. /\ Output!NewPort \in Output!TxPorts /\ Output!NewPort # None
      /\ Output!NewPort.output_pkts = <<>> /\ Output!NewPort.flush_time = 0
  BY NewPortType
<1>5. flushed \in OutTypes /\ flushed.n = 0
      /\ \A p \in Ports : QueueOf(flushed, p) = <<>> /\ flushed.given[p] = flushed.sent[p]
  <2>1. flushed \in OutTypes /\ flushed.n = Cardinality({}) /\ Cardinality({}) = 0
    BY <1>3, FS_EmptySet DEF OutSound
  <2>2. ASSUME NEW p \in Ports
        PROVE  QueueOf(flushed, p) = <<>> /\ flushed.given[p] = flushed.sent[p]
    <3>1. QueueOf(flushed, p) = <<>>
      BY <1>3 DEF WithPackets
    <3>2. flushed.given[p] = flushed.sent[p] + Len(<<>>) /\ flushed.sent[p] \in Nat
      BY <1>3, <3>1, <2>1, QueueType DEF OutSound, PortSound
    <3>3. Len(<<>>) = 0
      OBVIOUS
    <3> QED  BY <3>1, <3>2, <3>3
  <2> QED  BY <2>1, <2>2
<1>6. /\ new \in OutTypes /\ new.cache = cache /\ new.n = 0 /\ new.given = flushed.given
      /\ new.sent = flushed.sent
  <2>1. cache \in [Ports -> Output!TxPorts \cup {None}]
    BY <1>4
  <2> HIDE DEF cache
  <2> QED  BY <2>1, <1>5 DEF OutTypes
<1>7. OutSound(new)
  <2>1. \A p \in Ports : QueueOf(new, p) = <<>>
    BY <1>4, <1>6 DEF QueueOf
  <2> HIDE DEF new, cache
  <2> QED  BY <2>1, <1>5, <1>6, NoneQueued
<1>8. InTime(cache, ctx_now) /\ NotDue(cache, ctx_now)
  <2>1. 0 <= ctx_now + tx_flush_interval
    BY <1>1 DEF Settings
  <2> QED  BY <2>1, <1>1, <1>4 DEF InTime, NotDue
<1> HIDE DEF new, cache
<1>9. OutSound(Output!Out)' /\ send_port_cache' = cache
  BY <1>2, <1>6, <1>7, NewOut
<1>10. InTime(send_port_cache, ctx_now)' /\ NotDue(send_port_cache, ctx_now)'
  BY <1>2, <1>8, <1>9 DEF InTime, NotDue
<1> QED  BY <1>2, <1>9, <1>10 DEF OutputInv

LEMMA OutputNextKeeps ==
  ASSUME Output!BatchAssumption, OutputInv, [Output!Next]_(Output!vars)
  PROVE  OutputInv'
<1>1. CASE UNCHANGED (Output!vars)
  <2>1. /\ UNCHANGED <<ctx_now, tx_flush_interval, tx_bond, tx_pc, batch, bonding>>
        /\ UNCHANGED <<send_port_cache, n_output_batches, given, sent>>
    BY <1>1 DEF Output!vars, Output!main, Output!work, Output!ports
  <2>2. Output!Out' = Output!Out
    BY <2>1 DEF Output!Out
  <2>3. OutSound(Output!Out)'
    BY <2>2 DEF OutputInv, OutSound, PortSound, QueueOf, WithPackets
  <2> QED  BY <2>1, <2>3 DEF OutputInv, InTime, NotDue
<1>2. CASE Output!Receive("input") \/ Output!Receive("execute")
  BY <1>2, ReceiveKeeps
<1>3. ASSUME NEW p \in Ports, Output!output(p) PROVE OutputInv'
  BY <1>3, OutputKeeps
<1> QED  BY <1>1, <1>2, <1>3, MainKeeps, LbOutputKeeps, LbPacketKeeps, DoneKeeps,
            NothingKeeps, LoadKeeps
         DEF Output!Next, Output!PmdStep

LEMMA OutputFollows ==
  ASSUME OutputInv
  PROVE  Output!OutputOrder /\ Output!BatchesCounted /\ Output!FlushedInTime
<1> DEFINE out == Output!Out
<1>1. /\ out.cache = send_port_cache /\ out.n = n_output_batches /\ out.given = given
      /\ out.sent = sent
  BY DEF Output!Out
<1>2. \A p \in Ports : QueueOf(out, p) = Output!Queued(p)
  BY <1>1 DEF QueueOf, Output!Queued
<1>3. OutSound(out)
  BY DEF OutputInv
<1> HIDE DEF out
<1>4. Output!OutputOrder
  BY <1>1, <1>2, <1>3 DEF Output!OutputOrder, OutSound, PortSound
<1>5. Output!BatchesCounted
  <2>1. WithPackets(out) = {p \in Ports : Output!Queued(p) # <<>>}
    BY <1>2 DEF WithPackets
  <2>2. n_output_batches = Cardinality({p \in Ports : Output!Queued(p) # <<>>})
    BY <1>1, <1>3, <2>1 DEF OutSound
  <2>3. Output!Cardinality({p \in Ports : Output!Queued(p) # <<>>}) =
          Cardinality({p \in Ports : Output!Queued(p) # <<>>})
    BY DEF Output!Cardinality, Cardinality, Output!IsFiniteSet, IsFiniteSet
  <2>4. \A p \in Ports : PortSound(out, p)
    BY <1>3 DEF OutSound
  <2> QED  BY <1>2, <2>2, <2>3, <2>4 DEF Output!BatchesCounted, PortSound
<1>6. Output!FlushedInTime
  <2> SUFFICES ASSUME tx_pc = "idle", NEW p \in Ports, Output!Queued(p) # <<>>
               PROVE  /\ send_port_cache[p].flush_time > ctx_now
                      /\ \E t \in Intervals : send_port_cache[p].flush_time <= ctx_now + t
    BY DEF Output!FlushedInTime
  <2>1. send_port_cache[p] # None /\ send_port_cache[p].output_pkts # <<>>
    BY DEF Output!Queued
  <2> QED  BY <2>1 DEF OutputInv, InTime, NotDue
<1> QED  BY <1>4, <1>5, <1>6

(* A thread sends the packets a port was given in that order, none twice   *)
(* and none lost, knows how many ports have packets to send, and keeps     *)
(* none of them longer than the longest tx_flush_interval.                 *)
THEOREM OutputIsSound ==
  ASSUME Output!BatchAssumption
  PROVE  Output!Spec => [](Output!OutputOrder /\ Output!BatchesCounted /\ Output!FlushedInTime)
<1>1. Output!Init => OutputInv BY OutputInit
<1>2. OutputInv /\ [Output!Next]_(Output!vars) => OutputInv' BY OutputNextKeeps
<1>3. OutputInv => Output!OutputOrder /\ Output!BatchesCounted /\ Output!FlushedInTime
  BY OutputFollows
<1> QED  BY <1>1, <1>2, <1>3, PTL DEF Output!Spec

-----------------------------------------------------------------------------
(***************************************************************************)
(* For any number of threads, meters, bands and batches: a meter lets no   *)
(* more through than its bands allow, whatever the clocks of the threads   *)
(* that use it say, and counts what it drops.  Between any two batches     *)
(* what is left in a bucket and what was let through since make at most    *)
(* the burst and the credit for the time (BandSound).                      *)
(***************************************************************************)
Entries == [now : Nat, volume : Nat, passed : Nat]

VolumeOf(l, i, j) == SumFunctionOnSet([n \in DOMAIN l |-> l[n].volume], i .. j)
Forward(t, u) == IF u >= t THEN u - t ELSE 0
CreditOf(l, i, j) ==
  SumFunctionOnSet([n \in 2 .. Len(l) |-> Forward(l[n - 1].now, l[n].now)], i + 1 .. j)
PassedOf(l) == SumFunctionOnSet([n \in DOMAIN l |-> l[n].passed], DOMAIN l)
DroppedBy(bands) ==
  SumFunctionOnSet([b \in DOMAIN bands |-> bands[b].packet_count], DOMAIN bands)

(* What is left in a bucket, and what went through since a batch.          *)
BandSound(l, band) ==
  /\ band.bucket <= Metering!Full(band)
  /\ \A i \in DOMAIN l :
       band.bucket + VolumeOf(l, i, Len(l)) <=
         Metering!Full(band) + band.rate * CreditOf(l, i, Len(l))
  /\ \A i, j \in DOMAIN l : i <= j =>
       VolumeOf(l, i, j) <= Metering!Full(band) + band.rate * CreditOf(l, i, j)

MeterSound(meter, l) ==
  /\ l # <<>> => meter.used = l[Len(l)].now
  /\ \A b \in DOMAIN meter.bands : BandSound(l, meter.bands[b])
  /\ meter.packet_count = PassedOf(l) + DroppedBy(meter.bands)

MeterInv ==
  /\ clock \in Nat /\ pmd_now \in [Pmds -> Nat]
  /\ meters \in [Meters -> Metering!DpMeters \cup {None}]
  /\ attached \in Meters \cup {None}
  /\ using \in [Pmds -> [meter : Meters, packets : Batches] \cup {Metering!NotMetering}]
  /\ log \in [Meters -> Seq(Entries)]
  /\ attached # None => meters[attached] # None
  /\ \A p \in Pmds : using[p] # Metering!NotMetering => meters[using[p].meter] # None
  /\ \A m \in Meters :
       IF meters[m] = None THEN log[m] = <<>> ELSE MeterSound(meters[m], log[m])

-----------------------------------------------------------------------------
LEMMA MeterSums ==
  /\ \A f, S : Metering!SumFunctionOnSet(f, S) = SumFunctionOnSet(f, S)
  /\ \A f : Metering!SumFunction(f) = SumFunctionOnSet(f, DOMAIN f)
  /\ \A S : Metering!Max(S) = Max(S) /\ Metering!Min(S) = Min(S)
  /\ \A S : Metering!Cardinality(S) = Cardinality(S)
<1>1. \A f, S : Metering!SumFunctionOnSet(f, S) = SumFunctionOnSet(f, S)
  BY DEF Metering!SumFunctionOnSet, Metering!FoldFunctionOnSet,
     Metering!MapThenFoldSet,
     SumFunctionOnSet, FoldFunctionOnSet, MapThenFoldSet
<1>2. \A f : Metering!SumFunction(f) = SumFunctionOnSet(f, DOMAIN f)
  BY <1>1 DEF Metering!SumFunction
<1>3. \A S : Metering!Max(S) = Max(S) /\ Metering!Min(S) = Min(S)
  BY DEF Metering!Max, Metering!Min, Max, Min
<1>4. \A S : Metering!Cardinality(S) = Cardinality(S)
  BY DEF Metering!Cardinality, Cardinality, Metering!IsFiniteSet, IsFiniteSet
<1> QED  BY <1>1, <1>2, <1>3, <1>4

LEMMA MeterConstants ==
  ASSUME Metering!MeterAssumption
  PROVE  /\ SCALE \in Nat \ {0} /\ DELTA_VALUES \in Nat \ {0} /\ None \notin Meters /\ None \notin Metering!DpMeters
         /\ Configs \subseteq [pktps : BOOLEAN, bands : Seq([rate : Nat \ {0}, burst_size : Nat])]
         /\ Batches \subseteq Seq(Nat)
BY DEF Metering!MeterAssumption

LEMMA NoLog ==
  /\ DOMAIN <<>> = {} /\ Len(<<>>) = 0 /\ PassedOf(<<>>) = 0
<1>1. DOMAIN <<>> = {} /\ Len(<<>>) = 0
  OBVIOUS
<1> QED  BY <1>1, SumEmpty DEF PassedOf

(* What a log is after a batch.                                            *)
LEMMA LogValues ==
  ASSUME NEW l \in Seq(Entries)
  PROVE  /\ Len(l) \in Nat /\ DOMAIN l = 1 .. Len(l)
         /\ \A i \in 1 .. Len(l) : l[i].now \in Nat /\ l[i].volume \in Nat /\ l[i].passed \in Nat
         /\ \A i \in 1 .. Len(l), j \in 1 .. Len(l) :
              VolumeOf(l, i, j) \in Nat /\ CreditOf(l, i, j) \in Nat
         /\ PassedOf(l) \in Nat
<1>1. /\ Len(l) \in Nat /\ DOMAIN l = 1 .. Len(l) /\ IsFiniteSet(DOMAIN l)
      /\ \A i \in 1 .. Len(l) : l[i] \in Entries
  BY ElementOfSeq, FS_Interval, LenProperties
<1>2. \A i \in 1 .. Len(l) : l[i].now \in Nat /\ l[i].volume \in Nat /\ l[i].passed \in Nat
  BY <1>1 DEF Entries
<1>3. ASSUME NEW i \in 1 .. Len(l), NEW j \in 1 .. Len(l)
      PROVE  VolumeOf(l, i, j) \in Nat /\ CreditOf(l, i, j) \in Nat
  <2> DEFINE v == [n \in DOMAIN l |-> l[n].volume]
             c == [n \in 2 .. Len(l) |-> Forward(l[n - 1].now, l[n].now)]
  <2>1. \A n \in i .. j : v[n] \in Nat
    BY <1>1, <1>2
  <2>2. \A n \in i + 1 .. j : c[n] \in Nat
    <3> TAKE n \in i + 1 .. j
    <3>1. n \in 2 .. Len(l) /\ n \in 1 .. Len(l) /\ n - 1 \in 1 .. Len(l)
      BY <1>1
    <3>2. c[n] = Forward(l[n - 1].now, l[n].now) /\ l[n - 1].now \in Nat /\ l[n].now \in Nat
      BY <1>2, <3>1
    <3> QED  BY <3>2 DEF Forward
  <2>3. IsFiniteSet(i .. j) /\ IsFiniteSet(i + 1 .. j)
    BY FS_Interval
  <2> HIDE DEF v, c
  <2>4. SumFunctionOnSet(v, i .. j) \in Nat /\ SumFunctionOnSet(c, i + 1 .. j) \in Nat
    BY <2>1, <2>2, <2>3, SumNat
  <2> QED  BY <2>4 DEF VolumeOf, CreditOf, v, c
<1>4. PassedOf(l) \in Nat
  <2> DEFINE f == [n \in DOMAIN l |-> l[n].passed]
  <2>1. \A n \in DOMAIN l : f[n] \in Nat
    BY <1>1, <1>2
  <2> HIDE DEF f
  <2>2. SumFunctionOnSet(f, DOMAIN l) \in Nat
    BY <1>1, <2>1, SumNat
  <2> QED  BY <2>2 DEF PassedOf, f
<1> QED  BY <1>1, <1>2, <1>3, <1>4

LogGrown(l, e, k) ==
  /\ k \in Seq(Entries) /\ Len(k) = Len(l) + 1 /\ k[Len(k)] = e
  /\ \A i \in 1 .. Len(l), j \in 1 .. Len(l) :
       VolumeOf(k, i, j) = VolumeOf(l, i, j) /\ CreditOf(k, i, j) = CreditOf(l, i, j)
  /\ \A i \in 1 .. Len(l) :
       /\ VolumeOf(k, i, Len(k)) = VolumeOf(l, i, Len(l)) + e.volume
       /\ CreditOf(k, i, Len(k)) = CreditOf(l, i, Len(l)) + Forward(l[Len(l)].now, e.now)
  /\ VolumeOf(k, Len(k), Len(k)) = e.volume /\ CreditOf(k, Len(k), Len(k)) = 0
  /\ PassedOf(k) = PassedOf(l) + e.passed

LEMMA LogGrows ==
  ASSUME NEW l \in Seq(Entries), NEW e \in Entries
  PROVE  LogGrown(l, e, Append(l, e))
<1> DEFINE k == Append(l, e)
<1> DEFINE n == Len(l)
           v == [i \in DOMAIN l |-> l[i].volume]
           w == [i \in DOMAIN k |-> k[i].volume]
           c == [i \in 2 .. Len(l) |-> Forward(l[i - 1].now, l[i].now)]
           d == [i \in 2 .. Len(k) |-> Forward(k[i - 1].now, k[i].now)]
           f == [i \in DOMAIN l |-> l[i].passed]
           g == [i \in DOMAIN k |-> k[i].passed]
<1>1. /\ n \in Nat /\ DOMAIN l = 1 .. n
      /\ \A i \in 1 .. n : l[i].now \in Nat /\ l[i].volume \in Nat /\ l[i].passed \in Nat
  BY LogValues
<1>2. k \in Seq(Entries) /\ Len(k) = n + 1 /\ k[n + 1] = e /\ \A i \in 1 .. n : k[i] = l[i]
  BY AppendProperties
<1>3. DOMAIN k = 1 .. n + 1 /\ e.now \in Nat /\ e.volume \in Nat /\ e.passed \in Nat
  BY <1>2, LenProperties DEF Entries
<1>4. /\ \A i \in 1 .. n : v[i] \in Int /\ w[i] = v[i] /\ f[i] \in Int /\ g[i] = f[i]
      /\ w[n + 1] = e.volume /\ g[n + 1] = e.passed
  BY <1>1, <1>2, <1>3
<1>5. ASSUME NEW i \in 2 .. n PROVE c[i] \in Int /\ d[i] = c[i]
  <2>1. i \in 1 .. n /\ i - 1 \in 1 .. n /\ i \in 2 .. n + 1
    BY <1>1
  <2>2. c[i] = Forward(l[i - 1].now, l[i].now) /\ d[i] = Forward(k[i - 1].now, k[i].now)
    BY <1>2, <2>1
  <2>3. l[i - 1].now \in Nat /\ l[i].now \in Nat
    BY <1>1, <2>1
  <2> QED  BY <1>2, <2>1, <2>2, <2>3 DEF Forward
<1>6. n \in 1 .. n => d[n + 1] = Forward(l[n].now, e.now) /\ d[n + 1] \in Int
  <2> HAVE n \in 1 .. n
  <2>1. n + 1 \in 2 .. n + 1 /\ (n + 1) - 1 = n /\ n \in 1 .. n
    BY <1>1
  <2>2. d[n + 1] = Forward(l[n].now, e.now) /\ l[n].now \in Nat
    BY <1>1, <1>2, <2>1
  <2> QED  BY <1>3, <2>2 DEF Forward
<1>7. /\ \A i, j : VolumeOf(l, i, j) = SumFunctionOnSet(v, i .. j)
      /\ \A i, j : VolumeOf(k, i, j) = SumFunctionOnSet(w, i .. j)
      /\ \A i, j : CreditOf(l, i, j) = SumFunctionOnSet(c, i + 1 .. j)
      /\ \A i, j : CreditOf(k, i, j) = SumFunctionOnSet(d, i + 1 .. j)
      /\ PassedOf(l) = SumFunctionOnSet(f, 1 .. n) /\ PassedOf(k) = SumFunctionOnSet(g, 1 .. Len(k))
  BY <1>1, <1>2, <1>3 DEF VolumeOf, CreditOf, PassedOf
<1> DEFINE m == Len(k)
<1>12. /\ n = Len(l) /\ m = Len(k) /\ m = n + 1 /\ m \in Int /\ w[n + 1] = e.volume /\ w[n + 1] \in Int
       /\ g[n + 1] = e.passed /\ g[n + 1] \in Int
       /\ n \in 1 .. n => d[n + 1] = Forward(l[n].now, e.now) /\ d[n + 1] \in Int
  BY <1>2, <1>3, <1>4, <1>6
<1> HIDE DEF v, w, c, d, f, g, n, m, k
<1>8. ASSUME NEW i \in 1 .. n, NEW j \in 1 .. n
      PROVE  VolumeOf(k, i, j) = VolumeOf(l, i, j) /\ CreditOf(k, i, j) = CreditOf(l, i, j)
  <2>1. IsFiniteSet(i .. j) /\ IsFiniteSet(i + 1 .. j)
    BY FS_Interval
  <2>2. \A x \in i .. j : x \in 1 .. n
    BY <1>1
  <2>3. \A x \in i + 1 .. j : x \in 2 .. n
    BY <1>1
  <2>4. SumFunctionOnSet(w, i .. j) = SumFunctionOnSet(v, i .. j)
    BY <1>4, <2>1, <2>2, SumSame
  <2>5. SumFunctionOnSet(d, i + 1 .. j) = SumFunctionOnSet(c, i + 1 .. j)
    BY <1>5, <2>1, <2>3, SumSame
  <2> QED  BY <1>7, <2>4, <2>5
<1>9. ASSUME NEW i \in 1 .. n
      PROVE  /\ VolumeOf(k, i, m) = VolumeOf(l, i, n) + e.volume
             /\ CreditOf(k, i, m) = CreditOf(l, i, n) + Forward(l[n].now, e.now)
  <2>1. i \in Int /\ n \in Int /\ i <= n + 1 /\ i + 1 \in Int /\ i + 1 <= n + 1 /\ n \in 1 .. n
    BY <1>1
  <2>2. \A x \in i .. n : v[x] \in Int /\ w[x] = v[x]
    BY <1>1, <1>4
  <2>3. \A x \in i + 1 .. n : c[x] \in Int /\ d[x] = c[x]
    <3> TAKE x \in i + 1 .. n
    <3>1. x \in 2 .. n
      BY <1>1
    <3> QED  BY <1>5, <3>1
  <2>4. /\ SumFunctionOnSet(w, i .. n + 1) = SumFunctionOnSet(v, i .. n) + w[n + 1]
        /\ SumFunctionOnSet(v, i .. n) \in Int
    <3>1. w[n + 1] \in Int
      BY <1>12
    <3> QED  BY <2>1, <2>2, <3>1, SumNext
  <2>5. /\ SumFunctionOnSet(d, i + 1 .. n + 1) = SumFunctionOnSet(c, i + 1 .. n) + d[n + 1]
        /\ SumFunctionOnSet(c, i + 1 .. n) \in Int
    <3>1. d[n + 1] \in Int
      BY <1>12, <2>1
    <3> QED  BY <2>1, <2>3, <3>1, SumNext
  <2>6. VolumeOf(k, i, m) = VolumeOf(l, i, n) + e.volume
    BY <1>7, <1>12, <2>4
  <2> QED  BY <1>12, <1>7, <2>1, <2>5, <2>6
<1>10. VolumeOf(k, m, m) = e.volume /\ CreditOf(k, m, m) = 0
  <2>1. IsFiniteSet({m}) /\ m \in {m} /\ {m} \ {m} = {} /\ m \in Int
    BY <1>12, FS_Singleton
  <2>2. \A x : x \in m .. m <=> x \in {m}
    BY <2>1
  <2>3. m .. m = {m} /\ m + 1 .. m = {}
    BY <2>1, <2>2
  <2>4. w[m] = e.volume /\ \A x \in {m} : w[x] \in Int
    BY <1>12
  <2>5. SumFunctionOnSet(w, {m}) = w[m] + SumFunctionOnSet(w, {m} \ {m})
    BY <2>1, <2>4, SumWithout
  <2>6. SumFunctionOnSet(w, {}) = 0 /\ SumFunctionOnSet(d, {}) = 0
    BY SumEmpty
  <2>7. SumFunctionOnSet(w, {m} \ {m}) = 0
    BY <2>1, <2>6
  <2>8. e.volume + 0 = e.volume
    BY <1>3
  <2>9. SumFunctionOnSet(w, {m}) = e.volume
    BY <2>4, <2>5, <2>7, <2>8
  <2>10. /\ VolumeOf(k, m, m) = SumFunctionOnSet(w, m .. m)
         /\ CreditOf(k, m, m) = SumFunctionOnSet(d, m + 1 .. m)
    BY <1>7
  <2> QED  BY <2>3, <2>6, <2>9, <2>10
<1>11. PassedOf(k) = PassedOf(l) + e.passed
  <2>1. 1 \in Int /\ n \in Int /\ 1 <= n + 1
    BY <1>1
  <2>2. /\ SumFunctionOnSet(g, 1 .. n + 1) = SumFunctionOnSet(f, 1 .. n) + g[n + 1]
        /\ SumFunctionOnSet(f, 1 .. n) \in Int
    <3>1. g[n + 1] \in Int /\ \A x \in 1 .. n : f[x] \in Int /\ g[x] = f[x]
      BY <1>4, <1>12
    <3> QED  BY <2>1, <3>1, SumNext
  <2> QED  BY <1>7, <1>12, <2>2
<1> QED  BY <1>2, <1>8, <1>9, <1>10, <1>11, <1>12 DEF n, m, k, LogGrown

-----------------------------------------------------------------------------
(* What the packets that a bucket has enough for take from it is what they *)
(* are.                                                                    *)
Enough(packets, left) == {i \in 1 .. Len(packets) : packets[i] <= left[i]}

LEMMA LeftRuns ==
  ASSUME NEW bucket \in Nat, NEW packets \in Seq(Nat),
         NEW left, left = Metering!Left(bucket, packets)
  PROVE  /\ \A i \in 1 .. Len(packets) + 1 : left[i] \in Nat
         /\ left[Len(packets) + 1] + SumFunctionOnSet(packets, Enough(packets, left)) = bucket
         /\ SumFunctionOnSet(packets, Enough(packets, left)) \in Nat
<1> DEFINE n == Len(packets)
           F == [x \in (1 .. n) \X Nat |->
                   x[2] - (IF packets[x[1]] <= x[2] THEN packets[x[1]] ELSE 0)]
           Fix(u) == u = [i \in 1 .. n + 1 |->
             IF i = 1 THEN bucket
             ELSE u[i - 1] - (IF packets[i - 1] <= u[i - 1] THEN packets[i - 1] ELSE 0)]
<1>1. n \in Nat /\ \A i \in 1 .. n : packets[i] \in Nat
  BY LenProperties, ElementOfSeq
<1>2. \A t \in 1 .. n, v \in Nat :
        /\ F[<<t, v>>] = v - (IF packets[t] <= v THEN packets[t] ELSE 0)
        /\ F[<<t, v>>] \in Nat
  <2> TAKE t \in 1 .. n, v \in Nat
  <2>1. packets[t] \in Nat
    BY <1>1
  <2>2. F[<<t, v>>] = v - (IF packets[t] <= v THEN packets[t] ELSE 0)
    OBVIOUS
  <2> HIDE DEF F
  <2> QED  BY <2>1, <2>2
<1> HIDE DEF F
<1>3. PICK g \in [SUBSET (1 .. n) -> Nat] : \A s \in SUBSET (1 .. n) :
        g[s] = IF s = {} THEN bucket ELSE F[<<Max(s), g[s \ {Max(s)}]>>]
  <2> HIDE DEF n
  <2>1. RunOf(n, Nat, bucket, F) # {}
    BY <1>1, <1>2, RunExists
  <2> QED  BY <2>1 DEF RunOf
<1> DEFINE h == [i \in 1 .. n + 1 |-> g[1 .. (i - 1)]]
<1> HIDE DEF n
<1>4. ASSUME NEW i \in 1 .. n + 1
      PROVE  h[i] = IF i = 1 THEN bucket
                    ELSE h[i - 1] - (IF packets[i - 1] <= h[i - 1] THEN packets[i - 1] ELSE 0)
  <2>1. h[i] = g[1 .. (i - 1)]
    OBVIOUS
  <2>2. CASE i = 1
    <3>1. 1 .. (i - 1) = {}
      BY <2>2
    <3> QED  BY <1>3, <2>1, <2>2, <3>1
  <2>3. CASE i # 1
    <3> DEFINE k == i - 1
    <3>1. k \in Nat \ {0} /\ k \in 1 .. n /\ k \in 1 .. n + 1 /\ k - 1 \in Nat
      BY <1>1, <2>3
    <3> HIDE DEF k
    <3>2. Max(1 .. k) = k /\ (1 .. k) \ {k} = 1 .. (k - 1)
      BY <3>1, LastOf
    <3>3. 1 .. k # {} /\ 1 .. k \in SUBSET (1 .. n) /\ 1 .. (k - 1) \in SUBSET (1 .. n)
      <4>1. 1 \in 1 .. k /\ \A x \in 1 .. k : x \in 1 .. n
        BY <1>1, <3>1
      <4>2. \A x \in 1 .. (k - 1) : x \in 1 .. n
        BY <1>1, <3>1
      <4> QED  BY <4>1, <4>2
    <3>4. g[1 .. k] = F[<<k, g[1 .. (k - 1)]>>] /\ g[1 .. (k - 1)] \in Nat
      BY <1>3, <3>2, <3>3
    <3>5. h[k] = g[1 .. (k - 1)]
      BY <3>1
    <3>6. g[1 .. k] = h[k] - (IF packets[k] <= h[k] THEN packets[k] ELSE 0)
      BY <1>2, <3>1, <3>4, <3>5
    <3> QED  BY <2>1, <2>3, <3>6 DEF k
  <2> QED  BY <2>2, <2>3
<1>5. Fix(h)
  BY <1>4
<1>6. left = CHOOSE u : Fix(u)
  BY DEF Metering!Left, n
<1>7. Fix(left)
  <2> HIDE DEF Fix, h
  <2> QED  BY <1>5, <1>6
<1>8. /\ 1 \in 1 .. n + 1 => left[1] = bucket
      /\ \A i \in 1 .. n : left[i + 1] =
           left[i] - (IF packets[i] <= left[i] THEN packets[i] ELSE 0)
  <2>1. \A i \in 1 .. n + 1 : left[i] = IF i = 1 THEN bucket
          ELSE left[i - 1] - (IF packets[i - 1] <= left[i - 1] THEN packets[i - 1] ELSE 0)
    BY <1>7
  <2> HIDE DEF Fix
  <2>2. \A i \in 1 .. n : i + 1 \in 1 .. n + 1 /\ i + 1 # 1 /\ (i + 1) - 1 = i
    BY <1>1
  <2> QED  BY <2>1, <2>2
<1> HIDE DEF Fix, h
<1> DEFINE S(i) == {j \in 1 .. i : packets[j] <= left[j]}
           P == {i \in 0 .. n : left[i + 1] \in Nat
                   /\ left[i + 1] + SumFunctionOnSet(packets, S(i)) = bucket}
<1>9. 0 \in P
  <2>1. S(0) = {} /\ 0 + 1 = 1 /\ 1 \in 1 .. n + 1 /\ 0 \in 0 .. n
    BY <1>1
  <2>2. SumFunctionOnSet(packets, S(0)) = 0
    BY <2>1, SumEmpty
  <2>3. left[0 + 1] = bucket
    BY <1>8, <2>1
  <2> QED  BY <2>1, <2>2, <2>3
<1>10. ASSUME NEW i \in 0 .. n - 1, i \in P PROVE i + 1 \in P
  <2>1. /\ i + 1 \in 1 .. n /\ i \in 0 .. n /\ i + 1 \in 0 .. n /\ i \in Nat
        /\ packets[i + 1] \in Nat
        /\ left[i + 1] \in Nat /\ left[i + 1] + SumFunctionOnSet(packets, S(i)) = bucket
    BY <1>1, <1>10
  <2>2. left[(i + 1) + 1] =
          left[i + 1] - (IF packets[i + 1] <= left[i + 1] THEN packets[i + 1] ELSE 0)
    BY <1>8, <2>1
  <2>3. IsFiniteSet(S(i)) /\ \A x \in S(i) : packets[x] \in Int
    <3>1. IsFiniteSet(1 .. i) /\ S(i) \in SUBSET (1 .. i)
      BY <2>1, FS_Interval
    <3>2. \A x \in 1 .. i : x \in 1 .. n
      BY <1>1, <2>1
    <3> QED  BY <1>1, <3>1, <3>2, FS_Subset
  <2>4. SumFunctionOnSet(packets, S(i)) \in Int
    BY <2>3, SumInt
  <2>5. \A x : x \in 1 .. i + 1 <=> x \in 1 .. i \/ x = i + 1
    BY <2>1
  <2>6. CASE packets[i + 1] <= left[i + 1]
    <3>1. S(i + 1) = S(i) \cup {i + 1} /\ i + 1 \notin S(i)
      BY <2>1, <2>5, <2>6
    <3> HIDE DEF S
    <3>2. SumFunctionOnSet(packets, S(i) \cup {i + 1}) =
            packets[i + 1] + SumFunctionOnSet(packets, S(i))
      <4>1. packets[i + 1] \in Int
        BY <2>1
      <4> QED  BY <2>3, <3>1, <4>1, SumWith
    <3>3. left[(i + 1) + 1] = left[i + 1] - packets[i + 1]
      BY <2>2, <2>6
    <3>4. left[(i + 1) + 1] \in Nat
      BY <2>1, <2>6, <3>3
    <3>5. left[(i + 1) + 1] + SumFunctionOnSet(packets, S(i + 1)) = bucket
      <4>1. \A a, b, c \in Int : (a - b) + (b + c) = a + c
        OBVIOUS
      <4>2. left[(i + 1) + 1] + SumFunctionOnSet(packets, S(i + 1)) =
              (left[i + 1] - packets[i + 1]) + (packets[i + 1] + SumFunctionOnSet(packets, S(i)))
        BY <3>1, <3>2, <3>3
      <4>3. left[i + 1] \in Int /\ packets[i + 1] \in Int
        BY <2>1
      <4> QED  BY <2>1, <2>4, <4>1, <4>2, <4>3
    <3> QED  BY <2>1, <3>4, <3>5
  <2>7. CASE ~(packets[i + 1] <= left[i + 1])
    <3>1. S(i + 1) = S(i)
      BY <2>5, <2>7
    <3>2. left[(i + 1) + 1] = left[i + 1]
      BY <2>1, <2>2, <2>7
    <3> HIDE DEF S
    <3> QED  BY <2>1, <3>1, <3>2
  <2> QED  BY <2>6, <2>7
<1> HIDE DEF P
<1>11. \A i \in 0 .. n : i \in P
  BY <1>1, <1>9, <1>10, CountUp
<1>12. left[n + 1] + SumFunctionOnSet(packets, S(n)) = bucket
  <2>1. n \in 0 .. n
    BY <1>1
  <2> QED  BY <1>11, <2>1 DEF P
<1>13. \A i \in 1 .. n + 1 : left[i] \in Nat
  <2> TAKE i \in 1 .. n + 1
  <2>1. i - 1 \in 0 .. n /\ (i - 1) + 1 = i
    BY <1>1
  <2>2. left[(i - 1) + 1] \in Nat
    BY <1>11, <2>1 DEF P
  <2> QED  BY <2>1, <2>2
<1>14. SumFunctionOnSet(packets, S(n)) \in Nat
  <2>1. IsFiniteSet(S(n))
    <3>1. IsFiniteSet(1 .. n) /\ S(n) \in SUBSET (1 .. n)
      BY <1>1, FS_Interval
    <3> QED  BY <3>1, FS_Subset
  <2>2. \A i \in S(n) : packets[i] \in Nat
    BY <1>1
  <2> QED  BY <2>1, <2>2, SumNat
<1> QED  BY <1>12, <1>13, <1>14 DEF n, Enough

(* One band: what is left in the bucket and what a batch takes with it are *)
(* no more than what there was.                                            *)
VolumeOfBatch(pktps, packets, passed) ==
  IF pktps THEN SCALE * Cardinality(passed) ELSE SumFunctionOnSet(packets, passed)

TakesAtMost(band, delta, bucket, volume) ==
  /\ volume \in Nat /\ bucket \in Nat
  /\ bucket + volume <= Metering!Full(band)
  /\ bucket + volume <= band.bucket + delta * band.rate

LEMMA DrainBounds ==
  ASSUME SCALE \in Nat \ {0}, NEW m, meters[m] \in Metering!DpMeters,
         NEW band \in Metering!DpBands, NEW delta \in Nat, NEW packets \in Seq(Nat),
         NEW drained, drained = Metering!Drain(m, band, delta, packets),
         NEW passed \in SUBSET DOMAIN packets, passed \cap drained.exceeded = {},
         NEW volume, volume = VolumeOfBatch(meters[m].pktps, packets, passed)
  PROVE  TakesAtMost(band, delta, drained.bucket, volume)
<1> DEFINE n == Len(packets)
           pktps == meters[m].pktps
           full == Metering!Full(band)
           credit == band.bucket + delta * band.rate
           bucket == Metering!Min({full, credit})
           cost == [i \in DOMAIN packets |-> IF pktps THEN SCALE ELSE packets[i]]
           left == Metering!Left(bucket, cost)
           total == Metering!SumFunction(cost)
<1>1. /\ n \in Nat /\ DOMAIN packets = 1 .. n /\ \A i \in 1 .. n : packets[i] \in Nat
  BY LenProperties, ElementOfSeq
<1>2. full \in Nat /\ credit \in Nat
  <2>1. band.burst_size \in Nat /\ band.bucket \in Nat /\ band.rate \in Nat
    BY DEF Metering!DpBands
  <2>2. \A a, b \in Nat : a * b \in Nat
    OBVIOUS
  <2>3. band.burst_size * SCALE \in Nat /\ delta * band.rate \in Nat
    BY <2>1, <2>2
  <2> QED  BY <2>1, <2>3 DEF Metering!Full
<1>3. drained = IF bucket >= total THEN [bucket |-> bucket - total, exceeded |-> {}]
                ELSE IF pktps
                THEN [bucket |-> bucket % SCALE,
                      exceeded |-> {i \in DOMAIN packets : i > bucket \div SCALE}]
                ELSE [bucket |-> left[n + 1],
                      exceeded |-> {i \in DOMAIN packets : left[i] < packets[i]}]
  <2> HIDE DEF full
  <2> QED  BY DEF Metering!Drain, full
<1> HIDE DEF full, credit
<1>4. bucket \in Nat /\ bucket <= full /\ bucket <= credit
  <2>1. bucket = IF full <= credit THEN full ELSE credit
    <3>1. full \in Int /\ credit \in Int
      BY <1>2
    <3> QED  BY <3>1, MeterSums, OfTwo
  <2> HIDE DEF bucket
  <2> QED  BY <1>2, <2>1
<1> HIDE DEF bucket
<1>5. /\ cost \in Seq(Nat) /\ DOMAIN cost = 1 .. n /\ Len(cost) = n
      /\ \A i \in 1 .. n : cost[i] \in Nat /\ cost[i] = IF pktps THEN SCALE ELSE packets[i]
  <2>1. /\ DOMAIN cost = 1 .. n
        /\ \A i \in 1 .. n : cost[i] \in Nat /\ cost[i] = IF pktps THEN SCALE ELSE packets[i]
    BY <1>1
  <2>2. cost \in [1 .. n -> Nat]
    BY <1>1
  <2> HIDE DEF cost
  <2>3. cost \in Seq(Nat) /\ Len(cost) = n
    BY <1>1, <2>1, <2>2
  <2> QED  BY <2>1, <2>3
<1>6. passed \in SUBSET (1 .. n) /\ IsFiniteSet(passed) /\ IsFiniteSet(1 .. n)
      /\ Cardinality(passed) \in Nat
  <2>1. passed \in SUBSET (1 .. n) /\ IsFiniteSet(1 .. n)
    BY <1>1, FS_Interval
  <2>2. IsFiniteSet(passed)
    BY <2>1, FS_Subset
  <2> QED  BY <2>1, <2>2, FS_CardinalityType
<1> HIDE DEF cost, n
<1>7. volume = SumFunctionOnSet(cost, passed) /\ volume \in Nat
  <2>0. \A i \in passed : cost[i] \in Nat /\ cost[i] \in Int
    BY <1>5, <1>6
  <2>1. SumFunctionOnSet(cost, passed) \in Nat
    BY <1>6, <2>0, SumNat
  <2>2. CASE pktps
    <3>1. \A i \in passed : cost[i] = SCALE
      BY <1>5, <1>6, <2>2
    <3>2. SumFunctionOnSet(cost, passed) = SCALE * Cardinality(passed)
      BY <1>6, <3>1, SumConst
    <3> QED  BY <2>1, <2>2, <3>2 DEF VolumeOfBatch
  <2>3. CASE ~pktps
    <3>1. \A i \in passed : packets[i] = cost[i]
      BY <1>5, <1>6, <2>3
    <3>2. SumFunctionOnSet(packets, passed) = SumFunctionOnSet(cost, passed)
      BY <1>6, <2>0, <3>1, SumSame
    <3> QED  BY <2>1, <2>3, <3>2 DEF VolumeOfBatch
  <2> QED  BY <2>2, <2>3
<1>8. total = SumFunctionOnSet(cost, 1 .. n) /\ total \in Nat /\ volume <= total
  <2>1. total = SumFunctionOnSet(cost, 1 .. n)
    BY <1>5, MeterSums
  <2>2. SumFunctionOnSet(cost, 1 .. n) \in Nat
    BY <1>5, <1>6, SumNat
  <2>3. SumFunctionOnSet(cost, passed) <= SumFunctionOnSet(cost, 1 .. n)
    BY <1>5, <1>6, SumSubset
  <2> QED  BY <1>7, <2>1, <2>2, <2>3
<1> HIDE DEF total
<1>9. drained.bucket \in Nat /\ drained.bucket + volume <= bucket
  <2>1. CASE bucket >= total
    BY <1>3, <1>4, <1>7, <1>8, <2>1
  <2>2. CASE ~(bucket >= total) /\ pktps
    <3> DEFINE q == bucket \div SCALE
    <3>1. /\ drained.bucket = bucket % SCALE
          /\ drained.exceeded = {i \in DOMAIN packets : i > q}
      BY <1>3, <2>2
    <3>2. q \in Nat /\ bucket % SCALE \in Nat /\ bucket = q * SCALE + (bucket % SCALE)
      <4>1. bucket \div SCALE \in Nat
        BY <1>4
      <4>2. bucket % SCALE \in 0 .. SCALE - 1
        BY <1>4
      <4>3. bucket = (bucket \div SCALE) * SCALE + (bucket % SCALE)
        BY <1>4
      <4>4. bucket % SCALE \in Nat
        BY <4>2
      <4> QED  BY <4>1, <4>3, <4>4
    <3> HIDE DEF q
    <3>3. passed \in SUBSET (1 .. q)
      <4>1. \A i \in passed : i \in Nat /\ i >= 1 /\ ~(i > q)
        BY <1>1, <1>6, <3>1
      <4> QED  BY <3>2, <4>1
    <3>4. Cardinality(passed) <= q
      <4>1. IsFiniteSet(1 .. q) /\ Cardinality(1 .. q) = q
        <5>1. 1 \in Int /\ q \in Int
          BY <3>2
        <5>2. IsFiniteSet(1 .. q) /\ Cardinality(1 .. q) = IF 1 > q THEN 0 ELSE q - 1 + 1
          BY <5>1, FS_Interval
        <5> QED  BY <3>2, <5>2
      <4>2. Cardinality(passed) <= Cardinality(1 .. q)
        BY <3>3, <4>1, FS_Subset
      <4> QED  BY <4>1, <4>2
    <3>5. SCALE * Cardinality(passed) <= q * SCALE
      <4>1. \A a, b, c \in Nat : a <= b => c * a <= b * c
        OBVIOUS
      <4> QED  BY <1>6, <3>2, <3>4, <4>1
    <3>6. volume = SCALE * Cardinality(passed)
      BY <2>2 DEF VolumeOfBatch
    <3> DEFINE qs == q * SCALE
               r == bucket % SCALE
    <3>7. qs \in Nat /\ r \in Nat /\ bucket = qs + r /\ volume <= qs /\ drained.bucket = r
      <4>1. qs \in Nat
        BY <3>2
      <4>2. volume <= qs
        BY <3>5, <3>6
      <4> QED  BY <3>1, <3>2, <4>1, <4>2, Zenon
    <3> HIDE DEF qs, r
    <3> QED  BY <1>7, <3>7
  <2>3. CASE ~(bucket >= total) /\ ~pktps
    <3>1. /\ drained.bucket = left[n + 1]
          /\ drained.exceeded = {i \in DOMAIN packets : left[i] < packets[i]}
      BY <1>3, <2>3
    <3>2. \A i \in 1 .. n : cost[i] = packets[i] /\ cost[i] \in Nat
      BY <1>5, <2>3
    <3> HIDE DEF left
    <3> DEFINE S == {i \in 1 .. n : cost[i] <= left[i]}
    <3>3. /\ \A i \in 1 .. n + 1 : left[i] \in Nat
          /\ left[n + 1] + SumFunctionOnSet(cost, S) = bucket
      <4>1. bucket \in Nat /\ cost \in Seq(Nat) /\ left = Metering!Left(bucket, cost)
        BY <1>4, <1>5 DEF left
      <4>2. /\ \A i \in 1 .. Len(cost) + 1 : left[i] \in Nat
            /\ left[Len(cost) + 1] + SumFunctionOnSet(cost, Enough(cost, left)) = bucket
            /\ SumFunctionOnSet(cost, Enough(cost, left)) \in Nat
        BY <4>1, LeftRuns
      <4> QED  BY <1>5, <4>2 DEF Enough
    <3>4. passed \in SUBSET S
      <4>1. ASSUME NEW i \in passed PROVE i \in S
        <5>1. i \in 1 .. n /\ i \in 1 .. n + 1 /\ ~(left[i] < packets[i])
          BY <1>1, <1>6, <3>1
        <5>2. left[i] \in Nat /\ packets[i] \in Nat /\ cost[i] = packets[i]
          BY <1>1, <3>2, <3>3, <5>1
        <5> QED  BY <5>1, <5>2
      <4> QED  BY <4>1
    <3>5. IsFiniteSet(S) /\ \A i \in S : cost[i] \in Nat
      BY <1>6, <3>2, FS_Subset
    <3> HIDE DEF S
    <3>6. SumFunctionOnSet(cost, passed) <= SumFunctionOnSet(cost, S)
      BY <3>4, <3>5, SumSubset
    <3>7. SumFunctionOnSet(cost, S) \in Nat
      BY <3>5, SumNat
    <3>8. left[n + 1] \in Nat
      <4>1. n + 1 \in 1 .. n + 1
        BY <1>1
      <4> QED  BY <3>3, <4>1
    <3> QED  BY <1>7, <3>1, <3>3, <3>6, <3>7, <3>8
  <2> QED  BY <2>1, <2>2, <2>3
<1>10. drained.bucket + volume <= full /\ drained.bucket + volume <= credit
  BY <1>2, <1>4, <1>7, <1>9
<1> QED  BY <1>7, <1>9, <1>10 DEF full, credit, TakesAtMost

LEMMA BandKept ==
  ASSUME SCALE \in Nat \ {0}, NEW l \in Seq(Entries), NEW e \in Entries,
         NEW band \in Metering!DpBands, NEW new \in Metering!DpBands, BandSound(l, band),
         new.rate = band.rate, new.burst_size = band.burst_size,
         NEW delta \in Nat, l # <<>> => delta <= Forward(l[Len(l)].now, e.now),
         new.bucket + e.volume <= Metering!Full(band),
         new.bucket + e.volume <= band.bucket + delta * band.rate
  PROVE  BandSound(Append(l, e), new)
<1> DEFINE k == Append(l, e)
           n == Len(l)
           full == Metering!Full(band)
           rate == band.rate
           fwd == Forward(l[n].now, e.now)
<1>0. k = Append(l, e)
  OBVIOUS
<1>1. /\ k \in Seq(Entries) /\ Len(k) = n + 1
      /\ \A i \in 1 .. n, j \in 1 .. n :
           VolumeOf(k, i, j) = VolumeOf(l, i, j) /\ CreditOf(k, i, j) = CreditOf(l, i, j)
      /\ \A i \in 1 .. n :
           /\ VolumeOf(k, i, n + 1) = VolumeOf(l, i, n) + e.volume
           /\ CreditOf(k, i, n + 1) = CreditOf(l, i, n) + fwd
      /\ VolumeOf(k, n + 1, n + 1) = e.volume /\ CreditOf(k, n + 1, n + 1) = 0
  <2> HIDE DEF k
  <2>1. LogGrown(l, e, k)
    BY <1>0, LogGrows
  <2> QED  BY <2>1 DEF LogGrown
<1>2. /\ n \in Nat /\ DOMAIN l = 1 .. n
      /\ \A i \in 1 .. n, j \in 1 .. n : VolumeOf(l, i, j) \in Nat /\ CreditOf(l, i, j) \in Nat
      /\ \A i \in 1 .. n : l[i].now \in Nat
  BY LogValues
<1>3. DOMAIN k = 1 .. n + 1
  BY <1>1, LenProperties
<1>4. /\ Metering!Full(new) = full /\ full \in Nat
      /\ new.bucket \in Nat /\ band.bucket \in Nat /\ rate \in Nat /\ new.rate = rate
  <2>1. /\ band.burst_size \in Nat /\ band.bucket \in Nat /\ new.bucket \in Nat /\ band.rate \in Nat
    BY DEF Metering!DpBands
  <2>2. \A a, b \in Nat : a * b \in Nat
    OBVIOUS
  <2> QED  BY <2>1, <2>2 DEF Metering!Full
<1>5. e.volume \in Nat /\ e.now \in Nat
  BY DEF Entries
<1>6. n \in 1 .. n => fwd \in Nat /\ delta <= fwd
  <2>1. n \in 1 .. n => l # <<>>
    BY <1>2
  <2>2. n \in 1 .. n => fwd \in Nat
    BY <1>2, <1>5 DEF Forward
  <2> QED  BY <2>1, <2>2
<1>7. /\ band.bucket <= full
      /\ \A i \in 1 .. n : band.bucket + VolumeOf(l, i, n) <= full + rate * CreditOf(l, i, n)
      /\ \A i, j \in 1 .. n : i <= j => VolumeOf(l, i, j) <= full + rate * CreditOf(l, i, j)
  BY <1>2 DEF BandSound
<1>8. new.bucket <= full
  BY <1>4, <1>5
<1> HIDE DEF k, n, full, rate, fwd
<1>9. ASSUME NEW i \in 1 .. n + 1
      PROVE  new.bucket + VolumeOf(k, i, n + 1) <= full + rate * CreditOf(k, i, n + 1)
  <2>1. CASE i = n + 1
    <3>1. rate * 0 = 0
      BY <1>4
    <3> QED  BY <1>1, <1>4, <1>5, <2>1, <3>1 DEF full
  <2>2. CASE i # n + 1
    <3>1. i \in 1 .. n /\ n \in 1 .. n
      BY <1>2, <2>2
    <3> DEFINE v == VolumeOf(l, i, n)
               c == CreditOf(l, i, n)
    <3>2. /\ v \in Nat /\ c \in Nat /\ fwd \in Nat /\ delta <= fwd
          /\ VolumeOf(k, i, n + 1) = v + e.volume /\ CreditOf(k, i, n + 1) = c + fwd
          /\ band.bucket + v <= full + rate * c
      BY <1>1, <1>2, <1>6, <1>7, <3>1
    <3> HIDE DEF v, c
    <3>3. \A a, b, r \in Nat : a <= b => a * r <= r * b
      OBVIOUS
    <3>4. delta * rate <= rate * fwd
      BY <1>4, <3>2, <3>3
    <3>5. rate * (c + fwd) = rate * c + rate * fwd
      BY <1>4, <3>2
    <3> DEFINE x == delta * rate
               y == rate * fwd
               z == rate * c
    <3>6. /\ x \in Nat /\ y \in Nat /\ z \in Nat /\ x <= y
          /\ rate * (c + fwd) = z + y /\ band.bucket + v <= full + z
          /\ new.bucket + e.volume <= band.bucket + x
      <4>1. \A a, b \in Nat : a * b \in Nat
        OBVIOUS
      <4>2. x \in Nat /\ y \in Nat /\ z \in Nat
        BY <1>4, <3>2, <4>1
      <4>3. new.bucket + e.volume <= band.bucket + x
        BY DEF rate
      <4> QED  BY <3>2, <3>4, <3>5, <4>2, <4>3
    <3> HIDE DEF x, y, z
    <3>7. new.bucket + (v + e.volume) <= full + (z + y)
      <4>1. \A a, b, x1, y1, f, g, h, z1 \in Nat :
              x1 <= y1 /\ a + b <= f + x1 /\ f + g <= h + z1 => a + (g + b) <= h + (z1 + y1)
        OBVIOUS
      <4>2. /\ new.bucket \in Nat /\ e.volume \in Nat /\ x \in Nat /\ y \in Nat
            /\ band.bucket \in Nat /\ v \in Nat /\ full \in Nat /\ z \in Nat
        BY <1>4, <1>5, <3>2, <3>6
      <4> QED  BY <3>6, <4>1, <4>2
    <3> QED  BY <3>2, <3>6, <3>7
  <2> QED  BY <2>1, <2>2
<1>10. ASSUME NEW i \in 1 .. n + 1, NEW j \in 1 .. n + 1, i <= j
       PROVE  VolumeOf(k, i, j) <= full + rate * CreditOf(k, i, j)
  <2>1. CASE j # n + 1
    <3>1. i \in 1 .. n /\ j \in 1 .. n
      BY <1>2, <1>10, <2>1
    <3> QED  BY <1>1, <1>7, <1>10, <3>1
  <2>2. CASE j = n + 1
    <3>1. new.bucket + VolumeOf(k, i, n + 1) <= full + rate * CreditOf(k, i, n + 1)
      BY <1>9
    <3>2. VolumeOf(k, i, n + 1) \in Nat /\ CreditOf(k, i, n + 1) \in Nat
      <4>1. n + 1 \in 1 .. Len(k) /\ i \in 1 .. Len(k)
        BY <1>1, <1>2
      <4> QED  BY <1>1, <4>1, LogValues
    <3> DEFINE y == rate * CreditOf(k, i, n + 1)
    <3>3. y \in Nat
      BY <1>4, <3>2
    <3> HIDE DEF y
    <3>4. VolumeOf(k, i, n + 1) <= full + y
      BY <1>4, <3>1, <3>2, <3>3 DEF y
    <3> QED  BY <2>2, <3>4 DEF y
  <2> QED  BY <2>1, <2>2
<1> QED
  <2>1. Len(k) = n + 1
    BY <1>1
  <2> QED  BY <1>3, <1>4, <1>8, <1>9, <1>10, <2>1 DEF BandSound, k

(* A packet fires no band, or one.                                         *)
LEMMA FiresOne ==
  ASSUME NEW bands \in Seq(Metering!DpBands), NEW drained, NEW i
  PROVE  /\ Metering!Fired(bands, drained, i) \in 0 .. Len(bands)
         /\ Metering!Fired(bands, drained, i) = 0 =>
              \A b \in DOMAIN bands : i \notin drained[b].exceeded
<1> DEFINE hit == {b \in DOMAIN bands : i \in drained[b].exceeded}
           highest == {b \in hit : \A n \in hit : bands[n].rate <= bands[b].rate}
           rates == {bands[b].rate : b \in hit}
<1>1. /\ Len(bands) \in Nat /\ DOMAIN bands = 1 .. Len(bands)
      /\ \A b \in 1 .. Len(bands) : bands[b].rate \in Nat
  <2>1. \A b \in 1 .. Len(bands) : bands[b] \in Metering!DpBands
    BY ElementOfSeq
  <2> QED  BY <2>1, LenProperties DEF Metering!DpBands
<1>2. Metering!Fired(bands, drained, i) = IF hit = {} THEN 0 ELSE Metering!Min(highest)
  BY DEF Metering!Fired
<1>3. hit # {} => Metering!Min(highest) \in hit
  <2> HAVE hit # {}
  <2>1. hit \in SUBSET (1 .. Len(bands))
    BY <1>1
  <2>2. IsFiniteSet(hit)
    <3>1. IsFiniteSet(1 .. Len(bands))
      BY <1>1, FS_Interval
    <3> QED  BY <2>1, <3>1, FS_Subset
  <2> HIDE DEF hit
  <2>3. IsFiniteSet(rates) /\ rates # {} /\ \A x \in rates : x \in Int
    <3> DEFINE f == [b \in DOMAIN bands |-> bands[b].rate]
    <3>1. \A b \in hit : f[b] = bands[b].rate /\ f[b] \in Nat
      BY <1>1, <2>1
    <3> HIDE DEF f
    <3>2. rates = {f[b] : b \in hit}
      BY <3>1
    <3>3. IsFiniteSet({f[b] : b \in hit})
      BY <2>2, FiniteImage
    <3>4. \A x \in rates : x \in Int
      BY <3>1
    <3> QED  BY <3>2, <3>3, <3>4
  <2> HIDE DEF rates
  <2>4. Max(rates) \in rates /\ \A y \in rates : Max(rates) >= y
    BY <2>3, MaxOfFinite
  <2>5. PICK b \in hit : Max(rates) = bands[b].rate
    BY <2>4 DEF rates
  <2>6. \A n \in hit : bands[n].rate <= bands[b].rate
    <3> TAKE n \in hit
    <3>1. bands[n].rate \in rates /\ bands[n].rate \in Nat /\ bands[b].rate \in Nat
      BY <1>1, <2>1, <2>5 DEF rates
    <3> QED  BY <2>4, <2>5, <3>1
  <2>7. highest # {} /\ highest \in SUBSET Nat /\ highest \in SUBSET hit
    <3>1. b \in highest /\ highest \in SUBSET hit
      BY <2>5, <2>6
    <3> HIDE DEF highest
    <3>2. hit \in SUBSET Nat
      BY <1>1, <2>1
    <3> QED  BY <3>1, <3>2
  <2> HIDE DEF highest
  <2>8. Min(highest) \in highest
    BY <2>7, MinOfSome
  <2> QED  BY <2>7, <2>8, MeterSums
<1> HIDE DEF highest
<1>4. hit # {} => Metering!Fired(bands, drained, i) \in 1 .. Len(bands)
  BY <1>1, <1>2, <1>3
<1>5. hit = {} => Metering!Fired(bands, drained, i) = 0
  BY <1>2
<1> QED  BY <1>1, <1>4, <1>5

-----------------------------------------------------------------------------
(* Meters that are in use, and what is observed of them, after a step that *)
(* frees the others.                                                       *)
LEMMA FreedKeeps ==
  ASSUME Metering!MeterAssumption, clock' \in Nat, pmd_now' \in [Pmds -> Nat],
         attached' \in Meters \cup {None},
         using' \in [Pmds -> [meter : Meters, packets : Batches] \cup {Metering!NotMetering}],
         NEW ms \in [Meters -> Metering!DpMeters \cup {None}],
         NEW ls \in [Meters -> Seq(Entries)],
         attached' # None => ms[attached'] # None,
         \A p \in Pmds : using'[p] # Metering!NotMetering => ms[using'[p].meter] # None,
         \A o \in Meters : ms[o] # None => MeterSound(ms[o], ls[o]),
         meters' = Metering!Freed(ms),
         log' = [o \in Meters |-> IF meters'[o] = None THEN <<>> ELSE ls[o]]
  PROVE  MeterInv'
<1> DEFINE inUse == {attached'} \cup {using'[p].meter : p \in Pmds}
<1>1. meters' = [o \in Meters |-> IF o \in inUse THEN ms[o] ELSE None]
  BY DEF Metering!Freed
<1>2. attached' # None => meters'[attached'] # None
  BY <1>1
<1>3. \A p \in Pmds : using'[p] # Metering!NotMetering => meters'[using'[p].meter] # None
  <2> SUFFICES ASSUME NEW p \in Pmds, using'[p] # Metering!NotMetering
               PROVE  meters'[using'[p].meter] # None
    OBVIOUS
  <2>1. using'[p].meter \in Meters /\ using'[p].meter \in inUse
    OBVIOUS
  <2> QED  BY <1>1, <2>1
<1> HIDE DEF inUse
<1>4. meters' \in [Meters -> Metering!DpMeters \cup {None}]
  BY <1>1
<1>5. log' \in [Meters -> Seq(Entries)]
  BY EmptySeq
<1>6. \A m \in Meters :
        IF meters'[m] = None THEN log'[m] = <<>> ELSE MeterSound(meters'[m], log'[m])
  <2> TAKE m \in Meters
  <2>1. CASE meters'[m] = None
    BY <2>1
  <2>2. CASE meters'[m] # None
    <3>1. meters'[m] = ms[m] /\ log'[m] = ls[m]
      BY <1>1, <2>2
    <3>2. MeterSound(ms[m], ls[m])
      BY <2>2, <3>1
    <3> QED  BY <2>2, <3>1, <3>2
  <2> QED  BY <2>1, <2>2
<1>7. Metering!NotMetering' = Metering!NotMetering
  BY DEF Metering!NotMetering
<1>8. \A m \in Meters :
        (IF meters[m] = None THEN log[m] = <<>> ELSE MeterSound(meters[m], log[m]))'
          <=> (IF meters'[m] = None THEN log'[m] = <<>> ELSE MeterSound(meters'[m], log'[m]))
  BY DEF MeterSound, BandSound, VolumeOf, CreditOf, PassedOf, DroppedBy, Metering!Full
<1> QED  BY <1>2, <1>3, <1>4, <1>5, <1>6, <1>7, <1>8 DEF MeterInv

LEMMA NewMeterSound ==
  ASSUME Metering!MeterAssumption, clock \in Nat, NEW c \in Configs
  PROVE  /\ Metering!NewMeter(c) \in Metering!DpMeters
         /\ MeterSound(Metering!NewMeter(c), <<>>)
<1>1. /\ c.pktps \in BOOLEAN /\ c.bands \in Seq([rate : Nat \ {0}, burst_size : Nat])
      /\ SCALE \in Nat \ {0} /\ DELTA_VALUES \in Nat \ {0}
  BY MeterConstants
<1> DEFINE n == Len(c.bands)
           burst(i) == IF c.bands[i].burst_size = 0 THEN c.bands[i].rate ELSE c.bands[i].burst_size
           bands == [i \in DOMAIN c.bands |->
             [rate |-> c.bands[i].rate, burst_size |-> burst(i), bucket |-> burst(i) * SCALE,
              packet_count |-> 0]]
           max == Metering!max_delta_t(bands)
<1>2. Metering!NewMeter(c) = [pktps |-> c.pktps, bands |-> bands, max_delta_t |-> max,
                              used |-> clock, packet_count |-> 0]
  <2> HIDE DEF max
  <2> QED  BY DEF Metering!NewMeter, max
<1>3. /\ n \in Nat /\ DOMAIN c.bands = 1 .. n
      /\ \A i \in 1 .. n : c.bands[i] \in [rate : Nat \ {0}, burst_size : Nat]
  BY <1>1, LenProperties, ElementOfSeq
<1>4. /\ DOMAIN bands = 1 .. n
      /\ \A i \in 1 .. n :
           /\ bands[i] \in Metering!DpBands
           /\ bands[i].rate \in Nat \ {0} /\ bands[i].packet_count = 0
           /\ bands[i].bucket = Metering!Full(bands[i]) /\ Metering!Full(bands[i]) \in Nat
  <2>1. DOMAIN bands = 1 .. n
    BY <1>3
  <2>2. ASSUME NEW i \in 1 .. n
        PROVE  /\ bands[i] \in Metering!DpBands
               /\ bands[i].rate \in Nat \ {0} /\ bands[i].packet_count = 0
               /\ bands[i].bucket = Metering!Full(bands[i]) /\ Metering!Full(bands[i]) \in Nat
    <3> DEFINE r == c.bands[i].rate
               b == burst(i)
    <3>1. r \in Nat \ {0} /\ b \in Nat
      BY <1>3
    <3>2. bands[i] = [rate |-> r, burst_size |-> b, bucket |-> b * SCALE, packet_count |-> 0]
      BY <1>3
    <3> HIDE DEF r, b, bands
    <3>3. b * SCALE \in Nat
      BY <1>1, <3>1
    <3> QED  BY <3>1, <3>2, <3>3 DEF Metering!DpBands, Metering!Full
  <2> QED  BY <2>1, <2>2
<1> HIDE DEF n, bands
<1>5. bands \in Seq(Metering!DpBands)
  <2>1. bands \in [1 .. n -> Metering!DpBands]
    BY <1>4 DEF bands
  <2> QED  BY <1>3, <2>1
<1>6. max \in Nat
  <2> DEFINE f == [i \in 1 .. n |-> (Metering!Full(bands[i]) \div bands[i].rate) % DELTA_VALUES]
             S == {0} \cup {f[i] : i \in 1 .. n}
  <2>1. \A i \in 1 .. n : f[i] \in Nat
    <3> TAKE i \in 1 .. n
    <3>1. \A a \in Nat, b \in Nat \ {0} : a \div b \in Nat /\ a % b \in Nat
      OBVIOUS
    <3>2. Metering!Full(bands[i]) \div bands[i].rate \in Nat
      BY <1>4, <3>1
    <3> QED  BY <1>1, <3>1, <3>2
  <2>2. max = Max(S)
    <3>1. {(Metering!Full(bands[i]) \div bands[i].rate) % DELTA_VALUES : i \in DOMAIN bands} = {f[i] : i \in 1 .. n}
      BY <1>4
    <3> HIDE DEF f
    <3> QED  BY <3>1, MeterSums DEF Metering!max_delta_t
  <2> HIDE DEF f
  <2>3. IsFiniteSet(S)
    <3>1. IsFiniteSet({f[i] : i \in 1 .. n})
      <4>1. IsFiniteSet(1 .. n)
        BY <1>3, FS_Interval
      <4> QED  BY <4>1, FiniteImage
    <3>2. IsFiniteSet({0})
      BY FS_Singleton
    <3> QED  BY <3>1, <3>2, FS_Union
  <2>4. S # {} /\ \A x \in S : x \in Int /\ x \in Nat
    BY <2>1
  <2> HIDE DEF S, max
  <2>5. Max(S) \in S
    BY <2>3, <2>4, MaxOfFinite
  <2> QED  BY <2>2, <2>4, <2>5
<1> HIDE DEF max
<1>7. Metering!NewMeter(c) \in Metering!DpMeters
  BY <1>1, <1>2, <1>5, <1>6 DEF Metering!DpMeters
<1>8. DroppedBy(bands) = 0
  <2> DEFINE f == [b \in DOMAIN bands |-> bands[b].packet_count]
             none == 0
  <2>1. IsFiniteSet(1 .. n) /\ Cardinality(1 .. n) \in Nat
    BY <1>3, FS_Interval, FS_CardinalityType
  <2>2. none \in Int /\ \A x \in 1 .. n : f[x] = none
    BY <1>4
  <2> HIDE DEF f, none
  <2>3. SumFunctionOnSet(f, 1 .. n) = none * Cardinality(1 .. n)
    BY <2>1, <2>2, SumConst
  <2>4. SumFunctionOnSet(f, 1 .. n) = 0
    BY <2>1, <2>3 DEF none
  <2> QED  BY <1>4, <2>4 DEF DroppedBy, f
<1>9. \A b \in 1 .. n : BandSound(<<>>, bands[b])
  <2> TAKE b \in 1 .. n
  <2>1. DOMAIN <<>> = {} /\ bands[b].bucket <= Metering!Full(bands[b])
    BY <1>4, NoLog
  <2> QED  BY <2>1 DEF BandSound
<1>10. MeterSound(Metering!NewMeter(c), <<>>)
  BY <1>2, <1>4, <1>8, <1>9, NoLog DEF MeterSound
<1> QED  BY <1>7, <1>10

-----------------------------------------------------------------------------
(* What dp_netdev_run_meter makes of a meter, at a time, for a batch.      *)
Drained(m, t, packets) ==
  [b \in DOMAIN meters[m].bands |->
     Metering!Drain(m, meters[m].bands[b], Metering!Delta(m, t), packets)]

FiredBy(m, t, packets) ==
  [i \in DOMAIN packets |-> Metering!Fired(meters[m].bands, Drained(m, t, packets), i)]

PassedBy(m, t, packets) == {i \in DOMAIN packets : FiredBy(m, t, packets)[i] = 0}

DroppedFor(m, t, packets, b) == {i \in DOMAIN packets : FiredBy(m, t, packets)[i] = b}

EntryOf(m, t, packets) ==
  [now |-> t,
   volume |-> VolumeOfBatch(meters[m].pktps, packets, PassedBy(m, t, packets)),
   passed |-> Cardinality(PassedBy(m, t, packets))]

BandsAfter(m, t, packets) ==
  [b \in DOMAIN meters[m].bands |->
    [rate |-> meters[m].bands[b].rate, burst_size |-> meters[m].bands[b].burst_size,
     bucket |-> Drained(m, t, packets)[b].bucket,
     packet_count |-> meters[m].bands[b].packet_count
                        + Cardinality(DroppedFor(m, t, packets, b))]]

MeterAfter(m, t, packets) ==
  [pktps |-> meters[m].pktps, bands |-> BandsAfter(m, t, packets),
   max_delta_t |-> meters[m].max_delta_t, used |-> t,
   packet_count |-> meters[m].packet_count + Len(packets)]

LEMMA DeltaForward ==
  ASSUME NEW m, meters[m] \in Metering!DpMeters, NEW t \in Nat
  PROVE  Metering!Delta(m, t) \in Nat /\ Metering!Delta(m, t) <= Forward(meters[m].used, t)
<1> DEFINE used == meters[m].used
           max == meters[m].max_delta_t
           long == t - used
<1>1. used \in Nat /\ max \in Nat /\ long \in Int
  BY DEF Metering!DpMeters
<1>2. Metering!Delta(m, t) = IF long < 0 THEN 0 ELSE Metering!Min({long, max})
  BY DEF Metering!Delta
<1>3. Metering!Min({long, max}) = IF long <= max THEN long ELSE max
  <2> HIDE DEF long, max
  <2>1. Metering!Min({long, max}) = Min({long, max})
    BY MeterSums
  <2>2. long \in Int /\ max \in Int
    BY <1>1
  <2>3. Min({long, max}) = IF long <= max THEN long ELSE max
    BY <2>2, OfTwo
  <2> QED  BY <2>1, <2>3
<1>4. Forward(used, t) = IF t >= used THEN t - used ELSE 0
  BY DEF Forward
<1> QED  BY <1>1, <1>2, <1>3, <1>4

(* Every packet of a batch is passed, or dropped for one band.             *)
LEMMA AllCounts ==
  ASSUME NEW m, meters[m] \in Metering!DpMeters, NEW t, NEW packets \in Seq(Nat)
  PROVE  /\ Cardinality(PassedBy(m, t, packets)) \in 0 .. Len(packets)
         /\ \A b : Cardinality(DroppedFor(m, t, packets, b)) \in Nat
         /\ DroppedBy(BandsAfter(m, t, packets)) =
              DroppedBy(meters[m].bands) + (Len(packets) - Cardinality(PassedBy(m, t, packets)))
         /\ DroppedBy(meters[m].bands) \in Int
<1> DEFINE n == Len(packets)
           bands == meters[m].bands
           k == Len(bands)
           fired == FiredBy(m, t, packets)
           passed == PassedBy(m, t, packets)
           old == [b \in DOMAIN bands |-> bands[b].packet_count]
           new == [b \in DOMAIN BandsAfter(m, t, packets) |->
                     BandsAfter(m, t, packets)[b].packet_count]
           dropped == [b \in 1 .. k |-> Cardinality({i \in 1 .. n : fired[i] = b})]
<1>1. n \in Nat /\ DOMAIN packets = 1 .. n /\ IsFiniteSet(1 .. n) /\ Cardinality(1 .. n) = n
  <2>1. n \in Nat /\ DOMAIN packets = 1 .. n
    BY LenProperties
  <2>2. 1 \in Int /\ n \in Int
    BY <2>1
  <2>3. IsFiniteSet(1 .. n) /\ Cardinality(1 .. n) = IF 1 > n THEN 0 ELSE n - 1 + 1
    BY <2>2, FS_Interval
  <2> QED  BY <2>1, <2>3
<1>2. /\ bands \in Seq(Metering!DpBands) /\ k \in Nat /\ DOMAIN bands = 1 .. k
      /\ IsFiniteSet(1 .. k) /\ \A b \in 1 .. k : bands[b].packet_count \in Nat
  <2>1. bands \in Seq(Metering!DpBands)
    BY DEF Metering!DpMeters
  <2> HIDE DEF bands
  <2>2. k \in Nat /\ DOMAIN bands = 1 .. k /\ \A b \in 1 .. k : bands[b] \in Metering!DpBands
    BY <2>1, LenProperties, ElementOfSeq
  <2> QED  BY <2>1, <2>2, FS_Interval DEF Metering!DpBands
<1>3. \A i \in 1 .. n : fired[i] \in 0 .. k
  <2> TAKE i \in 1 .. n
  <2>1. fired[i] = Metering!Fired(bands, Drained(m, t, packets), i)
    BY <1>1 DEF FiredBy
  <2> HIDE DEF fired, bands
  <2> QED  BY <1>2, <2>1, FiresOne
<1>4. passed = {i \in 1 .. n : fired[i] = 0}
  BY <1>1 DEF PassedBy
<1>5. \A b : DroppedFor(m, t, packets, b) = {i \in 1 .. n : fired[i] = b}
  BY <1>1 DEF DroppedFor
<1>6. /\ DroppedBy(bands) = SumFunctionOnSet(old, 1 .. k)
      /\ DroppedBy(BandsAfter(m, t, packets)) = SumFunctionOnSet(new, 1 .. k)
      /\ \A b \in 1 .. k : old[b] = bands[b].packet_count /\ new[b] = old[b] + dropped[b]
  <2>1. DOMAIN BandsAfter(m, t, packets) = 1 .. k
    BY <1>2 DEF BandsAfter
  <2>2. \A b \in 1 .. k : new[b] = bands[b].packet_count + Cardinality(DroppedFor(m, t, packets, b))
    BY <1>2, <2>1 DEF BandsAfter
  <2>3. \A b \in 1 .. k : old[b] = bands[b].packet_count
                            /\ dropped[b] = Cardinality(DroppedFor(m, t, packets, b))
    BY <1>2, <1>5
  <2>4. DroppedBy(bands) = SumFunctionOnSet(old, 1 .. k)
    BY <1>2 DEF DroppedBy
  <2>5. DroppedBy(BandsAfter(m, t, packets)) = SumFunctionOnSet(new, 1 .. k)
    BY <2>1 DEF DroppedBy
  <2> HIDE DEF bands, old, new, dropped
  <2> QED  BY <2>2, <2>3, <2>4, <2>5
<1> HIDE DEF fired, passed, n, k, old, new
<1>7. \A b \in 1 .. k : dropped[b] = Cardinality({i \in 1 .. n : fired[i] = b})
  OBVIOUS
<1> HIDE DEF dropped
<1>8. \A b : /\ IsFiniteSet({i \in 1 .. n : fired[i] = b})
             /\ Cardinality({i \in 1 .. n : fired[i] = b}) \in Nat
  <2> TAKE b
  <2>1. IsFiniteSet({i \in 1 .. n : fired[i] = b})
    BY <1>1, FS_Subset
  <2> QED  BY <2>1, FS_CardinalityType
<1>9. SumFunctionOnSet(dropped, 1 .. k) = Cardinality({i \in 1 .. n : fired[i] \in 1 .. k})
  <2>1. IsFiniteSet(1 .. n) /\ IsFiniteSet(1 .. k)
    BY <1>1, <1>2
  <2> DEFINE part == [b \in 1 .. k |-> {i \in 1 .. n : fired[i] = b}]
             all == {i \in 1 .. n : fired[i] \in 1 .. k}
  <2>2. \A b \in 1 .. k : part[b] \in SUBSET (1 .. n) /\ dropped[b] = Cardinality(part[b])
    BY <1>7
  <2>3. /\ \A b \in 1 .. k, i \in 1 .. n : i \in part[b] <=> fired[i] = b
        /\ all \in SUBSET (1 .. n) /\ \A i \in 1 .. n : i \in all <=> fired[i] \in 1 .. k
    OBVIOUS
  <2> HIDE DEF bands, part, all
  <2>4. CountsParts(1 .. n, 1 .. k, fired, dropped, part, all)
    BY <2>1, <2>2, <2>3 DEF CountsParts
  <2>5. SumFunctionOnSet(dropped, 1 .. k) = Cardinality(all)
    BY <2>4, SumCounts
  <2> QED  BY <2>5 DEF all
<1>10. /\ Cardinality({i \in 1 .. n : fired[i] \in 1 .. k}) = n - Cardinality(passed)
       /\ Cardinality(passed) \in 0 .. n
  <2> DEFINE D == {i \in 1 .. n : fired[i] \in 1 .. k}
  <2>1. IsFiniteSet(D) /\ IsFiniteSet(passed)
    BY <1>1, <1>4, <1>8, FS_Subset
  <2>2. D \cup passed = 1 .. n /\ D \cap passed = {}
    <3>1. \A i \in 1 .. n : i \in D \/ i \in passed
      BY <1>2, <1>3, <1>4
    <3>2. D \subseteq 1 .. n /\ passed \subseteq 1 .. n
      BY <1>4
    <3>3. \A i \in D : i \notin passed
      BY <1>4
    <3> HIDE DEF D
    <3> QED  BY <3>1, <3>2, <3>3
  <2> HIDE DEF D
  <2>3. Cardinality(D \cup passed) = Cardinality(D) + Cardinality(passed) - Cardinality(D \cap passed)
    BY <2>1, FS_Union
  <2>4. /\ Cardinality(D \cap passed) = 0 /\ Cardinality(D) \in Nat
        /\ Cardinality(passed) \in Nat
    BY <2>1, <2>2, FS_EmptySet, FS_CardinalityType
  <2>5. n = Cardinality(D) + Cardinality(passed)
    <3>1. Cardinality(1 .. n) = n /\ n \in Nat
      BY <1>1
    <3>2. Cardinality(D \cup passed) = n
      BY <2>2, <3>1
    <3> QED  BY <2>3, <2>4, <3>1, <3>2
  <2>6. Cardinality(D) = n - Cardinality(passed) /\ Cardinality(passed) \in 0 .. n
    BY <1>1, <2>4, <2>5
  <2> QED  BY <2>6 DEF D
<1>11. \A b \in 1 .. k : old[b] \in Int /\ dropped[b] \in Int /\ new[b] = old[b] + dropped[b]
  <2> TAKE b \in 1 .. k
  <2>1. old[b] \in Nat
    BY <1>2, <1>6
  <2>2. dropped[b] \in Nat
    BY <1>7, <1>8
  <2> QED  BY <1>6, <2>1, <2>2
<1>12. /\ SumFunctionOnSet(new, 1 .. k) =
            SumFunctionOnSet(old, 1 .. k) + SumFunctionOnSet(dropped, 1 .. k)
       /\ SumFunctionOnSet(old, 1 .. k) \in Int /\ SumFunctionOnSet(dropped, 1 .. k) \in Int
  <2>1. SumFunctionOnSet(old, 1 .. k) \in Int /\ SumFunctionOnSet(dropped, 1 .. k) \in Int
    BY <1>2, <1>11, SumInt
  <2>2. SumFunctionOnSet(new, 1 .. k) =
          SumFunctionOnSet(old, 1 .. k) + SumFunctionOnSet(dropped, 1 .. k)
    BY <1>2, <1>11, <2>1, SumPlus
  <2> QED  BY <2>1, <2>2
<1> QED
  <2>1. DroppedBy(BandsAfter(m, t, packets)) = DroppedBy(bands) + (n - Cardinality(passed))
    BY <1>6, <1>9, <1>10, <1>12
  <2>2. \A b : Cardinality(DroppedFor(m, t, packets, b)) \in Nat
    BY <1>5, <1>8
  <2> QED  BY <1>6, <1>10, <1>12, <2>1, <2>2 DEF n, passed

(* A batch leaves the meter as sound, with its entry in the log.           *)
LEMMA RunSound ==
  ASSUME SCALE \in Nat \ {0}, NEW m, meters[m] \in Metering!DpMeters,
         NEW l \in Seq(Entries), MeterSound(meters[m], l), NEW t \in Nat,
         NEW packets \in Seq(Nat)
  PROVE  /\ EntryOf(m, t, packets) \in Entries
         /\ MeterAfter(m, t, packets) \in Metering!DpMeters
         /\ MeterSound(MeterAfter(m, t, packets), Append(l, EntryOf(m, t, packets)))
<1> DEFINE meter == meters[m]
           bands == meters[m].bands
           k == Len(bands)
           delta == Metering!Delta(m, t)
           passed == PassedBy(m, t, packets)
           e == EntryOf(m, t, packets)
           new == BandsAfter(m, t, packets)
           after == MeterAfter(m, t, packets)
           drained == Drained(m, t, packets)
           n == Len(packets)
<1>1. /\ meter.pktps \in BOOLEAN /\ bands \in Seq(Metering!DpBands)
      /\ meter.max_delta_t \in Nat /\ meter.used \in Nat /\ meter.packet_count \in Nat
  BY DEF Metering!DpMeters
<1>2. n \in Nat /\ DOMAIN packets = 1 .. n /\ \A i \in 1 .. n : packets[i] \in Nat
  BY LenProperties, ElementOfSeq
<1>3. /\ k \in Nat /\ DOMAIN bands = 1 .. k
      /\ \A b \in 1 .. k : bands[b] \in Metering!DpBands
  <2>1. bands \in Seq(Metering!DpBands)
    BY <1>1
  <2> HIDE DEF bands
  <2> QED  BY <2>1, LenProperties, ElementOfSeq
<1>4. delta \in Nat /\ delta <= Forward(meter.used, t)
  BY DeltaForward
<1>5. /\ Cardinality(passed) \in 0 .. n
      /\ \A b : Cardinality(DroppedFor(m, t, packets, b)) \in Nat
      /\ DroppedBy(new) = DroppedBy(bands) + (n - Cardinality(passed))
      /\ DroppedBy(bands) \in Int
  BY AllCounts
<1>6. /\ passed \in SUBSET DOMAIN packets
      /\ \A b \in 1 .. k : passed \cap drained[b].exceeded = {}
  <2>1. passed = {i \in 1 .. n : FiredBy(m, t, packets)[i] = 0}
    BY <1>2 DEF PassedBy
  <2>2. ASSUME NEW i \in passed, NEW b \in 1 .. k PROVE i \notin drained[b].exceeded
    <3>1. i \in 1 .. n /\ FiredBy(m, t, packets)[i] = 0
      BY <2>1
    <3>2. FiredBy(m, t, packets)[i] = Metering!Fired(bands, drained, i)
      BY <1>2, <3>1 DEF FiredBy
    <3>3. Metering!Fired(bands, drained, i) = 0
      BY <3>1, <3>2
    <3>4. bands \in Seq(Metering!DpBands)
      BY <1>1
    <3> HIDE DEF bands, drained, passed, k
    <3>5. \A x \in DOMAIN bands : i \notin drained[x].exceeded
      BY <3>3, <3>4, FiresOne
    <3> QED  BY <1>3, <3>5
  <2> HIDE DEF passed, drained, k
  <2> QED  BY <1>2, <2>1, <2>2
<1>7. /\ e.now = t /\ e.volume = VolumeOfBatch(meter.pktps, packets, passed)
      /\ e.passed = Cardinality(passed)
      /\ e = [now |-> e.now, volume |-> e.volume, passed |-> e.passed]
  BY DEF EntryOf
<1>8. e.volume \in Nat
  <2>1. IsFiniteSet(passed) /\ \A i \in passed : packets[i] \in Nat
    <3>1. IsFiniteSet(1 .. n)
      BY <1>2, FS_Interval
    <3> HIDE DEF passed
    <3> QED  BY <1>2, <1>6, <3>1, FS_Subset
  <2>2. Cardinality(passed) \in Nat
    BY <1>2, <1>5
  <2>3. \A a, b \in Nat : a * b \in Nat
    OBVIOUS
  <2> HIDE DEF passed, e
  <2>4. SumFunctionOnSet(packets, passed) \in Nat
    BY <2>1, SumNat
  <2> QED  BY <1>7, <2>2, <2>3, <2>4 DEF VolumeOfBatch
<1>9. e \in Entries
  <2>1. e.now \in Nat /\ e.passed \in Nat
    BY <1>2, <1>5, <1>7
  <2> HIDE DEF e
  <2> QED  BY <1>7, <1>8, <2>1 DEF Entries
<1>10. /\ DOMAIN new = 1 .. k
       /\ \A b \in 1 .. k : new[b] =
            [rate |-> bands[b].rate, burst_size |-> bands[b].burst_size,
             bucket |-> drained[b].bucket,
             packet_count |-> bands[b].packet_count + Cardinality(DroppedFor(m, t, packets, b))]
  BY <1>3 DEF BandsAfter
<1>11. \A b \in 1 .. k : drained[b] = Metering!Drain(m, bands[b], delta, packets)
  BY <1>3 DEF Drained
<1>12. LogGrown(l, e, Append(l, e))
  <2> HIDE DEF e
  <2> QED  BY <1>9, LogGrows
<1>13. after = [pktps |-> meter.pktps, bands |-> new, max_delta_t |-> meter.max_delta_t,
                used |-> t, packet_count |-> meter.packet_count + n]
  BY DEF MeterAfter
<1>14. /\ (l # <<>> => meter.used = l[Len(l)].now)
       /\ \A b \in 1 .. k : BandSound(l, bands[b])
       /\ meter.packet_count = PassedOf(l) + DroppedBy(bands)
  BY <1>3 DEF MeterSound
<1>15. PassedOf(l) \in Nat
  BY LogValues
<1> HIDE DEF passed, e, new, after, drained, delta, n, k, bands, meter
<1>16. ASSUME NEW b \in 1 .. k
       PROVE  new[b] \in Metering!DpBands /\ BandSound(Append(l, e), new[b])
  <2> DEFINE band == bands[b]
  <2>1. band \in Metering!DpBands /\ BandSound(l, band)
    BY <1>3, <1>14
  <2>2. e.volume = VolumeOfBatch(meters[m].pktps, packets, passed)
    BY <1>7 DEF meter
  <2>3. /\ drained[b] = Metering!Drain(m, band, delta, packets)
        /\ passed \in SUBSET DOMAIN packets /\ passed \cap drained[b].exceeded = {}
    BY <1>6, <1>11
  <2>4. /\ new[b].rate = band.rate /\ new[b].burst_size = band.burst_size
        /\ new[b].bucket = drained[b].bucket
        /\ new[b].packet_count = band.packet_count + Cardinality(DroppedFor(m, t, packets, b))
        /\ new[b] = [rate |-> new[b].rate, burst_size |-> new[b].burst_size,
                     bucket |-> new[b].bucket, packet_count |-> new[b].packet_count]
    BY <1>10
  <2>5. Cardinality(DroppedFor(m, t, packets, b)) \in Nat
    BY <1>5
  <2> HIDE DEF band
  <2>6. /\ drained[b].bucket \in Nat
        /\ drained[b].bucket + e.volume <= Metering!Full(band)
        /\ drained[b].bucket + e.volume <= band.bucket + delta * band.rate
    <3> DEFINE d == drained[b]
               v == e.volume
    <3>1. /\ d = Metering!Drain(m, band, delta, packets) /\ passed \cap d.exceeded = {}
          /\ v = VolumeOfBatch(meters[m].pktps, packets, passed)
      BY <2>2, <2>3
    <3>2. meters[m] \in Metering!DpMeters /\ band \in Metering!DpBands /\ delta \in Nat
          /\ passed \in SUBSET DOMAIN packets
      BY <1>4, <2>1, <2>2, <2>3
    <3> HIDE DEF d, v
    <3>3. TakesAtMost(band, delta, d.bucket, v)
      BY <3>1, <3>2, DrainBounds
    <3> QED  BY <3>3 DEF d, v, TakesAtMost
  <2>7. new[b] \in Metering!DpBands
    BY <2>1, <2>4, <2>5, <2>6 DEF Metering!DpBands
  <2>8. l # <<>> => delta <= Forward(l[Len(l)].now, e.now)
    BY <1>4, <1>7, <1>14
  <2>9. BandSound(Append(l, e), new[b])
    BY <1>4, <1>9, <2>1, <2>4, <2>6, <2>7, <2>8, BandKept
  <2> QED  BY <2>7, <2>9
<1>17. new \in Seq(Metering!DpBands)
  <2>1. new \in [1 .. k -> Metering!DpBands]
    <3>1. new = [b \in 1 .. k |-> new[b]]
      BY <1>3, <1>10 DEF new, BandsAfter, bands
    <3> QED  BY <1>16, <3>1
  <2> QED  BY <1>3, <2>1
<1>18. after \in Metering!DpMeters
  <2>1. meter.packet_count + n \in Nat
    BY <1>1, <1>2
  <2> QED  BY <1>1, <1>13, <1>17, <2>1 DEF Metering!DpMeters
<1>19. MeterSound(after, Append(l, e))
  <2>1. Append(l, e)[Len(Append(l, e))].now = t
    BY <1>7, <1>12 DEF LogGrown
  <2>2. after.used = t /\ after.bands = new /\ after.packet_count = meter.packet_count + n
    BY <1>13
  <2>3. \A b \in DOMAIN after.bands : BandSound(Append(l, e), after.bands[b])
    BY <1>10, <1>16, <2>2
  <2>4. PassedOf(Append(l, e)) = PassedOf(l) + Cardinality(passed)
    BY <1>7, <1>12 DEF LogGrown
  <2>5. after.packet_count = PassedOf(Append(l, e)) + DroppedBy(after.bands)
    <3>1. Cardinality(passed) \in Int /\ n \in Int /\ PassedOf(l) \in Int /\ DroppedBy(bands) \in Int
      BY <1>2, <1>5, <1>15
    <3>2. \A a, b, c, d \in Int : (a + b) + c = (a + d) + (b + (c - d))
      OBVIOUS
    <3> QED  BY <1>5, <1>14, <2>2, <2>4, <3>1, <3>2
  <2> QED  BY <2>1, <2>2, <2>3, <2>5 DEF MeterSound
<1> QED  BY <1>9, <1>18, <1>19 DEF e, after

(* dp_netdev_run_meter makes of the meter what is said above.              *)
RunsAs(m, packets, t) ==
  /\ m \in Meters /\ packets \in Seq(Nat) /\ t \in Nat /\ meters[m] \in Metering!DpMeters
  /\ MeterSound(meters[m], log[m])
  /\ meters' = Metering!Freed([meters EXCEPT ![m] = MeterAfter(m, t, packets)])
  /\ log' = [o \in Meters |->
       IF meters'[o] = None THEN <<>>
       ELSE [log EXCEPT ![m] = Append(log[m], EntryOf(m, t, packets))][o]]

LEMMA RunIs ==
  ASSUME Metering!MeterAssumption, MeterInv, NEW p \in Pmds, Metering!dp_netdev_run_meter(p)
  PROVE  RunsAs(using[p].meter, using[p].packets, pmd_now[p])
<1> DEFINE m == using[p].meter
           packets == using[p].packets
           t == pmd_now[p]
<1>1. /\ meters \in [Meters -> Metering!DpMeters \cup {None}] /\ pmd_now \in [Pmds -> Nat]
      /\ using \in [Pmds -> [meter : Meters, packets : Batches] \cup {Metering!NotMetering}]
      /\ log \in [Meters -> Seq(Entries)] /\ using[p] # Metering!NotMetering
      /\ meters[m] # None
  BY DEF MeterInv, Metering!dp_netdev_run_meter
<1>2. m \in Meters /\ packets \in Batches /\ t \in Nat
  <2>1. using[p] \in [meter : Meters, packets : Batches]
    BY <1>1
  <2> QED  BY <1>1, <2>1
<1>3. packets \in Seq(Nat) /\ meters[m] \in Metering!DpMeters /\ MeterSound(meters[m], log[m])
  <2>1. packets \in Seq(Nat)
    BY <1>2, MeterConstants
  <2>2. meters[m] \in Metering!DpMeters
    BY <1>1, <1>2
  <2>3. MeterSound(meters[m], log[m])
    BY <1>1, <1>2 DEF MeterInv
  <2> QED  BY <2>1, <2>2, <2>3
<1> DEFINE meter == meters[m]
           bands == meters[m].bands
           drained == [b \in DOMAIN bands |->
                         Metering!Drain(m, bands[b], Metering!Delta(m, t), packets)]
           fired == [i \in DOMAIN packets |-> Metering!Fired(bands, drained, i)]
           passed == {i \in DOMAIN packets : fired[i] = 0}
           volume == IF meters[m].pktps THEN SCALE * Metering!Cardinality(passed)
                     ELSE Metering!SumFunctionOnSet(packets, passed)
           new == [b \in DOMAIN bands |-> [bands[b] EXCEPT
                     !.bucket = drained[b].bucket,
                     !.packet_count = @ + Metering!Cardinality({i \in DOMAIN packets : fired[i] = b})]]
           entry == [now |-> t, volume |-> volume, passed |-> Metering!Cardinality(passed)]
           ms == [meters EXCEPT ![m].used = t, ![m].packet_count = @ + Len(packets),
                                ![m].bands = new]
<1>4. /\ meters' = Metering!Freed(ms)
      /\ log' = [o \in Meters |-> IF meters'[o] = None THEN <<>>
                   ELSE IF o # m THEN log[o] ELSE Append(log[m], entry)]
  BY DEF Metering!dp_netdev_run_meter
<1> HIDE DEF m, packets, t
<1>5. drained = Drained(m, t, packets) /\ fired = FiredBy(m, t, packets)
      /\ passed = PassedBy(m, t, packets)
  BY DEF Drained, FiredBy, PassedBy
<1>6. entry = EntryOf(m, t, packets)
  <2>1. entry = [now |-> t, volume |-> volume, passed |-> Metering!Cardinality(passed)]
    OBVIOUS
  <2>2. volume = IF meters[m].pktps THEN SCALE * Metering!Cardinality(passed)
                 ELSE Metering!SumFunctionOnSet(packets, passed)
    OBVIOUS
  <2> HIDE DEF drained, fired, passed, entry, volume
  <2>3. volume = VolumeOfBatch(meters[m].pktps, packets, passed)
    BY <2>2, MeterSums DEF VolumeOfBatch
  <2> QED  BY <1>5, <2>1, <2>3, MeterSums DEF EntryOf
<1>7. /\ bands \in Seq(Metering!DpBands) /\ DOMAIN bands = 1 .. Len(bands)
      /\ \A b \in DOMAIN bands : bands[b] \in Metering!DpBands
      /\ meter = [pktps |-> meter.pktps, bands |-> bands, max_delta_t |-> meter.max_delta_t,
                  used |-> meter.used, packet_count |-> meter.packet_count]
  <2>1. bands \in Seq(Metering!DpBands)
    BY <1>3 DEF Metering!DpMeters
  <2>2. meter = [pktps |-> meter.pktps, bands |-> bands, max_delta_t |-> meter.max_delta_t,
                 used |-> meter.used, packet_count |-> meter.packet_count]
    BY <1>3 DEF Metering!DpMeters
  <2> HIDE DEF meter, bands
  <2>3. DOMAIN bands = 1 .. Len(bands) /\ \A b \in DOMAIN bands : bands[b] \in Metering!DpBands
    BY <2>1, LenProperties, ElementOfSeq
  <2> QED  BY <2>1, <2>2, <2>3
<1>8. new = BandsAfter(m, t, packets)
  <2>1. DOMAIN new = DOMAIN bands /\ DOMAIN BandsAfter(m, t, packets) = DOMAIN bands
    BY DEF BandsAfter
  <2>2. ASSUME NEW b \in DOMAIN bands PROVE new[b] = BandsAfter(m, t, packets)[b]
    <3> DEFINE band == bands[b]
               bucket == drained[b].bucket
               count == Metering!Cardinality({i \in DOMAIN packets : fired[i] = b})
    <3>1. new[b] = [band EXCEPT !.bucket = bucket, !.packet_count = @ + count]
      OBVIOUS
    <3>2. BandsAfter(m, t, packets)[b] =
            [rate |-> band.rate, burst_size |-> band.burst_size, bucket |-> bucket,
             packet_count |-> band.packet_count + count]
      <4>1. bucket = Drained(m, t, packets)[b].bucket
        BY <1>5
      <4>2. count = Cardinality(DroppedFor(m, t, packets, b))
        <5>1. {i \in DOMAIN packets : fired[i] = b} = DroppedFor(m, t, packets, b)
          BY <1>5 DEF DroppedFor
        <5> HIDE DEF fired
        <5> QED  BY <5>1, MeterSums
      <4> HIDE DEF bucket, count, drained
      <4> QED  BY <4>1, <4>2 DEF BandsAfter
    <3>3. band = [rate |-> band.rate, burst_size |-> band.burst_size, bucket |-> band.bucket,
                  packet_count |-> band.packet_count]
      <4>1. band \in Metering!DpBands
        BY <1>7
      <4> HIDE DEF band
      <4> QED  BY <4>1 DEF Metering!DpBands
    <3> HIDE DEF band, bucket, count, new
    <3>4. new[b] = [rate |-> band.rate, burst_size |-> band.burst_size, bucket |-> bucket,
                    packet_count |-> band.packet_count + count]
      BY <3>1, <3>3
    <3> QED  BY <3>2, <3>4
  <2>3. new = [b \in DOMAIN bands |-> new[b]]
    OBVIOUS
  <2>4. BandsAfter(m, t, packets) = [b \in DOMAIN bands |-> BandsAfter(m, t, packets)[b]]
    BY DEF BandsAfter
  <2> HIDE DEF new, bands
  <2> QED  BY <2>2, <2>3, <2>4
<1>9. ms = [meters EXCEPT ![m] = MeterAfter(m, t, packets)]
  <2> DEFINE after == MeterAfter(m, t, packets)
             n == meter.packet_count + Len(packets)
  <2>1. after = [pktps |-> meter.pktps, bands |-> new, max_delta_t |-> meter.max_delta_t,
                 used |-> t, packet_count |-> n]
    BY <1>8 DEF MeterAfter
  <2>2. ms = [meters EXCEPT ![m] = [[[meters[m] EXCEPT !.used = t]
                                       EXCEPT !.packet_count = n] EXCEPT !.bands = new]]
    <3> HIDE DEF new
    <3> QED  BY <1>1, <1>2, <1>7
  <2> HIDE DEF new, ms, after, n
  <2>3. [[[meters[m] EXCEPT !.used = t] EXCEPT !.packet_count = n] EXCEPT !.bands = new] = after
    <3>1. meters[m] = [pktps |-> meter.pktps, bands |-> bands, max_delta_t |-> meter.max_delta_t,
                       used |-> meter.used, packet_count |-> meter.packet_count]
      BY <1>7
    <3> HIDE DEF meter, bands
    <3> DEFINE first == [meters[m] EXCEPT !.used = t]
               second == [first EXCEPT !.packet_count = n]
               third == [second EXCEPT !.bands = new]
    <3>2. first = [pktps |-> meter.pktps, bands |-> bands, max_delta_t |-> meter.max_delta_t,
                   used |-> t, packet_count |-> meter.packet_count]
      BY <3>1
    <3> HIDE DEF first
    <3>3. second = [pktps |-> meter.pktps, bands |-> bands, max_delta_t |-> meter.max_delta_t,
                    used |-> t, packet_count |-> n]
      BY <3>2
    <3> HIDE DEF second
    <3>4. third = after
      BY <2>1, <3>3
    <3> QED  BY <3>4 DEF first, second, third
  <2> QED  BY <2>2, <2>3 DEF after
<1> HIDE DEF ms, entry
<1>10. \A o \in Meters : (IF o # m THEN log[o] ELSE Append(log[m], entry)) =
         [log EXCEPT ![m] = Append(log[m], EntryOf(m, t, packets))][o]
  BY <1>1, <1>6
<1>11. log' = [o \in Meters |-> IF meters'[o] = None THEN <<>>
                 ELSE [log EXCEPT ![m] = Append(log[m], EntryOf(m, t, packets))][o]]
  BY <1>4, <1>10
<1> QED  BY <1>2, <1>3, <1>4, <1>9, <1>11 DEF RunsAs, m, packets, t

LEMMA MeterRunKeeps ==
  ASSUME Metering!MeterAssumption, MeterInv, NEW p \in Pmds, Metering!dp_netdev_run_meter(p)
  PROVE  MeterInv'
<1> DEFINE m == using[p].meter
           packets == using[p].packets
           t == pmd_now[p]
           after == MeterAfter(m, t, packets)
           e == EntryOf(m, t, packets)
           ms == [meters EXCEPT ![m] = after]
           ls == [log EXCEPT ![m] = Append(log[m], e)]
<1>1. RunsAs(m, packets, t)
  BY RunIs
<1>2. /\ clock \in Nat /\ pmd_now \in [Pmds -> Nat]
      /\ meters \in [Meters -> Metering!DpMeters \cup {None}]
      /\ attached \in Meters \cup {None}
      /\ using \in [Pmds -> [meter : Meters, packets : Batches] \cup {Metering!NotMetering}]
      /\ log \in [Meters -> Seq(Entries)]
      /\ attached # None => meters[attached] # None
      /\ \A q \in Pmds : using[q] # Metering!NotMetering => meters[using[q].meter] # None
      /\ \A o \in Meters : meters[o] # None => MeterSound(meters[o], log[o])
  BY DEF MeterInv
<1>3. /\ clock' = clock /\ pmd_now' = pmd_now /\ attached' = attached
      /\ using' = [using EXCEPT ![p] = Metering!NotMetering]
  BY DEF Metering!dp_netdev_run_meter
<1>4. SCALE \in Nat \ {0} /\ None \notin Metering!DpMeters /\ None \notin Meters
  BY MeterConstants
<1> HIDE DEF m, packets, t
<1>5. /\ m \in Meters /\ packets \in Seq(Nat) /\ t \in Nat /\ meters[m] \in Metering!DpMeters
      /\ MeterSound(meters[m], log[m])
      /\ meters' = Metering!Freed(ms)
      /\ log' = [o \in Meters |-> IF meters'[o] = None THEN <<>> ELSE ls[o]]
  BY <1>1 DEF RunsAs
<1>6. /\ e \in Entries /\ after \in Metering!DpMeters
      /\ MeterSound(after, Append(log[m], e)) /\ log[m] \in Seq(Entries)
  <2>1. log[m] \in Seq(Entries)
    BY <1>2, <1>5
  <2> QED  BY <1>4, <1>5, <2>1, RunSound
<1> HIDE DEF after, e
<1>7. /\ ms \in [Meters -> Metering!DpMeters \cup {None}] /\ ls \in [Meters -> Seq(Entries)]
      /\ \A o \in Meters : ms[o] = (IF o = m THEN after ELSE meters[o])
                           /\ ls[o] = (IF o = m THEN Append(log[m], e) ELSE log[o])
  <2>1. Append(log[m], e) \in Seq(Entries)
    BY <1>6, AppendProperties
  <2> QED  BY <1>2, <1>5, <1>6, <2>1
<1>8. /\ \A o \in Meters : ms[o] # None => MeterSound(ms[o], ls[o])
      /\ \A o \in Meters : meters[o] # None => ms[o] # None
  BY <1>2, <1>4, <1>6, <1>7
<1> HIDE DEF ms, ls
<1>9. using' \in [Pmds -> [meter : Meters, packets : Batches] \cup {Metering!NotMetering}]
  BY <1>2, <1>3
<1>10. \A q \in Pmds : using'[q] # Metering!NotMetering => ms[using'[q].meter] # None
  <2> TAKE q \in Pmds
  <2> HAVE using'[q] # Metering!NotMetering
  <2>1. using'[q] = using[q] /\ using[q] # Metering!NotMetering
    BY <1>2, <1>3
  <2>2. using[q] \in [meter : Meters, packets : Batches]
    BY <1>2, <2>1
  <2>3. using[q].meter \in Meters /\ meters[using[q].meter] # None
    BY <1>2, <2>1, <2>2
  <2> QED  BY <1>8, <2>1, <2>3
<1>11. clock' \in Nat /\ pmd_now' \in [Pmds -> Nat] /\ attached' \in Meters \cup {None}
       /\ (attached' # None => ms[attached'] # None)
  BY <1>2, <1>3, <1>8
<1> QED  BY <1>5, <1>7, <1>8, <1>9, <1>10, <1>11, FreedKeeps

LEMMA MeterSetKeeps ==
  ASSUME Metering!MeterAssumption, MeterInv, Metering!dpif_netdev_meter_set
  PROVE  MeterInv'
<1>1. /\ clock \in Nat /\ pmd_now \in [Pmds -> Nat]
      /\ meters \in [Meters -> Metering!DpMeters \cup {None}]
      /\ using \in [Pmds -> [meter : Meters, packets : Batches] \cup {Metering!NotMetering}]
      /\ log \in [Meters -> Seq(Entries)]
      /\ \A q \in Pmds : using[q] # Metering!NotMetering => meters[using[q].meter] # None
      /\ \A o \in Meters : IF meters[o] = None THEN log[o] = <<>> ELSE MeterSound(meters[o], log[o])
  BY DEF MeterInv
<1>2. PICK c \in Configs, m \in Meters :
        /\ meters[m] = None /\ attached' = m /\ UNCHANGED <<clock, pmd_now, using>>
        /\ meters' = Metering!Freed([meters EXCEPT ![m] = Metering!NewMeter(c)])
        /\ log' = [o \in Meters |-> IF meters'[o] = None THEN <<>> ELSE log[o]]
  BY DEF Metering!dpif_netdev_meter_set
<1>3. SCALE \in Nat \ {0} /\ None \notin Metering!DpMeters /\ None \notin Meters
  BY MeterConstants
<1> DEFINE new == Metering!NewMeter(c)
           ms == [meters EXCEPT ![m] = new]
<1>4. new \in Metering!DpMeters /\ MeterSound(new, <<>>)
  BY <1>1, NewMeterSound
<1> HIDE DEF new
<1>5. /\ ms \in [Meters -> Metering!DpMeters \cup {None}]
      /\ \A o \in Meters : ms[o] = (IF o = m THEN new ELSE meters[o])
  BY <1>1, <1>4
<1>6. /\ \A o \in Meters : ms[o] # None => MeterSound(ms[o], log[o])
      /\ \A o \in Meters : meters[o] # None => ms[o] # None
      /\ ms[m] # None
  BY <1>1, <1>2, <1>3, <1>4, <1>5
<1>7. meters' = Metering!Freed(ms)
  BY <1>2 DEF new
<1> HIDE DEF ms
<1>8. using' \in [Pmds -> [meter : Meters, packets : Batches] \cup {Metering!NotMetering}]
  BY <1>1, <1>2
<1>9. \A q \in Pmds : using'[q] # Metering!NotMetering => ms[using'[q].meter] # None
  <2> TAKE q \in Pmds
  <2> HAVE using'[q] # Metering!NotMetering
  <2>1. using'[q] = using[q] /\ using[q] # Metering!NotMetering
    BY <1>2
  <2>2. using[q] \in [meter : Meters, packets : Batches]
    BY <1>1, <2>1
  <2>3. using[q].meter \in Meters /\ meters[using[q].meter] # None
    BY <1>1, <2>1, <2>2
  <2> QED  BY <1>6, <2>1, <2>3
<1>10. clock' \in Nat /\ pmd_now' \in [Pmds -> Nat] /\ attached' \in Meters \cup {None}
       /\ (attached' # None => ms[attached'] # None)
  BY <1>1, <1>2, <1>6
<1>11. log' = [o \in Meters |-> IF meters'[o] = None THEN <<>> ELSE log[o]]
  BY <1>2
<1> QED  BY <1>1, <1>5, <1>6, <1>7, <1>8, <1>9, <1>10, <1>11, FreedKeeps

LEMMA MeterDelKeeps ==
  ASSUME Metering!MeterAssumption, MeterInv, Metering!dpif_netdev_meter_del
  PROVE  MeterInv'
<1>1. /\ clock' = clock /\ pmd_now' = pmd_now /\ using' = using /\ attached' = None
      /\ meters' = Metering!Freed(meters)
      /\ log' = [o \in Meters |-> IF meters'[o] = None THEN <<>> ELSE log[o]]
  BY DEF Metering!dpif_netdev_meter_del
<1>2. /\ clock \in Nat /\ pmd_now \in [Pmds -> Nat]
      /\ meters \in [Meters -> Metering!DpMeters \cup {None}]
      /\ using \in [Pmds -> [meter : Meters, packets : Batches] \cup {Metering!NotMetering}]
      /\ log \in [Meters -> Seq(Entries)]
      /\ \A q \in Pmds : using[q] # Metering!NotMetering => meters[using[q].meter] # None
      /\ \A o \in Meters : meters[o] # None => MeterSound(meters[o], log[o])
  BY DEF MeterInv
<1>3. /\ clock' \in Nat /\ pmd_now' \in [Pmds -> Nat] /\ attached' \in Meters \cup {None}
      /\ using' \in [Pmds -> [meter : Meters, packets : Batches] \cup {Metering!NotMetering}]
      /\ (attached' # None => meters[attached'] # None)
      /\ \A q \in Pmds : using'[q] # Metering!NotMetering => meters[using'[q].meter] # None
  BY <1>1, <1>2
<1> QED  BY <1>1, <1>2, <1>3, FreedKeeps

(* The other actions leave the meters alone.                               *)
LEMMA MeterAsideKeeps ==
  ASSUME Metering!MeterAssumption, MeterInv, meters' = meters, log' = log,
         attached' = attached, clock' \in Nat, pmd_now' \in [Pmds -> Nat],
         using' \in [Pmds -> [meter : Meters, packets : Batches] \cup {Metering!NotMetering}],
         \A p \in Pmds : using'[p] # Metering!NotMetering => meters[using'[p].meter] # None
  PROVE  MeterInv'
<1>1. /\ meters \in [Meters -> Metering!DpMeters \cup {None}]
      /\ attached \in Meters \cup {None} /\ log \in [Meters -> Seq(Entries)]
      /\ attached # None => meters[attached] # None
      /\ \A m \in Meters :
           IF meters[m] = None THEN log[m] = <<>> ELSE MeterSound(meters[m], log[m])
  BY DEF MeterInv
<1> QED  BY <1>1 DEF MeterInv

LEMMA MeterStepKeeps ==
  ASSUME Metering!MeterAssumption, MeterInv, [Metering!Next]_(Metering!vars)
  PROVE  MeterInv'
<1>1. /\ clock \in Nat /\ pmd_now \in [Pmds -> Nat]
      /\ using \in [Pmds -> [meter : Meters, packets : Batches] \cup {Metering!NotMetering}]
      /\ attached \in Meters \cup {None} /\ (attached # None => meters[attached] # None)
      /\ \A q \in Pmds : using[q] # Metering!NotMetering => meters[using[q].meter] # None
  BY DEF MeterInv
<1>2. CASE Metering!Tick
  <2>1. /\ clock' = clock + 1 /\ pmd_now' = pmd_now /\ meters' = meters /\ attached' = attached
        /\ using' = using /\ log' = log
    BY <1>2 DEF Metering!Tick
  <2>2. clock' \in Nat
    BY <1>1, <2>1
  <2> QED  BY <1>1, <2>1, <2>2, MeterAsideKeeps
<1>3. CASE Metering!dpif_netdev_meter_set
  BY <1>3, MeterSetKeeps
<1>4. CASE Metering!dpif_netdev_meter_del
  BY <1>4, MeterDelKeeps
<1>5. ASSUME NEW p \in Pmds, Metering!pmd_thread_ctx_time_update(p) PROVE MeterInv'
  <2>1. /\ clock' = clock /\ pmd_now' = [pmd_now EXCEPT ![p] = clock] /\ meters' = meters
        /\ attached' = attached /\ using' = using /\ log' = log
    BY <1>5 DEF Metering!pmd_thread_ctx_time_update
  <2>2. pmd_now' \in [Pmds -> Nat]
    BY <1>1, <2>1
  <2> QED  BY <1>1, <2>1, <2>2, MeterAsideKeeps
<1>6. ASSUME NEW p \in Pmds, Metering!dp_meter_lookup(p) PROVE MeterInv'
  <2>1. PICK b \in Batches :
          /\ using' = [using EXCEPT ![p] = [meter |-> attached, packets |-> b]]
          /\ attached # None
          /\ clock' = clock /\ pmd_now' = pmd_now /\ meters' = meters
          /\ attached' = attached /\ log' = log
    BY <1>6 DEF Metering!dp_meter_lookup
  <2>2. [meter |-> attached, packets |-> b] \in [meter : Meters, packets : Batches]
    BY <1>1, <2>1
  <2>3. using' \in [Pmds -> [meter : Meters, packets : Batches] \cup {Metering!NotMetering}]
    BY <1>1, <2>1, <2>2
  <2>4. \A q \in Pmds : using'[q] # Metering!NotMetering => meters[using'[q].meter] # None
    <3> TAKE q \in Pmds
    <3>1. CASE q = p
      BY <1>1, <2>1, <3>1
    <3>2. CASE q # p
      BY <1>1, <2>1, <3>2
    <3> QED  BY <3>1, <3>2
  <2>5. clock' \in Nat /\ pmd_now' \in [Pmds -> Nat]
    BY <1>1, <2>1
  <2> QED  BY <2>1, <2>3, <2>4, <2>5, MeterAsideKeeps
<1>7. ASSUME NEW p \in Pmds, Metering!dp_netdev_run_meter(p) PROVE MeterInv'
  BY <1>7, MeterRunKeeps
<1>8. CASE UNCHANGED (Metering!vars)
  BY <1>1, <1>8, MeterAsideKeeps DEF Metering!vars
<1> QED  BY <1>2, <1>3, <1>4, <1>5, <1>6, <1>7, <1>8 DEF Metering!Next

LEMMA MeterStarts ==
  ASSUME Metering!MeterAssumption, Metering!Init
  PROVE  MeterInv
<1>1. /\ clock = 0 /\ pmd_now = [p \in Pmds |-> 0] /\ meters = [m \in Meters |-> None]
      /\ attached = None /\ using = [p \in Pmds |-> Metering!NotMetering]
      /\ log = [m \in Meters |-> <<>>]
  BY DEF Metering!Init
<1>2. <<>> \in Seq(Entries)
  OBVIOUS
<1> QED  BY <1>1, <1>2 DEF MeterInv

(* What the sums of the properties are.                                    *)
LEMMA MeterReads ==
  ASSUME MeterInv, NEW m \in Meters
  PROVE  /\ \A i, j : Metering!Volume(m, i, j) = VolumeOf(log[m], i, j)
         /\ \A i, j : Metering!Credited(m, i, j) = CreditOf(log[m], i, j)
<1> DEFINE l == log[m]
           v == [n \in DOMAIN l |-> l[n].volume]
           c == [n \in 2 .. Len(l) |-> Metering!Max({0, l[n].now - l[n - 1].now})]
           d == [n \in 2 .. Len(l) |-> Forward(l[n - 1].now, l[n].now)]
<1>1. l \in Seq(Entries)
  BY DEF MeterInv
<1>2. \A i, j : /\ Metering!Volume(m, i, j) = Metering!SumFunctionOnSet(v, i .. j)
                /\ VolumeOf(l, i, j) = SumFunctionOnSet(v, i .. j)
                /\ Metering!Credited(m, i, j) = Metering!SumFunctionOnSet(c, i + 1 .. j)
                /\ CreditOf(l, i, j) = SumFunctionOnSet(d, i + 1 .. j)
  BY DEF Metering!Volume, Metering!Credited, VolumeOf, CreditOf
<1>3. \A n \in 2 .. Len(l) : Metering!Max({0, l[n].now - l[n - 1].now}) = Forward(l[n - 1].now, l[n].now)
  <2> TAKE n \in 2 .. Len(l)
  <2>1. l[n].now \in Nat /\ l[n - 1].now \in Nat
    <3> HIDE DEF l
    <3>1. Len(l) \in Nat /\ \A i \in 1 .. Len(l) : l[i].now \in Nat
      BY <1>1, LogValues
    <3>2. n \in 1 .. Len(l) /\ n - 1 \in 1 .. Len(l)
      BY <3>1
    <3> QED  BY <3>1, <3>2
  <2> DEFINE t == l[n].now
             u == l[n - 1].now
             w == t - u
  <2>2. w \in Int /\ 0 \in Int
    BY <2>1
  <2> HIDE DEF w, t, u
  <2>3. Metering!Max({0, w}) = Max({0, w})
    BY MeterSums
  <2>4. Max({0, w}) = IF 0 >= w THEN 0 ELSE w
    BY <2>2, OfTwo
  <2>5. t \in Nat /\ u \in Nat /\ w = t - u
    BY <2>1 DEF t, u, w
  <2>6. (IF 0 >= w THEN 0 ELSE w) = Forward(u, t)
    BY <2>5 DEF Forward
  <2>7. Metering!Max({0, w}) = Forward(u, t)
    BY <2>3, <2>4, <2>6
  <2> QED  BY <2>7 DEF t, u, w
<1>4. c = d
  BY <1>3
<1> HIDE DEF v, c, d
<1> QED  BY <1>2, <1>4, MeterSums DEF l

LEMMA MeterFollows ==
  ASSUME MeterInv
  PROVE  Metering!MeterConforms /\ Metering!MeterCounts
<1>1. \A m \in Meters : meters[m] # None => MeterSound(meters[m], log[m])
  BY DEF MeterInv
<1>2. Metering!MeterConforms
  <2> SUFFICES ASSUME NEW m \in Meters, meters[m] # None, NEW i \in DOMAIN log[m],
                      NEW j \in DOMAIN log[m], NEW b \in DOMAIN meters[m].bands, i <= j
               PROVE  Metering!Volume(m, i, j) <=
                        Metering!Full(meters[m].bands[b])
                          + meters[m].bands[b].rate * Metering!Credited(m, i, j)
    BY DEF Metering!MeterConforms
  <2>1. BandSound(log[m], meters[m].bands[b])
    BY <1>1 DEF MeterSound
  <2>2. VolumeOf(log[m], i, j) <=
          Metering!Full(meters[m].bands[b]) + meters[m].bands[b].rate * CreditOf(log[m], i, j)
    BY <2>1 DEF BandSound
  <2>3. /\ Metering!Volume(m, i, j) = VolumeOf(log[m], i, j)
        /\ Metering!Credited(m, i, j) = CreditOf(log[m], i, j)
    BY MeterReads
  <2> QED  BY <2>2, <2>3
<1>3. Metering!MeterCounts
  <2> SUFFICES ASSUME NEW m \in Meters, meters[m] # None
               PROVE  meters[m].packet_count =
                 Metering!SumFunction([n \in DOMAIN log[m] |-> log[m][n].passed])
                 + Metering!SumFunction([b \in DOMAIN meters[m].bands |-> meters[m].bands[b].packet_count])
    BY DEF Metering!MeterCounts
  <2>1. meters[m].packet_count = PassedOf(log[m]) + DroppedBy(meters[m].bands)
    BY <1>1 DEF MeterSound
  <2> DEFINE f == [n \in DOMAIN log[m] |-> log[m][n].passed]
             g == [b \in DOMAIN meters[m].bands |-> meters[m].bands[b].packet_count]
  <2>2. DOMAIN f = DOMAIN log[m] /\ DOMAIN g = DOMAIN meters[m].bands
    OBVIOUS
  <2>3. /\ PassedOf(log[m]) = SumFunctionOnSet(f, DOMAIN log[m])
        /\ DroppedBy(meters[m].bands) = SumFunctionOnSet(g, DOMAIN meters[m].bands)
    BY DEF PassedOf, DroppedBy
  <2> HIDE DEF f, g
  <2>4. Metering!SumFunction(f) = PassedOf(log[m]) /\ Metering!SumFunction(g) = DroppedBy(meters[m].bands)
    BY <2>2, <2>3, MeterSums
  <2>5. meters[m].packet_count = Metering!SumFunction(f) + Metering!SumFunction(g)
    BY <2>1, <2>4
  <2> QED  BY <2>5 DEF f, g
<1> QED  BY <1>2, <1>3

(* Whatever the threads do and their clocks say, a meter lets no more      *)
(* through between two batches than each of its bands allows, and has      *)
(* counted every packet as let through or as dropped for one band:         *)
(* dp_netdev_run_meter, and the commands that set and delete meters.       *)
THEOREM MeterIsSound ==
  ASSUME Metering!MeterAssumption
  PROVE  Metering!Spec => [](Metering!MeterConforms /\ Metering!MeterCounts)
<1>1. Metering!Init => MeterInv
  BY MeterStarts
<1>2. MeterInv /\ [Metering!Next]_(Metering!vars) => MeterInv'
  BY MeterStepKeeps
<1>3. MeterInv => Metering!MeterConforms /\ Metering!MeterCounts
  BY MeterFollows
<1> QED  BY <1>1, <1>2, <1>3, PTL DEF Metering!Spec

=============================================================================
