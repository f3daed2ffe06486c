--------------------------- MODULE FlowCacheProofs ---------------------------
(***************************************************************************)
(* Proofs about FlowCache, for every number of keys, mega flows and flows, *)
(* every size of the caches and of the table, and every batch.             *)
(***************************************************************************)
EXTENDS MCDatapath, FiniteSetTheorems, SequenceTheorems, TLAPS

(* The types of the variables.                                             *)
FlowType == [mega : Megas \cup {None}, dead : BOOLEAN, ref_cnt : Int]
MissedType == [packet : Nat, recv_idx : Nat]
MapType == [packet : Nat, flow : Flows \cup {None}]
BatchType == [flow : Flows, packets : Seq(Nat)]
ExecutedType == [packet : Nat, flow : Flows \cup {UPCALL}]

InputType == [
  caching : SUBSET {"EMC", "SMC"},
  packets : Seq(Keys \cup {Runt}),
  next : Nat,
  missed : Seq(MissedType),
  rules : Seq(Flows \cup {None}),
  made : Flows \cup {None},
  flow_map : Seq(MapType),
  batches : Seq(BatchType),
  executed : Seq(ExecutedType),
  dropped : SUBSET Nat,
  dead : SUBSET Flows,
  removed : BOOLEAN ]

TypeInv ==
  /\ flow \in [Flows -> FlowType] /\ classifier \in SUBSET Flows
  /\ flow_table \in [TABLE_SLOTS -> Flows \cup {None}]
  /\ updating \in [op : {"none", "put", "del", "dead"}, flow : Flows \cup {None}]
  /\ emc \in [EMC_ENTRIES -> [key : Keys \cup {None}, flow : Flows \cup {None}]]

SmcType == smc \in [SMC_ENTRIES -> [sig : Nat, flow_idx : SMC_INDEXES \cup {None}]]

Phases == {"idle", "dfc", "smc", "lookup", "upcall", "install", "insert",
           "enqueue", "queue", "execute"}

TypeOK == TypeInv /\ SmcType /\ pc \in Phases /\ in \in InputType

(* The holder of flow_mutex works on one flow: it is in the classifier     *)
(* first and leaves it first, and the table refers to it in between.       *)
UpdatingInv ==
  /\ updating.op = "none" <=> updating.flow = None
  /\ updating.op = "put" => updating.flow \in classifier
  /\ updating.op \in {"del", "dead"} => updating.flow \notin classifier
  /\ \A s \in TABLE_SLOTS :
       flow_table[s] = None \/ flow_table[s] \in classifier
         \/ (updating.op = "del" /\ flow_table[s] = updating.flow)

(* A flow that can be looked up is not dead, and one that is neither used  *)
(* nor dead is being removed.                                              *)
FlowInv ==
  \A f \in Flows :
    /\ f \in classifier \/ f = updating.flow => flow[f].mega \in Megas /\ ~flow[f].dead
    /\ flow[f].mega \in Megas /\ ~flow[f].dead => f \in classifier \/ f = updating.flow
    /\ flow[f].mega = None => flow[f] = Unused

MegaInv == \A f, g \in classifier : flow[f].mega = flow[g].mega => f = g

(* An entry of the EMC refers to a flow that matches its key.              *)
EmcInv ==
  \A e \in EMC_ENTRIES : emc[e].flow # None =>
    emc[e].key \in Keys /\ flow[emc[e].flow].mega = mega_of[emc[e].key]

TableInv == UpdatingInv /\ FlowInv /\ MegaInv /\ EmcInv /\ RefsExact

-----------------------------------------------------------------------------
(* Where the thread is in the loop, and what its arrays hold.              *)
PhaseInv ==
  /\ pc = "idle" => in = NoBatch
  /\ in.next >= 1
  /\ pc \in {"idle", "dfc", "smc"} => in.rules = <<>>
  /\ pc = "lookup" => Len(in.rules) = in.next - 1 /\ in.next <= Len(in.missed) + 1
  /\ pc \notin {"idle", "dfc", "smc", "lookup"} => Len(in.rules) = Len(in.missed)
  /\ pc \in {"install", "insert"} => in.next <= Len(in.missed) /\ in.rules[in.next] = None
  /\ pc = "insert" => in.made \in Flows

(* How far dfc_processing has come.                                        *)
DfcInv ==
  pc = "dfc" =>
    /\ in.next <= Len(in.packets) + 1
    /\ \A i \in DOMAIN in.flow_map : in.flow_map[i].packet < in.next
    /\ \A j \in DOMAIN in.batches : \A a \in DOMAIN in.batches[j].packets :
         in.batches[j].packets[a] < in.next
    /\ \A p \in in.dropped : p < in.next
    /\ in.missed = <<>> => in.flow_map = <<>>

IsPacket(r, i) == i \in DOMAIN r.packets /\ r.packets[i] \in Keys

(* Misses keep the place in flow_map of their packet.                      *)
MissedInv ==
  /\ \A i \in DOMAIN in.missed :
       /\ in.missed[i].recv_idx \in DOMAIN in.flow_map
       /\ in.flow_map[in.missed[i].recv_idx].packet = in.missed[i].packet
  /\ \A i, j \in DOMAIN in.missed : i < j => in.missed[i].packet < in.missed[j].packet

MapInv ==
  /\ \A i \in DOMAIN in.flow_map : IsPacket(in, in.flow_map[i].packet)
  /\ \A i, j \in DOMAIN in.flow_map : i < j => in.flow_map[i].packet < in.flow_map[j].packet

BatchPackets ==
  \A j \in DOMAIN in.batches : \A i \in DOMAIN in.batches[j].packets :
    IsPacket(in, in.batches[j].packets[i])

(* The flow f matches packet i, and was not dead when the batch came.      *)
Right(fl, r, i, f) ==
  f # None => fl[f].mega = mega_of[r.packets[i]] /\ f \notin r.dead

RightRules ==
  \A i \in DOMAIN in.rules \cap DOMAIN in.missed :
    Right(flow, in, in.missed[i].packet, in.rules[i])
RightMap ==
  \A i \in DOMAIN in.flow_map : Right(flow, in, in.flow_map[i].packet, in.flow_map[i].flow)
RightMade == pc = "insert" => Right(flow, in, in.missed[in.next].packet, in.made)
RightBatches ==
  \A j \in DOMAIN in.batches : \A i \in DOMAIN in.batches[j].packets :
    Right(flow, in, in.batches[j].packets[i], in.batches[j].flow)

DeadInv == pc # "idle" => \A f \in in.dead : flow[f].dead

InputInv ==
  /\ PhaseInv /\ DfcInv /\ MissedInv /\ MapInv /\ BatchPackets
  /\ RightRules /\ RightMap /\ RightMade /\ RightBatches /\ DeadInv

CacheInv == TypeOK /\ TableInv /\ InputInv

-----------------------------------------------------------------------------
(* The order of packets.                                                   *)

(* A packet that was batched came before those in flow_map that are not.   *)
Waiting == {i \in DOMAIN in.flow_map : pc = "queue" => i >= in.next}

BatchInv ==
  /\ \A j, l \in DOMAIN in.batches : in.batches[j].flow = in.batches[l].flow => j = l
  /\ \A j \in DOMAIN in.batches : \A a, b \in DOMAIN in.batches[j].packets :
       a < b => in.batches[j].packets[a] < in.batches[j].packets[b]
  /\ \A j, l \in DOMAIN in.batches :
     \A a \in DOMAIN in.batches[j].packets, b \in DOMAIN in.batches[l].packets :
       in.batches[j].packets[a] = in.batches[l].packets[b] => j = l
  /\ pc # "execute" =>
       \A j \in DOMAIN in.batches : \A a \in DOMAIN in.batches[j].packets, i \in Waiting :
         in.batches[j].packets[a] < in.flow_map[i].packet

(* The flow of a miss gets to its place in flow_map at the end.            *)
Enqueueing(m) == pc \in {"queue", "execute"} \/ (pc = "enqueue" /\ m < in.next)

EnqueuedInv ==
  /\ \A m \in DOMAIN in.missed :
       in.flow_map[in.missed[m].recv_idx].flow = IF Enqueueing(m) THEN in.rules[m] ELSE None
  /\ \A i \in DOMAIN in.flow_map :
       in.flow_map[i].flow = None => \E m \in DOMAIN in.missed : in.missed[m].recv_idx = i

(* A miss that got no rule is executed by the upcall, or dropped.          *)
UpcallIsOver == pc \in {"enqueue", "queue", "execute"}
Behind(m) == UpcallIsOver \/ (pc \in {"upcall", "install", "insert"} /\ m < in.next)
BehindUpcall(m) == Behind(m) \/ (pc \in {"install", "insert"} /\ m = in.next)
NoRule(m) == m \in DOMAIN in.missed /\ m \in DOMAIN in.rules /\ in.rules[m] = None
ExecutedPackets == {in.executed[i].packet : i \in DOMAIN in.executed}

UpcallInv ==
  /\ \A i \in DOMAIN in.executed : in.executed[i].flow = UPCALL =>
       \E m \in DOMAIN in.missed :
         NoRule(m) /\ BehindUpcall(m) /\ in.missed[m].packet = in.executed[i].packet
  /\ \A p \in in.dropped :
       \/ p \in DOMAIN in.packets /\ in.packets[p] = Runt
       \/ \E m \in DOMAIN in.missed : NoRule(m) /\ Behind(m) /\ in.missed[m].packet = p
  /\ \A m \in DOMAIN in.missed :
       NoRule(m) /\ BehindUpcall(m) => in.missed[m].packet \in in.dropped \cup ExecutedPackets

ExecutedInv ==
  /\ \A i \in DOMAIN in.executed : in.executed[i].flow # UPCALL =>
       /\ pc = "execute"
       /\ \E j \in DOMAIN in.batches : \E a \in DOMAIN in.batches[j].packets :
            /\ j < in.next /\ in.executed[i].flow = in.batches[j].flow
            /\ in.executed[i].packet = in.batches[j].packets[a]
  /\ \A i, j \in DOMAIN in.executed :
       i < j /\ in.executed[i].flow = in.executed[j].flow =>
         in.executed[i].packet < in.executed[j].packet
  /\ \A i, j \in DOMAIN in.executed :
       i < j /\ in.executed[j].flow = UPCALL => in.executed[i].flow = UPCALL
  /\ \A i, j \in DOMAIN in.executed :
       in.executed[i].packet = in.executed[j].packet => i = j
  /\ \A i \in DOMAIN in.executed : in.executed[i].packet \notin in.dropped
  /\ \A j \in DOMAIN in.batches : \A a \in DOMAIN in.batches[j].packets :
       /\ in.batches[j].packets[a] \notin in.dropped
       /\ (pc = "execute" /\ j < in.next) \/ in.batches[j].packets[a] \notin ExecutedPackets

(* Every packet is somewhere.                                              *)
Somewhere(p) ==
  \/ p \in in.dropped \cup ExecutedPackets
  \/ \E j \in DOMAIN in.batches : \E a \in DOMAIN in.batches[j].packets :
       in.batches[j].packets[a] = p /\ (pc = "execute" => j >= in.next)
  \/ pc # "execute" /\ \E i \in Waiting : in.flow_map[i].packet = p

AllInv ==
  pc # "idle" =>
    \A p \in DOMAIN in.packets : (pc = "dfc" => p < in.next) => Somewhere(p)

(* While no flow is removed, the flows of the packets are in the           *)
(* classifier, and an upcall comes before the packets its flow is used for.*)
Fresh(i, f) ==
  f # None =>
    /\ f \in classifier
    /\ \A x \in DOMAIN in.executed :
         in.executed[x].flow = UPCALL
           /\ mega_of[in.packets[in.executed[x].packet]] = mega_of[in.packets[i]]
         => in.executed[x].packet < i

FreshInv ==
  /\ pc # "idle" /\ updating.op \in {"del", "dead"} => in.removed
  /\ ~in.removed =>
       /\ \A i \in DOMAIN in.rules \cap DOMAIN in.missed : Fresh(in.missed[i].packet, in.rules[i])
       /\ \A i \in DOMAIN in.flow_map : Fresh(in.flow_map[i].packet, in.flow_map[i].flow)
       /\ \A j \in DOMAIN in.batches : \A a \in DOMAIN in.batches[j].packets :
            Fresh(in.batches[j].packets[a], in.batches[j].flow)

OrderInv ==
  BatchInv /\ EnqueuedInv /\ UpcallInv /\ ExecutedInv /\ AllInv /\ FreshInv

-----------------------------------------------------------------------------
(* The entries of the EMC.                                                 *)

EntriesOf(f) == {e \in EMC_ENTRIES : emc[e].flow = f}

(* A key has an entry, and what a lookup finds there is alive.             *)
LEMMA EntryForKey ==
  ASSUME CacheAssumption, NEW k \in Keys
  PROVE  /\ emc_pos[k][1] \in EMC_ENTRIES /\ emc_pos[k][2] \in EMC_ENTRIES
         /\ EntryFor(k) \in EMC_ENTRIES
<1>1. emc_pos[k] \in EMC_ENTRIES \X EMC_ENTRIES
  BY DEF CacheAssumption
<1>2. emc_pos[k][1] \in EMC_ENTRIES /\ emc_pos[k][2] \in EMC_ENTRIES
  BY <1>1
<1> QED
  BY <1>2 DEF EntryFor

LEMMA EmcLookupAlive ==
  ASSUME CacheAssumption, TypeInv, NEW k \in Keys, EmcInv, emc_lookup(k) # None
  PROVE  /\ emc_lookup(k) \in Flows
         /\ flow[emc_lookup(k)].mega = mega_of[k] /\ ~flow[emc_lookup(k)].dead
<1>1. PICK e \in EMC_ENTRIES :
        emc[e].key = k /\ emc_entry_alive(e) /\ emc_lookup(k) = emc[e].flow
  BY EntryForKey, Zenon DEF emc_lookup
<1>2. emc[e].flow \in Flows
  BY <1>1 DEF TypeInv, emc_entry_alive
<1> QED
  BY <1>1, <1>2 DEF EmcInv, emc_entry_alive

(* One entry is changed: how many entries a flow has then.                 *)
LEMMA EntriesCount ==
  ASSUME CacheAssumption, NEW f
  PROVE  IsFiniteSet(EntriesOf(f)) /\ Cardinality(EntriesOf(f)) \in Nat
<1>1. IsFiniteSet(EMC_ENTRIES)
  BY DEF CacheAssumption
<1>2. IsFiniteSet(EntriesOf(f))
  BY <1>1, FS_Subset, Zenon DEF EntriesOf
<1> QED
  BY <1>2, FS_CardinalityType

LEMMA EntryChanges ==
  ASSUME CacheAssumption, NEW e \in EMC_ENTRIES, NEW was, NEW now, was # now,
         emc[e].flow = was, emc'[e].flow = now,
         \A x \in EMC_ENTRIES : x # e => emc'[x].flow = emc[x].flow,
         NEW f
  PROVE  Cardinality(EntriesOf(f)') =
           Cardinality(EntriesOf(f)) - (IF f = was THEN 1 ELSE 0) + (IF f = now THEN 1 ELSE 0)
<1>1. IsFiniteSet(EntriesOf(f)) /\ Cardinality(EntriesOf(f)) \in Nat
  BY EntriesCount
<1>2. CASE f = was
  <2>1. e \in EntriesOf(f) /\ EntriesOf(f)' = EntriesOf(f) \ {e}
    BY <1>2 DEF EntriesOf
  <2>2. Cardinality(EntriesOf(f) \ {e}) = Cardinality(EntriesOf(f)) - 1
    BY ONLY <1>1, <2>1, FS_RemoveElement
  <2> QED
    BY <1>1, <1>2, <2>1, <2>2
<1>3. CASE f = now
  <2>1. e \notin EntriesOf(f) /\ EntriesOf(f)' = EntriesOf(f) \cup {e}
    BY <1>3 DEF EntriesOf
  <2>2. Cardinality(EntriesOf(f) \cup {e}) = Cardinality(EntriesOf(f)) + 1
    BY ONLY <1>1, <2>1, FS_AddElement
  <2> QED
    BY <1>1, <1>3, <2>1, <2>2
<1>4. CASE f # was /\ f # now
  <2>1. EntriesOf(f)' = EntriesOf(f)
    BY <1>4 DEF EntriesOf
  <2> QED
    BY <1>1, <1>4, <2>1
<1> QED
  BY <1>2, <1>3, <1>4

(* Only the entry of the key is changed.  What it referred to loses a      *)
(* reference, and what it refers to gets one.                              *)
FlowsStay ==
  \A f \in Flows : flow'[f].mega = flow[f].mega /\ flow'[f].dead = flow[f].dead

Added(f) == IF f \in classifier \/ updating.flow = f THEN 1 ELSE 0

LEMMA InsertTypes ==
  ASSUME CacheAssumption, TypeInv, NEW k \in Keys, NEW f \in Flows,
         emc_insert(flow, k, f)
  PROVE  /\ flow' \in [Flows -> FlowType] /\ FlowsStay
         /\ emc' \in [EMC_ENTRIES -> [key : Keys \cup {None}, flow : Flows \cup {None}]]
         /\ LET e == EntryFor(k)
                was == emc[e].flow
                now == IF was = f \/ flow[f].ref_cnt > 0 THEN f ELSE None
            IN  /\ e \in EMC_ENTRIES
                /\ emc' = [emc EXCEPT ![e] = [key |-> k, flow |-> now]]
                /\ \A g \in Flows : flow'[g].ref_cnt = flow[g].ref_cnt
                     - (IF g = was /\ was # now THEN 1 ELSE 0)
                     + (IF g = now /\ was # now THEN 1 ELSE 0)
<1> DEFINE e == EntryFor(k)
           was == emc[e].flow
           got == flow[f].ref_cnt > 0
           now == IF was = f \/ got THEN f ELSE None
           count(g) == flow[g].ref_cnt - (IF g = was /\ was # f THEN 1 ELSE 0)
                         + (IF g = f /\ was # f /\ got THEN 1 ELSE 0)
<1>1. e \in EMC_ENTRIES
  BY EntryForKey
<1>2. emc' = [emc EXCEPT ![e] = [key |-> k, flow |-> now]]
  BY Zenon DEF emc_insert
<1>3. was \in Flows \cup {None} /\ now \in Flows \cup {None}
  BY <1>1 DEF TypeInv
<1>4. flow' = [g \in Flows |-> [flow[g] EXCEPT !.ref_cnt = count(g)]]
  BY Zenon DEF emc_insert
<1>5. ASSUME NEW g \in Flows
      PROVE  /\ flow'[g] \in FlowType /\ flow'[g].mega = flow[g].mega
             /\ flow'[g].dead = flow[g].dead /\ flow'[g].ref_cnt = count(g)
  <2>1. flow[g] \in FlowType /\ flow[g].ref_cnt \in Int
    BY DEF TypeInv, FlowType
  <2>2. count(g) \in Int
    BY <2>1
  <2>3. flow'[g] = [flow[g] EXCEPT !.ref_cnt = count(g)]
    BY <1>4
  <2> HIDE DEF count
  <2> QED
    BY <2>1, <2>2, <2>3 DEF FlowType
<1>6. flow' \in [Flows -> FlowType] /\ FlowsStay
  <2>1. flow' = [g \in Flows |-> flow'[g]]
    BY <1>4
  <2> HIDE DEF count
  <2> QED
    BY <2>1, <1>5 DEF FlowsStay
<1>7. emc' \in [EMC_ENTRIES -> [key : Keys \cup {None}, flow : Flows \cup {None}]]
  <2> HIDE DEF e, now
  <2> QED
    BY <1>1, <1>2, <1>3 DEF TypeInv
<1>8. None \notin Flows
  BY DEF CacheAssumption
<1>9. ASSUME NEW g \in Flows
      PROVE  count(g) = flow[g].ref_cnt - (IF g = was /\ was # now THEN 1 ELSE 0)
                          + (IF g = now /\ was # now THEN 1 ELSE 0)
  <2>1. flow[g].ref_cnt \in Int
    BY DEF TypeInv, FlowType
  <2> HIDE DEF e
  <2> QED
    BY <1>3, <1>8, <2>1
<1> HIDE DEF e, was, now, count
<1>10. \A g \in Flows : flow'[g].ref_cnt = flow[g].ref_cnt
                          - (IF g = was /\ was # now THEN 1 ELSE 0)
                          + (IF g = now /\ was # now THEN 1 ELSE 0)
  BY <1>5, <1>9, Zenon
<1> QED
  BY <1>1, <1>2, <1>6, <1>7, <1>10, Zenon DEF e, was, now

(* References stay exact when what an entry refers to changes.             *)
LEMMA RefsFollowEntry ==
  ASSUME CacheAssumption, TypeInv, RefsExact,
         NEW e \in EMC_ENTRIES, NEW was, NEW now,
         emc[e].flow = was, emc'[e].flow = now,
         \A x \in EMC_ENTRIES : x # e => emc'[x].flow = emc[x].flow,
         \A g \in Flows : flow'[g].ref_cnt = flow[g].ref_cnt
                     - (IF g = was /\ was # now THEN 1 ELSE 0)
                     + (IF g = now /\ was # now THEN 1 ELSE 0),
         UNCHANGED <<classifier, updating>>
  PROVE  RefsExact'
<1> SUFFICES ASSUME NEW g \in Flows
             PROVE  flow'[g].ref_cnt = Cardinality(EntriesOf(g)') + Added(g)'
  BY Zenon DEF RefsExact, EntriesOf, Added
<1>1. Added(g)' = Added(g) /\ Added(g) \in Int
  BY DEF Added
<1>2. flow[g].ref_cnt = Cardinality(EntriesOf(g)) + Added(g)
  BY DEF RefsExact, EntriesOf, Added
<1>3. Cardinality(EntriesOf(g)) \in Nat
  BY EntriesCount
<1>4. CASE was = now
  <2>1. EntriesOf(g)' = EntriesOf(g)
    BY <1>4 DEF EntriesOf
  <2> QED
    BY <1>1, <1>2, <1>3, <1>4, <2>1
<1>5. CASE was # now
  <2>1. Cardinality(EntriesOf(g)') = Cardinality(EntriesOf(g))
          - (IF g = was THEN 1 ELSE 0) + (IF g = now THEN 1 ELSE 0)
    BY <1>5, EntryChanges
  <2> QED
    BY <1>1, <1>2, <1>3, <1>5, <2>1
<1> QED
  BY <1>4, <1>5

(* A flow that is used has a reference: what no reference holds is neither *)
(* in the classifier, nor in an entry, nor being removed.                  *)
LEMMA UsedAreHeld ==
  ASSUME CacheAssumption, TypeInv, RefsExact, NEW f \in Flows,
         flow[f].ref_cnt = 0
  PROVE  /\ f \notin classifier /\ f # updating.flow
         /\ \A e \in EMC_ENTRIES : emc[e].flow # f
<1>1. flow[f].ref_cnt = Cardinality(EntriesOf(f)) + Added(f)
  BY DEF RefsExact, EntriesOf, Added
<1>2. IsFiniteSet(EntriesOf(f)) /\ Cardinality(EntriesOf(f)) \in Nat
  BY EntriesCount
<1>3. Added(f) = 0 /\ Cardinality(EntriesOf(f)) = 0
  BY <1>1, <1>2 DEF Added
<1>4. EntriesOf(f) = {}
  BY <1>2, <1>3, FS_EmptySet
<1> QED
  BY <1>3, <1>4 DEF Added, EntriesOf

LEMMA InsertKeeps ==
  ASSUME CacheAssumption, TypeInv, TableInv, NEW k \in Keys, NEW f \in Flows,
         flow[f].mega = mega_of[k], emc_probabilistic_insert(flow, k, f),
         UNCHANGED <<classifier, flow_table, updating>>
  PROVE  TypeInv' /\ TableInv' /\ FlowsStay
<1>1. CASE flow' = flow /\ UNCHANGED emc
  <2>1. TypeInv' /\ FlowsStay
    BY <1>1 DEF TypeInv, FlowsStay
  <2>2. UpdatingInv' /\ FlowInv' /\ MegaInv' /\ EmcInv' /\ RefsExact'
    <3>1. UpdatingInv' /\ FlowInv' /\ MegaInv'
      BY <1>1 DEF TableInv, UpdatingInv, FlowInv, MegaInv
    <3>2. EmcInv'
      BY <1>1 DEF TableInv, EmcInv
    <3>3. RefsExact'
      BY <1>1, Zenon DEF TableInv, RefsExact
    <3> QED
      BY <3>1, <3>2, <3>3
  <2> QED
    BY <2>1, <2>2, Zenon DEF TableInv
<1>2. CASE emc_insert(flow, k, f)
  <2> DEFINE e == EntryFor(k)
             was == emc[e].flow
             now == IF was = f \/ flow[f].ref_cnt > 0 THEN f ELSE None
  <2>1. /\ flow' \in [Flows -> FlowType] /\ FlowsStay
        /\ emc' \in [EMC_ENTRIES -> [key : Keys \cup {None}, flow : Flows \cup {None}]]
        /\ e \in EMC_ENTRIES
        /\ emc' = [emc EXCEPT ![e] = [key |-> k, flow |-> now]]
        /\ \A g \in Flows : flow'[g].ref_cnt = flow[g].ref_cnt
             - (IF g = was /\ was # now THEN 1 ELSE 0)
             + (IF g = now /\ was # now THEN 1 ELSE 0)
    BY <1>2, InsertTypes, Zenon
  <2>2. now \in {f, None} /\ mega_of[k] \in Megas /\ None \notin Megas /\ None \notin Flows
    BY DEF CacheAssumption
  <2> HIDE DEF e, now
  <2>3. TypeInv'
    BY <2>1 DEF TypeInv
  <2>4. /\ emc'[e].flow = now /\ emc'[e].key = k
        /\ \A x \in EMC_ENTRIES : x # e => emc'[x] = emc[x]
    BY <2>1 DEF TypeInv
  <2> HIDE DEF was
  <2>5. RefsExact'
    <3>1. emc[e].flow = was
      BY DEF was
    <3> QED
      BY <2>1, <2>4, <3>1, RefsFollowEntry DEF TableInv
  <2>6. UpdatingInv'
    BY Zenon DEF TableInv, UpdatingInv
  <2>7. FlowInv'
    <3> SUFFICES ASSUME NEW g \in Flows
                 PROVE  /\ g \in classifier \/ g = updating.flow =>
                             flow'[g].mega \in Megas /\ ~flow'[g].dead
                        /\ flow'[g].mega \in Megas /\ ~flow'[g].dead =>
                             g \in classifier \/ g = updating.flow
                        /\ flow'[g].mega = None => flow'[g] = Unused
      BY Zenon DEF FlowInv
    <3>1. flow'[g].mega = flow[g].mega /\ flow'[g].dead = flow[g].dead
      BY <2>1 DEF FlowsStay
    <3>2. flow'[g].mega = None => flow'[g] = Unused
      <4> SUFFICES ASSUME flow[g].mega = None
                   PROVE  flow'[g] = Unused
        BY <3>1
      <4>1. flow[g] = Unused
        BY DEF TableInv, FlowInv
      <4>2. g # f
        BY <2>2
      <4>3. g # was
        <5>1. ~(was = g)
          BY <2>1, <2>2, <4>1, UsedAreHeld DEF TableInv, Unused, was
        <5> QED
          BY <5>1
      <4>4. flow'[g].ref_cnt = flow[g].ref_cnt
        BY <2>1, <2>2, <4>1, <4>2, <4>3 DEF Unused
      <4>5. flow'[g].mega = None /\ flow'[g].dead = FALSE /\ flow'[g].ref_cnt = 0
        BY <3>1, <4>1, <4>4 DEF Unused
      <4>6. flow'[g] \in FlowType
        BY <2>1
      <4> QED
        BY <4>5, <4>6 DEF FlowType, Unused
    <3> QED
      BY <3>1, <3>2 DEF TableInv, FlowInv
  <2>8. MegaInv'
    BY <2>1 DEF TableInv, MegaInv, FlowsStay, TypeInv
  <2>9. EmcInv'
    <3> SUFFICES ASSUME NEW x \in EMC_ENTRIES, emc'[x].flow # None
                 PROVE  emc'[x].key \in Keys /\ flow'[emc'[x].flow].mega = mega_of[emc'[x].key]
      BY Zenon DEF EmcInv
    <3>1. CASE x = e
      BY <2>1, <2>2, <2>4, <3>1 DEF FlowsStay
    <3>2. CASE x # e
      <4>1. emc'[x] = emc[x] /\ emc[x].flow \in Flows
        BY <2>4, <3>2 DEF TypeInv
      <4> QED
        BY <2>1, <4>1 DEF FlowsStay, TableInv, EmcInv
    <3> QED
      BY <3>1, <3>2
  <2> QED
    BY <2>1, <2>3, <2>5, <2>6, <2>7, <2>8, <2>9, Zenon DEF TableInv
<1> QED
  BY <1>1, <1>2 DEF emc_probabilistic_insert

-----------------------------------------------------------------------------
(* The flow table.                                                         *)

(* A flow that is used keeps its mega flow, and its death.                 *)
UsedStay ==
  \A f \in Flows : flow[f].mega \in Megas =>
    flow'[f].mega = flow[f].mega /\ (flow[f].dead => flow'[f].dead)

LEMMA NoneIsNothing ==
  ASSUME CacheAssumption
  PROVE  None \notin Megas /\ None \notin Flows /\ None \notin Keys
         /\ Runt \notin Keys /\ Runt \notin Flows /\ Runt # None
BY DEF CacheAssumption

LEMMA AllocateKeeps ==
  ASSUME CacheAssumption, TypeInv, TableInv, NEW f \in Flows, NEW m \in Megas,
         Allocate(f, m), \A g \in classifier : flow[g].mega # m,
         updating = Idle, updating'.flow \in {None, f},
         classifier' = classifier \cup {f}, UNCHANGED emc
  PROVE  /\ flow' \in [Flows -> FlowType] /\ UsedStay /\ f \notin classifier
         /\ FlowInv' /\ MegaInv' /\ EmcInv' /\ RefsExact' /\ flow'[f].mega = m
         /\ flow'[f].dead = FALSE
<1>1. /\ flow[f].mega = None /\ flow[f].ref_cnt = 0 /\ flow[f] = Unused
      /\ flow' = [flow EXCEPT ![f] = [Unused EXCEPT !.mega = m, !.ref_cnt = 1]]
  BY DEF Allocate, Unused
<1>2. f \notin classifier /\ \A e \in EMC_ENTRIES : emc[e].flow # f
  BY <1>1, UsedAreHeld DEF TableInv
<1>3. /\ \A g \in Flows \ {f} : flow'[g] = flow[g]
      /\ flow'[f] = [mega |-> m, dead |-> FALSE, ref_cnt |-> 1]
  BY <1>1 DEF TypeInv, Unused
<1>4. flow' \in [Flows -> FlowType]
  <2>1. [mega |-> m, dead |-> FALSE, ref_cnt |-> 1] \in FlowType
    BY DEF FlowType
  <2>2. flow' = [flow EXCEPT ![f] = flow'[f]]
    BY <1>1, <1>3 DEF TypeInv
  <2> QED
    BY <1>3, <2>1, <2>2 DEF TypeInv
<1>5. UsedStay
  BY <1>1, <1>3, NoneIsNothing DEF UsedStay
<1>6. updating.flow = None
  BY DEF Idle
<1>7. FlowInv'
  <2> SUFFICES ASSUME NEW g \in Flows
               PROVE  /\ g \in classifier' \/ g = updating'.flow =>
                           flow'[g].mega \in Megas /\ ~flow'[g].dead
                      /\ flow'[g].mega \in Megas /\ ~flow'[g].dead =>
                           g \in classifier' \/ g = updating'.flow
                      /\ flow'[g].mega = None => flow'[g] = Unused
    BY Zenon DEF FlowInv
  <2>1. CASE g = f
    BY <1>3, <2>1, NoneIsNothing
  <2>2. CASE g # f
    BY <1>3, <1>6, <2>2, NoneIsNothing DEF TableInv, FlowInv
  <2> QED
    BY <2>1, <2>2
<1>8. MegaInv'
  <2> SUFFICES ASSUME NEW g \in classifier', NEW h \in classifier',
                      flow'[g].mega = flow'[h].mega
               PROVE  g = h
    BY Zenon DEF MegaInv
  <2>1. g \in Flows /\ h \in Flows
    BY DEF TypeInv
  <2> QED
    BY <1>2, <1>3, <2>1 DEF TableInv, MegaInv
<1>9. EmcInv'
  BY <1>2, <1>3, TypeInv DEF TableInv, EmcInv, TypeInv
<1>10. RefsExact'
  <2> SUFFICES ASSUME NEW g \in Flows
               PROVE  flow'[g].ref_cnt = Cardinality(EntriesOf(g)') + Added(g)'
    BY Zenon DEF RefsExact, EntriesOf, Added
  <2>1. flow[g].ref_cnt = Cardinality(EntriesOf(g)) + Added(g)
    BY DEF TableInv, RefsExact, EntriesOf, Added
  <2>2. EntriesOf(g)' = EntriesOf(g)
    BY DEF EntriesOf
  <2>3. CASE g = f
    <3>1. EntriesOf(g) = {}
      BY <1>2, <2>3 DEF EntriesOf
    <3>2. Added(g)' = 1 /\ Cardinality(EntriesOf(g)') = 0
      BY <2>2, <2>3, <3>1, FS_EmptySet DEF Added
    <3> QED
      BY <1>3, <2>3, <3>2
  <2>4. CASE g # f
    <3>1. Added(g)' = Added(g)
      BY <1>6, <2>4, NoneIsNothing DEF Added
    <3> QED
      BY <1>3, <2>1, <2>2, <2>4, <3>1
  <2> QED
    BY <2>3, <2>4
<1>11. flow'[f].mega = m /\ flow'[f].dead = FALSE
  BY <1>3
<1> QED
  BY <1>2, <1>4, <1>5, <1>7, <1>8, <1>9, <1>10, <1>11

(* Wherever it is put, the table has the flows it is given and no others.  *)
LEMMA PlacesHold ==
  ASSUME NEW flows, NEW t \in Places(flows)
  PROVE  \A s \in TABLE_SLOTS : t[s] = None \/ t[s] \in flows
BY DEF Places

LEMMA FlowPut ==
  ASSUME CacheAssumption, TypeInv, TableInv, flow_put
  PROVE  TypeInv' /\ TableInv' /\ UsedStay
<1>1. PICK m \in Megas, f \in Flows :
        /\ \A g \in classifier : flow[g].mega # m
        /\ Allocate(f, m)
        /\ classifier' = classifier \cup {f}
        /\ updating' = [op |-> "put", flow |-> f]
  BY DEF flow_put
<1>2. updating = Idle /\ UNCHANGED <<flow_table, emc>>
  BY DEF flow_put, cache
<1>3. updating'.flow = f /\ updating'.op = "put"
  BY <1>1
<1>4. /\ flow' \in [Flows -> FlowType] /\ UsedStay
      /\ FlowInv' /\ MegaInv' /\ EmcInv' /\ RefsExact'
  BY <1>1, <1>2, <1>3, AllocateKeeps
<1>5. TypeInv'
  BY <1>1, <1>2, <1>4 DEF TypeInv
<1>6. UpdatingInv'
  BY <1>1, <1>2, <1>3, NoneIsNothing DEF TableInv, UpdatingInv, Idle
<1> QED
  BY <1>4, <1>5, <1>6 DEF TableInv

LEMMA FlowPutTable ==
  ASSUME CacheAssumption, TypeInv, TableInv, flow_put_table
  PROVE  TypeInv' /\ TableInv' /\ UsedStay
<1>1. /\ updating.op = "put" /\ updating' = Idle
      /\ flow_table' \in Places(TableFlows \cup {updating.flow})
      /\ UNCHANGED <<flow, classifier, emc>>
  BY DEF flow_put_table, cache
<1>2. updating.flow \in classifier /\ updating.flow \in Flows
  BY <1>1 DEF TableInv, UpdatingInv, TypeInv
<1>3. TableFlows \subseteq classifier
  BY <1>1 DEF TableFlows, TableInv, UpdatingInv
<1>4. \A s \in TABLE_SLOTS : flow_table'[s] = None \/ flow_table'[s] \in classifier
  BY <1>1, <1>2, <1>3, PlacesHold
<1>5. flow_table' \in [TABLE_SLOTS -> Flows \cup {None}]
  <2>1. flow_table' \in [TABLE_SLOTS -> (TableFlows \cup {updating.flow}) \cup {None}]
    BY <1>1, Zenon DEF Places
  <2>2. (TableFlows \cup {updating.flow}) \cup {None} \subseteq Flows \cup {None}
    BY <1>2, <1>3 DEF TypeInv
  <2> QED
    BY <2>1, <2>2
<1>6. TypeInv'
  BY <1>1, <1>5 DEF TypeInv, Idle
<1>7. UpdatingInv'
  BY <1>1, <1>4 DEF UpdatingInv, Idle
<1>8. updating'.flow = None
  BY <1>1 DEF Idle
<1>9. FlowInv' /\ MegaInv' /\ EmcInv'
  BY <1>1, <1>2, <1>8, NoneIsNothing DEF TableInv, FlowInv, MegaInv, EmcInv
<1>10. RefsExact'
  <2> SUFFICES ASSUME NEW g \in Flows
               PROVE  flow'[g].ref_cnt = Cardinality(EntriesOf(g)') + Added(g)'
    BY Zenon DEF RefsExact, EntriesOf, Added
  <2>1. EntriesOf(g)' = EntriesOf(g) /\ Added(g)' = Added(g)
    BY <1>1, <1>2, <1>8, NoneIsNothing DEF EntriesOf, Added
  <2> QED
    BY <1>1, <2>1 DEF TableInv, RefsExact, EntriesOf, Added
<1>11. UsedStay
  BY <1>1 DEF UsedStay
<1> QED
  BY <1>6, <1>7, <1>9, <1>10, <1>11 DEF TableInv

LEMMA FlowDel ==
  ASSUME CacheAssumption, TypeInv, TableInv, flow_del
  PROVE  TypeInv' /\ TableInv' /\ UsedStay
<1>1. PICK f \in classifier :
        classifier' = classifier \ {f} /\ updating' = [op |-> "del", flow |-> f]
  BY DEF flow_del
<1>2. updating = Idle /\ UNCHANGED <<flow, flow_table, emc>> /\ f \in Flows
  BY <1>1 DEF flow_del, cache, TypeInv
<1>3. /\ updating'.flow = f /\ updating'.op = "del"
      /\ updating.flow = None /\ updating.op = "none"
  BY <1>1, <1>2 DEF Idle
<1>4. TypeInv'
  BY <1>1, <1>2 DEF TypeInv
<1>5. UpdatingInv'
  BY <1>1, <1>2, <1>3, NoneIsNothing DEF TableInv, UpdatingInv
<1>6. FlowInv' /\ MegaInv' /\ EmcInv'
  BY <1>1, <1>2, <1>3, NoneIsNothing DEF TableInv, FlowInv, MegaInv, EmcInv
<1>7. RefsExact'
  <2> SUFFICES ASSUME NEW g \in Flows
               PROVE  flow'[g].ref_cnt = Cardinality(EntriesOf(g)') + Added(g)'
    BY Zenon DEF RefsExact, EntriesOf, Added
  <2>1. EntriesOf(g)' = EntriesOf(g) /\ Added(g)' = Added(g)
    BY <1>1, <1>2, <1>3, NoneIsNothing DEF EntriesOf, Added
  <2> QED
    BY <1>2, <2>1 DEF TableInv, RefsExact, EntriesOf, Added
<1>8. UsedStay
  BY <1>2 DEF UsedStay
<1> QED
  BY <1>4, <1>5, <1>6, <1>7, <1>8 DEF TableInv

LEMMA FlowDelTable ==
  ASSUME CacheAssumption, TypeInv, TableInv, flow_del_table
  PROVE  TypeInv' /\ TableInv' /\ UsedStay
<1>1. /\ updating.op = "del" /\ updating' = [updating EXCEPT !.op = "dead"]
      /\ flow_table' = [s \in TABLE_SLOTS |->
           IF flow_table[s] = updating.flow THEN None ELSE flow_table[s]]
      /\ UNCHANGED <<flow, classifier, emc>>
  BY DEF flow_del_table, cache
<1>2. updating'.op = "dead" /\ updating'.flow = updating.flow
  BY <1>1 DEF TypeInv
<1>3. TypeInv'
  BY <1>1 DEF TypeInv
<1>4. UpdatingInv'
  BY <1>1, <1>2, NoneIsNothing DEF TableInv, UpdatingInv, TypeInv
<1>5. FlowInv' /\ MegaInv' /\ EmcInv'
  BY <1>1, <1>2 DEF TableInv, FlowInv, MegaInv, EmcInv
<1>6. RefsExact'
  BY <1>1, <1>2, Zenon DEF TableInv, RefsExact
<1>7. UsedStay
  BY <1>1 DEF UsedStay
<1> QED
  BY <1>3, <1>4, <1>5, <1>6, <1>7 DEF TableInv

LEMMA FlowDelDead ==
  ASSUME CacheAssumption, TypeInv, TableInv, flow_del_dead
  PROVE  TypeInv' /\ TableInv' /\ UsedStay
<1> DEFINE d == updating.flow
<1>1. /\ updating.op = "dead" /\ updating' = Idle
      /\ flow' = [flow EXCEPT ![d].dead = TRUE, ![d].ref_cnt = @ - 1]
      /\ UNCHANGED <<classifier, flow_table, emc>>
  BY DEF flow_del_dead, cache
<1>2. d \in Flows /\ d \notin classifier /\ updating'.flow = None /\ updating'.op = "none"
  BY <1>1 DEF TableInv, UpdatingInv, TypeInv, Idle
<1>3. flow[d] \in FlowType /\ flow[d].ref_cnt \in Int
  BY <1>2 DEF TypeInv, FlowType
<1>4. /\ flow'[d] = [flow[d] EXCEPT !.dead = TRUE, !.ref_cnt = flow[d].ref_cnt - 1]
      /\ \A g \in Flows \ {d} : flow'[g] = flow[g]
  BY <1>1, <1>2 DEF TypeInv
<1>5. /\ flow'[d] \in FlowType /\ flow'[d].mega = flow[d].mega /\ flow'[d].dead
      /\ flow'[d].ref_cnt = flow[d].ref_cnt - 1
  <2> DEFINE old == flow[d]
             cnt == old.ref_cnt - 1
             new == [old EXCEPT !.dead = TRUE, !.ref_cnt = cnt]
  <2>1. old \in FlowType /\ cnt \in Int /\ flow'[d] = new
    BY <1>3, <1>4
  <2> HIDE DEF old, cnt
  <2>2. new \in FlowType /\ new.mega = old.mega /\ new.dead = TRUE /\ new.ref_cnt = cnt
    BY <2>1 DEF FlowType
  <2> QED
    BY <2>1, <2>2 DEF old, cnt
<1>6. flow' \in [Flows -> FlowType]
  <2>1. flow' = [g \in Flows |-> flow'[g]]
    BY <1>1 DEF TypeInv
  <2>2. \A g \in Flows : flow'[g] \in FlowType
    BY <1>4, <1>5 DEF TypeInv
  <2> QED
    BY <2>1, <2>2
<1>7. flow[d].mega \in Megas
  BY <1>2 DEF TableInv, FlowInv
<1> HIDE DEF d
<1>8. TypeInv'
  BY <1>1, <1>6 DEF TypeInv, Idle
<1>9. UpdatingInv'
  BY <1>1, <1>2 DEF TableInv, UpdatingInv
<1>10. FlowInv'
  <2> SUFFICES ASSUME NEW g \in Flows
               PROVE  /\ g \in classifier' \/ g = updating'.flow =>
                           flow'[g].mega \in Megas /\ ~flow'[g].dead
                      /\ flow'[g].mega \in Megas /\ ~flow'[g].dead =>
                           g \in classifier' \/ g = updating'.flow
                      /\ flow'[g].mega = None => flow'[g] = Unused
    BY Zenon DEF FlowInv
  <2>1. CASE g = d
    BY <1>1, <1>2, <1>5, <1>7, <2>1, NoneIsNothing
  <2>2. CASE g # d
    BY <1>1, <1>2, <1>4, <2>2, NoneIsNothing DEF TableInv, FlowInv, d
  <2> QED
    BY <2>1, <2>2
<1>11. MegaInv'
  BY <1>1, <1>2, <1>4 DEF TableInv, MegaInv, TypeInv
<1>12. EmcInv'
  BY <1>1, <1>4, <1>5 DEF TableInv, EmcInv, TypeInv
<1>13. RefsExact'
  <2> SUFFICES ASSUME NEW g \in Flows
               PROVE  flow'[g].ref_cnt = Cardinality(EntriesOf(g)') + Added(g)'
    BY Zenon DEF RefsExact, EntriesOf, Added
  <2>1. flow[g].ref_cnt = Cardinality(EntriesOf(g)) + Added(g)
    BY DEF TableInv, RefsExact, EntriesOf, Added
  <2>2. EntriesOf(g)' = EntriesOf(g) /\ Cardinality(EntriesOf(g)) \in Nat
    BY <1>1, EntriesCount DEF EntriesOf
  <2>3. CASE g = d
    <3>1. Added(g) = 1 /\ Added(g)' = 0
      BY <1>1, <1>2, <2>3, NoneIsNothing DEF Added, d
    <3> QED
      BY <1>5, <2>1, <2>2, <2>3, <3>1
  <2>4. CASE g # d
    <3>1. Added(g)' = Added(g)
      BY <1>1, <1>2, <2>4, NoneIsNothing DEF Added, d
    <3> QED
      BY <1>4, <2>1, <2>2, <2>4, <3>1
  <2> QED
    BY <2>3, <2>4
<1>14. UsedStay
  BY <1>4, <1>5 DEF UsedStay
<1> QED
  BY <1>8, <1>9, <1>10, <1>11, <1>12, <1>13, <1>14 DEF TableInv

(* Memory that is freed is used by nobody.                                 *)
LEMMA QuiesceKeeps ==
  ASSUME CacheAssumption, TypeInv, TableInv, Quiesce
  PROVE  TypeInv' /\ TableInv'
<1>1. /\ flow' = [f \in Flows |-> IF flow[f].ref_cnt = 0 THEN Unused ELSE flow[f]]
      /\ UNCHANGED <<classifier, flow_table, updating, emc>>
  BY DEF Quiesce, cache
<1>2. \A f \in Flows : flow[f].ref_cnt = 0 =>
        /\ f \notin classifier /\ f # updating.flow
        /\ \A e \in EMC_ENTRIES : emc[e].flow # f
  BY UsedAreHeld DEF TableInv
<1>3. Unused \in FlowType /\ Unused.mega = None /\ Unused.ref_cnt = 0
  BY DEF Unused, FlowType
<1>4. TypeInv'
  BY <1>1, <1>3 DEF TypeInv
<1>5. UpdatingInv'
  BY <1>1 DEF TableInv, UpdatingInv
<1>6. FlowInv'
  <2> SUFFICES ASSUME NEW g \in Flows
               PROVE  /\ g \in classifier \/ g = updating.flow =>
                           flow'[g].mega \in Megas /\ ~flow'[g].dead
                      /\ flow'[g].mega \in Megas /\ ~flow'[g].dead =>
                           g \in classifier \/ g = updating.flow
                      /\ flow'[g].mega = None => flow'[g] = Unused
    BY <1>1, Zenon DEF FlowInv
  <2>1. CASE flow[g].ref_cnt = 0
    BY <1>1, <1>2, <1>3, <2>1, NoneIsNothing
  <2>2. CASE flow[g].ref_cnt # 0
    BY <1>1, <2>2 DEF TableInv, FlowInv
  <2> QED
    BY <2>1, <2>2
<1>7. MegaInv'
  <2> SUFFICES ASSUME NEW g \in classifier, NEW h \in classifier,
                      flow'[g].mega = flow'[h].mega
               PROVE  g = h
    BY <1>1, Zenon DEF MegaInv
  <2>1. flow'[g] = flow[g] /\ flow'[h] = flow[h]
    BY <1>1, <1>2 DEF TypeInv
  <2> QED
    BY <2>1 DEF TableInv, MegaInv
<1>8. EmcInv'
  <2> SUFFICES ASSUME NEW e \in EMC_ENTRIES, emc[e].flow # None
               PROVE  emc[e].key \in Keys /\ flow'[emc[e].flow].mega = mega_of[emc[e].key]
    BY <1>1, Zenon DEF EmcInv
  <2>1. emc[e].flow \in Flows
    BY DEF TypeInv
  <2>2. flow'[emc[e].flow] = flow[emc[e].flow]
    BY <1>1, <1>2, <2>1
  <2> QED
    BY <2>2 DEF TableInv, EmcInv
<1>9. RefsExact'
  <2> SUFFICES ASSUME NEW g \in Flows
               PROVE  flow'[g].ref_cnt = Cardinality(EntriesOf(g)') + Added(g)'
    BY Zenon DEF RefsExact, EntriesOf, Added
  <2>1. EntriesOf(g)' = EntriesOf(g) /\ Added(g)' = Added(g)
    BY <1>1 DEF EntriesOf, Added
  <2>2. flow'[g].ref_cnt = flow[g].ref_cnt
    BY <1>1, <1>3
  <2> QED
    BY <2>1, <2>2 DEF TableInv, RefsExact, EntriesOf, Added
<1> QED
  BY <1>4, <1>5, <1>6, <1>7, <1>8, <1>9 DEF TableInv

LEMMA SweepKeeps ==
  ASSUME CacheAssumption, TypeInv, TableInv, emc_cache_slow_sweep
  PROVE  TypeInv' /\ TableInv' /\ UsedStay
<1>1. PICK e \in EMC_ENTRIES :
        /\ emc[e].flow # None
        /\ emc' = [emc EXCEPT ![e].flow = None]
        /\ flow' = [flow EXCEPT ![emc[e].flow].ref_cnt = @ - 1]
  BY DEF emc_cache_slow_sweep
<1> DEFINE was == emc[e].flow
<1>2. UNCHANGED <<classifier, flow_table, updating>>
  BY DEF emc_cache_slow_sweep
<1>3. was \in Flows /\ flow[was] \in FlowType /\ flow[was].ref_cnt \in Int
  BY <1>1 DEF TypeInv, FlowType
<1>4. /\ emc'[e].flow = None
      /\ \A x \in EMC_ENTRIES : x # e => emc'[x] = emc[x]
      /\ emc' \in [EMC_ENTRIES -> [key : Keys \cup {None}, flow : Flows \cup {None}]]
  BY <1>1 DEF TypeInv
<1>5. /\ flow'[was] = [flow[was] EXCEPT !.ref_cnt = flow[was].ref_cnt - 1]
      /\ \A g \in Flows \ {was} : flow'[g] = flow[g]
  BY <1>1, <1>3 DEF TypeInv
<1>6. /\ flow'[was] \in FlowType /\ flow'[was].mega = flow[was].mega
      /\ flow'[was].dead = flow[was].dead /\ flow'[was].ref_cnt = flow[was].ref_cnt - 1
  <2> DEFINE old == flow[was]
             cnt == old.ref_cnt - 1
             new == [old EXCEPT !.ref_cnt = cnt]
  <2>1. old \in FlowType /\ cnt \in Int /\ flow'[was] = new
    BY <1>3, <1>5
  <2> HIDE DEF old, cnt
  <2>2. /\ new \in FlowType /\ new.mega = old.mega /\ new.dead = old.dead
        /\ new.ref_cnt = cnt
    BY <2>1 DEF FlowType
  <2> QED
    BY <2>1, <2>2 DEF old, cnt
<1>7. flow' \in [Flows -> FlowType]
  <2>1. flow' = [g \in Flows |-> flow'[g]]
    BY <1>1 DEF TypeInv
  <2>2. \A g \in Flows : flow'[g] \in FlowType
    BY <1>5, <1>6 DEF TypeInv
  <2> QED
    BY <2>1, <2>2
<1>8. TypeInv'
  BY <1>2, <1>4, <1>7 DEF TypeInv
<1>9. emc[e].flow = was /\ was # None
  BY <1>1
<1> HIDE DEF was
<1>10. FlowsStay
  BY <1>5, <1>6 DEF FlowsStay
<1>11. UpdatingInv'
  BY <1>2 DEF TableInv, UpdatingInv
<1>12. FlowInv'
  <2>1. flow[was].mega \in Megas
    <3>1. emc[e].key \in Keys /\ flow[was].mega = mega_of[emc[e].key]
      BY <1>9 DEF TableInv, EmcInv
    <3> QED
      BY <3>1 DEF CacheAssumption
  <2> QED
    BY <1>2, <1>3, <1>5, <1>6, <2>1, NoneIsNothing DEF TableInv, FlowInv
<1>13. MegaInv'
  BY <1>2, <1>10 DEF TableInv, MegaInv, FlowsStay, TypeInv
<1>14. EmcInv'
  <2> SUFFICES ASSUME NEW x \in EMC_ENTRIES, emc'[x].flow # None
               PROVE  emc'[x].key \in Keys /\ flow'[emc'[x].flow].mega = mega_of[emc'[x].key]
    BY Zenon DEF EmcInv
  <2>1. emc'[x] = emc[x] /\ emc[x].flow \in Flows
    BY <1>4 DEF TypeInv
  <2> QED
    BY <1>10, <2>1 DEF FlowsStay, TableInv, EmcInv
<1>15. RefsExact'
  <2>1. \A g \in Flows : flow'[g].ref_cnt = flow[g].ref_cnt
             - (IF g = was /\ was # None THEN 1 ELSE 0)
             + (IF g = None /\ was # None THEN 1 ELSE 0)
    <3> TAKE g \in Flows
    <3>1. flow[g].ref_cnt \in Int /\ g # None
      BY NoneIsNothing DEF TypeInv, FlowType
    <3>2. CASE g = was
      BY <1>6, <1>9, <3>1, <3>2
    <3>3. CASE g # was
      <4>1. flow'[g].ref_cnt = flow[g].ref_cnt
        BY <1>5, <3>3
      <4> QED
        BY <3>1, <3>3, <4>1
    <3> QED
      BY <3>2, <3>3
  <2> QED
    BY <1>2, <1>4, <1>9, <2>1, RefsFollowEntry DEF TableInv
<1>16. UsedStay
  BY <1>10 DEF UsedStay, FlowsStay
<1> QED
  BY <1>8, <1>11, <1>12, <1>13, <1>14, <1>15, <1>16 DEF TableInv

(* handle_packet_upcall's flow is in the classifier, whoever made it.      *)
LEMMA InstallKeeps ==
  ASSUME CacheAssumption, TypeInv, TableInv, NEW k \in Keys, NEW f \in Flows,
         updating = Idle, UNCHANGED <<updating, emc>>,
         \/ /\ f \in dp_netdev_pmd_lookup_flow(k)
            /\ UNCHANGED <<flow, classifier, flow_table>>
         \/ /\ dp_netdev_pmd_lookup_flow(k) = {}
            /\ Allocate(f, mega_of[k])
            /\ classifier' = classifier \cup {f}
            /\ flow_table' \in Places(TableFlows \cup {f})
  PROVE  /\ TypeInv' /\ TableInv' /\ UsedStay
         /\ f \in classifier' /\ flow'[f].mega = mega_of[k] /\ ~flow'[f].dead
         /\ flow[f].mega \in Megas => ~flow[f].dead
<1>1. CASE f \in dp_netdev_pmd_lookup_flow(k) /\ UNCHANGED <<flow, classifier, flow_table>>
  <2>1. TypeInv' /\ UsedStay
    BY <1>1 DEF TypeInv, UsedStay
  <2>2. UpdatingInv' /\ FlowInv' /\ MegaInv'
    BY <1>1 DEF TableInv, UpdatingInv, FlowInv, MegaInv
  <2>3. EmcInv'
    BY <1>1 DEF TableInv, EmcInv
  <2>4. RefsExact'
    BY <1>1, Zenon DEF TableInv, RefsExact
  <2>5. f \in classifier /\ flow[f].mega = mega_of[k] /\ ~flow[f].dead
    BY <1>1 DEF dp_netdev_pmd_lookup_flow, TableInv, FlowInv
  <2> QED
    BY <1>1, <2>1, <2>2, <2>3, <2>4, <2>5 DEF TableInv
<1>2. CASE /\ dp_netdev_pmd_lookup_flow(k) = {}
           /\ Allocate(f, mega_of[k])
           /\ classifier' = classifier \cup {f}
           /\ flow_table' \in Places(TableFlows \cup {f})
  <2>1. mega_of[k] \in Megas /\ \A g \in classifier : flow[g].mega # mega_of[k]
    BY <1>2 DEF dp_netdev_pmd_lookup_flow, CacheAssumption
  <2>2. updating.flow = None /\ updating.op = "none"
    BY DEF Idle
  <2>3. /\ flow' \in [Flows -> FlowType] /\ UsedStay /\ f \notin classifier
        /\ FlowInv' /\ MegaInv' /\ EmcInv' /\ RefsExact' /\ flow'[f].mega = mega_of[k]
        /\ flow'[f].dead = FALSE
    BY <1>2, <2>1, <2>2, AllocateKeeps
  <2>4. TableFlows \subseteq classifier
    BY <2>2 DEF TableFlows, TableInv, UpdatingInv
  <2>5. \A s \in TABLE_SLOTS : flow_table'[s] = None \/ flow_table'[s] \in classifier'
    BY <1>2, <2>4, PlacesHold
  <2>6. flow_table' \in [TABLE_SLOTS -> Flows \cup {None}]
    <3>1. flow_table' \in [TABLE_SLOTS -> (TableFlows \cup {f}) \cup {None}]
      BY <1>2, Zenon DEF Places
    <3>2. (TableFlows \cup {f}) \cup {None} \subseteq Flows \cup {None}
      BY <2>4 DEF TypeInv
    <3> QED
      BY <3>1, <3>2
  <2>7. TypeInv'
    BY <1>2, <2>3, <2>6 DEF TypeInv
  <2>8. UpdatingInv'
    BY <2>2, <2>5 DEF UpdatingInv
  <2>9. flow[f].mega = None
    BY <1>2 DEF Allocate, Unused
  <2> QED
    BY <1>2, <2>3, <2>7, <2>8, <2>9, NoneIsNothing DEF TableInv
<1> QED
  BY <1>1, <1>2

-----------------------------------------------------------------------------
(* The batch.                                                              *)

(* What a packet is given stays right while the batch is worked on.        *)
LEMMA RightStays ==
  ASSUME CacheAssumption, UsedStay, in'.packets = in.packets, in'.dead = in.dead
  PROVE  \A i, f : f \in Flows \cup {None} /\ IsPacket(in, i) /\ Right(flow, in, i, f) =>
           IsPacket(in', i) /\ Right(flow', in', i, f)
BY DEF UsedStay, IsPacket, Right, CacheAssumption

LEMMA DeadStay ==
  ASSUME CacheAssumption, TypeOK, TableInv, DeadInv, UsedStay, in'.dead = in.dead,
         pc # "idle"
  PROVE  DeadInv'
<1> SUFFICES ASSUME NEW f \in in.dead
             PROVE  flow'[f].dead
  BY DEF DeadInv
<1>1. in.dead \in SUBSET Flows
  BY DEF TypeOK, InputType
<1>2. f \in Flows /\ flow[f].dead
  BY <1>1 DEF DeadInv
<1>3. flow[f].mega \in Megas \cup {None}
  BY <1>2 DEF TypeOK, TypeInv, FlowType
<1>4. flow[f].mega # None
  BY <1>2 DEF TableInv, FlowInv, Unused
<1> QED
  BY <1>2, <1>3, <1>4 DEF UsedStay

(* What the arrays of a batch hold.                                        *)
LEMMA ArrayTypes ==
  ASSUME TypeOK
  PROVE  /\ in.next \in Nat /\ in.packets \in Seq(Keys \cup {Runt})
         /\ DOMAIN in.missed = 1 .. Len(in.missed) /\ Len(in.missed) \in Nat
         /\ DOMAIN in.rules = 1 .. Len(in.rules) /\ Len(in.rules) \in Nat
         /\ DOMAIN in.flow_map = 1 .. Len(in.flow_map) /\ Len(in.flow_map) \in Nat
         /\ DOMAIN in.batches = 1 .. Len(in.batches) /\ Len(in.batches) \in Nat
         /\ \A i \in DOMAIN in.missed :
              in.missed[i].packet \in Nat /\ in.missed[i].recv_idx \in Nat
         /\ \A i \in DOMAIN in.rules : in.rules[i] \in Flows \cup {None}
         /\ \A i \in DOMAIN in.flow_map :
              in.flow_map[i].packet \in Nat /\ in.flow_map[i].flow \in Flows \cup {None}
         /\ \A j \in DOMAIN in.batches :
              in.batches[j].flow \in Flows /\ in.batches[j].packets \in Seq(Nat)
<1>1. /\ in.missed \in Seq(MissedType) /\ in.rules \in Seq(Flows \cup {None})
      /\ in.flow_map \in Seq(MapType) /\ in.batches \in Seq(BatchType)
      /\ in.next \in Nat /\ in.packets \in Seq(Keys \cup {Runt})
  BY DEF TypeOK, InputType
<1>2. \A i \in DOMAIN in.missed :
        in.missed[i].packet \in Nat /\ in.missed[i].recv_idx \in Nat
  <2>1. \A i \in DOMAIN in.missed : in.missed[i] \in MissedType
    BY <1>1
  <2> QED
    BY <2>1 DEF MissedType
<1>3. \A i \in DOMAIN in.rules : in.rules[i] \in Flows \cup {None}
  BY <1>1
<1>4. \A i \in DOMAIN in.flow_map :
        in.flow_map[i].packet \in Nat /\ in.flow_map[i].flow \in Flows \cup {None}
  <2>1. \A i \in DOMAIN in.flow_map : in.flow_map[i] \in MapType
    BY <1>1
  <2> QED
    BY <2>1 DEF MapType
<1>5. \A j \in DOMAIN in.batches :
        in.batches[j].flow \in Flows /\ in.batches[j].packets \in Seq(Nat)
  <2>1. \A j \in DOMAIN in.batches : in.batches[j] \in BatchType
    BY <1>1
  <2> QED
    BY <2>1 DEF BatchType
<1> QED
  BY <1>1, <1>2, <1>3, <1>4, <1>5

LEMMA MissedArePackets ==
  ASSUME InputInv
  PROVE  \A i \in DOMAIN in.missed : IsPacket(in, in.missed[i].packet)
BY DEF InputInv, MissedInv, MapInv

(* What an array has that is left alone stays right.                       *)
SameBatch == UsedStay /\ in'.packets = in.packets /\ in'.dead = in.dead

LEMMA RulesStay ==
  ASSUME CacheAssumption, TypeOK, InputInv, SameBatch,
         in'.missed = in.missed, in'.rules = in.rules
  PROVE  RightRules'
<1>1. \A i, f : f \in Flows \cup {None} /\ IsPacket(in, i) /\ Right(flow, in, i, f) =>
        Right(flow', in', i, f)
  BY RightStays DEF SameBatch
<1>2. \A i \in DOMAIN in.rules \cap DOMAIN in.missed :
        /\ in.rules[i] \in Flows \cup {None} /\ IsPacket(in, in.missed[i].packet)
        /\ Right(flow, in, in.missed[i].packet, in.rules[i])
  BY ArrayTypes, MissedArePackets DEF InputInv, RightRules
<1> QED
  BY <1>1, <1>2 DEF RightRules

LEMMA MapStays ==
  ASSUME CacheAssumption, TypeOK, InputInv, SameBatch, in'.flow_map = in.flow_map
  PROVE  MapInv' /\ RightMap'
<1>1. \A i, f : f \in Flows \cup {None} /\ IsPacket(in, i) /\ Right(flow, in, i, f) =>
        IsPacket(in', i) /\ Right(flow', in', i, f)
  BY RightStays DEF SameBatch
<1>2. \A i \in DOMAIN in.flow_map :
        /\ in.flow_map[i].flow \in Flows \cup {None}
        /\ IsPacket(in, in.flow_map[i].packet)
        /\ Right(flow, in, in.flow_map[i].packet, in.flow_map[i].flow)
  BY ArrayTypes DEF InputInv, MapInv, RightMap
<1>3. RightMap'
  BY <1>1, <1>2 DEF RightMap
<1>4. MapInv'
  BY <1>1, <1>2 DEF MapInv, InputInv
<1> QED
  BY <1>3, <1>4

LEMMA MissedStay ==
  ASSUME InputInv, in'.missed = in.missed, in'.flow_map = in.flow_map
  PROVE  MissedInv'
BY DEF InputInv, MissedInv

LEMMA BatchesStay ==
  ASSUME CacheAssumption, TypeOK, InputInv, SameBatch, in'.batches = in.batches
  PROVE  BatchPackets' /\ RightBatches'
<1>1. \A i, f : f \in Flows \cup {None} /\ IsPacket(in, i) /\ Right(flow, in, i, f) =>
        IsPacket(in', i) /\ Right(flow', in', i, f)
  BY RightStays DEF SameBatch
<1>2. \A j \in DOMAIN in.batches : \A i \in DOMAIN in.batches[j].packets :
        /\ in.batches[j].flow \in Flows \cup {None}
        /\ IsPacket(in, in.batches[j].packets[i])
        /\ Right(flow, in, in.batches[j].packets[i], in.batches[j].flow)
  BY ArrayTypes DEF InputInv, BatchPackets, RightBatches
<1> QED
  BY <1>1, <1>2 DEF BatchPackets, RightBatches

LEMMA MadeStays ==
  ASSUME CacheAssumption, TypeOK, InputInv, SameBatch, UNCHANGED pc,
         in'.missed = in.missed, in'.next = in.next, in'.made = in.made
  PROVE  RightMade'
<1> SUFFICES ASSUME pc = "insert"
             PROVE  Right(flow', in', in.missed[in.next].packet, in.made)
  BY DEF RightMade
<1>1. in.next \in DOMAIN in.missed /\ in.made \in Flows
  BY ArrayTypes DEF InputInv, PhaseInv
<1>2. IsPacket(in, in.missed[in.next].packet)
  BY <1>1, MissedArePackets
<1> QED
  BY <1>1, <1>2, RightStays DEF InputInv, RightMade, SameBatch

LEMMA Untouched ==
  ASSUME CacheAssumption, TypeOK, TableInv, InputInv, UNCHANGED <<pc, in>>, UsedStay
  PROVE  InputInv'
<1>1. SameBatch
  BY DEF SameBatch
<1>2. PhaseInv' /\ DfcInv' /\ MissedInv'
  BY MissedStay DEF InputInv, PhaseInv, DfcInv
<1>3. DeadInv'
  <2>1. CASE pc = "idle"
    BY <2>1 DEF DeadInv
  <2>2. CASE pc # "idle"
    BY <2>2, DeadStay DEF InputInv
  <2> QED
    BY <2>1, <2>2
<1>4. RightRules' /\ MapInv' /\ RightMap'
  BY <1>1, RulesStay, MapStays
<1>5. RightMade' /\ BatchPackets' /\ RightBatches'
  BY <1>1, MadeStays, BatchesStay
<1> QED
  BY <1>2, <1>3, <1>4, <1>5 DEF InputInv

LEMMA NothingYet ==
  ASSUME in'.missed = <<>>, in'.rules = <<>>, in'.flow_map = <<>>, in'.batches = <<>>
  PROVE  /\ MissedInv' /\ MapInv' /\ BatchPackets'
         /\ RightRules' /\ RightMap' /\ RightBatches'
BY DEF MissedInv, MapInv, BatchPackets, RightRules, RightMap, RightBatches

LEMMA ReceiveKeeps ==
  ASSUME CacheAssumption, TypeOK, TableInv, InputInv, Receive
  PROVE  TypeOK' /\ InputInv' /\ TableInv'
<1>1. PICK packets \in Batches, c \in Settings :
        in' = [NoBatch EXCEPT !.packets = packets, !.caching = c,
                              !.dead = {f \in Flows : flow[f].dead},
                              !.removed = updating.op \in {"del", "dead"}]
  BY DEF Receive
<1>2. /\ pc = "idle" /\ pc' = "dfc"
      /\ UNCHANGED <<flow, classifier, flow_table, updating, emc, smc>>
  BY DEF Receive, table, cache
<1>3. packets \in Seq(Keys \cup {Runt}) /\ c \in SUBSET {"EMC", "SMC"}
  BY DEF CacheAssumption
<1>4. in' = [
        caching |-> c, packets |-> packets, next |-> 1, missed |-> <<>>, rules |-> <<>>,
        made |-> None, flow_map |-> <<>>, batches |-> <<>>, executed |-> <<>>,
        dropped |-> {}, dead |-> {f \in Flows : flow[f].dead},
        removed |-> updating.op \in {"del", "dead"}]
  BY <1>1 DEF NoBatch
<1>5. in' \in InputType
  BY <1>3, <1>4 DEF InputType
<1>6. TypeOK'
  BY <1>2, <1>5 DEF TypeOK, TypeInv, SmcType, Phases
<1>7. /\ in'.missed = <<>> /\ in'.rules = <<>> /\ in'.flow_map = <<>> /\ in'.batches = <<>>
      /\ in'.next = 1 /\ in'.dead = {f \in Flows : flow[f].dead}
      /\ in'.packets = packets /\ in'.dropped = {}
  BY <1>4
<1>8. PhaseInv' /\ DfcInv' /\ RightMade' /\ DeadInv'
  <2>1. Len(packets) \in Nat
    BY <1>3
  <2> QED
    BY <1>2, <1>7, <2>1 DEF PhaseInv, DfcInv, RightMade, DeadInv
<1>9. TableInv'
  <2>1. UpdatingInv' /\ FlowInv' /\ MegaInv' /\ EmcInv'
    BY <1>2 DEF TableInv, UpdatingInv, FlowInv, MegaInv, EmcInv
  <2>2. RefsExact'
    BY <1>2, Zenon DEF TableInv, RefsExact
  <2> QED
    BY <2>1, <2>2 DEF TableInv
<1> QED
  BY <1>6, <1>7, <1>8, <1>9, NothingYet DEF InputInv

LEMMA TableUntouched ==
  ASSUME TypeInv, TableInv, UNCHANGED <<flow, classifier, flow_table, updating, emc>>
  PROVE  TypeInv' /\ TableInv' /\ UsedStay
<1>1. UpdatingInv' /\ FlowInv' /\ MegaInv' /\ EmcInv'
  BY DEF TableInv, UpdatingInv, FlowInv, MegaInv, EmcInv
<1>2. RefsExact'
  BY Zenon DEF TableInv, RefsExact
<1>3. TypeInv' /\ UsedStay
  BY DEF TypeInv, UsedStay
<1> QED
  BY <1>1, <1>2, <1>3 DEF TableInv

(* A field of the batch is changed.                                        *)
LEMMA FieldTypes ==
  ASSUME NEW r \in InputType
  PROVE  /\ \A x \in Nat : [r EXCEPT !.next = x] \in InputType
         /\ \A x \in Seq(MissedType) : [r EXCEPT !.missed = x] \in InputType
         /\ \A x \in Seq(Flows \cup {None}) : [r EXCEPT !.rules = x] \in InputType
         /\ \A x \in Flows \cup {None} : [r EXCEPT !.made = x] \in InputType
         /\ \A x \in Seq(MapType) : [r EXCEPT !.flow_map = x] \in InputType
         /\ \A x \in Seq(BatchType) : [r EXCEPT !.batches = x] \in InputType
         /\ \A x \in Seq(ExecutedType) : [r EXCEPT !.executed = x] \in InputType
         /\ \A x \in SUBSET Nat : [r EXCEPT !.dropped = x] \in InputType
<1>1. \A x \in Nat : [r EXCEPT !.next = x] \in InputType
  BY DEF InputType
<1>2. \A x \in Seq(MissedType) : [r EXCEPT !.missed = x] \in InputType
  BY DEF InputType
<1>3. \A x \in Seq(Flows \cup {None}) : [r EXCEPT !.rules = x] \in InputType
  BY DEF InputType
<1>4. \A x \in Flows \cup {None} : [r EXCEPT !.made = x] \in InputType
  BY DEF InputType
<1>5. \A x \in Seq(MapType) : [r EXCEPT !.flow_map = x] \in InputType
  BY DEF InputType
<1>6. \A x \in Seq(BatchType) : [r EXCEPT !.batches = x] \in InputType
  BY DEF InputType
<1>7. \A x \in Seq(ExecutedType) : [r EXCEPT !.executed = x] \in InputType
  BY DEF InputType
<1>8. \A x \in SUBSET Nat : [r EXCEPT !.dropped = x] \in InputType
  BY DEF InputType
<1> QED
  BY <1>1, <1>2, <1>3, <1>4, <1>5, <1>6, <1>7, <1>8

LEMMA NoBatchType ==
  NoBatch \in InputType
BY DEF NoBatch, InputType

LEMMA IdleInput ==
  ASSUME TypeOK, in' = NoBatch, pc' = "idle"
  PROVE  InputInv'
<1>1. /\ in'.missed = <<>> /\ in'.rules = <<>> /\ in'.flow_map = <<>> /\ in'.batches = <<>>
      /\ in'.next = 1
  BY DEF NoBatch
<1>2. PhaseInv' /\ DfcInv' /\ RightMade' /\ DeadInv'
  BY <1>1 DEF PhaseInv, DfcInv, RightMade, DeadInv
<1> QED
  BY <1>1, <1>2, NothingYet DEF InputInv

LEMMA IdleSteps ==
  ASSUME CacheAssumption, TypeOK, TableInv, InputInv, Quiesce \/ Return
  PROVE  TypeOK' /\ InputInv' /\ TableInv'
<1>1. CASE Quiesce
  <2>1. TypeInv' /\ TableInv'
    BY <1>1, QuiesceKeeps DEF TypeOK
  <2>2. UNCHANGED <<smc, pc, in>> /\ pc = "idle" /\ in = NoBatch
    BY <1>1 DEF Quiesce, cache, input, InputInv, PhaseInv
  <2> QED
    BY <2>1, <2>2, IdleInput DEF TypeOK, SmcType
<1>2. CASE Return
  <2>1. UNCHANGED <<flow, classifier, flow_table, updating, emc>> /\ UNCHANGED smc
        /\ pc' = "idle" /\ in' = NoBatch
    BY <1>2 DEF Return, table, cache
  <2>2. TypeInv' /\ TableInv'
    BY <2>1, TableUntouched DEF TypeOK
  <2> QED
    BY <2>1, <2>2, IdleInput, NoBatchType DEF TypeOK, SmcType, Phases
<1> QED
  BY <1>1, <1>2

(* Steps of other threads, and the sweep.                                  *)
LEMMA OutsideSteps ==
  ASSUME CacheAssumption, TypeOK, TableInv, InputInv,
         \/ flow_put \/ flow_put_table \/ flow_del_table \/ flow_del_dead
         \/ emc_cache_slow_sweep
  PROVE  TypeOK' /\ InputInv' /\ TableInv' /\ UsedStay
<1>1. TypeInv' /\ TableInv' /\ UsedStay
  BY FlowPut, FlowPutTable, FlowDelTable, FlowDelDead, SweepKeeps DEF TypeOK
<1>2. UNCHANGED <<smc, pc, in>>
  BY DEF flow_put, flow_put_table, flow_del_table, flow_del_dead,
     emc_cache_slow_sweep,
         cache, input
<1> QED
  BY <1>1, <1>2, Untouched DEF TypeOK, SmcType

LEMMA DelStep ==
  ASSUME CacheAssumption, TypeOK, TableInv, InputInv, flow_del
  PROVE  TypeOK' /\ InputInv' /\ TableInv' /\ UsedStay
<1>1. TypeInv' /\ TableInv' /\ UsedStay
  BY FlowDel DEF TypeOK
<1>2. UNCHANGED <<smc, pc>> /\ in' = [in EXCEPT !.removed = pc # "idle"]
  BY DEF flow_del, cache
<1>3. /\ in' \in InputType
      /\ in'.packets = in.packets /\ in'.dead = in.dead /\ in'.next = in.next
      /\ in'.missed = in.missed /\ in'.rules = in.rules /\ in'.made = in.made
      /\ in'.flow_map = in.flow_map /\ in'.batches = in.batches
      /\ in'.dropped = in.dropped
  BY <1>2 DEF TypeOK, InputType
<1>4. TypeOK'
  BY <1>1, <1>2, <1>3 DEF TypeOK, SmcType
<1>5. CASE pc = "idle"
  <2>1. in = NoBatch
    BY <1>5 DEF InputInv, PhaseInv
  <2>2. in' = NoBatch
    BY <1>2, <1>5, <2>1 DEF NoBatch
  <2> QED
    BY <1>1, <1>2, <1>4, <1>5, <2>2, IdleInput
<1>6. CASE pc # "idle"
  <2>1. SameBatch
    BY <1>1, <1>3 DEF SameBatch
  <2>2. PhaseInv' /\ DfcInv'
    BY <1>2, <1>3, <1>6 DEF InputInv, PhaseInv, DfcInv
  <2>3. DeadInv' /\ MissedInv' /\ RightRules' /\ MapInv' /\ RightMap' /\ BatchPackets'
        /\ RightBatches' /\ RightMade'
    BY <1>1, <1>2, <1>3, <1>6, <2>1, DeadStay, MissedStay, RulesStay, MapStays,
       BatchesStay,
       MadeStays DEF InputInv
  <2> QED
    BY <1>1, <1>4, <2>2, <2>3 DEF InputInv
<1> QED
  BY <1>5, <1>6

(* Steps of the loops that leave the arrays alone.                         *)
LEMMA ArraysStay ==
  ASSUME CacheAssumption, TypeOK, TableInv, InputInv, SameBatch,
         pc # "idle", pc' \notin {"dfc", "insert"}, PhaseInv',
         in'.missed = in.missed, in'.rules = in.rules,
         in'.flow_map = in.flow_map, in'.batches = in.batches
  PROVE  InputInv'
<1>1. RightMade' /\ DfcInv'
  BY DEF RightMade, DfcInv
<1>2. MissedInv' /\ RightRules' /\ MapInv' /\ RightMap' /\ BatchPackets' /\ RightBatches'
  BY MissedStay, RulesStay, MapStays, BatchesStay
<1>3. DeadInv'
  BY DeadStay DEF InputInv, SameBatch
<1> QED
  BY <1>1, <1>2, <1>3 DEF InputInv

(* A packet is put into the batch of its flow, or into a new one.          *)
IsQueued(batches, i, f, q) ==
  /\ q \in Seq(BatchType)
  /\ \/ /\ DOMAIN q = DOMAIN batches
        /\ \E j \in DOMAIN batches : batches[j].flow = f
        /\ \A j \in DOMAIN q :
             /\ q[j].flow = batches[j].flow
             /\ q[j].packets = IF batches[j].flow = f
                               THEN Append(batches[j].packets, i)
                               ELSE batches[j].packets
     \/ /\ DOMAIN q = 1 .. (Len(batches) + 1)
        /\ \A j \in DOMAIN batches : batches[j].flow # f
        /\ \A j \in DOMAIN batches : q[j] = batches[j]
        /\ q[Len(batches) + 1].flow = f /\ q[Len(batches) + 1].packets = <<i>>

LEMMA QueueBatches ==
  ASSUME NEW batches \in Seq(BatchType), NEW i \in Nat, NEW f \in Flows
  PROVE  IsQueued(batches, i, f, dp_netdev_queue_batches(batches, i, f))
<1> DEFINE q == dp_netdev_queue_batches(batches, i, f)
<1>1. \A j \in DOMAIN batches : batches[j] \in BatchType
  BY ElementOfSeq
<1>2. CASE \E j \in DOMAIN batches : batches[j].flow = f
  <2> DEFINE new(j) == IF batches[j].flow = f
                       THEN [batches[j] EXCEPT !.packets = Append(@, i)] ELSE batches[j]
  <2>1. q = [j \in DOMAIN batches |-> new(j)]
    BY <1>2 DEF dp_netdev_queue_batches
  <2>2. ASSUME NEW j \in DOMAIN batches
        PROVE  /\ new(j) \in BatchType /\ new(j).flow = batches[j].flow
               /\ new(j).packets = IF batches[j].flow = f
                                   THEN Append(batches[j].packets, i)
                                   ELSE batches[j].packets
    <3>1. batches[j].packets \in Seq(Nat) /\ Append(batches[j].packets, i) \in Seq(Nat)
      <4>1. batches[j].packets \in Seq(Nat)
        BY <1>1 DEF BatchType
      <4> QED
        BY <4>1, AppendProperties
    <3> QED
      BY <1>1, <3>1 DEF BatchType
  <2> HIDE DEF new
  <2>3. q \in Seq(BatchType)
    <3>1. DOMAIN batches = 1 .. Len(batches) /\ Len(batches) \in Nat
      OBVIOUS
    <3> QED
      BY <2>1, <2>2, <3>1
  <2> QED
    <3>1. /\ DOMAIN q = DOMAIN batches
          /\ \A j \in DOMAIN q :
               /\ q[j].flow = batches[j].flow
               /\ q[j].packets = IF batches[j].flow = f
                                 THEN Append(batches[j].packets, i)
                                 ELSE batches[j].packets
      BY <2>1, <2>2
    <3> HIDE DEF q
    <3> QED
      BY <1>2, <2>3, <3>1, Zenon DEF IsQueued, q
<1>3. CASE ~\E j \in DOMAIN batches : batches[j].flow = f
  <2> DEFINE b == [flow |-> f, packets |-> <<i>>]
  <2>1. q = Append(batches, b)
    BY <1>3 DEF dp_netdev_queue_batches
  <2>2. b \in BatchType /\ b.flow = f /\ b.packets = <<i>>
    <3>1. <<i>> \in Seq(Nat)
      OBVIOUS
    <3> QED
      BY <3>1 DEF BatchType
  <2> HIDE DEF b
  <2>3. /\ q \in Seq(BatchType) /\ Len(q) = Len(batches) + 1
        /\ \A j \in 1 .. Len(batches) : q[j] = batches[j]
        /\ q[Len(batches) + 1] = b
    BY <2>1, <2>2, AppendProperties
  <2>4. /\ DOMAIN q = 1 .. (Len(batches) + 1)
        /\ \A j \in DOMAIN batches : q[j] = batches[j]
        /\ q[Len(batches) + 1].flow = f /\ q[Len(batches) + 1].packets = <<i>>
    <3> HIDE DEF q
    <3> QED
      BY <2>2, <2>3
  <2>5. \A j \in DOMAIN batches : batches[j].flow # f
    BY <1>3
  <2> HIDE DEF q
  <2> QED
    BY <2>3, <2>4, <2>5, Zenon DEF IsQueued, q
<1> QED
  BY <1>2, <1>3

(* A packet of a batch was there, or it is the new one, and the last.      *)
IsNew(q, i, f, j, a) ==
  q[j].packets[a] = i /\ q[j].flow = f /\ DOMAIN q[j].packets = 1 .. a
IsOld(q, batches, j, a) ==
  /\ j \in DOMAIN batches /\ a \in DOMAIN batches[j].packets
  /\ q[j].packets[a] = batches[j].packets[a] /\ q[j].flow = batches[j].flow

LEMMA QueuePackets ==
  ASSUME NEW batches \in Seq(BatchType), NEW i \in Nat, NEW f \in Flows, NEW q,
         IsQueued(batches, i, f, q),
         NEW j \in DOMAIN q, NEW a \in DOMAIN q[j].packets
  PROVE  IsNew(q, i, f, j, a) \/ IsOld(q, batches, j, a)
<1>1. CASE j \in DOMAIN batches /\ q[j] = batches[j]
  BY <1>1 DEF IsOld
<1>2. CASE j \in DOMAIN batches /\ q[j].flow = batches[j].flow
             /\ q[j].packets = IF batches[j].flow = f
                               THEN Append(batches[j].packets, i)
                               ELSE batches[j].packets
  <2>1. batches[j].packets \in Seq(Nat)
    <3>1. batches[j] \in BatchType
      BY <1>2, ElementOfSeq
    <3> QED
      BY <3>1 DEF BatchType
  <2>2. CASE batches[j].flow # f
    BY <1>2, <2>2 DEF IsOld
  <2>3. CASE batches[j].flow = f
    <3>1. q[j].packets = Append(batches[j].packets, i)
      BY <1>2, <2>3
    <3>2. /\ DOMAIN q[j].packets = 1 .. (Len(batches[j].packets) + 1)
          /\ \A x \in 1 .. Len(batches[j].packets) :
               q[j].packets[x] = batches[j].packets[x]
          /\ q[j].packets[Len(batches[j].packets) + 1] = i
      BY <2>1, <3>1, AppendProperties
    <3>3. DOMAIN batches[j].packets = 1 .. Len(batches[j].packets)
          /\ Len(batches[j].packets) \in Nat
      BY <2>1
    <3> QED
      BY <1>2, <2>3, <3>2, <3>3 DEF IsOld, IsNew
  <2> QED
    BY <2>2, <2>3
<1>3. CASE q[j].flow = f /\ q[j].packets = <<i>>
  BY <1>3 DEF IsNew
<1>4. DOMAIN batches = 1 .. Len(batches) /\ Len(batches) \in Nat
  OBVIOUS
<1> QED
  BY <1>1, <1>2, <1>3, <1>4 DEF IsQueued

LEMMA QueueKeeps ==
  ASSUME CacheAssumption, TypeOK, InputInv, SameBatch,
         NEW i \in Nat, NEW f \in Flows, IsPacket(in, i), Right(flow, in, i, f),
         in'.batches = dp_netdev_queue_batches(in.batches, i, f)
  PROVE  in'.batches \in Seq(BatchType) /\ BatchPackets' /\ RightBatches'
<1> DEFINE q == in'.batches
<1>0. in.batches \in Seq(BatchType)
  BY DEF TypeOK, InputType
<1>1. IsQueued(in.batches, i, f, q)
  BY <1>0, QueueBatches
<1>2. \A j \in DOMAIN q : \A a \in DOMAIN q[j].packets :
        IsNew(q, i, f, j, a) \/ IsOld(q, in.batches, j, a)
  BY <1>0, <1>1, QueuePackets
<1>3. \A x, g : g \in Flows \cup {None} /\ IsPacket(in, x) /\ Right(flow, in, x, g) =>
        IsPacket(in', x) /\ Right(flow', in', x, g)
  BY RightStays DEF SameBatch
<1>4. ASSUME NEW j \in DOMAIN q, NEW a \in DOMAIN q[j].packets
      PROVE  IsPacket(in', q[j].packets[a]) /\ Right(flow', in', q[j].packets[a], q[j].flow)
  <2>1. CASE IsNew(q, i, f, j, a)
    BY <1>3, <2>1 DEF IsNew
  <2>2. CASE IsOld(q, in.batches, j, a)
    <3>1. /\ in.batches[j].flow \in Flows
          /\ IsPacket(in, in.batches[j].packets[a])
          /\ Right(flow, in, in.batches[j].packets[a], in.batches[j].flow)
      BY <2>2, ArrayTypes DEF InputInv, BatchPackets, RightBatches, IsOld
    <3> QED
      BY <1>3, <2>2, <3>1 DEF IsOld
  <2> QED
    BY <1>2, <2>1, <2>2
<1> QED
  BY <1>1, <1>4 DEF BatchPackets, RightBatches, IsQueued

-----------------------------------------------------------------------------
(* dfc_processing.                                                         *)

(* What no step of the loops changes.                                      *)
SameTable == UNCHANGED <<flow, classifier, flow_table, updating, emc, smc>>
SameHeader ==
  in'.packets = in.packets /\ in'.dead = in.dead /\ in'.removed = in.removed

AppendMiss ==
  /\ in'.missed = Append(in.missed, [packet |-> in.next, recv_idx |-> Len(in.flow_map) + 1])
  /\ in'.flow_map = Append(in.flow_map, [packet |-> in.next, flow |-> None])
  /\ in'.batches = in.batches /\ in'.dropped = in.dropped

AppendMap(f) ==
  /\ in.missed # <<>>
  /\ in'.flow_map = Append(in.flow_map, [packet |-> in.next, flow |-> f])
  /\ in'.missed = in.missed /\ in'.batches = in.batches /\ in'.dropped = in.dropped

AppendBatch(f) ==
  /\ in.missed = <<>>
  /\ in'.batches = dp_netdev_queue_batches(in.batches, in.next, f)
  /\ in'.missed = in.missed /\ in'.flow_map = in.flow_map /\ in'.dropped = in.dropped

DropRunt ==
  /\ in.packets[in.next] = Runt
  /\ in'.dropped = in.dropped \cup {in.next}
  /\ in'.missed = in.missed /\ in'.flow_map = in.flow_map /\ in'.batches = in.batches

DfcEffect ==
  /\ in.next \in DOMAIN in.packets /\ in'.next = in.next + 1
  /\ in'.rules = in.rules /\ in'.made = in.made /\ in'.executed = in.executed
  /\ \/ DropRunt
     \/ /\ in.packets[in.next] \in Keys
        /\ \/ AppendMiss
           \/ \E f \in Flows :
                /\ flow[f].mega = mega_of[in.packets[in.next]] /\ ~flow[f].dead
                /\ AppendMap(f) \/ AppendBatch(f)

LEMMA DfcStep ==
  ASSUME CacheAssumption, TypeOK, TableInv, InputInv, dfc_processing
  PROVE  /\ pc = "dfc" /\ pc' = "dfc" /\ SameTable /\ SameHeader /\ DfcEffect
         /\ in' \in InputType
<1> DEFINE i == in.next
           k == in.packets[i]
           f == IF k # Runt /\ "EMC" \in in.caching THEN emc_lookup(k) ELSE None
           miss == [packet |-> i, recv_idx |-> Len(in.flow_map) + 1]
<1>1. pc = "dfc" /\ pc' = "dfc" /\ SameTable /\ i <= Len(in.packets)
  BY DEF dfc_processing, table, cache, SameTable
<1>2. i \in Nat /\ i >= 1 /\ in.packets \in Seq(Keys \cup {Runt})
  BY ArrayTypes DEF InputInv, PhaseInv
<1>3. i \in DOMAIN in.packets /\ k \in Keys \cup {Runt}
  BY <1>1, <1>2
<1>t. /\ in.missed \in Seq(MissedType) /\ in.flow_map \in Seq(MapType)
      /\ in.batches \in Seq(BatchType) /\ Len(in.flow_map) \in Nat
  BY DEF TypeOK, InputType
<1>4. CASE k = Runt
  <2>1. in' = [[in EXCEPT !.dropped = @ \cup {i}] EXCEPT !.next = i + 1]
    BY <1>4 DEF dfc_processing
  <2>2. DropRunt /\ SameHeader /\ in'.next = i + 1 /\ in'.rules = in.rules
        /\ in'.made = in.made /\ in'.executed = in.executed
    BY <1>4, <2>1 DEF TypeOK, InputType, DropRunt, SameHeader
  <2>3. in' \in InputType
    <3>1. in.dropped \cup {i} \in SUBSET Nat /\ in \in InputType
      BY <1>2 DEF TypeOK, InputType
    <3> DEFINE given == [in EXCEPT !.dropped = @ \cup {i}]
    <3>2. given \in InputType
      BY <3>1, FieldTypes
    <3> HIDE DEF given
    <3>3. i + 1 \in Nat
      BY <1>2
    <3> QED
      BY <2>1, <3>2, <3>3, FieldTypes DEF given
  <2> QED
    BY <1>1, <1>3, <2>2, <2>3 DEF DfcEffect
<1>5. CASE k # Runt /\ f = None
  <2>1. in' = [[Mapped(None) EXCEPT !.missed = Append(@, miss)] EXCEPT !.next = i + 1]
    BY <1>5 DEF dfc_processing
  <2>2. miss \in MissedType /\ [packet |-> i, flow |-> None] \in MapType
    BY <1>2, <1>t DEF MissedType, MapType
  <2>3. AppendMiss /\ SameHeader /\ in'.next = i + 1 /\ in'.rules = in.rules
        /\ in'.made = in.made /\ in'.executed = in.executed
    BY <2>1 DEF TypeOK, InputType, AppendMiss, SameHeader, Mapped
  <2>4. /\ Append(in.missed, miss) \in Seq(MissedType)
        /\ Append(in.flow_map, [packet |-> i, flow |-> None]) \in Seq(MapType)
    BY <1>t, <2>2, AppendProperties
  <2>5. in' \in InputType
    <3>1. Mapped(None) \in InputType /\ Mapped(None).missed = in.missed
      BY <2>4, FieldTypes DEF Mapped, TypeOK, InputType
    <3> HIDE DEF miss
    <3> DEFINE given == [Mapped(None) EXCEPT !.missed = Append(@, miss)]
    <3>2. given \in InputType
      BY <2>4, <3>1, FieldTypes
    <3> HIDE DEF given
    <3>3. i + 1 \in Nat
      BY <1>2
    <3> QED
      BY <2>1, <3>2, <3>3, FieldTypes DEF given
  <2> QED
    BY <1>1, <1>3, <1>5, <2>3, <2>5 DEF DfcEffect
<1>6. CASE k # Runt /\ f # None
  <2>1. k \in Keys /\ f = emc_lookup(k)
    BY <1>3, <1>6
  <2>2. f \in Flows /\ flow[f].mega = mega_of[k] /\ ~flow[f].dead
    BY <1>6, <2>1, EmcLookupAlive DEF TypeOK, TableInv
  <2>3. CASE in.missed = <<>>
    <3>1. in' = [[in EXCEPT !.batches = dp_netdev_queue_batches(@, i, f)] EXCEPT !.next = i + 1]
      BY <1>6, <2>3 DEF dfc_processing, batch_enable
    <3> HIDE DEF f, k, i
    <3>2. dp_netdev_queue_batches(in.batches, i, f) \in Seq(BatchType)
      BY <1>2, <1>t, <2>2, QueueBatches DEF IsQueued
    <3>3. AppendBatch(f) /\ SameHeader /\ in'.next = i + 1 /\ in'.rules = in.rules
          /\ in'.made = in.made /\ in'.executed = in.executed
      BY <2>3, <3>1 DEF TypeOK, InputType, AppendBatch, SameHeader, i
    <3>4. in' \in InputType
      <4> DEFINE given == [in EXCEPT !.batches = dp_netdev_queue_batches(@, i, f)]
      <4>1. given \in InputType
        BY <3>2, FieldTypes DEF TypeOK
      <4> HIDE DEF given
      <4>2. i + 1 \in Nat
        BY <1>2
      <4> QED
        BY <4>1, <4>2, <3>1, FieldTypes DEF given
    <3> QED
      BY <1>1, <1>3, <2>1, <2>2, <3>3, <3>4 DEF DfcEffect, i, k
  <2>4. CASE in.missed # <<>>
    <3>1. in' = [Mapped(f) EXCEPT !.next = i + 1]
      BY <1>6, <2>4 DEF dfc_processing, batch_enable
    <3> HIDE DEF f, k, i
    <3>2. Append(in.flow_map, [packet |-> i, flow |-> f]) \in Seq(MapType)
      <4>1. [packet |-> i, flow |-> f] \in MapType
        BY <1>2, <2>2 DEF MapType
      <4> QED
        BY <1>t, <4>1, AppendProperties
    <3>3. AppendMap(f) /\ SameHeader /\ in'.next = i + 1 /\ in'.rules = in.rules
          /\ in'.made = in.made /\ in'.executed = in.executed
      BY <2>4, <3>1 DEF TypeOK, InputType, AppendMap, SameHeader, Mapped, i
    <3>4. in' \in InputType
      <4>1. Mapped(f) \in InputType
        BY <3>2, FieldTypes DEF TypeOK, Mapped, i
      <4>2. i + 1 \in Nat
        BY <1>2
      <4> QED
        BY <4>1, <4>2, <3>1, FieldTypes
    <3> QED
      BY <1>1, <1>3, <2>1, <2>2, <3>3, <3>4 DEF DfcEffect, i, k
  <2> QED
    BY <2>3, <2>4
<1> QED
  BY <1>4, <1>5, <1>6


(* A packet is added at the end of flow_map.                               *)
LEMMA MapGrows ==
  ASSUME CacheAssumption, TypeOK, InputInv, SameBatch,
         NEW i \in Nat, NEW f \in Flows \cup {None},
         IsPacket(in, i), Right(flow, in, i, f),
         \A x \in DOMAIN in.flow_map : in.flow_map[x].packet < i,
         in'.flow_map = Append(in.flow_map, [packet |-> i, flow |-> f])
  PROVE  /\ MapInv' /\ RightMap'
         /\ DOMAIN in'.flow_map = 1 .. (Len(in.flow_map) + 1)
         /\ \A x \in DOMAIN in.flow_map : in'.flow_map[x] = in.flow_map[x]
         /\ in'.flow_map[Len(in.flow_map) + 1].packet = i
         /\ in'.flow_map[Len(in.flow_map) + 1].flow = f
<1> DEFINE N == Len(in.flow_map)
           m == [packet |-> i, flow |-> f]
<1>1. in.flow_map \in Seq(MapType) /\ m \in MapType /\ m.packet = i /\ m.flow = f
  BY DEF TypeOK, InputType, MapType
<1>2. N \in Nat /\ DOMAIN in.flow_map = 1 .. N
  BY <1>1
<1>3. /\ DOMAIN in'.flow_map = 1 .. (N + 1)
      /\ \A x \in 1 .. N : in'.flow_map[x] = in.flow_map[x]
      /\ in'.flow_map[N + 1] = m
  BY <1>1, <1>2, AppendProperties
<1>4. \A x, g : g \in Flows \cup {None} /\ IsPacket(in, x) /\ Right(flow, in, x, g) =>
        IsPacket(in', x) /\ Right(flow', in', x, g)
  BY RightStays DEF SameBatch
<1> HIDE DEF N, m
<1>5. ASSUME NEW x \in 1 .. (N + 1)
      PROVE  /\ IsPacket(in', in'.flow_map[x].packet)
             /\ Right(flow', in', in'.flow_map[x].packet, in'.flow_map[x].flow)
  <2>1. CASE x = N + 1
    BY <1>1, <1>3, <1>4, <2>1
  <2>2. CASE x \in 1 .. N
    <3>1. /\ in.flow_map[x].flow \in Flows \cup {None}
          /\ IsPacket(in, in.flow_map[x].packet)
          /\ Right(flow, in, in.flow_map[x].packet, in.flow_map[x].flow)
      BY <1>2, <2>2, ArrayTypes DEF InputInv, MapInv, RightMap
    <3> QED
      BY <1>3, <1>4, <2>2, <3>1
  <2> QED
    BY <1>2, <2>1, <2>2
<1>6. ASSUME NEW x \in 1 .. (N + 1), NEW y \in 1 .. (N + 1), x < y
      PROVE  in'.flow_map[x].packet < in'.flow_map[y].packet
  <2>1. CASE y = N + 1
    BY <1>1, <1>2, <1>3, <1>6, <2>1
  <2>2. CASE y \in 1 .. N
    <3>1. x \in 1 .. N /\ x \in DOMAIN in.flow_map /\ y \in DOMAIN in.flow_map
      BY <1>2, <1>6, <2>2
    <3>2. in.flow_map[x].packet < in.flow_map[y].packet
      BY <1>6, <3>1 DEF InputInv, MapInv
    <3> QED
      BY <1>3, <2>2, <3>1, <3>2
  <2> QED
    BY <1>2, <2>1, <2>2
<1>7. MapInv' /\ RightMap'
  BY <1>3, <1>5, <1>6 DEF MapInv, RightMap
<1> QED
  BY <1>1, <1>2, <1>3, <1>7 DEF N

LEMMA MissedGrows ==
  ASSUME TypeOK, InputInv, NEW i \in Nat,
         \A x \in DOMAIN in.flow_map : in.flow_map[x].packet < i,
         in'.missed = Append(in.missed, [packet |-> i, recv_idx |-> Len(in.flow_map) + 1]),
         DOMAIN in'.flow_map = 1 .. (Len(in.flow_map) + 1),
         \A x \in DOMAIN in.flow_map : in'.flow_map[x] = in.flow_map[x],
         in'.flow_map[Len(in.flow_map) + 1].packet = i
  PROVE  /\ MissedInv' /\ in'.missed # <<>>
         /\ DOMAIN in'.missed = 1 .. (Len(in.missed) + 1)
         /\ \A x \in DOMAIN in.missed : in'.missed[x] = in.missed[x]
         /\ in'.missed[Len(in.missed) + 1].packet = i
         /\ in'.missed[Len(in.missed) + 1].recv_idx = Len(in.flow_map) + 1
<1> DEFINE N == Len(in.flow_map)
           M == Len(in.missed)
           m == [packet |-> i, recv_idx |-> N + 1]
<1>1. in.missed \in Seq(MissedType) /\ M \in Nat /\ N \in Nat
      /\ DOMAIN in.missed = 1 .. M /\ DOMAIN in.flow_map = 1 .. N
  BY DEF TypeOK, InputType
<1>2. m \in MissedType /\ m.packet = i /\ m.recv_idx = N + 1
  BY <1>1 DEF MissedType
<1>3. /\ DOMAIN in'.missed = 1 .. (M + 1) /\ Len(in'.missed) = M + 1
      /\ \A x \in 1 .. M : in'.missed[x] = in.missed[x]
      /\ in'.missed[M + 1] = m
  BY <1>1, <1>2, AppendProperties
<1>4. /\ DOMAIN in'.flow_map = 1 .. (N + 1) /\ in'.flow_map[N + 1].packet = i
      /\ \A x \in 1 .. N : in'.flow_map[x] = in.flow_map[x]
  BY <1>1
<1> HIDE DEF N, M, m
<1>5. \A x \in 1 .. M :
        /\ in.missed[x].recv_idx \in 1 .. N
        /\ in.flow_map[in.missed[x].recv_idx].packet = in.missed[x].packet
        /\ in.missed[x].packet < i
  BY <1>1 DEF InputInv, MissedInv
<1>6. \A x \in 1 .. (M + 1) :
        /\ in'.missed[x].recv_idx \in 1 .. (N + 1)
        /\ in'.flow_map[in'.missed[x].recv_idx].packet = in'.missed[x].packet
  <2> TAKE x \in 1 .. (M + 1)
  <2>1. CASE x = M + 1
    BY <1>1, <1>2, <1>3, <1>4, <2>1
  <2>2. CASE x \in 1 .. M
    <3>1. in'.missed[x] = in.missed[x] /\ in.missed[x].recv_idx \in 1 .. N
      BY <1>3, <1>5, <2>2
    <3>2. in'.flow_map[in.missed[x].recv_idx] = in.flow_map[in.missed[x].recv_idx]
      BY <1>4, <3>1
    <3>3. in.missed[x].recv_idx \in 1 .. (N + 1)
      BY <1>1, <3>1
    <3> QED
      BY <1>5, <2>2, <3>1, <3>2, <3>3
  <2> QED
    BY <1>1, <2>1, <2>2
<1>7. ASSUME NEW x \in 1 .. (M + 1), NEW y \in 1 .. (M + 1), x < y
      PROVE  in'.missed[x].packet < in'.missed[y].packet
  <2>1. CASE y = M + 1
    BY <1>1, <1>2, <1>3, <1>5, <1>7, <2>1
  <2>2. CASE y \in 1 .. M
    <3>1. x \in 1 .. M /\ x \in DOMAIN in.missed /\ y \in DOMAIN in.missed
      BY <1>1, <1>7, <2>2
    <3>2. in.missed[x].packet < in.missed[y].packet
      BY <1>7, <3>1 DEF InputInv, MissedInv
    <3> QED
      BY <1>3, <2>2, <3>1, <3>2
  <2> QED
    BY <1>1, <2>1, <2>2
<1>8. MissedInv'
  BY <1>3, <1>4, <1>6, <1>7 DEF MissedInv
<1>9. in'.missed # <<>>
  BY <1>1, <1>3
<1> QED
  BY <1>1, <1>2, <1>3, <1>8, <1>9 DEF N, M


(* The arrays after a packet of dfc_processing.                            *)
LEMMA DfcKeeps ==
  ASSUME CacheAssumption, TypeOK, TableInv, InputInv, dfc_processing
  PROVE  TypeOK' /\ InputInv' /\ TableInv' /\ UsedStay
<1> DEFINE i == in.next
           N == Len(in.flow_map)
<1>1. /\ pc = "dfc" /\ pc' = "dfc" /\ SameTable /\ SameHeader /\ DfcEffect
      /\ in' \in InputType
  BY DfcStep
<1>2. TypeInv' /\ TableInv' /\ UsedStay
  BY <1>1, TableUntouched DEF SameTable, TypeOK
<1>3. TypeOK' /\ SameBatch
  BY <1>1, <1>2 DEF TypeOK, SmcType, SameTable, SameHeader, SameBatch
<1>4. i \in Nat /\ i >= 1 /\ N \in Nat /\ DOMAIN in.flow_map = 1 .. N /\ in'.next = i + 1
      /\ in'.rules = <<>> /\ in'.packets = in.packets /\ i \in DOMAIN in.packets
      /\ Len(in.packets) \in Nat /\ DOMAIN in.packets = 1 .. Len(in.packets)
  BY <1>1, ArrayTypes DEF InputInv, PhaseInv, DfcEffect, SameHeader
<1>5. PhaseInv'
  BY <1>1, <1>4 DEF PhaseInv
<1>6. DeadInv' /\ RightMade'
  BY <1>1, <1>2, DeadStay DEF SameHeader, InputInv, RightMade
<1>7. RightRules'
  BY <1>4 DEF RightRules
<1>8. /\ \A x \in DOMAIN in.flow_map : in.flow_map[x].packet < i
      /\ \A j \in DOMAIN in.batches : \A a \in DOMAIN in.batches[j].packets :
           in.batches[j].packets[a] < i
      /\ \A p \in in.dropped : p < i
      /\ in.missed = <<>> => in.flow_map = <<>>
  BY <1>1 DEF InputInv, DfcInv
<1>9. /\ \A x \in DOMAIN in.flow_map : in.flow_map[x].packet \in Nat
      /\ \A j \in DOMAIN in.batches : \A a \in DOMAIN in.batches[j].packets :
           in.batches[j].packets[a] \in Nat
      /\ \A p \in in.dropped : p \in Nat
  <2>1. in.dropped \in SUBSET Nat
    BY DEF TypeOK, InputType
  <2> QED
    BY <2>1, ArrayTypes
<1>10. /\ \A x \in DOMAIN in.flow_map : in.flow_map[x].packet < i + 1
       /\ \A j \in DOMAIN in.batches : \A a \in DOMAIN in.batches[j].packets :
            in.batches[j].packets[a] < i + 1
       /\ \A p \in in.dropped : p < i + 1
  BY <1>4, <1>8, <1>9
<1>11. i + 1 <= Len(in.packets) + 1
  BY <1>4
<1> HIDE DEF i, N
<1>12. CASE DropRunt
  <2>1. MissedInv' /\ MapInv' /\ RightMap' /\ BatchPackets' /\ RightBatches'
    BY <1>3, <1>12, MissedStay, MapStays, BatchesStay DEF DropRunt
  <2>2. DfcInv'
    BY <1>4, <1>8, <1>10, <1>11, <1>12 DEF DropRunt, DfcInv, i
  <2> QED
    BY <1>2, <1>3, <1>5, <1>6, <1>7, <2>1, <2>2 DEF InputInv
<1>13. CASE in.packets[i] \in Keys /\ AppendMiss
  <2>1. IsPacket(in, i) /\ Right(flow, in, i, None)
    BY <1>4, <1>13 DEF IsPacket, Right
  <2>2. /\ MapInv' /\ RightMap'
        /\ DOMAIN in'.flow_map = 1 .. (Len(in.flow_map) + 1)
        /\ \A x \in DOMAIN in.flow_map : in'.flow_map[x] = in.flow_map[x]
        /\ in'.flow_map[Len(in.flow_map) + 1].packet = i
    BY <1>3, <1>4, <1>8, <1>13, <2>1, MapGrows DEF AppendMiss, i
  <2>3. MissedInv' /\ in'.missed # <<>>
    BY <1>4, <1>8, <1>13, <2>2, MissedGrows DEF AppendMiss, i
  <2>4. BatchPackets' /\ RightBatches'
    BY <1>3, <1>13, BatchesStay DEF AppendMiss
  <2>5. \A x \in DOMAIN in'.flow_map : in'.flow_map[x].packet < i + 1
    BY <1>4, <1>10, <2>2 DEF N
  <2>6. DfcInv'
    BY <1>4, <1>10, <1>11, <1>13, <2>3, <2>5 DEF AppendMiss, DfcInv
  <2> QED
    BY <1>2, <1>3, <1>5, <1>6, <1>7, <2>2, <2>3, <2>4, <2>6 DEF InputInv
<1>14. ASSUME NEW f \in Flows, in.packets[i] \in Keys,
              flow[f].mega = mega_of[in.packets[i]], ~flow[f].dead, AppendMap(f)
       PROVE  InputInv'
  <2>1. IsPacket(in, i)
    BY <1>4, <1>14 DEF IsPacket
  <2>2. Right(flow, in, i, f)
    BY <1>1, <1>14 DEF Right, InputInv, DeadInv
  <2>3. /\ MapInv' /\ RightMap'
        /\ DOMAIN in'.flow_map = 1 .. (Len(in.flow_map) + 1)
        /\ \A x \in DOMAIN in.flow_map : in'.flow_map[x] = in.flow_map[x]
        /\ in'.flow_map[Len(in.flow_map) + 1].packet = i
    BY <1>3, <1>4, <1>8, <1>14, <2>1, <2>2, MapGrows DEF AppendMap, i
  <2>4. MissedInv'
    <3>1. in'.missed = in.missed
      BY <1>14 DEF AppendMap
    <3>2. \A x \in DOMAIN in.missed :
            /\ in.missed[x].recv_idx \in DOMAIN in.flow_map
            /\ in.flow_map[in.missed[x].recv_idx].packet = in.missed[x].packet
      BY DEF InputInv, MissedInv
    <3>3. \A x \in DOMAIN in.flow_map : x \in DOMAIN in'.flow_map
      BY <1>4, <2>3 DEF N
    <3>4. \A x \in DOMAIN in.missed :
            /\ in'.missed[x].recv_idx \in DOMAIN in'.flow_map
            /\ in'.flow_map[in'.missed[x].recv_idx].packet = in'.missed[x].packet
      BY <2>3, <3>1, <3>2, <3>3
    <3> QED
      BY <3>1, <3>4 DEF InputInv, MissedInv
  <2>5. BatchPackets' /\ RightBatches'
    BY <1>3, <1>14, BatchesStay DEF AppendMap
  <2>6. \A x \in DOMAIN in'.flow_map : in'.flow_map[x].packet < i + 1
    BY <1>4, <1>10, <2>3 DEF N
  <2>7. DfcInv'
    BY <1>4, <1>10, <1>11, <1>14, <2>6 DEF AppendMap, DfcInv
  <2> QED
    BY <1>5, <1>6, <1>7, <2>3, <2>4, <2>5, <2>7 DEF InputInv
<1>15. ASSUME NEW f \in Flows, in.packets[i] \in Keys,
              flow[f].mega = mega_of[in.packets[i]], ~flow[f].dead, AppendBatch(f)
       PROVE  InputInv'
  <2>1. IsPacket(in, i)
    BY <1>4, <1>15 DEF IsPacket
  <2>2. Right(flow, in, i, f)
    BY <1>1, <1>15 DEF Right, InputInv, DeadInv
  <2>3. in'.batches = dp_netdev_queue_batches(in.batches, i, f)
    BY <1>15 DEF AppendBatch, i
  <2>4. BatchPackets' /\ RightBatches'
    BY <1>3, <1>4, <2>1, <2>2, <2>3, QueueKeeps
  <2>5. MissedInv' /\ MapInv' /\ RightMap'
    BY <1>3, <1>15, MissedStay, MapStays DEF AppendBatch
  <2>6. DfcInv'
    <3>1. \A j \in DOMAIN in'.batches : \A a \in DOMAIN in'.batches[j].packets :
            in'.batches[j].packets[a] < i + 1
      <4> TAKE j \in DOMAIN in'.batches
      <4> TAKE a \in DOMAIN in'.batches[j].packets
      <4> DEFINE q == in'.batches
      <4>1. in.batches \in Seq(BatchType)
        BY DEF TypeOK, InputType
      <4>2. IsQueued(in.batches, i, f, q)
        BY <1>4, <2>3, <4>1, QueueBatches
      <4>3. IsNew(q, i, f, j, a) \/ IsOld(q, in.batches, j, a)
        BY <1>4, <4>1, <4>2, QueuePackets
      <4> QED
        BY <1>4, <1>10, <4>3 DEF IsNew, IsOld
    <3> QED
      BY <1>4, <1>8, <1>10, <1>11, <1>15, <3>1 DEF AppendBatch, DfcInv, i
  <2> QED
    BY <1>5, <1>6, <1>7, <2>4, <2>5, <2>6 DEF InputInv
<1> QED
  BY <1>1, <1>2, <1>3, <1>12, <1>13, <1>14, <1>15 DEF DfcEffect, i

-----------------------------------------------------------------------------
(* Steps of the loops that change none of the arrays.                      *)

SameArrays ==
  /\ in'.missed = in.missed /\ in'.rules = in.rules /\ in'.flow_map = in.flow_map
  /\ in'.batches = in.batches

(* The loop is begun again, for what comes next.                           *)
Begin(from, to) ==
  /\ pc = from /\ pc' = to /\ in'.next = 1
  /\ in'.executed = in.executed /\ in'.made = in.made

(* The loop goes on.                                                       *)
GoOn(at) ==
  /\ pc = at /\ pc' = at /\ in'.next = in.next + 1 /\ in'.made = in.made

LookupDone ==
  /\ Begin("lookup", "enqueue") /\ AtEnd
  /\ in'.dropped = in.dropped \cup
       {in.missed[i].packet : i \in {i \in DOMAIN in.rules : in.rules[i] = None}}

UpcallError ==
  /\ GoOn("upcall") /\ in.next <= Len(in.missed) /\ in.rules[in.next] = None
  /\ in'.dropped = in.dropped \cup {in.missed[in.next].packet}
  /\ in'.executed = in.executed

Upcalled ==
  /\ pc = "upcall" /\ in.next <= Len(in.missed) /\ in.rules[in.next] = None
  /\ \A f \in classifier : flow[f].mega # mega_of[in.packets[in.missed[in.next].packet]]
  /\ \/ pc' = "upcall" /\ in'.next = in.next + 1
     \/ pc' = "install" /\ in'.next = in.next
  /\ in'.executed = Append(in.executed,
       [packet |-> in.missed[in.next].packet, flow |-> UPCALL])
  /\ in'.dropped = in.dropped /\ in'.made = in.made

Executes ==
  /\ GoOn("execute") /\ in.next <= Len(in.batches)
  /\ in'.executed = in.executed \o Run(in.batches[in.next])
  /\ in'.dropped = in.dropped

LoopEffect ==
  \/ /\ in'.executed = in.executed /\ in'.dropped = in.dropped
     /\ \/ Begin("dfc", "smc") /\ in.next > Len(in.packets)
        \/ Begin("dfc", "lookup") /\ in.next > Len(in.packets)
        \/ Begin("smc", "lookup") /\ AtEnd
        \/ Begin("lookup", "upcall") /\ AtEnd
        \/ Begin("upcall", "enqueue") /\ AtEnd
        \/ Begin("enqueue", "queue") /\ AtEnd
        \/ Begin("queue", "execute") /\ in.next > Len(in.flow_map)
        \/ GoOn("smc") /\ ~AtEnd
        \/ GoOn("upcall") /\ ~AtEnd /\ in.rules[in.next] # None
        \/ GoOn("enqueue") /\ ~AtEnd /\ in.rules[in.next] = None
        \/ GoOn("queue") /\ in.next <= Len(in.flow_map)
             /\ in.flow_map[in.next].flow = None
  \/ LookupDone \/ UpcallError \/ Upcalled \/ Executes

LoopStep ==
  \/ dfc_done \/ smc_miss \/ smc_done \/ lookup_done \/ upcall_skip \/ upcall_error
  \/ handle_packet_upcall \/ upcall_done \/ enqueue_done \/ queue_done
  \/ (enqueue /\ in.rules[in.next] = None)
  \/ (queue /\ in.flow_map[in.next].flow = None)
  \/ packet_batch_per_flow_execute

LEMMA NextChanges ==
  ASSUME TypeOK, NEW x \in Nat, in' = [in EXCEPT !.next = x]
  PROVE  /\ in' \in InputType /\ SameHeader /\ SameArrays /\ in'.next = x
         /\ in'.made = in.made /\ in'.executed = in.executed /\ in'.dropped = in.dropped
<1>1. in' \in InputType
  BY FieldTypes DEF TypeOK
<1> QED
  BY <1>1 DEF TypeOK, InputType, SameHeader, SameArrays

LEMMA DroppedChanges ==
  ASSUME TypeOK, NEW x \in Nat, NEW d \in SUBSET Nat,
         in' = [[in EXCEPT !.dropped = d] EXCEPT !.next = x]
  PROVE  /\ in' \in InputType /\ SameHeader /\ SameArrays /\ in'.next = x
         /\ in'.made = in.made /\ in'.executed = in.executed /\ in'.dropped = d
<1>1. in' \in InputType
  <2> DEFINE r == [in EXCEPT !.dropped = d]
  <2>1. r \in InputType
    BY FieldTypes DEF TypeOK
  <2> HIDE DEF r
  <2> QED
    BY <2>1, FieldTypes DEF r
<1> QED
  BY <1>1 DEF TypeOK, InputType, SameHeader, SameArrays

LEMMA ExecutedChanges ==
  ASSUME TypeOK, NEW x \in Nat, NEW e \in Seq(ExecutedType),
         in' = [[in EXCEPT !.executed = e] EXCEPT !.next = x]
  PROVE  /\ in' \in InputType /\ SameHeader /\ SameArrays /\ in'.next = x
         /\ in'.made = in.made /\ in'.executed = e /\ in'.dropped = in.dropped
<1>1. in' \in InputType
  <2> DEFINE r == [in EXCEPT !.executed = e]
  <2>1. r \in InputType
    BY FieldTypes DEF TypeOK
  <2> HIDE DEF r
  <2> QED
    BY <2>1, FieldTypes DEF r
<1> QED
  BY <1>1 DEF TypeOK, InputType, SameHeader, SameArrays

LEMMA LoopStepEffect ==
  ASSUME CacheAssumption, TypeOK, InputInv, LoopStep
  PROVE  SameTable /\ SameHeader /\ SameArrays /\ LoopEffect /\ in' \in InputType
<1>0. in.next \in Nat /\ in.next + 1 \in Nat /\ 1 \in Nat /\ in.dropped \in SUBSET Nat
      /\ in.executed \in Seq(ExecutedType) /\ Len(in.missed) \in Nat
      /\ in.next >= 1 /\ DOMAIN in.missed = 1 .. Len(in.missed)
  BY ArrayTypes DEF TypeOK, InputType, InputInv, PhaseInv
<1>1. CASE dfc_done
  <2>1. SameTable /\ in' = [in EXCEPT !.next = 1] /\ pc = "dfc"
        /\ (pc' = "smc" \/ pc' = "lookup") /\ in.next > Len(in.packets)
    BY <1>1 DEF dfc_done, table, cache, SameTable
  <2> QED
    BY <1>0, <2>1, NextChanges DEF LoopEffect, Begin
<1>2. CASE smc_miss
  <2>1. SameTable /\ in' = [in EXCEPT !.next = in.next + 1] /\ pc = "smc" /\ pc' = "smc"
        /\ ~AtEnd
    BY <1>2 DEF smc_miss, table, cache, SameTable, Advance
  <2> QED
    BY <1>0, <2>1, NextChanges DEF LoopEffect, GoOn
<1>3. CASE smc_done
  <2>1. SameTable /\ in' = [in EXCEPT !.next = 1] /\ pc = "smc" /\ pc' = "lookup" /\ AtEnd
    BY <1>3 DEF smc_done, table, cache, SameTable
  <2> QED
    BY <1>0, <2>1, NextChanges DEF LoopEffect, Begin
<1>4. CASE lookup_done
  <2> DEFINE unmatched == {i \in DOMAIN in.rules : in.rules[i] = None}
             d == in.dropped \cup {in.missed[i].packet : i \in unmatched}
             from1 == [in EXCEPT !.next = 1]
  <2>1. SameTable /\ pc = "lookup" /\ AtEnd
    BY <1>4 DEF lookup_done, table, cache, SameTable
  <2>2. CASE pc' = "upcall" /\ in' = from1
    BY <1>0, <2>1, <2>2, NextChanges DEF LoopEffect, Begin
  <2>3. CASE pc' = "enqueue" /\ in' = [from1 EXCEPT
              !.dropped = @ \cup {in.missed[i].packet : i \in unmatched}]
    <3>1. d \in SUBSET Nat
      <4>1. DOMAIN in.rules \subseteq DOMAIN in.missed
        BY <2>1, ArrayTypes DEF InputInv, PhaseInv, AtEnd
      <4> QED
        BY <1>0, <4>1, ArrayTypes
    <3>2. from1 \in InputType /\ from1.dropped = in.dropped
      BY <1>0, FieldTypes DEF TypeOK, InputType
    <3>3. in' = [from1 EXCEPT !.dropped = d]
      BY <2>3, <3>2
    <3>4. in' = [[in EXCEPT !.dropped = d] EXCEPT !.next = 1]
      <4> HIDE DEF d
      <4> QED
        BY <3>3 DEF TypeOK, InputType
    <3>5. /\ in' \in InputType /\ SameHeader /\ SameArrays /\ in'.next = 1
          /\ in'.made = in.made /\ in'.executed = in.executed /\ in'.dropped = d
      <4> HIDE DEF d
      <4> QED
        BY <1>0, <3>1, <3>4, DroppedChanges
    <3>6. LookupDone
      BY <2>1, <2>3, <3>5 DEF LookupDone, Begin
    <3> QED
      BY <2>1, <3>5, <3>6 DEF LoopEffect
  <2> QED
    BY <1>4, <2>2, <2>3, Zenon DEF lookup_done
<1>5. CASE upcall_skip
  <2>1. SameTable /\ in' = [in EXCEPT !.next = in.next + 1] /\ pc = "upcall" /\ pc' = "upcall"
        /\ ~AtEnd /\ in.rules[in.next] # None
    BY <1>5 DEF upcall_skip, table, cache, SameTable, Advance
  <2> QED
    BY <1>0, <2>1, NextChanges DEF LoopEffect, GoOn
<1>6. CASE upcall_error
  <2> DEFINE d == in.dropped \cup {in.missed[in.next].packet}
  <2>1. /\ SameTable /\ pc = "upcall" /\ pc' = "upcall" /\ in.next <= Len(in.missed)
        /\ in.rules[in.next] = None
        /\ in' = [[in EXCEPT !.dropped = d] EXCEPT !.next = @ + 1]
    BY <1>0, <1>6 DEF upcall_error, table, cache, SameTable, Advance, Unmatched,
       AtEnd,
       Current
  <2>2. d \in SUBSET Nat
    BY <1>0, <2>1, ArrayTypes
  <2>3. [in EXCEPT !.dropped = d].next = in.next
    BY DEF TypeOK, InputType
  <2>4. in' = [[in EXCEPT !.dropped = d] EXCEPT !.next = in.next + 1]
    <3> HIDE DEF d
    <3> QED
      BY <2>1, <2>3
  <2>5. /\ in' \in InputType /\ SameHeader /\ SameArrays /\ in'.next = in.next + 1
        /\ in'.made = in.made /\ in'.executed = in.executed /\ in'.dropped = d
    <3> HIDE DEF d
    <3> QED
      BY <1>0, <2>2, <2>4, DroppedChanges
  <2>6. UpcallError
    BY <2>1, <2>5 DEF UpcallError, GoOn
  <2> QED
    BY <2>1, <2>5, <2>6 DEF LoopEffect
<1>7. CASE handle_packet_upcall
  <2> DEFINE e == Append(in.executed, [packet |-> Current.packet, flow |-> UPCALL])
             done == [in EXCEPT !.executed = e]
  <2>1. /\ SameTable /\ pc = "upcall" /\ in.next <= Len(in.missed)
        /\ in.rules[in.next] = None
        /\ dp_netdev_pmd_lookup_flow(Key) = {}
    BY <1>0, <1>7 DEF handle_packet_upcall, table, cache, SameTable, Unmatched, AtEnd
  <2>2. \/ pc' = "install" /\ in' = done
        \/ pc' = "upcall" /\ in' = Advance(done)
    BY <1>7 DEF handle_packet_upcall
  <2>3. e \in Seq(ExecutedType)
    <3>1. Current.packet \in Nat
      BY <1>0, <2>1, ArrayTypes DEF Current
    <3>2. [packet |-> Current.packet, flow |-> UPCALL] \in ExecutedType
      BY <3>1 DEF ExecutedType
    <3> QED
      BY <1>0, <3>2, AppendProperties
  <2>4. \A f \in classifier : flow[f].mega # mega_of[in.packets[in.missed[in.next].packet]]
    BY <2>1 DEF dp_netdev_pmd_lookup_flow, Key, Current
  <2>5. done.next = in.next
    BY DEF TypeOK, InputType
  <2>6. CASE pc' = "install" /\ in' = done
    <3>1. in' = [[in EXCEPT !.executed = e] EXCEPT !.next = in.next]
      <4> HIDE DEF e
      <4> QED
        BY <2>6 DEF TypeOK, InputType
    <3>2. /\ in' \in InputType /\ SameHeader /\ SameArrays /\ in'.next = in.next
          /\ in'.made = in.made /\ in'.executed = e /\ in'.dropped = in.dropped
      <4> HIDE DEF e
      <4> QED
        BY <1>0, <2>3, <3>1, ExecutedChanges
    <3>3. Upcalled
      BY <2>1, <2>4, <2>6, <3>2 DEF Upcalled, Current
    <3> QED
      BY <2>1, <3>2, <3>3 DEF LoopEffect
  <2>7. CASE pc' = "upcall" /\ in' = Advance(done)
    <3>1. in' = [[in EXCEPT !.executed = e] EXCEPT !.next = in.next + 1]
      <4> HIDE DEF e
      <4> QED
        BY <2>5, <2>7 DEF Advance
    <3>2. /\ in' \in InputType /\ SameHeader /\ SameArrays /\ in'.next = in.next + 1
          /\ in'.made = in.made /\ in'.executed = e /\ in'.dropped = in.dropped
      <4> HIDE DEF e
      <4> QED
        BY <1>0, <2>3, <3>1, ExecutedChanges
    <3>3. Upcalled
      BY <2>1, <2>4, <2>7, <3>2 DEF Upcalled, Current
    <3> QED
      BY <2>1, <3>2, <3>3 DEF LoopEffect
  <2> QED
    BY <2>2, <2>6, <2>7
<1>8. CASE upcall_done
  <2>1. SameTable /\ in' = [in EXCEPT !.next = 1] /\ pc = "upcall" /\ pc' = "enqueue" /\ AtEnd
    BY <1>8 DEF upcall_done, table, cache, SameTable
  <2> QED
    BY <1>0, <2>1, NextChanges DEF LoopEffect, Begin
<1>9. CASE enqueue_done
  <2>1. SameTable /\ in' = [in EXCEPT !.next = 1] /\ pc = "enqueue" /\ pc' = "queue" /\ AtEnd
    BY <1>9 DEF enqueue_done, table, cache, SameTable
  <2> QED
    BY <1>0, <2>1, NextChanges DEF LoopEffect, Begin
<1>10. CASE queue_done
  <2>1. SameTable /\ in' = [in EXCEPT !.next = 1] /\ pc = "queue" /\ pc' = "execute"
        /\ in.next > Len(in.flow_map)
    BY <1>10 DEF queue_done, table, cache, SameTable
  <2> QED
    BY <1>0, <2>1, NextChanges DEF LoopEffect, Begin
<1>11. CASE enqueue /\ in.rules[in.next] = None
  <2>1. SameTable /\ in' = [in EXCEPT !.next = in.next + 1] /\ pc = "enqueue"
        /\ pc' = "enqueue" /\ ~AtEnd
    BY <1>11 DEF enqueue, table, cache, SameTable, Advance
  <2> QED
    BY <1>0, <1>11, <2>1, NextChanges DEF LoopEffect, GoOn
<1>12. CASE queue /\ in.flow_map[in.next].flow = None
  <2>1. SameTable /\ in' = [in EXCEPT !.next = in.next + 1] /\ pc = "queue"
        /\ pc' = "queue" /\ in.next <= Len(in.flow_map)
    BY <1>12 DEF queue, table, cache, SameTable, Advance
  <2> QED
    BY <1>0, <1>12, <2>1, NextChanges DEF LoopEffect, GoOn
<1>13. CASE packet_batch_per_flow_execute
  <2> DEFINE b == in.batches[in.next]
             e == in.executed \o Run(b)
  <2>1. /\ SameTable /\ pc = "execute" /\ pc' = "execute" /\ in.next <= Len(in.batches)
        /\ in' = Advance([in EXCEPT !.executed = @ \o Run(b)])
    BY <1>13 DEF packet_batch_per_flow_execute, table, cache, SameTable
  <2>2. e \in Seq(ExecutedType)
    <3>1. in.next \in DOMAIN in.batches
      BY <1>0, <2>1, ArrayTypes
    <3>2. b.flow \in Flows /\ b.packets \in Seq(Nat)
      BY <3>1, ArrayTypes
    <3>3. Run(b) \in Seq(ExecutedType)
      <4>1. \A i \in DOMAIN b.packets : [packet |-> b.packets[i], flow |-> b.flow] \in ExecutedType
        BY <3>2 DEF ExecutedType
      <4>2. DOMAIN b.packets = 1 .. Len(b.packets) /\ Len(b.packets) \in Nat
        BY <3>2
      <4> HIDE DEF b
      <4> QED
        BY <4>1, <4>2 DEF Run
    <3> QED
      BY <1>0, <3>3, ConcatProperties
  <2>3. [in EXCEPT !.executed = e].next = in.next
    BY DEF TypeOK, InputType
  <2>4. in' = [[in EXCEPT !.executed = e] EXCEPT !.next = in.next + 1]
    <3> HIDE DEF b
    <3>1. in' = Advance([in EXCEPT !.executed = e])
      BY <2>1
    <3> HIDE DEF e
    <3> QED
      BY <2>3, <3>1 DEF Advance
  <2>5. /\ in' \in InputType /\ SameHeader /\ SameArrays /\ in'.next = in.next + 1
        /\ in'.made = in.made /\ in'.executed = e /\ in'.dropped = in.dropped
    <3> HIDE DEF e
    <3> QED
      BY <1>0, <2>2, <2>4, ExecutedChanges
  <2>6. Executes
    BY <2>1, <2>5 DEF Executes, GoOn
  <2> QED
    BY <2>1, <2>5, <2>6 DEF LoopEffect
<1> QED
  BY <1>1, <1>2, <1>3, <1>4, <1>5, <1>6, <1>7, <1>8, <1>9, <1>10, <1>11, <1>12, <1>13
     DEF LoopStep

LEMMA LoopStepKeeps ==
  ASSUME CacheAssumption, TypeOK, TableInv, InputInv, LoopStep
  PROVE  TypeOK' /\ InputInv' /\ TableInv' /\ UsedStay
<1>1. SameTable /\ SameHeader /\ SameArrays /\ LoopEffect /\ in' \in InputType
  BY LoopStepEffect
<1>2. TypeInv' /\ TableInv' /\ UsedStay
  BY <1>1, TableUntouched DEF SameTable, TypeOK
<1>3. pc # "idle" /\ pc' \notin {"idle", "dfc", "insert"} /\ pc' \in Phases
  BY <1>1 DEF LoopEffect, Begin, GoOn, LookupDone, UpcallError, Upcalled, Executes,
     Phases
<1>4. TypeOK' /\ SameBatch
  BY <1>1, <1>2, <1>3 DEF TypeOK, SmcType, SameTable, SameHeader, SameBatch
<1>5. /\ in'.next = 1 \/ in'.next = in.next + 1 \/ in'.next = in.next
      /\ pc' = "install" => in'.next = in.next /\ in.next <= Len(in.missed)
                              /\ in.rules[in.next] = None
      /\ pc' = "lookup" => in'.next = 1
      /\ pc' = "smc" => pc \in {"dfc", "smc"}
      /\ pc' = "lookup" => pc \in {"dfc", "smc"}
      /\ pc' \notin {"smc", "lookup"} =>
           pc \notin {"dfc", "smc"} /\ (pc = "lookup" => AtEnd)
  BY <1>1 DEF LoopEffect, Begin, GoOn, LookupDone, UpcallError, Upcalled, Executes
<1>6. PhaseInv'
  <2>1. /\ in.next \in Nat /\ in.next >= 1
        /\ Len(in.missed) \in Nat /\ Len(in.rules) \in Nat
        /\ in'.rules = in.rules /\ in'.missed = in.missed
    BY <1>1, ArrayTypes DEF InputInv, PhaseInv, SameArrays
  <2>2. in'.next >= 1
    BY <1>5, <2>1
  <2>3. pc' \in {"idle", "dfc", "smc"} => in.rules = <<>>
    BY <1>3, <1>5 DEF InputInv, PhaseInv
  <2>4. pc' = "lookup" => Len(in.rules) = in'.next - 1 /\ in'.next <= Len(in.missed) + 1
    <3>1. pc' = "lookup" => in.rules = <<>>
      BY <1>5 DEF InputInv, PhaseInv
    <3> QED
      BY <1>5, <2>1, <3>1
  <2>5. pc' \notin {"idle", "dfc", "smc", "lookup"} => Len(in.rules) = Len(in.missed)
    <3> SUFFICES ASSUME pc' \notin {"idle", "dfc", "smc", "lookup"}
                 PROVE  Len(in.rules) = Len(in.missed)
      OBVIOUS
    <3>1. CASE pc = "lookup"
      BY <1>5, <2>1, <3>1 DEF InputInv, PhaseInv, AtEnd
    <3>2. CASE pc # "lookup"
      BY <1>3, <1>5, <3>2 DEF InputInv, PhaseInv
    <3> QED
      BY <3>1, <3>2
  <2> QED
    BY <1>3, <1>5, <2>1, <2>2, <2>3, <2>4, <2>5 DEF PhaseInv
<1>7. InputInv'
  BY <1>1, <1>3, <1>4, <1>6, ArraysStay DEF SameArrays
<1> QED
  BY <1>2, <1>4, <1>7

-----------------------------------------------------------------------------
(* Packets find their flows.                                               *)

(* A place of flow_map gets the flow of its packet.                        *)
SetMap(x, f) ==
  in'.flow_map = [in.flow_map EXCEPT ![x] = [packet |-> in.flow_map[x].packet, flow |-> f]]

LEMMA MapSet ==
  ASSUME CacheAssumption, TypeOK, InputInv, SameBatch,
         NEW x \in DOMAIN in.flow_map, NEW f \in Flows,
         Right(flow, in, in.flow_map[x].packet, f), SetMap(x, f)
  PROVE  /\ MapInv' /\ RightMap' /\ in'.flow_map \in Seq(MapType)
         /\ DOMAIN in'.flow_map = DOMAIN in.flow_map
         /\ \A y \in DOMAIN in.flow_map :
              /\ in'.flow_map[y].packet = in.flow_map[y].packet
              /\ in'.flow_map[y].flow = IF y = x THEN f ELSE in.flow_map[y].flow
<1> DEFINE m == [packet |-> in.flow_map[x].packet, flow |-> f]
<1>1. in.flow_map \in Seq(MapType) /\ DOMAIN in.flow_map = 1 .. Len(in.flow_map)
      /\ Len(in.flow_map) \in Nat
  BY DEF TypeOK, InputType
<1>2. m \in MapType /\ m.packet = in.flow_map[x].packet /\ m.flow = f
  BY ArrayTypes DEF MapType
<1>3. in'.flow_map = [in.flow_map EXCEPT ![x] = m]
  BY DEF SetMap
<1> HIDE DEF m
<1>4. /\ in'.flow_map \in Seq(MapType) /\ DOMAIN in'.flow_map = DOMAIN in.flow_map
      /\ in'.flow_map[x] = m
      /\ \A y \in DOMAIN in.flow_map : y # x => in'.flow_map[y] = in.flow_map[y]
  BY <1>1, <1>2, <1>3
<1>5. \A y \in DOMAIN in.flow_map :
        /\ in'.flow_map[y].packet = in.flow_map[y].packet
        /\ in'.flow_map[y].flow = IF y = x THEN f ELSE in.flow_map[y].flow
  BY <1>2, <1>4
<1>6. \A y, g : g \in Flows \cup {None} /\ IsPacket(in, y) /\ Right(flow, in, y, g) =>
        IsPacket(in', y) /\ Right(flow', in', y, g)
  BY RightStays DEF SameBatch
<1>7. \A y \in DOMAIN in.flow_map :
        /\ in.flow_map[y].flow \in Flows \cup {None}
        /\ IsPacket(in, in.flow_map[y].packet)
        /\ Right(flow, in, in.flow_map[y].packet, in.flow_map[y].flow)
  BY ArrayTypes DEF InputInv, MapInv, RightMap
<1>8. \A y \in DOMAIN in.flow_map :
        /\ IsPacket(in', in'.flow_map[y].packet)
        /\ Right(flow', in', in'.flow_map[y].packet, in'.flow_map[y].flow)
  <2> TAKE y \in DOMAIN in.flow_map
  <2>1. CASE y = x
    BY <1>5, <1>6, <1>7, <2>1
  <2>2. CASE y # x
    BY <1>5, <1>6, <1>7, <2>2
  <2> QED
    BY <2>1, <2>2
<1>9. MapInv'
  BY <1>4, <1>5, <1>8 DEF MapInv, InputInv
<1>10. RightMap'
  BY <1>4, <1>8 DEF RightMap
<1> QED
  BY <1>4, <1>5, <1>9, <1>10

(* A miss that has found its flow leaves the array of misses.              *)
Removed(n) ==
  in'.missed = SubSeq(in.missed, 1, n - 1) \o SubSeq(in.missed, n + 1, Len(in.missed))

LEMMA MissRemoved ==
  ASSUME TypeOK, NEW n \in DOMAIN in.missed, Removed(n)
  PROVE  /\ in'.missed \in Seq(MissedType) /\ Len(in'.missed) = Len(in.missed) - 1
         /\ DOMAIN in'.missed = 1 .. (Len(in.missed) - 1)
         /\ \A i \in DOMAIN in'.missed :
              /\ (IF i < n THEN i ELSE i + 1) \in DOMAIN in.missed
              /\ (IF i < n THEN i ELSE i + 1) # n
              /\ in'.missed[i] = in.missed[IF i < n THEN i ELSE i + 1]
<1> DEFINE s == in.missed
           a == SubSeq(s, 1, n - 1)
           b == SubSeq(s, n + 1, Len(s))
<1>1. s \in Seq(MissedType) /\ Len(s) \in Nat /\ DOMAIN s = 1 .. Len(s) /\ n \in 1 .. Len(s)
  BY DEF TypeOK, InputType
<1>2. in'.missed = a \o b
  BY DEF Removed
<1> HIDE DEF s
<1>3. a \in Seq(MissedType) /\ Len(a) = n - 1 /\ \A i \in 1 .. (n - 1) : a[i] = s[i]
  BY <1>1
<1>4. /\ b \in Seq(MissedType) /\ Len(b) = Len(s) - n
      /\ \A i \in 1 .. (Len(s) - n) : b[i] = s[n + i]
  BY <1>1
<1> HIDE DEF a, b
<1>5. /\ in'.missed \in Seq(MissedType) /\ Len(in'.missed) = Len(s) - 1
      /\ \A i \in 1 .. (n - 1) : in'.missed[i] = a[i]
      /\ \A i \in n .. (Len(s) - 1) : in'.missed[i] = b[i - (n - 1)]
  <2>1. /\ a \o b \in Seq(MissedType) /\ Len(a \o b) = Len(a) + Len(b)
        /\ \A i \in 1 .. (Len(a) + Len(b)) :
             (a \o b)[i] = IF i <= Len(a) THEN a[i] ELSE b[i - Len(a)]
    BY <1>3, <1>4, ConcatProperties
  <2>2. Len(a) + Len(b) = Len(s) - 1 /\ n - 1 \in Nat /\ n <= Len(s)
    BY <1>1, <1>3, <1>4
  <2>3. \A i \in 1 .. (Len(s) - 1) :
          in'.missed[i] = IF i <= n - 1 THEN a[i] ELSE b[i - (n - 1)]
    BY <1>2, <1>3, <2>1, <2>2
  <2>4. \A i \in 1 .. (n - 1) : in'.missed[i] = a[i]
    BY <1>1, <2>2, <2>3
  <2>5. \A i \in n .. (Len(s) - 1) : in'.missed[i] = b[i - (n - 1)]
    BY <1>1, <2>2, <2>3
  <2> QED
    BY <1>2, <2>1, <2>2, <2>4, <2>5
<1>6. DOMAIN in'.missed = 1 .. (Len(s) - 1)
  BY <1>5
<1>7. ASSUME NEW i \in 1 .. (Len(s) - 1)
      PROVE  /\ (IF i < n THEN i ELSE i + 1) \in 1 .. Len(s)
             /\ (IF i < n THEN i ELSE i + 1) # n
             /\ in'.missed[i] = s[IF i < n THEN i ELSE i + 1]
  <2>1. CASE i < n
    <3>1. i \in 1 .. (n - 1) /\ i \in 1 .. Len(s) /\ i # n
      BY <1>1, <2>1
    <3> QED
      BY <1>3, <1>5, <2>1, <3>1
  <2>2. CASE ~(i < n)
    <3>1. i \in n .. (Len(s) - 1) /\ i - (n - 1) \in 1 .. (Len(s) - n)
          /\ n + (i - (n - 1)) = i + 1
      BY <1>1, <2>2
    <3>2. in'.missed[i] = b[i - (n - 1)] /\ b[i - (n - 1)] = s[n + (i - (n - 1))]
      BY <1>4, <1>5, <3>1
    <3> QED
      BY <1>1, <2>2, <3>1, <3>2
  <2> QED
    BY <2>1, <2>2
<1> QED
  BY <1>1, <1>5, <1>6, <1>7 DEF s

(* The flow the SMC gives is in the table, and so not dead.                *)
LEMMA SmcLookupRight ==
  ASSUME CacheAssumption, TypeOK, TableInv, NEW k \in Keys, smc_lookup(k) # None
  PROVE  /\ smc_lookup(k) \in Flows
         /\ flow[smc_lookup(k)].mega = mega_of[k] /\ ~flow[smc_lookup(k)].dead
         /\ smc_lookup(k) \in classifier
              \/ (updating.op = "del" /\ smc_lookup(k) = updating.flow)
<1> DEFINE idx == {smc[e].flow_idx : e \in First(SmcEntries(k))} \ {None}
           hits == {f \in {flow_table[i] : i \in idx} \ {None} : flow[f].mega = mega_of[k]}
           f == smc_lookup(k)
<1>1. f \in hits
  <2>1. hits # {} /\ f = CHOOSE x \in hits : TRUE
    BY DEF smc_lookup
  <2> HIDE DEF hits, f
  <2> QED
    BY <2>1
<1>2. idx \subseteq TABLE_SLOTS
  <2>1. First(SmcEntries(k)) \subseteq SMC_ENTRIES
    BY DEF First, SmcEntries
  <2> QED
    BY <2>1 DEF TypeOK, SmcType, CacheAssumption
<1>3. f # None /\ flow[f].mega = mega_of[k] /\ \E i \in TABLE_SLOTS : f = flow_table[i]
  BY <1>1, <1>2
<1> HIDE DEF f
<1>4. f \in Flows
  BY <1>3 DEF TypeOK, TypeInv
<1>5. f \in classifier \/ (updating.op = "del" /\ f = updating.flow)
  BY <1>3 DEF TableInv, UpdatingInv
<1>6. ~flow[f].dead
  BY <1>4, <1>5 DEF TableInv, FlowInv
<1> QED
  BY <1>3, <1>4, <1>5, <1>6 DEF f

SmcHit(f) ==
  /\ pc = "smc" /\ pc' = "smc" /\ in.next \in DOMAIN in.missed
  /\ flow[f].mega = mega_of[in.packets[in.missed[in.next].packet]] /\ ~flow[f].dead
  /\ f \in classifier \/ (updating.op = "del" /\ f = updating.flow)
  /\ emc_probabilistic_insert(flow, in.packets[in.missed[in.next].packet], f)
  /\ UNCHANGED <<classifier, flow_table, updating, smc>>
  /\ SetMap(in.missed[in.next].recv_idx, f) /\ Removed(in.next)
  /\ in'.next = in.next /\ in'.rules = in.rules /\ in'.made = in.made
  /\ in'.batches = in.batches /\ in'.executed = in.executed /\ in'.dropped = in.dropped

LEMMA SmcHitStep ==
  ASSUME CacheAssumption, TypeOK, TableInv, InputInv, smc_hit
  PROVE  \E f \in Flows : SmcHit(f) /\ SameHeader /\ in' \in InputType
<1> DEFINE f == smc_lookup(Key)
<1>1. in.next \in DOMAIN in.missed /\ pc = "smc"
  BY ArrayTypes DEF smc_hit, AtEnd, InputInv, PhaseInv
<1>2. Key \in Keys /\ Key = in.packets[in.missed[in.next].packet]
  BY <1>1, MissedArePackets DEF Key, Current, IsPacket
<1>3. /\ f \in Flows /\ flow[f].mega = mega_of[Key] /\ ~flow[f].dead
      /\ f \in classifier \/ (updating.op = "del" /\ f = updating.flow)
  BY <1>2, SmcLookupRight DEF smc_hit
<1>4. in' = [Enqueued(f) EXCEPT !.missed =
               SubSeq(@, 1, in.next - 1) \o SubSeq(@, in.next + 1, Len(@))]
  BY DEF smc_hit
<1> HIDE DEF f
<1> DEFINE x == in.missed[in.next].recv_idx
           new == [in.flow_map EXCEPT ![x] =
                     [packet |-> in.missed[in.next].packet, flow |-> f]]
           rest == SubSeq(in.missed, 1, in.next - 1) \o
                     SubSeq(in.missed, in.next + 1, Len(in.missed))
<1>5. x \in DOMAIN in.flow_map /\ in.missed[in.next].packet = in.flow_map[x].packet
  BY <1>1 DEF InputInv, MissedInv
<1>6. new \in Seq(MapType)
  <2>1. [packet |-> in.missed[in.next].packet, flow |-> f] \in MapType
    BY <1>1, <1>3, ArrayTypes DEF MapType
  <2>2. in.flow_map \in Seq(MapType)
    BY DEF TypeOK, InputType
  <2> QED
    BY <1>5, <2>1, <2>2
<1>7. rest \in Seq(MissedType)
  <2>1. in.missed \in Seq(MissedType) /\ in.next \in 1 .. Len(in.missed)
    BY <1>1 DEF TypeOK, InputType
  <2>2. /\ SubSeq(in.missed, 1, in.next - 1) \in Seq(MissedType)
        /\ SubSeq(in.missed, in.next + 1, Len(in.missed)) \in Seq(MissedType)
    BY <2>1
  <2> QED
    BY <2>2, ConcatProperties
<1>8. Enqueued(f) = [in EXCEPT !.flow_map = new]
  BY <1>1 DEF Enqueued, Current, TypeOK, InputType
<1> HIDE DEF new
<1>9. Enqueued(f) \in InputType /\ Enqueued(f).missed = in.missed
  <2>1. Enqueued(f) \in InputType
    <3>1. new \in Seq(MapType) /\ in \in InputType
      BY <1>6 DEF TypeOK, new
    <3> QED
      BY <1>8, <3>1, FieldTypes
  <2>2. Enqueued(f).missed = in.missed
    BY <1>8 DEF TypeOK, InputType
  <2> QED
    BY <2>1, <2>2
<1>10. in' = [Enqueued(f) EXCEPT !.missed = rest]
  BY <1>4, <1>9
<1> HIDE DEF rest
<1>11. in' \in InputType
  BY <1>7, <1>9, <1>10, FieldTypes
<1>12. /\ in'.flow_map = new /\ in'.missed = rest /\ SameHeader
       /\ in'.next = in.next /\ in'.rules = in.rules /\ in'.made = in.made
       /\ in'.batches = in.batches /\ in'.executed = in.executed
       /\ in'.dropped = in.dropped
  BY <1>8, <1>10 DEF TypeOK, InputType, SameHeader
<1>13. SetMap(x, f) /\ Removed(in.next)
  BY <1>5, <1>12 DEF SetMap, Removed, new, rest
<1>14. /\ emc_probabilistic_insert(flow, Key, f) /\ pc' = pc
       /\ UNCHANGED <<classifier, flow_table, updating, smc>>
  BY DEF smc_hit, f
<1>15. SmcHit(f)
  BY <1>1, <1>2, <1>3, <1>12, <1>13, <1>14 DEF SmcHit
<1> QED
  BY <1>3, <1>11, <1>12, <1>15

LEMMA StayingIsUsed ==
  ASSUME FlowsStay
  PROVE  UsedStay
BY DEF FlowsStay, UsedStay

LEMMA SmcHitKeeps ==
  ASSUME CacheAssumption, TypeOK, TableInv, InputInv, smc_hit
  PROVE  TypeOK' /\ InputInv' /\ TableInv' /\ UsedStay
<1>1. PICK f \in Flows : SmcHit(f) /\ SameHeader /\ in' \in InputType
  BY SmcHitStep
<1> DEFINE n == in.next
           k == in.packets[in.missed[n].packet]
           x == in.missed[n].recv_idx
<1>2. n \in DOMAIN in.missed /\ k \in Keys
  BY <1>1, MissedArePackets DEF SmcHit, IsPacket
<1>3. TypeInv' /\ TableInv' /\ UsedStay
  <2>1. emc_probabilistic_insert(flow, k, f) /\ flow[f].mega = mega_of[k]
        /\ UNCHANGED <<classifier, flow_table, updating>>
    BY <1>1 DEF SmcHit
  <2> QED
    BY <1>2, <2>1, InsertKeeps, StayingIsUsed DEF TypeOK
<1>4. TypeOK' /\ SameBatch
  BY <1>1, <1>3 DEF TypeOK, SmcType, SmcHit, SameHeader, SameBatch, Phases
<1>5. x \in DOMAIN in.flow_map /\ in.flow_map[x].packet = in.missed[n].packet
  BY <1>2 DEF InputInv, MissedInv
<1>6. Right(flow, in, in.flow_map[x].packet, f)
  BY <1>1, <1>5 DEF SmcHit, Right, InputInv, DeadInv
<1>7. /\ MapInv' /\ RightMap' /\ DOMAIN in'.flow_map = DOMAIN in.flow_map
      /\ \A y \in DOMAIN in.flow_map : in'.flow_map[y].packet = in.flow_map[y].packet
  BY <1>1, <1>4, <1>5, <1>6, MapSet DEF SmcHit
<1>8. /\ DOMAIN in'.missed = 1 .. (Len(in.missed) - 1)
      /\ \A i \in DOMAIN in'.missed :
           /\ (IF i < n THEN i ELSE i + 1) \in DOMAIN in.missed
           /\ in'.missed[i] = in.missed[IF i < n THEN i ELSE i + 1]
  BY <1>1, <1>2, MissRemoved DEF SmcHit
<1>9. n \in Nat /\ Len(in.missed) \in Nat
  BY ArrayTypes
<1> HIDE DEF n, k, x
<1>10. MissedInv'
  <2>1. \A i \in DOMAIN in.missed :
          /\ in.missed[i].recv_idx \in DOMAIN in.flow_map
          /\ in.flow_map[in.missed[i].recv_idx].packet = in.missed[i].packet
    BY DEF InputInv, MissedInv
  <2>2. ASSUME NEW i \in DOMAIN in'.missed
        PROVE  /\ in'.missed[i].recv_idx \in DOMAIN in'.flow_map
               /\ in'.flow_map[in'.missed[i].recv_idx].packet = in'.missed[i].packet
    BY <1>7, <1>8, <2>1
  <2>3. ASSUME NEW i \in DOMAIN in'.missed, NEW j \in DOMAIN in'.missed, i < j
        PROVE  in'.missed[i].packet < in'.missed[j].packet
    <3> DEFINE a == IF i < n THEN i ELSE i + 1
               b == IF j < n THEN j ELSE j + 1
    <3>1. a < b
      BY <1>8, <1>9, <2>3
    <3>2. /\ a \in DOMAIN in.missed /\ in'.missed[i] = in.missed[a]
          /\ b \in DOMAIN in.missed /\ in'.missed[j] = in.missed[b]
      BY <1>8
    <3> HIDE DEF a, b
    <3> QED
      BY <3>1, <3>2 DEF InputInv, MissedInv
  <2> QED
    BY <2>2, <2>3 DEF MissedInv
<1>11. BatchPackets' /\ RightBatches'
  BY <1>1, <1>4, BatchesStay DEF SmcHit
<1>12. PhaseInv' /\ DfcInv' /\ RightMade' /\ RightRules'
  <2>1. pc = "smc" /\ pc' = "smc" /\ in'.next = in.next /\ in'.rules = in.rules
    BY <1>1 DEF SmcHit
  <2>2. in.rules = <<>> /\ in.next >= 1
    BY <2>1 DEF InputInv, PhaseInv
  <2>3. PhaseInv'
    BY <2>1, <2>2 DEF PhaseInv
  <2>4. DfcInv' /\ RightMade'
    BY <2>1 DEF DfcInv, RightMade
  <2>5. RightRules'
    BY <2>1, <2>2 DEF RightRules
  <2> QED
    BY <2>3, <2>4, <2>5
<1>13. DeadInv'
  BY <1>1, <1>3, DeadStay DEF SmcHit, SameHeader, InputInv
<1> QED
  BY <1>3, <1>4, <1>7, <1>10, <1>11, <1>12, <1>13 DEF InputInv

(* dpcls_lookup: a rule, or none, for the next miss.                       *)
Looked(f) ==
  /\ pc = "lookup" /\ pc' = "lookup" /\ in.next \in DOMAIN in.missed
  /\ f # None => f \in dp_netdev_pmd_lookup_flow(Key)
  /\ in'.rules = Append(in.rules, f) /\ in'.next = in.next + 1
  /\ in'.missed = in.missed /\ in'.flow_map = in.flow_map /\ in'.batches = in.batches
  /\ in'.made = in.made /\ in'.executed = in.executed /\ in'.dropped = in.dropped

(* The upcall has found a rule.                                            *)
Found(f) ==
  /\ pc = "upcall" /\ pc' = "upcall" /\ in.next \in DOMAIN in.missed
  /\ in.rules[in.next] = None /\ f \in dp_netdev_pmd_lookup_flow(Key)
  /\ in'.rules = [in.rules EXCEPT ![in.next] = f] /\ in'.next = in.next + 1
  /\ in'.missed = in.missed /\ in'.flow_map = in.flow_map /\ in'.batches = in.batches
  /\ in'.made = in.made /\ in'.executed = in.executed /\ in'.dropped = in.dropped

LEMMA LookupFlowRight ==
  ASSUME CacheAssumption, TypeOK, TableInv, InputInv, pc # "idle", NEW k \in Keys,
         NEW f \in dp_netdev_pmd_lookup_flow(k), NEW i, in.packets[i] = k
  PROVE  f \in Flows /\ f \in classifier /\ ~flow[f].dead /\ Right(flow, in, i, f)
<1>1. f \in classifier /\ f \in Flows /\ flow[f].mega = mega_of[k]
  BY DEF dp_netdev_pmd_lookup_flow, TypeOK, TypeInv
<1>2. ~flow[f].dead
  BY <1>1 DEF TableInv, FlowInv
<1> QED
  BY <1>1, <1>2 DEF Right, InputInv, DeadInv

LEMMA CurrentKey ==
  ASSUME TypeOK, InputInv, in.next \in DOMAIN in.missed
  PROVE  Key \in Keys /\ Key = in.packets[in.missed[in.next].packet]
         /\ Current = in.missed[in.next]
BY MissedArePackets DEF Key, Current, IsPacket

LEMMA LookedStep ==
  ASSUME CacheAssumption, TypeOK, TableInv, InputInv, dpcls_lookup
  PROVE  /\ SameTable /\ SameHeader /\ in' \in InputType
         /\ \E f \in Flows \cup {None} : Looked(f)
<1>1. in.next \in DOMAIN in.missed /\ pc = "lookup" /\ pc' = "lookup" /\ SameTable
      /\ in.next \in Nat
  BY ArrayTypes DEF dpcls_lookup, AtEnd, InputInv, PhaseInv, table, cache, SameTable
<1>2. PICK f : /\ f \in dp_netdev_pmd_lookup_flow(Key) \/ f = None
               /\ in' = Advance([in EXCEPT !.rules = Append(@, f)])
  <2> DEFINE found == dp_netdev_pmd_lookup_flow(Key)
  <2>1. \E f \in (IF found = {} THEN {None} ELSE found) :
          in' = Advance([in EXCEPT !.rules = Append(@, f)])
    BY Zenon DEF dpcls_lookup
  <2> HIDE DEF found
  <2>2. \E f : /\ f \in found \/ f = None
               /\ in' = Advance([in EXCEPT !.rules = Append(@, f)])
    BY <2>1
  <2> QED
    BY <2>2 DEF found
<1>3. f \in Flows \cup {None} /\ (f # None => f \in dp_netdev_pmd_lookup_flow(Key))
  BY <1>2 DEF dp_netdev_pmd_lookup_flow, TypeOK, TypeInv
<1> DEFINE new == Append(in.rules, f)
           r == [in EXCEPT !.rules = new]
<1>4. new \in Seq(Flows \cup {None})
  <2>1. in.rules \in Seq(Flows \cup {None})
    BY DEF TypeOK, InputType
  <2> QED
    BY <1>3, <2>1, AppendProperties
<1>5. in' = Advance(r)
  BY <1>2
<1> HIDE DEF new
<1>6. r \in InputType /\ r.next = in.next
  <2>1. r \in InputType
    BY <1>4, FieldTypes DEF TypeOK
  <2>2. r.next = in.next
    BY DEF TypeOK, InputType
  <2> QED
    BY <2>1, <2>2
<1>7. in' = [[in EXCEPT !.rules = new] EXCEPT !.next = in.next + 1]
  BY <1>5, <1>6 DEF Advance
<1>8. in' \in InputType
  <2>1. in.next + 1 \in Nat
    BY <1>1
  <2> HIDE DEF r
  <2> QED
    BY <1>6, <1>7, <2>1, FieldTypes DEF r
<1>9. /\ SameHeader /\ in'.rules = new /\ in'.next = in.next + 1
      /\ in'.missed = in.missed /\ in'.flow_map = in.flow_map /\ in'.batches = in.batches
      /\ in'.made = in.made /\ in'.executed = in.executed /\ in'.dropped = in.dropped
  BY <1>7 DEF TypeOK, InputType, SameHeader
<1> QED
  BY <1>1, <1>3, <1>8, <1>9 DEF Looked, new

LEMMA FoundStep ==
  ASSUME CacheAssumption, TypeOK, TableInv, InputInv, upcall_found
  PROVE  /\ SameTable /\ SameHeader /\ in' \in InputType
         /\ \E f \in Flows : Found(f)
<1>1. /\ in.next \in DOMAIN in.missed /\ pc = "upcall" /\ pc' = "upcall" /\ SameTable
      /\ in.next \in Nat /\ in.rules[in.next] = None /\ Len(in.rules) = Len(in.missed)
  BY ArrayTypes DEF upcall_found, Unmatched, AtEnd, InputInv, PhaseInv, table, cache,
     SameTable
<1>2. PICK f \in dp_netdev_pmd_lookup_flow(Key) :
        in' = Advance([in EXCEPT !.rules[in.next] = f])
  BY DEF upcall_found
<1>3. f \in Flows
  BY <1>2 DEF dp_netdev_pmd_lookup_flow, TypeOK, TypeInv
<1> DEFINE new == [in.rules EXCEPT ![in.next] = f]
           r == [in EXCEPT !.rules = new]
<1>4. new \in Seq(Flows \cup {None})
  <2>1. in.rules \in Seq(Flows \cup {None}) /\ in.next \in DOMAIN in.rules
    BY <1>1, ArrayTypes DEF TypeOK, InputType
  <2> QED
    BY <1>3, <2>1
<1>5. in' = Advance(r)
  BY <1>2
<1> HIDE DEF new
<1>6. r \in InputType /\ r.next = in.next
  <2>1. r \in InputType
    BY <1>4, FieldTypes DEF TypeOK
  <2>2. r.next = in.next
    BY DEF TypeOK, InputType
  <2> QED
    BY <2>1, <2>2
<1>7. in' = [[in EXCEPT !.rules = new] EXCEPT !.next = in.next + 1]
  BY <1>5, <1>6 DEF Advance
<1>8. in' \in InputType
  <2>1. in.next + 1 \in Nat
    BY <1>1
  <2> HIDE DEF r
  <2> QED
    BY <1>6, <1>7, <2>1, FieldTypes DEF r
<1>9. /\ SameHeader /\ in'.rules = new /\ in'.next = in.next + 1
      /\ in'.missed = in.missed /\ in'.flow_map = in.flow_map /\ in'.batches = in.batches
      /\ in'.made = in.made /\ in'.executed = in.executed /\ in'.dropped = in.dropped
  BY <1>7 DEF TypeOK, InputType, SameHeader
<1> QED
  BY <1>1, <1>2, <1>3, <1>8, <1>9 DEF Found, new

LEMMA LookedKeeps ==
  ASSUME CacheAssumption, TypeOK, TableInv, InputInv, dpcls_lookup
  PROVE  TypeOK' /\ InputInv' /\ TableInv' /\ UsedStay
<1>1. PICK f \in Flows \cup {None} :
        Looked(f) /\ SameTable /\ SameHeader /\ in' \in InputType
  BY LookedStep
<1> DEFINE n == in.next
<1>2. TypeInv' /\ TableInv' /\ UsedStay
  BY <1>1, TableUntouched DEF SameTable, TypeOK
<1>3. TypeOK' /\ SameBatch
  BY <1>1, <1>2 DEF TypeOK, SmcType, SameTable, Looked, SameHeader, SameBatch
<1>4. /\ n \in Nat /\ n >= 1 /\ Len(in.rules) = n - 1 /\ n \in DOMAIN in.missed
      /\ DOMAIN in.missed = 1 .. Len(in.missed) /\ Len(in.missed) \in Nat
      /\ in.rules \in Seq(Flows \cup {None}) /\ pc = "lookup" /\ pc' = "lookup"
  BY <1>1, ArrayTypes DEF Looked, InputInv, PhaseInv, TypeOK, InputType
<1>5. /\ Len(in'.rules) = n /\ DOMAIN in'.rules = 1 .. n /\ in'.rules[n] = f
      /\ \A i \in 1 .. (n - 1) : in'.rules[i] = in.rules[i] /\ i \in DOMAIN in.rules
  <2>1. /\ Len(in'.rules) = Len(in.rules) + 1 /\ in'.rules[Len(in.rules) + 1] = f
        /\ \A i \in 1 .. Len(in.rules) : in'.rules[i] = in.rules[i]
        /\ in'.rules \in Seq(Flows \cup {None})
    BY <1>1, <1>4, AppendProperties DEF Looked
  <2> QED
    BY <1>4, <2>1
<1>6. Right(flow, in, in.missed[n].packet, f)
  <2>1. CASE f = None
    BY <2>1 DEF Right
  <2>2. CASE f # None
    BY <1>1, <1>4, <2>2, CurrentKey, LookupFlowRight DEF Looked
  <2> QED
    BY <2>1, <2>2
<1>7. PhaseInv'
  <2>1. in'.next = n + 1 /\ in'.missed = in.missed
    BY <1>1 DEF Looked
  <2> QED
    BY <1>4, <1>5, <2>1 DEF PhaseInv
<1>8. DfcInv' /\ RightMade' /\ DeadInv'
  BY <1>1, <1>2, <1>4, DeadStay DEF DfcInv, RightMade, SameHeader, InputInv
<1>9. MissedInv' /\ MapInv' /\ RightMap' /\ BatchPackets' /\ RightBatches'
  BY <1>1, <1>3, MissedStay, MapStays, BatchesStay DEF Looked
<1>10. RightRules'
  <2>1. \A i, g : g \in Flows \cup {None} /\ IsPacket(in, i) /\ Right(flow, in, i, g) =>
          Right(flow', in', i, g)
    BY <1>3, RightStays DEF SameBatch
  <2>2. in'.missed = in.missed
    BY <1>1 DEF Looked
  <2> SUFFICES ASSUME NEW i \in 1 .. n, i \in DOMAIN in.missed
               PROVE  Right(flow', in', in.missed[i].packet, in'.rules[i])
    BY <1>5, <2>2 DEF RightRules
  <2>3. IsPacket(in, in.missed[i].packet)
    BY MissedArePackets
  <2>4. CASE i = n
    BY <1>5, <1>6, <2>1, <2>3, <2>4
  <2>5. CASE i \in 1 .. (n - 1)
    <3>1. in'.rules[i] = in.rules[i] /\ i \in DOMAIN in.rules
      BY <1>5, <2>5
    <3>2. Right(flow, in, in.missed[i].packet, in.rules[i]) /\ in.rules[i] \in Flows \cup {None}
      BY <3>1, ArrayTypes DEF InputInv, RightRules
    <3> QED
      BY <2>1, <2>3, <3>1, <3>2
  <2> QED
    BY <1>4, <2>4, <2>5
<1> QED
  BY <1>2, <1>3, <1>7, <1>8, <1>9, <1>10 DEF InputInv

LEMMA FoundKeeps ==
  ASSUME CacheAssumption, TypeOK, TableInv, InputInv, upcall_found
  PROVE  TypeOK' /\ InputInv' /\ TableInv' /\ UsedStay
<1>1. PICK f \in Flows : Found(f) /\ SameTable /\ SameHeader /\ in' \in InputType
  BY FoundStep
<1> DEFINE n == in.next
<1>2. TypeInv' /\ TableInv' /\ UsedStay
  BY <1>1, TableUntouched DEF SameTable, TypeOK
<1>3. TypeOK' /\ SameBatch
  BY <1>1, <1>2 DEF TypeOK, SmcType, SameTable, Found, SameHeader, SameBatch
<1>4. /\ n \in Nat /\ n >= 1 /\ n \in DOMAIN in.missed /\ Len(in.rules) = Len(in.missed)
      /\ in.rules \in Seq(Flows \cup {None}) /\ pc = "upcall" /\ pc' = "upcall"
      /\ in'.rules = [in.rules EXCEPT ![n] = f] /\ in'.next = n + 1
  BY <1>1, ArrayTypes DEF Found, InputInv, PhaseInv, TypeOK, InputType
<1>5. Len(in'.rules) = Len(in.rules) /\ DOMAIN in'.rules = DOMAIN in.rules
  BY <1>4
<1>6. Right(flow, in, in.missed[n].packet, f)
  BY <1>1, <1>4, CurrentKey, LookupFlowRight DEF Found
<1>7. PhaseInv'
  <2>1. in'.missed = in.missed
    BY <1>1 DEF Found
  <2> QED
    BY <1>4, <1>5, <2>1 DEF PhaseInv
<1>8. DfcInv' /\ RightMade' /\ DeadInv'
  BY <1>1, <1>2, <1>4, DeadStay DEF DfcInv, RightMade, SameHeader, InputInv
<1>9. MissedInv' /\ MapInv' /\ RightMap' /\ BatchPackets' /\ RightBatches'
  BY <1>1, <1>3, MissedStay, MapStays, BatchesStay DEF Found
<1>10. RightRules'
  <2>1. \A i, g : g \in Flows \cup {None} /\ IsPacket(in, i) /\ Right(flow, in, i, g) =>
          Right(flow', in', i, g)
    BY <1>3, RightStays DEF SameBatch
  <2>2. in'.missed = in.missed
    BY <1>1 DEF Found
  <2> SUFFICES ASSUME NEW i \in DOMAIN in.rules, i \in DOMAIN in.missed
               PROVE  Right(flow', in', in.missed[i].packet, in'.rules[i])
    BY <1>5, <2>2 DEF RightRules
  <2>3. IsPacket(in, in.missed[i].packet)
    BY MissedArePackets
  <2>4. CASE i = n
    BY <1>4, <1>6, <2>1, <2>3, <2>4
  <2>5. CASE i # n
    <3>1. in'.rules[i] = in.rules[i]
      BY <1>4, <2>5
    <3>2. Right(flow, in, in.missed[i].packet, in.rules[i]) /\ in.rules[i] \in Flows \cup {None}
      BY ArrayTypes DEF InputInv, RightRules
    <3> QED
      BY <2>1, <2>3, <3>1, <3>2
  <2> QED
    BY <2>4, <2>5
<1> QED
  BY <1>2, <1>3, <1>7, <1>8, <1>9, <1>10 DEF InputInv

-----------------------------------------------------------------------------
(* Flows are inserted into the table and into the caches.                  *)

LEMMA SmcInsertKeeps ==
  ASSUME CacheAssumption, SmcType, NEW k \in Keys, NEW f, smc_insert(k, f)
  PROVE  SmcType'
<1> DEFINE idx == {s \in SMC_INDEXES : flow_table[s] = f}
           empty == {e \in SMC_ENTRIES : smc[e].flow_idx = None}
           entry == IF SmcEntries(k) # {} THEN First(SmcEntries(k))
                    ELSE IF empty # {} THEN First(empty) ELSE SMC_ENTRIES
<1>1. CASE UNCHANGED smc
  BY <1>1 DEF SmcType
<1>2. CASE \E e \in entry, s \in idx :
             smc' = [smc EXCEPT ![e] = [sig |-> smc_sig[k], flow_idx |-> s]]
  <2>1. entry \subseteq SMC_ENTRIES /\ idx \subseteq SMC_INDEXES
    BY DEF First, SmcEntries
  <2> HIDE DEF entry, idx
  <2>2. PICK e \in SMC_ENTRIES, s \in SMC_INDEXES :
          smc' = [smc EXCEPT ![e] = [sig |-> smc_sig[k], flow_idx |-> s]]
    BY <1>2, <2>1
  <2>3. smc_sig[k] \in Nat
    BY DEF CacheAssumption
  <2> QED
    BY <2>2, <2>3 DEF SmcType
<1>3. UNCHANGED smc \/ \E e \in entry, s \in idx :
             smc' = [smc EXCEPT ![e] = [sig |-> smc_sig[k], flow_idx |-> s]]
  BY Zenon DEF smc_insert
<1> QED
  BY <1>1, <1>2, <1>3

(* handle_packet_upcall has the flow; the caches come next.                *)
LEMMA InstalledKeeps ==
  ASSUME CacheAssumption, TypeOK, TableInv, InputInv, install
  PROVE  TypeOK' /\ InputInv' /\ TableInv' /\ UsedStay
<1>1. PICK f \in Flows :
        /\ in' = [in EXCEPT !.made = f]
        /\ \/ /\ f \in dp_netdev_pmd_lookup_flow(Key)
              /\ UNCHANGED <<flow, classifier, flow_table>>
           \/ /\ dp_netdev_pmd_lookup_flow(Key) = {}
              /\ Allocate(f, mega_of[Key])
              /\ classifier' = classifier \cup {f}
              /\ flow_table' \in Places(TableFlows \cup {f})
  BY DEF install
<1>2. /\ pc = "install" /\ pc' = "insert" /\ updating = Idle
      /\ UNCHANGED <<updating, emc, smc>>
  BY DEF install, cache
<1>3. /\ in.next \in DOMAIN in.missed /\ in.next >= 1
      /\ Len(in.rules) = Len(in.missed) /\ in.rules[in.next] = None
  BY <1>2, ArrayTypes DEF InputInv, PhaseInv
<1>4. Key \in Keys /\ Key = in.packets[in.missed[in.next].packet]
  BY <1>3, CurrentKey
<1>5. /\ TypeInv' /\ TableInv' /\ UsedStay
      /\ f \in classifier' /\ flow'[f].mega = mega_of[Key]
  BY <1>1, <1>2, <1>4, InstallKeeps DEF TypeOK
<1>5a. ~flow'[f].dead
  BY <1>5 DEF TableInv, FlowInv
<1>6. in' \in InputType
  BY <1>1, FieldTypes DEF TypeOK
<1>7. /\ SameHeader /\ SameArrays /\ in'.next = in.next /\ in'.made = f
      /\ in'.executed = in.executed /\ in'.dropped = in.dropped
  BY <1>1 DEF TypeOK, InputType, SameHeader, SameArrays
<1>8. TypeOK'
  BY <1>2, <1>5, <1>6 DEF TypeOK, SmcType, Phases
<1>9. SameBatch
  BY <1>5, <1>7 DEF SameBatch, SameHeader
<1>10. PhaseInv'
  BY <1>1, <1>2, <1>3, <1>7 DEF PhaseInv, SameArrays
<1>11. DfcInv' /\ DeadInv'
  BY <1>2, <1>5, <1>7, DeadStay DEF DfcInv, SameHeader, InputInv
<1>12. MissedInv' /\ MapInv' /\ RightMap' /\ BatchPackets' /\ RightBatches' /\ RightRules'
  BY <1>7, <1>9, MissedStay, MapStays, BatchesStay, RulesStay DEF SameArrays
<1>13. RightMade'
  <2>1. f \notin in'.dead
    BY <1>2, <1>5a, <1>11 DEF DeadInv
  <2>2. flow'[f].mega = mega_of[in'.packets[in'.missed[in'.next].packet]]
    BY <1>4, <1>5, <1>7 DEF SameHeader, SameArrays
  <2> QED
    BY <1>7, <2>1, <2>2 DEF RightMade, Right
<1> QED
  BY <1>5, <1>8, <1>10, <1>11, <1>12, <1>13 DEF InputInv

LEMMA InsertedKeeps ==
  ASSUME CacheAssumption, TypeOK, TableInv, InputInv, install_insert
  PROVE  /\ TypeOK' /\ InputInv' /\ TableInv' /\ UsedStay
         /\ SameHeader /\ SameArrays /\ in'.next = in.next + 1
         /\ in'.executed = in.executed /\ in'.dropped = in.dropped
<1> DEFINE f == in.made
           r == [in EXCEPT !.made = None]
<1>1. /\ pc = "insert" /\ pc' = "upcall" /\ smc_insert(Key, f)
      /\ emc_probabilistic_insert(flow, Key, f) /\ in' = Advance(r)
      /\ UNCHANGED <<classifier, flow_table, updating>>
  BY DEF install_insert
<1>2. /\ in.next \in DOMAIN in.missed /\ in.next >= 1 /\ f \in Flows /\ in.next \in Nat
      /\ Len(in.rules) = Len(in.missed)
  BY <1>1, ArrayTypes, NoneIsNothing DEF InputInv, PhaseInv
<1>3. Key \in Keys /\ Key = in.packets[in.missed[in.next].packet]
  BY <1>2, CurrentKey
<1>4. flow[f].mega = mega_of[Key]
  BY <1>1, <1>2, <1>3, NoneIsNothing DEF InputInv, RightMade, Right
<1> HIDE DEF f
<1>5. TypeInv' /\ TableInv' /\ FlowsStay
  BY <1>1, <1>2, <1>3, <1>4, InsertKeeps DEF TypeOK
<1>6. UsedStay
  BY <1>5, StayingIsUsed
<1>7. SmcType'
  BY <1>1, <1>3, SmcInsertKeeps DEF TypeOK
<1>8. r \in InputType /\ r.next = in.next
  <2>1. r \in InputType
    BY FieldTypes DEF TypeOK
  <2>2. r.next = in.next
    BY DEF TypeOK, InputType
  <2> QED
    BY <2>1, <2>2
<1>9. in' = [[in EXCEPT !.made = None] EXCEPT !.next = in.next + 1]
  BY <1>1, <1>8 DEF Advance
<1>10. in' \in InputType
  <2>1. in.next + 1 \in Nat
    BY <1>2
  <2> HIDE DEF r
  <2> QED
    BY <1>8, <1>9, <2>1, FieldTypes DEF r
<1>11. /\ SameHeader /\ SameArrays /\ in'.next = in.next + 1
       /\ in'.executed = in.executed /\ in'.dropped = in.dropped
  BY <1>9 DEF TypeOK, InputType, SameHeader, SameArrays
<1>12. TypeOK'
  BY <1>1, <1>5, <1>7, <1>10 DEF TypeOK, Phases
<1>13. SameBatch
  BY <1>6, <1>11 DEF SameBatch, SameHeader
<1>14. PhaseInv'
  BY <1>1, <1>2, <1>11 DEF PhaseInv, SameArrays
<1>15. InputInv'
  BY <1>1, <1>11, <1>13, <1>14, ArraysStay DEF SameArrays
<1> QED
  BY <1>5, <1>6, <1>11, <1>12, <1>15

-----------------------------------------------------------------------------
(* A packet with a rule gets to its place in flow_map.                     *)
Enqueues(f) ==
  /\ pc = "enqueue" /\ pc' = "enqueue" /\ in.next \in DOMAIN in.missed
  /\ f = in.rules[in.next]
  /\ SetMap(in.missed[in.next].recv_idx, f) /\ in'.next = in.next + 1
  /\ in'.missed = in.missed /\ in'.rules = in.rules /\ in'.made = in.made
  /\ in'.batches = in.batches /\ in'.executed = in.executed /\ in'.dropped = in.dropped

LEMMA EnqueueStep ==
  ASSUME CacheAssumption, TypeOK, TableInv, InputInv, enqueue, in.rules[in.next] # None
  PROVE  \E f \in Flows :
           /\ Enqueues(f) /\ SameHeader /\ in' \in InputType
           /\ smc_insert(Key, f) /\ emc_probabilistic_insert(flow, Key, f)
           /\ UNCHANGED <<classifier, flow_table, updating>>
<1> DEFINE f == in.rules[in.next]
<1>1. /\ in.next \in DOMAIN in.missed /\ in.next \in Nat /\ pc = "enqueue" /\ pc' = "enqueue"
      /\ in.next \in DOMAIN in.rules
  BY ArrayTypes DEF enqueue, AtEnd, InputInv, PhaseInv
<1>2. /\ f \in Flows /\ smc_insert(Key, f) /\ emc_probabilistic_insert(flow, Key, f)
      /\ in' = Advance(Enqueued(f)) /\ UNCHANGED <<classifier, flow_table, updating>>
  BY <1>1, ArrayTypes DEF enqueue
<1> DEFINE x == in.missed[in.next].recv_idx
           new == [in.flow_map EXCEPT ![x] =
                     [packet |-> in.missed[in.next].packet, flow |-> f]]
<1>3. x \in DOMAIN in.flow_map /\ in.missed[in.next].packet = in.flow_map[x].packet
  BY <1>1 DEF InputInv, MissedInv
<1>4. new \in Seq(MapType)
  <2>1. [packet |-> in.missed[in.next].packet, flow |-> f] \in MapType
    BY <1>1, <1>2, ArrayTypes DEF MapType
  <2>2. in.flow_map \in Seq(MapType)
    BY DEF TypeOK, InputType
  <2> QED
    BY <1>3, <2>1, <2>2
<1>5. Enqueued(f) = [in EXCEPT !.flow_map = new]
  BY <1>1 DEF Enqueued, Current, TypeOK, InputType
<1> HIDE DEF new
<1> DEFINE r == [in EXCEPT !.flow_map = new]
<1>6. r \in InputType /\ r.next = in.next
  <2>1. r \in InputType
    BY <1>4, FieldTypes DEF TypeOK
  <2>2. r.next = in.next
    BY DEF TypeOK, InputType
  <2> QED
    BY <2>1, <2>2
<1>7. in' = [[in EXCEPT !.flow_map = new] EXCEPT !.next = in.next + 1]
  BY <1>2, <1>5, <1>6 DEF Advance
<1>8. in' \in InputType
  <2>1. in.next + 1 \in Nat
    BY <1>1
  <2> HIDE DEF r
  <2> QED
    BY <1>6, <1>7, <2>1, FieldTypes DEF r
<1>9. /\ SameHeader /\ in'.flow_map = new /\ in'.next = in.next + 1
      /\ in'.missed = in.missed /\ in'.rules = in.rules /\ in'.batches = in.batches
      /\ in'.made = in.made /\ in'.executed = in.executed /\ in'.dropped = in.dropped
  BY <1>7 DEF TypeOK, InputType, SameHeader
<1>10. SetMap(x, f)
  BY <1>3, <1>9 DEF SetMap, new
<1>11. Enqueues(f)
  BY <1>1, <1>9, <1>10 DEF Enqueues
<1> QED
  BY <1>2, <1>8, <1>9, <1>11

LEMMA EnqueueKeeps ==
  ASSUME CacheAssumption, TypeOK, TableInv, InputInv, enqueue, in.rules[in.next] # None
  PROVE  TypeOK' /\ InputInv' /\ TableInv' /\ UsedStay
<1>1. PICK f \in Flows :
        /\ Enqueues(f) /\ SameHeader /\ in' \in InputType
        /\ smc_insert(Key, f) /\ emc_probabilistic_insert(flow, Key, f)
        /\ UNCHANGED <<classifier, flow_table, updating>>
  BY EnqueueStep
<1> DEFINE n == in.next
           x == in.missed[n].recv_idx
<1>2. /\ n \in DOMAIN in.missed /\ pc = "enqueue" /\ pc' = "enqueue"
      /\ f = in.rules[n] /\ n \in Nat /\ n \in DOMAIN in.rules
      /\ n >= 1 /\ Len(in.rules) = Len(in.missed)
  BY <1>1, ArrayTypes DEF Enqueues, InputInv, PhaseInv
<1>3. Key \in Keys /\ Key = in.packets[in.missed[n].packet]
  BY <1>2, CurrentKey
<1>4. Right(flow, in, in.missed[n].packet, f)
  BY <1>2 DEF InputInv, RightRules
<1>5. flow[f].mega = mega_of[Key]
  BY <1>3, <1>4, NoneIsNothing DEF Right
<1>6. TypeInv' /\ TableInv' /\ UsedStay
  BY <1>1, <1>3, <1>5, InsertKeeps, StayingIsUsed DEF TypeOK
<1>7. SmcType'
  BY <1>1, <1>3, SmcInsertKeeps DEF TypeOK
<1>8. TypeOK' /\ SameBatch
  BY <1>1, <1>2, <1>6, <1>7 DEF TypeOK, SameHeader, SameBatch, Phases
<1>9. x \in DOMAIN in.flow_map /\ in.flow_map[x].packet = in.missed[n].packet
  BY <1>2 DEF InputInv, MissedInv
<1>10. /\ MapInv' /\ RightMap' /\ DOMAIN in'.flow_map = DOMAIN in.flow_map
       /\ \A y \in DOMAIN in.flow_map : in'.flow_map[y].packet = in.flow_map[y].packet
  <2>1. SetMap(x, f) /\ Right(flow, in, in.flow_map[x].packet, f)
    BY <1>1, <1>4, <1>9 DEF Enqueues
  <2> QED
    BY <1>8, <1>9, <2>1, MapSet
<1>11. MissedInv'
  <2>1. in'.missed = in.missed
    BY <1>1 DEF Enqueues
  <2> QED
    BY <1>10, <2>1 DEF MissedInv, InputInv
<1>12. BatchPackets' /\ RightBatches' /\ RightRules'
  BY <1>1, <1>8, BatchesStay, RulesStay DEF Enqueues
<1>13. PhaseInv' /\ DfcInv' /\ RightMade'
  <2>1. in'.missed = in.missed /\ in'.rules = in.rules /\ in'.next = n + 1
    BY <1>1 DEF Enqueues
  <2> QED
    BY <1>2, <2>1 DEF PhaseInv, DfcInv, RightMade
<1>14. DeadInv'
  BY <1>1, <1>2, <1>6, DeadStay DEF SameHeader, InputInv
<1> QED
  BY <1>6, <1>8, <1>10, <1>11, <1>12, <1>13, <1>14 DEF InputInv

-----------------------------------------------------------------------------
(* A packet of flow_map joins the batch of its flow.                       *)
Queues(i, f) ==
  /\ pc = "queue" /\ pc' = "queue" /\ in.next \in DOMAIN in.flow_map
  /\ in.flow_map[in.next].packet = i /\ in.flow_map[in.next].flow = f
  /\ in'.batches = dp_netdev_queue_batches(in.batches, i, f) /\ in'.next = in.next + 1
  /\ in'.missed = in.missed /\ in'.rules = in.rules /\ in'.made = in.made
  /\ in'.flow_map = in.flow_map /\ in'.executed = in.executed /\ in'.dropped = in.dropped

LEMMA QueueStep ==
  ASSUME CacheAssumption, TypeOK, TableInv, InputInv, queue,
         in.flow_map[in.next].flow # None
  PROVE  /\ SameTable /\ SameHeader /\ in' \in InputType
         /\ \E i \in Nat, f \in Flows : Queues(i, f)
<1> DEFINE i == in.flow_map[in.next].packet
           f == in.flow_map[in.next].flow
           new == dp_netdev_queue_batches(in.batches, i, f)
           r == [in EXCEPT !.batches = new]
<1>1. /\ in.next \in DOMAIN in.flow_map /\ in.next \in Nat /\ pc = "queue" /\ pc' = "queue"
      /\ SameTable
  BY ArrayTypes DEF queue, InputInv, PhaseInv, SameTable, table, cache
<1>2. i \in Nat /\ f \in Flows
  BY <1>1, ArrayTypes
<1>3. in' = Advance(r)
  BY DEF queue
<1>4. new \in Seq(BatchType)
  <2>1. in.batches \in Seq(BatchType)
    BY DEF TypeOK, InputType
  <2> HIDE DEF new, i, f
  <2> QED
    BY <1>2, <2>1, QueueBatches DEF IsQueued, new
<1> HIDE DEF new
<1>5. r \in InputType /\ r.next = in.next
  <2>1. r \in InputType
    BY <1>4, FieldTypes DEF TypeOK
  <2>2. r.next = in.next
    BY DEF TypeOK, InputType
  <2> QED
    BY <2>1, <2>2
<1>6. in' = [[in EXCEPT !.batches = new] EXCEPT !.next = in.next + 1]
  BY <1>3, <1>5 DEF Advance
<1>7. in' \in InputType
  <2>1. in.next + 1 \in Nat
    BY <1>1
  <2> HIDE DEF r
  <2> QED
    BY <1>5, <1>6, <2>1, FieldTypes DEF r
<1>8. /\ SameHeader /\ in'.batches = new /\ in'.next = in.next + 1
      /\ in'.missed = in.missed /\ in'.rules = in.rules /\ in'.flow_map = in.flow_map
      /\ in'.made = in.made /\ in'.executed = in.executed /\ in'.dropped = in.dropped
  BY <1>6 DEF TypeOK, InputType, SameHeader
<1>9. Queues(i, f)
  BY <1>1, <1>8 DEF Queues, new
<1> QED
  BY <1>1, <1>2, <1>7, <1>8, <1>9

LEMMA QueuedKeeps ==
  ASSUME CacheAssumption, TypeOK, TableInv, InputInv, queue,
         in.flow_map[in.next].flow # None
  PROVE  TypeOK' /\ InputInv' /\ TableInv' /\ UsedStay
<1>1. PICK i \in Nat, f \in Flows :
        Queues(i, f) /\ SameTable /\ SameHeader /\ in' \in InputType
  BY QueueStep
<1>2. TypeInv' /\ TableInv' /\ UsedStay
  BY <1>1, TableUntouched DEF SameTable, TypeOK
<1>3. TypeOK' /\ SameBatch
  BY <1>1, <1>2 DEF TypeOK, SmcType, SameTable, Queues, SameHeader, SameBatch
<1>4. IsPacket(in, i) /\ Right(flow, in, i, f)
  BY <1>1 DEF Queues, InputInv, MapInv, RightMap
<1>5. BatchPackets' /\ RightBatches'
  <2>1. in'.batches = dp_netdev_queue_batches(in.batches, i, f)
    BY <1>1 DEF Queues
  <2> QED
    BY <1>3, <1>4, <2>1, QueueKeeps
<1>6. MissedInv' /\ MapInv' /\ RightMap' /\ RightRules'
  BY <1>1, <1>3, MissedStay, MapStays, RulesStay DEF Queues
<1>7. PhaseInv' /\ DfcInv' /\ RightMade'
  <2>1. /\ pc = "queue" /\ pc' = "queue" /\ in'.next = in.next + 1
        /\ in'.missed = in.missed /\ in'.rules = in.rules
    BY <1>1 DEF Queues
  <2>2. in.next >= 1 /\ in.next \in Nat /\ Len(in.rules) = Len(in.missed)
    BY <2>1, ArrayTypes DEF InputInv, PhaseInv
  <2> QED
    BY <2>1, <2>2 DEF PhaseInv, DfcInv, RightMade
<1>8. DeadInv'
  BY <1>1, <1>2, DeadStay DEF SameHeader, Queues, InputInv
<1> QED
  BY <1>2, <1>3, <1>5, <1>6, <1>7, <1>8 DEF InputInv
-----------------------------------------------------------------------------
(* The invariant.                                                          *)

LEMMA InitCache ==
  ASSUME CacheAssumption, Init
  PROVE  CacheInv
<1>1. TypeOK
  <2>1. TypeInv
    BY DEF Init, TypeInv, FlowType, Unused, Idle
  <2>2. SmcType /\ pc \in Phases /\ in \in InputType
    BY NoBatchType DEF Init, SmcType, Phases
  <2> QED
    BY <2>1, <2>2 DEF TypeOK
<1>2. \A f \in Flows : flow[f].mega = None /\ ~flow[f].dead /\ flow[f].ref_cnt = 0
                       /\ flow[f] = Unused
  BY DEF Init, Unused
<1>3. UpdatingInv /\ MegaInv /\ EmcInv
  BY DEF Init, Idle, UpdatingInv, MegaInv, EmcInv
<1>4. FlowInv
  BY <1>2, NoneIsNothing DEF Init, Idle, FlowInv
<1>5. RefsExact
  <2> SUFFICES ASSUME NEW f \in Flows
               PROVE  flow[f].ref_cnt = Cardinality({e \in EMC_ENTRIES : emc[e].flow = f})
                        + (IF f \in classifier \/ updating.flow = f THEN 1 ELSE 0)
    BY DEF RefsExact
  <2>1. {e \in EMC_ENTRIES : emc[e].flow = f} = {}
    BY NoneIsNothing DEF Init
  <2>2. Cardinality({e \in EMC_ENTRIES : emc[e].flow = f}) = 0
    BY <2>1, FS_EmptySet
  <2>3. ~(f \in classifier \/ updating.flow = f)
    BY NoneIsNothing DEF Init, Idle
  <2> QED
    BY <1>2, <2>2, <2>3
<1>6. InputInv
  <2>1. /\ pc = "idle" /\ in = NoBatch /\ in.next = 1 /\ in.rules = <<>>
        /\ in.missed = <<>> /\ in.flow_map = <<>> /\ in.batches = <<>>
    BY DEF Init, NoBatch
  <2>2. PhaseInv /\ DfcInv /\ RightMade /\ DeadInv
    BY <2>1 DEF PhaseInv, DfcInv, RightMade, DeadInv
  <2>3. MissedInv /\ MapInv /\ BatchPackets /\ RightRules /\ RightMap /\ RightBatches
    BY <2>1 DEF MissedInv, MapInv, BatchPackets, RightRules, RightMap, RightBatches
  <2> QED
    BY <2>2, <2>3 DEF InputInv
<1> QED
  BY <1>1, <1>3, <1>4, <1>5, <1>6 DEF CacheInv, TableInv

LEMMA NextCache ==
  ASSUME CacheAssumption, CacheInv, [Next]_vars
  PROVE  CacheInv'
<1> USE DEF CacheInv
<1>1. CASE Quiesce \/ Return
  BY <1>1, IdleSteps
<1>2. CASE flow_put \/ flow_put_table \/ flow_del_table \/ flow_del_dead \/ emc_cache_slow_sweep
  BY <1>2, OutsideSteps
<1>3. CASE flow_del
  BY <1>3, DelStep
<1>4. CASE Receive
  BY <1>4, ReceiveKeeps
<1>5. CASE dfc_processing
  BY <1>5, DfcKeeps
<1>6. CASE LoopStep
  BY <1>6, LoopStepKeeps
<1>7. CASE smc_hit
  BY <1>7, SmcHitKeeps
<1>8. CASE dpcls_lookup
  BY <1>8, LookedKeeps
<1>9. CASE upcall_found
  BY <1>9, FoundKeeps
<1>10. CASE install
  BY <1>10, InstalledKeeps
<1>11. CASE install_insert
  BY <1>11, InsertedKeeps
<1>12. CASE enqueue /\ in.rules[in.next] # None
  BY <1>12, EnqueueKeeps
<1>13. CASE queue /\ in.flow_map[in.next].flow # None
  BY <1>13, QueuedKeeps
<1>14. CASE UNCHANGED vars
  <2>1. /\ UNCHANGED <<flow, classifier, flow_table, updating, emc, smc>>
        /\ UNCHANGED <<pc, in>>
    BY <1>14 DEF vars, table, cache, input
  <2>2. TypeInv' /\ TableInv' /\ UsedStay
    BY <2>1, TableUntouched DEF TypeOK
  <2>3. TypeOK' /\ InputInv'
    BY <2>1, <2>2, Untouched DEF TypeOK, SmcType
  <2> QED
    BY <2>2, <2>3
<1> QED
  BY <1>1, <1>2, <1>3, <1>4, <1>5, <1>6, <1>7, <1>8, <1>9, <1>10, <1>11, <1>12,
     <1>13, <1>14
  DEF Next, UpdateStep, PmdStep, LoopStep

LEMMA CacheIsRight ==
  ASSUME CacheInv
  PROVE  RefsExact /\ RightFlow
<1>1. \A i \in DOMAIN in.rules \cap DOMAIN in.missed :
        Right(flow, in, in.missed[i].packet, in.rules[i])
  BY DEF CacheInv, InputInv, RightRules
<1>2. \A i \in DOMAIN in.flow_map : Right(flow, in, in.flow_map[i].packet, in.flow_map[i].flow)
  BY DEF CacheInv, InputInv, RightMap
<1>3. pc = "insert" => Right(flow, in, Current.packet, in.made)
  BY DEF CacheInv, InputInv, RightMade, Current
<1>4. \A b \in ToSet(in.batches) : \A i \in DOMAIN b.packets : Right(flow, in, b.packets[i], b.flow)
  BY DEF CacheInv, InputInv, RightBatches, ToSet
<1>5. ASSUME NEW h \in Held
      PROVE  Right(flow, in, h[1], h[2])
  BY <1>1, <1>2, <1>3, <1>4 DEF Held
<1> QED
  BY <1>5 DEF RightFlow, Right, CacheInv, TableInv

(* The invariant: the table, the caches, and what a batch in the loops     *)
(* holds of them, whatever the other threads do meanwhile.                 *)
THEOREM CachesAreSound ==
  ASSUME CacheAssumption
  PROVE  Spec => []CacheInv
<1>1. Init => CacheInv
  BY InitCache
<1>2. CacheInv /\ [Next]_vars => CacheInv'
  BY NextCache
<1> QED
  BY <1>1, <1>2, PTL DEF Spec

(* A flow's count is its place in the table and the entries of the EMC     *)
(* that refer to it: emc_change_entry, the sweep and the removal of flows  *)
(* neither lose a reference nor leave one to freed memory.                 *)
THEOREM ReferencesAreExact ==
  ASSUME CacheAssumption
  PROVE  Spec => []RefsExact
<1>1. CacheInv => RefsExact
  BY CacheIsRight
<1> QED
  BY <1>1, CachesAreSound, PTL

(* The flow a packet is given, by the EMC, the SMC, the classifier or the  *)
(* upcall, matches the packet until its actions are executed, and was not  *)
(* dead when the batch came: no cache brings back a removed flow.          *)
THEOREM FlowsAreRight ==
  ASSUME CacheAssumption
  PROVE  Spec => []RightFlow
<1>1. CacheInv => RightFlow
  BY CacheIsRight
<1> QED
  BY <1>1, CachesAreSound, PTL
-----------------------------------------------------------------------------
(* The order of packets: what follows from the invariants.                 *)

LEMMA NotYetExecuted ==
  ASSUME UpcallInv, ExecutedInv, pc # "execute", NEW i \in DOMAIN in.executed
  PROVE  /\ in.executed[i].flow = UPCALL
         /\ \E m \in DOMAIN in.missed :
              NoRule(m) /\ BehindUpcall(m) /\ in.missed[m].packet = in.executed[i].packet
BY DEF UpcallInv, ExecutedInv

LEMMA NothingExecuted ==
  ASSUME UpcallInv, ExecutedInv, pc \in {"dfc", "smc", "lookup"}
  PROVE  /\ DOMAIN in.executed = {} /\ ExecutedPackets = {}
         /\ \A p \in in.dropped : p \in DOMAIN in.packets /\ in.packets[p] = Runt
<1>1. \A m : ~Behind(m) /\ ~BehindUpcall(m)
  BY DEF Behind, BehindUpcall, UpcallIsOver
<1>2. DOMAIN in.executed = {}
  BY <1>1, NotYetExecuted
<1>3. \A p \in in.dropped : p \in DOMAIN in.packets /\ in.packets[p] = Runt
  BY <1>1 DEF UpcallInv
<1> QED
  BY <1>2, <1>3 DEF ExecutedPackets

LEMMA MissesDiffer ==
  ASSUME TypeOK, InputInv, NEW m \in DOMAIN in.missed, NEW l \in DOMAIN in.missed
  PROVE  /\ in.missed[m].packet = in.missed[l].packet => m = l
         /\ in.missed[m].recv_idx = in.missed[l].recv_idx => m = l
         /\ in.missed[m].packet \in Nat
<1>1. \A i, j \in DOMAIN in.missed : i < j => in.missed[i].packet < in.missed[j].packet
  BY DEF InputInv, MissedInv
<1>2. m \in Nat /\ l \in Nat /\ in.missed[m].packet \in Nat /\ in.missed[l].packet \in Nat
  BY ArrayTypes
<1>3. m < l \/ l < m \/ m = l
  BY <1>2
<1>4. in.missed[m].packet = in.missed[l].packet => m = l
  BY <1>1, <1>2, <1>3
<1>5. in.missed[m].recv_idx = in.missed[l].recv_idx =>
        in.missed[m].packet = in.missed[l].packet
  BY DEF InputInv, MissedInv
<1> QED
  BY <1>2, <1>4, <1>5

LEMMA PlacesDiffer ==
  ASSUME TypeOK, InputInv, NEW x \in DOMAIN in.flow_map, NEW y \in DOMAIN in.flow_map
  PROVE  /\ in.flow_map[x].packet = in.flow_map[y].packet => x = y
         /\ in.flow_map[x].packet \in Nat
<1>1. \A i, j \in DOMAIN in.flow_map : i < j => in.flow_map[i].packet < in.flow_map[j].packet
  BY DEF InputInv, MapInv
<1>2. /\ x \in Nat /\ y \in Nat
      /\ in.flow_map[x].packet \in Nat /\ in.flow_map[y].packet \in Nat
  BY ArrayTypes
<1>3. x < y \/ y < x \/ x = y
  BY <1>2
<1> QED
  BY <1>1, <1>2, <1>3

LEMMA BatchedBefore ==
  ASSUME TypeOK, InputInv, BatchInv, pc \notin {"queue", "execute"},
         NEW m \in DOMAIN in.missed,
         NEW j \in DOMAIN in.batches, NEW a \in DOMAIN in.batches[j].packets
  PROVE  in.batches[j].packets[a] # in.missed[m].packet
<1> DEFINE x == in.missed[m].recv_idx
<1>1. x \in Waiting /\ in.flow_map[x].packet = in.missed[m].packet
  BY DEF Waiting, InputInv, MissedInv
<1>2. in.batches[j].packets[a] < in.flow_map[x].packet
  BY <1>1 DEF BatchInv
<1>3. in.batches[j].packets[a] \in Nat /\ in.missed[m].packet \in Nat
  BY ArrayTypes, ElementOfSeq
<1> QED
  BY <1>1, <1>2, <1>3

LEMMA AliveIsPresent ==
  ASSUME CacheAssumption, TypeOK, TableInv, FreshInv, pc # "idle", ~in.removed,
         NEW f \in Flows, flow[f].mega \in Megas, ~flow[f].dead
  PROVE  f \in classifier
<1>1. f \in classifier \/ f = updating.flow
  BY DEF TableInv, FlowInv
<1>2. updating.op \notin {"del", "dead"}
  BY DEF FreshInv
<1>3. updating.op \in {"none", "put", "del", "dead"}
  BY DEF TypeOK, TypeInv
<1>4. CASE f = updating.flow
  BY <1>2, <1>3, <1>4, NoneIsNothing DEF TableInv, UpdatingInv
<1> QED
  BY <1>1, <1>4

-----------------------------------------------------------------------------
(* The order of packets: what keeps each part of the invariant.            *)

LEMMA BatchStays ==
  ASSUME BatchInv, in'.batches = in.batches,
         pc' # "execute" => pc # "execute" /\
           \A i \in Waiting' : i \in Waiting /\ in'.flow_map[i].packet = in.flow_map[i].packet
  PROVE  BatchInv'
BY DEF BatchInv

LEMMA EnqueuedStays ==
  ASSUME EnqueuedInv, in'.missed = in.missed, in'.flow_map = in.flow_map,
         \A m \in DOMAIN in.missed :
           (IF Enqueueing(m)' THEN in'.rules[m] ELSE None)
             = (IF Enqueueing(m) THEN in.rules[m] ELSE None)
  PROVE  EnqueuedInv'
BY DEF EnqueuedInv

SameUpcalls ==
  \A m \in DOMAIN in.missed :
    /\ NoRule(m) /\ Behind(m) => NoRule(m)' /\ Behind(m)'
    /\ NoRule(m)' /\ BehindUpcall(m)' <=> NoRule(m) /\ BehindUpcall(m)

LEMMA UpcallStays ==
  ASSUME UpcallInv, in'.executed = in.executed, in'.dropped = in.dropped,
         in'.packets = in.packets, in'.missed = in.missed, SameUpcalls
  PROVE  UpcallInv'
<1>1. ExecutedPackets' = ExecutedPackets
  BY DEF ExecutedPackets
<1>2. ASSUME NEW i \in DOMAIN in.executed, in.executed[i].flow = UPCALL
      PROVE  \E m \in DOMAIN in.missed :
               NoRule(m)' /\ BehindUpcall(m)' /\ in.missed[m].packet = in.executed[i].packet
  BY <1>2 DEF UpcallInv, SameUpcalls
<1>3. ASSUME NEW p \in in.dropped
      PROVE  \/ p \in DOMAIN in.packets /\ in.packets[p] = Runt
             \/ \E m \in DOMAIN in.missed :
                  NoRule(m)' /\ Behind(m)' /\ in.missed[m].packet = p
  BY DEF UpcallInv, SameUpcalls
<1>4. ASSUME NEW m \in DOMAIN in.missed, NoRule(m)', BehindUpcall(m)'
      PROVE  in.missed[m].packet \in in.dropped \cup ExecutedPackets
  BY <1>4 DEF UpcallInv, SameUpcalls
<1> QED
  BY <1>1, <1>2, <1>3, <1>4 DEF UpcallInv

LEMMA ExecutedStays ==
  ASSUME UpcallInv, ExecutedInv, pc # "execute", in'.executed = in.executed,
         in'.dropped = in.dropped, in'.batches = in.batches
  PROVE  ExecutedInv'
<1>1. \A i \in DOMAIN in.executed : in.executed[i].flow = UPCALL
  BY NotYetExecuted
<1>2. ExecutedPackets' = ExecutedPackets
  BY DEF ExecutedPackets
<1>3. \A j \in DOMAIN in.batches : \A a \in DOMAIN in.batches[j].packets :
        in.batches[j].packets[a] \notin in.dropped \cup ExecutedPackets
  BY DEF ExecutedInv
<1> QED
  BY <1>1, <1>2, <1>3 DEF ExecutedInv

LEMMA AllStays ==
  ASSUME AllInv, pc # "idle", pc # "execute", in'.packets = in.packets,
         in'.executed = in.executed, in'.dropped = in.dropped, in'.batches = in.batches,
         \A j \in DOMAIN in.batches : pc' = "execute" => j >= in'.next,
         \A p \in DOMAIN in.packets :
           (pc' = "dfc" => p < in'.next) => (pc = "dfc" => p < in.next),
         \A i \in Waiting :
           \/ pc' # "execute" /\ i \in Waiting' /\ in'.flow_map[i].packet = in.flow_map[i].packet
           \/ in.flow_map[i].packet \in in.dropped \cup ExecutedPackets
  PROVE  AllInv'
<1>1. ExecutedPackets' = ExecutedPackets
  BY DEF ExecutedPackets
<1>2. ASSUME NEW p \in DOMAIN in.packets, Somewhere(p)
      PROVE  Somewhere(p)'
  <2>1. CASE p \in in.dropped \cup ExecutedPackets
    BY <1>1, <2>1 DEF Somewhere
  <2>2. CASE \E j \in DOMAIN in.batches : \E a \in DOMAIN in.batches[j].packets :
               in.batches[j].packets[a] = p /\ (pc = "execute" => j >= in.next)
    BY <2>2 DEF Somewhere
  <2>3. CASE \E i \in Waiting : in.flow_map[i].packet = p
    BY <1>1, <2>3 DEF Somewhere
  <2> QED
    BY <1>2, <2>1, <2>2, <2>3 DEF Somewhere
<1> QED
  BY <1>2 DEF AllInv

(* A flow stays what it was for a packet, if nothing is executed.          *)
FlowsPresent ==
  /\ classifier \subseteq classifier'
  /\ updating'.op \in {"del", "dead"} => updating.op \in {"del", "dead"}

LEMMA FreshStays ==
  ASSUME in'.packets = in.packets, in'.executed = in.executed, classifier \subseteq classifier'
  PROVE  \A i, f : Fresh(i, f) => Fresh(i, f)'
BY DEF Fresh

LEMMA FreshInvStays ==
  ASSUME FreshInv, SameHeader, SameArrays, in'.executed = in.executed, FlowsPresent,
         pc # "idle"
  PROVE  FreshInv'
<1>1. \A i, f : Fresh(i, f) => Fresh(i, f)'
  BY FreshStays DEF SameHeader, FlowsPresent
<1> QED
  BY <1>1 DEF FreshInv, SameHeader, SameArrays, FlowsPresent

LEMMA IdleOrder ==
  ASSUME in' = NoBatch, pc' = "idle"
  PROVE  OrderInv'
<1>1. /\ in'.missed = <<>> /\ in'.rules = <<>> /\ in'.flow_map = <<>> /\ in'.batches = <<>>
      /\ in'.executed = <<>> /\ in'.dropped = {}
  BY DEF NoBatch
<1>2. /\ DOMAIN in'.missed = {} /\ DOMAIN in'.flow_map = {} /\ DOMAIN in'.batches = {}
      /\ DOMAIN in'.executed = {}
  BY <1>1
<1>3. BatchInv' /\ EnqueuedInv'
  BY <1>2 DEF BatchInv, EnqueuedInv
<1>4. UpcallInv' /\ ExecutedInv'
  BY <1>1, <1>2 DEF UpcallInv, ExecutedInv
<1>5. AllInv' /\ FreshInv'
  BY <1>2 DEF AllInv, FreshInv
<1> QED
  BY <1>3, <1>4, <1>5 DEF OrderInv

LEMMA TableOrder ==
  ASSUME OrderInv, UNCHANGED <<pc, in>>, FlowsPresent
  PROVE  OrderInv'
<1>1. BatchInv' /\ EnqueuedInv' /\ UpcallInv' /\ ExecutedInv' /\ AllInv'
  BY DEF OrderInv, BatchInv, EnqueuedInv, UpcallInv, ExecutedInv, AllInv, Waiting,
     Enqueueing,
     UpcallIsOver, Behind, BehindUpcall, NoRule, ExecutedPackets, Somewhere
<1>2. \A i, f : Fresh(i, f) => Fresh(i, f)'
  BY FreshStays DEF FlowsPresent
<1>3. FreshInv'
  BY <1>2 DEF OrderInv, FreshInv, FlowsPresent
<1> QED
  BY <1>1, <1>3 DEF OrderInv
-----------------------------------------------------------------------------
(* The order of packets: steps that move none.                             *)

Moves ==
  /\ pc \notin {"idle", "execute"}
  /\ pc' # "execute" => Waiting' \subseteq Waiting
  /\ \A m \in DOMAIN in.missed :
       (IF Enqueueing(m)' THEN in.rules[m] ELSE None)
         = (IF Enqueueing(m) THEN in.rules[m] ELSE None)
  /\ SameUpcalls
  /\ pc' = "execute" => in'.next = 1
  /\ \A p \in DOMAIN in.packets :
       (pc' = "dfc" => p < in'.next) => (pc = "dfc" => p < in.next)
  /\ \A i \in Waiting :
       \/ pc' # "execute" /\ i \in Waiting'
       \/ in.flow_map[i].packet \in in.dropped \cup ExecutedPackets

LEMMA MovesKeep ==
  ASSUME TypeOK, OrderInv, SameHeader, SameArrays, FlowsPresent, Moves,
         in'.executed = in.executed, in'.dropped = in.dropped
  PROVE  OrderInv'
<1>1. BatchInv'
  BY BatchStays DEF OrderInv, SameArrays, Moves
<1>2. EnqueuedInv'
  BY EnqueuedStays DEF OrderInv, SameArrays, Moves
<1>3. UpcallInv'
  BY UpcallStays DEF OrderInv, SameArrays, SameHeader, Moves
<1>4. ExecutedInv'
  BY ExecutedStays DEF OrderInv, SameArrays, Moves
<1>5. AllInv'
  <2>1. \A j \in DOMAIN in.batches : pc' = "execute" => j >= in'.next
    BY ArrayTypes DEF Moves
  <2> QED
    BY <2>1, AllStays DEF OrderInv, SameArrays, SameHeader, Moves
<1>6. FreshInv'
  BY FreshInvStays DEF OrderInv, Moves
<1> QED
  BY <1>1, <1>2, <1>3, <1>4, <1>5, <1>6 DEF OrderInv

(* The ways to move.                                                       *)
Moved ==
  \/ Begin("dfc", "smc") /\ in.next > Len(in.packets)
  \/ Begin("dfc", "lookup") /\ in.next > Len(in.packets)
  \/ Begin("smc", "lookup") /\ AtEnd
  \/ Begin("lookup", "upcall") /\ AtEnd
  \/ Begin("upcall", "enqueue") /\ AtEnd
  \/ Begin("enqueue", "queue") /\ AtEnd
  \/ Begin("queue", "execute") /\ in.next > Len(in.flow_map)
  \/ GoOn("smc") /\ ~AtEnd
  \/ GoOn("upcall") /\ ~AtEnd /\ in.rules[in.next] # None
  \/ GoOn("enqueue") /\ ~AtEnd /\ in.rules[in.next] = None
  \/ GoOn("queue") /\ in.next <= Len(in.flow_map) /\ in.flow_map[in.next].flow = None
  \/ pc = "install" /\ pc' = "insert" /\ in'.next = in.next
  \/ pc = "insert" /\ pc' = "upcall" /\ in'.next = in.next + 1

LEMMA MovedMoves ==
  ASSUME CacheAssumption, TypeOK, InputInv, OrderInv, SameHeader, SameArrays, Moved
  PROVE  Moves
<1>1. /\ in.next \in Nat /\ in.next >= 1
      /\ DOMAIN in.missed = 1 .. Len(in.missed) /\ Len(in.missed) \in Nat
      /\ DOMAIN in.flow_map = 1 .. Len(in.flow_map) /\ Len(in.flow_map) \in Nat
      /\ DOMAIN in.packets = 1 .. Len(in.packets) /\ Len(in.packets) \in Nat
  BY ArrayTypes DEF InputInv, PhaseInv
<1>2. pc \notin {"idle", "execute"} /\ (pc' = "execute" => in'.next = 1)
  BY DEF Moved, Begin, GoOn
<1>3. pc' # "execute" => Waiting' \subseteq Waiting
  BY <1>1 DEF Moved, Begin, GoOn, SameArrays, Waiting
<1>4. \A m \in DOMAIN in.missed :
       (IF Enqueueing(m)' THEN in.rules[m] ELSE None)
         = (IF Enqueueing(m) THEN in.rules[m] ELSE None)
  BY <1>1 DEF Moved, Begin, GoOn, AtEnd, Enqueueing
<1>5. SameUpcalls
  <2> SUFFICES ASSUME NEW m \in DOMAIN in.missed
               PROVE  /\ NoRule(m) /\ Behind(m) => NoRule(m)' /\ Behind(m)'
                      /\ NoRule(m)' /\ BehindUpcall(m)' <=> NoRule(m) /\ BehindUpcall(m)
    BY DEF SameUpcalls
  <2>1. NoRule(m)' <=> NoRule(m)
    BY DEF SameArrays, NoRule
  <2>2. NoRule(m) /\ Behind(m) => Behind(m)'
    BY <1>1 DEF Moved, Begin, GoOn, AtEnd, Behind, UpcallIsOver, NoRule
  <2>3. NoRule(m) => (BehindUpcall(m)' <=> BehindUpcall(m))
    BY <1>1 DEF Moved, Begin, GoOn, AtEnd, Behind, BehindUpcall, UpcallIsOver, NoRule
  <2> QED
    BY <2>1, <2>2, <2>3
<1>6. \A p \in DOMAIN in.packets :
       (pc' = "dfc" => p < in'.next) => (pc = "dfc" => p < in.next)
  BY <1>1 DEF Moved, Begin, GoOn
<1>7. ASSUME NEW i \in Waiting
      PROVE  \/ pc' # "execute" /\ i \in Waiting'
             \/ in.flow_map[i].packet \in in.dropped \cup ExecutedPackets
  <2>1. i \in DOMAIN in.flow_map /\ in'.flow_map = in.flow_map
        /\ (pc = "queue" => i >= in.next)
    BY DEF Waiting, SameArrays
  <2>2. CASE pc = "queue" /\ in.next <= Len(in.flow_map) /\ in.flow_map[in.next].flow = None
                /\ i = in.next
    <3>1. PICK m \in DOMAIN in.missed : in.missed[m].recv_idx = i
      BY <2>1, <2>2 DEF OrderInv, EnqueuedInv
    <3>2. in.rules[m] = None
      BY <2>2, <3>1 DEF OrderInv, EnqueuedInv, Enqueueing
    <3>3. m \in DOMAIN in.rules
      BY <2>2, ArrayTypes DEF InputInv, PhaseInv
    <3>4. NoRule(m) /\ BehindUpcall(m)
      BY <2>2, <3>2, <3>3 DEF NoRule, BehindUpcall, Behind, UpcallIsOver
    <3>5. in.missed[m].packet \in in.dropped \cup ExecutedPackets
      BY <3>4 DEF OrderInv, UpcallInv
    <3>6. in.missed[m].packet = in.flow_map[i].packet
      BY <3>1 DEF InputInv, MissedInv
    <3> QED
      BY <3>5, <3>6
  <2>3. CASE ~(pc = "queue" /\ in.next <= Len(in.flow_map) /\ in.flow_map[in.next].flow = None
                /\ i = in.next)
    BY <1>1, <2>1, <2>3 DEF Moved, Begin, GoOn, Waiting
  <2> QED
    BY <2>2, <2>3
<1> QED
  BY <1>2, <1>3, <1>4, <1>5, <1>6, <1>7 DEF Moves

(* lookup_done when the lock is not free: the misses without rule are      *)
(* dropped.                                                                *)
LEMMA LookupDoneOrder ==
  ASSUME CacheAssumption, TypeOK, InputInv, OrderInv, SameTable, SameHeader, SameArrays,
         LookupDone
  PROVE  OrderInv'
<1>1. /\ pc = "lookup" /\ pc' = "enqueue" /\ in'.next = 1 /\ AtEnd
      /\ in'.executed = in.executed
      /\ in'.dropped = in.dropped \cup
           {in.missed[i].packet : i \in {i \in DOMAIN in.rules : in.rules[i] = None}}
  BY DEF LookupDone, Begin
<1>2. /\ in.next \in Nat /\ DOMAIN in.missed = 1 .. Len(in.missed) /\ Len(in.missed) \in Nat
      /\ DOMAIN in.rules = DOMAIN in.missed
  BY <1>1, ArrayTypes DEF InputInv, PhaseInv, AtEnd
<1>3. /\ DOMAIN in.executed = {} /\ ExecutedPackets = {}
      /\ \A p \in in.dropped : p \in DOMAIN in.packets /\ in.packets[p] = Runt
  BY <1>1, NothingExecuted DEF OrderInv
<1>4. \A m : NoRule(m)' <=> NoRule(m)
  BY DEF SameArrays, NoRule
<1>5. \A m : Behind(m)' /\ BehindUpcall(m)'
  BY <1>1 DEF Behind, BehindUpcall, UpcallIsOver
<1>6. ExecutedPackets' = {}
  BY <1>1, <1>3 DEF ExecutedPackets
<1>7. \A p \in in'.dropped :
        p \in in.dropped \/ \E m \in DOMAIN in.missed : NoRule(m) /\ in.missed[m].packet = p
  BY <1>1, <1>2 DEF NoRule
<1>8. \A m : NoRule(m) => in.missed[m].packet \in in'.dropped
  BY <1>1 DEF NoRule
<1>9. BatchInv'
  BY <1>1, BatchStays DEF OrderInv, SameArrays, Waiting
<1>10. EnqueuedInv'
  <2>1. \A m \in DOMAIN in.missed : ~Enqueueing(m) /\ ~Enqueueing(m)'
    BY <1>1, <1>2 DEF Enqueueing
  <2> QED
    BY <2>1, EnqueuedStays DEF OrderInv, SameArrays
<1>11. UpcallInv'
  BY <1>1, <1>3, <1>4, <1>5, <1>7, <1>8 DEF UpcallInv, SameArrays, SameHeader
<1>12. ExecutedInv'
  <2>1. \A j \in DOMAIN in.batches : \A a \in DOMAIN in.batches[j].packets :
          in.batches[j].packets[a] \notin in'.dropped
    BY <1>1, <1>7, BatchedBefore DEF OrderInv, ExecutedInv
  <2> QED
    BY <1>1, <1>3, <1>6, <2>1 DEF ExecutedInv, SameArrays
<1>13. AllInv'
  <2>1. ASSUME NEW p \in DOMAIN in.packets, Somewhere(p)
        PROVE  Somewhere(p)'
    <3>1. Waiting' = Waiting /\ in.dropped \subseteq in'.dropped
      BY <1>1 DEF Waiting, SameArrays
    <3> QED
      BY <1>1, <1>3, <2>1, <3>1 DEF Somewhere, SameArrays
  <2> QED
    BY <1>1, <2>1 DEF OrderInv, AllInv, SameHeader
<1>14. FreshInv'
  BY <1>1, FreshInvStays DEF OrderInv, SameTable, FlowsPresent
<1> QED
  BY <1>9, <1>10, <1>11, <1>12, <1>13, <1>14 DEF OrderInv
-----------------------------------------------------------------------------
(* The order of packets: the upcall drops a packet, or executes it.        *)

(* The misses behind the upcall, when it goes on to the next.              *)
LEMMA UpcallGoesOn ==
  ASSUME TypeOK, InputInv, SameArrays, pc = "upcall", in.next \in DOMAIN in.missed,
         \/ pc' = "upcall" /\ in'.next = in.next + 1
         \/ pc' = "install" /\ in'.next = in.next
  PROVE  \A m \in DOMAIN in.missed :
           /\ NoRule(m)' <=> NoRule(m)
           /\ Behind(m) <=> m < in.next
           /\ BehindUpcall(m) <=> m < in.next
           /\ BehindUpcall(m)' <=> Behind(m) \/ m = in.next
           /\ Behind(m) => Behind(m)'
           /\ pc' = "upcall" => (Behind(m)' <=> Behind(m) \/ m = in.next)
<1>1. in.next \in Nat /\ \A m \in DOMAIN in.missed : m \in Nat
  BY ArrayTypes
<1>2. \A m : NoRule(m)' <=> NoRule(m)
  BY DEF SameArrays, NoRule
<1> QED
  BY <1>1, <1>2 DEF Behind, BehindUpcall, UpcallIsOver

LEMMA UpcallErrorOrder ==
  ASSUME CacheAssumption, TypeOK, InputInv, OrderInv, SameTable, SameHeader, SameArrays,
         UpcallError
  PROVE  OrderInv'
<1> DEFINE n == in.next
           p == in.missed[n].packet
<1>1. /\ pc = "upcall" /\ pc' = "upcall" /\ in'.next = n + 1 /\ in.rules[n] = None
      /\ in'.dropped = in.dropped \cup {p} /\ in'.executed = in.executed
  BY DEF UpcallError, GoOn
<1>2. n \in DOMAIN in.missed /\ NoRule(n) /\ n \in Nat
  BY <1>1, ArrayTypes DEF UpcallError, InputInv, PhaseInv, NoRule
<1>3. \A m \in DOMAIN in.missed :
        /\ NoRule(m)' <=> NoRule(m)
        /\ Behind(m) <=> m < n
        /\ BehindUpcall(m) <=> m < n
        /\ BehindUpcall(m)' <=> Behind(m) \/ m = n
        /\ Behind(m)' <=> Behind(m) \/ m = n
  BY <1>1, <1>2, UpcallGoesOn
<1>4. ExecutedPackets' = ExecutedPackets
  BY <1>1 DEF ExecutedPackets
<1>5. \A i \in DOMAIN in.executed :
        /\ in.executed[i].flow = UPCALL
        /\ \E m \in DOMAIN in.missed :
             NoRule(m) /\ BehindUpcall(m) /\ in.missed[m].packet = in.executed[i].packet
  BY <1>1, NotYetExecuted DEF OrderInv
<1>6. p \notin ExecutedPackets
  <2> SUFFICES ASSUME NEW i \in DOMAIN in.executed, in.executed[i].packet = p
               PROVE  FALSE
    BY DEF ExecutedPackets
  <2>1. PICK m \in DOMAIN in.missed : BehindUpcall(m) /\ in.missed[m].packet = p
    BY <1>5
  <2>2. m = n /\ m < n
    BY <1>2, <1>3, <2>1, MissesDiffer
  <2> QED
    BY <1>2, <2>2
<1>7. BatchInv' /\ EnqueuedInv'
  <2>1. \A m : ~Enqueueing(m) /\ ~Enqueueing(m)'
    BY <1>1 DEF Enqueueing
  <2> QED
    BY <1>1, <2>1, BatchStays, EnqueuedStays DEF OrderInv, SameArrays, Waiting
<1>8. UpcallInv'
  <2>1. ASSUME NEW i \in DOMAIN in.executed
        PROVE  \E m \in DOMAIN in.missed :
                 NoRule(m)' /\ BehindUpcall(m)' /\ in.missed[m].packet = in.executed[i].packet
    BY <1>3, <1>5
  <2>2. ASSUME NEW q \in in'.dropped
        PROVE  \/ q \in DOMAIN in.packets /\ in.packets[q] = Runt
               \/ \E m \in DOMAIN in.missed :
                    NoRule(m)' /\ Behind(m)' /\ in.missed[m].packet = q
    BY <1>1, <1>2, <1>3 DEF OrderInv, UpcallInv
  <2>3. ASSUME NEW m \in DOMAIN in.missed, NoRule(m)', BehindUpcall(m)'
        PROVE  in.missed[m].packet \in in'.dropped \cup ExecutedPackets
    BY <1>1, <1>3, <2>3 DEF OrderInv, UpcallInv
  <2> QED
    BY <1>1, <1>4, <2>1, <2>2, <2>3 DEF UpcallInv, SameArrays, SameHeader
<1>9. ExecutedInv'
  <2>1. \A j \in DOMAIN in.batches : \A a \in DOMAIN in.batches[j].packets :
          in.batches[j].packets[a] \notin in'.dropped \cup ExecutedPackets
    BY <1>1, <1>2, BatchedBefore DEF OrderInv, ExecutedInv
  <2>2. \A i \in DOMAIN in.executed : in.executed[i].packet \notin in'.dropped
    BY <1>1, <1>6 DEF OrderInv, ExecutedInv, ExecutedPackets
  <2> HIDE DEF p, n
  <2> QED
    BY <1>1, <1>4, <1>5, <2>1, <2>2 DEF OrderInv, ExecutedInv, SameArrays
<1>10. AllInv'
  <2>1. ASSUME NEW q \in DOMAIN in.packets, Somewhere(q)
        PROVE  Somewhere(q)'
    <3>1. Waiting' = Waiting /\ in.dropped \subseteq in'.dropped
      BY <1>1 DEF Waiting, SameArrays
    <3> QED
      BY <1>1, <1>4, <2>1, <3>1 DEF Somewhere, SameArrays
  <2> QED
    BY <1>1, <2>1 DEF OrderInv, AllInv, SameHeader
<1>11. FreshInv'
  BY <1>1, FreshInvStays DEF OrderInv, SameTable, FlowsPresent
<1> QED
  BY <1>7, <1>8, <1>9, <1>10, <1>11 DEF OrderInv

LEMMA UpcalledOrder ==
  ASSUME CacheAssumption, TypeOK, TableInv, InputInv, OrderInv, SameTable, SameHeader,
         SameArrays, Upcalled
  PROVE  OrderInv'
<1> DEFINE n == in.next
           p == in.missed[n].packet
           N == Len(in.executed)
<1>1. /\ pc = "upcall" /\ in.rules[n] = None /\ in'.dropped = in.dropped
      /\ in'.executed = Append(in.executed, [packet |-> p, flow |-> UPCALL])
      /\ \/ pc' = "upcall" /\ in'.next = n + 1
         \/ pc' = "install" /\ in'.next = n
  BY DEF Upcalled
<1>2. n \in DOMAIN in.missed /\ NoRule(n) /\ n \in Nat
  BY <1>1, ArrayTypes DEF Upcalled, InputInv, PhaseInv, NoRule
<1>3. \A m \in DOMAIN in.missed :
        /\ NoRule(m)' <=> NoRule(m)
        /\ Behind(m) <=> m < n
        /\ BehindUpcall(m) <=> m < n
        /\ BehindUpcall(m)' <=> Behind(m) \/ m = n
        /\ Behind(m) => Behind(m)'
  BY <1>1, <1>2, UpcallGoesOn
<1>4. /\ DOMAIN in.executed = 1 .. N /\ N \in Nat
      /\ DOMAIN in'.executed = 1 .. (N + 1)
      /\ \A i \in 1 .. N : in'.executed[i] = in.executed[i]
      /\ in'.executed[N + 1].packet = p /\ in'.executed[N + 1].flow = UPCALL
  <2> DEFINE e == [packet |-> p, flow |-> UPCALL]
  <2>1. in.executed \in Seq(ExecutedType) /\ e.packet = p /\ e.flow = UPCALL
    BY DEF TypeOK, InputType
  <2>2. e \in ExecutedType
    BY <1>2, ArrayTypes DEF ExecutedType
  <2>3. in'.executed = Append(in.executed, e)
    BY <1>1
  <2> HIDE DEF e
  <2> QED
    BY <2>1, <2>2, <2>3, AppendProperties
<1>5. \A i \in 1 .. N :
        /\ in.executed[i].flow = UPCALL
        /\ \E m \in DOMAIN in.missed :
             NoRule(m) /\ m < n /\ in.missed[m].packet = in.executed[i].packet
  BY <1>1, <1>3, <1>4, NotYetExecuted DEF OrderInv
<1>6. \A i \in 1 .. N : in.executed[i].packet < p
  BY <1>2, <1>5 DEF InputInv, MissedInv
<1>7. p \in Nat /\ \A i \in 1 .. N : in.executed[i].packet \in Nat
  BY <1>2, <1>5, MissesDiffer
<1>8. ExecutedPackets' = ExecutedPackets \cup {p}
  <2>1. \A x : x \in ExecutedPackets <=> \E i \in 1 .. N : in.executed[i].packet = x
    BY <1>4 DEF ExecutedPackets
  <2>2. \A x : x \in ExecutedPackets' <=> \E i \in 1 .. (N + 1) : in'.executed[i].packet = x
    BY <1>4 DEF ExecutedPackets
  <2>3. \A i : i \in 1 .. (N + 1) <=> i \in 1 .. N \/ i = N + 1
    BY <1>4
  <2> HIDE DEF N, p, n
  <2> QED
    BY <1>4, <2>1, <2>2, <2>3
<1> HIDE DEF N
<1>9. p \notin in.dropped
  <2> SUFFICES ASSUME p \in in.dropped
               PROVE  FALSE
    OBVIOUS
  <2>1. IsPacket(in, p)
    BY <1>2, MissedArePackets
  <2>2. PICK m \in DOMAIN in.missed : Behind(m) /\ in.missed[m].packet = p
    BY <2>1, NoneIsNothing DEF OrderInv, UpcallInv, IsPacket
  <2>3. m = n /\ m < n
    BY <1>2, <1>3, <2>2, MissesDiffer
  <2> QED
    BY <1>2, <2>3
<1>10. BatchInv' /\ EnqueuedInv'
  <2>1. \A m : ~Enqueueing(m) /\ ~Enqueueing(m)'
    BY <1>1 DEF Enqueueing
  <2> QED
    BY <1>1, <2>1, BatchStays, EnqueuedStays DEF OrderInv, SameArrays, Waiting
<1>11. UpcallInv'
  <2>1. ASSUME NEW i \in DOMAIN in'.executed
        PROVE  \E m \in DOMAIN in.missed :
                 NoRule(m)' /\ BehindUpcall(m)' /\ in.missed[m].packet = in'.executed[i].packet
    <3>1. CASE i \in 1 .. N
      BY <1>3, <1>4, <1>5, <3>1
    <3>2. CASE i = N + 1
      BY <1>2, <1>3, <1>4, <3>2
    <3> QED
      BY <1>4, <3>1, <3>2
  <2>2. ASSUME NEW q \in in.dropped
        PROVE  \/ q \in DOMAIN in.packets /\ in.packets[q] = Runt
               \/ \E m \in DOMAIN in.missed :
                    NoRule(m)' /\ Behind(m)' /\ in.missed[m].packet = q
    BY <1>3 DEF OrderInv, UpcallInv
  <2>3. ASSUME NEW m \in DOMAIN in.missed, NoRule(m)', BehindUpcall(m)'
        PROVE  in.missed[m].packet \in in.dropped \cup ExecutedPackets'
    BY <1>3, <1>8, <2>3 DEF OrderInv, UpcallInv
  <2> HIDE DEF p, n
  <2> QED
    BY <1>1, <2>1, <2>2, <2>3 DEF UpcallInv, SameArrays, SameHeader
<1>12. ExecutedInv'
  <2>1. \A i \in 1 .. (N + 1) : in'.executed[i].flow = UPCALL
    BY <1>4, <1>5
  <2>2. ASSUME NEW i \in 1 .. (N + 1), NEW j \in 1 .. (N + 1), i < j
        PROVE  in'.executed[i].packet < in'.executed[j].packet
    <3>1. CASE j = N + 1
      BY <1>4, <1>6, <2>2, <3>1
    <3>2. CASE j \in 1 .. N
      <4>1. i \in 1 .. N
        BY <1>4, <2>2, <3>2
      <4> QED
        BY <1>4, <1>5, <2>2, <3>2, <4>1 DEF OrderInv, ExecutedInv
    <3> QED
      BY <1>4, <3>1, <3>2
  <2>3. \A i \in 1 .. (N + 1) : in'.executed[i].packet \in Nat
    BY <1>4, <1>7
  <2>4. ASSUME NEW i \in 1 .. (N + 1), NEW j \in 1 .. (N + 1),
               in'.executed[i].packet = in'.executed[j].packet
        PROVE  i = j
    <3>1. i < j \/ j < i \/ i = j
      BY <1>4
    <3> QED
      BY <2>2, <2>3, <2>4, <3>1
  <2>5. \A i \in 1 .. (N + 1) : in'.executed[i].packet \notin in.dropped
    BY <1>4, <1>9 DEF OrderInv, ExecutedInv
  <2>6. \A j \in DOMAIN in.batches : \A a \in DOMAIN in.batches[j].packets :
          in.batches[j].packets[a] \notin in.dropped \cup ExecutedPackets'
    BY <1>1, <1>2, <1>8, BatchedBefore DEF OrderInv, ExecutedInv
  <2> HIDE DEF p, n
  <2> QED
    BY <1>1, <1>4, <2>1, <2>2, <2>4, <2>5, <2>6 DEF ExecutedInv, SameArrays
<1>13. AllInv'
  <2>1. ASSUME NEW q \in DOMAIN in.packets, Somewhere(q)
        PROVE  Somewhere(q)'
    <3>1. Waiting' = Waiting
      BY <1>1 DEF Waiting, SameArrays
    <3> QED
      BY <1>1, <1>8, <2>1, <3>1 DEF Somewhere, SameArrays
  <2> QED
    BY <1>1, <2>1 DEF OrderInv, AllInv, SameHeader
<1>14. FreshInv'
  <2>1. ASSUME NEW i, NEW f \in Flows \cup {None}, Fresh(i, f), Right(flow, in, i, f)
        PROVE  Fresh(i, f)'
    <3> SUFFICES ASSUME f # None, NEW x \in 1 .. (N + 1),
                        mega_of[in.packets[in'.executed[x].packet]] = mega_of[in.packets[i]]
                 PROVE  in'.executed[x].packet < i
      BY <1>4, <2>1 DEF Fresh, SameTable, SameHeader
    <3>1. f \in classifier /\ flow[f].mega = mega_of[in.packets[i]]
      BY <2>1 DEF Fresh, Right
    <3>2. flow[f].mega # mega_of[in.packets[p]]
      BY <3>1 DEF Upcalled
    <3>3. x \in 1 .. N
      BY <1>4, <3>1, <3>2
    <3> QED
      BY <1>4, <1>5, <2>1, <3>3 DEF Fresh
  <2>2. \A i \in DOMAIN in.rules \cap DOMAIN in.missed :
          in.rules[i] \in Flows \cup {None} /\ Right(flow, in, in.missed[i].packet, in.rules[i])
    BY ArrayTypes DEF InputInv, RightRules
  <2>3. \A i \in DOMAIN in.flow_map :
          /\ in.flow_map[i].flow \in Flows \cup {None}
          /\ Right(flow, in, in.flow_map[i].packet, in.flow_map[i].flow)
    BY ArrayTypes DEF InputInv, RightMap
  <2>4. \A j \in DOMAIN in.batches : \A a \in DOMAIN in.batches[j].packets :
          /\ in.batches[j].flow \in Flows \cup {None}
          /\ Right(flow, in, in.batches[j].packets[a], in.batches[j].flow)
    BY ArrayTypes DEF InputInv, RightBatches
  <2> HIDE DEF p, n
  <2> QED
    BY <1>1, <2>1, <2>2, <2>3, <2>4 DEF OrderInv, FreshInv, SameArrays, SameHeader,
       SameTable
<1> QED
  BY <1>10, <1>11, <1>12, <1>13, <1>14 DEF OrderInv
-----------------------------------------------------------------------------
(* The order of packets: a batch is executed.                              *)

(* The last packets executed are those of the batch.                       *)
Runs(x, a) ==
  /\ in'.executed[x].packet = in.batches[in.next].packets[a]
  /\ in'.executed[x].flow = in.batches[in.next].flow

LEMMA RunAppends ==
  ASSUME TypeOK, in.next \in DOMAIN in.batches,
         in'.executed = in.executed \o Run(in.batches[in.next])
  PROVE  LET N == Len(in.executed)
             M == Len(in.batches[in.next].packets)
         IN  /\ N \in Nat /\ M \in Nat /\ DOMAIN in.executed = 1 .. N
             /\ DOMAIN in.batches[in.next].packets = 1 .. M
             /\ DOMAIN in'.executed = 1 .. (N + M)
             /\ \A x \in 1 .. N : in'.executed[x] = in.executed[x]
             /\ \A x \in (N + 1) .. (N + M) : Runs(x, x - N)
<1> DEFINE b == in.batches[in.next]
           N == Len(in.executed)
           M == Len(b.packets)
<1>1. b.packets \in Seq(Nat) /\ b.flow \in Flows
  BY ArrayTypes
<1>2. in.executed \in Seq(ExecutedType)
  BY DEF TypeOK, InputType
<1>3. N \in Nat /\ M \in Nat /\ DOMAIN in.executed = 1 .. N /\ DOMAIN b.packets = 1 .. M
  BY <1>1, <1>2
<1> HIDE DEF b
<1>4. /\ Run(b) \in Seq(ExecutedType) /\ Len(Run(b)) = M
      /\ \A a \in 1 .. M : Run(b)[a].packet = b.packets[a] /\ Run(b)[a].flow = b.flow
  <2>1. Run(b) = [a \in 1 .. M |-> [packet |-> b.packets[a], flow |-> b.flow]]
    BY <1>3 DEF Run
  <2>2. \A a \in 1 .. M : [packet |-> b.packets[a], flow |-> b.flow] \in ExecutedType
    BY <1>1 DEF ExecutedType
  <2> QED
    BY <1>3, <2>1, <2>2
<1>5. in'.executed = in.executed \o Run(b)
  BY DEF b
<1> HIDE DEF N, M
<1>6. /\ Len(in.executed \o Run(b)) = N + M /\ in.executed \o Run(b) \in Seq(ExecutedType)
      /\ \A x \in 1 .. (N + M) :
           (in.executed \o Run(b))[x] = IF x <= N THEN in.executed[x] ELSE Run(b)[x - N]
  BY <1>2, <1>4, ConcatProperties DEF N
<1>7. DOMAIN in'.executed = 1 .. (N + M)
  BY <1>5, <1>6
<1>8. \A x \in 1 .. N : in'.executed[x] = in.executed[x]
  BY <1>3, <1>5, <1>6
<1>9. \A x \in (N + 1) .. (N + M) : in'.executed[x] = Run(b)[x - N] /\ x - N \in 1 .. M
  BY <1>3, <1>5, <1>6
<1>10. ASSUME NEW x \in (N + 1) .. (N + M)
       PROVE  Runs(x, x - N)
  <2>1. /\ in'.executed[x].packet = b.packets[x - N]
        /\ in'.executed[x].flow = b.flow
    BY <1>4, <1>9
  <2> QED
    BY <2>1 DEF Runs, b
<1> QED
  BY <1>3, <1>7, <1>8, <1>10 DEF b, N, M

LEMMA ExecutesOrder ==
  ASSUME CacheAssumption, TypeOK, InputInv, OrderInv, SameTable, SameHeader, SameArrays,
         Executes
  PROVE  OrderInv'
<1> DEFINE n == in.next
           b == in.batches[n]
           N == Len(in.executed)
           M == Len(b.packets)
<1>1. /\ pc = "execute" /\ pc' = "execute" /\ in'.next = n + 1 /\ in'.dropped = in.dropped
      /\ n \in DOMAIN in.batches /\ n \in Nat
  BY ArrayTypes DEF Executes, GoOn, InputInv, PhaseInv
<1>2. /\ N \in Nat /\ M \in Nat /\ DOMAIN in.executed = 1 .. N
      /\ DOMAIN b.packets = 1 .. M /\ DOMAIN in'.executed = 1 .. (N + M)
      /\ \A x \in 1 .. N : in'.executed[x] = in.executed[x]
      /\ \A x \in (N + 1) .. (N + M) : Runs(x, x - N)
  BY <1>1, RunAppends DEF Executes
<1>3. b.flow \in Flows /\ b.flow # UPCALL
  BY <1>1, ArrayTypes, NoneIsNothing DEF UPCALL
<1> HIDE DEF M, N
<1>4. \A x \in (N + 1) .. (N + M) :
        /\ x - N \in DOMAIN b.packets /\ in'.executed[x].packet = b.packets[x - N]
        /\ in'.executed[x].flow = b.flow
  BY <1>2 DEF Runs
<1>5. \A x \in DOMAIN in'.executed :
        \/ x \in 1 .. N /\ in'.executed[x] = in.executed[x]
        \/ x \in (N + 1) .. (N + M)
  BY <1>2
<1>6. ExecutedPackets' = ExecutedPackets \cup {b.packets[a] : a \in DOMAIN b.packets}
  <2>1. ASSUME NEW p \in ExecutedPackets'
        PROVE  p \in ExecutedPackets \cup {b.packets[a] : a \in DOMAIN b.packets}
    <3>1. PICK x \in DOMAIN in'.executed : p = in'.executed[x].packet
      BY DEF ExecutedPackets
    <3> QED
      BY <1>2, <1>4, <1>5, <3>1 DEF ExecutedPackets
  <2>2. ASSUME NEW p \in ExecutedPackets
        PROVE  p \in ExecutedPackets'
    <3>1. PICK x \in 1 .. N : p = in.executed[x].packet
      BY <1>2 DEF ExecutedPackets
    <3>2. x \in DOMAIN in'.executed
      BY <1>2
    <3> QED
      BY <1>2, <3>1, <3>2 DEF ExecutedPackets
  <2>3. ASSUME NEW a \in DOMAIN b.packets
        PROVE  b.packets[a] \in ExecutedPackets'
    <3>1. a + N \in (N + 1) .. (N + M) /\ (a + N) - N = a /\ a + N \in DOMAIN in'.executed
      BY <1>2
    <3>2. in'.executed[a + N].packet = b.packets[a]
      BY <1>4, <3>1
    <3> QED
      BY <3>1, <3>2 DEF ExecutedPackets
  <2> QED
    BY <2>1, <2>2, <2>3
<1>7. \A x \in 1 .. N : x \in DOMAIN in.executed
  BY <1>2
<1>8. \A a \in DOMAIN b.packets :
        b.packets[a] \notin in.dropped \cup ExecutedPackets /\ b.packets[a] \in Nat
  <2>1. ~(n < n)
    BY <1>1
  <2>2. b.packets \in Seq(Nat)
    BY <1>1, ArrayTypes
  <2> QED
    BY <1>1, <2>1, <2>2, ElementOfSeq DEF OrderInv, ExecutedInv
<1>9. BatchInv' /\ EnqueuedInv'
  <2>1. \A m : Enqueueing(m) /\ Enqueueing(m)'
    BY <1>1 DEF Enqueueing
  <2> QED
    BY <1>1, <2>1, BatchStays, EnqueuedStays DEF OrderInv, SameArrays
<1>10. UpcallInv'
  <2>1. \A m : (NoRule(m)' <=> NoRule(m)) /\ Behind(m) /\ Behind(m)'
               /\ BehindUpcall(m) /\ BehindUpcall(m)'
    BY <1>1 DEF NoRule, SameArrays, Behind, BehindUpcall, UpcallIsOver
  <2>2. ASSUME NEW x \in DOMAIN in'.executed, in'.executed[x].flow = UPCALL
        PROVE  \E m \in DOMAIN in.missed :
                 NoRule(m) /\ in.missed[m].packet = in'.executed[x].packet
    BY <1>3, <1>4, <1>5, <1>7, <2>2 DEF OrderInv, UpcallInv
  <2>3. \A p \in in.dropped :
          \/ p \in DOMAIN in.packets /\ in.packets[p] = Runt
          \/ \E m \in DOMAIN in.missed : NoRule(m) /\ in.missed[m].packet = p
    BY DEF OrderInv, UpcallInv
  <2>4. \A m \in DOMAIN in.missed :
          NoRule(m) => in.missed[m].packet \in in.dropped \cup ExecutedPackets'
    BY <1>6, <2>1 DEF OrderInv, UpcallInv
  <2> HIDE DEF b, n
  <2> QED
    BY <1>1, <2>1, <2>2, <2>3, <2>4 DEF UpcallInv, SameArrays, SameHeader
<1>11. ExecutedInv'
  <2>1. ASSUME NEW x \in DOMAIN in'.executed, in'.executed[x].flow # UPCALL
        PROVE  \E j \in DOMAIN in.batches : \E a \in DOMAIN in.batches[j].packets :
                 /\ j < n + 1 /\ in'.executed[x].flow = in.batches[j].flow
                 /\ in'.executed[x].packet = in.batches[j].packets[a]
    <3>1. CASE x \in 1 .. N /\ in'.executed[x] = in.executed[x]
      <4>1. PICK j \in DOMAIN in.batches : \E a \in DOMAIN in.batches[j].packets :
                 /\ j < n /\ in.executed[x].flow = in.batches[j].flow
                 /\ in.executed[x].packet = in.batches[j].packets[a]
        BY <1>7, <2>1, <3>1 DEF OrderInv, ExecutedInv
      <4>2. j < n + 1
        BY <1>1, <4>1, ArrayTypes
      <4> QED
        BY <3>1, <4>1, <4>2
    <3>2. CASE x \in (N + 1) .. (N + M)
      <4>1. n < n + 1
        BY <1>1
      <4> QED
        BY <1>1, <1>4, <3>2, <4>1
    <3> QED
      BY <1>5, <3>1, <3>2
  <2>2. ASSUME NEW x \in DOMAIN in'.executed, NEW y \in DOMAIN in'.executed, x < y
        PROVE  /\ in'.executed[x].flow = in'.executed[y].flow =>
                    in'.executed[x].packet < in'.executed[y].packet
               /\ in'.executed[y].flow = UPCALL => in'.executed[x].flow = UPCALL
               /\ in'.executed[x].packet # in'.executed[y].packet
    <3>1. CASE x \in 1 .. N /\ y \in 1 .. N
      <4>1. x # y
        BY <1>2, <2>2, <3>1
      <4> QED
        BY <1>2, <1>7, <2>2, <3>1, <4>1 DEF OrderInv, ExecutedInv
    <3>2. CASE x \in 1 .. N /\ y \in (N + 1) .. (N + M)
      <4>1. in'.executed[y].flow # UPCALL /\ in'.executed[y].flow = b.flow
        BY <1>3, <1>4, <3>2
      <4>2. in'.executed[x].flow # b.flow
        <5> SUFFICES ASSUME in.executed[x].flow = b.flow
                     PROVE  FALSE
          BY <1>2, <3>2
        <5>1. PICK j \in DOMAIN in.batches :
                 j < n /\ in.executed[x].flow = in.batches[j].flow
          BY <1>3, <1>7, <3>2 DEF OrderInv, ExecutedInv
        <5>2. j = n
          BY <1>1, <5>1 DEF OrderInv, BatchInv
        <5> QED
          BY <1>1, <5>1, <5>2
      <4>3. in'.executed[x].packet \in ExecutedPackets
        BY <1>2, <1>7, <3>2 DEF ExecutedPackets
      <4>4. in'.executed[y].packet \notin ExecutedPackets
        BY <1>4, <1>8, <3>2
      <4> QED
        BY <4>1, <4>2, <4>3, <4>4
    <3>3. CASE x \in (N + 1) .. (N + M) /\ y \in (N + 1) .. (N + M)
      <4>1. x - N < y - N /\ x - N \in DOMAIN b.packets /\ y - N \in DOMAIN b.packets
        BY <1>2, <1>4, <2>2, <3>3
      <4>2. b.packets[x - N] < b.packets[y - N]
        BY <1>1, <4>1 DEF OrderInv, BatchInv
      <4>3. b.packets[x - N] # b.packets[y - N]
        BY <1>8, <4>1, <4>2
      <4>4. in'.executed[x].packet = b.packets[x - N] /\ in'.executed[y].packet = b.packets[y - N]
            /\ in'.executed[x].flow # UPCALL
        BY <1>3, <1>4, <3>3
      <4>5. in'.executed[y].flow # UPCALL
        BY <1>3, <1>4, <3>3
      <4> QED
        BY <4>2, <4>3, <4>4, <4>5
    <3>4. ~(x \in (N + 1) .. (N + M) /\ y \in 1 .. N)
      BY <1>2, <2>2
    <3> QED
      BY <1>5, <3>1, <3>2, <3>3, <3>4
  <2>3. ASSUME NEW x \in DOMAIN in'.executed, NEW y \in DOMAIN in'.executed,
               in'.executed[x].packet = in'.executed[y].packet
        PROVE  x = y
    <3>1. x < y \/ y < x \/ x = y
      BY <1>2
    <3> QED
      BY <2>2, <2>3, <3>1
  <2>4. \A x \in DOMAIN in'.executed : in'.executed[x].packet \notin in.dropped
    BY <1>4, <1>5, <1>7, <1>8 DEF OrderInv, ExecutedInv
  <2>5. ASSUME NEW j \in DOMAIN in.batches, NEW a \in DOMAIN in.batches[j].packets
        PROVE  /\ in.batches[j].packets[a] \notin in.dropped
               /\ j < n + 1 \/ in.batches[j].packets[a] \notin ExecutedPackets'
    <3>1. in.batches[j].packets[a] \notin in.dropped
      BY DEF OrderInv, ExecutedInv
    <3>2. CASE ~(j < n + 1)
      <4>1. ~(j < n) /\ j # n
        BY <1>1, <3>2, ArrayTypes
      <4>2. in.batches[j].packets[a] \notin ExecutedPackets
        BY <4>1 DEF OrderInv, ExecutedInv
      <4>3. \A c \in DOMAIN b.packets : in.batches[j].packets[a] # b.packets[c]
        BY <1>1, <4>1 DEF OrderInv, BatchInv
      <4> QED
        BY <1>6, <3>1, <4>2, <4>3
    <3> QED
      BY <3>1, <3>2
  <2> HIDE DEF b, n
  <2> QED
    BY <1>1, <2>1, <2>2, <2>3, <2>4, <2>5 DEF ExecutedInv, SameArrays
<1>12. AllInv'
  <2>1. ASSUME NEW p \in DOMAIN in.packets, Somewhere(p)
        PROVE  Somewhere(p)'
    <3>1. CASE p \in in.dropped \cup ExecutedPackets
      BY <1>1, <1>6, <3>1 DEF Somewhere
    <3>2. CASE \E j \in DOMAIN in.batches : \E a \in DOMAIN in.batches[j].packets :
                 in.batches[j].packets[a] = p /\ j >= in.next
      <4>1. PICK j \in DOMAIN in.batches : \E a \in DOMAIN in.batches[j].packets :
                 in.batches[j].packets[a] = p /\ j >= n
        BY <3>2
      <4>2. CASE j = n
        BY <1>6, <4>1, <4>2 DEF Somewhere
      <4>3. CASE j # n
        <5>1. j >= n + 1
          BY <1>1, <4>1, <4>3, ArrayTypes
        <5> QED
          BY <1>1, <4>1, <5>1 DEF Somewhere, SameArrays
      <4> QED
        BY <4>2, <4>3
    <3> QED
      BY <1>1, <2>1, <3>1, <3>2 DEF Somewhere
  <2> QED
    BY <1>1, <2>1 DEF OrderInv, AllInv, SameHeader
<1>13. FreshInv'
  <2>1. ASSUME NEW i, NEW f, Fresh(i, f)
        PROVE  Fresh(i, f)'
    <3> SUFFICES ASSUME f # None, NEW x \in DOMAIN in'.executed,
                        in'.executed[x].flow = UPCALL,
                        mega_of[in.packets[in'.executed[x].packet]] = mega_of[in.packets[i]]
                 PROVE  in'.executed[x].packet < i
      BY <2>1 DEF Fresh, SameTable, SameHeader
    <3>1. x \in 1 .. N /\ in'.executed[x] = in.executed[x]
      BY <1>3, <1>4, <1>5
    <3> QED
      BY <1>7, <2>1, <3>1 DEF Fresh
  <2> HIDE DEF b, n
  <2> QED
    BY <1>1, <2>1 DEF OrderInv, FreshInv, SameArrays, SameHeader, SameTable
<1> QED
  BY <1>9, <1>10, <1>11, <1>12, <1>13 DEF OrderInv
-----------------------------------------------------------------------------
(* The order of packets: the table changes, and a batch comes.             *)

LEMMA RemovedOrder ==
  ASSUME TypeOK, InputInv, OrderInv, flow_del
  PROVE  OrderInv'
<1>1. pc' = pc /\ in' = [in EXCEPT !.removed = pc # "idle"]
  BY DEF flow_del
<1>2. CASE pc = "idle"
  <2>1. in' = NoBatch
    <3>1. in = NoBatch /\ (pc # "idle") = FALSE
      BY <1>2 DEF InputInv, PhaseInv
    <3>2. in' = [NoBatch EXCEPT !.removed = FALSE]
      BY <1>1, <3>1
    <3>3. [NoBatch EXCEPT !.removed = FALSE] = NoBatch
      <4>1. NoBatch \in InputType /\ NoBatch.removed = FALSE
        BY NoBatchType DEF NoBatch
      <4>2. ASSUME NEW r \in InputType, r.removed = FALSE
            PROVE  [r EXCEPT !.removed = FALSE] = r
        BY <4>2 DEF InputType
      <4> QED
        BY <4>1, <4>2
    <3> QED
      BY <3>2, <3>3
  <2> QED
    BY <1>1, <1>2, <2>1, IdleOrder
<1>3. CASE pc # "idle"
  <2>1. /\ SameArrays /\ in'.packets = in.packets /\ in'.next = in.next
        /\ in'.executed = in.executed /\ in'.dropped = in.dropped /\ in'.removed = TRUE
    BY <1>1, <1>3 DEF TypeOK, InputType, SameArrays
  <2>2. BatchInv' /\ EnqueuedInv' /\ UpcallInv' /\ ExecutedInv' /\ AllInv'
    BY <1>1, <2>1 DEF OrderInv, SameArrays, BatchInv, EnqueuedInv, UpcallInv,
       ExecutedInv,
       AllInv, Waiting, Enqueueing, UpcallIsOver, Behind, BehindUpcall, NoRule,
       ExecutedPackets, Somewhere
  <2>3. FreshInv'
    BY <2>1 DEF FreshInv
  <2> QED
    BY <2>2, <2>3 DEF OrderInv
<1> QED
  BY <1>2, <1>3

LEMMA ReceiveOrder ==
  ASSUME CacheAssumption, Receive
  PROVE  OrderInv'
<1>1. PICK packets \in Batches, c \in Settings :
        in' = [NoBatch EXCEPT !.packets = packets, !.caching = c,
                              !.dead = {f \in Flows : flow[f].dead},
                              !.removed = updating.op \in {"del", "dead"}]
  BY DEF Receive
<1>2. /\ in'.missed = <<>> /\ in'.rules = <<>> /\ in'.flow_map = <<>> /\ in'.batches = <<>>
      /\ in'.executed = <<>> /\ in'.dropped = {} /\ in'.next = 1 /\ in'.packets = packets
      /\ in'.removed = (updating.op \in {"del", "dead"})
  BY <1>1 DEF NoBatch
<1>3. /\ DOMAIN in'.missed = {} /\ DOMAIN in'.flow_map = {} /\ DOMAIN in'.batches = {}
      /\ DOMAIN in'.executed = {}
  BY <1>2
<1>4. pc' = "dfc" /\ updating' = updating
  BY DEF Receive, table
<1>5. BatchInv' /\ EnqueuedInv'
  BY <1>3 DEF BatchInv, EnqueuedInv
<1>6. UpcallInv' /\ ExecutedInv'
  BY <1>2, <1>3 DEF UpcallInv, ExecutedInv
<1>7. AllInv'
  <2>1. packets \in Seq(Keys \cup {Runt})
    BY DEF CacheAssumption
  <2>2. \A p \in DOMAIN packets : ~(p < 1)
    BY <2>1
  <2> QED
    BY <1>2, <1>4, <2>2 DEF AllInv
<1>8. FreshInv'
  BY <1>2, <1>3, <1>4 DEF FreshInv
<1> QED
  BY <1>5, <1>6, <1>7, <1>8 DEF OrderInv

LEMMA InstalledOrder ==
  ASSUME CacheAssumption, TypeOK, InputInv, OrderInv, install
  PROVE  OrderInv'
<1>1. PICK f \in Flows : in' = [in EXCEPT !.made = f]
  BY DEF install
<1>2. pc = "install" /\ pc' = "insert" /\ classifier \subseteq classifier' /\ updating' = updating
  BY DEF install
<1>3. /\ SameHeader /\ SameArrays /\ in'.next = in.next
      /\ in'.executed = in.executed /\ in'.dropped = in.dropped
  BY <1>1 DEF TypeOK, InputType, SameHeader, SameArrays
<1>4. Moves
  BY <1>2, <1>3, MovedMoves DEF Moved
<1> QED
  BY <1>2, <1>3, <1>4, MovesKeep DEF FlowsPresent

LEMMA InsertedOrder ==
  ASSUME CacheAssumption, TypeOK, TableInv, InputInv, OrderInv, install_insert
  PROVE  OrderInv'
<1>1. /\ SameHeader /\ SameArrays /\ in'.next = in.next + 1
      /\ in'.executed = in.executed /\ in'.dropped = in.dropped
  BY InsertedKeeps
<1>2. pc = "insert" /\ pc' = "upcall" /\ UNCHANGED <<classifier, updating>>
  BY DEF install_insert
<1>3. Moves
  BY <1>1, <1>2, MovedMoves DEF Moved
<1> QED
  BY <1>1, <1>2, <1>3, MovesKeep DEF FlowsPresent

LEMMA LoopStepOrder ==
  ASSUME CacheAssumption, TypeOK, TableInv, InputInv, OrderInv, LoopStep
  PROVE  OrderInv'
<1>1. SameTable /\ SameHeader /\ SameArrays /\ LoopEffect
  BY LoopStepEffect
<1>2. CASE in'.executed = in.executed /\ in'.dropped = in.dropped /\ Moved
  BY <1>1, <1>2, MovedMoves, MovesKeep DEF SameTable, FlowsPresent
<1>3. CASE LookupDone
  BY <1>1, <1>3, LookupDoneOrder
<1>4. CASE UpcallError
  BY <1>1, <1>4, UpcallErrorOrder
<1>5. CASE Upcalled
  BY <1>1, <1>5, UpcalledOrder
<1>6. CASE Executes
  BY <1>1, <1>6, ExecutesOrder
<1> QED
  BY <1>1, <1>2, <1>3, <1>4, <1>5, <1>6 DEF LoopEffect, Moved

-----------------------------------------------------------------------------
(* The order of packets: the loops find flows.                             *)

LEMMA LookedOrder ==
  ASSUME CacheAssumption, TypeOK, TableInv, InputInv, OrderInv, dpcls_lookup
  PROVE  OrderInv'
<1>1. PICK f \in Flows \cup {None} : Looked(f) /\ SameTable /\ SameHeader
  BY LookedStep
<1> DEFINE n == in.next
<1>2. /\ pc = "lookup" /\ pc' = "lookup" /\ n \in DOMAIN in.missed /\ in'.next = n + 1
      /\ in'.missed = in.missed /\ in'.flow_map = in.flow_map /\ in'.batches = in.batches
      /\ in'.executed = in.executed /\ in'.dropped = in.dropped /\ in'.packets = in.packets
      /\ in'.rules = Append(in.rules, f)
  BY <1>1 DEF Looked, SameHeader
<1>3. /\ DOMAIN in.executed = {} /\ ExecutedPackets = {}
  BY <1>2, NothingExecuted DEF OrderInv
<1>4. BatchInv'
  BY <1>2, BatchStays DEF OrderInv, Waiting
<1>5. EnqueuedInv'
  <2>1. \A m : ~Enqueueing(m) /\ ~Enqueueing(m)'
    BY <1>2 DEF Enqueueing
  <2> QED
    BY <1>2, <2>1, EnqueuedStays DEF OrderInv
<1>6. UpcallInv'
  <2>1. \A m : ~Behind(m) /\ ~BehindUpcall(m) /\ ~Behind(m)' /\ ~BehindUpcall(m)'
    BY <1>2 DEF Behind, BehindUpcall, UpcallIsOver
  <2> QED
    BY <1>2, <2>1, UpcallStays DEF OrderInv, SameUpcalls
<1>7. ExecutedInv'
  BY <1>2, ExecutedStays DEF OrderInv
<1>8. AllInv'
  BY <1>2, AllStays DEF OrderInv, Waiting
<1>9. FreshInv'
  <2>1. \A i, g : Fresh(i, g) => Fresh(i, g)'
    BY <1>1, <1>2, FreshStays DEF SameTable
  <2>2. ASSUME ~in.removed
        PROVE  Fresh(in.missed[n].packet, f)
    <3>1. f # None => f \in classifier
      BY <1>1 DEF Looked, dp_netdev_pmd_lookup_flow
    <3> QED
      BY <1>3, <3>1 DEF Fresh
  <2>3. /\ \A i \in DOMAIN in'.rules : i = n \/ (i \in DOMAIN in.rules /\ in'.rules[i] = in.rules[i])
        /\ in'.rules[n] = f
    <3>1. in.rules \in Seq(Flows \cup {None}) /\ Len(in.rules) = n - 1 /\ n \in Nat
      BY <1>2, ArrayTypes DEF TypeOK, InputType, InputInv, PhaseInv
    <3>2. /\ DOMAIN in'.rules = 1 .. n /\ in'.rules[n] = f
          /\ \A i \in 1 .. (n - 1) : in'.rules[i] = in.rules[i]
      BY <1>2, <3>1, AppendProperties
    <3> QED
      BY <3>1, <3>2
  <2>4. ASSUME ~in.removed, NEW i \in DOMAIN in'.rules \cap DOMAIN in.missed
        PROVE  Fresh(in.missed[i].packet, in'.rules[i])
    BY <2>2, <2>3, <2>4 DEF OrderInv, FreshInv
  <2> HIDE DEF n
  <2> QED
    BY <1>1, <1>2, <2>1, <2>4 DEF OrderInv, FreshInv, SameHeader, SameTable
<1> QED
  BY <1>4, <1>5, <1>6, <1>7, <1>8, <1>9 DEF OrderInv

LEMMA FoundOrder ==
  ASSUME CacheAssumption, TypeOK, TableInv, InputInv, OrderInv, upcall_found
  PROVE  OrderInv'
<1>1. PICK f \in Flows : Found(f) /\ SameTable /\ SameHeader
  BY FoundStep
<1> DEFINE n == in.next
<1>2. /\ pc = "upcall" /\ pc' = "upcall" /\ n \in DOMAIN in.missed /\ in'.next = n + 1
      /\ in'.missed = in.missed /\ in'.flow_map = in.flow_map /\ in'.batches = in.batches
      /\ in'.executed = in.executed /\ in'.dropped = in.dropped /\ in'.packets = in.packets
      /\ in'.rules = [in.rules EXCEPT ![n] = f] /\ n \in Nat
      /\ in.rules \in Seq(Flows \cup {None}) /\ n \in DOMAIN in.rules
  BY <1>1, ArrayTypes DEF Found, SameHeader, InputInv, PhaseInv, TypeOK, InputType
<1>3. f # None
  BY NoneIsNothing
<1>4. BatchInv'
  BY <1>2, BatchStays DEF OrderInv, Waiting
<1>5. EnqueuedInv'
  <2>1. \A m : ~Enqueueing(m) /\ ~Enqueueing(m)'
    BY <1>2 DEF Enqueueing
  <2> QED
    BY <1>2, <2>1, EnqueuedStays DEF OrderInv
<1>6. UpcallInv'
  <2>1. \A m \in DOMAIN in.missed :
          /\ Behind(m) <=> m < n
          /\ BehindUpcall(m) <=> m < n
          /\ Behind(m)' <=> m < n + 1
          /\ BehindUpcall(m)' <=> m < n + 1
    BY <1>2 DEF Behind, BehindUpcall, UpcallIsOver
  <2>2. \A m \in DOMAIN in.missed : NoRule(m)' <=> NoRule(m) /\ m # n
    BY <1>2, <1>3 DEF NoRule
  <2>3. \A m \in DOMAIN in.missed : m \in Nat
    BY ArrayTypes
  <2>4. SameUpcalls
    BY <1>2, <2>1, <2>2, <2>3 DEF SameUpcalls
  <2> QED
    BY <1>2, <2>4, UpcallStays DEF OrderInv
<1>7. ExecutedInv'
  BY <1>2, ExecutedStays DEF OrderInv
<1>8. AllInv'
  BY <1>2, AllStays DEF OrderInv, Waiting
<1>9. FreshInv'
  <2>1. \A i, g : Fresh(i, g) => Fresh(i, g)'
    BY <1>1, <1>2, FreshStays DEF SameTable
  <2>2. Fresh(in.missed[n].packet, f)
    <3>1. f \in classifier
      BY <1>1 DEF Found, dp_netdev_pmd_lookup_flow
    <3>2. ASSUME NEW x \in DOMAIN in.executed
          PROVE  in.executed[x].packet < in.missed[n].packet
      <4>1. PICK m \in DOMAIN in.missed :
              BehindUpcall(m) /\ in.missed[m].packet = in.executed[x].packet
        BY <1>2, NotYetExecuted DEF OrderInv
      <4>2. m < n
        BY <1>2, <4>1 DEF BehindUpcall, Behind, UpcallIsOver
      <4> QED
        BY <1>2, <4>1, <4>2 DEF InputInv, MissedInv
    <3> QED
      BY <3>1, <3>2 DEF Fresh
  <2>3. \A i \in DOMAIN in'.rules :
          i \in DOMAIN in.rules /\ in'.rules[i] = IF i = n THEN f ELSE in.rules[i]
    BY <1>2
  <2>4. ASSUME ~in.removed, NEW i \in DOMAIN in'.rules \cap DOMAIN in.missed
        PROVE  Fresh(in.missed[i].packet, in'.rules[i])
    BY <2>2, <2>3, <2>4 DEF OrderInv, FreshInv
  <2> HIDE DEF n
  <2> QED
    BY <1>1, <1>2, <2>1, <2>4 DEF OrderInv, FreshInv, SameHeader, SameTable
<1> QED
  BY <1>4, <1>5, <1>6, <1>7, <1>8, <1>9 DEF OrderInv
-----------------------------------------------------------------------------
(* The order of packets: a place of flow_map is filled.                    *)

LEMMA SmcHitOrder ==
  ASSUME CacheAssumption, TypeOK, TableInv, InputInv, OrderInv, smc_hit
  PROVE  OrderInv'
<1>1. PICK f \in Flows : SmcHit(f) /\ SameHeader
  BY SmcHitStep
<1> DEFINE n == in.next
           x == in.missed[n].recv_idx
<1>2. /\ pc = "smc" /\ pc' = "smc" /\ n \in DOMAIN in.missed /\ in'.next = n
      /\ in'.rules = in.rules /\ in'.batches = in.batches /\ in'.executed = in.executed
      /\ in'.dropped = in.dropped /\ in'.packets = in.packets
      /\ UNCHANGED <<classifier, updating>>
      /\ SetMap(x, f) /\ Removed(n)
      /\ flow[f].mega = mega_of[in.packets[in.missed[n].packet]] /\ ~flow[f].dead
  BY <1>1 DEF SmcHit, SameHeader
<1>3. in.rules = <<>> /\ DOMAIN in.rules = {}
  <2>1. in.rules = <<>>
    BY <1>2 DEF InputInv, PhaseInv
  <2> QED
    BY <2>1
<1>4. SameBatch
  BY <1>1, SmcHitKeeps DEF SameBatch, SameHeader
<1>5. x \in DOMAIN in.flow_map /\ in.flow_map[x].packet = in.missed[n].packet
  BY <1>2 DEF InputInv, MissedInv
<1>6. Right(flow, in, in.flow_map[x].packet, f) /\ f # None
  BY <1>2, <1>5, NoneIsNothing DEF Right, InputInv, DeadInv
<1>7. /\ DOMAIN in'.flow_map = DOMAIN in.flow_map
      /\ \A y \in DOMAIN in.flow_map :
           /\ in'.flow_map[y].packet = in.flow_map[y].packet
           /\ in'.flow_map[y].flow = IF y = x THEN f ELSE in.flow_map[y].flow
  BY <1>2, <1>4, <1>5, <1>6, MapSet
<1>8. /\ DOMAIN in'.missed = 1 .. (Len(in.missed) - 1)
      /\ \A i \in DOMAIN in'.missed :
           /\ (IF i < n THEN i ELSE i + 1) \in DOMAIN in.missed
           /\ (IF i < n THEN i ELSE i + 1) # n
           /\ in'.missed[i] = in.missed[IF i < n THEN i ELSE i + 1]
  BY <1>2, MissRemoved
<1>9. /\ DOMAIN in.executed = {} /\ ExecutedPackets = {}
      /\ \A p \in in.dropped : p \in DOMAIN in.packets /\ in.packets[p] = Runt
  BY <1>2, NothingExecuted DEF OrderInv
<1>10. BatchInv'
  BY <1>2, <1>7, BatchStays DEF OrderInv, Waiting
<1>11. EnqueuedInv'
  <2>1. \A m : ~Enqueueing(m) /\ ~Enqueueing(m)'
    BY <1>2 DEF Enqueueing
  <2>2. ASSUME NEW m \in DOMAIN in.missed, m # n
        PROVE  /\ in.missed[m].recv_idx \in DOMAIN in.flow_map
               /\ in'.flow_map[in.missed[m].recv_idx].flow = None
    <3>1. in.missed[m].recv_idx # x
      BY <1>2, <2>2, MissesDiffer
    <3>2. in.missed[m].recv_idx \in DOMAIN in.flow_map
      BY DEF InputInv, MissedInv
    <3> QED
      BY <1>7, <2>1, <3>1, <3>2 DEF OrderInv, EnqueuedInv
  <2>3. ASSUME NEW m \in DOMAIN in'.missed
        PROVE  in'.flow_map[in'.missed[m].recv_idx].flow = None
    BY <1>8, <2>2
  <2>4. ASSUME NEW i \in DOMAIN in.flow_map, in'.flow_map[i].flow = None
        PROVE  \E m \in DOMAIN in'.missed : in'.missed[m].recv_idx = i
    <3>1. i # x /\ in.flow_map[i].flow = None
      BY <1>6, <1>7, <2>4
    <3>2. PICK m \in DOMAIN in.missed : in.missed[m].recv_idx = i
      BY <3>1 DEF OrderInv, EnqueuedInv
    <3>3. m # n
      BY <3>1, <3>2
    <3>4. /\ m \in 1 .. Len(in.missed) /\ n \in 1 .. Len(in.missed) /\ Len(in.missed) \in Nat
      BY <1>2, ArrayTypes
    <3>5. CASE m < n
      <4>1. m \in DOMAIN in'.missed
        BY <1>8, <3>4, <3>5
      <4> QED
        BY <1>8, <3>2, <3>5, <4>1
    <3>6. CASE n < m
      <4>1. m - 1 \in DOMAIN in'.missed /\ ~(m - 1 < n) /\ (m - 1) + 1 = m
        BY <1>8, <3>4, <3>6
      <4> QED
        BY <1>8, <3>2, <4>1
    <3> QED
      BY <3>3, <3>4, <3>5, <3>6
  <2> QED
    BY <1>7, <2>1, <2>3, <2>4 DEF EnqueuedInv
<1>12. UpcallInv'
  <2>1. \A m : ~Behind(m)' /\ ~BehindUpcall(m)'
    BY <1>2 DEF Behind, BehindUpcall, UpcallIsOver
  <2> QED
    BY <1>2, <1>9, <2>1 DEF UpcallInv
<1>13. ExecutedInv'
  BY <1>2, ExecutedStays DEF OrderInv
<1>14. AllInv'
  BY <1>2, <1>7, AllStays DEF OrderInv, Waiting
<1>15. FreshInv'
  <2>1. \A i, g : Fresh(i, g) => Fresh(i, g)'
    BY <1>2, FreshStays
  <2>2. ASSUME ~in.removed
        PROVE  Fresh(in.flow_map[x].packet, f)
    <3>1. flow[f].mega \in Megas
      BY <1>2, MissedArePackets DEF IsPacket, CacheAssumption
    <3>2. f \in classifier
      BY <1>2, <2>2, <3>1, AliveIsPresent DEF OrderInv
    <3> QED
      BY <1>9, <3>2 DEF Fresh
  <2>3. ASSUME ~in.removed, NEW i \in DOMAIN in.flow_map
        PROVE  Fresh(in.flow_map[i].packet, in'.flow_map[i].flow)
    BY <1>7, <2>2, <2>3 DEF OrderInv, FreshInv
  <2> HIDE DEF n, x
  <2> QED
    BY <1>1, <1>2, <1>3, <1>7, <2>1, <2>3 DEF OrderInv, FreshInv, SameHeader
<1> QED
  BY <1>10, <1>11, <1>12, <1>13, <1>14, <1>15 DEF OrderInv

LEMMA EnqueueOrder ==
  ASSUME CacheAssumption, TypeOK, TableInv, InputInv, OrderInv, enqueue,
         in.rules[in.next] # None
  PROVE  OrderInv'
<1>1. PICK f \in Flows :
        Enqueues(f) /\ SameHeader /\ UNCHANGED <<classifier, flow_table, updating>>
  BY EnqueueStep
<1> DEFINE n == in.next
           x == in.missed[n].recv_idx
<1>2. /\ pc = "enqueue" /\ pc' = "enqueue" /\ n \in DOMAIN in.missed /\ in'.next = n + 1
      /\ in'.missed = in.missed /\ in'.rules = in.rules /\ in'.batches = in.batches
      /\ in'.executed = in.executed /\ in'.dropped = in.dropped /\ in'.packets = in.packets
      /\ UNCHANGED <<classifier, updating>> /\ in'.removed = in.removed
      /\ SetMap(x, f) /\ f = in.rules[n]
  BY <1>1 DEF Enqueues, SameHeader
<1>3. n \in Nat /\ n \in DOMAIN in.rules
  BY <1>2, ArrayTypes DEF InputInv, PhaseInv
<1>4. SameBatch
  BY <1>1, EnqueueKeeps DEF SameBatch, SameHeader
<1>5. x \in DOMAIN in.flow_map /\ in.flow_map[x].packet = in.missed[n].packet
  BY <1>2 DEF InputInv, MissedInv
<1>6. Right(flow, in, in.flow_map[x].packet, f) /\ f # None
  BY <1>2, <1>3, <1>5, NoneIsNothing DEF InputInv, RightRules
<1>7. /\ DOMAIN in'.flow_map = DOMAIN in.flow_map
      /\ \A y \in DOMAIN in.flow_map :
           /\ in'.flow_map[y].packet = in.flow_map[y].packet
           /\ in'.flow_map[y].flow = IF y = x THEN f ELSE in.flow_map[y].flow
  BY <1>2, <1>4, <1>5, <1>6, MapSet
<1>8. BatchInv'
  BY <1>2, <1>7, BatchStays DEF OrderInv, Waiting
<1>9. EnqueuedInv'
  <2>1. ASSUME NEW m \in DOMAIN in.missed
        PROVE  in'.flow_map[in.missed[m].recv_idx].flow
                 = IF Enqueueing(m)' THEN in.rules[m] ELSE None
    <3>1. in.missed[m].recv_idx \in DOMAIN in.flow_map
      BY DEF InputInv, MissedInv
    <3>2. m \in Nat
      BY ArrayTypes
    <3>3. CASE m = n
      <4>1. Enqueueing(m)'
        BY <1>2, <1>3, <3>3 DEF Enqueueing
      <4> QED
        BY <1>2, <1>5, <1>7, <3>3, <4>1
    <3>4. CASE m # n
      <4>1. in.missed[m].recv_idx # x
        BY <1>2, <3>4, MissesDiffer
      <4>2. Enqueueing(m)' <=> Enqueueing(m)
        BY <1>2, <1>3, <3>2, <3>4 DEF Enqueueing
      <4> QED
        BY <1>7, <3>1, <4>1, <4>2 DEF OrderInv, EnqueuedInv
    <3> QED
      BY <3>3, <3>4
  <2>2. ASSUME NEW i \in DOMAIN in.flow_map, in'.flow_map[i].flow = None
        PROVE  \E m \in DOMAIN in.missed : in.missed[m].recv_idx = i
    <3>1. in.flow_map[i].flow = None
      BY <1>6, <1>7, <2>2
    <3> QED
      BY <3>1 DEF OrderInv, EnqueuedInv
  <2> HIDE DEF n, x
  <2> QED
    BY <1>2, <1>7, <2>1, <2>2 DEF EnqueuedInv
<1>10. UpcallInv'
  <2>1. SameUpcalls
    BY <1>2 DEF SameUpcalls, NoRule, Behind, BehindUpcall, UpcallIsOver
  <2> QED
    BY <1>2, <2>1, UpcallStays DEF OrderInv
<1>11. ExecutedInv'
  BY <1>2, ExecutedStays DEF OrderInv
<1>12. AllInv'
  BY <1>2, <1>7, AllStays DEF OrderInv, Waiting
<1>13. FreshInv'
  <2>1. \A i, g : Fresh(i, g) => Fresh(i, g)'
    BY <1>2, FreshStays
  <2>2. ASSUME ~in.removed
        PROVE  Fresh(in.flow_map[x].packet, f)
    BY <1>2, <1>3, <1>5, <2>2 DEF OrderInv, FreshInv
  <2>3. ASSUME ~in.removed, NEW i \in DOMAIN in.flow_map
        PROVE  Fresh(in.flow_map[i].packet, in'.flow_map[i].flow)
    BY <1>7, <2>2, <2>3 DEF OrderInv, FreshInv
  <2> HIDE DEF n, x
  <2> QED
    BY <1>1, <1>2, <1>7, <2>1, <2>3 DEF OrderInv, FreshInv
<1> QED
  BY <1>8, <1>9, <1>10, <1>11, <1>12, <1>13 DEF OrderInv
-----------------------------------------------------------------------------
(* The order of packets: a packet joins a batch.                           *)

(* What was batched stays where it is, and the packet comes last.          *)
IsKept(batches, q) ==
  \A j \in DOMAIN batches :
    /\ j \in DOMAIN q /\ q[j].flow = batches[j].flow
    /\ \A a \in DOMAIN batches[j].packets :
         a \in DOMAIN q[j].packets /\ q[j].packets[a] = batches[j].packets[a]
HasJoined(q, i) == \E j \in DOMAIN q : \E a \in DOMAIN q[j].packets : q[j].packets[a] = i

LEMMA QueueShape ==
  ASSUME NEW batches \in Seq(BatchType), NEW i \in Nat, NEW f \in Flows, NEW q,
         IsQueued(batches, i, f, q)
  PROVE  IsKept(batches, q) /\ HasJoined(q, i)
<1>1. /\ DOMAIN batches = 1 .. Len(batches) /\ Len(batches) \in Nat
      /\ \A j \in DOMAIN batches : batches[j].packets \in Seq(Nat)
  <2>1. \A j \in DOMAIN batches : batches[j] \in BatchType
    BY ElementOfSeq
  <2> QED
    BY <2>1 DEF BatchType
<1>2. \A j \in DOMAIN batches :
        LET s == batches[j].packets
            t == Append(s, i)
        IN  /\ \A a \in DOMAIN s : a \in DOMAIN t /\ t[a] = s[a]
            /\ Len(s) + 1 \in DOMAIN t /\ t[Len(s) + 1] = i
  <2> TAKE j \in DOMAIN batches
  <2> DEFINE s == batches[j].packets
  <2>1. s \in Seq(Nat)
    BY <1>1
  <2> HIDE DEF s
  <2>2. /\ DOMAIN Append(s, i) = 1 .. (Len(s) + 1) /\ DOMAIN s = 1 .. Len(s)
        /\ Len(s) \in Nat /\ Append(s, i)[Len(s) + 1] = i
        /\ \A a \in 1 .. Len(s) : Append(s, i)[a] = s[a]
    BY <2>1, AppendProperties
  <2>3. \A a \in DOMAIN s : a \in DOMAIN Append(s, i) /\ Append(s, i)[a] = s[a]
    BY <2>2
  <2>4. Len(s) + 1 \in DOMAIN Append(s, i)
    BY <2>2
  <2> QED
    BY <2>2, <2>3, <2>4 DEF s
<1>3. CASE /\ DOMAIN q = DOMAIN batches
           /\ \E j \in DOMAIN batches : batches[j].flow = f
           /\ \A j \in DOMAIN q :
                /\ q[j].flow = batches[j].flow
                /\ q[j].packets = IF batches[j].flow = f
                                  THEN Append(batches[j].packets, i)
                                  ELSE batches[j].packets
  <2>1. IsKept(batches, q)
    BY <1>2, <1>3 DEF IsKept
  <2>2. HasJoined(q, i)
    <3>1. PICK j \in DOMAIN batches : batches[j].flow = f
      BY <1>3
    <3>2. j \in DOMAIN q /\ q[j].packets = Append(batches[j].packets, i)
      BY <1>3, <3>1
    <3> QED
      BY <1>2, <3>1, <3>2 DEF HasJoined
  <2> QED
    BY <2>1, <2>2
<1>4. CASE /\ DOMAIN q = 1 .. (Len(batches) + 1)
           /\ \A j \in DOMAIN batches : q[j] = batches[j]
           /\ q[Len(batches) + 1].packets = <<i>>
  <2>1. IsKept(batches, q)
    BY <1>1, <1>4 DEF IsKept
  <2>2. HasJoined(q, i)
    <3>1. Len(batches) + 1 \in DOMAIN q
      BY <1>1, <1>4
    <3>2. 1 \in DOMAIN <<i>> /\ <<i>>[1] = i
      OBVIOUS
    <3> QED
      BY <1>4, <3>1, <3>2 DEF HasJoined
  <2> QED
    BY <2>1, <2>2
<1> QED
  BY <1>3, <1>4 DEF IsQueued

LEMMA QueuedFlows ==
  ASSUME NEW batches \in Seq(BatchType), NEW i \in Nat, NEW f \in Flows, NEW q,
         IsQueued(batches, i, f, q),
         \A j, l \in DOMAIN batches : batches[j].flow = batches[l].flow => j = l
  PROVE  \A j, l \in DOMAIN q : q[j].flow = q[l].flow => j = l
<1>1. DOMAIN batches = 1 .. Len(batches) /\ Len(batches) \in Nat
  OBVIOUS
<1>2. CASE DOMAIN q = DOMAIN batches /\ \A j \in DOMAIN q : q[j].flow = batches[j].flow
  BY <1>2
<1>3. CASE /\ DOMAIN q = 1 .. (Len(batches) + 1)
           /\ \A j \in DOMAIN batches : batches[j].flow # f
           /\ \A j \in DOMAIN batches : q[j] = batches[j]
           /\ q[Len(batches) + 1].flow = f
  <2>1. \A j \in DOMAIN q : j \in DOMAIN batches \/ j = Len(batches) + 1
    BY <1>1, <1>3
  <2> QED
    BY <1>3, <2>1
<1> QED
  BY <1>2, <1>3 DEF IsQueued

(* The packet came after those that are batched, and before those that     *)
(* wait.                                                                   *)
LEMMA JoinsBatch ==
  ASSUME TypeOK, BatchInv, NEW i \in Nat, NEW f \in Flows, pc' # "execute",
         in'.batches = dp_netdev_queue_batches(in.batches, i, f),
         \A j \in DOMAIN in.batches : \A a \in DOMAIN in.batches[j].packets :
           /\ in.batches[j].packets[a] < i
           /\ \A y \in Waiting' : in.batches[j].packets[a] < in'.flow_map[y].packet,
         \A y \in Waiting' : i < in'.flow_map[y].packet
  PROVE  /\ BatchInv' /\ IsKept(in.batches, in'.batches) /\ HasJoined(in'.batches, i)
         /\ \A j \in DOMAIN in'.batches : \A a \in DOMAIN in'.batches[j].packets :
              IsNew(in'.batches, i, f, j, a) \/ IsOld(in'.batches, in.batches, j, a)
<1> DEFINE q == in'.batches
<1>1. in.batches \in Seq(BatchType)
  BY DEF TypeOK, InputType
<1>2. IsQueued(in.batches, i, f, q)
  BY <1>1, QueueBatches
<1> HIDE DEF q
<1>3. IsKept(in.batches, q) /\ HasJoined(q, i)
  BY <1>1, <1>2, QueueShape
<1>4. \A j \in DOMAIN q : \A a \in DOMAIN q[j].packets :
        IsNew(q, i, f, j, a) \/ IsOld(q, in.batches, j, a)
  BY <1>1, <1>2, QueuePackets
<1>5. \A j, l \in DOMAIN q : q[j].flow = q[l].flow => j = l
  <2>1. \A j, l \in DOMAIN in.batches : in.batches[j].flow = in.batches[l].flow => j = l
    BY DEF BatchInv
  <2> QED
    BY <1>1, <1>2, <2>1, QueuedFlows
<1>6. ASSUME NEW j \in DOMAIN q, NEW a \in DOMAIN q[j].packets
      PROVE  a \in Nat /\ q[j].packets[a] \in Nat
  <2>1. q \in Seq(BatchType)
    BY <1>2 DEF IsQueued
  <2>2. q[j].packets \in Seq(Nat)
    <3>1. q[j] \in BatchType
      BY <2>1, ElementOfSeq
    <3> QED
      BY <3>1 DEF BatchType
  <2> QED
    BY <2>2, ElementOfSeq
<1>7. ASSUME NEW j \in DOMAIN q, NEW a \in DOMAIN q[j].packets,
             NEW b \in DOMAIN q[j].packets, a < b
      PROVE  q[j].packets[a] < q[j].packets[b]
  <2>1. a \in Nat /\ b \in Nat
    BY <1>6
  <2>2. ~IsNew(q, i, f, j, a)
    BY <1>7, <2>1 DEF IsNew
  <2>3. IsOld(q, in.batches, j, a)
    BY <1>4, <2>2
  <2>4. CASE IsNew(q, i, f, j, b)
    BY <2>3, <2>4 DEF IsNew, IsOld
  <2>5. CASE IsOld(q, in.batches, j, b)
    BY <1>7, <2>3, <2>5 DEF IsOld, BatchInv
  <2> QED
    BY <1>4, <2>4, <2>5
<1>8. ASSUME NEW j \in DOMAIN q, NEW l \in DOMAIN q, NEW a \in DOMAIN q[j].packets,
             NEW b \in DOMAIN q[l].packets, q[j].packets[a] = q[l].packets[b]
      PROVE  j = l
  <2>1. CASE IsNew(q, i, f, j, a) /\ IsNew(q, i, f, l, b)
    BY <1>5, <2>1 DEF IsNew
  <2>2. CASE IsOld(q, in.batches, j, a) /\ IsOld(q, in.batches, l, b)
    BY <1>8, <2>2 DEF IsOld, BatchInv
  <2>3. \A y \in Nat : ~(y < y)
    OBVIOUS
  <2>4. CASE IsNew(q, i, f, j, a) /\ IsOld(q, in.batches, l, b)
    <3>1. q[l].packets[b] < i /\ q[j].packets[a] = i
      BY <2>4 DEF IsNew, IsOld
    <3> QED
      BY <1>8, <2>3, <3>1
  <2>5. CASE IsOld(q, in.batches, j, a) /\ IsNew(q, i, f, l, b)
    <3>1. q[j].packets[a] < i /\ q[l].packets[b] = i
      BY <2>5 DEF IsNew, IsOld
    <3> QED
      BY <1>8, <2>3, <3>1
  <2> QED
    BY <1>4, <2>1, <2>2, <2>4, <2>5
<1>9. ASSUME NEW j \in DOMAIN q, NEW a \in DOMAIN q[j].packets, NEW y \in Waiting'
      PROVE  q[j].packets[a] < in'.flow_map[y].packet
  BY <1>4 DEF IsNew, IsOld
<1>10. BatchInv'
  BY <1>5, <1>7, <1>8, <1>9 DEF BatchInv, q
<1> QED
  BY <1>3, <1>4, <1>10 DEF q

(* What the other parts of the invariant need to know of it.               *)
Joins(i, f) ==
  /\ IsKept(in.batches, in'.batches) /\ HasJoined(in'.batches, i)
  /\ \A j \in DOMAIN in'.batches : \A a \in DOMAIN in'.batches[j].packets :
       IsNew(in'.batches, i, f, j, a) \/ IsOld(in'.batches, in.batches, j, a)
  /\ in'.executed = in.executed /\ in'.dropped = in.dropped /\ in'.packets = in.packets
  /\ pc \notin {"idle", "execute"} /\ pc' # "execute"

LEMMA JoinsExecuted ==
  ASSUME UpcallInv, ExecutedInv, NEW i, NEW f, Joins(i, f),
         i \notin in.dropped \cup ExecutedPackets
  PROVE  ExecutedInv'
<1>1. \A x \in DOMAIN in.executed : in.executed[x].flow = UPCALL
  BY NotYetExecuted DEF Joins
<1>2. ExecutedPackets' = ExecutedPackets
  BY DEF ExecutedPackets, Joins
<1>3. \A j \in DOMAIN in.batches : \A a \in DOMAIN in.batches[j].packets :
        in.batches[j].packets[a] \notin in.dropped \cup ExecutedPackets
  BY DEF ExecutedInv, Joins
<1>4. \A j \in DOMAIN in'.batches : \A a \in DOMAIN in'.batches[j].packets :
        in'.batches[j].packets[a] \notin in.dropped \cup ExecutedPackets
  BY <1>3 DEF Joins, IsNew, IsOld
<1> QED
  BY <1>1, <1>2, <1>4 DEF ExecutedInv, Joins

LEMMA JoinsAll ==
  ASSUME AllInv, NEW i, NEW f, Joins(i, f),
         \A p \in DOMAIN in.packets :
           (pc' = "dfc" => p < in'.next) => (pc = "dfc" => p < in.next) \/ p = i,
         \A y \in Waiting :
           \/ y \in Waiting' /\ in'.flow_map[y].packet = in.flow_map[y].packet
           \/ in.flow_map[y].packet = i
  PROVE  AllInv'
<1>1. ExecutedPackets' = ExecutedPackets /\ in'.dropped = in.dropped
      /\ in'.packets = in.packets /\ pc # "idle" /\ pc # "execute" /\ pc' # "execute"
  BY DEF ExecutedPackets, Joins
<1>2. Somewhere(i)'
  BY <1>1 DEF Somewhere, Joins, HasJoined
<1>3. ASSUME NEW p, Somewhere(p)
      PROVE  Somewhere(p)'
  <2>1. CASE p \in in.dropped \cup ExecutedPackets
    BY <1>1, <2>1 DEF Somewhere
  <2>2. CASE \E j \in DOMAIN in.batches : \E a \in DOMAIN in.batches[j].packets :
               in.batches[j].packets[a] = p
    BY <1>1, <2>2 DEF Somewhere, Joins, IsKept
  <2>3. CASE \E y \in Waiting : in.flow_map[y].packet = p
    BY <1>1, <1>2, <2>3 DEF Somewhere
  <2> QED
    BY <1>1, <1>3, <2>1, <2>2, <2>3 DEF Somewhere
<1> QED
  BY <1>1, <1>2, <1>3 DEF AllInv

LEMMA JoinsFresh ==
  ASSUME FreshInv, NEW i, NEW f, Joins(i, f), SameTable,
         in'.removed = in.removed, in'.missed = in.missed, in'.rules = in.rules,
         in'.flow_map = in.flow_map, ~in.removed => Fresh(i, f)
  PROVE  FreshInv'
<1>1. \A y, g : Fresh(y, g) => Fresh(y, g)'
  BY FreshStays DEF Joins, SameTable
<1>2. ASSUME ~in.removed, NEW j \in DOMAIN in'.batches, NEW a \in DOMAIN in'.batches[j].packets
      PROVE  Fresh(in'.batches[j].packets[a], in'.batches[j].flow)
  <2>1. CASE IsNew(in'.batches, i, f, j, a)
    BY <1>2, <2>1 DEF IsNew
  <2>2. CASE IsOld(in'.batches, in.batches, j, a)
    BY <1>2, <2>2 DEF IsOld, FreshInv
  <2> QED
    BY <2>1, <2>2 DEF Joins
<1> QED
  BY <1>1, <1>2 DEF FreshInv, Joins, SameTable

LEMMA QueuedOrder ==
  ASSUME CacheAssumption, TypeOK, TableInv, InputInv, OrderInv, queue,
         in.flow_map[in.next].flow # None
  PROVE  OrderInv'
<1>1. PICK i \in Nat, f \in Flows : Queues(i, f) /\ SameTable /\ SameHeader
  BY QueueStep
<1> DEFINE n == in.next
<1>2. /\ pc = "queue" /\ pc' = "queue" /\ n \in DOMAIN in.flow_map /\ in'.next = n + 1
      /\ in.flow_map[n].packet = i /\ in.flow_map[n].flow = f /\ f # None
      /\ in'.batches = dp_netdev_queue_batches(in.batches, i, f)
      /\ in'.missed = in.missed /\ in'.rules = in.rules /\ in'.flow_map = in.flow_map
      /\ in'.executed = in.executed /\ in'.dropped = in.dropped /\ in'.packets = in.packets
      /\ in'.removed = in.removed
  BY <1>1, NoneIsNothing DEF Queues, SameHeader
<1>3. n \in Nat /\ DOMAIN in.flow_map = 1 .. Len(in.flow_map) /\ Len(in.flow_map) \in Nat
  BY ArrayTypes
<1>4. n \in Waiting /\ \A y \in Waiting : y \in Waiting' \/ y = n
  BY <1>2, <1>3 DEF Waiting
<1>5. \A y \in Waiting' : y \in Waiting /\ n < y /\ y \in DOMAIN in.flow_map
  BY <1>2, <1>3 DEF Waiting
<1>6. \A y \in Waiting' : i < in.flow_map[y].packet
  BY <1>2, <1>5 DEF InputInv, MapInv
<1>7. \A j \in DOMAIN in.batches : \A a \in DOMAIN in.batches[j].packets :
        /\ in.batches[j].packets[a] < i
        /\ \A y \in Waiting' : in.batches[j].packets[a] < in'.flow_map[y].packet
  BY <1>2, <1>4, <1>5 DEF OrderInv, BatchInv
<1>8. BatchInv' /\ Joins(i, f)
  <2>1. \A y \in Waiting' : i < in'.flow_map[y].packet
    BY <1>2, <1>6
  <2>2. pc \notin {"idle", "execute"} /\ pc' # "execute"
    BY <1>2
  <2> HIDE DEF n
  <2> QED
    BY <1>2, <1>7, <2>1, <2>2, JoinsBatch DEF OrderInv, Joins
<1>9. i \notin in.dropped \cup ExecutedPackets
  <2>1. ASSUME NEW m \in DOMAIN in.missed, in.missed[m].packet = i
        PROVE  ~NoRule(m)
    <3>1. /\ in.missed[m].recv_idx \in DOMAIN in.flow_map
          /\ in.flow_map[in.missed[m].recv_idx].packet = i
      BY <2>1 DEF InputInv, MissedInv
    <3>2. in.missed[m].recv_idx = n
      BY <1>2, <3>1, PlacesDiffer
    <3>3. in.rules[m] = f
      BY <1>2, <3>2 DEF OrderInv, EnqueuedInv, Enqueueing
    <3> QED
      BY <1>2, <3>3 DEF NoRule
  <2>2. IsPacket(in, i)
    BY <1>2 DEF InputInv, MapInv
  <2>3. i \notin in.dropped
    BY <2>1, <2>2, NoneIsNothing DEF OrderInv, UpcallInv, IsPacket
  <2>4. i \notin ExecutedPackets
    BY <1>2, <2>1, NotYetExecuted DEF OrderInv, ExecutedPackets
  <2> QED
    BY <2>3, <2>4
<1>10. EnqueuedInv'
  <2>1. \A m : Enqueueing(m) /\ Enqueueing(m)'
    BY <1>2 DEF Enqueueing
  <2> QED
    BY <1>2, <2>1, EnqueuedStays DEF OrderInv
<1>11. UpcallInv'
  <2>1. SameUpcalls
    BY <1>2 DEF SameUpcalls, NoRule, Behind, BehindUpcall, UpcallIsOver
  <2> QED
    BY <1>2, <2>1, UpcallStays DEF OrderInv
<1>12. ExecutedInv'
  BY <1>8, <1>9, JoinsExecuted DEF OrderInv
<1>13. AllInv'
  <2>1. \A y \in Waiting :
           \/ y \in Waiting' /\ in'.flow_map[y].packet = in.flow_map[y].packet
           \/ in.flow_map[y].packet = i
    BY <1>2, <1>4
  <2>2. \A p \in DOMAIN in.packets :
           (pc' = "dfc" => p < in'.next) => (pc = "dfc" => p < in.next) \/ p = i
    BY <1>2
  <2> QED
    BY <1>8, <2>1, <2>2, JoinsAll DEF OrderInv
<1>14. FreshInv'
  <2>1. ~in.removed => Fresh(i, f)
    BY <1>2 DEF OrderInv, FreshInv
  <2> QED
    BY <1>1, <1>2, <1>8, <2>1, JoinsFresh DEF OrderInv
<1> QED
  BY <1>8, <1>10, <1>11, <1>12, <1>13, <1>14 DEF OrderInv
-----------------------------------------------------------------------------
(* The order of packets: dfc_processing.                                   *)

LEMMA DfcFacts ==
  ASSUME CacheAssumption, TypeOK, TableInv, InputInv, OrderInv, dfc_processing
  PROVE  /\ pc = "dfc" /\ pc' = "dfc" /\ SameTable /\ SameHeader /\ DfcEffect
         /\ in.rules = <<>> /\ DOMAIN in.rules = {} /\ in'.rules = in.rules
         /\ in'.executed = in.executed /\ in'.next = in.next + 1
         /\ DOMAIN in.executed = {} /\ ExecutedPackets = {}
         /\ \A p \in in.dropped : p \in DOMAIN in.packets /\ in.packets[p] = Runt
         /\ in.next \in Nat
         /\ \A m : ~Enqueueing(m) /\ ~Enqueueing(m)'
         /\ \A m : /\ ~Behind(m) /\ ~BehindUpcall(m)
                   /\ ~Behind(m)' /\ ~BehindUpcall(m)'
         /\ \A p \in DOMAIN in.packets : p < in.next + 1 => p < in.next \/ p = in.next
         /\ Waiting = DOMAIN in.flow_map /\ Waiting' = DOMAIN in'.flow_map
<1>1. /\ pc = "dfc" /\ pc' = "dfc" /\ SameTable /\ SameHeader /\ DfcEffect
      /\ in'.rules = in.rules /\ in'.executed = in.executed /\ in'.next = in.next + 1
  BY DfcStep DEF DfcEffect
<1>2. in.rules = <<>>
  BY <1>1 DEF InputInv, PhaseInv
<1>3. /\ DOMAIN in.executed = {} /\ ExecutedPackets = {}
      /\ \A p \in in.dropped : p \in DOMAIN in.packets /\ in.packets[p] = Runt
  BY <1>1, NothingExecuted DEF OrderInv
<1>4. \A m : ~Enqueueing(m) /\ ~Enqueueing(m)'
  BY <1>1 DEF Enqueueing
<1>5. \A m : ~Behind(m) /\ ~BehindUpcall(m) /\ ~Behind(m)' /\ ~BehindUpcall(m)'
  BY <1>1 DEF Behind, BehindUpcall, UpcallIsOver
<1>6. Waiting = DOMAIN in.flow_map /\ Waiting' = DOMAIN in'.flow_map
  BY <1>1 DEF Waiting
<1>7. in.next \in Nat /\ \A p \in DOMAIN in.packets : p \in Nat
  BY ArrayTypes
<1>8. \A p \in DOMAIN in.packets : p < in.next + 1 => p < in.next \/ p = in.next
  BY <1>7
<1> QED
  BY <1>1, <1>2, <1>3, <1>4, <1>5, <1>6, <1>7, <1>8

(* A flow from the EMC can be used, if none was removed.                   *)
LEMMA EmcFresh ==
  ASSUME CacheAssumption, TypeOK, TableInv, FreshInv, pc # "idle", DOMAIN in.executed = {},
         NEW k \in Keys, NEW f \in Flows, flow[f].mega = mega_of[k], ~flow[f].dead, NEW i
  PROVE  ~in.removed => Fresh(i, f)
<1>1. flow[f].mega \in Megas
  BY DEF CacheAssumption
<1>2. ~in.removed => f \in classifier
  BY <1>1, AliveIsPresent
<1> QED
  BY <1>2 DEF Fresh

LEMMA RuntOrder ==
  ASSUME CacheAssumption, TypeOK, TableInv, InputInv, OrderInv, dfc_processing, DropRunt
  PROVE  OrderInv'
<1> DEFINE i == in.next
<1>1. /\ in'.dropped = in.dropped \cup {i} /\ in.packets[i] = Runt
      /\ in'.missed = in.missed /\ in'.flow_map = in.flow_map /\ in'.batches = in.batches
      /\ i \in DOMAIN in.packets
  BY DfcFacts DEF DropRunt, DfcEffect
<1>2. /\ pc = "dfc" /\ pc' = "dfc" /\ SameTable /\ SameHeader /\ in'.rules = in.rules
      /\ in'.executed = in.executed /\ in'.next = i + 1
      /\ DOMAIN in.executed = {} /\ ExecutedPackets = {}
      /\ \A p \in in.dropped : p \in DOMAIN in.packets /\ in.packets[p] = Runt
      /\ \A p \in DOMAIN in.packets : p < i + 1 => p < i \/ p = i
      /\ \A m : ~Enqueueing(m) /\ ~Enqueueing(m)'
      /\ \A m : ~Behind(m)' /\ ~BehindUpcall(m)'
      /\ Waiting = DOMAIN in.flow_map /\ Waiting' = DOMAIN in'.flow_map
  BY DfcFacts
<1> HIDE DEF i
<1>3. BatchInv'
  BY <1>1, <1>2, BatchStays DEF OrderInv
<1>4. EnqueuedInv'
  BY <1>1, <1>2, EnqueuedStays DEF OrderInv
<1>5. UpcallInv'
  <2>1. \A p \in in'.dropped : p \in DOMAIN in.packets /\ in.packets[p] = Runt
    BY <1>1, <1>2
  <2> QED
    BY <1>2, <2>1 DEF UpcallInv, SameHeader
<1>6. ExecutedInv'
  <2>1. ExecutedPackets' = {}
    BY <1>2 DEF ExecutedPackets
  <2>2. \A j \in DOMAIN in.batches : \A a \in DOMAIN in.batches[j].packets :
          in.batches[j].packets[a] \notin in'.dropped
    BY <1>1, <1>2, NoneIsNothing DEF InputInv, BatchPackets, IsPacket
  <2> QED
    BY <1>1, <1>2, <2>1, <2>2 DEF ExecutedInv
<1>7. AllInv'
  <2>1. ASSUME NEW p, Somewhere(p)
        PROVE  Somewhere(p)'
    BY <1>1, <1>2, <2>1 DEF Somewhere
  <2>2. ASSUME NEW p, p = i
        PROVE  Somewhere(p)'
    BY <1>1, <2>2 DEF Somewhere
  <2> QED
    BY <1>2, <2>1, <2>2 DEF OrderInv, AllInv, SameHeader, i
<1>8. FreshInv'
  BY <1>1, <1>2, FreshInvStays DEF OrderInv, SameTable, SameArrays, FlowsPresent
<1> QED
  BY <1>3, <1>4, <1>5, <1>6, <1>7, <1>8 DEF OrderInv

(* A packet that waits in flow_map, as a miss or with its flow.            *)
LEMMA WaitsOrder ==
  ASSUME CacheAssumption, TypeOK, TableInv, InputInv, OrderInv, dfc_processing,
         NEW f \in Flows \cup {None},
         in'.flow_map = Append(in.flow_map, [packet |-> in.next, flow |-> f]),
         in'.batches = in.batches, in'.dropped = in.dropped
  PROVE  /\ BatchInv' /\ UpcallInv' /\ ExecutedInv' /\ AllInv'
         /\ DOMAIN in.flow_map = 1 .. Len(in.flow_map) /\ Len(in.flow_map) \in Nat
         /\ DOMAIN in'.flow_map = 1 .. (Len(in.flow_map) + 1)
         /\ \A y \in 1 .. Len(in.flow_map) : in'.flow_map[y] = in.flow_map[y]
         /\ in'.flow_map[Len(in.flow_map) + 1].packet = in.next
         /\ in'.flow_map[Len(in.flow_map) + 1].flow = f
<1> DEFINE i == in.next
           N == Len(in.flow_map)
           e == [packet |-> i, flow |-> f]
<1>1. /\ pc = "dfc" /\ pc' = "dfc" /\ SameHeader
      /\ in'.executed = in.executed /\ in'.next = i + 1 /\ i \in Nat
      /\ DOMAIN in.executed = {} /\ ExecutedPackets = {}
      /\ \A p \in in.dropped : p \in DOMAIN in.packets /\ in.packets[p] = Runt
      /\ \A p \in DOMAIN in.packets : p < i + 1 => p < i \/ p = i
      /\ \A m : ~Behind(m)' /\ ~BehindUpcall(m)'
      /\ Waiting = DOMAIN in.flow_map /\ Waiting' = DOMAIN in'.flow_map
  BY DfcFacts
<1>2. e \in MapType /\ e.packet = i /\ e.flow = f
  BY <1>1 DEF MapType
<1>3. in.flow_map \in Seq(MapType) /\ N \in Nat /\ DOMAIN in.flow_map = 1 .. N
  BY DEF TypeOK, InputType
<1> HIDE DEF e
<1>4. /\ DOMAIN in'.flow_map = 1 .. (N + 1)
      /\ \A y \in 1 .. N : in'.flow_map[y] = in.flow_map[y]
      /\ in'.flow_map[N + 1] = e
  <2>1. in'.flow_map = Append(in.flow_map, e)
    BY DEF e
  <2> QED
    BY <1>2, <1>3, <2>1, AppendProperties
<1> HIDE DEF i, N
<1>5. BatchInv'
  <2>1. \A j \in DOMAIN in.batches : \A a \in DOMAIN in.batches[j].packets :
          in.batches[j].packets[a] < i
    BY <1>1 DEF InputInv, DfcInv, i
  <2>2. ASSUME NEW j \in DOMAIN in.batches, NEW a \in DOMAIN in.batches[j].packets,
               NEW y \in 1 .. (N + 1)
        PROVE  in.batches[j].packets[a] < in'.flow_map[y].packet
    <3>1. CASE y = N + 1
      BY <1>2, <1>4, <2>1, <3>1
    <3>2. CASE y \in 1 .. N
      BY <1>1, <1>3, <1>4, <3>2 DEF OrderInv, BatchInv
    <3> QED
      BY <1>3, <3>1, <3>2
  <2>3. ASSUME NEW j \in DOMAIN in.batches, NEW a \in DOMAIN in.batches[j].packets,
               NEW y \in Waiting'
        PROVE  in.batches[j].packets[a] < in'.flow_map[y].packet
    BY <1>1, <1>4, <2>2
  <2> QED
    BY <2>3 DEF OrderInv, BatchInv
<1>6. UpcallInv'
  BY <1>1 DEF UpcallInv, SameHeader
<1>7. ExecutedInv'
  BY <1>1, ExecutedStays DEF OrderInv
<1>8. AllInv'
  <2>1. \A y \in 1 .. N : y \in 1 .. (N + 1)
    BY <1>3
  <2>2. ExecutedPackets' = ExecutedPackets
    BY <1>1 DEF ExecutedPackets
  <2>3. ASSUME NEW p, Somewhere(p)
        PROVE  Somewhere(p)'
    BY <1>1, <1>3, <1>4, <2>1, <2>2, <2>3 DEF Somewhere
  <2>4. ASSUME NEW p, p = i
        PROVE  Somewhere(p)'
    <3>1. N + 1 \in Waiting' /\ in'.flow_map[N + 1].packet = p
      BY <1>1, <1>2, <1>3, <1>4, <2>4
    <3> QED
      BY <1>1, <3>1 DEF Somewhere
  <2> QED
    BY <1>1, <2>3, <2>4 DEF OrderInv, AllInv, SameHeader, i
<1> QED
  BY <1>2, <1>3, <1>4, <1>5, <1>6, <1>7, <1>8 DEF i, N

LEMMA WaitsFresh ==
  ASSUME TypeOK, FreshInv, pc # "idle", SameTable, SameHeader, DOMAIN in.rules = {},
         in'.rules = in.rules, in'.executed = in.executed, in'.batches = in.batches,
         NEW i, NEW f, ~in.removed => Fresh(i, f), NEW N \in Nat,
         DOMAIN in.flow_map = 1 .. N, DOMAIN in'.flow_map = 1 .. (N + 1),
         \A y \in 1 .. N : in'.flow_map[y] = in.flow_map[y],
         in'.flow_map[N + 1].packet = i, in'.flow_map[N + 1].flow = f
  PROVE  FreshInv'
<1>1. \A y, g : Fresh(y, g) => Fresh(y, g)'
  BY FreshStays DEF SameHeader, SameTable
<1>2. ASSUME ~in.removed, NEW y \in 1 .. (N + 1)
      PROVE  Fresh(in'.flow_map[y].packet, in'.flow_map[y].flow)
  <2>1. CASE y = N + 1
    BY <1>2, <2>1
  <2>2. CASE y \in 1 .. N
    BY <1>2, <2>2 DEF FreshInv
  <2> QED
    BY <2>1, <2>2
<1> QED
  BY <1>1, <1>2 DEF FreshInv, SameHeader, SameTable

LEMMA AppendMissOrder ==
  ASSUME CacheAssumption, TypeOK, TableInv, InputInv, OrderInv, dfc_processing, AppendMiss
  PROVE  OrderInv'
<1> DEFINE i == in.next
           N == Len(in.flow_map)
           M == Len(in.missed)
           e == [packet |-> i, recv_idx |-> N + 1]
<1>1. /\ BatchInv' /\ UpcallInv' /\ ExecutedInv' /\ AllInv'
      /\ DOMAIN in.flow_map = 1 .. N /\ N \in Nat
      /\ DOMAIN in'.flow_map = 1 .. (N + 1)
      /\ \A y \in 1 .. N : in'.flow_map[y] = in.flow_map[y]
      /\ in'.flow_map[N + 1].packet = i /\ in'.flow_map[N + 1].flow = None
  BY WaitsOrder DEF AppendMiss
<1>2. /\ pc = "dfc" /\ pc' = "dfc" /\ SameTable /\ SameHeader /\ in'.rules = in.rules
      /\ in'.executed = in.executed /\ DOMAIN in.rules = {} /\ i \in Nat
      /\ \A m : ~Enqueueing(m) /\ ~Enqueueing(m)'
  BY DfcFacts
<1>3. /\ DOMAIN in.missed = 1 .. M /\ M \in Nat /\ DOMAIN in'.missed = 1 .. (M + 1)
      /\ \A m \in 1 .. M : in'.missed[m] = in.missed[m]
      /\ in'.missed[M + 1].recv_idx = N + 1
  <2>1. in.missed \in Seq(MissedType) /\ e \in MissedType /\ e.recv_idx = N + 1
    BY <1>1, <1>2 DEF TypeOK, InputType, MissedType
  <2>2. in'.missed = Append(in.missed, e)
    BY DEF AppendMiss
  <2> HIDE DEF e
  <2> QED
    BY <2>1, <2>2, AppendProperties
<1>4. EnqueuedInv'
  <2>1. ASSUME NEW m \in 1 .. (M + 1)
        PROVE  in'.flow_map[in'.missed[m].recv_idx].flow = None
    <3>1. CASE m = M + 1
      BY <1>1, <1>3, <3>1
    <3>2. CASE m \in 1 .. M
      <4>1. in.missed[m].recv_idx \in 1 .. N
        BY <1>1, <1>3, <3>2 DEF InputInv, MissedInv
      <4>2. in.flow_map[in.missed[m].recv_idx].flow = None
        BY <1>2, <1>3, <3>2 DEF OrderInv, EnqueuedInv
      <4> QED
        BY <1>1, <1>3, <3>2, <4>1, <4>2
    <3> QED
      BY <1>3, <3>1, <3>2
  <2>2. ASSUME NEW y \in 1 .. (N + 1), in'.flow_map[y].flow = None
        PROVE  \E m \in 1 .. (M + 1) : in'.missed[m].recv_idx = y
    <3>1. CASE y = N + 1
      <4>1. M + 1 \in 1 .. (M + 1)
        BY <1>3
      <4> QED
        BY <1>3, <3>1, <4>1
    <3>2. CASE y \in 1 .. N
      <4>1. PICK m \in 1 .. M : in.missed[m].recv_idx = y
        BY <1>1, <1>3, <2>2, <3>2 DEF OrderInv, EnqueuedInv
      <4>2. m \in 1 .. (M + 1)
        BY <1>3
      <4> QED
        BY <1>3, <4>1, <4>2
    <3> QED
      BY <1>1, <3>1, <3>2
  <2> HIDE DEF N, M
  <2> QED
    BY <1>1, <1>2, <1>3, <2>1, <2>2 DEF EnqueuedInv
<1>5. FreshInv'
  <2>1. Fresh(i, None)
    BY DEF Fresh
  <2>2. in'.batches = in.batches /\ pc # "idle"
    BY <1>2 DEF AppendMiss
  <2> HIDE DEF N, M, e, i
  <2> QED
    BY <1>1, <1>2, <2>1, <2>2, WaitsFresh DEF OrderInv
<1> QED
  BY <1>1, <1>4, <1>5 DEF OrderInv

LEMMA AppendMapOrder ==
  ASSUME CacheAssumption, TypeOK, TableInv, InputInv, OrderInv, dfc_processing,
         in.packets[in.next] \in Keys, NEW f \in Flows,
         flow[f].mega = mega_of[in.packets[in.next]], ~flow[f].dead, AppendMap(f)
  PROVE  OrderInv'
<1> DEFINE i == in.next
           N == Len(in.flow_map)
<1>1. /\ BatchInv' /\ UpcallInv' /\ ExecutedInv' /\ AllInv'
      /\ DOMAIN in.flow_map = 1 .. N /\ N \in Nat
      /\ DOMAIN in'.flow_map = 1 .. (N + 1)
      /\ \A y \in 1 .. N : in'.flow_map[y] = in.flow_map[y]
      /\ in'.flow_map[N + 1].packet = i /\ in'.flow_map[N + 1].flow = f
  BY WaitsOrder DEF AppendMap
<1>2. /\ pc = "dfc" /\ pc' = "dfc" /\ SameTable /\ SameHeader /\ in'.rules = in.rules
      /\ in'.executed = in.executed /\ DOMAIN in.rules = {} /\ i \in Nat
      /\ DOMAIN in.executed = {}
      /\ \A m : ~Enqueueing(m) /\ ~Enqueueing(m)'
  BY DfcFacts
<1>3. in'.missed = in.missed /\ in'.batches = in.batches /\ f # None
  BY NoneIsNothing DEF AppendMap
<1>4. EnqueuedInv'
  <2>1. ASSUME NEW m \in DOMAIN in.missed
        PROVE  in'.flow_map[in.missed[m].recv_idx].flow = None
    <3>1. in.missed[m].recv_idx \in 1 .. N
      BY <1>1 DEF InputInv, MissedInv
    <3> QED
      BY <1>1, <1>2, <3>1 DEF OrderInv, EnqueuedInv
  <2>2. ASSUME NEW y \in 1 .. (N + 1), in'.flow_map[y].flow = None
        PROVE  \E m \in DOMAIN in.missed : in.missed[m].recv_idx = y
    <3>1. y \in 1 .. N
      <4>1. y # N + 1
        BY <1>1, <1>3, <2>2
      <4> QED
        BY <1>1, <4>1
    <3> QED
      BY <1>1, <2>2, <3>1 DEF OrderInv, EnqueuedInv
  <2> HIDE DEF N
  <2> QED
    BY <1>1, <1>2, <1>3, <2>1, <2>2 DEF EnqueuedInv
<1>5. FreshInv'
  <2>1. ~in.removed => Fresh(i, f)
    BY <1>2, EmcFresh DEF OrderInv
  <2>2. pc # "idle"
    BY <1>2
  <2> HIDE DEF N, i
  <2> QED
    BY <1>1, <1>2, <1>3, <2>1, <2>2, WaitsFresh DEF OrderInv
<1> QED
  BY <1>1, <1>4, <1>5 DEF OrderInv

LEMMA AppendBatchOrder ==
  ASSUME CacheAssumption, TypeOK, TableInv, InputInv, OrderInv, dfc_processing,
         in.packets[in.next] \in Keys, NEW f \in Flows,
         flow[f].mega = mega_of[in.packets[in.next]], ~flow[f].dead, AppendBatch(f)
  PROVE  OrderInv'
<1> DEFINE i == in.next
<1>1. /\ pc = "dfc" /\ pc' = "dfc" /\ SameTable /\ SameHeader /\ in'.rules = in.rules
      /\ in'.executed = in.executed /\ in'.next = i + 1 /\ i \in Nat
      /\ DOMAIN in.executed = {} /\ ExecutedPackets = {}
      /\ \A p \in in.dropped : p \in DOMAIN in.packets /\ in.packets[p] = Runt
      /\ \A p \in DOMAIN in.packets : p < i + 1 => p < i \/ p = i
      /\ \A m : ~Enqueueing(m) /\ ~Enqueueing(m)'
      /\ \A m : ~Behind(m)' /\ ~BehindUpcall(m)'
      /\ Waiting = DOMAIN in.flow_map /\ Waiting' = DOMAIN in'.flow_map
  BY DfcFacts
<1>2. /\ in'.batches = dp_netdev_queue_batches(in.batches, i, f) /\ in.missed = <<>>
      /\ in'.missed = in.missed /\ in'.flow_map = in.flow_map /\ in'.dropped = in.dropped
  BY DEF AppendBatch
<1>3. DOMAIN in.flow_map = {} /\ Waiting = {} /\ Waiting' = {}
  <2>1. in.flow_map = <<>>
    BY <1>1, <1>2 DEF InputInv, DfcInv
  <2>2. DOMAIN in.flow_map = {}
    BY <2>1
  <2> QED
    BY <1>1, <1>2, <2>2
<1>4. \A j \in DOMAIN in.batches : \A a \in DOMAIN in.batches[j].packets :
        in.batches[j].packets[a] < i
  BY <1>1 DEF InputInv, DfcInv
<1> HIDE DEF i
<1>5. BatchInv' /\ Joins(i, f)
  <2>1. in'.packets = in.packets /\ pc \notin {"idle", "execute"} /\ pc' # "execute"
    BY <1>1 DEF SameHeader
  <2> QED
    BY <1>1, <1>2, <1>3, <1>4, <2>1, JoinsBatch DEF OrderInv, Joins
<1>6. EnqueuedInv'
  BY <1>1, <1>2, EnqueuedStays DEF OrderInv
<1>7. UpcallInv'
  BY <1>1, <1>2 DEF UpcallInv, SameHeader
<1>8. ExecutedInv'
  <2>1. i \notin in.dropped \cup ExecutedPackets
    BY <1>1, NoneIsNothing DEF i
  <2> QED
    BY <1>5, <2>1, JoinsExecuted DEF OrderInv
<1>9. AllInv'
  <2>1. \A p \in DOMAIN in.packets :
           (pc' = "dfc" => p < in'.next) => (pc = "dfc" => p < in.next) \/ p = i
    BY <1>1 DEF i
  <2> QED
    BY <1>3, <1>5, <2>1, JoinsAll DEF OrderInv
<1>10. FreshInv'
  <2>1. ~in.removed => Fresh(i, f)
    BY <1>1, EmcFresh DEF OrderInv
  <2> QED
    BY <1>1, <1>2, <1>5, <2>1, JoinsFresh DEF OrderInv, SameHeader
<1> QED
  BY <1>5, <1>6, <1>7, <1>8, <1>9, <1>10 DEF OrderInv

LEMMA DfcOrder ==
  ASSUME CacheAssumption, TypeOK, TableInv, InputInv, OrderInv, dfc_processing
  PROVE  OrderInv'
<1>1. DfcEffect
  BY DfcFacts
<1> QED
  BY <1>1, RuntOrder, AppendMissOrder, AppendMapOrder, AppendBatchOrder DEF DfcEffect
-----------------------------------------------------------------------------
(* The order of packets.                                                   *)

LEMMA NextOrder ==
  ASSUME CacheAssumption, CacheInv, OrderInv, [Next]_vars
  PROVE  OrderInv'
<1>1. TypeOK /\ TableInv /\ InputInv
  BY DEF CacheInv
<1>2. CASE Quiesce \/ Return
  <2>1. in' = NoBatch /\ pc' = "idle"
    BY <1>1, <1>2 DEF Quiesce, Return, InputInv, PhaseInv, input
  <2> QED
    BY <2>1, IdleOrder
<1>3. CASE flow_put \/ flow_put_table \/ flow_del_table \/ flow_del_dead \/ emc_cache_slow_sweep
  <2>1. UNCHANGED <<pc, in>>
    BY <1>3 DEF flow_put, flow_put_table, flow_del_table, flow_del_dead,
       emc_cache_slow_sweep, input
  <2>2. FlowsPresent
    BY <1>3 DEF flow_put, flow_put_table, flow_del_table, flow_del_dead,
       emc_cache_slow_sweep, Idle, FlowsPresent
  <2> QED
    BY <2>1, <2>2, TableOrder
<1>4. CASE flow_del
  BY <1>1, <1>4, RemovedOrder
<1>5. CASE Receive
  BY <1>5, ReceiveOrder
<1>6. CASE dfc_processing
  BY <1>1, <1>6, DfcOrder
<1>7. CASE LoopStep
  BY <1>1, <1>7, LoopStepOrder
<1>8. CASE smc_hit
  BY <1>1, <1>8, SmcHitOrder
<1>9. CASE dpcls_lookup
  BY <1>1, <1>9, LookedOrder
<1>10. CASE upcall_found
  BY <1>1, <1>10, FoundOrder
<1>11. CASE install
  BY <1>1, <1>11, InstalledOrder
<1>12. CASE install_insert
  BY <1>1, <1>12, InsertedOrder
<1>13. CASE enqueue /\ in.rules[in.next] # None
  BY <1>1, <1>13, EnqueueOrder
<1>14. CASE queue /\ in.flow_map[in.next].flow # None
  BY <1>1, <1>14, QueuedOrder
<1>15. CASE UNCHANGED vars
  BY <1>15, TableOrder DEF vars, table, input, FlowsPresent
<1> QED
  BY <1>2, <1>3, <1>4, <1>5, <1>6, <1>7, <1>8, <1>9, <1>10, <1>11, <1>12, <1>13,
     <1>14,
     <1>15
  DEF Next, UpdateStep, PmdStep, LoopStep

LEMMA OrderFollows ==
  ASSUME CacheAssumption, CacheInv, OrderInv
  PROVE  NotOvertaken
<1>1. TypeOK /\ TableInv /\ InputInv
  BY DEF CacheInv
<1> SUFFICES ASSUME NEW i \in DOMAIN in.executed, NEW j \in DOMAIN in.executed, i < j,
                    IF in.removed
                    THEN in.executed[i].flow = in.executed[j].flow
                           /\ in.executed[i].flow # UPCALL
                    ELSE mega_of[in.packets[in.executed[i].packet]]
                           = mega_of[in.packets[in.executed[j].packet]]
             PROVE  in.executed[i].packet < in.executed[j].packet
  BY DEF NotOvertaken
<1> DEFINE a == in.executed[i]
           b == in.executed[j]
<1>2. CASE a.flow = b.flow
  BY <1>2 DEF OrderInv, ExecutedInv
<1>3. CASE a.flow # b.flow
  <2>1. /\ ~in.removed /\ b.flow # UPCALL
        /\ mega_of[in.packets[a.packet]] = mega_of[in.packets[b.packet]]
    BY <1>3 DEF OrderInv, ExecutedInv
  <2>2. ASSUME NEW x \in DOMAIN in.executed, in.executed[x].flow # UPCALL
        PROVE  /\ in.executed[x].flow \in classifier
               /\ flow[in.executed[x].flow].mega = mega_of[in.packets[in.executed[x].packet]]
               /\ Fresh(in.executed[x].packet, in.executed[x].flow)
               /\ in.executed[x].flow # None
    <3>1. PICK l \in DOMAIN in.batches : \E c \in DOMAIN in.batches[l].packets :
            /\ in.executed[x].flow = in.batches[l].flow
            /\ in.executed[x].packet = in.batches[l].packets[c]
      BY <2>2 DEF OrderInv, ExecutedInv
    <3>2. PICK c \in DOMAIN in.batches[l].packets :
            /\ in.executed[x].flow = in.batches[l].flow
            /\ in.executed[x].packet = in.batches[l].packets[c]
      BY <3>1
    <3>3. in.batches[l].flow # None
      BY <1>1, ArrayTypes, NoneIsNothing
    <3>4. /\ Right(flow, in, in.batches[l].packets[c], in.batches[l].flow)
          /\ Fresh(in.batches[l].packets[c], in.batches[l].flow)
      BY <1>1, <2>1 DEF InputInv, RightBatches, OrderInv, FreshInv
    <3> QED
      BY <3>2, <3>3, <3>4 DEF Right, Fresh
  <2>3. CASE a.flow = UPCALL
    <3>1. Fresh(b.packet, b.flow) /\ b.flow # None
      BY <2>1, <2>2
    <3> QED
      BY <2>1, <2>3, <3>1 DEF Fresh
  <2>4. CASE a.flow # UPCALL
    <3>1. a.flow \in classifier /\ b.flow \in classifier /\ flow[a.flow].mega = flow[b.flow].mega
      BY <2>1, <2>2, <2>4
    <3>2. a.flow = b.flow
      BY <1>1, <3>1 DEF TableInv, MegaInv
    <3> QED
      BY <1>3, <3>2
  <2> QED
    BY <2>3, <2>4
<1> QED
  BY <1>2, <1>3

LEMMA EachFollows ==
  ASSUME CacheInv, OrderInv
  PROVE  EachOnce
<1>1. TypeOK /\ InputInv
  BY DEF CacheInv
<1>2. {e.packet : e \in ToSet(in.executed)} = ExecutedPackets
  BY DEF ExecutedPackets, ToSet
<1>3. ASSUME Done
      PROVE  DOMAIN in.packets = in.dropped \cup ExecutedPackets
  <2>1. pc = "execute" /\ in.next > Len(in.batches)
    BY <1>3 DEF Done
  <2>2. \A m \in DOMAIN in.missed : in.missed[m].packet \in DOMAIN in.packets
    BY <1>1, MissedArePackets DEF IsPacket
  <2>3. in.dropped \subseteq DOMAIN in.packets
    BY <2>2 DEF OrderInv, UpcallInv
  <2>4. ASSUME NEW x \in DOMAIN in.executed
        PROVE  in.executed[x].packet \in DOMAIN in.packets
    <3>1. CASE in.executed[x].flow = UPCALL
      BY <2>2, <3>1 DEF OrderInv, UpcallInv
    <3>2. CASE in.executed[x].flow # UPCALL
      <4>1. PICK l \in DOMAIN in.batches : \E c \in DOMAIN in.batches[l].packets :
              in.executed[x].packet = in.batches[l].packets[c]
        BY <3>2 DEF OrderInv, ExecutedInv
      <4> QED
        BY <1>1, <4>1 DEF InputInv, BatchPackets, IsPacket
    <3> QED
      BY <3>1, <3>2
  <2>5. ASSUME NEW p \in DOMAIN in.packets
        PROVE  p \in in.dropped \cup ExecutedPackets
    <3>1. Somewhere(p)
      BY <2>1 DEF OrderInv, AllInv
    <3>2. \A j \in DOMAIN in.batches : ~(j >= in.next)
      BY <1>1, <2>1, ArrayTypes
    <3> QED
      BY <2>1, <3>1, <3>2 DEF Somewhere
  <2> QED
    BY <2>3, <2>4, <2>5 DEF ExecutedPackets
<1> QED
  BY <1>2, <1>3 DEF EachOnce, OrderInv, ExecutedInv

LEMMA OrderHolds ==
  ASSUME CacheAssumption
  PROVE  Spec => [](CacheInv /\ OrderInv)
<1>1. Init => OrderInv
  <2>1. ASSUME pc = "idle", in = NoBatch
        PROVE  OrderInv
    <3>1. /\ in.missed = <<>> /\ in.rules = <<>> /\ in.flow_map = <<>> /\ in.batches = <<>>
          /\ in.executed = <<>> /\ in.dropped = {} /\ in.removed = FALSE
      BY <2>1 DEF NoBatch
    <3>2. /\ DOMAIN in.missed = {} /\ DOMAIN in.flow_map = {} /\ DOMAIN in.batches = {}
          /\ DOMAIN in.executed = {}
      BY <3>1
    <3>3. BatchInv /\ EnqueuedInv
      BY <3>2 DEF BatchInv, EnqueuedInv
    <3>4. UpcallInv /\ ExecutedInv
      BY <3>1, <3>2 DEF UpcallInv, ExecutedInv
    <3>5. AllInv /\ FreshInv
      BY <2>1, <3>2 DEF AllInv, FreshInv
    <3> QED
      BY <3>3, <3>4, <3>5 DEF OrderInv
  <2> QED
    BY <2>1 DEF Init
<1>2. CacheInv /\ OrderInv /\ [Next]_vars => OrderInv'
  BY NextOrder
<1> QED
  BY <1>1, <1>2, CachesAreSound, PTL DEF Spec

(* Packets of a flow, and of a mega flow while no flow is removed, are     *)
(* executed in the order they came: batching stops with the first miss,    *)
(* misses keep their places in flow_map, and the upcall does not find a    *)
(* mega flow missing that an earlier packet of the batch has found.  And   *)
(* every packet of a batch is executed or dropped, and only once.          *)
THEOREM PacketsKeepTheirOrder ==
  ASSUME CacheAssumption
  PROVE  Spec => []OrderKept
<1>1. CacheInv /\ OrderInv => OrderKept
  BY OrderFollows, EachFollows DEF OrderKept
<1> QED
  BY <1>1, OrderHolds, PTL

-----------------------------------------------------------------------------
(***************************************************************************)
(* The other parts of MCDatapath: what DatapathProofs shows of each holds of*)
(* the behaviours of MCDatapath that are about it.  Its instance there and *)
(* here are the same definitions, of constants and variables that are.     *)
(***************************************************************************)
Parts == INSTANCE DatapathProofs WITH
  Megas <- OffloadMegas, Flows <- Three, MAX_MARK <- 2, MaxQueue <- 1,
  flow <- s1, flow_table <- s2, removing <- s3, list <- s4, asleep <- s5,
  pc <- s6, item <- s7, held <- s8, pool <- s9, megaflow_to_mark <- s10,
  mark_to_flow <- s11, port_up <- s12, hw <- s13,
  undeleted <- s14,
  Keys <- ClassKeys, Rules <- ClassRules, Masks <- ClassMasks,
  mask_of <- MaskOf, matching <- Matching, Subtables <- Three,
  cls <- s1, mask <- s2, rules <- s3, subtables_map <- s4, subtables <- s5,
  updating <- s6, lookup <- s7, seen <- s8,
  Buckets <- Two, NETDEV_MAX_BURST <- 2, Intervals <- FlushIntervals,
  MaxTime <- 2, MaxOutputs <- 1,
  ctx_now <- s1, tx_flush_interval <- s2, tx_ports <- s3, send_port_cache <- s4,
  n_output_batches <- s5, tx_bond <- s6, tx_pc <- s7, batch <- s8, outputs <- s9,
  bonding <- s10, given <- s11, sent <- s12,
  Configs <- MeterConfigs, Batches <- MeterBatches, SCALE <- 2, DELTA_VALUES <- 3, Meters <- Two,
  MaxBatches <- 3, clock <- s1, pmd_now <- s2, meters <- s3, attached <- s4,
  using <- s5, log <- s6

-----------------------------------------------------------------------------
(* Hardware offload.                                                       *)
LEMMA SameInit == Offload!Init <=> Parts!Init
BY DEF Offload!Init, Parts!Init, Offload!Unused, Parts!Unused, Offload!NoItem,
   Parts!NoItem,
  Offload!INVALID_FLOW_MARK, Parts!INVALID_FLOW_MARK

LEMMA SameNext == [Offload!Next]_(Offload!vars) <=> [Parts!Next]_(Parts!vars)
BY DEF Offload!Append1, Parts!Append1, Offload!dp_netdev_flow_add,
   Parts!dp_netdev_flow_add,
  Offload!flow_modify, Parts!flow_modify, Offload!remove_flow, Parts!remove_flow,
  Offload!remove_flow_dead, Parts!remove_flow_dead, Offload!do_del_port,
  Parts!do_del_port,
  Offload!do_add_port, Parts!do_add_port, Offload!offload_wait, Parts!offload_wait,
  Offload!offload_pop, Parts!offload_pop, Offload!Finish, Parts!Finish,
  Offload!mega, Parts!mega, Offload!modification, Parts!modification,
  Offload!put_dead, Parts!put_dead, Offload!put_alive, Parts!put_alive,
  Offload!Associate, Parts!Associate, Offload!put_found, Parts!put_found,
  Offload!put_no_mark, Parts!put_no_mark, Offload!flow_mark_alloc,
  Parts!flow_mark_alloc,
  Offload!netdev_flow_put, Parts!netdev_flow_put, Offload!put_failed,
  Parts!put_failed,
  Offload!put_associate, Parts!put_associate, Offload!flow_mark_has_no_ref,
  Parts!flow_mark_has_no_ref,
  Offload!del_no_mark, Parts!del_no_mark, Offload!mark_to_flow_disassociate,
  Parts!mark_to_flow_disassociate,
  Offload!netdev_flow_del, Parts!netdev_flow_del, Offload!TableStep, Parts!TableStep,
  Offload!Deletes, Parts!Deletes,
  Offload!OffloadStep, Parts!OffloadStep, Offload!Next, Parts!Next,
  Offload!Ref, Parts!Ref, Offload!Unref, Parts!Unref,
  Offload!Locked, Parts!Locked, Offload!InTable, Parts!InTable,
  Offload!Marks, Parts!Marks, Offload!INVALID_FLOW_MARK, Parts!INVALID_FLOW_MARK,
  Offload!Unused, Parts!Unused, Offload!NoItem, Parts!NoItem,
  Offload!tables, Parts!tables, Offload!thread, Parts!thread,
  Offload!marking, Parts!marking, Offload!card, Parts!card,
  Offload!vars, Parts!vars

LEMMA SameOffload ==
  Parts!OffloadAssumption /\ (Parts!FoundByMark /\ Parts!RefsExact
    => Offload!FoundByMark /\ Offload!RefsExact)
<1>1. Parts!OffloadAssumption
  BY DatapathAssumptions DEF DatapathAssumptions, Offload!OffloadAssumption,
     Parts!OffloadAssumption
<1>2. Parts!FoundByMark => Offload!FoundByMark
  BY DEF Offload!FoundByMark, Parts!FoundByMark, Offload!mark_to_flow_find,
  Parts!mark_to_flow_find, Offload!INVALID_FLOW_MARK, Parts!INVALID_FLOW_MARK
<1>3. Parts!RefsExact => Offload!RefsExact
  BY DEF Offload!RefsExact, Parts!RefsExact, Offload!References, Parts!References,
  Offload!InList, Parts!InList, Offload!Cardinality, Parts!Cardinality,
  Offload!IsFiniteSet, Parts!IsFiniteSet
<1> QED  BY <1>1, <1>2, <1>3

OffloadPartInv == part = "offload" => Parts!Inv /\ Parts!LiveInv

(* In every behaviour of MCDatapath, a flow has as many references as refer*)
(* to it, and a packet that the card has marked finds the flow of its mega *)
(* flow and no other (mark_to_flow_find), unless the card was to delete    *)
(* the rule that marked it.                                                *)
THEOREM OffloadIsSound == MCSpec => []OffloadSound
<1>0. Parts!OffloadAssumption
  BY SameOffload
<1>1. MCInit => OffloadPartInv
  <2>1. SUFFICES ASSUME Parts!Init PROVE Parts!Inv /\ Parts!LiveInv
    BY SameInit DEF MCInit, OffloadPartInv
  <2> QED  BY <1>0, <2>1, Parts!InitInv, Parts!InitLive
<1>2. OffloadPartInv /\ [MCNext]_mcVars => OffloadPartInv'
  <2>1. SUFFICES ASSUME OffloadPartInv, [MCNext]_mcVars, part' = "offload"
                 PROVE  (Parts!Inv /\ Parts!LiveInv)'
    BY DEF OffloadPartInv
  <2>2. Parts!Inv /\ Parts!LiveInv
    BY <2>1 DEF OffloadPartInv, MCNext, mcVars
  <2>3. [Offload!Next]_(Offload!vars)
    BY <2>1 DEF MCNext, mcVars, shared, Offload!vars, Offload!tables, Offload!thread,
      Offload!marking, Offload!card
  <2> QED  BY <1>0, <2>2, <2>3, SameNext, Parts!NextKeeps, Parts!NextKeepsLive
<1>3. OffloadPartInv => OffloadSound
  <2>1. Parts!Inv /\ Parts!LiveInv => Parts!FoundByMark /\ Parts!RefsExact
    BY <1>0, Parts!MarkFinds DEF Parts!Inv
  <2> QED BY <2>1, SameOffload DEF OffloadPartInv, OffloadSound
<1> QED  BY <1>1, <1>2, <1>3, PTL DEF MCSpec

-----------------------------------------------------------------------------
(* The classifier.                                                         *)
LEMMA SameClassInit == Class!Init <=> Parts!Class!Init
BY DEF Class!Init, Parts!Class!Init, Class!Idle, Parts!Class!Idle, Class!NoLookup,
   Parts!Class!NoLookup

LEMMA SameClassNext == [Class!Next]_(Class!vars) <=> [Parts!Class!Next]_(Parts!Class!vars)
BY DEF Class!vars, Parts!Class!vars, Class!update, Parts!Class!update,
  Class!Idle, Parts!Class!Idle, Class!NoLookup, Parts!Class!NoLookup,
  Class!Present, Parts!Class!Present, Class!Answers, Parts!Class!Answers,
  Class!Observe, Parts!Class!Observe, Class!dp_netdev_pmd_find_dpcls,
  Parts!Class!dp_netdev_pmd_find_dpcls,
  Class!dpcls_insert, Parts!Class!dpcls_insert, Class!dpcls_insert_rule,
  Parts!Class!dpcls_insert_rule,
  Class!dpcls_remove, Parts!Class!dpcls_remove, Class!dpcls_destroy_subtable,
  Parts!Class!dpcls_destroy_subtable,
  Class!dpcls_subtable_destroy_cb, Parts!Class!dpcls_subtable_destroy_cb,
  Class!dpcls_sort_subtable_vector, Parts!Class!dpcls_sort_subtable_vector,
  Class!dpcls_lookup, Parts!Class!dpcls_lookup, Class!Searching,
  Parts!Class!Searching,
  Class!lookup_func, Parts!Class!lookup_func, Class!next_subtable,
  Parts!Class!next_subtable,
  Class!LookupReturns, Parts!Class!LookupReturns, Class!RemoveAt,
  Parts!Class!RemoveAt,
  Class!ToSet, Parts!Class!ToSet, Class!Next, Parts!Class!Next

LEMMA SameClass ==
  Parts!Class!ClassifierAssumption /\ (Parts!Class!LookupIsAtomic => Class!LookupIsAtomic)
BY DatapathAssumptions DEF DatapathAssumptions, Class!ClassifierAssumption,
   Parts!Class!ClassifierAssumption, Class!LookupIsAtomic, Parts!Class!LookupIsAtomic,
  Class!Searching, Parts!Class!Searching, Class!NoLookup, Parts!Class!NoLookup

ClassifierPartInv == part = "classifier" => Parts!ClassInv

(* In every behaviour of MCDatapath, what dpcls_lookup answers without the *)
(* lock was right at some time between its call and its return.            *)
THEOREM LookupsAreAtomic == MCSpec => []LookupIsAtomic
<1>0. Parts!Class!ClassifierAssumption /\ Parts!OffloadAssumption
  BY SameClass, SameOffload
<1>1. MCInit => ClassifierPartInv
  <2>1. SUFFICES ASSUME Parts!Class!Init PROVE Parts!ClassInv
    BY SameClassInit DEF MCInit, ClassifierPartInv
  <2> QED  BY <1>0, <2>1, Parts!ClassInit DEF Parts!OffloadAssumption
<1>2. ClassifierPartInv /\ [MCNext]_mcVars => ClassifierPartInv'
  <2>1. SUFFICES ASSUME ClassifierPartInv, [MCNext]_mcVars, part' = "classifier" PROVE Parts!ClassInv'
    BY DEF ClassifierPartInv
  <2>2. Parts!ClassInv
    BY <2>1 DEF ClassifierPartInv, MCNext, mcVars
  <2>3. [Class!Next]_(Class!vars)
    BY <2>1 DEF MCNext, mcVars, shared, Class!vars, Class!update
  <2> QED  BY <1>0, <2>2, <2>3, SameClassNext, Parts!ClassNextKeeps
              DEF Parts!OffloadAssumption
<1>3. ClassifierPartInv => LookupIsAtomic
  BY <1>0, SameClass, Parts!InvGivesAtomic
  DEF Parts!OffloadAssumption, ClassifierPartInv, LookupIsAtomic
<1> QED  BY <1>1, <1>2, <1>3, PTL DEF MCSpec

-----------------------------------------------------------------------------
(* The output batches.                                                     *)
LEMMA SameOutputInit == Output!Init <=> Parts!Output!Init
BY DEF Output!Init, Parts!Output!Init, Output!NoBatch, Parts!Output!NoBatch,
  Output!NewPort, Parts!Output!NewPort

CountOf(n, pkts) ==
  Output!FoldLeft(LAMBDA y, x : IF x.number = y THEN y + 1 ELSE y, n, pkts)
SameCountOf(n, pkts) ==
  Parts!Output!FoldLeft(LAMBDA y, x : IF x.number = y THEN y + 1 ELSE y, n, pkts)
FlushedTo(out, p, now, count) ==
  LET all == count = out.given[p]
  IN  [out EXCEPT
         !.sent[p] = IF all THEN 0 ELSE count, !.given[p] = IF all THEN 0 ELSE @,
         !.n = @ - 1,
         !.cache[p] = [output_pkts |-> <<>>, flush_time |-> now + s2]]

LEMMA SameOnPort ==
  \A out, p, now : Output!dp_netdev_pmd_flush_output_on_port(out, p, now) =
                      Parts!Output!dp_netdev_pmd_flush_output_on_port(out, p, now)
<1> TAKE out, p, now
<1>1. CountOf(out.sent[p], out.cache[p].output_pkts) =
        SameCountOf(out.sent[p], out.cache[p].output_pkts)
  BY DEF CountOf, SameCountOf, Output!MapThenFoldSet, Parts!Output!MapThenFoldSet,
     Output!FoldLeft, Parts!Output!FoldLeft, Output!Max, Parts!Output!Max
<1>2. Output!dp_netdev_pmd_flush_output_on_port(out, p, now) =
       FlushedTo(out, p, now, CountOf(out.sent[p], out.cache[p].output_pkts))
  BY DEF FlushedTo, Output!dp_netdev_pmd_flush_output_on_port, CountOf,
     Output!FoldLeft,
     Output!MapThenFoldSet, Output!Max
<1>3. Parts!Output!dp_netdev_pmd_flush_output_on_port(out, p, now) =
       FlushedTo(out, p, now, SameCountOf(out.sent[p], out.cache[p].output_pkts))
  BY DEF FlushedTo, Parts!Output!dp_netdev_pmd_flush_output_on_port, SameCountOf,
     Parts!Output!FoldLeft, Parts!Output!MapThenFoldSet, Parts!Output!Max
<1> QED  BY <1>1, <1>2, <1>3

LEMMA SameAction ==
  \A out, p, packets : Output!dp_execute_output_action(out, p, packets) =
                          Parts!Output!dp_execute_output_action(out, p, packets)
<1> TAKE out, p, packets
<1> DEFINE q(o) == o.cache[p].output_pkts
           A(o) == Output!dp_netdev_pmd_flush_output_on_port(o, p, s1)
           B(o) == Parts!Output!dp_netdev_pmd_flush_output_on_port(o, p, s1)
           src(o, f) == IF q(o) # <<>> /\ packets.source # Head(q(o)).source THEN f ELSE o
           brst(o, f) == IF Len(q(o)) + packets.n > 2 THEN f ELSE o
           r == src(out, A(out))
           WithPackets(room) == [room EXCEPT
              !.n = IF q(room) = <<>> THEN @ + 1 ELSE @,
              !.cache[p].output_pkts = @ \o [i \in 1 .. packets.n |->
                 [number |-> room.given[p] + i - 1, source |-> packets.source]],
              !.given[p] = @ + packets.n]
<1>1. Output!dp_execute_output_action(out, p, packets) =
        IF out.cache[p] = None THEN out ELSE WithPackets(brst(src(out, A(out)), A(src(out, A(out)))))
  BY DEF Output!dp_execute_output_action
<1>2. Parts!Output!dp_execute_output_action(out, p, packets) =
        IF out.cache[p] = None THEN out ELSE WithPackets(brst(src(out, B(out)), B(src(out, B(out)))))
  BY DEF Parts!Output!dp_execute_output_action
<1>3. \A o : A(o) = B(o)
  BY SameOnPort
<1> HIDE DEF WithPackets, brst, src, A, B
<1> QED  BY <1>1, <1>2, <1>3

LEMMA SameFlush ==
  \A out, force, now : Output!dp_netdev_pmd_flush_output_packets(out, force, now) =
                          Parts!Output!dp_netdev_pmd_flush_output_packets(out, force, now)
<1> TAKE out, force, now
<1> DEFINE A(p, o) == Output!dp_netdev_pmd_flush_output_on_port(o, p, now)
           B(p, o) == Parts!Output!dp_netdev_pmd_flush_output_on_port(o, p, now)
           Fix1(g) == g = [s \in SUBSET Output!Due(out, force, now) |-> IF s = {} THEN out
                      ELSE A(CHOOSE x \in s : TRUE, g[s \ {CHOOSE x \in s : TRUE}])]
           Fix2(g) == g = [s \in SUBSET Output!Due(out, force, now) |-> IF s = {} THEN out
                      ELSE B(CHOOSE x \in s : TRUE, g[s \ {CHOOSE x \in s : TRUE}])]
<1>0. Output!Due(out, force, now) = Parts!Output!Due(out, force, now)
  BY DEF Output!Due, Parts!Output!Due
<1>1. Output!dp_netdev_pmd_flush_output_packets(out, force, now) =
        IF out.n = 0 THEN out ELSE (CHOOSE g : Fix1(g))[Output!Due(out, force, now)]
  <2> HIDE DEF A
  <2> QED
  BY DEF Output!dp_netdev_pmd_flush_output_packets, Output!FoldSet,
     Output!MapThenFoldSet, A
<1>2. Parts!Output!dp_netdev_pmd_flush_output_packets(out, force, now) =
        IF out.n = 0 THEN out ELSE (CHOOSE g : Fix2(g))[Output!Due(out, force, now)]
  BY <1>0 DEF Parts!Output!dp_netdev_pmd_flush_output_packets, Parts!Output!FoldSet,
     Parts!Output!MapThenFoldSet
<1>3. \A p, o : A(p, o) = B(p, o)
  BY SameOnPort
<1> HIDE DEF A, B
<1>4. \A g : Fix1(g) <=> Fix2(g)
  BY <1>3
<1>5. (CHOOSE g : Fix1(g)) = (CHOOSE g : Fix2(g))
  <2> HIDE DEF Fix1, Fix2
  <2> QED BY <1>4
<1> QED  BY <1>1, <1>2, <1>5

LEMMA SameOutputNext == [Output!Next]_(Output!vars) <=> [Parts!Output!Next]_(Parts!Output!vars)
<1>1. /\ Output!main = Parts!Output!main /\ Output!work = Parts!Output!work
      /\ Output!ports = Parts!Output!ports /\ Output!vars = Parts!Output!vars
      /\ Output!vars' = Parts!Output!vars' /\ Output!Out = Parts!Output!Out
  BY DEF Output!main, Parts!Output!main, Output!work, Parts!Output!work,
  Output!ports, Parts!Output!ports, Output!vars, Parts!Output!vars,
  Output!Out, Parts!Output!Out
<1>2. Output!MainStep <=> Parts!Output!MainStep
  BY DEF Output!MainStep, Parts!Output!MainStep, Output!SetFlushInterval,
     Parts!Output!SetFlushInterval,
  Output!ChangePorts, Parts!Output!ChangePorts, Output!dp_netdev_add_bond_tx_to_pmd,
  Parts!Output!dp_netdev_add_bond_tx_to_pmd,
  Output!dp_netdev_del_bond_tx_from_pmd, Parts!Output!dp_netdev_del_bond_tx_from_pmd,
  Output!main, Parts!Output!main,
  Output!work, Parts!Output!work, Output!ports, Parts!Output!ports,
  Output!vars, Parts!Output!vars
<1>3. \A out : Output!Becomes(out) <=> Parts!Output!Becomes(out)
  BY DEF Output!Becomes, Parts!Output!Becomes
<1>4. \A n : Output!Receive(n) <=> Parts!Output!Receive(n)
  BY DEF Output!Receive, Parts!Output!Receive, Output!pmd_thread_ctx_time_update,
     Parts!Output!pmd_thread_ctx_time_update,
  Output!main, Parts!Output!main, Output!ports, Parts!Output!ports
<1>5. \A p : Output!output(p) <=> Parts!Output!output(p)
  BY <1>1, <1>3, SameAction DEF Output!output, Parts!Output!output, Output!Busy,
     Parts!Output!Busy,
  Output!main, Parts!Output!main
<1>6. Output!lb_output <=> Parts!Output!lb_output
  BY DEF Output!lb_output, Parts!Output!lb_output, Output!Busy, Parts!Output!Busy,
  Output!main, Parts!Output!main, Output!ports, Parts!Output!ports
<1>7. Output!lb_output_packet <=> Parts!Output!lb_output_packet
  BY <1>1, <1>3, SameAction DEF Output!lb_output_packet,
     Parts!Output!lb_output_packet, Output!main, Parts!Output!main
<1>8. Output!Done <=> Parts!Output!Done
  BY <1>1, <1>3, SameFlush DEF Output!Done, Parts!Output!Done, Output!NoBatch,
     Parts!Output!NoBatch,
  Output!main, Parts!Output!main
<1>9. Output!NothingReceived <=> Parts!Output!NothingReceived
  BY <1>1, <1>3, SameFlush DEF Output!NothingReceived, Parts!Output!NothingReceived,
     Output!pmd_thread_ctx_time_update, Parts!Output!pmd_thread_ctx_time_update,
  Output!main, Parts!Output!main, Output!work, Parts!Output!work
<1>10. Output!pmd_load_cached_ports <=> Parts!Output!pmd_load_cached_ports
  BY <1>1, <1>3, SameFlush DEF Output!pmd_load_cached_ports,
     Parts!Output!pmd_load_cached_ports, Output!main, Parts!Output!main,
  Output!work, Parts!Output!work, Output!NewPort, Parts!Output!NewPort
<1> QED
  BY <1>1, <1>2, <1>4, <1>5, <1>6, <1>7, <1>8, <1>9, <1>10
  DEF Output!Next, Parts!Output!Next, Output!PmdStep, Parts!Output!PmdStep

LEMMA SameOutput ==
  /\ Parts!Output!BatchAssumption
  /\ Parts!Output!OutputOrder => Output!OutputOrder
  /\ Parts!Output!BatchesCounted => Output!BatchesCounted
  /\ Parts!Output!FlushedInTime => Output!FlushedInTime
<1>1. Parts!Output!BatchAssumption
  BY DatapathAssumptions DEF DatapathAssumptions,
  Output!BatchAssumption, Parts!Output!BatchAssumption, Output!TxPorts,
  Parts!Output!TxPorts,
  Output!IsFiniteSet, Parts!Output!IsFiniteSet
<1>2. Parts!Output!OutputOrder => Output!OutputOrder
  BY DEF Output!OutputOrder, Parts!Output!OutputOrder, Output!Queued,
     Parts!Output!Queued
<1>3. Parts!Output!BatchesCounted => Output!BatchesCounted
  BY DEF Output!BatchesCounted, Parts!Output!BatchesCounted, Output!Queued,
     Parts!Output!Queued,
  Output!Cardinality, Parts!Output!Cardinality, Output!IsFiniteSet,
  Parts!Output!IsFiniteSet
<1>4. Parts!Output!FlushedInTime => Output!FlushedInTime
  BY DEF Output!FlushedInTime, Parts!Output!FlushedInTime, Output!Queued,
     Parts!Output!Queued
<1> QED  BY <1>1, <1>2, <1>3, <1>4

OutputPartInv == part = "output" => Parts!OutputInv

LEMMA BatchHolds == MCSpec => []OutputPartInv
<1>0. Parts!Output!BatchAssumption /\ Parts!OffloadAssumption
  BY SameOutput, SameOffload
<1>1. MCInit => OutputPartInv
  <2>1. SUFFICES ASSUME Parts!Output!Init PROVE Parts!OutputInv
    BY SameOutputInit DEF MCInit, OutputPartInv
  <2> QED  BY <1>0, <2>1, Parts!OutputInit DEF Parts!OffloadAssumption
<1>2. OutputPartInv /\ [MCNext]_mcVars => OutputPartInv'
  <2>1. SUFFICES ASSUME OutputPartInv, [MCNext]_mcVars, part' = "output" PROVE Parts!OutputInv'
    BY DEF OutputPartInv
  <2>2. Parts!OutputInv
    BY <2>1 DEF OutputPartInv, MCNext, mcVars
  <2>3. [Output!Next]_(Output!vars)
    BY <2>1 DEF MCNext, mcVars, shared, Output!vars, Output!main, Output!work,
       Output!ports
  <2> QED  BY <1>0, <2>2, <2>3, SameOutputNext, Parts!OutputNextKeeps
           DEF Parts!OffloadAssumption
<1> QED  BY <1>1, <1>2, PTL DEF MCSpec

(* In every behaviour of MCDatapath, a port sends what it was given in the *)
(* order it was given, and the thread knows how many ports have packets:   *)
(* dp_execute_output_action and dp_netdev_pmd_flush_output_on_port.        *)
THEOREM OutputKeepsOrder == MCSpec => []OutputOrder
<1>1. Parts!Output!BatchAssumption /\ Parts!OffloadAssumption
  BY SameOutput, SameOffload
<1>2. OutputPartInv => OutputOrder
  BY <1>1, SameOutput, Parts!OutputFollows DEF Parts!OffloadAssumption, OutputPartInv,
     OutputOrder
<1> QED  BY <1>2, BatchHolds, PTL

(* In every behaviour of MCDatapath, no packet waits for others longer than*)
(* tx_flush_interval: dp_netdev_pmd_flush_output_packets.                  *)
THEOREM OutputInTime == MCSpec => []FlushedInTime
<1>1. Parts!Output!BatchAssumption /\ Parts!OffloadAssumption
  BY SameOutput, SameOffload
<1>2. OutputPartInv => FlushedInTime
  BY <1>1, SameOutput, Parts!OutputFollows DEF Parts!OffloadAssumption, OutputPartInv,
     FlushedInTime
<1> QED  BY <1>2, BatchHolds, PTL

-----------------------------------------------------------------------------
(* The meter.                                                              *)
LEMMA SameMeterSums ==
  /\ \A S : Metering!Max(S) = Parts!Metering!Max(S)
  /\ \A S : Metering!Min(S) = Parts!Metering!Min(S)
  /\ \A S : Metering!Cardinality(S) = Parts!Metering!Cardinality(S)
  /\ \A f, S : Metering!SumFunctionOnSet(f, S) = Parts!Metering!SumFunctionOnSet(f, S)
  /\ \A f : Metering!SumFunction(f) = Parts!Metering!SumFunction(f)
BY DEF Metering!Max, Parts!Metering!Max, Metering!Min, Parts!Metering!Min,
   Metering!Cardinality, Parts!Metering!Cardinality, Metering!IsFiniteSet,
   Parts!Metering!IsFiniteSet, Metering!SumFunctionOnSet,
   Parts!Metering!SumFunctionOnSet, Metering!SumFunction, Parts!Metering!SumFunction,
   Metering!FoldFunctionOnSet, Parts!Metering!FoldFunctionOnSet,
   Metering!MapThenFoldSet, Parts!Metering!MapThenFoldSet

LEMMA SameMeterInit == Metering!Init <=> Parts!Metering!Init
BY DEF Metering!Init, Parts!Metering!Init, Metering!NotMetering,
   Parts!Metering!NotMetering

LEMMA SameNewMeter == \A c : Metering!NewMeter(c) = Parts!Metering!NewMeter(c)
<1>1. \A b : Metering!Full(b) = Parts!Metering!Full(b)
  BY DEF Metering!Full, Parts!Metering!Full
<1>2. \A b : Metering!max_delta_t(b) = Parts!Metering!max_delta_t(b)
  BY <1>1, SameMeterSums DEF Metering!max_delta_t, Parts!Metering!max_delta_t
<1> QED  BY <1>2 DEF Metering!NewMeter, Parts!Metering!NewMeter

LEMMA SameDrain ==
  \A m, band, delta, packets :
    Metering!Drain(m, band, delta, packets) = Parts!Metering!Drain(m, band, delta, packets)
<1> TAKE m, band, delta, packets
<1> DEFINE cost == [i \in DOMAIN packets |-> IF s3[m].pktps THEN 2 ELSE packets[i]]
           After(full, bucket, left, volume) ==
             IF bucket >= volume THEN [bucket |-> bucket - volume, exceeded |-> {}]
             ELSE IF s3[m].pktps
             THEN [bucket |-> bucket % 2,
                   exceeded |-> {i \in DOMAIN packets : i > bucket \div 2}]
             ELSE [bucket |-> left[Len(packets) + 1],
                   exceeded |-> {i \in DOMAIN packets : left[i] < packets[i]}]
           b1 == Metering!Min({Metering!Full(band), band.bucket + delta * band.rate})
           b2 == Parts!Metering!Min({Parts!Metering!Full(band), band.bucket + delta * band.rate})
<1>1. Metering!Full(band) = Parts!Metering!Full(band)
  BY DEF Metering!Full, Parts!Metering!Full
<1>2. b1 = b2
  BY <1>1, SameMeterSums
<1>3. \A b, c : Metering!Left(b, c) = Parts!Metering!Left(b, c)
  BY DEF Metering!Left, Parts!Metering!Left
<1>4. Metering!Drain(m, band, delta, packets) =
        After(Metering!Full(band), b1, Metering!Left(b1, cost), Metering!SumFunction(cost))
  BY DEF Metering!Drain
<1>5. Parts!Metering!Drain(m, band, delta, packets) =
        After(Parts!Metering!Full(band), b2, Parts!Metering!Left(b2, cost), Parts!Metering!SumFunction(cost))
  BY DEF Parts!Metering!Drain
<1> HIDE DEF After, b1, b2, cost
<1>6. Metering!SumFunction(cost) = Parts!Metering!SumFunction(cost)
  BY SameMeterSums
<1> QED  BY <1>1, <1>2, <1>3, <1>4, <1>5, <1>6

LEMMA SameRun == \A p : Metering!dp_netdev_run_meter(p) <=> Parts!Metering!dp_netdev_run_meter(p)
<1> TAKE p
<1> DEFINE m == s5[p].meter
           packets == s5[p].packets
           bands == s3[m].bands
           d1 == [b \in DOMAIN bands |-> Metering!Drain(m, bands[b], Metering!Delta(m, s2[p]), packets)]
           d2 == [b \in DOMAIN bands |->
                    Parts!Metering!Drain(m, bands[b], Parts!Metering!Delta(m, s2[p]), packets)]
           f1 == [i \in DOMAIN packets |-> Metering!Fired(bands, d1, i)]
           f2 == [i \in DOMAIN packets |-> Parts!Metering!Fired(bands, d2, i)]
           c1 == [b \in DOMAIN bands |-> Metering!Cardinality({i \in DOMAIN packets : f1[i] = b})]
           c2 == [b \in DOMAIN bands |-> Parts!Metering!Cardinality({i \in DOMAIN packets : f2[i] = b})]
           q1 == {i \in DOMAIN packets : f1[i] = 0}
           q2 == {i \in DOMAIN packets : f2[i] = 0}
           v1 == IF s3[m].pktps THEN 2 * Metering!Cardinality(q1)
                 ELSE Metering!SumFunctionOnSet(packets, q1)
           v2 == IF s3[m].pktps THEN 2 * Parts!Metering!Cardinality(q2)
                 ELSE Parts!Metering!SumFunctionOnSet(packets, q2)
           New(d, c) == [b \in DOMAIN bands |-> [bands[b] EXCEPT
                           !.bucket = d[b].bucket, !.packet_count = @ + c[b]]]
           Ms(new) == [s3 EXCEPT ![m].used = s2[p], ![m].packet_count = @ + Len(packets),
                                 ![m].bands = new]
           Body(none, ms, volume, n) ==
             /\ s5[p] # none /\ s5' = [s5 EXCEPT ![p] = none] /\ UNCHANGED <<s1, s2, s4>>
             /\ s3' = ms
             /\ s6' = [o \in Two |->
                  IF s3'[o] = None THEN <<>> ELSE IF o # m THEN s6[o]
                  ELSE Append(s6[m], [now |-> s2[p], volume |-> volume, passed |-> n])]
<1>1. \A t : Metering!Delta(m, t) = Parts!Metering!Delta(m, t)
  BY SameMeterSums DEF Metering!Delta, Parts!Metering!Delta
<1>2. \A drained, i : Metering!Fired(bands, drained, i) = Parts!Metering!Fired(bands, drained, i)
  BY SameMeterSums DEF Metering!Fired, Parts!Metering!Fired
<1>3. \A ms : Metering!Freed(ms) = Parts!Metering!Freed(ms)
  BY DEF Metering!Freed, Parts!Metering!Freed
<1>4. Metering!NotMetering = Parts!Metering!NotMetering
  BY DEF Metering!NotMetering, Parts!Metering!NotMetering
<1> HIDE DEF m, packets, bands
<1>5. d1 = d2
  BY <1>1, SameDrain
<1>6. f1 = f2
  <2> HIDE DEF d1, d2
  <2> QED  BY <1>2, <1>5
<1>7. q1 = q2 /\ c1 = c2
  <2> HIDE DEF f1, f2
  <2> QED  BY <1>6, SameMeterSums
<1>8. v1 = v2 /\ Metering!Cardinality(q1) = Parts!Metering!Cardinality(q2)
  <2> HIDE DEF q1, q2
  <2> QED  BY <1>7, SameMeterSums
<1>9. New(d1, c1) = [b \in DOMAIN bands |-> [bands[b] EXCEPT
        !.bucket = d1[b].bucket,
        !.packet_count = @ + Metering!Cardinality({i \in DOMAIN packets : f1[i] = b})]]
  <2> HIDE DEF d1, f1
  <2> QED  OBVIOUS
<1>10. New(d2, c2) = [b \in DOMAIN bands |-> [bands[b] EXCEPT
        !.bucket = d2[b].bucket,
        !.packet_count = @ + Parts!Metering!Cardinality({i \in DOMAIN packets : f2[i] = b})]]
  <2> HIDE DEF d2, f2
  <2> QED  OBVIOUS
<1> DEFINE n1 == [b \in DOMAIN bands |-> [bands[b] EXCEPT
              !.bucket = d1[b].bucket,
              !.packet_count = @ + Metering!Cardinality({i \in DOMAIN packets : f1[i] = b})]]
           n2 == [b \in DOMAIN bands |-> [bands[b] EXCEPT
              !.bucket = d2[b].bucket,
              !.packet_count = @ + Parts!Metering!Cardinality({i \in DOMAIN packets : f2[i] = b})]]
<1>11. Metering!dp_netdev_run_meter(p) <=>
         Body(Metering!NotMetering, Metering!Freed(Ms(n1)), v1, Metering!Cardinality(q1))
  BY DEF Metering!dp_netdev_run_meter, m, packets, bands
<1>12. Parts!Metering!dp_netdev_run_meter(p) <=>
         Body(Parts!Metering!NotMetering, Parts!Metering!Freed(Ms(n2)), v2,
              Parts!Metering!Cardinality(q2))
  BY DEF Parts!Metering!dp_netdev_run_meter, m, packets, bands
<1>13. n1 = n2
  <2> HIDE DEF New, d1, d2, c1, c2, f1, f2
  <2> QED  BY <1>5, <1>7, <1>9, <1>10
<1> HIDE DEF n1, n2, v1, v2, q1, q2, Ms, Body
<1> QED  BY <1>3, <1>4, <1>8, <1>11, <1>12, <1>13

LEMMA SameMeterNext == [Metering!Next]_(Metering!vars) <=> [Parts!Metering!Next]_(Parts!Metering!vars)
<1>1. Metering!Tick <=> Parts!Metering!Tick
  BY DEF Metering!Tick, Parts!Metering!Tick
<1>2. Metering!dpif_netdev_meter_set <=> Parts!Metering!dpif_netdev_meter_set
  BY SameNewMeter DEF Metering!dpif_netdev_meter_set,
     Parts!Metering!dpif_netdev_meter_set, Metering!Freed, Parts!Metering!Freed
<1>3. Metering!dpif_netdev_meter_del <=> Parts!Metering!dpif_netdev_meter_del
  BY DEF Metering!dpif_netdev_meter_del, Parts!Metering!dpif_netdev_meter_del,
     Metering!Freed, Parts!Metering!Freed
<1>4. \A p : Metering!pmd_thread_ctx_time_update(p) <=> Parts!Metering!pmd_thread_ctx_time_update(p)
  BY DEF Metering!pmd_thread_ctx_time_update,
     Parts!Metering!pmd_thread_ctx_time_update, Metering!NotMetering,
     Parts!Metering!NotMetering
<1>5. \A p : Metering!dp_meter_lookup(p) <=> Parts!Metering!dp_meter_lookup(p)
  BY SameMeterSums DEF Metering!dp_meter_lookup, Parts!Metering!dp_meter_lookup,
     Metering!NotMetering, Parts!Metering!NotMetering
<1> QED  BY <1>1, <1>2, <1>3, <1>4, <1>5, SameRun DEF Metering!Next,
            Parts!Metering!Next, Metering!vars, Parts!Metering!vars

LEMMA SameMeter ==
  /\ Parts!Metering!MeterAssumption
  /\ Parts!Metering!MeterConforms => Metering!MeterConforms
  /\ Parts!Metering!MeterCounts => Metering!MeterCounts
<1>1. Parts!Metering!MeterAssumption
  BY DatapathAssumptions
  DEF DatapathAssumptions, Metering!MeterAssumption, Parts!Metering!MeterAssumption, Metering!DpMeters, Parts!Metering!DpMeters, Metering!DpBands, Parts!Metering!DpBands
<1>2. Parts!Metering!MeterConforms => Metering!MeterConforms
  BY SameMeterSums DEF Metering!MeterConforms, Parts!Metering!MeterConforms,
     Metering!Volume, Parts!Metering!Volume, Metering!Credited,
     Parts!Metering!Credited, Metering!Full, Parts!Metering!Full
<1>3. Parts!Metering!MeterCounts => Metering!MeterCounts
  BY SameMeterSums DEF Metering!MeterCounts, Parts!Metering!MeterCounts
<1> QED  BY <1>1, <1>2, <1>3

MeterPartInv == part = "meter" => Parts!MeterInv

(* In every behaviour of MCDatapath, a meter lets no more through between  *)
(* two batches than its bands allow, and has counted what it dropped:      *)
(* dp_netdev_run_meter, whichever threads use the meter.                   *)
THEOREM MetersConform == MCSpec => []MeterConforms
<1>0. Parts!Metering!MeterAssumption /\ Parts!OffloadAssumption
  BY SameMeter, SameOffload
<1>1. MCInit => MeterPartInv
  <2>1. SUFFICES ASSUME Parts!Metering!Init PROVE Parts!MeterInv
    BY SameMeterInit DEF MCInit, MeterPartInv
  <2> QED  BY <1>0, <2>1, Parts!MeterStarts DEF Parts!OffloadAssumption
<1>2. MeterPartInv /\ [MCNext]_mcVars => MeterPartInv'
  <2>1. SUFFICES ASSUME MeterPartInv, [MCNext]_mcVars, part' = "meter" PROVE Parts!MeterInv'
    BY DEF MeterPartInv
  <2>2. Parts!MeterInv
    BY <2>1 DEF MeterPartInv, MCNext, mcVars
  <2>3. [Metering!Next]_(Metering!vars)
    BY <2>1 DEF MCNext, mcVars, shared, Metering!vars
  <2> QED  BY <1>0, <2>2, <2>3, SameMeterNext, Parts!MeterStepKeeps
           DEF Parts!OffloadAssumption
<1>3. MeterPartInv => MeterConforms
  BY <1>0, SameMeter, Parts!MeterFollows DEF Parts!OffloadAssumption, MeterPartInv,
     MeterConforms
<1> QED  BY <1>1, <1>2, <1>3, PTL DEF MCSpec

=============================================================================
