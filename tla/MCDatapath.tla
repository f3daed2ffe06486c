------------------------------ MODULE MCDatapath ------------------------------
(***************************************************************************)
(* The parts of the datapath that work on flows and packets, on small      *)
(* instances: hardware offload, the caches, a classifier, a meter, and the *)
(* output batches.  They share no state; `part' says which of them a       *)
(* behaviour is about.                                                     *)
(* The parts other than the caches share s1 to s14 for their variables.    *)
(***************************************************************************)
EXTENDS FlowCache, TLC

CONSTANTS
  key_a, key_b, key_c, ma, mb,                \* of FlowCache
  Pmds, OffloadMegas,                         \* of FlowOffload
  r1, r2, r3, k1, k2, match1, match2,         \* of Classifier
  Ports, Sources                              \* of OutputBatch

VARIABLES part, s1, s2, s3, s4, s5, s6, s7, s8, s9, s10, s11, s12, s13, s14

shared == <<s1, s2, s3, s4, s5, s6, s7, s8, s9, s10, s11, s12, s13, s14>>
mcVars == <<part, shared, vars>>

-----------------------------------------------------------------------------
(* Two keys of one mega flow, one of another.  One finds the entries of    *)
(* the EMC in the other order and has a hash, and a signature, of its own. *)
CacheKeys == {key_a, key_b, key_c}
CacheMegas == {ma, mb}
MegaOf  == [k \in CacheKeys |-> IF k = key_c THEN mb ELSE ma]
KeyHash == [k \in CacheKeys |-> IF k = key_a THEN 1 ELSE 2]
EmcPos  == [k \in CacheKeys |-> IF k = key_a THEN <<1, 2>> ELSE <<2, 2>>]
SmcSig  == [k \in CacheKeys |-> IF k = key_a THEN 0 ELSE 1]
Two == {1, 2}
InUse == {{"EMC", "SMC"}}
CacheBatches == {<<key_b>>, <<Runt, key_a>>,
  <<key_a, key_b>>, <<key_b, key_a>>, <<key_a, key_c>>, <<key_c, key_b>>}

(* Three flows and two marks for two mega flows.                           *)
Three == 1 .. 3

Offload == INSTANCE FlowOffload WITH
  Megas <- OffloadMegas, Flows <- Three, MAX_MARK <- 2, MaxQueue <- 1,
  flow <- s1, flow_table <- s2, removing <- s3, list <- s4, asleep <- s5,
  pc <- s6, item <- s7, held <- s8, pool <- s9, megaflow_to_mark <- s10,
  mark_to_flow <- s11, port_up <- s12, hw <- s13,
  undeleted <- s14

(* Two rules of one mask and one of another; one key matches a rule of     *)
(* each.                                                                   *)
ClassKeys == {k1, k2}
ClassRules == {r1, r2, r3}
ClassMasks == {match1, match2}
MaskOf == [r \in ClassRules |-> IF r = r3 THEN match2 ELSE match1]
Matching == [k \in ClassKeys |-> IF k = k1 THEN {r1, r3} ELSE {r2}]

Class == INSTANCE Classifier WITH
  Keys <- ClassKeys, Rules <- ClassRules, Masks <- ClassMasks,
  mask_of <- MaskOf, matching <- Matching, Subtables <- Three,
  cls <- s1, mask <- s2, rules <- s3, subtables_map <- s4, subtables <- s5,
  updating <- s6, lookup <- s7, seen <- s8

(* Packets per second; two bands, of which one takes longer to fill than   *)
(* DELTA_VALUES can say, and the other has no burst.                       *)
MeterConfigs == {
  [pktps |-> TRUE, bands |-> <<[rate |-> 1, burst_size |-> 1]>>],
  [pktps |-> FALSE, bands |-> <<[rate |-> 2, burst_size |-> 3], [rate |-> 3, burst_size |-> 0]>>]}
MeterBatches == {<<1, 1>>, <<3, 1>>}

Metering == INSTANCE Meter WITH
  Configs <- MeterConfigs, Batches <- MeterBatches, SCALE <- 2, DELTA_VALUES <- 3,
  Meters <- Two, MaxTime <- 2, MaxBatches <- 3,
  clock <- s1, now <- s2, meters <- s3, attached <- s4, using <- s5, log <- s6

FlushIntervals == {0, 1}

Output == INSTANCE OutputBatch WITH
  Buckets <- Two, NETDEV_MAX_BURST <- 2, Intervals <- FlushIntervals,
  MaxTime <- 2, MaxOutputs <- 1,
  ctx_now <- s1, tx_flush_interval <- s2, tx_ports <- s3, send_port_cache <- s4,
  n_output_batches <- s5, tx_bond <- s6, pc <- s7, batch <- s8, outputs <- s9,
  bonding <- s10, given <- s11, sent <- s12

ASSUME DatapathAssumptions ==
  /\ CacheAssumption /\ Offload!OffloadAssumption /\ Class!ClassifierAssumption
  /\ Metering!MeterAssumption /\ Output!BatchAssumption

-----------------------------------------------------------------------------
From1 == s1 = None /\ s2 = None /\ s3 = None /\ s4 = None /\ s5 = None /\ s6 = None
From7 == s7 = None /\ s8 = None
From9 == s9 = None /\ s10 = None /\ s11 = None /\ s12 = None
From13 == s13 = None /\ s14 = None

MCInit ==
  /\ Init
  /\ \/ part = "cache" /\ From1 /\ From7 /\ From9 /\ From13
     \/ part = "offload" /\ Offload!Init
     \/ part = "classifier" /\ Class!Init /\ From9 /\ From13
     \/ part = "meter" /\ Metering!Init /\ From7 /\ From9 /\ From13
     \/ part = "output" /\ Output!Init /\ From13

MCNext ==
  /\ UNCHANGED part
  /\ \/ part = "cache" /\ Next /\ UNCHANGED shared
     \/ /\ UNCHANGED vars
        /\ \/ part = "offload" /\ Offload!Next
           \/ /\ part = "classifier" /\ Class!Next
              /\ UNCHANGED <<s9, s10, s11, s12, s13, s14>>
           \/ /\ part = "meter" /\ Metering!Next
              /\ UNCHANGED <<s7, s8, s9, s10, s11, s12, s13, s14>>
           \/ part = "output" /\ Output!Next /\ UNCHANGED <<s13, s14>>

MCSpec == MCInit /\ [][MCNext]_mcVars

(* Free memory is alike: it is allocated in order.                         *)
Takes(free, left) ==
  \A i \in free \ left : \A j \in free : i <= j

Free(flows) == {f \in DOMAIN flows : flows[f].ref_cnt = 0 /\ ~flows[f].dead}

InOrder ==
  /\ Takes(Free(flow), Free(flow'))
  /\ part = "offload" =>
       /\ Takes(Free(s1), Free(s1'))
       /\ Takes(Offload!Marks \ s9, Offload!Marks \ s9')
  /\ part = "classifier" =>
       LET free(m) == {i \in Three : m[i] = None} IN Takes(free(s2), free(s2'))
  /\ part = "meter" =>
       LET free(m) == {i \in Two : m[i] = None} IN Takes(free(s3), free(s3'))

(* The threads and mega flows of FlowOffload are alike.                    *)
Symmetry == {f @@ g : f \in Permutations(Pmds), g \in Permutations(OffloadMegas)}

(* A step that reads and writes what only its thread uses is taken before  *)
(* those of other threads: they commute with it.                           *)
CacheLocal ==
  \/ pc \in {"queue", "execute"}
  \/ pc = "dfc" /\ in.next > Len(in.packets)
  \/ pc \in {"smc", "lookup", "upcall", "enqueue"} /\ AtEnd
  \/ pc \in {"upcall", "enqueue"} /\ ~AtEnd
       /\ (pc = "upcall" <=> in.rules[in.next] # None)

OffloadLocal == s6 = "find" /\ s10[Offload!mega] = Offload!INVALID_FLOW_MARK

LocalFirst ==
  /\ part = "cache" /\ CacheLocal => UNCHANGED updating
  /\ part = "offload" /\ OffloadLocal => s6' # s6

-----------------------------------------------------------------------------
(* What the run checks: RefsExact, RightFlow and OrderKept of FlowCache,   *)
(* and the properties of the others on the behaviours that are about them. *)

(* A flow has as many references as there are tables, requests, marks and  *)
(* threads that refer to it: none of them outlives the memory of the flow, *)
(* and none keeps a flow for ever.  And a packet that the card has marked  *)
(* finds the one flow of its thread that has the packet's mega flow.       *)
OffloadSound == part = "offload" => Offload!RefsExact /\ Offload!FoundByMark

(* A lookup without the lock is as good as one with it.                    *)
LookupIsAtomic == part = "classifier" => Class!LookupIsAtomic

(* A meter lets through no more than its bands allow, whichever threads    *)
(* use it, and counts what it drops.                                       *)
MeterConforms == part = "meter" => Metering!MeterConforms /\ Metering!MeterCounts

(* A port sends what it was given, in order, and the thread knows how many *)
(* ports have packets to send.                                             *)
OutputOrder == part = "output" => Output!OutputOrder /\ Output!BatchesCounted

(* No packet waits for others longer than tx_flush_interval.               *)
FlushedInTime == part = "output" => Output!FlushedInTime

=============================================================================
