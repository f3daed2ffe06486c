------------------------------ MODULE AreaRing ------------------------------
(***************************************************************************)
(* What the four Ring sketches (CMSketch_v3, CountSketch_v3,               *)
(* HeavyKeeper_v3 and BloomFilter_new) have in common: AREA_NUM areas of   *)
(* counters used in turn, one per epoch of window_size insertions.  An     *)
(* area is zeroed when the first key of a new epoch reaches it; nothing    *)
(* else ever empties one.                                                  *)
(*                                                                         *)
(* The counters are left to the modules that extend this one.  In their    *)
(* place, held[i][k] is how many insertions of k area i has received since *)
(* it was last zeroed: what an ideal area would count.                     *)
(***************************************************************************)
EXTENDS Integers

CONSTANTS
  Keys,           \* flow keys
  window_size,    \* insertions per epoch
  EPOCHS,         \* values of a uint16_t (65536)
  MaxInserts,     \* bound: calls of insert
  MaxClears       \* bound: calls of clear

AREA_NUM == 4
Areas == 0 .. AREA_NUM - 1

ASSUME WindowAssumption == window_size \in Nat \ {0}
ASSUME EpochAssumption  == EPOCHS \in Nat /\ EPOCHS > AREA_NUM /\ EPOCHS % AREA_NUM = 0

VARIABLES
  sequence,    \* insertions since construction or clear
  epoches,     \* the epoch each area belongs to, as a uint16_t
  held,        \* ghost: see above
  inserts,     \* ghost: calls of insert so far
  clears       \* ghost: calls of clear so far

areaVars == <<sequence, epoches, held, inserts, clears>>

AreaInit ==
  /\ sequence = 0 /\ inserts = 0 /\ clears = 0
  /\ epoches = [i \in Areas |-> 0]
  /\ held = [i \in Areas |-> [k \in Keys |-> 0]]

(* insert keeps the epoch in a uint16_t, query_epoch in an int; only       *)
(* BloomFilter_new uses the narrow one in both.                            *)
epoch_seq   == sequence \div window_size
epoch_seq16 == epoch_seq % EPOCHS

area_pos == epoch_seq16 % AREA_NUM
NewEpoch == epoches[area_pos] # epoch_seq16

(* insert, up to the update of the counters.                               *)
EnterEpoch(k) ==
  /\ inserts < MaxInserts
  /\ epoches' = [epoches EXCEPT ![area_pos] = epoch_seq16]
  /\ held' = [held EXCEPT ![area_pos] =
       [j \in Keys |-> (IF NewEpoch THEN 0 ELSE @[j]) + (IF j = k THEN 1 ELSE 0)]]
  /\ sequence' = sequence + 1 /\ inserts' = inserts + 1
  /\ UNCHANGED clears

(* clear: neither the counters nor the epochs of the areas are touched.    *)
ForgetSequence ==
  /\ clears < MaxClears
  /\ sequence' = 0
  /\ clears' = clears + 1
  /\ UNCHANGED <<epoches, held, inserts>>

(* The areas a query over the last `time' epochs adds up.                  *)
Counted(i, time) == epoches[i] >= epoch_seq - time

Counted16Int(i, time) == epoches[i] >= epoch_seq - time   \* mutant: the other sketches' test
Counted16(i, time) == epoches[i] >= epoch_seq16 - time

=============================================================================
