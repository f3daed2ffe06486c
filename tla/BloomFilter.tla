---------------------------- MODULE BloomFilter -----------------------------
(***************************************************************************)
(* BloomFilter_new: a Bloom filter over the areas of AreaRing.  The d hash *)
(* functions share one row of cells, and its query keeps the epoch in 16   *)
(* bits, as its insert does.                                               *)
(***************************************************************************)
EXTENDS AreaWindow

CONSTANTS
  width,      \* cells of an area
  positions   \* the cells the d hash functions give a key

PositionsAssumption == positions \in [Keys -> SUBSET (0 .. width - 1)]

VARIABLE counters    \* the cells that are set, by area

vars == <<windowVars, counters>>

Init == WindowInit /\ counters = [i \in Areas |-> {}]

insert(k) ==
  /\ InsertKey(k)
  /\ counters' = [counters EXCEPT ![area_pos] =
                    (IF NewEpoch THEN {} ELSE @) \cup positions[k]]

clear == ClearKeys /\ UNCHANGED counters

Next == (\E k \in Keys : insert(k)) \/ clear

Spec == Init /\ [][Next]_vars

-----------------------------------------------------------------------------
query_epochInt(k, time) ==     \* mutant: the epoch is not cut to 16 bits
  \E i \in Areas : Counted(i, time) /\ positions[k] \subseteq counters[i]
query_epoch(k, time) ==
  \E i \in Areas : Counted16(i, time) /\ positions[k] \subseteq counters[i]

query(k) == query_epoch(k, AREA_NUM)

-----------------------------------------------------------------------------
(* A key inserted in the last four epochs is always reported, through the  *)
(* reuse of the areas, the wrap of the 16-bit epoch and a clear.           *)
NoFalseNegative ==
  \A k \in Keys : InWindow(k, AREA_NUM) > 0 => query(k)

(* A key is reported only if the keys of the last four epochs cover all    *)
(* its cells: no area answers with what it held a turn earlier.            *)
NoStalePositive ==
  Settled =>
    \A k \in Keys :
      query(k) =>
        positions[k] \subseteq
          UNION {positions[j] : j \in {n \in Keys : InWindow(n, AREA_NUM) > 0}}

=============================================================================
