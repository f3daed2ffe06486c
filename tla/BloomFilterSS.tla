---------------------------- MODULE BloomFilterSS ----------------------------
(***************************************************************************)
(* bloomFilter_ss: a sliding Bloom filter.  insert sets the newest bit of  *)
(* the key's cells, then moves the hand; a query wants all the cells set   *)
(* on one and the same day.                                                *)
(***************************************************************************)
EXTENDS SlideRing

CONSTANT positions    \* the cells the d hash functions give a key

PositionsAssumption == positions \in [Keys -> SUBSET Cells]

vars == slideVars

Init == SlideInit(FALSE)

insert(k) ==
  /\ counters' = Slid([c \in Cells |->
       IF c \in positions[k] THEN [counters[c] EXCEPT ![0] = TRUE] ELSE counters[c]],
       FALSE)
  /\ MoveHand /\ Logged(k)

clear == ClearCounters(FALSE)

Next == (\E k \in Keys : insert(k)) \/ clear

Spec == Init /\ [][Next]_vars

-----------------------------------------------------------------------------
query(k) == \E j \in Days : \A c \in positions[k] : counters[c][j]

-----------------------------------------------------------------------------
(* The hand has passed all cells of k equally often since k was inserted n *)
(* insertions ago.                                                         *)
InStep(k, n) ==
  \E passes \in Days : \A c \in positions[k] : PassesSince(n, c) = passes

(* A key is reported while the hand has passed all its cells equally often *)
(* since one of its insertions, and less than `day' times: a key is lost   *)
(* only when the hand stands between its cells.                            *)
InStepIsReported ==
  \A k \in Keys, n \in 1 .. Len(log) :
    KeyAgo(n) = k /\ InStep(k, n) => query(k)

(* A key is reported only if the keys of the last MaxWindow insertions set *)
(* all its cells: no bit stays set for longer.                             *)
NoStalePositive ==
  \A k \in Keys : query(k) => positions[k] \subseteq UNION {positions[j] : j \in Range(log)}

=============================================================================
