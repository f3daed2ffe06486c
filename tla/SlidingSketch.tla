---------------------------- MODULE SlidingSketch ----------------------------
(***************************************************************************)
(* SlidingSketch ("CM&CU"): a sliding sketch with conservative update.     *)
(* insert first moves the hand, then raises the smallest of the key's      *)
(* newest counters.                                                        *)
(***************************************************************************)
EXTENDS SlideRing

CONSTANTS
  d,
  hash        \* the cell of a key in each row

Rows == 1 .. d

HashAssumption == hash \in [Rows -> [Keys -> Cells]]

(* No two rows share a cell.                                               *)
RowAssumption ==
  \A r1, r2 \in Rows, k1, k2 \in Keys : hash[r1][k1] = hash[r2][k2] => r1 = r2

vars == slideVars

Init == SlideInit(0)

cu_update(cs, k) ==
  LET least == Min({cs[hash[r][k]][0] : r \in Rows})
  IN  [c \in Cells |-> IF (\E r \in Rows : c = hash[r][k]) /\ cs[c][0] = least
                       THEN [cs[c] EXCEPT ![0] = least + 1] ELSE cs[c]]

insert(k) ==
  /\ counters' = cu_update(Slid(counters, 0), k)
  /\ MoveHand /\ Logged(k)

clear == ClearCounters(0)

Next == (\E k \in Keys : insert(k)) \/ clear

Spec == Init /\ [][Next]_vars

-----------------------------------------------------------------------------
get_count(c) == SumFunction(counters[c])

query(k) == Min({get_count(hash[r][k]) : r \in Rows})

-----------------------------------------------------------------------------
(* The insertions since cell c was last passed by the hand, the one that   *)
(* passed it included.                                                     *)
SinceShift(c) ==
  Min({Len(log)} \cup {n \in 1 .. Len(log) : PassesSince(n, c) > 0})

(* What was inserted of a key since the hand last passed one of its cells  *)
(* is counted: conservative update does not lose it, however uneven the    *)
(* counters are that the hand leaves behind.                               *)
RecentIsCounted ==
  \A k \in Keys :
    query(k) >= CountIn(Min({SinceShift(hash[r][k]) : r \in Rows}), {k})

(* A query reports no more than the keys that met k's cell in one row, and *)
(* of those only the last MaxWindow insertions: older ones are shifted out *)
(* of every cell, wherever clear left the hand.                            *)
OldIsForgotten ==
  \A k \in Keys, r \in Rows :
    query(k) <= CountIn(MaxWindow, {j \in Keys : hash[r][j] = hash[r][k]})

=============================================================================
