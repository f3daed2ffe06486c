---------------------------- MODULE CountSketchSS ----------------------------
(***************************************************************************)
(* countSketch_ss: a sliding count sketch, the sketch user_reader runs.    *)
(* insert adds the key's sign to one cell of each row, then moves the hand.*)
(***************************************************************************)
EXTENDS SlideRing, HeapMedian

CONSTANTS
  d,
  hash,       \* the cell of a key in each row
  s_hash      \* the sign of a key in each row

Rows == 1 .. d

HashAssumption ==
  hash \in [Rows -> [Keys -> Cells]] /\ s_hash \in [Rows -> [Keys -> {-1, 1}]]

vars == slideVars

Init == SlideInit(0)

(* No two rows share a cell.                                               *)
RowAssumption ==
  \A r1, r2 \in Rows, k1, k2 \in Keys : hash[r1][k1] = hash[r2][k2] => r1 = r2

c_update(cs, k) ==
  [c \in Cells |->
     IF \E r \in Rows : c = hash[r][k]
     THEN [cs[c] EXCEPT ![0] = @ + s_hash[CHOOSE r \in Rows : c = hash[r][k]][k]]
     ELSE cs[c]]

insert(k) ==
  /\ counters' = Slid(c_update(counters, k), 0)
  /\ MoveHand /\ Logged(k)

clear == ClearCounters(0)

Next == (\E k \in Keys : insert(k)) \/ clear

Spec == Init /\ [][Next]_vars

-----------------------------------------------------------------------------
get_count(c) == SumFunction(counters[c])

query(k) == Median([r \in Rows |-> get_count(hash[r][k]) * s_hash[r][k]])

-----------------------------------------------------------------------------
(* A cell adds up the insertions the hand has passed less than `day' times *)
(* and those are the last window_size insertions at least and MaxWindow at *)
(* most, whichever cell it is.                                             *)
CellIsWindow ==
  \A r \in Rows, k \in Keys :
    LET c == hash[r][k]
        counted == {n \in 1 .. Len(log) : PassesSince(n, c) < day}
    IN  /\ (1 .. Min({Len(log), MinWindow})) \subseteq counted
        /\ get_count(c) =
             SumFunctionOnSet(
               [n \in 1 .. Len(log) |->
                  LET j == KeyAgo(n)
                  IN  IF hash[r][j] = c THEN s_hash[r][j] ELSE 0],
               counted)

Shared(r, k) == {j \in Keys \ {k} : hash[r][j] = hash[r][k]}

(* If a key met no other in more than half of its rows, a query counts all *)
(* of its last window_size insertions and none before the last MaxWindow,  *)
(* though each row's cell reaches back to another insertion.               *)
QueryIsWindow ==
  \A k \in Keys :
    2 * Cardinality({r \in Rows : CountIn(MaxWindow, Shared(r, k)) = 0}) > d =>
      query(k) \in CountIn(MinWindow, {k}) .. CountIn(MaxWindow, {k})

=============================================================================
