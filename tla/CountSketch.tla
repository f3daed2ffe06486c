----------------------------- MODULE CountSketch -----------------------------
(***************************************************************************)
(* CountSketch_v3: a count sketch over the areas of AreaRing.  A key adds  *)
(* its sign to one cell of each row, and a query takes the median over the *)
(* rows.  A cell between LOW and HIGH moves by every insertion; outside,   *)
(* and on the way out, only with probability 1/SCALE.  Chance is a free    *)
(* choice per row.                                                         *)
(***************************************************************************)
EXTENDS AreaRing, HeapMedian

CONSTANTS
  d, width,    \* rows, and cells per row
  hash,        \* the column of a key in each row
  s_hash,      \* the sign of a key in each row
  LOW, HIGH,   \* the counts kept exactly (-128 and 127)
  SCALE        \* insertions a step stands for outside (2^8)

Rows == 1 .. d
Cols == 0 .. width - 1

HashAssumption ==
  /\ hash \in [Rows -> [Keys -> Cols]]
  /\ s_hash \in [Rows -> [Keys -> {-1, 1}]]

(* The cells are int16_t; an area takes window_size insertions (10000 in   *)
(* user_reader) before it is zeroed, so they do not wrap.                  *)
CellAssumption == window_size < 32768

VARIABLE counters    \* by area, row and column

vars == <<areaVars, counters>>

Zeros == [r \in Rows |-> [c \in Cols |-> 0]]

Init == AreaInit /\ counters = [i \in Areas |-> Zeros]

(* One cell, with or without luck in the draw.                             *)
Step(n, s, lucky) ==
  IF \/ LOW < n /\ n < HIGH
     \/ n = HIGH /\ s = -1
     \/ n = LOW /\ s = 1
     \/ lucky
  THEN n + s ELSE n

StoreRows(k, area, lucky) ==
  counters' = [counters EXCEPT ![area_pos] =
    [r \in Rows |->
       [area[r] EXCEPT ![hash[r][k]] = Step(@, s_hash[r][k], r \in lucky)]]]

insert(k) ==
  \E lucky \in SUBSET Rows :
    /\ EnterEpoch(k)
    /\ StoreRows(k, IF NewEpoch THEN Zeros ELSE counters[area_pos], lucky)

clear == ForgetSequence /\ UNCHANGED counters

Next == (\E k \in Keys : insert(k)) \/ clear

Spec == Init /\ [][Next]_vars

-----------------------------------------------------------------------------
(* Queries.                                                                *)

Decode(n) ==
  IF n > HIGH THEN HIGH + (n - HIGH) * SCALE
  ELSE IF n < LOW THEN LOW + (n - LOW) * SCALE
  ELSE n

get_count(r, k, time) ==
  SumFunctionOnSet([i \in Areas |-> Decode(counters[i][r][hash[r][k]])],
                   {i \in Areas : Counted(i, time)})

query_epoch(k, time) ==
  Median([r \in Rows |-> get_count(r, k, time) * s_hash[r][k]])

query(k) == query_epoch(k, AREA_NUM)

-----------------------------------------------------------------------------
(* Properties.                                                             *)

Times == 0 .. AREA_NUM

SharedWith(r, k) == {j \in Keys : hash[r][j] = hash[r][k]}

(* Insertions of other keys on k's cell of row r, in what a query counts.  *)
Collisions(r, k, time) ==
  SumFunctionOnSet(
    [i \in Areas |-> SumFunctionOnSet(held[i], SharedWith(r, k) \ {k})],
    {i \in Areas : Counted(i, time)})

(* The row never left the exact counts in an area the query counts.        *)
Exact(r, k, time) ==
  \A i \in Areas :
    Counted(i, time) =>
      SumFunctionOnSet(held[i], SharedWith(r, k)) <= Min({HIGH, -LOW})

(* If in more than half of the rows a key met at most e insertions of      *)
(* other keys, and no cell overflowed there, a query is off by at most e:  *)
(* whatever the other rows hold, whichever signs the keys have, and        *)
(* however often the areas were reused.                                    *)
MedianRobust ==
  \A k \in Keys, time \in Times :
    LET exactRows == {r \in Rows : Exact(r, k, time)}
        others    == [r \in exactRows |-> Collisions(r, k, time)]
        error     == query_epoch(k, time) -
                       SumFunctionOnSet([i \in Areas |-> held[i][k]],
                                        {i \in Areas : Counted(i, time)})
    IN  \A e \in 0 .. window_size :
          2 * Cardinality({r \in exactRows : others[r] <= e}) > d => error \in -e .. e

=============================================================================
