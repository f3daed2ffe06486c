---------------------------- MODULE HeavyKeeper -----------------------------
(***************************************************************************)
(* HeavyKeeper_v3: a HeavyKeeper sketch over the areas of AreaRing.  A     *)
(* cell keeps one flow key and a count; another key on the same cell       *)
(* decays the count by chance and takes the cell over when it reaches 0.   *)
(* As in CMSketch_v3, counts above CAP are sampled.  Chance is a free      *)
(* choice per row.                                                         *)
(***************************************************************************)
EXTENDS AreaWindow, FiniteSetsExt

CONSTANTS
  d, width,    \* rows, and cells per row
  hash,        \* the column of a key in each row
  CAP,         \* the last count kept exactly (255)
  SCALE,       \* insertions an increment stands for above it (2^8)
  NoKey        \* the flow key of a zeroed cell

Rows == 1 .. d
Cols == 0 .. width - 1

ASSUME HashAssumption == hash \in [Rows -> [Keys -> Cols]]
ASSUME CapAssumption  == CAP \in Nat \ {0} /\ SCALE \in Nat \ {0}
ASSUME KeyAssumption  == NoKey \notin Keys

VARIABLE counters    \* by area, row and column

vars == <<windowVars, counters>>

EmptyCell == [flowkey |-> NoKey, count |-> 0]

Init ==
  /\ WindowInit
  /\ counters = [i \in Areas |-> [r \in Rows |-> [c \in Cols |-> EmptyCell]]]

(* The loop body: what the draws can make of one cell.                     *)
Grown(cell) ==
  {[cell EXCEPT !.count = @ + 1]} \cup (IF cell.count < CAP THEN {} ELSE {cell})

Decayed(cell) ==
  {[cell EXCEPT !.count = @ - 1]} \cup {cell}

(* A cell that is empty, or just decayed to 0, is taken over.              *)
TakenOverStale(cell, k) ==      \* mutant: the old count is kept
  IF cell.count <= 1 THEN [cell EXCEPT !.flowkey = k, !.count = @ + 1] ELSE cell
TakenOver(cell, k) ==
  IF cell.count = 0 THEN [flowkey |-> k, count |-> 1] ELSE cell

Updated(cell, k) ==
  IF cell.count = 0 THEN {TakenOver(cell, k)}
  ELSE IF cell.flowkey = k THEN Grown(cell)
  ELSE {TakenOver(c, k) : c \in Decayed(cell)}

StoreRows(k, area) ==
  \E cells \in [Rows -> UNION {Updated(area[r][hash[r][k]], k) : r \in Rows}] :
    /\ \A r \in Rows : cells[r] \in Updated(area[r][hash[r][k]], k)
    /\ counters' = [counters EXCEPT ![area_pos] =
         [r \in Rows |-> [area[r] EXCEPT ![hash[r][k]] = cells[r]]]]

insert(k) ==
  /\ InsertKey(k)
  /\ StoreRows(k, IF NewEpoch THEN [r \in Rows |-> [c \in Cols |-> EmptyCell]]
                  ELSE counters[area_pos])

clear == ClearKeys /\ UNCHANGED counters

Next == (\E k \in Keys : insert(k)) \/ clear

Spec == Init /\ [][Next]_vars

-----------------------------------------------------------------------------
(* Queries.                                                                *)

Decode(n) == IF n > CAP THEN CAP + (n - CAP) * SCALE ELSE n

(* The largest count an area keeps under k.                                *)
KeptAnyKey(i, k) == Max({counters[i][r][hash[r][k]].count : r \in Rows})  \* mutant
Kept(i, k) ==
  Max({0} \cup {counters[i][r][hash[r][k]].count :
                  r \in {q \in Rows : counters[i][q][hash[q][k]].flowkey = k}})

query_epoch(k, time) ==
  SumFunctionOnSet([i \in Areas |-> Decode(Kept(i, k))],
                   {i \in Areas : Counted(i, time)})

query(k) == query_epoch(k, AREA_NUM)

-----------------------------------------------------------------------------
(* Properties.                                                             *)

CellOK(i, r, c) ==
  LET cell == counters[i][r][c]
  IN  IF cell.flowkey = NoKey THEN cell.count = 0
      ELSE /\ cell.flowkey \in Keys
           /\ hash[r][cell.flowkey] = c
           /\ cell.count \in 1 .. held[i][cell.flowkey]

(* A cell never counts more for its key than the area has seen of it, nor  *)
(* for a key that does not belong there: a key that takes a cell over does *)
(* not inherit what the cell had counted.                                  *)
NoInheritance == \A i \in Areas, r \in Rows, c \in Cols : CellOK(i, r, c)

(* A query never reports more than was inserted, but for the scaling of    *)
(* counts above CAP.                                                       *)
NeverOver ==
  \A k \in Keys, time \in Times :
    query_epoch(k, time) <=
      SumFunctionOnSet([i \in Areas |-> Decode(held[i][k])],
                       {i \in Areas : Counted(i, time)})

(* A key that met no other key on one of its cells is counted exactly up   *)
(* to CAP, however badly it does in its other rows.                        *)
AloneIsCounted ==
  \A i \in Areas, k \in Keys, r \in Rows :
    (\A j \in Keys \ {k} : hash[r][j] = hash[r][k] => held[i][j] = 0)
      => Kept(i, k) >= Min({held[i][k], CAP})

(* A heavy keeper never reports more than came, but for the scaling, and   *)
(* counts a key that met no other exactly, up to CAP.                      *)
HKBounds == NeverOver /\ AloneIsCounted

=============================================================================
