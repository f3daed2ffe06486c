------------------------------ MODULE CMSketch ------------------------------
(***************************************************************************)
(* CMSketch_v3: a count-min sketch over the areas of AreaRing.  Each row   *)
(* has one cell for a key.  A cell counts one by one up to CAP; from there *)
(* on it is incremented with probability 1/SCALE, and each increment       *)
(* stands for SCALE insertions.  Chance is a free choice per row.          *)
(***************************************************************************)
EXTENDS AreaRing, FiniteSetsExt, Functions

CONSTANTS
  d, width,    \* rows, and cells per row
  hash,        \* the column of a key in each row
  CAP,         \* the last count kept exactly (255)
  SCALE,       \* insertions an increment stands for above it (2^8)
  MAX_COUNT    \* the count a query starts from (0x7FFF)

Rows == 1 .. d
Cols == 0 .. width - 1

HashAssumption == hash \in [Rows -> [Keys -> Cols]]

(* The cells are uint16_t; an area takes window_size insertions (10000 in  *)
(* user_reader) before it is zeroed, so they do not wrap.                  *)
CellAssumption == window_size < 65536

VARIABLE counters    \* by area, row and column

vars == <<areaVars, counters>>

Zeros == [r \in Rows |-> [c \in Cols |-> 0]]

Init == AreaInit /\ counters = [i \in Areas |-> Zeros]

(* One cell, with or without luck in the draw.                             *)
Bump(n, lucky) == IF n < CAP \/ lucky THEN n + 1 ELSE n

insertUnclean(k) ==     \* mutant: the counters of the reused area are kept
  \E lucky \in SUBSET Rows :
    /\ EnterEpoch(k)
    /\ counters' = [counters EXCEPT ![area_pos] =
         [r \in Rows |->
            [counters[area_pos][r] EXCEPT ![hash[r][k]] = Bump(@, r \in lucky)]]]

insert(k) ==
  \E lucky \in SUBSET Rows :
    /\ EnterEpoch(k)
    /\ LET area == IF NewEpoch THEN Zeros ELSE counters[area_pos]
       IN  counters' = [counters EXCEPT ![area_pos] =
             [r \in Rows |->
                [area[r] EXCEPT ![hash[r][k]] = Bump(@, r \in lucky)]]]

clear == ForgetSequence /\ UNCHANGED counters

Next == (\E k \in Keys : insert(k)) \/ clear

Spec == Init /\ [][Next]_vars

-----------------------------------------------------------------------------
(* Queries.                                                                *)

Decode(n) == IF n > CAP THEN CAP + (n - CAP) * SCALE ELSE n

get_count(r, k, time) ==
  SumFunctionOnSet([i \in Areas |-> Decode(counters[i][r][hash[r][k]])],
                   {i \in Areas : Counted(i, time)})

query_epoch(k, time) ==
  Min({MAX_COUNT} \cup {get_count(r, k, time) : r \in Rows})

query(k) == query_epoch(k, AREA_NUM)

-----------------------------------------------------------------------------
(* Properties.                                                             *)

Times == 0 .. AREA_NUM

(* The insertions of area i that fall on k's cell of row r.                *)
Load(i, r, k) ==
  SumFunctionOnSet(held[i], {j \in Keys : hash[r][j] = hash[r][k]})

(* A query never misses an insertion, up to CAP in each area: not through  *)
(* the reuse of an area, not through collisions, not through bad luck in   *)
(* the sampling of full cells.                                             *)
NeverUnder ==
  \A k \in Keys, time \in Times :
    query_epoch(k, time) >=
      Min({MAX_COUNT,
           SumFunctionOnSet([i \in Areas |-> Min({held[i][k], CAP})],
                            {i \in Areas : Counted(i, time)})})

(* What a query reports too much comes from one row's collisions: it is at *)
(* most the load of the key's least loaded row, each insertion counted at  *)
(* most SCALE times.                                                       *)
OverByCollisionsOnly ==
  \A k \in Keys, time \in Times, r \in Rows :
    query_epoch(k, time) <=
      SumFunctionOnSet([i \in Areas |-> Decode(Load(i, r, k))],
                       {i \in Areas : Counted(i, time)})

=============================================================================
