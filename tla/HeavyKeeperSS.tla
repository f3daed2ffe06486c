---------------------------- MODULE HeavyKeeperSS ----------------------------
(***************************************************************************)
(* heavyKeeper_ss: a sliding HeavyKeeper.  Unlike the sketches of          *)
(* SlideRing it has fewer cells than its window, so the hand moves on by   *)
(* one cell after every `step' insertions, and it shifts the cell it       *)
(* leaves `step' times.  Keys are compared by their first keylen / 8 bytes *)
(* only.  The constructor leaves counters and key pointers as they come    *)
(* from the heap, and a counter that is not 0 has its pointer followed:    *)
(* what a comparison with that finds is a free choice, each time it is     *)
(* made.  (It may also stop the program, after which nothing is reported.) *)
(*                                                                         *)
(* Chance is a free choice per row.  clear is left out: it resets          *)
(* `sequence', which nothing but its return value depends on.              *)
(***************************************************************************)
EXTENDS Integers, SequencesExt

CONSTANTS
  Keys,
  prefix,       \* what is compared of a key
  d, CELLS,     \* rows; cells of all rows (d * width)
  hash,         \* the cell of a key in each row
  window_size, day,
  Garbage,      \* what a counter on the heap may hold
  NoKey         \* what a flow key points at that no insertion has set: null,
                \* or anywhere

Rows  == 1 .. d
Cells == 0 .. CELLS - 1
Days  == 0 .. day - 1

step == window_size \div (CELLS * (day - 1))

HashAssumption   == hash \in [Rows -> [Keys -> Cells]]
RowAssumption    ==      \* no two rows share a cell
  \A r1, r2 \in Rows, k1, k2 \in Keys : hash[r1][k1] = hash[r2][k2] => r1 = r2
PrefixAssumption == \A k \in Keys : prefix[k] # NoKey
StepAssumption   == day \in Nat /\ day > 1 /\ CELLS \in Nat \ {0} /\ step > 0

VARIABLES
  counters,   \* by cell and day
  index,      \* the hand
  cur,        \* insertions since it last moved
  log         \* ghost: the last Reach keys inserted

vars == <<counters, index, cur, log>>

(* The insertions a cell can still count: it keeps day \div step turns of  *)
(* the hand, of CELLS * step insertions each, and begins another.          *)
Turn  == CELLS * step
Reach == ((day - 1) \div step + 1) * Turn

Heap == [flowkey : {NoKey}, count : Garbage]
Empty == [flowkey |-> NoKey, count |-> 0]

Init ==
  /\ counters \in [Cells -> [Days -> Heap]]
  /\ index = 0 /\ cur = 0
  /\ log = <<>>

TakenOver(cell, k) ==
  IF cell.count = 0 THEN [flowkey |-> prefix[k], count |-> 1] ELSE cell

(* What memcmp may say of a counter's key and k.                           *)
Same(cell, k) ==
  IF cell.flowkey = NoKey THEN BOOLEAN ELSE {cell.flowkey = prefix[k]}

(* The loop body: what the draws can make of one cell.  A counter that is  *)
(* not 0 grows with its own key and may decay with another, a negative one *)
(* for certain; one that is or becomes 0 is taken over.                    *)
Changes(cell, k) ==
  IF cell.count = 0 THEN {0}
  ELSE UNION {IF same THEN {1} ELSE IF cell.count < 0 THEN {-1} ELSE {-1, 0} :
                same \in Same(cell, k)}

Updated(cell, k) ==
  {TakenOver([cell EXCEPT !.count = @ + n], k) : n \in Changes(cell, k)}

(* The cell the hand leaves loses its `step' oldest counters.              *)
Slid(bucket) ==
  [j \in Days |-> IF j < step THEN Empty ELSE bucket[j - step]]

insert(k) ==
  \E cells \in [Rows -> UNION {Updated(counters[hash[r][k]][0], k) : r \in Rows}] :
    LET stored == [c \in Cells |->
          IF \E r \in Rows : c = hash[r][k]
          THEN [counters[c] EXCEPT ![0] = cells[CHOOSE r \in Rows : c = hash[r][k]]]
          ELSE counters[c]]
    IN  /\ \A r \in Rows : cells[r] \in Updated(counters[hash[r][k]][0], k)
        /\ \/ /\ cur + 1 = step
              /\ cur' = 0 /\ index' = (index + 1) % CELLS
              /\ counters' = [stored EXCEPT ![index] = Slid(@)]
           \/ /\ cur + 1 # step
              /\ cur' = cur + 1 /\ counters' = stored /\ UNCHANGED index
        /\ log' = LET s == Append(log, k) IN IF Len(s) > Reach THEN Tail(s) ELSE s

Next == \E k \in Keys : insert(k)

Spec == Init /\ [][Next]_vars

-----------------------------------------------------------------------------
CountIn(c, k, same) ==
  SumFunction([j \in Days |-> IF same[j] THEN counters[c][j].count ELSE 0])

(* What a row can make of the key's cell, by what memcmp says of each day. *)
RowCounts(c, k) ==
  {CountIn(c, k, same) :
     same \in {f \in [Days -> BOOLEAN] : \A j \in Days : f[j] \in Same(counters[c][j], k)}}

(* All that a query may return.                                            *)
query(k) ==
  {Max({0} \cup {found[r] : r \in Rows}) :
     found \in {f \in [Rows -> UNION {RowCounts(hash[r][k], k) : r \in Rows}] :
                 \A r \in Rows : f[r] \in RowCounts(hash[r][k], k)}}

-----------------------------------------------------------------------------
(* How often the hand left cell c during the last n insertions.            *)
PassesSince(n, c) ==
  Cardinality({i \in 0 .. n : cur + 1 + i * step <= n /\ (index - 1 - i) % CELLS = c})

(* The n-th last insertion is one of a key like k, and in k's cell of row  *)
(* r it has not been shifted out.                                          *)
Ours(r, k, n) ==
  LET j == log[Len(log) - n + 1]
  IN  /\ hash[r][j] = hash[r][k] /\ prefix[j] = prefix[k]
      /\ PassesSince(n, hash[r][k]) * step < day

InWindow(r, k) == Cardinality({n \in 1 .. Len(log) : Ours(r, k, n)})

(* No cell of k has a counter left that the heap gave a value.             *)
OwnCounters(k) ==
  \A r \in Rows, j \in Days :
    LET node == counters[hash[r][k]][j] IN node.count # 0 => node.flowkey # NoKey

(* A query of a key whose cells hold nothing of the heap's never reports   *)
(* more than the insertions, in the reach of one of the key's cells, of    *)
(* keys that look like it there: not what another key's decay or the heap  *)
(* has left, not what was shifted out.                                     *)
NeverOver ==
  \A k \in Keys : OwnCounters(k) =>
    \A n \in query(k) : \E r \in Rows : n <= InWindow(r, k)

(* Once the hand has gone round often enough, nothing is left of what came *)
(* from the heap, and a key that met no different one in one of its cells  *)
(* is reported with all the insertions that cell reaches back to.          *)
HeapIsForgotten == Len(log) = Reach => \A k \in Keys : OwnCounters(k)

AloneIsCounted ==
  \A k \in Keys, r \in Rows :
    /\ Len(log) = Reach
    /\ \A n \in 1 .. Reach : LET j == log[n]
                             IN  hash[r][j] = hash[r][k] => prefix[j] = prefix[k]
    => \A n \in query(k) : n >= InWindow(r, k)

=============================================================================
