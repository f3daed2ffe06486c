----------------------------- MODULE MCSketches -----------------------------
(***************************************************************************)
(* The Ring sketches and the areas they share, the sliding sketches, the   *)
(* median of the count sketches, and the sketch of the P4 switch, on small *)
(* streams.  A program is built with one sketch: `sketch' says which, and  *)
(* the others do not exist in that behaviour.                              *)
(* HeavyKeeper has its own variables, of which BloomFilter_new shares the  *)
(* areas and the log; the other sketches share the variables below.  The   *)
(* sizes and hashes of each are constants; Sketches.cfg gives them the     *)
(* values that are defined here.                                           *)
(***************************************************************************)
EXTENDS HeavyKeeper, Sequences

CONSTANTS k1, k2, k3, byte1, byte2
CONSTANTS
  FewKeys,       \* the keys of the sketches that draw in every row, and of P4
  cm_hash, cm_cap, MAX_COUNT,                    \* see CMSketch
  cs_rows, cs_hash, cs_signs, LOW, HIGH,         \* see CountSketch
  bf_width, bf_positions,                        \* see BloomFilter
  p4_hash, p4_cells, CYCLE, p4_cap, CELL_VALUES, MaxPackets,  \* see P4Sketch
  cu_rows, cu_cells, cu_hash, cu_window, cu_day, \* see SlidingSketch
  ct_rows, ct_cells, ct_hash, ct_signs, ct_window, ct_day,  \* see CountSketchSS
  bs_cells, bs_positions, bs_window, bs_day,     \* see BloomFilterSS
  hs_rows, hs_cells, hs_hash, hs_prefix, hs_day, \* see HeavyKeeperSS
  hs_window, hs_heap,      \* heavyKeeper_ss on one kind of memory ...
  hs_keys2, hs_window2, hs_heap2,                \* ... and on another
  AreaInserts              \* bound: insertions into the sketches that draw

VARIABLES
  sketch,     \* what this behaviour is about
  cells,      \* the counters of the other sketches
  number, areaEpochs, seen, inserted, cleared,
              \* what AreaRing calls sequence, epoches, held, inserts, clears
  stream,     \* the log of the sliding sketches, see SlideRing
  counts,     \* the counts given to the median
  index,      \* see SlideRing
  cur         \* see HeavyKeeperSS

ring == <<number, areaEpochs, seen, inserted, cleared>>
sliding == <<stream, index, cur>>
others == <<ring, counts, sliding>>
mcVars == <<sketch, cells, others, vars>>

CM == INSTANCE CMSketch WITH
  sequence <- number, epoches <- areaEpochs, held <- seen, inserts <- inserted,
  clears <- cleared, counters <- cells, Keys <- FewKeys, MaxInserts <- AreaInserts,
  hash <- cm_hash, CAP <- cm_cap

CS == INSTANCE CountSketch WITH
  sequence <- number, epoches <- areaEpochs, held <- seen, inserts <- inserted,
  clears <- cleared, counters <- cells, Keys <- FewKeys, MaxInserts <- AreaInserts,
  d <- cs_rows, hash <- cs_hash, s_hash <- cs_signs

BF == INSTANCE BloomFilter WITH
  counters <- cells, width <- bf_width, positions <- bf_positions

Heaps == INSTANCE HeapMedian

P4 == INSTANCE P4Sketch WITH
  N <- number, flags <- counts, sketch <- cells, sent <- seen,
  Keys <- FewKeys, hash <- p4_hash, CELLS <- p4_cells, CAP <- p4_cap

SlidCM == INSTANCE SlidingSketch WITH
  counters <- cells, log <- stream,
  d <- cu_rows, CELLS <- cu_cells, hash <- cu_hash, window_size <- cu_window, day <- cu_day

SlidCS == INSTANCE CountSketchSS WITH
  counters <- cells, log <- stream,
  d <- ct_rows, CELLS <- ct_cells, hash <- ct_hash, s_hash <- ct_signs,
  window_size <- ct_window, day <- ct_day

SlidBF == INSTANCE BloomFilterSS WITH
  counters <- cells, log <- stream,
  CELLS <- bs_cells, positions <- bs_positions, window_size <- bs_window, day <- bs_day

SlidHK == INSTANCE HeavyKeeperSS WITH
  counters <- cells, log <- stream,
  d <- hs_rows, CELLS <- hs_cells, hash <- hs_hash, prefix <- hs_prefix, day <- hs_day,
  window_size <- hs_window, Garbage <- hs_heap
SlidHK2 == INSTANCE HeavyKeeperSS WITH
  counters <- cells, log <- stream,
  d <- hs_rows, CELLS <- hs_cells, hash <- hs_hash, prefix <- hs_prefix, day <- hs_day,
  Keys <- hs_keys2, window_size <- hs_window2, Garbage <- hs_heap2

-----------------------------------------------------------------------------
(* The values of the constants.                                            *)

(* Three keys on two rows: k1 meets k2 in the first and k3 in the second.  *)
MCKeys == {k1, k2, k3}
MCHash == <<[k \in MCKeys |-> IF k = k3 THEN 1 ELSE 0],
            [k \in MCKeys |-> IF k = k2 THEN 1 ELSE 0]>>

TwoKeys == {k1, k2}

(* The keys share a cell of the first row only.                            *)
CMHash == [r \in 1 .. 2 |-> [k \in TwoKeys |-> IF r = 2 /\ k = k2 THEN 1 ELSE 0]]

(* The keys share a cell in the first row, with the same sign, and in the  *)
(* second, with opposite signs.                                            *)
CSHash == [r \in 1 .. 3 |-> [k \in TwoKeys |-> IF r = 3 /\ k = k2 THEN 1 ELSE 0]]
CSSigns == [r \in 1 .. 3 |-> [k \in TwoKeys |-> IF r > 1 /\ k = k1 THEN -1 ELSE 1]]
CSLow == -2

(* Three cells, of which each key has two: those of each key are covered   *)
(* by the other two together.                                              *)
BFPositions == [k \in MCKeys |->
  IF k = k1 THEN {0, 1} ELSE IF k = k2 THEN {1, 2} ELSE {0, 2}]

(* Two flows that share a cell in the first row only, through a cycle of   *)
(* 16 packets and beyond.                                                  *)
P4Hash == [r \in 1 .. 3 |-> [k \in TwoKeys |-> IF r > 1 /\ k = k2 THEN 1 ELSE 0]]

(* Two rows of three cells: k1 meets k2 in the first and k3 in the second. *)
(* Two cells for each key of the window, so that the hand passes two at a  *)
(* time and stops within the rows.                                         *)
SlidHash == <<[k \in MCKeys |-> IF k = k3 THEN 2 ELSE 0],
              [k \in MCKeys |-> IF k = k2 THEN 5 ELSE 3]>>

(* Three rows of two cells: k1 meets k2 in the first row and k3, with the  *)
(* other sign, in the second.                                              *)
SlidSignedHash == <<[k \in MCKeys |-> IF k = k3 THEN 1 ELSE 0],
                    [k \in MCKeys |-> IF k = k2 THEN 3 ELSE 2],
                    [k \in MCKeys |-> IF k = k1 THEN 4 ELSE 5]>>
SlidSigns == <<[k \in MCKeys |-> 1],
               [k \in MCKeys |-> IF k = k1 THEN -1 ELSE 1],
               [k \in MCKeys |-> IF k = k3 THEN 1 ELSE -1]>>

(* Two cells for each key: neighbours, cells far apart, and a key whose    *)
(* cells the other two cover.                                              *)
SlidPositions == [k \in MCKeys |->
  IF k = k1 THEN {0, 1} ELSE IF k = k2 THEN {1, 3} ELSE {0, 3}]

(* Two rows of one or two cells.  k1 and k2 begin with the same byte; k1   *)
(* meets k2 in the first row and k3 in the second.                         *)
SlidPrefix == [k \in MCKeys |-> IF k = k3 THEN byte2 ELSE byte1]
SlidRowHash == <<[k \in MCKeys |-> IF k = k3 THEN 1 ELSE 0],
            [k \in MCKeys |-> IF k = k2 THEN 3 ELSE 2]>>

(* A step of one on zeroed memory; a step of two, with which a shift       *)
(* empties the whole cell, on memory that holds what was there before, for *)
(* the two keys that meet in the second row.                               *)
KeysOnOneCell == {k1, k3}
OldHeap == {-1, 2}

ASSUME SketchAssumptions ==
  /\ CM!HashAssumption /\ CM!CellAssumption
  /\ CS!HashAssumption /\ CS!CellAssumption
  /\ BF!PositionsAssumption /\ FewKeys \subseteq Keys
  /\ P4!SwitchAssumption
  /\ SlidCM!WindowAssumption /\ SlidCM!TurnAssumption /\ SlidCM!HashAssumption /\ SlidCM!RowAssumption
  /\ SlidBF!WindowAssumption /\ SlidBF!TurnAssumption
  /\ SlidCS!WindowAssumption /\ SlidCS!TurnAssumption /\ SlidCS!HashAssumption /\ SlidCS!RowAssumption
  /\ SlidBF!PositionsAssumption
  /\ SlidHK!HashAssumption /\ SlidHK!RowAssumption /\ SlidHK!PrefixAssumption
  /\ SlidHK!StepAssumption /\ SlidHK2!StepAssumption

-----------------------------------------------------------------------------
NoRing == number = 0 /\ areaEpochs = 0 /\ seen = 0 /\ inserted = 0 /\ cleared = 0

HeavyKeepers == {"HeavyKeeper", "HeavyKeeper, long", "HeavyKeeper, cleared"}
BloomFilters == {"BloomFilter", "BloomFilter, long", "BloomFilter, cleared"}

RingInit ==
  \/ /\ counts = <<>>
     /\ \/ sketch = "CMSketch" /\ CM!Init
        \/ sketch = "CountSketch" /\ CS!Init
        \/ sketch \in BloomFilters /\ BF!Init /\ NoRing
        \/ sketch \in HeavyKeepers \cup {"median"} /\ cells = <<>> /\ NoRing
  \/ sketch = "P4" /\ P4!Init /\ areaEpochs = 0 /\ inserted = 0 /\ cleared = 0

SlidingInit ==
  /\ counts = <<>> /\ NoRing
  /\ \/ sketch = "SlidingSketch" /\ SlidCM!Init /\ cur = 0
     \/ sketch = "countSketch_ss" /\ SlidCS!Init /\ cur = 0
     \/ sketch = "bloomFilter_ss" /\ SlidBF!Init /\ cur = 0
     \/ sketch = "heavyKeeper_ss" /\ SlidHK!Init
     \/ sketch = "heavyKeeper_ss, garbage" /\ SlidHK2!Init

MCInit ==
  /\ Init
  /\ \/ RingInit /\ stream = <<>> /\ index = 0 /\ cur = 0
     \/ SlidingInit

(* The median takes one row's count after the other.                       *)
NextCount ==
  /\ Len(counts) < 5
  /\ \E n \in -2 .. 2 : counts' = Append(counts, n)

(* HeavyKeeper sees three keys in the first three epochs, with a clear     *)
(* anywhere; two keys in three turns of the areas, beyond the wrap of the  *)
(* epoch; and two keys after a clear that leaves up to three insertions    *)
(* behind, until none is left.                                             *)
HeavyKeeperNext ==
  \/ sketch = "HeavyKeeper" /\ inserts < 6 /\ Next
  \/ sketch = "HeavyKeeper, long" /\ sequence < 19 /\ \E k \in FewKeys : insert(k)
  \/ /\ sketch = "HeavyKeeper, cleared"
     /\ \/ clears = 0 /\ sequence < 3 /\ \E k \in FewKeys : insert(k)
        \/ clear
        \/ clears = 1 /\ sequence < 16 /\ \E k \in FewKeys : insert(k)

(* BloomFilter_new sees three keys in a turn of the areas and the begin of *)
(* the next; two in three turns and more, beyond the wrap of the epoch;    *)
(* and two after a clear in an early epoch, until nothing old is left.     *)
BloomNext ==
  \/ sketch = "BloomFilter" /\ sequence < 10 /\ \E k \in Keys : BF!insert(k)
  \/ sketch = "BloomFilter, long" /\ sequence < 20 /\ \E k \in FewKeys : BF!insert(k)
  \/ /\ sketch = "BloomFilter, cleared"
     /\ \/ clears = 0 /\ sequence < 4 /\ \E k \in Keys : BF!insert(k)
        \/ BF!clear
        \/ clears = 1 /\ sequence < 17 /\ \E k \in FewKeys : BF!insert(k)

(* The sketches that draw in every row are cleared in an early epoch only  *)
(* and are not followed for long after it.                                 *)
EarlyClear == cleared > 0 => inserted < 7

RingNext ==
  \/ sketch = "CMSketch" /\ CM!Next /\ EarlyClear' /\ UNCHANGED counts
  \/ sketch = "CountSketch" /\ CS!Next /\ EarlyClear' /\ UNCHANGED counts
  \/ sketch = "P4" /\ P4!Next /\ UNCHANGED <<areaEpochs, inserted, cleared>>
  \/ sketch = "median" /\ NextCount /\ UNCHANGED <<cells, ring>>

SlidingNext ==
  \/ sketch = "SlidingSketch" /\ SlidCM!Next /\ UNCHANGED cur
  \/ sketch = "countSketch_ss" /\ SlidCS!Next /\ UNCHANGED cur
  \/ sketch = "bloomFilter_ss" /\ SlidBF!Next /\ UNCHANGED cur
  \/ sketch = "heavyKeeper_ss" /\ SlidHK!Next
  \/ sketch = "heavyKeeper_ss, garbage" /\ SlidHK2!Next

MCNext ==
  /\ UNCHANGED sketch
  /\ \/ HeavyKeeperNext /\ UNCHANGED <<cells, others>>
     \/ BloomNext /\ UNCHANGED <<counters, others>>
     \/ RingNext /\ UNCHANGED <<sliding, vars>>
     \/ SlidingNext /\ UNCHANGED <<counts, ring, vars>>

MCSpec == MCInit /\ [][MCNext]_mcVars

-----------------------------------------------------------------------------
(* What the run checks: WindowExact of AreaWindow as it is, and the        *)
(* properties of each other module on the behaviours that are about it.    *)

(* HeavyKeeper_v3: a cell counts its own key only, whoever had it before;  *)
(* a query never reports too much, and a key alone on a cell exactly.      *)
KeeperCellsOwn == sketch \in HeavyKeepers => NoInheritance
KeeperBounds   == sketch \in HeavyKeepers => HKBounds

(* What the counts of a key are worth.  CMSketch_v3 never reports less     *)
(* than came, up to CAP in an area, nor more than the load of any of the   *)
(* key's cells.  SlidingSketch counts all since the hand last passed a     *)
(* key's cell, and nothing older than MaxWindow insertions.  A cell of     *)
(* countSketch_ss adds up exactly the window it reaches back to; a query   *)
(* stays between the shortest and the longest.  heavyKeeper_ss never       *)
(* reports more than came of keys it takes for the same where a key's      *)
(* cells hold nothing that was on the heap; it has forgotten what was once *)
(* the hand has gone round, and then counts all of a key that met no other.*)
CountBounds ==
  /\ sketch = "CMSketch" => CM!NeverUnder /\ CM!OverByCollisionsOnly
  /\ sketch = "SlidingSketch" => SlidCM!RecentIsCounted /\ SlidCM!OldIsForgotten
  /\ sketch = "countSketch_ss" => SlidCS!CellIsWindow /\ SlidCS!QueryIsWindow
  /\ sketch = "heavyKeeper_ss" => SlidHK!NeverOver /\ SlidHK!HeapIsForgotten /\ SlidHK!AloneIsCounted
  /\ sketch = "heavyKeeper_ss, garbage" =>
       SlidHK2!NeverOver /\ SlidHK2!HeapIsForgotten /\ SlidHK2!AloneIsCounted

(* BloomFilter_new reports every key of the last epochs, bloomFilter_ss    *)
(* every one while the hand is not between its cells; neither reports a    *)
(* key whose cells the window does not cover.                              *)
BloomBounds ==
  /\ sketch \in BloomFilters => BF!NoFalseNegative /\ BF!NoStalePositive
  /\ sketch = "bloomFilter_ss" => SlidBF!InStepIsReported /\ SlidBF!NoStalePositive

(* The packets spread evenly over the switch's areas, also across the end  *)
(* of a cycle; its cells are exact up to CAP and never too high, until     *)
(* they wrap.                                                              *)
SwitchCounts == sketch = "P4" => P4!AreasBalanced /\ P4!CellCounts

(* What a median is: with an odd number of rows, the middle count; with an *)
(* even number, the mean of the two middle ones, rounded towards zero.     *)
MedianIsMiddle ==
  counts # <<>> =>
    LET sorted == Heaps!SortSeq(counts, LAMBDA a, b : a < b)
        n == Len(counts)
    IN  Heaps!Median(counts) =
          IF n % 2 = 1 THEN sorted[(n + 1) \div 2]
          ELSE Heaps!Half(sorted[n \div 2] + sorted[n \div 2 + 1])

(* The two heaps give the middle count, and CountSketch_v3 is as exact as  *)
(* the majority of a key's rows.                                           *)
MedianBounds ==
  /\ sketch = "median" => MedianIsMiddle
  /\ sketch = "CountSketch" => CS!MedianRobust

=============================================================================
