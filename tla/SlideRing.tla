------------------------------ MODULE SlideRing ------------------------------
(***************************************************************************)
(* What SlidingSketch, countSketch_ss and bloomFilter_ss have in common:   *)
(* every cell is a bucket of `day' counters, the newest first, and every   *)
(* insert moves a hand over the next `step' cells.  A cell the hand passes *)
(* is shifted: its oldest counter is dropped and a zero comes in.          *)
(***************************************************************************)
EXTENDS Integers, SequencesExt

CONSTANTS
  Keys,           \* flow keys
  CELLS,          \* cells (width * d, or width in bloomFilter_ss)
  window_size, day

Cells == 0 .. CELLS - 1
Days  == 0 .. day - 1

(* C divides twice: with fewer cells than window_size, no cell is ever     *)
(* shifted.                                                                *)
step == (CELLS \div window_size) * (day - 1)

WindowAssumption ==
  /\ window_size \in Nat \ {0} /\ CELLS \in Nat \ {0} /\ CELLS % window_size = 0
  /\ day \in Nat /\ day > 1

VARIABLES
  counters,   \* by cell and day
  index,      \* the hand
  log         \* ghost: the last MaxWindow keys inserted since a clear

slideVars == <<counters, index, log>>

(* A cell reaches back over the keys of the last `day' turns of the hand,  *)
(* the last of them not complete.                                          *)
MinWindow == window_size
MaxWindow == (day * window_size) \div (day - 1)

TurnAssumption == window_size % (day - 1) = 0

SlideInit(zero) ==
  /\ counters = [c \in Cells |-> [j \in Days |-> zero]]
  /\ index = 0
  /\ log = <<>>

(* How often the hand passed cell c in the last n insertions, in turns of  *)
(* CELLS \div step insertions each.                                        *)
Passes(from, n, c) == Cardinality({i \in 0 .. n * step - 1 : (from + i) % CELLS = c})

Slid(cs, zero) ==
  [c \in Cells |->
     LET n == Passes(index, 1, c)
     IN  [j \in Days |-> IF j < n THEN zero ELSE cs[c][j - n]]]

MoveHand == index' = (index + step) % CELLS

Logged(k) ==
  log' = LET s == Append(log, k) IN IF Len(s) > MaxWindow THEN Tail(s) ELSE s

(* clear zeroes the counters and leaves the hand where it is.              *)
ClearCounters(zero) ==
  /\ counters' = [c \in Cells |-> [j \in Days |-> zero]]
  /\ log' = <<>>
  /\ UNCHANGED index

-----------------------------------------------------------------------------
(* Reading the log, for the properties.                                    *)

(* The key of the n-th last insertion.                                     *)
KeyAgo(n) == log[Len(log) - n + 1]

(* How many of the last n insertions were of keys in S.                    *)
CountIn(n, S) == Cardinality({m \in 1 .. Min({n, Len(log)}) : KeyAgo(m) \in S})

(* Passes over c by the last n insertions.                                 *)
PassesSince(n, c) == Passes(index + n * (CELLS - step), n, c)

=============================================================================
