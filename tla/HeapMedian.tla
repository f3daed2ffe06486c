----------------------------- MODULE HeapMedian -----------------------------
(***************************************************************************)
(* The running median that CountSketch_v3::query_epoch and                 *)
(* countSketch_ss::query both compute, with two priority queues: queMin,   *)
(* whose top is its largest element, for the lower half, and queMax, whose *)
(* top is its smallest, for the upper half.  A priority queue is kept here *)
(* as its elements in ascending order.                                     *)
(***************************************************************************)
EXTENDS Integers, SequencesExt

(* C++ division rounds towards zero.                                       *)
Half(n) == IF n >= 0 THEN n \div 2 ELSE -((-n) \div 2)

Push(q, n) ==
  SelectSeq(q, LAMBDA m : m <= n) \o <<n>> \o SelectSeq(q, LAMBDA m : m > n)

RebalanceNever(h) == h        \* mutant: the halves are left as they grow
Rebalance(h) ==
  IF Len(h.queMax) + 1 < Len(h.queMin)
  THEN [queMin |-> Front(h.queMin), queMax |-> Push(h.queMax, Last(h.queMin))]
  ELSE IF Len(h.queMin) < Len(h.queMax)
  THEN [queMin |-> Push(h.queMin, Head(h.queMax)), queMax |-> Tail(h.queMax)]
  ELSE h

(* The loop body for one row's count.                                      *)
PushCount(h, count) ==
  Rebalance(IF h.queMin = <<>> \/ count <= Last(h.queMin)
            THEN [h EXCEPT !.queMin = Push(@, count)]
            ELSE [h EXCEPT !.queMax = Push(@, count)])

Median(counts) ==
  LET h == FoldLeft(PushCount, [queMin |-> <<>>, queMax |-> <<>>], counts)
  IN  IF Len(h.queMin) = Len(h.queMax)
      THEN Half(Last(h.queMin) + Head(h.queMax)) ELSE Last(h.queMin)

=============================================================================
