----------------------------- MODULE TupleQueue -----------------------------
(***************************************************************************)
(* What the ring promises its two users: a bounded first-in first-out      *)
(* queue.  A tuple enters once, at the back; it leaves once, from the      *)
(* front, into the reader's hands, before anything written after it.  A    *)
(* reader that is killed loses at most the tuple it was holding.           *)
(***************************************************************************)
EXTENDS Naturals, Sequences

CONSTANTS Tuples, NoTuple, Capacity

VARIABLES
  queue,     \* tuples written and not yet read
  taken      \* the tuple the reader holds inside its call, or NoTuple

Init == queue = <<>> /\ taken = NoTuple

Put(t) ==
  /\ Len(queue) < Capacity
  /\ queue' = Append(queue, t)
  /\ UNCHANGED taken

Take ==
  /\ queue # <<>>
  /\ taken = NoTuple
  /\ taken' = Head(queue) /\ queue' = Tail(queue)

(* The call returns, or the reader is killed.                              *)
LetGo ==
  /\ taken # NoTuple
  /\ taken' = NoTuple
  /\ UNCHANGED queue

Next == (\E t \in Tuples : Put(t)) \/ Take \/ LetGo

Spec == Init /\ [][Next]_<<queue, taken>>

=============================================================================
