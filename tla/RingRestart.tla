---------------------------- MODULE RingRestart -----------------------------
(***************************************************************************)
(* The ring as the two programs use it, while user_reader is killed and    *)
(* started again a bounded number of times.  All reader state that matters *)
(* is in the shared memory, so a restart can leave nextReadIndex ahead of  *)
(* readIndex: a slot that is read but not given back to the writer until   *)
(* the reader publishes again.                                             *)
(***************************************************************************)
EXTENDS RingBuffer

CONSTANT MaxRestarts    \* how many times the reader is killed

VARIABLE restarts       \* how many times it has been

RestartInit == Init /\ restarts = 0

Restart ==
  /\ restarts < MaxRestarts
  /\ ReaderRestart
  /\ restarts' = restarts + 1

RestartNext == Restart \/ (ProgramNext /\ UNCHANGED restarts)

(* Each process runs on a core of its own and never sleeps in a call; that *)
(* packets keep coming is not assumed.                                     *)
RestartSpec ==
  /\ RestartInit /\ [][RestartNext]_<<vars, restarts>>
  /\ WF_vars(WriteStep) /\ WF_vars(ReadStep)

(* Slots withheld from the writer: at most one per restart, and one batch. *)
FewWithheld ==
  Ahead(readIndex, nextReadIndex) <= restarts + RB_BATCH

(* write_ringbuffer reports a full ring only when it is full, up to the    *)
(* slots that the reader has taken and not given back.                     *)
FullIsFull ==
  wpc = "testGlobal" /\ afterNextWriteIndex = readIndex
    => Ahead(nextReadIndex, nextWriteIndex) >= RB_SIZE - 1 - (restarts + RB_BATCH)

(* Neither side is told what is not so: a writer is not held back, and no  *)
(* tuple is lost, by a stale index.                                        *)
ReportsHonest == FullIsFull /\ EmptyIsEmpty

=============================================================================
