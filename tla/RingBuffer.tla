----------------------------- MODULE RingBuffer -----------------------------
(***************************************************************************)
(* The shared-memory ring that carries one tuple per packet from an OvS    *)
(* datapath thread (the writer) to user_reader (the reader), as            *)
(* ringbuffer.h and ringbuffer_user.cpp implement it; dpif-netdev.c holds  *)
(* a copy of write_ringbuffer for the writer's side.                       *)
(*                                                                         *)
(* The two processes share struct RBMeta and the data area and nothing     *)
(* else: no lock and no fence.  One action is one access to shared memory, *)
(* so that every interleaving of the two is explored.  memcpy is two       *)
(* steps, between which the slot holds no whole tuple; the tuple a reader  *)
(* copies out is whole only if it saw the same tuple at both ends of its   *)
(* own memcpy.  Stores are seen at once; RingStores has them seen later.   *)
(***************************************************************************)
EXTENDS Integers, Sequences

CONSTANTS
  RB_SIZE,     \* slots of the ring (2000 in ringbuffer.h)
  RB_BATCH,    \* tuples per publication of an index (1 in ringbuffer.h)
  Tuples,      \* the tuples the datapath may extract
  NoTuple,     \* what a slot holds that is zeroed or half copied
  ApiCalls     \* which of the calls nobody makes today are made:
               \* a subset of {"writerFlush", "readerFlush", "readComplete"}

ASSUME SizeAssumption  == RB_SIZE \in Nat /\ RB_SIZE >= 2
ASSUME BatchAssumption == RB_BATCH \in Nat /\ RB_BATCH >= 1
ASSUME TupleAssumption == NoTuple \notin Tuples

VARIABLES
  data,             \* the slots
  readIndex,        \* volatile: the reader's position as the writer may see it
  writeIndex,       \* volatile: the writer's position as the reader may see it
  localWriteIndex, nextReadIndex, rBatchCount,    \* the reader's fields
  localReadIndex, nextWriteIndex, wBatchCount,    \* the writer's fields
  wpc, wreg, wtuple,   \* writer: next access, a loaded index, the tuple to write
  rpc, rreg, rtuple    \* reader: next access, a loaded index, the tuple copied out

writerLocal == <<wpc, wreg, wtuple>>
readerLocal == <<rpc, rreg, rtuple>>
writerMeta  == <<localReadIndex, nextWriteIndex, wBatchCount>>
readerMeta  == <<localWriteIndex, nextReadIndex, rBatchCount>>
vars == <<data, readIndex, writeIndex, writerMeta, readerMeta,
          writerLocal, readerLocal>>

Slots == 0 .. RB_SIZE - 1

nextVal(x) == IF x + 1 >= RB_SIZE THEN 0 ELSE x + 1

(* How far the index b is ahead of the index a, going round the ring, as   *)
(* ringbuffer_size computes it.                                            *)
Ahead(a, b) == IF b < a THEN b - a + RB_SIZE ELSE b - a

(* A side publishes its index once it has moved RB_BATCH tuples.           *)
batchDoneLate(count) == count > RB_BATCH        \* mutant: one tuple late
batchDone(count) == count >= RB_BATCH

-----------------------------------------------------------------------------
(* create_ringbuffer_shm: indexes and counters 0, data zeroed.             *)
Init ==
  /\ data = [s \in Slots |-> NoTuple]
  /\ readIndex = 0 /\ writeIndex = 0
  /\ localWriteIndex = 0 /\ nextReadIndex = 0 /\ rBatchCount = 0
  /\ localReadIndex = 0 /\ nextWriteIndex = 0 /\ wBatchCount = 0
  /\ wpc = "idle" /\ wreg = 0 /\ wtuple = NoTuple
  /\ rpc = "idle" /\ rreg = 0 /\ rtuple = NoTuple

-----------------------------------------------------------------------------
(* write_ringbuffer, called in a loop until it succeeds.                   *)

afterNextWriteIndex == nextVal(nextWriteIndex)

(* The test that makes the call return -1.                                 *)
RingFullLate   == nextWriteIndex = readIndex           \* mutant: off by one
RingFullCached == afterNextWriteIndex = localReadIndex \* mutant: no second look
RingFull == afterNextWriteIndex = readIndex

WriteCall(t) ==
  /\ wpc = "idle"
  /\ wpc' = "testLocal" /\ wtuple' = t
  /\ UNCHANGED <<data, readIndex, writeIndex, writerMeta, readerMeta,
                 wreg, readerLocal>>

(* The ring is known to have room unless it is full as of the last look at *)
(* readIndex.                                                              *)
WriteTestLocal ==
  /\ wpc = "testLocal"
  /\ wpc' = IF afterNextWriteIndex = localReadIndex THEN "testGlobal" ELSE "copy"
  /\ UNCHANGED <<data, readIndex, writeIndex, writerMeta, readerMeta,
                 wreg, wtuple, readerLocal>>

(* Returns -1 when full: the caller's loop calls again with the same tuple. *)
WriteTestGlobal ==
  /\ wpc = "testGlobal"
  /\ wpc' = IF RingFull THEN "testLocal" ELSE "load"
  /\ UNCHANGED <<data, readIndex, writeIndex, writerMeta, readerMeta,
                 wreg, wtuple, readerLocal>>

WriteLoad ==
  /\ wpc = "load"
  /\ wpc' = "store" /\ wreg' = readIndex
  /\ UNCHANGED <<data, readIndex, writeIndex, writerMeta, readerMeta,
                 wtuple, readerLocal>>

WriteStore ==
  /\ wpc = "store"
  /\ wpc' = "copy" /\ localReadIndex' = wreg
  /\ UNCHANGED <<data, readIndex, writeIndex, nextWriteIndex, wBatchCount,
                 readerMeta, wreg, wtuple, readerLocal>>

WriteCopyBegin ==
  /\ wpc = "copy"
  /\ wpc' = "copying" /\ data' = [data EXCEPT ![nextWriteIndex] = NoTuple]
  /\ UNCHANGED <<readIndex, writeIndex, writerMeta, readerMeta,
                 wreg, wtuple, readerLocal>>

WriteCopyEnd ==
  /\ wpc = "copying"
  /\ wpc' = "advance" /\ data' = [data EXCEPT ![nextWriteIndex] = wtuple]
  /\ UNCHANGED <<readIndex, writeIndex, writerMeta, readerMeta,
                 wreg, wtuple, readerLocal>>

WriteAdvance ==
  /\ wpc = "advance"
  /\ wpc' = "publish" /\ nextWriteIndex' = afterNextWriteIndex
  /\ UNCHANGED <<data, readIndex, writeIndex, localReadIndex, wBatchCount,
                 readerMeta, wreg, wtuple, readerLocal>>

(* Counts the tuple and publishes writeIndex once per RB_BATCH of them.    *)
WritePublish ==
  /\ wpc = "publish"
  /\ wpc' = "idle"
  /\ \/ /\ batchDone(wBatchCount + 1)
        /\ writeIndex' = nextWriteIndex /\ wBatchCount' = 0
     \/ /\ ~batchDone(wBatchCount + 1)
        /\ wBatchCount' = wBatchCount + 1 /\ UNCHANGED writeIndex
  /\ UNCHANGED <<data, readIndex, localReadIndex, nextWriteIndex, readerMeta,
                 wreg, wtuple, readerLocal>>

WriteStep ==
  \/ WriteTestLocal \/ WriteTestGlobal \/ WriteLoad \/ WriteStore
  \/ WriteCopyBegin \/ WriteCopyEnd \/ WriteAdvance \/ WritePublish

-----------------------------------------------------------------------------
(* read_ringbuffer, called in a loop: -1 takes the reader back to "idle".  *)

ReadCall ==
  /\ rpc = "idle"
  /\ rpc' = IF nextReadIndex = localWriteIndex THEN "testGlobal" ELSE "copy"
  /\ UNCHANGED <<data, readIndex, writeIndex, writerMeta, readerMeta,
                 writerLocal, rreg, rtuple>>

ReadTestGlobal ==
  /\ rpc = "testGlobal"
  /\ rpc' = IF nextReadIndex = writeIndex THEN "idle" ELSE "refresh"
  /\ UNCHANGED <<data, readIndex, writeIndex, writerMeta, readerMeta,
                 writerLocal, rreg, rtuple>>

\* mutant: takes the writer's private index for the published one
ReadRefreshPrivate ==
  /\ rpc = "refresh"
  /\ rpc' = "copy" /\ localWriteIndex' = nextWriteIndex
  /\ UNCHANGED <<data, readIndex, writeIndex, writerMeta, nextReadIndex,
                 rBatchCount, writerLocal, rreg, rtuple>>

ReadRefresh ==
  /\ rpc = "refresh"
  /\ rpc' = "copy" /\ localWriteIndex' = writeIndex
  /\ UNCHANGED <<data, readIndex, writeIndex, writerMeta, nextReadIndex,
                 rBatchCount, writerLocal, rreg, rtuple>>

ReadCopyBegin ==
  /\ rpc = "copy"
  /\ rpc' = "copying" /\ rtuple' = data[nextReadIndex]
  /\ UNCHANGED <<data, readIndex, writeIndex, writerMeta, readerMeta,
                 writerLocal, rreg>>

ReadCopyEnd ==
  /\ rpc = "copying"
  /\ rpc' = "advance"
  /\ rtuple' = IF data[nextReadIndex] = rtuple THEN rtuple ELSE NoTuple
  /\ UNCHANGED <<data, readIndex, writeIndex, writerMeta, readerMeta,
                 writerLocal, rreg>>

ReadAdvance ==
  /\ rpc = "advance"
  /\ rpc' = "count" /\ nextReadIndex' = nextVal(nextReadIndex)
  /\ UNCHANGED <<data, readIndex, writeIndex, writerMeta, localWriteIndex,
                 rBatchCount, writerLocal, rreg, rtuple>>

ReadCount ==
  /\ rpc = "count"
  /\ rpc' = IF batchDone(rBatchCount + 1) THEN "publish" ELSE "idle"
  /\ rBatchCount' = rBatchCount + 1
  /\ UNCHANGED <<data, readIndex, writeIndex, writerMeta, localWriteIndex,
                 nextReadIndex, writerLocal, rreg, rtuple>>

ReadPublish ==
  /\ rpc = "publish"
  /\ rpc' = "idle" /\ readIndex' = nextReadIndex /\ rBatchCount' = 0
  /\ UNCHANGED <<data, writeIndex, writerMeta, localWriteIndex, nextReadIndex,
                 writerLocal, rreg, rtuple>>

ReadStep ==
  \/ ReadCall \/ ReadTestGlobal \/ ReadRefresh \/ ReadCopyBegin
  \/ ReadCopyEnd \/ ReadAdvance \/ ReadCount \/ ReadPublish

-----------------------------------------------------------------------------
(* The other two calls of the interface that write the shared fields.      *)
(* flush_ringbuffer sets both indexes, whichever side calls it: it stores  *)
(* an index of the other side that it loaded a moment before.              *)

WriterFlush ==
  /\ "writerFlush" \in ApiCalls
  /\ wpc = "idle"
  /\ wpc' = "flushLoad" /\ writeIndex' = nextWriteIndex
  /\ UNCHANGED <<data, readIndex, writerMeta, readerMeta, wreg, wtuple,
                 readerLocal>>

WriterFlushLoad ==
  /\ wpc = "flushLoad"
  /\ wpc' = "flushStore" /\ wreg' = nextReadIndex
  /\ UNCHANGED <<data, readIndex, writeIndex, writerMeta, readerMeta, wtuple,
                 readerLocal>>

WriterFlushStore ==
  /\ wpc = "flushStore"
  /\ wpc' = "idle" /\ readIndex' = wreg
  /\ UNCHANGED <<data, writeIndex, writerMeta, readerMeta, wreg, wtuple,
                 readerLocal>>

ReaderFlush ==
  /\ "readerFlush" \in ApiCalls
  /\ rpc = "idle"
  /\ rpc' = "flushStore" /\ rreg' = nextWriteIndex
  /\ UNCHANGED <<data, readIndex, writeIndex, writerMeta, readerMeta,
                 writerLocal, rtuple>>

ReaderFlushStore ==
  /\ rpc = "flushStore"
  /\ rpc' = "flushRead" /\ writeIndex' = rreg
  /\ UNCHANGED <<data, readIndex, writerMeta, readerMeta, writerLocal, rreg,
                 rtuple>>

ReaderFlushRead ==
  /\ rpc = "flushRead"
  /\ rpc' = "idle" /\ readIndex' = nextReadIndex
  /\ UNCHANGED <<data, writeIndex, writerMeta, readerMeta, writerLocal, rreg,
                 rtuple>>

(* read_complete_ringbuffer: the reader also stores localReadIndex, which  *)
(* the writer caches in and stores to without looking.                     *)
ReadComplete ==
  /\ "readComplete" \in ApiCalls
  /\ rpc = "idle"
  /\ rpc' = "complete" /\ readIndex' = nextReadIndex
  /\ UNCHANGED <<data, writeIndex, writerMeta, readerMeta, writerLocal, rreg,
                 rtuple>>

ReadCompleteLocal ==
  /\ rpc = "complete"
  /\ rpc' = "idle" /\ localReadIndex' = nextReadIndex
  /\ UNCHANGED <<data, readIndex, writeIndex, nextWriteIndex, wBatchCount,
                 readerMeta, writerLocal, rreg, rtuple>>

ApiStep ==
  \/ WriterFlush \/ WriterFlushLoad \/ WriterFlushStore
  \/ ReaderFlush \/ ReaderFlushStore \/ ReaderFlushRead
  \/ ReadComplete \/ ReadCompleteLocal

(* The reader process is killed anywhere and started again: it connects to *)
(* the same shared memory and goes on from the indexes left there.  Killed *)
(* inside ReadPublish, it may have stored readIndex and not yet reset      *)
(* rBatchCount.                                                            *)
ReaderRestart ==
  /\ rpc # "idle"
  /\ rpc' = "idle" /\ rreg' = 0 /\ rtuple' = NoTuple
  /\ \/ UNCHANGED readIndex
     \/ rpc = "publish" /\ readIndex' = nextReadIndex
  /\ UNCHANGED <<data, writeIndex, writerMeta, readerMeta, writerLocal>>

-----------------------------------------------------------------------------
(* What OvS and user_reader do: neither calls flush_ringbuffer or          *)
(* read_complete_ringbuffer.                                               *)
ProgramNext == (\E t \in Tuples : WriteCall(t)) \/ WriteStep \/ ReadStep

Next == ProgramNext \/ ApiStep \/ ReaderRestart

Spec == Init /\ [][Next]_vars

-----------------------------------------------------------------------------
(* Properties.                                                             *)

WriterCalls == {"idle", "testLocal", "testGlobal", "load", "store", "copy",
                "copying", "advance", "publish", "flushLoad", "flushStore"}
ReaderCalls == {"idle", "testGlobal", "refresh", "copy", "copying", "advance",
                "count", "publish", "flushStore", "flushRead", "complete"}

(* Every index is a slot number, and the batch counters are counts.        *)
TypeOK ==
  /\ data \in [Slots -> Tuples \cup {NoTuple}]
  /\ {readIndex, writeIndex, localWriteIndex, nextReadIndex, localReadIndex,
      nextWriteIndex, wreg, rreg} \subseteq Slots
  /\ wBatchCount \in 0 .. RB_BATCH - 1 /\ rBatchCount \in Nat
  /\ wpc \in WriterCalls /\ rpc \in ReaderCalls
  /\ wtuple \in Tuples \cup {NoTuple} /\ rtuple \in Tuples \cup {NoTuple}
  /\ wpc \in WriterCalls \ {"idle", "flushLoad", "flushStore"} => wtuple # NoTuple

Ordered(base, w) ==
  /\ Ahead(base, readIndex) <= Ahead(base, nextReadIndex)
  /\ Ahead(base, nextReadIndex) <= Ahead(base, localWriteIndex)
  /\ Ahead(base, localWriteIndex) <= Ahead(base, w)
  /\ Ahead(base, w) <= Ahead(base, nextWriteIndex)

(* The picture in ringbuffer.h: going round the ring from localReadIndex   *)
(* come readIndex, nextReadIndex, localWriteIndex, writeIndex and          *)
(* nextWriteIndex, however stale the cached and published copies are.      *)
IndexOrder == Ordered(localReadIndex, writeIndex)

(* Without a lock, the two memcpys still never touch the same slot.        *)
CopiesApart ==
  wpc \in {"copy", "copying"} /\ rpc \in {"copy", "copying"}
    => nextWriteIndex # nextReadIndex

(* read_ringbuffer reports an empty ring only when at most one batch,      *)
(* stored and not published, is waiting.                                   *)
EmptyIsEmpty ==
  rpc = "testGlobal" /\ nextReadIndex = writeIndex
    => Ahead(nextReadIndex, nextWriteIndex) <= RB_BATCH

(* What each side knows at each point of a call, and what the slots hold.  *)
WriterInv ==
  /\ wpc \in {"copy", "copying", "advance"} => afterNextWriteIndex # localReadIndex
  /\ wpc = "load" => afterNextWriteIndex # readIndex
  /\ wpc = "store" => afterNextWriteIndex # wreg /\ Ordered(wreg, writeIndex)
  /\ wpc \in {"flushLoad", "flushStore"} => "writerFlush" \in ApiCalls
  /\ wpc = "flushStore" =>
       Ahead(localReadIndex, wreg) <= Ahead(localReadIndex, nextReadIndex)

ReaderInv ==
  /\ rpc \in {"copy", "copying", "advance"} => nextReadIndex # localWriteIndex
  /\ rpc \in {"testGlobal", "refresh"} => nextReadIndex = localWriteIndex
  /\ rpc = "refresh" => nextReadIndex # writeIndex
  /\ rpc = "flushStore" =>
       /\ Ordered(localReadIndex, rreg)
       /\ wpc = "store" => Ordered(wreg, rreg)
  /\ rpc = "complete" => "readComplete" \in ApiCalls /\ readIndex = nextReadIndex

IsUnread(s) == Ahead(nextReadIndex, s) < Ahead(nextReadIndex, nextWriteIndex)

SlotInv ==
  /\ \A s \in Slots : IsUnread(s) => data[s] # NoTuple
  /\ wpc = "advance" => data[nextWriteIndex] = wtuple
  /\ rpc \in {"copying", "advance"} => rtuple = data[nextReadIndex]
  /\ rpc \in {"count", "publish"} => rtuple # NoTuple

(* The inductive invariant: true of every set of calls but one, flushing   *)
(* by the writer together with read_complete by the reader.                *)
IInv == TypeOK /\ IndexOrder /\ WriterInv /\ ReaderInv /\ SlotInv

(* The tuples stored and not yet read, oldest first.                       *)
UnreadSlot(i) ==
  IF nextReadIndex + i - 1 >= RB_SIZE
  THEN nextReadIndex + i - 1 - RB_SIZE ELSE nextReadIndex + i - 1

Unread ==
  [i \in 1 .. Ahead(nextReadIndex, nextWriteIndex) |-> data[UnreadSlot(i)]]

Taken == IF rpc \in {"count", "publish"} THEN rtuple ELSE NoTuple

(* The ring is a queue of RB_SIZE - 1 tuples: the memcpys, the caching and *)
(* the publication of the indexes are invisible.                           *)
Queue == INSTANCE TupleQueue WITH
  Capacity <- RB_SIZE - 1,
  queue    <- Unread,
  taken    <- Taken

FifoQueue == Queue!Spec

(* The datapath's loop around write_ringbuffer ends: a full ring is        *)
(* drained and the writer sees it.                                         *)
WriteReturns == wpc = "testLocal" ~> wpc = "idle"

(* Every slot that is stored into is read, with no further packet needed   *)
(* to push it out.                                                         *)
SlotRead(s) ==
  IsUnread(s) ~> rpc = "advance" /\ nextReadIndex = s
StoredIsRead == \A s \in Slots : SlotRead(s)

=============================================================================
