-------------------------- MODULE RingBufferProofs --------------------------
(***************************************************************************)
(* The ring of RingBuffer, proved for every RB_SIZE, every RB_BATCH and    *)
(* every set of tuples: indexes never overtake each other, the two memcpys *)
(* never meet in a slot, and the ring implements the bounded queue of      *)
(* TupleQueue.  The inductive invariant is IInv.  Four parts follow: the   *)
(* ring by itself; how far a published index lags behind the private one   *)
(* when user_reader is restarted (RingRestart); the ring whose stores are  *)
(* seen late (RingStores), in which IInv and the queue still hold; and how *)
(* rings come to be (RingLifecycle).                                       *)
(*                                                                         *)
(* All of it rests on one reading of the indexes.  Modulo RB_SIZE they     *)
(* cannot be compared; their distances from a base that is behind them     *)
(* all can.  The lemmas on Ahead give those distances the arithmetic of a  *)
(* line, and the steps below use nothing else about wrapping.              *)
(***************************************************************************)
EXTENDS RingRestart, MCRingBuffer, SequenceTheorems, FiniteSetTheorems, TLAPS

(* The one combination of calls that loses the ring's content: the writer  *)
(* flushing with a nextReadIndex it loaded before the reader completes.    *)
SafeCalls == ~({"writerFlush", "readComplete"} \subseteq ApiCalls)

(* The point at which it goes wrong, and the calls that neither program    *)
(* makes.                                                                  *)
NoClash == ~(wpc = "flushStore" /\ rpc = "complete")
ProgramOnly ==
  /\ wpc \notin {"flushLoad", "flushStore"}
  /\ rpc \notin {"flushStore", "flushRead", "complete"}

-----------------------------------------------------------------------------
(* Distances round the ring.                                               *)

(* The slot after a slot is a slot.                                        *)
LEMMA NextValSlot ==
  ASSUME NEW a \in Slots PROVE nextVal(a) \in Slots
  BY SizeAssumption DEF Slots, nextVal

(* A distance is less than a turn of the ring.                             *)
LEMMA AheadSlot ==
  ASSUME NEW a \in Slots, NEW b \in Slots PROVE Ahead(a, b) \in 0 .. RB_SIZE - 1
  BY SizeAssumption DEF Slots, Ahead

(* Slots at the same distance are the same slot.                           *)
LEMMA AheadEqual ==
  ASSUME NEW a \in Slots, NEW b \in Slots, NEW c \in Slots
  PROVE  Ahead(a, b) = Ahead(a, c) <=> b = c
  BY SizeAssumption DEF Slots, Ahead

(* A slot is at distance 0 from itself.                                    *)
LEMMA AheadSelf == ASSUME NEW a \in Slots PROVE Ahead(a, a) = 0
  BY SizeAssumption DEF Slots, Ahead

(* Distances add up as long as they do not pass the base again.            *)
LEMMA AheadRebase ==
  ASSUME NEW a \in Slots, NEW b \in Slots, NEW c \in Slots,
         Ahead(a, b) <= Ahead(a, c)
  PROVE  Ahead(b, c) = Ahead(a, c) - Ahead(a, b)
  BY SizeAssumption DEF Slots, Ahead

(* The next slot is one further on, unless it is the base.                 *)
LEMMA AheadNext ==
  ASSUME NEW a \in Slots, NEW b \in Slots, nextVal(b) # a
  PROVE  Ahead(a, nextVal(b)) = Ahead(a, b) + 1
  BY SizeAssumption DEF Slots, Ahead, nextVal

(* The same, of a slot that is closer to the base than another.            *)
LEMMA AheadNextBelow ==
  ASSUME NEW a \in Slots, NEW b \in Slots, NEW c \in Slots,
         Ahead(a, b) < Ahead(a, c)
  PROVE  Ahead(a, nextVal(b)) = Ahead(a, b) + 1
  BY SizeAssumption DEF Slots, Ahead, nextVal

-----------------------------------------------------------------------------
(* The order of the indexes, from any base.                                *)

(* Every index, and every loaded copy of one, is a slot.                   *)
LEMMA SlotIndexes ==
  ASSUME TypeOK
  PROVE  /\ readIndex \in Slots /\ writeIndex \in Slots
         /\ localWriteIndex \in Slots /\ nextReadIndex \in Slots
         /\ localReadIndex \in Slots /\ nextWriteIndex \in Slots
         /\ wreg \in Slots /\ rreg \in Slots
  BY DEF TypeOK

(* Going round from readIndex, or from nextReadIndex once it is published, *)
(* the order is the same.                                                  *)
LEMMA OrderedFromReadIndex ==
  ASSUME TypeOK, NEW base \in Slots, NEW w \in Slots, Ordered(base, w)
  PROVE  Ordered(readIndex, w)
<1> USE SlotIndexes, SizeAssumption
<1>1. \A x \in {nextReadIndex, localWriteIndex, w, nextWriteIndex, readIndex} :
        x \in Slots /\ Ahead(base, readIndex) <= Ahead(base, x)
  BY AheadSlot DEF Ordered, Slots
<1>2. \A x \in {nextReadIndex, localWriteIndex, w, nextWriteIndex, readIndex} :
        Ahead(readIndex, x) = Ahead(base, x) - Ahead(base, readIndex)
  BY <1>1, AheadRebase
<1> QED BY <1>1, <1>2, AheadSlot DEF Ordered, Slots

(* A reader with a tuple to read may move nextReadIndex past it.           *)
LEMMA ReaderHasRoom ==
  ASSUME TypeOK, NEW base \in Slots, NEW w \in Slots, Ordered(base, w),
         nextReadIndex # localWriteIndex
  PROVE  /\ Ahead(base, nextVal(nextReadIndex)) = Ahead(base, nextReadIndex) + 1
         /\ Ahead(base, nextReadIndex) < Ahead(base, localWriteIndex)
<1>1. Ahead(base, nextReadIndex) # Ahead(base, localWriteIndex)
  BY SlotIndexes, AheadEqual
<1>2. Ahead(base, nextReadIndex) < Ahead(base, localWriteIndex)
  <2>1. Ahead(base, nextReadIndex) \in Int /\ Ahead(base, localWriteIndex) \in Int
    BY SlotIndexes, AheadSlot, SizeAssumption
  <2> QED BY <1>1, <2>1 DEF Ordered
<1> QED BY <1>2, SlotIndexes, AheadNextBelow

(* A writer that found room finds it still there, whatever the reader has  *)
(* not yet published: the slot after nextWriteIndex cannot be              *)
(* nextReadIndex unless it is readIndex too.                               *)
LEMMA RoomIsStable ==
  ASSUME TypeOK, NEW base \in Slots, NEW w \in Slots, Ordered(base, w),
         afterNextWriteIndex # readIndex
  PROVE  afterNextWriteIndex # nextReadIndex
<1> USE SlotIndexes, NextValSlot, AheadSlot, SizeAssumption DEF Slots
<1>1. Ordered(readIndex, w) BY OrderedFromReadIndex
<1>2. Ahead(readIndex, afterNextWriteIndex) = Ahead(readIndex, nextWriteIndex) + 1
  BY AheadNext DEF afterNextWriteIndex
<1> QED BY <1>1, <1>2 DEF Ordered

(* The slot a reader is copying is stored, and is not the one the writer   *)
(* stores into next.                                                       *)
LEMMA ReaderSlotUnread ==
  ASSUME TypeOK, IndexOrder, nextReadIndex # localWriteIndex
  PROVE  IsUnread(nextReadIndex) /\ nextReadIndex # nextWriteIndex
<1>1. Ahead(localReadIndex, nextReadIndex) < Ahead(localReadIndex, nextWriteIndex)
  BY SlotIndexes, ReaderHasRoom, AheadSlot, SizeAssumption DEF IndexOrder, Ordered, Slots
<1>2. nextReadIndex # nextWriteIndex BY <1>1, SlotIndexes, AheadSlot DEF Slots
<1>3. Ahead(nextReadIndex, nextWriteIndex) # Ahead(nextReadIndex, nextReadIndex)
  BY <1>2, SlotIndexes, AheadEqual
<1> QED BY <1>2, <1>3, SlotIndexes, AheadSelf, AheadSlot DEF IsUnread, Slots

-----------------------------------------------------------------------------
(* IInv is inductive: each conjunct in turn, with one step for each action *)
(* that can disturb it.                                                    *)

(* IInv holds of the memory that create_ringbuffer_shm leaves.             *)
LEMMA InitIInv == Init => IInv
  BY SizeAssumption, BatchAssumption
  DEF Init, IInv, TypeOK, IndexOrder, Ordered, Ahead, WriterInv, ReaderInv,
      SlotInv, IsUnread, Slots, WriterCalls, ReaderCalls, afterNextWriteIndex,
      nextVal

(* No step takes an index, a counter or a program counter out of range.    *)
LEMMA TypeOKStep ==
  ASSUME TypeOK, [Next]_vars PROVE TypeOK'
<1> USE SizeAssumption, BatchAssumption, TupleAssumption
    DEF Slots, TypeOK, WriterCalls, ReaderCalls, writerMeta, readerMeta,
        writerLocal, readerLocal
<1>1. ASSUME NEW t \in Tuples, WriteCall(t) PROVE TypeOK'
  BY <1>1 DEF WriteCall
<1>2. CASE WriteStep
  <2>1. CASE WriteTestLocal BY <2>1 DEF WriteTestLocal, afterNextWriteIndex, nextVal
  <2>2. CASE WriteTestGlobal BY <2>2 DEF WriteTestGlobal, afterNextWriteIndex, nextVal
  <2>3. CASE WriteLoad BY <2>3 DEF WriteLoad, afterNextWriteIndex, nextVal
  <2>4. CASE WriteStore BY <2>4 DEF WriteStore
  <2>5. CASE WriteCopyBegin BY <2>5 DEF WriteCopyBegin
  <2>6. CASE WriteCopyEnd BY <2>6 DEF WriteCopyEnd
  <2>7. CASE WriteAdvance BY <2>7 DEF WriteAdvance, afterNextWriteIndex, nextVal
  <2>8. CASE WritePublish BY <2>8 DEF WritePublish, batchDone
  <2> QED BY <1>2, <2>1, <2>2, <2>3, <2>4, <2>5, <2>6, <2>7, <2>8 DEF WriteStep
<1>3. CASE ReadStep
  BY <1>3 DEF ReadStep, ReadCall, ReadTestGlobal, ReadRefresh, ReadCopyBegin,
       ReadCopyEnd, ReadAdvance, ReadCount, ReadPublish, nextVal
<1>4. CASE ApiStep
  BY <1>4 DEF ApiStep, WriterFlush, WriterFlushLoad, WriterFlushStore,
       ReaderFlush, ReaderFlushStore, ReaderFlushRead, ReadComplete,
       ReadCompleteLocal
<1>5. CASE ReaderRestart
  BY <1>5 DEF ReaderRestart
<1>6. CASE UNCHANGED vars
  BY <1>6 DEF vars
<1> QED BY <1>1, <1>2, <1>3, <1>4, <1>5, <1>6 DEF Next, ProgramNext

(* No step lets one index overtake another.                                *)
LEMMA IndexOrderStep ==
  ASSUME NoClash, IInv, [Next]_vars PROVE IndexOrder'
<1> USE SizeAssumption DEF writerMeta, readerMeta, writerLocal, readerLocal
<1>o. TypeOK /\ IndexOrder /\ Ordered(localReadIndex, writeIndex)
  BY DEF IInv, IndexOrder
<1>d. \A x \in Slots : Ahead(localReadIndex, x) \in Int
  BY <1>o, SlotIndexes, AheadSlot DEF Slots
<1>1. CASE WriteStore
  BY <1>1 DEF WriteStore, IInv, WriterInv, IndexOrder, Ordered
<1>2. CASE WriteAdvance
  <2>1. afterNextWriteIndex # localReadIndex
    BY <1>2 DEF WriteAdvance, IInv, WriterInv
  <2>2. Ahead(localReadIndex, afterNextWriteIndex)
          = Ahead(localReadIndex, nextWriteIndex) + 1
    BY <2>1, <1>o, SlotIndexes, AheadNext DEF afterNextWriteIndex
  <2> QED
    BY <1>2, <1>o, <1>d, <2>2, SlotIndexes DEF WriteAdvance, IndexOrder, Ordered
<1>3. CASE WritePublish
  BY <1>3, <1>o, <1>d, SlotIndexes DEF WritePublish, IndexOrder, Ordered
<1>4. CASE ReadRefresh
  BY <1>4, <1>o, <1>d, SlotIndexes DEF ReadRefresh, IndexOrder, Ordered
<1>5. CASE ReadAdvance
  <2>1. nextReadIndex # localWriteIndex
    BY <1>5 DEF ReadAdvance, IInv, ReaderInv
  <2> QED
    BY <1>5, <1>o, <1>d, <2>1, SlotIndexes, ReaderHasRoom
    DEF ReadAdvance, IndexOrder, Ordered
<1>6. CASE ReadPublish \/ ReaderFlushRead \/ ReadComplete \/ ReaderRestart
  BY <1>6, <1>o, <1>d, SlotIndexes
  DEF ReadPublish, ReaderFlushRead, ReadComplete, ReaderRestart, IndexOrder, Ordered
<1>7. CASE WriterFlush
  BY <1>7, <1>o, <1>d, SlotIndexes DEF WriterFlush, IndexOrder, Ordered
<1>8. CASE WriterFlushStore
  BY <1>8, <1>o, <1>d, SlotIndexes
  DEF WriterFlushStore, IInv, WriterInv, IndexOrder, Ordered
<1>9. CASE ReaderFlushStore
  BY <1>9 DEF ReaderFlushStore, IInv, ReaderInv, IndexOrder, Ordered
<1>10. CASE ReadCompleteLocal
  <2>1. readIndex = nextReadIndex
    BY <1>10 DEF ReadCompleteLocal, IInv, ReaderInv
  <2>2. Ordered(nextReadIndex, writeIndex)
    BY <1>o, <2>1, SlotIndexes, OrderedFromReadIndex
  <2> QED BY <1>10, <2>2 DEF ReadCompleteLocal, IndexOrder, Ordered
<1>11. CASE \/ \E t \in Tuples : WriteCall(t)
            \/ WriteTestLocal \/ WriteTestGlobal \/ WriteLoad
            \/ WriteCopyBegin \/ WriteCopyEnd
            \/ ReadCall \/ ReadTestGlobal \/ ReadCopyBegin \/ ReadCopyEnd
            \/ ReadCount \/ WriterFlushLoad \/ ReaderFlush
            \/ UNCHANGED vars
  BY <1>11, <1>o
  DEF WriteCall, WriteTestLocal, WriteTestGlobal, WriteLoad, WriteCopyBegin,
      WriteCopyEnd, ReadCall, ReadTestGlobal, ReadCopyBegin, ReadCopyEnd,
      ReadCount, WriterFlushLoad, ReaderFlush, vars, IndexOrder, Ordered
<1> QED
  BY <1>1, <1>2, <1>3, <1>4, <1>5, <1>6, <1>7, <1>8, <1>9, <1>10, <1>11
  DEF Next, ProgramNext, WriteStep, ReadStep, ApiStep

(* What the writer has learnt at a point of its call stays true.           *)
LEMMA WriterInvStep ==
  ASSUME NoClash, IInv, [Next]_vars PROVE WriterInv'
<1> USE SizeAssumption DEF writerMeta, readerMeta, writerLocal, readerLocal,
                           afterNextWriteIndex
<1>o. TypeOK /\ WriterInv /\ Ordered(localReadIndex, writeIndex)
  BY DEF IInv, IndexOrder
<1>d. \A x, y \in Slots : Ahead(x, y) \in Int
  BY AheadSlot DEF Slots
<1>1. CASE WriteTestGlobal
  BY <1>1 DEF WriteTestGlobal, RingFull, WriterInv
<1>2. CASE WriteLoad
  <2>1. Ordered(readIndex, writeIndex)
    BY <1>o, SlotIndexes, OrderedFromReadIndex
  <2> QED BY <1>2, <1>o, <2>1 DEF WriteLoad, WriterInv, Ordered
<1>3. CASE WriteTestLocal \/ WriteStore \/ WriteCopyBegin \/ WriteCopyEnd
            \/ WriteAdvance \/ WritePublish \/ WriterFlush \/ WriterFlushStore
  BY <1>3, <1>o
  DEF WriteTestLocal, WriteStore, WriteCopyBegin, WriteCopyEnd, WriteAdvance,
      WritePublish, WriterFlush, WriterFlushStore, WriterInv
<1>4. CASE WriterFlushLoad
  BY <1>4, <1>o, <1>d, SlotIndexes DEF WriterFlushLoad, WriterInv
<1>5. CASE ReadRefresh
  BY <1>5, <1>o, <1>d, SlotIndexes DEF ReadRefresh, WriterInv, Ordered
<1>6. CASE ReadAdvance
  <2>1. nextReadIndex # localWriteIndex
    BY <1>6 DEF ReadAdvance, IInv, ReaderInv
  <2>2. wpc = "store" => Ordered(wreg, writeIndex)'
    <3> SUFFICES ASSUME wpc = "store" PROVE Ordered(wreg, writeIndex)'
      OBVIOUS
    <3>1. Ordered(wreg, writeIndex) BY <1>o DEF WriterInv
    <3> QED BY <1>6, <1>o, <1>d, <2>1, <3>1, SlotIndexes, ReaderHasRoom
            DEF ReadAdvance, Ordered
  <2>3. Ahead(localReadIndex, nextVal(nextReadIndex))
          = Ahead(localReadIndex, nextReadIndex) + 1
    BY <1>o, <2>1, SlotIndexes, ReaderHasRoom
  <2> QED BY <1>6, <1>o, <1>d, <2>2, <2>3, SlotIndexes DEF ReadAdvance, WriterInv
<1>7. CASE ReadPublish \/ ReaderFlushRead \/ ReadComplete \/ ReaderRestart
  <2>1. /\ UNCHANGED <<data, writeIndex, writerMeta, localWriteIndex,
                       nextReadIndex, writerLocal>>
        /\ readIndex' \in {readIndex, nextReadIndex}
    BY <1>7 DEF ReadPublish, ReaderFlushRead, ReadComplete, ReaderRestart
  <2>2. wpc = "load" => afterNextWriteIndex # readIndex'
    BY <1>o, <2>1, SlotIndexes, RoomIsStable DEF WriterInv
  <2>3. wpc = "store" => Ordered(wreg, writeIndex)'
    BY <1>o, <1>d, <2>1, SlotIndexes DEF WriterInv, Ordered
  <2> QED BY <1>o, <2>1, <2>2, <2>3 DEF WriterInv
<1>8. CASE ReaderFlushStore
  BY <1>8, <1>o DEF ReaderFlushStore, IInv, ReaderInv, WriterInv, Ordered
<1>9. CASE ReadCompleteLocal
  <2>1. readIndex = nextReadIndex /\ "readComplete" \in ApiCalls
    BY <1>9 DEF ReadCompleteLocal, IInv, ReaderInv
  <2>2. wpc # "flushStore" BY <1>9 DEF ReadCompleteLocal, NoClash
  <2>3. wpc \in {"copy", "copying", "advance"} => afterNextWriteIndex # nextReadIndex
    <3> SUFFICES ASSUME wpc \in {"copy", "copying", "advance"}
                 PROVE  afterNextWriteIndex # nextReadIndex
      OBVIOUS
    <3>1. Ahead(localReadIndex, afterNextWriteIndex)
            = Ahead(localReadIndex, nextWriteIndex) + 1
      BY <1>o, SlotIndexes, AheadNext DEF WriterInv
    <3> QED BY <1>o, <1>d, <3>1, SlotIndexes DEF Ordered
  <2> QED BY <1>9, <1>o, <2>2, <2>3 DEF ReadCompleteLocal, WriterInv, Ordered
<1>10. CASE \/ \E t \in Tuples : WriteCall(t)
            \/ ReadCall \/ ReadTestGlobal \/ ReadCopyBegin \/ ReadCopyEnd
            \/ ReadCount \/ ReaderFlush \/ UNCHANGED vars
  BY <1>10, <1>o
  DEF WriteCall, ReadCall, ReadTestGlobal, ReadCopyBegin, ReadCopyEnd, ReadCount,
      ReaderFlush, vars, WriterInv, Ordered
<1> QED
  BY <1>1, <1>2, <1>3, <1>4, <1>5, <1>6, <1>7, <1>8, <1>9, <1>10
  DEF Next, ProgramNext, WriteStep, ReadStep, ApiStep

(* What the reader has learnt at a point of its call stays true.           *)
LEMMA ReaderInvStep ==
  ASSUME NoClash, IInv, [Next]_vars PROVE ReaderInv'
<1> USE SizeAssumption DEF writerMeta, readerMeta, writerLocal, readerLocal
<1>o. TypeOK /\ ReaderInv /\ Ordered(localReadIndex, writeIndex)
  BY DEF IInv, IndexOrder
<1>d. \A x, y \in Slots : Ahead(x, y) \in Int
  BY AheadSlot DEF Slots
<1>1. CASE WriteLoad
  <2>1. rpc = "flushStore" => Ordered(readIndex, rreg)
    BY <1>o, SlotIndexes, OrderedFromReadIndex DEF ReaderInv
  <2> QED BY <1>1, <1>o, <2>1 DEF WriteLoad, ReaderInv, Ordered
<1>2. CASE WriteStore
  BY <1>2, <1>o DEF WriteStore, ReaderInv, Ordered
<1>3. CASE WriteAdvance
  <2>1. afterNextWriteIndex # localReadIndex /\ wpc # "store"
    BY <1>3 DEF WriteAdvance, IInv, WriterInv
  <2>2. Ahead(localReadIndex, afterNextWriteIndex)
          = Ahead(localReadIndex, nextWriteIndex) + 1
    BY <2>1, <1>o, SlotIndexes, AheadNext DEF afterNextWriteIndex
  <2> QED
    BY <1>3, <1>o, <1>d, <2>1, <2>2, SlotIndexes DEF WriteAdvance, ReaderInv, Ordered
<1>4. CASE WritePublish
  <2>1. rpc = "refresh" => nextReadIndex # writeIndex'
    <3> SUFFICES ASSUME rpc = "refresh", writeIndex' = nextWriteIndex
                 PROVE  nextReadIndex # nextWriteIndex
      BY <1>4, <1>o DEF WritePublish, ReaderInv
    <3>1. /\ nextReadIndex = localWriteIndex /\ nextReadIndex # writeIndex
          /\ Ahead(localReadIndex, nextReadIndex) # Ahead(localReadIndex, writeIndex)
      BY <1>o, SlotIndexes, AheadEqual DEF ReaderInv
    <3> QED BY <1>o, <1>d, <3>1, SlotIndexes DEF Ordered
  <2> QED BY <1>4, <1>o, <2>1 DEF WritePublish, ReaderInv, Ordered
<1>5. CASE ReaderFlush
  BY <1>5, <1>o, <1>d, SlotIndexes, IInv
  DEF ReaderFlush, ReaderInv, IInv, WriterInv, Ordered
<1>6. CASE ReadCall \/ ReadTestGlobal \/ ReadRefresh \/ ReadCopyBegin \/ ReadCopyEnd
            \/ ReadAdvance \/ ReadCount \/ ReadPublish \/ ReaderFlushStore
            \/ ReaderFlushRead \/ ReadComplete \/ ReadCompleteLocal \/ ReaderRestart
  BY <1>6, <1>o
  DEF ReadCall, ReadTestGlobal, ReadRefresh, ReadCopyBegin, ReadCopyEnd, ReadAdvance,
      ReadCount, ReadPublish, ReaderFlushStore, ReaderFlushRead, ReadComplete,
      ReadCompleteLocal, ReaderRestart, ReaderInv
<1>7. CASE WriterFlush
  <2>1. rpc = "refresh" => nextReadIndex # nextWriteIndex
    <3> SUFFICES ASSUME rpc = "refresh" PROVE nextReadIndex # nextWriteIndex
      OBVIOUS
    <3>1. /\ nextReadIndex = localWriteIndex
          /\ Ahead(localReadIndex, nextReadIndex) # Ahead(localReadIndex, writeIndex)
      BY <1>o, SlotIndexes, AheadEqual DEF ReaderInv
    <3> QED BY <1>o, <1>d, <3>1, SlotIndexes DEF Ordered
  <2> QED BY <1>7, <1>o, <2>1 DEF WriterFlush, ReaderInv, Ordered
<1>8. CASE WriterFlushLoad
  BY <1>8, <1>o DEF WriterFlushLoad, ReaderInv, Ordered
<1>9. CASE WriterFlushStore
  <2>1. rpc # "complete"
    BY <1>9 DEF WriterFlushStore, NoClash
  <2>2. Ahead(localReadIndex, wreg) <= Ahead(localReadIndex, nextReadIndex)
    BY <1>9 DEF WriterFlushStore, IInv, WriterInv
  <2> QED BY <1>9, <1>o, <2>1, <2>2 DEF WriterFlushStore, ReaderInv, Ordered
<1>10. CASE \/ \E t \in Tuples : WriteCall(t)
            \/ WriteTestLocal \/ WriteTestGlobal \/ WriteCopyBegin \/ WriteCopyEnd
            \/ UNCHANGED vars
  BY <1>10, <1>o
  DEF WriteCall, WriteTestLocal, WriteTestGlobal, WriteCopyBegin, WriteCopyEnd, vars,
      ReaderInv, Ordered
<1> QED
  BY <1>1, <1>2, <1>3, <1>4, <1>5, <1>6, <1>7, <1>8, <1>9, <1>10
  DEF Next, ProgramNext, WriteStep, ReadStep, ApiStep

(* No step leaves half a tuple in a slot that is still to be read.         *)
LEMMA SlotInvStep ==
  ASSUME NoClash, IInv, [Next]_vars PROVE SlotInv'
<1> USE TupleAssumption, SizeAssumption
    DEF writerMeta, readerMeta, writerLocal, readerLocal
<1>o. TypeOK /\ IndexOrder /\ SlotInv /\ Ordered(localReadIndex, writeIndex)
  BY DEF IInv, IndexOrder
<1>d. \A x, y \in Slots : Ahead(x, y) \in Int
  BY AheadSlot DEF Slots
<1>r. rpc \in {"copy", "copying", "advance"} =>
        IsUnread(nextReadIndex) /\ nextReadIndex # nextWriteIndex
  BY <1>o, ReaderSlotUnread DEF IInv, ReaderInv
<1>w. ~IsUnread(nextWriteIndex)
  BY <1>o, <1>d, SlotIndexes DEF IsUnread
<1>1. CASE WriteCopyBegin \/ WriteCopyEnd
  <2>1. /\ wpc' # "advance" \/ data'[nextWriteIndex] = wtuple
        /\ \A s \in Slots \ {nextWriteIndex} : data'[s] = data[s]
        /\ UNCHANGED <<nextReadIndex, nextWriteIndex, rpc, rtuple, wtuple>>
    BY <1>1, <1>o, SlotIndexes DEF WriteCopyBegin, WriteCopyEnd, TypeOK
  <2> QED
    BY <1>o, <1>r, <1>w, <2>1, SlotIndexes DEF SlotInv, IsUnread
<1>2. CASE WriteAdvance
  <2>1. Ahead(localReadIndex, afterNextWriteIndex)
          = Ahead(localReadIndex, nextWriteIndex) + 1
    BY <1>2, <1>o, SlotIndexes, AheadNext
    DEF WriteAdvance, IInv, WriterInv, afterNextWriteIndex
  <2>2. afterNextWriteIndex # nextReadIndex
    BY <1>o, <1>d, <2>1, SlotIndexes DEF Ordered
  <2>3. Ahead(nextReadIndex, afterNextWriteIndex)
          = Ahead(nextReadIndex, nextWriteIndex) + 1
    BY <2>2, <1>o, SlotIndexes, AheadNext DEF afterNextWriteIndex
  <2>4. \A s \in Slots : IsUnread(s)' => IsUnread(s) \/ s = nextWriteIndex
    <3> SUFFICES ASSUME NEW s \in Slots, IsUnread(s)', ~IsUnread(s)
                 PROVE  s = nextWriteIndex
      OBVIOUS
    <3>1. Ahead(nextReadIndex, s) = Ahead(nextReadIndex, nextWriteIndex)
      BY <1>2, <1>o, <1>d, <2>3, SlotIndexes DEF WriteAdvance, IsUnread
    <3> QED BY <1>o, <3>1, SlotIndexes, AheadEqual
  <2>5. data[nextWriteIndex] # NoTuple
    BY <1>2, <1>o DEF WriteAdvance, SlotInv, TypeOK, WriterCalls
  <2> QED BY <1>2, <1>o, <2>4, <2>5 DEF WriteAdvance, SlotInv
<1>3. CASE ReadCopyBegin \/ ReadCopyEnd
  BY <1>3, <1>o DEF ReadCopyBegin, ReadCopyEnd, SlotInv, IsUnread
<1>4. CASE ReadAdvance
  <2>1. \A s \in Slots : IsUnread(s)' => IsUnread(s)
    <3>1. Ahead(nextReadIndex, nextVal(nextReadIndex)) <= Ahead(nextReadIndex, nextWriteIndex)
      <4>1. Ahead(nextReadIndex, nextReadIndex) < Ahead(nextReadIndex, nextWriteIndex)
        BY <1>4, <1>r DEF ReadAdvance, IsUnread
      <4> QED BY <4>1, <1>o, <1>d, SlotIndexes, AheadNextBelow
    <3>2. \A s \in Slots : Ahead(nextVal(nextReadIndex), s)
                             < Ahead(nextVal(nextReadIndex), nextWriteIndex)
            => Ahead(nextReadIndex, s) < Ahead(nextReadIndex, nextWriteIndex)
      BY <1>o, <3>1, SlotIndexes DEF Ahead, nextVal, Slots
    <3> QED BY <1>4, <3>2 DEF ReadAdvance, IsUnread
  <2>2. rtuple # NoTuple
    BY <1>4, <1>o, <1>r, SlotIndexes DEF ReadAdvance, SlotInv
  <2> QED BY <1>4, <1>o, <2>1, <2>2 DEF ReadAdvance, SlotInv
<1>5. CASE \/ \E t \in Tuples : WriteCall(t)
           \/ WriteTestLocal \/ WriteTestGlobal \/ WriteLoad \/ WriteStore
           \/ WritePublish
  BY <1>5, <1>o
  DEF WriteCall, WriteTestLocal, WriteTestGlobal, WriteLoad, WriteStore, WritePublish,
      SlotInv, IsUnread
<1>6. CASE ReadCall \/ ReadTestGlobal \/ ReadRefresh \/ ReadCount \/ ReadPublish
            \/ ReaderRestart
  BY <1>6, <1>o
  DEF ReadCall, ReadTestGlobal, ReadRefresh, ReadCount, ReadPublish, ReaderRestart,
      SlotInv, IsUnread
<1>7. CASE ApiStep \/ UNCHANGED vars
  BY <1>7, <1>o
  DEF ApiStep, WriterFlush, WriterFlushLoad, WriterFlushStore, ReaderFlush,
      ReaderFlushStore, ReaderFlushRead, ReadComplete, ReadCompleteLocal, vars,
      SlotInv, IsUnread
<1> QED
  BY <1>1, <1>2, <1>3, <1>4, <1>5, <1>6, <1>7
  DEF Next, ProgramNext, WriteStep, ReadStep

-----------------------------------------------------------------------------
(* The theorems.                                                           *)

(* A step that does not clash keeps the whole invariant.                   *)
LEMMA IInvStep ==
  ASSUME NoClash, IInv, [Next]_vars PROVE IInv'
  BY TypeOKStep, IndexOrderStep, WriterInvStep, ReaderInvStep, SlotInvStep DEF IInv

(* Nothing clashes unless both calls are made, or in the programs.         *)
LEMMA SafeCallsDoNotClash ==
  ASSUME IInv, SafeCalls \/ ProgramOnly PROVE NoClash
  BY DEF IInv, WriterInv, ReaderInv, SafeCalls, ProgramOnly, NoClash

(* The programs stay with their own calls.                                 *)
LEMMA ProgramOnlyStep ==
  ASSUME ProgramOnly, ProgramNext \/ ReaderRestart \/ UNCHANGED vars
  PROVE  ProgramOnly'
  BY DEF ProgramOnly, ProgramNext, WriteCall, WriteStep, WriteTestLocal, WriteTestGlobal,
         WriteLoad, WriteStore, WriteCopyBegin, WriteCopyEnd, WriteAdvance, WritePublish,
         ReadStep, ReadCall, ReadTestGlobal, ReadRefresh, ReadCopyBegin, ReadCopyEnd,
         ReadAdvance, ReadCount, ReadPublish, ReaderRestart, vars, writerLocal, readerLocal

(* The invariant holds of every set of calls but the one above.            *)
THEOREM Invariance == ASSUME SafeCalls PROVE Spec => []IInv
<1>1. Init => IInv BY InitIInv
<1>2. IInv /\ [Next]_vars => IInv' BY IInvStep, SafeCallsDoNotClash
<1> QED BY <1>1, <1>2, PTL DEF Spec

(* Every index stays a slot number.  This one needs no assumption on the   *)
(* calls: nextVal wraps whatever the other side has done.                  *)
THEOREM TypeCorrect == Spec => []TypeOK
<1>1. Init => TypeOK BY InitIInv DEF IInv
<1>2. TypeOK /\ [Next]_vars => TypeOK' BY TypeOKStep
<1> QED BY <1>1, <1>2, PTL DEF Spec

(* The picture in ringbuffer.h is always true: read_ringbuffer never       *)
(* passes write_ringbuffer, nor the other way round.                       *)
THEOREM IndexesNeverCross == ASSUME SafeCalls PROVE Spec => []IndexOrder
<1>1. IInv => IndexOrder BY DEF IInv
<1> QED BY <1>1, Invariance, PTL

(* The memcpy of write_ringbuffer and that of read_ringbuffer are never in *)
(* the same slot, though nothing locks it.                                 *)
LEMMA IInvCopiesApart == IInv => CopiesApart
  BY ReaderSlotUnread DEF IInv, ReaderInv, CopiesApart

(* While both sides are inside a memcpy, they are in different slots.      *)
THEOREM CopiesNeverMeet == ASSUME SafeCalls PROVE Spec => []CopiesApart
  BY IInvCopiesApart, Invariance, PTL

-----------------------------------------------------------------------------
(* The ring implements the queue.                                          *)

(* The i-th unread tuple is in the slot i - 1 ahead of nextReadIndex.      *)
LEMMA UnreadSlots ==
  ASSUME TypeOK, NEW i \in 1 .. Ahead(nextReadIndex, nextWriteIndex)
  PROVE  UnreadSlot(i) \in Slots /\ Ahead(nextReadIndex, UnreadSlot(i)) = i - 1
  BY SlotIndexes, SizeAssumption DEF UnreadSlot, Slots, Ahead

(* The unread slots are a sequence of whole tuples, one slot short of the  *)
(* ring at most.                                                           *)
LEMMA UnreadSeq ==
  IInv => /\ Unread \in Seq(Tuples)
          /\ Len(Unread) = Ahead(nextReadIndex, nextWriteIndex)
          /\ \A i \in 1 .. Len(Unread) : Unread[i] = data[UnreadSlot(i)]
<1> SUFFICES ASSUME IInv
             PROVE  /\ Unread \in Seq(Tuples)
                    /\ Len(Unread) = Ahead(nextReadIndex, nextWriteIndex)
                    /\ \A i \in 1 .. Len(Unread) : Unread[i] = data[UnreadSlot(i)]
  OBVIOUS
<1> DEFINE n == Ahead(nextReadIndex, nextWriteIndex)
<1>0. TypeOK /\ SlotInv BY DEF IInv
<1>1. n \in Nat BY <1>0, SlotIndexes, AheadSlot, SizeAssumption
<1>2. \A i \in 1 .. n : data[UnreadSlot(i)] \in Tuples
  <2> SUFFICES ASSUME NEW i \in 1 .. n PROVE data[UnreadSlot(i)] \in Tuples
    OBVIOUS
  <2>1. UnreadSlot(i) \in Slots /\ IsUnread(UnreadSlot(i))
    BY <1>0, <1>1, UnreadSlots DEF IsUnread
  <2> QED BY <1>0, <2>1 DEF SlotInv, TypeOK
<1>3. Unread \in [1 .. n -> Tuples] BY <1>2 DEF Unread
<1> QED BY <1>1, <1>3 DEF Unread

(* Steps that move neither end and store into no unread slot.              *)
LEMMA QueueSame ==
  ASSUME IInv, UNCHANGED <<nextReadIndex, nextWriteIndex>>,
         \A s \in Slots : IsUnread(s) => data'[s] = data[s]
  PROVE  Unread' = Unread
<1>0. TypeOK BY DEF IInv
<1>1. \A i \in 1 .. Ahead(nextReadIndex, nextWriteIndex) :
        data'[UnreadSlot(i)] = data[UnreadSlot(i)]
  <2> SUFFICES ASSUME NEW i \in 1 .. Ahead(nextReadIndex, nextWriteIndex)
               PROVE  data'[UnreadSlot(i)] = data[UnreadSlot(i)]
    OBVIOUS
  <2>1. Ahead(nextReadIndex, nextWriteIndex) \in Int
    BY <1>0, SlotIndexes, AheadSlot, SizeAssumption
  <2> QED BY <1>0, <2>1, UnreadSlots DEF IsUnread
<1>2. \A i \in 1 .. Ahead(nextReadIndex, nextWriteIndex) :
        UnreadSlot(i)' = UnreadSlot(i)
  BY DEF UnreadSlot
<1> QED BY <1>1, <1>2 DEF Unread, Ahead

(* The writer passing the end of its memcpy puts its tuple.                *)
LEMMA QueuePut ==
  ASSUME IInv, IInv', WriteAdvance PROVE \E t \in Tuples : Queue!Put(t)
<1> USE SizeAssumption
<1> DEFINE n == Ahead(nextReadIndex, nextWriteIndex)
<1>0. /\ TypeOK /\ SlotInv /\ IndexOrder
      /\ UNCHANGED <<data, nextReadIndex, rpc, rtuple>>
      /\ nextWriteIndex' = afterNextWriteIndex
      /\ wpc = "advance" /\ data[nextWriteIndex] = wtuple
  BY DEF IInv, WriteAdvance, SlotInv, readerMeta, readerLocal
<1>1. wtuple \in Tuples
  BY <1>0 DEF TypeOK, WriterCalls
<1>2. n \in Nat /\ Ahead(nextReadIndex, nextWriteIndex)' = n + 1 /\ n + 1 <= RB_SIZE - 1
  <2>1. afterNextWriteIndex # localReadIndex BY <1>0 DEF IInv, WriterInv
  <2>2. Ahead(localReadIndex, afterNextWriteIndex)
          = Ahead(localReadIndex, nextWriteIndex) + 1
    BY <1>0, <2>1, SlotIndexes, AheadNext DEF afterNextWriteIndex
  <2>3. \A x \in Slots : Ahead(localReadIndex, x) \in Int
    BY <1>0, SlotIndexes, AheadSlot
  <2>4. afterNextWriteIndex # nextReadIndex
    BY <1>0, <2>2, <2>3, SlotIndexes DEF IndexOrder, Ordered
  <2>5. afterNextWriteIndex \in Slots
    BY <1>0, SlotIndexes, NextValSlot DEF afterNextWriteIndex
  <2>6. Ahead(nextReadIndex, afterNextWriteIndex) = n + 1
    BY <1>0, <2>4, SlotIndexes, AheadNext DEF afterNextWriteIndex
  <2>7. n \in 0 .. RB_SIZE - 1 /\ n + 1 \in 0 .. RB_SIZE - 1
    BY <1>0, <2>5, <2>6, SlotIndexes, AheadSlot
  <2> QED BY <1>0, <2>6, <2>7 DEF Ahead
<1>3. Unread \in Seq(Tuples) /\ Len(Unread) = n
  BY UnreadSeq
<1>4. Unread' \in Seq(Tuples) /\ Len(Unread') = n + 1
  <2>1. (IInv => /\ Unread \in Seq(Tuples)
                 /\ Len(Unread) = Ahead(nextReadIndex, nextWriteIndex))'
    BY UnreadSeq, PTL
  <2> QED BY <1>2, <2>1
<1>5. \A i \in 1 .. n + 1 : Unread'[i] = data[UnreadSlot(i)]
  BY <1>0, <1>2 DEF Unread, UnreadSlot
<1>6. UnreadSlot(n + 1) = nextWriteIndex
  BY <1>0, SlotIndexes DEF UnreadSlot, Ahead, Slots
<1>7. Unread' = Append(Unread, wtuple)
  <2>1. Append(Unread, wtuple) \in Seq(Tuples) BY <1>1, <1>3
  <2>2. Len(Append(Unread, wtuple)) = n + 1 BY <1>1, <1>3
  <2>3. \A i \in 1 .. n + 1 : Unread'[i] = Append(Unread, wtuple)[i]
    <3> SUFFICES ASSUME NEW i \in 1 .. n + 1 PROVE Unread'[i] = Append(Unread, wtuple)[i]
      OBVIOUS
    <3>1. CASE i = n + 1 BY <3>1, <1>0, <1>1, <1>3, <1>5, <1>6
    <3>2. CASE i \in 1 .. n
      BY <3>2, <1>1, <1>3, <1>5, UnreadSeq
    <3>3. i = n + 1 \/ i \in 1 .. n
      <4>1. n \in Nat BY <1>2
      <4> HIDE DEF n
      <4> QED BY <4>1
    <3> QED BY <3>1, <3>2, <3>3
  <2> QED BY <1>4, <2>1, <2>2, <2>3, SeqEqual
<1>8. Len(Unread) < RB_SIZE - 1 BY <1>2, <1>3
<1>9. Taken' = Taken BY <1>0 DEF Taken
<1> QED BY <1>1, <1>7, <1>8, <1>9 DEF Queue!Put

(* The reader passing the end of its memcpy takes the oldest tuple.        *)
LEMMA QueueTake ==
  ASSUME IInv, IInv', ReadAdvance PROVE Queue!Take
<1> USE SizeAssumption
<1> DEFINE n == Ahead(nextReadIndex, nextWriteIndex)
<1>0. /\ TypeOK /\ IndexOrder
      /\ UNCHANGED <<data, nextWriteIndex, rtuple>>
      /\ nextReadIndex' = nextVal(nextReadIndex)
      /\ rpc = "advance" /\ rpc' = "count" /\ rtuple = data[nextReadIndex]
  BY DEF IInv, ReadAdvance, SlotInv, writerMeta
<1>1. n \in Nat /\ n >= 1
  <2>1. IsUnread(nextReadIndex)
    BY <1>0, ReaderSlotUnread DEF IInv, ReaderInv
  <2>2. Ahead(nextReadIndex, nextReadIndex) = 0 /\ n \in 0 .. RB_SIZE - 1
    BY <1>0, SlotIndexes, AheadSelf, AheadSlot
  <2> QED BY <2>1, <2>2 DEF IsUnread
<1>2. Ahead(nextReadIndex, nextWriteIndex)' = n - 1
  BY <1>0, <1>1, SlotIndexes DEF Ahead, nextVal, Slots
<1>3. Unread \in Seq(Tuples) /\ Len(Unread) = n BY UnreadSeq
<1>4. Unread' \in Seq(Tuples) /\ Len(Unread') = n - 1
  <2>1. (IInv => /\ Unread \in Seq(Tuples)
                 /\ Len(Unread) = Ahead(nextReadIndex, nextWriteIndex))'
    BY UnreadSeq, PTL
  <2> QED BY <1>2, <2>1
<1>5. \A i \in 1 .. n - 1 : Unread'[i] = Unread[i + 1]
  <2> SUFFICES ASSUME NEW i \in 1 .. n - 1 PROVE Unread'[i] = Unread[i + 1]
    OBVIOUS
  <2>1. UnreadSlot(i)' = UnreadSlot(i + 1)
    BY <1>0, <1>1, SlotIndexes DEF UnreadSlot, nextVal, Slots, Ahead
  <2>2. Unread'[i] = data[UnreadSlot(i)'] BY <1>0, <1>1, <1>2 DEF Unread
  <2>3. Unread[i + 1] = data[UnreadSlot(i + 1)] BY <1>1 DEF Unread
  <2> QED BY <2>1, <2>2, <2>3
<1>6. Unread' = Tail(Unread)
  <2>1. Tail(Unread) \in Seq(Tuples) /\ Len(Tail(Unread)) = n - 1
    BY <1>1, <1>3
  <2>2. \A i \in 1 .. n - 1 : Tail(Unread)[i] = Unread[i + 1]
    BY <1>1, <1>3
  <2> QED BY <1>4, <1>5, <2>1, <2>2, SeqEqual
<1>7. Head(Unread) = rtuple
  <2>1. UnreadSlot(1) = nextReadIndex
    BY <1>0, SlotIndexes DEF UnreadSlot, Slots
  <2> QED BY <1>0, <1>1, <1>3, <2>1, UnreadSeq
<1>8. Taken = NoTuple /\ Taken' = rtuple BY <1>0 DEF Taken
<1> QED BY <1>1, <1>3, <1>6, <1>7, <1>8 DEF Queue!Take

(* The zeroed ring is the empty queue.                                     *)
LEMMA QueueInit == Init => Queue!Init
  BY DEF Init, Queue!Init, Unread, Taken, Ahead

(* Every step of the ring is a step of the queue, or invisible to it.      *)
LEMMA QueueStep ==
  ASSUME IInv, IInv', [Next]_vars PROVE [Queue!Next]_<<Unread, Taken>>
<1> USE DEF writerMeta, readerMeta, writerLocal, readerLocal
<1>1. CASE WriteAdvance
  BY <1>1, QueuePut DEF Queue!Next
<1>2. CASE ReadAdvance
  BY <1>2, QueueTake DEF Queue!Next
<1>3. CASE ReadCount \/ ReadPublish \/ ReaderRestart
  <2>1. UNCHANGED <<data, nextReadIndex, nextWriteIndex>>
    BY <1>3 DEF ReadCount, ReadPublish, ReaderRestart
  <2>2. Unread' = Unread BY <2>1, QueueSame
  <2>3. CASE Taken = Taken' BY <2>2, <2>3
  <2>4. CASE Taken # Taken'
    <3>1. Taken' = NoTuple
      BY <1>3, <2>4 DEF ReadCount, ReadPublish, ReaderRestart, Taken
    <3> QED BY <2>2, <2>4, <3>1 DEF Queue!LetGo, Queue!Next
  <2> QED BY <2>3, <2>4
<1>4. CASE WriteCopyBegin \/ WriteCopyEnd
  <2>1. /\ UNCHANGED <<nextReadIndex, nextWriteIndex, rpc, rtuple>>
        /\ \A s \in Slots \ {nextWriteIndex} : data'[s] = data[s]
    BY <1>4 DEF WriteCopyBegin, WriteCopyEnd, IInv, TypeOK
  <2>2. ~IsUnread(nextWriteIndex)
    <3>1. Ahead(nextReadIndex, nextWriteIndex) \in Int
      BY SlotIndexes, AheadSlot, SizeAssumption DEF IInv
    <3> QED BY <3>1 DEF IsUnread
  <2> QED BY <2>1, <2>2, QueueSame DEF Taken
<1>5. CASE \/ \E t \in Tuples : WriteCall(t)
           \/ WriteTestLocal \/ WriteTestGlobal \/ WriteLoad \/ WriteStore
           \/ WritePublish
           \/ ReadCall \/ ReadTestGlobal \/ ReadRefresh \/ ReadCopyBegin
           \/ ReadCopyEnd \/ ApiStep \/ UNCHANGED vars
  <2>1. /\ UNCHANGED <<data, nextReadIndex, nextWriteIndex>>
        /\ Taken' = Taken
    BY <1>5
    DEF WriteCall, WriteTestLocal, WriteTestGlobal, WriteLoad, WriteStore, WritePublish,
        ReadCall, ReadTestGlobal, ReadRefresh, ReadCopyBegin, ReadCopyEnd, ApiStep,
        WriterFlush, WriterFlushLoad, WriterFlushStore, ReaderFlush, ReaderFlushStore,
        ReaderFlushRead, ReadComplete, ReadCompleteLocal, vars, Taken
  <2> QED BY <2>1, QueueSame
<1> QED BY <1>1, <1>2, <1>3, <1>4, <1>5 DEF Next, ProgramNext, WriteStep, ReadStep

(* The ring is a first-in first-out queue of RB_SIZE - 1 tuples: none is   *)
(* lost, doubled, torn or overtaken, however the calls interleave and      *)
(* whenever the reader is restarted.                                       *)
THEOREM RingIsQueue == ASSUME SafeCalls PROVE Spec => FifoQueue
<1>1. Init => Queue!Init BY QueueInit
<1>2. IInv /\ IInv' /\ [Next]_vars => [Queue!Next]_<<Unread, Taken>> BY QueueStep
<1> QED BY <1>1, <1>2, Invariance, PTL DEF Spec, FifoQueue, Queue!Spec

-----------------------------------------------------------------------------
(* Lags and advances.  Without restarts the lag of a published index is    *)
(* the batch counter; each restart of the reader may add one slot to it,   *)
(* for good.                                                               *)

(* A stored tuple takes nextWriteIndex one further from writeIndex.        *)
LEMMA WriterLagGrows ==
  ASSUME IInv, wpc = "advance"
  PROVE  Ahead(writeIndex, afterNextWriteIndex) = Ahead(writeIndex, nextWriteIndex) + 1
<1> USE SlotIndexes, AheadSlot, SizeAssumption
<1>1. TypeOK /\ Ordered(localReadIndex, writeIndex) BY DEF IInv, IndexOrder
<1>2. Ahead(localReadIndex, afterNextWriteIndex)
        = Ahead(localReadIndex, nextWriteIndex) + 1
  BY <1>1, AheadNext DEF IInv, WriterInv, afterNextWriteIndex
<1>3. /\ Ahead(localReadIndex, writeIndex) \in Int
      /\ Ahead(localReadIndex, nextWriteIndex) \in Int
  BY <1>1
<1>4. afterNextWriteIndex # writeIndex
  BY <1>1, <1>2, <1>3 DEF Ordered
<1> QED BY <1>1, <1>4, AheadNext DEF afterNextWriteIndex

(* A read tuple takes nextReadIndex one further from readIndex.            *)
LEMMA ReaderLagGrows ==
  ASSUME IInv, rpc = "advance"
  PROVE  Ahead(readIndex, nextVal(nextReadIndex)) = Ahead(readIndex, nextReadIndex) + 1
<1>1. TypeOK /\ Ordered(localReadIndex, writeIndex) BY DEF IInv, IndexOrder
<1>2. Ordered(readIndex, writeIndex)
  BY <1>1, SlotIndexes, OrderedFromReadIndex
<1>3. nextReadIndex # localWriteIndex BY DEF IInv, ReaderInv
<1> QED BY <1>1, <1>2, <1>3, SlotIndexes, ReaderHasRoom

-----------------------------------------------------------------------------
(* Without the calls nobody makes, the writer's batch counter counts       *)
(* exactly the tuples it has stored and not published; a killed reader     *)
(* leaves its counter at most one behind.                                  *)
WriterLag ==
  Ahead(writeIndex, nextWriteIndex) = wBatchCount + (IF wpc = "publish" THEN 1 ELSE 0)

CountedBelowBatch == IF rBatchCount < RB_BATCH THEN rBatchCount ELSE RB_BATCH - 1

RestartInv ==
  /\ restarts \in Nat
  /\ WriterLag
  /\ rpc = "publish" => rBatchCount >= RB_BATCH
  /\ Ahead(readIndex, nextReadIndex)
       <= restarts + CountedBelowBatch + (IF rpc \in {"count", "publish"} THEN 1 ELSE 0)

(* The writer's lag is its batch counter, whatever the reader does.        *)
LEMMA WriterLagStep ==
  ASSUME IInv, WriterLag, ProgramNext \/ ReaderRestart \/ UNCHANGED vars
  PROVE  WriterLag'
<1> USE SizeAssumption, BatchAssumption, SlotIndexes
    DEF writerMeta, readerMeta, writerLocal, readerLocal
<1>0. TypeOK /\ WriterLag /\ wBatchCount \in Int
  BY DEF IInv, TypeOK
<1>1. CASE WriteAdvance
  BY <1>0, <1>1, WriterLagGrows DEF WriteAdvance, WriterLag, Ahead
<1>2. CASE WritePublish
  BY <1>0, <1>2, AheadSelf DEF WritePublish, WriterLag, Ahead
<1>3. CASE \/ \E t \in Tuples : WriteCall(t)
           \/ WriteTestLocal \/ WriteTestGlobal \/ WriteLoad \/ WriteStore
           \/ WriteCopyBegin \/ WriteCopyEnd
  BY <1>0, <1>3
  DEF WriteCall, WriteTestLocal, WriteTestGlobal, WriteLoad, WriteStore, WriteCopyBegin,
      WriteCopyEnd, WriterLag, Ahead
<1>4. CASE ReadStep \/ ReaderRestart \/ UNCHANGED vars
  <2>1. UNCHANGED <<writeIndex, nextWriteIndex, wBatchCount, wpc>>
    BY <1>4
    DEF ReadStep, ReadCall, ReadTestGlobal, ReadRefresh, ReadCopyBegin, ReadCopyEnd,
        ReadAdvance, ReadCount, ReadPublish, ReaderRestart, vars
  <2> QED BY <1>0, <2>1 DEF WriterLag, Ahead
<1> QED BY <1>1, <1>2, <1>3, <1>4 DEF ProgramNext, WriteStep

(* Each restart adds at most one slot to the lag of readIndex.             *)
LEMMA RestartInvStep ==
  ASSUME IInv, RestartInv, [RestartNext]_<<vars, restarts>> PROVE RestartInv'
<1> USE SizeAssumption, BatchAssumption, SlotIndexes
    DEF writerMeta, readerMeta, writerLocal, readerLocal, CountedBelowBatch
<1>0. TypeOK /\ RestartInv /\ rBatchCount \in Nat /\ RB_BATCH \in Nat
  BY DEF IInv, TypeOK
<1>d. Ahead(readIndex, nextReadIndex) \in Nat
  BY <1>0, AheadSlot
<1>w. WriterLag'
  BY <1>0, WriterLagStep DEF RestartInv, RestartNext, Restart, vars
<1>1. CASE Restart
  <2>1. restarts' = restarts + 1 /\ rpc' = "idle"
        /\ UNCHANGED <<nextReadIndex, rBatchCount>>
    BY <1>1 DEF Restart, ReaderRestart
  <2>2. CASE readIndex' = readIndex
    <3>1. Ahead(readIndex, nextReadIndex)' = Ahead(readIndex, nextReadIndex)
      BY <2>1, <2>2 DEF Ahead
    <3> QED BY <1>0, <1>d, <1>w, <2>1, <3>1 DEF RestartInv
  <2>3. CASE readIndex' = nextReadIndex
    <3>1. Ahead(readIndex, nextReadIndex)' = 0
      BY <1>0, <2>1, <2>3, AheadSelf DEF Ahead
    <3> QED BY <1>0, <1>w, <2>1, <3>1 DEF RestartInv
  <2> QED BY <1>1, <2>2, <2>3 DEF Restart, ReaderRestart
<1>2. CASE ReadAdvance /\ UNCHANGED restarts
  <2>1. Ahead(readIndex, nextReadIndex)' = Ahead(readIndex, nextReadIndex) + 1
    BY <1>2, ReaderLagGrows DEF ReadAdvance, Ahead
  <2> QED BY <1>0, <1>2, <1>d, <1>w, <2>1 DEF ReadAdvance, RestartInv
<1>3. CASE ReadCount /\ UNCHANGED restarts
  <2>1. Ahead(readIndex, nextReadIndex)' = Ahead(readIndex, nextReadIndex)
    BY <1>3 DEF ReadCount, Ahead
  <2> QED BY <1>0, <1>3, <1>d, <1>w, <2>1 DEF ReadCount, RestartInv, batchDone
<1>4. CASE ReadPublish /\ UNCHANGED restarts
  <2>1. Ahead(readIndex, nextReadIndex)' = 0
    BY <1>0, <1>4, AheadSelf DEF ReadPublish, Ahead
  <2> QED BY <1>0, <1>4, <1>w, <2>1 DEF ReadPublish, RestartInv
<1>5. CASE ((\E t \in Tuples : WriteCall(t)) \/ WriteStep) /\ UNCHANGED restarts
  <2>1. UNCHANGED <<readIndex, nextReadIndex, rBatchCount, rpc>>
    BY <1>5
    DEF WriteCall, WriteStep, WriteTestLocal, WriteTestGlobal, WriteLoad, WriteStore,
        WriteCopyBegin, WriteCopyEnd, WriteAdvance, WritePublish
  <2> QED BY <1>0, <1>5, <1>w, <2>1 DEF RestartInv, Ahead
<1>6. CASE (ReadCall \/ ReadTestGlobal \/ ReadRefresh \/ ReadCopyBegin \/ ReadCopyEnd)
           /\ UNCHANGED restarts
  <2>1. Ahead(readIndex, nextReadIndex)' = Ahead(readIndex, nextReadIndex)
    BY <1>6 DEF ReadCall, ReadTestGlobal, ReadRefresh, ReadCopyBegin, ReadCopyEnd, Ahead
  <2> QED
    BY <1>0, <1>6, <1>d, <1>w, <2>1
    DEF ReadCall, ReadTestGlobal, ReadRefresh, ReadCopyBegin, ReadCopyEnd, RestartInv
<1>7. CASE UNCHANGED <<vars, restarts>>
  BY <1>0, <1>7, <1>w DEF vars, RestartInv, Ahead
<1> QED
  BY <1>1, <1>2, <1>3, <1>4, <1>5, <1>6, <1>7 DEF RestartNext, ProgramNext, ReadStep

(* A full ring is reported only if the slots withheld are all that is      *)
(* missing, an empty one only if all that waits is unpublished.            *)
LEMMA LagReports ==
  ASSUME IInv, RestartInv PROVE FullIsFull /\ EmptyIsEmpty /\ FewWithheld
<1> USE SizeAssumption, BatchAssumption, SlotIndexes
<1>0. TypeOK /\ RestartInv BY DEF IInv
<1>1. FewWithheld /\ Ahead(readIndex, nextReadIndex) \in Nat
  <2>1. Ahead(readIndex, nextReadIndex) \in Nat BY <1>0, AheadSlot
  <2> QED BY <1>0, <2>1 DEF RestartInv, FewWithheld, CountedBelowBatch, TypeOK
<1>2. FullIsFull
  <2> SUFFICES ASSUME afterNextWriteIndex = readIndex
               PROVE  Ahead(nextReadIndex, nextWriteIndex)
                        >= RB_SIZE - 1 - (restarts + RB_BATCH)
    BY DEF FullIsFull
  <2>1. Ahead(readIndex, nextWriteIndex) = RB_SIZE - 1
    BY <1>0 DEF afterNextWriteIndex, nextVal, Ahead, Slots
  <2>2. Ahead(readIndex, nextReadIndex) <= Ahead(readIndex, nextWriteIndex)
    BY <1>0, <2>1, AheadSlot DEF Slots
  <2>3. Ahead(nextReadIndex, nextWriteIndex)
          = Ahead(readIndex, nextWriteIndex) - Ahead(readIndex, nextReadIndex)
    BY <1>0, <2>2, AheadRebase
  <2> QED BY <1>0, <1>1, <2>1, <2>3 DEF FewWithheld, RestartInv
<1>3. EmptyIsEmpty
  <2> SUFFICES ASSUME nextReadIndex = writeIndex
               PROVE  Ahead(nextReadIndex, nextWriteIndex) <= RB_BATCH
    BY DEF EmptyIsEmpty
  <2> QED BY <1>0 DEF RestartInv, WriterLag, TypeOK
<1> QED BY <1>1, <1>2, <1>3

(* RestartInv is inductive together with the ring's own invariant.         *)
LEMMA RestartInvariance ==
  RestartSpec => [](IInv /\ ProgramOnly /\ RestartInv)
<1> DEFINE Inv == IInv /\ ProgramOnly /\ RestartInv
<1>1. RestartInit => Inv
  BY InitIInv, SizeAssumption, BatchAssumption
  DEF RestartInit, Init, RestartInv, WriterLag, Ahead, CountedBelowBatch, ProgramOnly
<1>2. Inv /\ [RestartNext]_<<vars, restarts>> => Inv'
  <2> SUFFICES ASSUME Inv, [RestartNext]_<<vars, restarts>> PROVE Inv'
    OBVIOUS
  <2>1. ProgramNext \/ ReaderRestart \/ UNCHANGED vars
    BY DEF RestartNext, Restart, vars
  <2>2. IInv' BY <2>1, IInvStep, SafeCallsDoNotClash DEF Next
  <2> QED BY <2>1, <2>2, ProgramOnlyStep, RestartInvStep
<1> QED BY <1>1, <1>2, PTL DEF RestartSpec

(* As the programs run, write_ringbuffer says "full" and read_ringbuffer   *)
(* says "empty" only when it is so up to one unpublished batch and to one  *)
(* slot for every time user_reader was killed.                             *)
THEOREM ReportsAreHonest ==
  RestartSpec => []ReportsHonest
<1> QED BY RestartInvariance, LagReports, PTL DEF ReportsHonest

(* However often and wherever user_reader is killed, at most one slot per  *)
(* restart, and the current batch, is withheld from the writer.            *)
THEOREM RestartsWithholdLittle ==
  RestartSpec => []FewWithheld
<1> QED BY RestartInvariance, LagReports, PTL

-----------------------------------------------------------------------------
(* Stores that are seen late (RingStores).  What a side sees of the other  *)
(* is behind what was stored, and never further behind than what it knew   *)
(* already: with late stores a call finds the ring full or empty when it   *)
(* is not, and nothing worse.                                              *)

(* Going round from localReadIndex, b is not before a.                     *)
NotPassed(a, b) == Ahead(localReadIndex, a) <= Ahead(localReadIndex, b)

(* The slot s is read before the reader has come to w.                     *)
Below(s, w) == Ahead(nextReadIndex, s) < Ahead(nextReadIndex, w)

StoreType == [at : Slots, value : Tuples \cup {NoTuple}]
               \cup [at : {AtWriteIndex}, value : Slots]

StoresTypeOK ==
  /\ seenData \in [Slots -> Tuples \cup {NoTuple}]
  /\ seenWriteIndex \in Slots /\ seenReadIndex \in Slots
  /\ stores \in Seq(StoreType) /\ readStores \in Seq(Slots)

(* The stores to readIndex that wait are in order between what the writer  *)
(* sees and what was stored last.                                          *)
SeenReadInv ==
  /\ NotPassed(seenReadIndex, readIndex)
  /\ \A i \in 1 .. Len(readStores) :
       /\ NotPassed(seenReadIndex, readStores[i]) /\ NotPassed(readStores[i], readIndex)
       /\ \A j \in i .. Len(readStores) : NotPassed(readStores[i], readStores[j])
  /\ wpc = "load" => afterNextWriteIndex # seenReadIndex
  /\ wpc = "store" => NotPassed(wreg, seenReadIndex)

(* So are those to writeIndex.                                             *)
IndexStores == {k \in 1 .. Len(stores) : stores[k].at = AtWriteIndex}

SeenWriteInv ==
  /\ NotPassed(localWriteIndex, seenWriteIndex) /\ NotPassed(seenWriteIndex, writeIndex)
  /\ \A i \in IndexStores :
       /\ NotPassed(seenWriteIndex, stores[i].value)
       /\ NotPassed(stores[i].value, writeIndex)
       /\ \A j \in IndexStores : i <= j => NotPassed(stores[i].value, stores[j].value)
  /\ rpc = "refresh" => nextReadIndex # seenWriteIndex

(* A slot that an index promises to the reader is not stored to after the  *)
(* index; and what is stored last is what will be seen last.               *)
PromiseInv ==
  \A j \in 1 .. Len(stores) : stores[j].at \in Slots =>
    /\ ~Below(stores[j].at, seenWriteIndex)
    /\ \A i \in IndexStores : i < j => ~Below(stores[j].at, stores[i].value)

SeenLast(s, k) ==
  /\ stores[k].at = s /\ stores[k].value = data[s]
  /\ \A j \in k + 1 .. Len(stores) : stores[j].at # s

NoStoreTo(s) == \A j \in 1 .. Len(stores) : stores[j].at # s

SeenDataInv ==
  \A s \in Slots :
    \/ \E k \in 1 .. Len(stores) : SeenLast(s, k)
    \/ seenData[s] = data[s] /\ NoStoreTo(s)

StoresInv ==
  /\ IInv /\ ProgramOnly /\ StoresTypeOK
  /\ SeenReadInv /\ SeenWriteInv /\ PromiseInv /\ SeenDataInv

-----------------------------------------------------------------------------
(* Lemmas on the order of slots, and on the queues of stores.              *)

(* Slots in order from one base are in order from any base behind them.    *)
LEMMA AheadRebaseOrder ==
  ASSUME NEW a \in Slots, NEW b \in Slots, NEW c \in Slots, NEW d \in Slots,
         Ahead(a, b) <= Ahead(a, c), Ahead(a, c) <= Ahead(a, d)
  PROVE  Ahead(b, c) <= Ahead(b, d)
  BY SizeAssumption DEF Slots, Ahead

(* A base may move past itself to the next slot.                           *)
LEMMA AheadNextBase ==
  ASSUME NEW a \in Slots, NEW b \in Slots, NEW c \in Slots, b # a,
         Ahead(a, b) <= Ahead(a, c)
  PROVE  Ahead(nextVal(a), b) <= Ahead(nextVal(a), c)
  BY SizeAssumption DEF Slots, Ahead, nextVal

(* A slot after b that is not the base is not a slot at or before b.       *)
LEMMA AheadNextBeyond ==
  ASSUME NEW a \in Slots, NEW b \in Slots, NEW c \in Slots, nextVal(b) # a,
         Ahead(a, c) <= Ahead(a, b)
  PROVE  nextVal(b) # c
  BY SizeAssumption DEF Slots, Ahead, nextVal

(* What is left of a queue when its first store is seen.                   *)
LEMMA RemoveFirstStore ==
  ASSUME NEW T, NEW q \in Seq(T), q # <<>>
  PROVE  /\ RemoveAt(q, 1) \in Seq(T) /\ Len(RemoveAt(q, 1)) = Len(q) - 1
         /\ \A i \in 1 .. Len(q) - 1 : RemoveAt(q, 1)[i] = q[i + 1]
<1>1. SubSeq(q, 1, 0) = <<>> BY SubSeqEmpty, LenProperties
<1>2. SubSeq(q, 2, Len(q)) = Tail(q) BY TailIsSubSeq
<1>3. RemoveAt(q, 1) = Tail(q)
  <2>1. Tail(q) \in Seq(T) BY HeadTailProperties
  <2> QED BY <1>1, <1>2, <2>1, ConcatEmptySeq DEF RemoveAt
<1>4. Tail(q) \in Seq(T) /\ Len(Tail(q)) = Len(q) - 1
      /\ \A i \in 1 .. Len(q) - 1 : Tail(q)[i] = q[i + 1]
  BY HeadTailProperties
<1> QED BY <1>3, <1>4

(* One store makes a sequence of one store, none makes none.               *)
LEMMA OneStore == ASSUME NEW e PROVE SetToSeq({e}) = <<e>>
<1>1. Cardinality({e}) = 1 BY FS_Singleton
<1>2. <<e>> \in [1 .. 1 -> {e}] /\ IsInjective(<<e>>) BY DEF IsInjective
<1>3. SetToSeq({e}) \in [1 .. 1 -> {e}] BY <1>1, <1>2 DEF SetToSeq
<1> QED BY <1>3

LEMMA NoStore == SetToSeq({}) = <<>>
<1>1. Cardinality({}) = 0 BY FS_EmptySet
<1>2. <<>> \in [1 .. 0 -> {}] /\ IsInjective(<<>>) BY DEF IsInjective
<1>3. SetToSeq({}) \in [1 .. 0 -> {}] BY <1>1, <1>2 DEF SetToSeq
<1> QED BY <1>3

-----------------------------------------------------------------------------
(* Every step with late stores is a step of the ring, or one of four that  *)
(* act on what was true a moment ago.                                      *)

AllButWriter == <<data, readIndex, writeIndex, writerMeta, readerMeta, readerLocal>>
AllButReader == <<data, readIndex, writeIndex, writerMeta, nextReadIndex, rBatchCount,
                  writerLocal, rreg, rtuple>>

(* write_ringbuffer returns -1, with a readIndex that has moved on.        *)
LateFull ==
  /\ wpc = "testGlobal" /\ wpc' = "testLocal"
  /\ UNCHANGED <<wreg, wtuple, AllButWriter>>

(* It takes what it sees of readIndex for localReadIndex.                  *)
LateLoad ==
  /\ wpc = "load" /\ wpc' = "store" /\ wreg' = seenReadIndex
  /\ UNCHANGED <<wtuple, AllButWriter>>

(* read_ringbuffer returns -1, with a writeIndex that has moved on.        *)
LateEmpty ==
  /\ rpc = "testGlobal" /\ rpc' = "idle"
  /\ UNCHANGED <<localWriteIndex, AllButReader>>

(* It takes what it sees of writeIndex for localWriteIndex.                *)
LateRefresh ==
  /\ rpc = "refresh" /\ rpc' = "copy" /\ localWriteIndex' = seenWriteIndex
  /\ UNCHANGED AllButReader

LateStep == LateFull \/ LateLoad \/ LateEmpty \/ LateRefresh

(* What the writer sees of readIndex leaves no room that is not there.     *)
LEMMA SeenOrder ==
  ASSUME TypeOK, IndexOrder, StoresTypeOK, SeenReadInv
  PROVE  /\ Ordered(seenReadIndex, writeIndex)
         /\ afterNextWriteIndex # seenReadIndex => afterNextWriteIndex # readIndex
<1> USE SlotIndexes, SizeAssumption, AheadSlot
<1>1. seenReadIndex \in Slots BY DEF StoresTypeOK
<1>2. /\ Ahead(localReadIndex, seenReadIndex) <= Ahead(localReadIndex, readIndex)
      /\ Ordered(localReadIndex, writeIndex)
  BY DEF SeenReadInv, NotPassed, IndexOrder
<1>3. \A x \in Slots : Ahead(localReadIndex, x) \in Int BY DEF Slots
<1>4. \A x \in {readIndex, nextReadIndex, localWriteIndex, writeIndex, nextWriteIndex} :
        x \in Slots /\ Ahead(localReadIndex, seenReadIndex) <= Ahead(localReadIndex, x)
  BY <1>1, <1>2, <1>3 DEF Ordered
<1>5. Ordered(seenReadIndex, writeIndex)
  BY <1>1, <1>2, <1>4, AheadRebaseOrder DEF Ordered
<1>6. Ahead(seenReadIndex, readIndex) <= Ahead(seenReadIndex, nextWriteIndex)
  <2>1. Ahead(localReadIndex, readIndex) <= Ahead(localReadIndex, nextWriteIndex)
    BY <1>2, <1>3 DEF Ordered
  <2> QED BY <1>1, <1>2, <2>1, AheadRebaseOrder
<1> QED BY <1>1, <1>5, <1>6, AheadNextBeyond DEF afterNextWriteIndex

(* Every step of the writer is a step of the ring, or a late one.          *)
LEMMA WriterStepIs ==
  ASSUME TypeOK, IndexOrder, StoresTypeOK, SeenReadInv, WriterStep
  PROVE  \/ \E t \in Tuples : WriteCall(t)
         \/ WriteStep \/ LateFull \/ LateLoad
<1> USE DEF writerMeta, readerMeta, writerLocal, readerLocal, Writer!writerMeta,
            Writer!readerMeta, Writer!writerLocal, Writer!readerLocal
<1>1. UNCHANGED <<readIndex, seenReadIndex>>
  BY DEF WriterStep, Writer!WriteCall, Writer!WriteStep, Writer!WriteTestLocal,
         Writer!WriteTestGlobal, Writer!WriteLoad, Writer!WriteStore,
         Writer!WriteCopyBegin, Writer!WriteCopyEnd, Writer!WriteAdvance,
         Writer!WritePublish
<1>2. CASE \E t \in Tuples : Writer!WriteCall(t)
  BY <1>1, <1>2 DEF Writer!WriteCall, WriteCall
<1>3. CASE Writer!WriteTestLocal
  BY <1>1, <1>3 DEF Writer!WriteTestLocal, WriteTestLocal, WriteStep,
                    Writer!afterNextWriteIndex, afterNextWriteIndex, Writer!nextVal, nextVal
<1>4. CASE Writer!WriteTestGlobal
  <2>1. CASE afterNextWriteIndex = seenReadIndex
    BY <1>1, <1>4, <2>1
    DEF Writer!WriteTestGlobal, Writer!RingFull, Writer!afterNextWriteIndex,
        Writer!nextVal, afterNextWriteIndex, nextVal, LateFull, AllButWriter
  <2>2. CASE afterNextWriteIndex # seenReadIndex
    <3>1. afterNextWriteIndex # readIndex BY <2>2, SeenOrder
    <3> QED
      BY <1>1, <1>4, <2>2, <3>1
      DEF Writer!WriteTestGlobal, Writer!RingFull, Writer!afterNextWriteIndex,
          Writer!nextVal, afterNextWriteIndex, nextVal, WriteTestGlobal, RingFull, WriteStep
  <2> QED BY <2>1, <2>2
<1>5. CASE Writer!WriteLoad
  BY <1>1, <1>5 DEF Writer!WriteLoad, LateLoad, AllButWriter
<1>6. CASE Writer!WriteStore
  BY <1>1, <1>6 DEF Writer!WriteStore, WriteStore, WriteStep
<1>7. CASE Writer!WriteCopyBegin
  BY <1>1, <1>7 DEF Writer!WriteCopyBegin, WriteCopyBegin, WriteStep
<1>8. CASE Writer!WriteCopyEnd
  BY <1>1, <1>8 DEF Writer!WriteCopyEnd, WriteCopyEnd, WriteStep
<1>9. CASE Writer!WriteAdvance
  BY <1>1, <1>9 DEF Writer!WriteAdvance, WriteAdvance, WriteStep,
                    Writer!afterNextWriteIndex, afterNextWriteIndex, Writer!nextVal, nextVal
<1>10. CASE Writer!WritePublish
  BY <1>1, <1>10 DEF Writer!WritePublish, WritePublish, WriteStep, Writer!batchDone,
     batchDone
<1> QED
  BY <1>2, <1>3, <1>4, <1>5, <1>6, <1>7, <1>8, <1>9, <1>10 DEF WriterStep, Writer!WriteStep

(* A slot that the reader was promised is seen as it was stored.           *)
LEMMA PromisedIsSeen ==
  ASSUME TypeOK, IndexOrder, StoresTypeOK, SeenWriteInv, PromiseInv, SeenDataInv,
         nextReadIndex # localWriteIndex
  PROVE  seenData[nextReadIndex] = data[nextReadIndex] /\ NoStoreTo(nextReadIndex)
<1> USE SlotIndexes, SizeAssumption
<1>1. seenWriteIndex \in Slots BY DEF StoresTypeOK
<1>2. \A x \in Slots : Ahead(localReadIndex, x) \in Int BY AheadSlot DEF Slots
<1>3. Ahead(localReadIndex, nextReadIndex) < Ahead(localReadIndex, localWriteIndex)
  BY ReaderHasRoom DEF IndexOrder
<1>4. nextReadIndex # seenWriteIndex
  BY <1>1, <1>2, <1>3 DEF SeenWriteInv, NotPassed
<1>5. Below(nextReadIndex, seenWriteIndex)
  <2>1. /\ Ahead(nextReadIndex, nextReadIndex) = 0
        /\ Ahead(nextReadIndex, seenWriteIndex) \in 0 .. RB_SIZE - 1
        /\ Ahead(nextReadIndex, seenWriteIndex) # Ahead(nextReadIndex, nextReadIndex)
    BY <1>1, <1>4, AheadSelf, AheadSlot, AheadEqual
  <2> QED BY <2>1 DEF Below
<1>6. NoStoreTo(nextReadIndex)
  BY <1>5 DEF PromiseInv, NoStoreTo
<1>7. \A k \in 1 .. Len(stores) : ~SeenLast(nextReadIndex, k)
  BY <1>6 DEF NoStoreTo, SeenLast
<1> QED BY <1>6, <1>7 DEF SeenDataInv

(* Every step of the reader is a step of the ring, or a late one.          *)
LEMMA ReaderStepIs ==
  ASSUME StoresInv, ReaderStep
  PROVE  ReadStep \/ ReaderRestart \/ LateEmpty \/ LateRefresh
<1> USE DEF writerMeta, readerMeta, writerLocal, readerLocal, Reader!writerMeta,
            Reader!readerMeta, Reader!writerLocal, Reader!readerLocal
<1>0. /\ TypeOK /\ IndexOrder /\ ReaderInv /\ StoresTypeOK /\ SeenWriteInv
      /\ PromiseInv /\ SeenDataInv
  BY DEF StoresInv, IInv
<1>1. UNCHANGED <<data, writeIndex>>
  BY DEF ReaderStep
<1>2. CASE Reader!ReadCall
  BY <1>1, <1>2 DEF Reader!ReadCall, ReadCall, ReadStep
<1>3. CASE Reader!ReadTestGlobal
  <2>1. CASE nextReadIndex = seenWriteIndex
    BY <1>1, <1>3, <2>1 DEF Reader!ReadTestGlobal, LateEmpty, AllButReader
  <2>2. CASE nextReadIndex # seenWriteIndex
    <3>1. /\ nextReadIndex = localWriteIndex /\ seenWriteIndex \in Slots
          /\ NotPassed(localWriteIndex, seenWriteIndex)
          /\ NotPassed(seenWriteIndex, writeIndex)
      BY <1>0, <1>3 DEF Reader!ReadTestGlobal, ReaderInv, SeenWriteInv, StoresTypeOK
    <3>2. nextReadIndex # writeIndex
      <4>1. /\ Ahead(localReadIndex, nextReadIndex) # Ahead(localReadIndex, seenWriteIndex)
            /\ \A x \in Slots : Ahead(localReadIndex, x) \in Int
        BY <1>0, <2>2, <3>1, SlotIndexes, AheadEqual, AheadSlot, SizeAssumption
      <4> QED BY <1>0, <3>1, <4>1, SlotIndexes DEF NotPassed
    <3> QED BY <1>1, <1>3, <2>2, <3>2 DEF Reader!ReadTestGlobal, ReadTestGlobal, ReadStep
  <2> QED BY <2>1, <2>2
<1>4. CASE Reader!ReadRefresh
  BY <1>1, <1>4 DEF Reader!ReadRefresh, LateRefresh, AllButReader
<1>5. CASE Reader!ReadCopyBegin
  <2>1. seenData[nextReadIndex] = data[nextReadIndex]
    BY <1>0, <1>5, PromisedIsSeen DEF Reader!ReadCopyBegin, ReaderInv
  <2> QED BY <1>1, <1>5, <2>1 DEF Reader!ReadCopyBegin, ReadCopyBegin, ReadStep
<1>6. CASE Reader!ReadCopyEnd
  <2>1. seenData[nextReadIndex] = data[nextReadIndex]
    BY <1>0, <1>6, PromisedIsSeen DEF Reader!ReadCopyEnd, ReaderInv
  <2> QED BY <1>1, <1>6, <2>1 DEF Reader!ReadCopyEnd, ReadCopyEnd, ReadStep
<1>7. CASE Reader!ReadAdvance
  BY <1>1, <1>7 DEF Reader!ReadAdvance, ReadAdvance, ReadStep, Reader!nextVal, nextVal
<1>8. CASE Reader!ReadCount
  BY <1>1, <1>8 DEF Reader!ReadCount, ReadCount, ReadStep, Reader!batchDone, batchDone
<1>9. CASE Reader!ReadPublish
  BY <1>1, <1>9 DEF Reader!ReadPublish, ReadPublish, ReadStep
<1>10. CASE Reader!ReaderRestart
  BY <1>1, <1>10 DEF Reader!ReaderRestart, ReaderRestart
<1> QED
  BY <1>2, <1>3, <1>4, <1>5, <1>6, <1>7, <1>8, <1>9, <1>10 DEF ReaderStep, Reader!ReadStep

(* A late step keeps the invariant of the ring.                            *)
LEMMA LateStepKeeps ==
  ASSUME StoresInv, LateStep PROVE IInv' /\ ProgramOnly'
<1> USE SizeAssumption DEF writerMeta, readerMeta, writerLocal, readerLocal
<1>0. /\ TypeOK /\ IndexOrder /\ WriterInv /\ ReaderInv /\ SlotInv /\ ProgramOnly
      /\ StoresTypeOK /\ SeenReadInv /\ SeenWriteInv
      /\ seenReadIndex \in Slots /\ seenWriteIndex \in Slots
      /\ Ordered(localReadIndex, writeIndex)
  BY DEF StoresInv, IInv, StoresTypeOK, IndexOrder
<1>d. \A x \in Slots : Ahead(localReadIndex, x) \in Int
  BY <1>0, SlotIndexes, AheadSlot DEF Slots
<1>1. CASE LateFull
  <2>1. UNCHANGED <<wreg, wtuple, AllButWriter>> /\ wpc' = "testLocal" /\ wpc = "testGlobal"
    BY <1>1 DEF LateFull
  <2>2. TypeOK' /\ ProgramOnly'
    BY <1>0, <2>1 DEF TypeOK, ProgramOnly, AllButWriter, WriterCalls
  <2>3. IndexOrder' /\ WriterInv'
    BY <1>0, <2>1 DEF IndexOrder, Ordered, AllButWriter, WriterInv, afterNextWriteIndex
  <2>4. ReaderInv' /\ SlotInv'
    BY <1>0, <2>1 DEF ReaderInv, SlotInv, IsUnread, AllButWriter, Ordered
  <2> QED BY <2>2, <2>3, <2>4 DEF IInv
<1>2. CASE LateLoad
  <2>1. /\ UNCHANGED <<wtuple, AllButWriter>> /\ wpc' = "store" /\ wreg' = seenReadIndex
        /\ wpc = "load"
    BY <1>2 DEF LateLoad
  <2>2. TypeOK'
    BY <1>0, <2>1 DEF TypeOK, AllButWriter, WriterCalls
  <2>3. IndexOrder' /\ ProgramOnly'
    BY <1>0, <2>1 DEF IndexOrder, Ordered, AllButWriter, ProgramOnly
  <2>4. afterNextWriteIndex # seenReadIndex /\ Ordered(seenReadIndex, writeIndex)
    BY <1>0, <2>1, SeenOrder DEF SeenReadInv
  <2>5. WriterInv'
    BY <2>1, <2>4 DEF WriterInv, Ordered, AllButWriter, afterNextWriteIndex
  <2>6. ReaderInv' /\ SlotInv'
    BY <1>0, <2>1 DEF ReaderInv, SlotInv, IsUnread, AllButWriter, ProgramOnly
  <2> QED BY <2>2, <2>3, <2>5, <2>6 DEF IInv
<1>3. CASE LateEmpty
  <2>1. UNCHANGED <<localWriteIndex, AllButReader>> /\ rpc' = "idle" /\ rpc = "testGlobal"
    BY <1>3 DEF LateEmpty
  <2>2. TypeOK' /\ ProgramOnly'
    BY <1>0, <2>1 DEF TypeOK, ProgramOnly, AllButReader, ReaderCalls
  <2>3. IndexOrder' /\ WriterInv'
    BY <1>0, <2>1 DEF IndexOrder, Ordered, AllButReader, WriterInv, afterNextWriteIndex
  <2>4. ReaderInv' /\ SlotInv'
    BY <1>0, <2>1 DEF ReaderInv, SlotInv, IsUnread, AllButReader
  <2> QED BY <2>2, <2>3, <2>4 DEF IInv
<1>4. CASE LateRefresh
  <2>1. /\ UNCHANGED AllButReader /\ rpc' = "copy" /\ localWriteIndex' = seenWriteIndex
        /\ rpc = "refresh"
    BY <1>4 DEF LateRefresh
  <2>2. TypeOK' /\ ProgramOnly'
    BY <1>0, <2>1 DEF TypeOK, ProgramOnly, AllButReader, ReaderCalls
  <2>3. IndexOrder'
    BY <1>0, <1>d, <2>1, SlotIndexes
    DEF IndexOrder, Ordered, AllButReader, SeenWriteInv, NotPassed
  <2>4. WriterInv'
    <3>1. wpc = "store" => Ordered(wreg, writeIndex)'
      <4> SUFFICES ASSUME wpc = "store" PROVE Ordered(wreg, writeIndex)'
        OBVIOUS
      <4>1. Ordered(wreg, writeIndex) /\ NotPassed(wreg, seenReadIndex)
        BY <1>0 DEF WriterInv, SeenReadInv
      <4>2. Ahead(localReadIndex, wreg) <= Ahead(localReadIndex, localWriteIndex)
        BY <1>0, <1>d, <4>1, SlotIndexes DEF SeenReadInv, NotPassed, Ordered
      <4>3. /\ Ahead(wreg, localWriteIndex) <= Ahead(wreg, seenWriteIndex)
            /\ Ahead(wreg, seenWriteIndex) <= Ahead(wreg, writeIndex)
        <5>1. Ahead(localReadIndex, wreg) <= Ahead(localReadIndex, seenWriteIndex)
          BY <1>0, <1>d, <4>2, SlotIndexes DEF SeenWriteInv, NotPassed
        <5> QED
          BY <1>0, <4>2, <5>1, SlotIndexes, AheadRebaseOrder DEF SeenWriteInv, NotPassed
      <4>4. \A x \in Slots : Ahead(wreg, x) \in Int
        BY <1>0, SlotIndexes, AheadSlot DEF Slots
      <4> QED BY <1>0, <2>1, <4>1, <4>3, <4>4, SlotIndexes DEF Ordered, AllButReader
    <3> QED BY <1>0, <2>1, <3>1 DEF WriterInv, AllButReader, afterNextWriteIndex,
               ProgramOnly
  <2>5. ReaderInv'
    BY <1>0, <2>1 DEF ReaderInv, AllButReader, SeenWriteInv
  <2>6. SlotInv'
    BY <1>0, <2>1 DEF SlotInv, IsUnread, AllButReader
  <2> QED BY <2>2, <2>3, <2>4, <2>5, <2>6 DEF IInv
<1> QED BY <1>1, <1>2, <1>3, <1>4 DEF LateStep

(* What is seen late keeps the invariant of the ring.                      *)
LEMMA StoresKeepIInv ==
  ASSUME StoresInv, StoresNext \/ UNCHANGED <<vars, seenVars>>
  PROVE  IInv' /\ ProgramOnly'
<1>1. IInv /\ ProgramOnly /\ NoClash
  BY SafeCallsDoNotClash DEF StoresInv
<1>2. CASE \/ \E t \in Tuples : WriteCall(t)
           \/ WriteStep \/ ReadStep \/ ReaderRestart \/ UNCHANGED vars
  BY <1>1, <1>2, IInvStep, ProgramOnlyStep DEF Next, ProgramNext
<1>3. CASE LateStep
  BY <1>3, LateStepKeeps
<1>4. CASE WriterStep
  BY <1>2, <1>3, <1>4, WriterStepIs DEF StoresInv, IInv, LateStep
<1>5. CASE ReaderStep
  BY <1>2, <1>3, <1>5, ReaderStepIs DEF LateStep
<1>6. CASE WriterStoreSeen \/ ReaderStoreSeen \/ UNCHANGED <<vars, seenVars>>
  BY <1>2, <1>6 DEF WriterStoreSeen, ReaderStoreSeen
<1> QED BY <1>4, <1>5, <1>6 DEF StoresNext

-----------------------------------------------------------------------------
(* What a step does to the stores that wait.                               *)

SlotStore == [at |-> nextWriteIndex, value |-> data'[nextWriteIndex]]
IndexStore == [at |-> AtWriteIndex, value |-> nextWriteIndex]

(* A step of the writer stores nothing, to the slot it copies into, or to  *)
(* writeIndex.                                                             *)
LEMMA WriterStores ==
  ASSUME StoresInv, WriterStep
  PROVE  /\ UNCHANGED <<readIndex, seenReadIndex, readStores, seenData, seenWriteIndex,
                        readerMeta, readerLocal>>
         /\ \/ UNCHANGED <<data, writeIndex, stores>>
            \/ /\ \A s \in Slots : s # nextWriteIndex => data'[s] = data[s]
               /\ data'[nextWriteIndex] \in Tuples \cup {NoTuple}
               /\ stores' = Append(stores, SlotStore)
               /\ UNCHANGED <<writeIndex, nextWriteIndex, localReadIndex>>
            \/ /\ writeIndex' = nextWriteIndex
               /\ stores' = Append(stores, IndexStore)
               /\ UNCHANGED <<data, nextWriteIndex, localReadIndex>>
<1> USE DEF writerMeta, readerMeta, writerLocal, readerLocal
<1>0. /\ TypeOK /\ IndexOrder /\ StoresTypeOK /\ SeenReadInv
      /\ nextWriteIndex \in Slots /\ data \in [Slots -> Tuples \cup {NoTuple}]
      /\ stores \in Seq(StoreType)
  BY SlotIndexes DEF StoresInv, IInv, StoresTypeOK, TypeOK
<1>1. /\ UNCHANGED <<readIndex, seenData, seenWriteIndex, readStores>>
      /\ stores' = stores \o SetToSeq(Stored)
  BY DEF WriterStep
<1>2. UNCHANGED <<seenReadIndex, readerMeta, readerLocal>>
  BY DEF WriterStep, Writer!WriteCall, Writer!WriteStep, Writer!WriteTestLocal,
         Writer!WriteTestGlobal, Writer!WriteLoad, Writer!WriteStore,
         Writer!WriteCopyBegin, Writer!WriteCopyEnd, Writer!WriteAdvance,
         Writer!WritePublish, Writer!readerMeta, Writer!readerLocal
<1>3. ASSUME UNCHANGED <<data, writeIndex>> PROVE stores' = stores
  <2>1. Stored = {} BY <1>3 DEF Stored
  <2> QED BY <1>0, <1>1, <2>1, NoStore, ConcatEmptySeq
<1>4. CASE \/ \E t \in Tuples : WriteCall(t)
           \/ WriteTestLocal \/ WriteTestGlobal \/ WriteLoad \/ WriteStore \/ WriteAdvance
           \/ LateFull \/ LateLoad
  <2>1. UNCHANGED <<data, writeIndex>>
    BY <1>4 DEF WriteCall, WriteTestLocal, WriteTestGlobal, WriteLoad, WriteStore,
                WriteAdvance, LateFull, LateLoad, AllButWriter
  <2> QED BY <1>1, <1>2, <1>3, <2>1
<1>5. CASE WriteCopyBegin \/ WriteCopyEnd
  <2>1. /\ \A s \in Slots : s # nextWriteIndex => data'[s] = data[s]
        /\ data'[nextWriteIndex] \in Tuples \cup {NoTuple}
        /\ data' \in [Slots -> Tuples \cup {NoTuple}]
        /\ UNCHANGED <<writeIndex, nextWriteIndex, localReadIndex>>
    BY <1>0, <1>5 DEF WriteCopyBegin, WriteCopyEnd, TypeOK
  <2>2. CASE data'[nextWriteIndex] = data[nextWriteIndex]
    <3>1. data' = data BY <1>0, <2>1, <2>2
    <3> QED BY <1>1, <1>2, <1>3, <2>1, <3>1
  <2>3. CASE data'[nextWriteIndex] # data[nextWriteIndex]
    <3>1. Stored = {SlotStore} BY <1>0, <2>1, <2>3 DEF Stored, SlotStore
    <3>2. SlotStore \in StoreType BY <1>0, <2>1 DEF SlotStore, StoreType
    <3>3. Append(stores, SlotStore) = stores \o <<SlotStore>>
      BY <1>0, <3>2, AppendIsConcat
    <3>4. stores' = Append(stores, SlotStore) BY <1>1, <3>1, <3>3, OneStore
    <3> QED BY <1>1, <1>2, <2>1, <3>4
  <2> QED BY <2>2, <2>3
<1>6. CASE WritePublish
  <2>1. /\ UNCHANGED <<data, nextWriteIndex, localReadIndex>>
        /\ writeIndex' \in {writeIndex, nextWriteIndex}
    BY <1>6 DEF WritePublish
  <2>2. CASE writeIndex' = writeIndex
    BY <1>1, <1>2, <1>3, <2>1, <2>2
  <2>3. CASE writeIndex' # writeIndex
    <3>1. Stored = {IndexStore} BY <2>1, <2>3 DEF Stored, IndexStore
    <3>2. IndexStore \in StoreType BY <1>0 DEF IndexStore, StoreType
    <3>3. Append(stores, IndexStore) = stores \o <<IndexStore>>
      BY <1>0, <3>2, AppendIsConcat
    <3>4. stores' = Append(stores, IndexStore) BY <1>1, <3>1, <3>3, OneStore
    <3> QED BY <1>1, <1>2, <2>1, <2>3, <3>4
  <2> QED BY <2>2, <2>3
<1> QED BY <1>0, <1>4, <1>5, <1>6, WriterStepIs DEF WriteStep

(* The first store that waits is seen, and the others move up.             *)
LEMMA StoreSeen ==
  ASSUME StoresTypeOK, WriterStoreSeen
  PROVE  /\ UNCHANGED <<vars, seenReadIndex, readStores>>
         /\ Len(stores) \in Nat /\ Len(stores) >= 1 /\ Len(stores') = Len(stores) - 1
         /\ stores' \in Seq(StoreType)
         /\ \A i \in 1 .. Len(stores) - 1 : stores'[i] = stores[i + 1]
         /\ \/ /\ stores[1].at = AtWriteIndex
               /\ seenWriteIndex' = stores[1].value /\ UNCHANGED seenData
            \/ /\ stores[1].at \in Slots /\ UNCHANGED seenWriteIndex
               /\ seenData' = [seenData EXCEPT ![stores[1].at] = stores[1].value]
<1>1. PICK k \in SeenNext(stores) :
        /\ stores' = RemoveAt(stores, k)
        /\ \/ /\ stores[k].at = AtWriteIndex
              /\ seenWriteIndex' = stores[k].value /\ UNCHANGED seenData
           \/ /\ stores[k].at \in Slots
              /\ seenData' = [seenData EXCEPT ![stores[k].at] = stores[k].value]
              /\ UNCHANGED seenWriteIndex
        /\ UNCHANGED <<vars, seenReadIndex, readStores>>
  BY DEF WriterStoreSeen
<1>2. k = 1 /\ 1 \in DOMAIN stores BY <1>1 DEF SeenNext
<1>3. stores \in Seq(StoreType) BY DEF StoresTypeOK
<1>4. stores # <<>> /\ Len(stores) \in Nat /\ Len(stores) >= 1
  BY <1>2, <1>3, LenProperties
<1>5. /\ RemoveAt(stores, 1) \in Seq(StoreType)
      /\ Len(RemoveAt(stores, 1)) = Len(stores) - 1
      /\ \A i \in 1 .. Len(stores) - 1 : RemoveAt(stores, 1)[i] = stores[i + 1]
  BY <1>3, <1>4, RemoveFirstStore
<1> QED BY <1>1, <1>2, <1>4, <1>5

(* The types of what waits.                                                *)
LEMMA StoresTypeStep ==
  ASSUME StoresInv, StoresNext \/ UNCHANGED <<vars, seenVars>> PROVE StoresTypeOK'
<1>0. /\ StoresTypeOK /\ TypeOK /\ TypeOK' /\ nextWriteIndex \in Slots
      /\ stores \in Seq(StoreType) /\ readStores \in Seq(Slots)
  BY StoresKeepIInv, SlotIndexes DEF StoresInv, IInv, StoresTypeOK
<1>1. CASE WriterStep
  <2>1. nextWriteIndex \in Slots /\ IndexStore \in StoreType
    BY <1>0 DEF IndexStore, StoreType
  <2>2. data'[nextWriteIndex] \in Tuples \cup {NoTuple} => SlotStore \in StoreType
    BY <1>0 DEF SlotStore, StoreType
  <2>3. ASSUME NEW e \in StoreType PROVE Append(stores, e) \in Seq(StoreType)
    BY <1>0, AppendProperties
  <2>4. stores' \in Seq(StoreType)
    BY <1>0, <1>1, <2>1, <2>2, <2>3, WriterStores
  <2> QED BY <1>0, <1>1, <2>4, WriterStores DEF StoresTypeOK
<1>2. CASE ReaderStep
  <2>1. UNCHANGED <<seenReadIndex, stores>> BY <1>2 DEF ReaderStep
  <2>2. UNCHANGED <<seenData, seenWriteIndex>>
    BY <1>2 DEF ReaderStep, Reader!ReadStep, Reader!ReadCall, Reader!ReadTestGlobal,
        Reader!ReadRefresh, Reader!ReadCopyBegin, Reader!ReadCopyEnd, Reader!ReadAdvance,
        Reader!ReadCount, Reader!ReadPublish, Reader!ReaderRestart
  <2>3. readStores' \in Seq(Slots)
    <3>1. readIndex' \in Slots BY <1>0 DEF TypeOK
    <3> QED BY <1>0, <1>2, <3>1, AppendProperties DEF ReaderStep
  <2> QED BY <1>0, <2>1, <2>2, <2>3 DEF StoresTypeOK
<1>3. CASE WriterStoreSeen
  <2>1. stores[1] \in StoreType
    BY <1>0, <1>3, StoreSeen
  <2>2. stores[1].at = AtWriteIndex => stores[1].value \in Slots
    BY <2>1 DEF StoreType, AtWriteIndex, Slots
  <2>3. stores[1].at \in Slots => stores[1].value \in Tuples \cup {NoTuple}
    BY <2>1, SizeAssumption DEF StoreType, AtWriteIndex, Slots
  <2>4. seenWriteIndex' \in Slots
    BY <1>0, <1>3, <2>2, StoreSeen DEF StoresTypeOK
  <2>5. seenData' \in [Slots -> Tuples \cup {NoTuple}]
    BY <1>0, <1>3, <2>3, StoreSeen DEF StoresTypeOK
  <2> QED BY <1>0, <1>3, <2>4, <2>5, StoreSeen DEF StoresTypeOK
<1>4. CASE ReaderStoreSeen
  BY <1>0, <1>4, HeadTailProperties DEF ReaderStoreSeen, StoresTypeOK
<1>5. CASE UNCHANGED <<vars, seenVars>>
  BY <1>0, <1>5 DEF seenVars, StoresTypeOK
<1> QED BY <1>1, <1>2, <1>3, <1>4, <1>5 DEF StoresNext

(* What a step of the writer learns of the reader.                         *)
LEMMA WriterLearns ==
  ASSUME WriterStep
  PROVE  /\ wpc' = "load" => afterNextWriteIndex' # seenReadIndex
         /\ wpc' = "store" => wreg' = seenReadIndex
         /\ \/ localReadIndex' = localReadIndex
            \/ wpc = "store" /\ wpc' = "copy" /\ localReadIndex' = wreg
<1> USE DEF Writer!writerMeta, Writer!readerMeta, Writer!writerLocal, Writer!readerLocal
<1>1. CASE Writer!WriteTestGlobal
  BY <1>1 DEF Writer!WriteTestGlobal, Writer!RingFull, Writer!afterNextWriteIndex,
              Writer!nextVal, afterNextWriteIndex, nextVal
<1>2. CASE \/ \E t \in Tuples : Writer!WriteCall(t)
           \/ Writer!WriteTestLocal \/ Writer!WriteLoad \/ Writer!WriteStore
           \/ Writer!WriteCopyBegin \/ Writer!WriteCopyEnd \/ Writer!WriteAdvance
           \/ Writer!WritePublish
  BY <1>2 DEF Writer!WriteCall, Writer!WriteTestLocal, Writer!WriteLoad, Writer!WriteStore,
              Writer!WriteCopyBegin, Writer!WriteCopyEnd, Writer!WriteAdvance,
              Writer!WritePublish
<1> QED BY <1>1, <1>2 DEF WriterStep, Writer!WriteStep

(* What a step of the reader changes besides its own program counter.      *)
LEMMA ReaderEffect ==
  ASSUME StoresInv, ReaderStep
  PROVE  /\ UNCHANGED <<data, writeIndex, writerMeta, writerLocal, seenReadIndex, seenData,
                        seenWriteIndex, stores>>
         /\ \/ UNCHANGED <<readIndex, readStores>>
            \/ readIndex' = nextReadIndex /\ readStores' = Append(readStores, readIndex')
         /\ \/ UNCHANGED nextReadIndex
            \/ /\ nextReadIndex # localWriteIndex /\ nextReadIndex' = nextVal(nextReadIndex)
               /\ rpc' = "count" /\ UNCHANGED localWriteIndex
         /\ localWriteIndex' \in {localWriteIndex, seenWriteIndex}
         /\ rpc' = "refresh" => nextReadIndex' # seenWriteIndex
<1> USE DEF Reader!writerMeta, Reader!readerMeta, Reader!writerLocal, Reader!readerLocal,
            writerMeta, readerMeta, writerLocal, readerLocal
<1>1. UNCHANGED <<data, writeIndex, seenReadIndex, stores>>
      /\ readStores' = IF readIndex' = readIndex THEN readStores
                       ELSE Append(readStores, readIndex')
  BY DEF ReaderStep
<1>2. ReaderInv BY DEF StoresInv, IInv
<1>3. CASE Reader!ReadPublish \/ Reader!ReaderRestart
  BY <1>1, <1>3 DEF Reader!ReadPublish, Reader!ReaderRestart
<1>4. CASE Reader!ReadAdvance
  BY <1>1, <1>2, <1>4 DEF Reader!ReadAdvance, Reader!nextVal, nextVal, ReaderInv
<1>5. CASE Reader!ReadCall \/ Reader!ReadTestGlobal \/ Reader!ReadRefresh
           \/ Reader!ReadCopyBegin \/ Reader!ReadCopyEnd \/ Reader!ReadCount
  BY <1>1, <1>5 DEF Reader!ReadCall, Reader!ReadTestGlobal, Reader!ReadRefresh,
                    Reader!ReadCopyBegin, Reader!ReadCopyEnd, Reader!ReadCount
<1> QED BY <1>3, <1>4, <1>5 DEF ReaderStep, Reader!ReadStep

(* The stores to readIndex stay in order.                                  *)
LEMMA SeenReadStep ==
  ASSUME StoresInv, StoresNext \/ UNCHANGED <<vars, seenVars>> PROVE SeenReadInv'
<1> USE SizeAssumption DEF writerMeta, readerMeta, writerLocal, readerLocal
<1>0. /\ TypeOK /\ StoresTypeOK /\ SeenReadInv /\ IndexOrder
      /\ readIndex \in Slots /\ nextReadIndex \in Slots /\ localReadIndex \in Slots
      /\ wreg \in Slots /\ seenReadIndex \in Slots /\ nextWriteIndex \in Slots
      /\ readStores \in Seq(Slots) /\ Len(readStores) \in Nat
      /\ \A i \in 1 .. Len(readStores) : readStores[i] \in Slots
      /\ Ordered(localReadIndex, writeIndex)
  BY SlotIndexes, LenProperties, ElementOfSeq DEF StoresInv, IInv, StoresTypeOK, IndexOrder
<1>d. \A x \in Slots : Ahead(localReadIndex, x) \in Int
  BY <1>0, AheadSlot DEF Slots
<1>1. CASE WriterStep
  <2>1. UNCHANGED <<readIndex, seenReadIndex, readStores>> BY <1>1, WriterStores
  <2>2. /\ wpc' = "load" => afterNextWriteIndex' # seenReadIndex
        /\ wpc' = "store" => wreg' = seenReadIndex
    BY <1>1, WriterLearns
  <2>3. CASE localReadIndex' = localReadIndex
    BY <1>0, <1>d, <2>1, <2>2, <2>3 DEF SeenReadInv, NotPassed
  <2>4. CASE wpc = "store" /\ wpc' = "copy" /\ localReadIndex' = wreg
    <3>1. NotPassed(wreg, seenReadIndex) BY <1>0, <2>4 DEF SeenReadInv
    <3>2. ASSUME NEW x \in Slots, NEW y \in Slots, NotPassed(seenReadIndex, x), NotPassed(x, y)
          PROVE  Ahead(wreg, x) <= Ahead(wreg, y)
      <4>1. Ahead(localReadIndex, wreg) <= Ahead(localReadIndex, x)
        BY <1>0, <1>d, <3>1, <3>2 DEF NotPassed
      <4> QED BY <1>0, <3>2, <4>1, AheadRebaseOrder DEF NotPassed
    <3>3. NotPassed(seenReadIndex, seenReadIndex) BY <1>0, <1>d DEF NotPassed
    <3>4. /\ Ahead(wreg, seenReadIndex) <= Ahead(wreg, readIndex)
          /\ \A i \in 1 .. Len(readStores) :
               /\ Ahead(wreg, seenReadIndex) <= Ahead(wreg, readStores[i])
               /\ Ahead(wreg, readStores[i]) <= Ahead(wreg, readIndex)
               /\ \A j \in i .. Len(readStores) :
                    Ahead(wreg, readStores[i]) <= Ahead(wreg, readStores[j])
      BY <1>0, <3>2, <3>3 DEF SeenReadInv
    <3> QED BY <2>1, <2>4, <3>4 DEF SeenReadInv, NotPassed
  <2> QED BY <1>1, <2>3, <2>4, WriterLearns
<1>2. CASE ReaderStep
  <2>1. UNCHANGED <<writerMeta, writerLocal, seenReadIndex>> BY <1>2, ReaderEffect
  <2>2. CASE UNCHANGED <<readIndex, readStores>>
    BY <1>0, <2>1, <2>2 DEF SeenReadInv, NotPassed, afterNextWriteIndex
  <2>3. CASE readIndex' = nextReadIndex /\ readStores' = Append(readStores, readIndex')
    <3>1. /\ Len(readStores') = Len(readStores) + 1
          /\ \A i \in 1 .. Len(readStores) : readStores'[i] = readStores[i]
          /\ readStores'[Len(readStores) + 1] = nextReadIndex
      BY <1>0, <2>3, AppendProperties
    <3>2. \A x \in Slots : NotPassed(x, readIndex) => NotPassed(x, nextReadIndex)
      BY <1>0, <1>d DEF NotPassed, Ordered
    <3>3. ASSUME NEW i \in 1 .. Len(readStores) + 1
          PROVE  /\ NotPassed(seenReadIndex, readStores'[i])
                 /\ NotPassed(readStores'[i], nextReadIndex)
                 /\ \A j \in i .. Len(readStores) + 1 : NotPassed(readStores'[i], readStores'[j])
      <4>1. NotPassed(nextReadIndex, nextReadIndex) /\ NotPassed(seenReadIndex, nextReadIndex)
        BY <1>0, <1>d, <3>2 DEF SeenReadInv, NotPassed
      <4>2. \A k \in 1 .. Len(readStores) : NotPassed(readStores[k], nextReadIndex)
        BY <1>0, <3>2 DEF SeenReadInv
      <4>3. CASE i = Len(readStores) + 1
        BY <1>0, <3>1, <4>1, <4>3
      <4>4. CASE i \in 1 .. Len(readStores)
        <5>1. readStores'[i] = readStores[i] BY <3>1, <4>4
        <5>2. ASSUME NEW j \in i .. Len(readStores) + 1
              PROVE  NotPassed(readStores[i], readStores'[j])
          <6>1. CASE j = Len(readStores) + 1 BY <3>1, <4>2, <4>4, <6>1
          <6>2. CASE j \in i .. Len(readStores)
            BY <1>0, <3>1, <4>4, <6>2 DEF SeenReadInv
          <6> QED BY <1>0, <6>1, <6>2
        <5> QED BY <1>0, <4>2, <4>4, <5>1, <5>2 DEF SeenReadInv
      <4> QED BY <1>0, <4>3, <4>4
    <3> QED
      BY <1>0, <2>1, <2>3, <3>1, <3>2, <3>3 DEF SeenReadInv, NotPassed, afterNextWriteIndex
  <2> QED BY <1>2, <2>2, <2>3, ReaderEffect
<1>3. CASE WriterStoreSeen
  <2>1. UNCHANGED <<vars, seenReadIndex, readStores>> BY <1>0, <1>3, StoreSeen
  <2> QED BY <1>0, <2>1 DEF vars, SeenReadInv, NotPassed, afterNextWriteIndex
<1>4. CASE ReaderStoreSeen
  <2>1. /\ readStores # <<>> /\ UNCHANGED vars
        /\ seenReadIndex' = Head(readStores) /\ readStores' = Tail(readStores)
    BY <1>4 DEF ReaderStoreSeen
  <2>2. /\ Len(readStores) >= 1 /\ Head(readStores) = readStores[1]
        /\ Len(readStores') = Len(readStores) - 1
        /\ \A i \in 1 .. Len(readStores) - 1 : readStores'[i] = readStores[i + 1]
    BY <1>0, <2>1, HeadTailProperties, EmptySeq
  <2>3. wpc = "load" => afterNextWriteIndex # readStores[1]
    <3> SUFFICES ASSUME wpc = "load" PROVE afterNextWriteIndex # readStores[1]
      OBVIOUS
    <3>1. /\ afterNextWriteIndex # seenReadIndex /\ readStores[1] \in Slots
          /\ NotPassed(seenReadIndex, readStores[1]) /\ NotPassed(readStores[1], readIndex)
      BY <1>0, <2>2 DEF SeenReadInv
    <3>2. Ahead(seenReadIndex, readStores[1]) <= Ahead(seenReadIndex, nextWriteIndex)
      <4>1. Ahead(localReadIndex, readStores[1]) <= Ahead(localReadIndex, nextWriteIndex)
        BY <1>0, <1>d, <3>1, SlotIndexes DEF NotPassed, Ordered
      <4> QED BY <1>0, <3>1, <4>1, AheadRebaseOrder DEF NotPassed
    <3> QED BY <1>0, <3>1, <3>2, AheadNextBeyond DEF afterNextWriteIndex
  <2>4. wpc = "store" => NotPassed(wreg, readStores[1])
    BY <1>0, <1>d, <2>2 DEF SeenReadInv, NotPassed
  <2> QED
    BY <1>0, <2>1, <2>2, <2>3, <2>4
    DEF vars, SeenReadInv, NotPassed, afterNextWriteIndex
<1>5. CASE UNCHANGED <<vars, seenVars>>
  BY <1>0, <1>5 DEF vars, seenVars, SeenReadInv, NotPassed, afterNextWriteIndex
<1> QED BY <1>1, <1>2, <1>3, <1>4, <1>5 DEF StoresNext

(* The stores to writeIndex stay in order.                                 *)
LEMMA SeenWriteStep ==
  ASSUME StoresInv, StoresNext \/ UNCHANGED <<vars, seenVars>> PROVE SeenWriteInv'
<1> USE SizeAssumption DEF writerMeta, readerMeta, writerLocal, readerLocal
<1>0. /\ TypeOK /\ StoresTypeOK /\ SeenReadInv /\ SeenWriteInv /\ IndexOrder /\ ReaderInv
      /\ readIndex \in Slots /\ nextReadIndex \in Slots /\ localReadIndex \in Slots
      /\ wreg \in Slots /\ seenReadIndex \in Slots /\ nextWriteIndex \in Slots
      /\ writeIndex \in Slots /\ localWriteIndex \in Slots /\ seenWriteIndex \in Slots
      /\ stores \in Seq(StoreType) /\ Len(stores) \in Nat
      /\ Ordered(localReadIndex, writeIndex)
  BY SlotIndexes, LenProperties DEF StoresInv, IInv, StoresTypeOK, IndexOrder
<1>i. \A i \in IndexStores : i \in 1 .. Len(stores) /\ stores[i].value \in Slots
  <2> SUFFICES ASSUME NEW i \in 1 .. Len(stores), stores[i].at = AtWriteIndex
               PROVE  stores[i].value \in Slots
    BY DEF IndexStores
  <2>1. stores[i] \in StoreType BY <1>0, ElementOfSeq
  <2> QED BY <2>1 DEF StoreType, AtWriteIndex, Slots
<1>d. \A x \in Slots : Ahead(localReadIndex, x) \in Int
  BY <1>0, AheadSlot DEF Slots
<1>1. CASE WriterStep
  <2>1. UNCHANGED <<readIndex, seenReadIndex, seenWriteIndex, readerMeta, readerLocal>>
    BY <1>1, WriterStores
  <2>2. CASE UNCHANGED <<localReadIndex, writeIndex, stores>>
    BY <1>0, <2>1, <2>2 DEF SeenWriteInv, NotPassed, IndexStores
  <2>3. CASE wpc = "store" /\ localReadIndex' = wreg /\ UNCHANGED <<writeIndex, stores>>
    <3>1. NotPassed(wreg, localWriteIndex)
      <4>1. NotPassed(wreg, seenReadIndex) /\ NotPassed(seenReadIndex, readIndex)
        BY <1>0, <2>3 DEF SeenReadInv
      <4> QED BY <1>0, <1>d, <4>1 DEF NotPassed, Ordered
    <3>2. ASSUME NEW x \in Slots, NEW y \in Slots,
                 NotPassed(localWriteIndex, x), NotPassed(x, y)
          PROVE  Ahead(wreg, x) <= Ahead(wreg, y)
      <4>1. Ahead(localReadIndex, wreg) <= Ahead(localReadIndex, x)
        BY <1>0, <1>d, <3>1, <3>2 DEF NotPassed
      <4> QED BY <1>0, <3>2, <4>1, AheadRebaseOrder DEF NotPassed
    <3>3. NotPassed(localWriteIndex, localWriteIndex) BY <1>0, <1>d DEF NotPassed
    <3>4. \A i \in IndexStores : NotPassed(localWriteIndex, stores[i].value)
      BY <1>0, <1>d, <1>i DEF SeenWriteInv, NotPassed
    <3>5. /\ Ahead(wreg, localWriteIndex) <= Ahead(wreg, seenWriteIndex)
          /\ Ahead(wreg, seenWriteIndex) <= Ahead(wreg, writeIndex)
          /\ \A i \in IndexStores :
               /\ Ahead(wreg, seenWriteIndex) <= Ahead(wreg, stores[i].value)
               /\ Ahead(wreg, stores[i].value) <= Ahead(wreg, writeIndex)
               /\ \A j \in IndexStores : i <= j =>
                    Ahead(wreg, stores[i].value) <= Ahead(wreg, stores[j].value)
      BY <1>0, <1>i, <3>2, <3>3, <3>4 DEF SeenWriteInv
    <3> QED BY <1>0, <2>1, <2>3, <3>5 DEF SeenWriteInv, NotPassed, IndexStores
  <2>4. CASE /\ stores' = Append(stores, SlotStore)
             /\ data'[nextWriteIndex] \in Tuples \cup {NoTuple}
             /\ UNCHANGED <<writeIndex, nextWriteIndex, localReadIndex>>
    <3>1. SlotStore \in StoreType /\ SlotStore.at # AtWriteIndex
      BY <1>0, <2>4 DEF SlotStore, StoreType, AtWriteIndex, Slots
    <3>2. /\ Len(stores') = Len(stores) + 1 /\ stores'[Len(stores) + 1] = SlotStore
          /\ \A i \in 1 .. Len(stores) : stores'[i] = stores[i]
      BY <1>0, <2>4, <3>1, AppendProperties
    <3>3. IndexStores' = IndexStores
      BY <1>0, <3>1, <3>2 DEF IndexStores, AtWriteIndex
    <3>4. \A i \in IndexStores : stores'[i] = stores[i]
      BY <1>i, <3>2
    <3> QED BY <1>0, <2>1, <2>4, <3>3, <3>4 DEF SeenWriteInv, NotPassed
  <2>5. CASE /\ writeIndex' = nextWriteIndex
             /\ stores' = Append(stores, IndexStore)
             /\ UNCHANGED <<nextWriteIndex, localReadIndex>>
    <3>1. IndexStore \in StoreType /\ IndexStore.at = AtWriteIndex
          /\ IndexStore.value = nextWriteIndex
      BY <1>0 DEF IndexStore, StoreType
    <3>2. /\ Len(stores') = Len(stores) + 1 /\ stores'[Len(stores) + 1] = IndexStore
          /\ \A i \in 1 .. Len(stores) : stores'[i] = stores[i]
      BY <1>0, <2>5, <3>1, AppendProperties
    <3>3. \A i \in IndexStores' : i \in IndexStores \/ i = Len(stores) + 1
      BY <1>0, <3>2 DEF IndexStores, AtWriteIndex
    <3>4. \A x \in Slots : NotPassed(x, writeIndex) => NotPassed(x, nextWriteIndex)
      BY <1>0, <1>d DEF NotPassed, Ordered
    <3>5. NotPassed(nextWriteIndex, nextWriteIndex) /\ NotPassed(seenWriteIndex, nextWriteIndex)
      BY <1>0, <1>d, <3>4 DEF NotPassed, SeenWriteInv
    <3>6. \A i \in IndexStores : stores'[i] = stores[i] /\ i < Len(stores) + 1
                                 /\ NotPassed(stores[i].value, nextWriteIndex)
      BY <1>0, <1>i, <3>2, <3>4 DEF SeenWriteInv
    <3>7. ASSUME NEW i \in IndexStores'
          PROVE  /\ NotPassed(seenWriteIndex, stores'[i].value)
                 /\ NotPassed(stores'[i].value, nextWriteIndex)
                 /\ \A j \in IndexStores' : i <= j => NotPassed(stores'[i].value, stores'[j].value)
      <4>1. CASE i = Len(stores) + 1
        <5>1. \A j \in IndexStores' : i <= j => j = i
          <6>1. IndexStores \subseteq Int /\ Len(stores) \in Int
            BY <1>0 DEF IndexStores
          <6> QED BY <3>3, <3>6, <4>1, <6>1
        <5> QED BY <3>1, <3>2, <3>5, <4>1, <5>1
      <4>2. CASE i \in IndexStores
        BY <1>0, <3>1, <3>2, <3>3, <3>6, <4>2 DEF SeenWriteInv
      <4> QED BY <3>3, <4>1, <4>2
    <3> QED BY <1>0, <2>1, <2>5, <3>4, <3>5, <3>7 DEF SeenWriteInv, NotPassed
  <2> QED BY <1>1, <2>2, <2>3, <2>4, <2>5, WriterStores, WriterLearns
<1>2. CASE ReaderStep
  <2>1. UNCHANGED <<writeIndex, writerMeta, writerLocal, seenWriteIndex, stores>>
    BY <1>2, ReaderEffect
  <2>2. NotPassed(seenWriteIndex, seenWriteIndex) BY <1>0, <1>d DEF NotPassed
  <2>3. rpc' = "refresh" => nextReadIndex' # seenWriteIndex
    BY <1>2, ReaderEffect
  <2> QED
    BY <1>0, <1>2, <2>1, <2>2, <2>3, ReaderEffect DEF SeenWriteInv, NotPassed, IndexStores
<1>3. CASE WriterStoreSeen
  <2>1. /\ UNCHANGED vars /\ Len(stores) >= 1 /\ Len(stores') = Len(stores) - 1
        /\ \A i \in 1 .. Len(stores) - 1 : stores'[i] = stores[i + 1]
        /\ \/ stores[1].at = AtWriteIndex /\ seenWriteIndex' = stores[1].value
           \/ UNCHANGED seenWriteIndex
    BY <1>0, <1>3, StoreSeen
  <2>2. \A i \in IndexStores' : i + 1 \in IndexStores /\ stores'[i] = stores[i + 1]
    BY <1>0, <2>1 DEF IndexStores, AtWriteIndex
  <2>3. /\ NotPassed(localWriteIndex, seenWriteIndex')
        /\ NotPassed(seenWriteIndex', writeIndex)
        /\ \A i \in IndexStores' : NotPassed(seenWriteIndex', stores[i + 1].value)
    <3>1. CASE UNCHANGED seenWriteIndex
      BY <1>0, <2>2, <3>1 DEF SeenWriteInv
    <3>2. CASE stores[1].at = AtWriteIndex /\ seenWriteIndex' = stores[1].value
      <4>1. 1 \in IndexStores BY <1>0, <2>1, <3>2 DEF IndexStores
      <4>2. \A i \in IndexStores' : 1 <= i + 1
        BY <1>0, <2>1 DEF IndexStores
      <4>3. NotPassed(localWriteIndex, stores[1].value)
        BY <1>0, <1>d, <1>i, <4>1 DEF SeenWriteInv, NotPassed
      <4> QED BY <1>0, <2>2, <3>2, <4>1, <4>2, <4>3 DEF SeenWriteInv
    <3> QED BY <2>1, <3>1, <3>2
  <2>4. \A i \in IndexStores' :
          /\ NotPassed(stores[i + 1].value, writeIndex)
          /\ \A j \in IndexStores' : i <= j => NotPassed(stores[i + 1].value, stores[j + 1].value)
    <3>1. ASSUME NEW i \in IndexStores', NEW j \in IndexStores', i <= j
          PROVE  i + 1 <= j + 1
      BY <1>0, <2>1, <3>1 DEF IndexStores
    <3> QED BY <1>0, <2>2, <3>1 DEF SeenWriteInv
  <2>5. rpc = "refresh" => nextReadIndex # seenWriteIndex'
    <3> SUFFICES ASSUME rpc = "refresh", nextReadIndex = seenWriteIndex'
                 PROVE  FALSE
      OBVIOUS
    <3>1. nextReadIndex = localWriteIndex /\ nextReadIndex # seenWriteIndex
      BY <1>0 DEF ReaderInv, SeenWriteInv
    <3>2. stores[1].at = AtWriteIndex /\ seenWriteIndex' = stores[1].value
      BY <2>1, <3>1
    <3>3. 1 \in IndexStores BY <1>0, <2>1, <3>2 DEF IndexStores
    <3>4. NotPassed(localWriteIndex, seenWriteIndex) /\ NotPassed(seenWriteIndex, localWriteIndex)
      BY <1>0, <3>1, <3>2, <3>3 DEF SeenWriteInv
    <3>5. Ahead(localReadIndex, localWriteIndex) = Ahead(localReadIndex, seenWriteIndex)
      BY <1>0, <1>d, <3>4 DEF NotPassed
    <3> QED BY <1>0, <3>1, <3>5, AheadEqual
  <2> QED BY <1>0, <2>1, <2>2, <2>3, <2>4, <2>5 DEF vars, SeenWriteInv, NotPassed
<1>4. CASE ReaderStoreSeen
  <2>1. UNCHANGED <<vars, seenWriteIndex, stores>>
    BY <1>4 DEF ReaderStoreSeen
  <2> QED BY <1>0, <2>1 DEF vars, SeenWriteInv, NotPassed, IndexStores
<1>5. CASE UNCHANGED <<vars, seenVars>>
  BY <1>0, <1>5 DEF vars, seenVars, SeenWriteInv, NotPassed, IndexStores
<1> QED BY <1>1, <1>2, <1>3, <1>4, <1>5 DEF StoresNext

(* Nothing is stored to a slot after an index that promises it.            *)
LEMMA PromiseStep ==
  ASSUME StoresInv, StoresNext \/ UNCHANGED <<vars, seenVars>> PROVE PromiseInv'
<1> USE SizeAssumption DEF writerMeta, readerMeta, writerLocal, readerLocal
<1>0. /\ TypeOK /\ StoresTypeOK /\ SeenWriteInv /\ PromiseInv /\ IndexOrder
      /\ nextReadIndex \in Slots /\ localReadIndex \in Slots /\ nextWriteIndex \in Slots
      /\ writeIndex \in Slots /\ localWriteIndex \in Slots /\ seenWriteIndex \in Slots
      /\ readIndex \in Slots
      /\ stores \in Seq(StoreType) /\ Len(stores) \in Nat
      /\ Ordered(localReadIndex, writeIndex)
  BY SlotIndexes, LenProperties DEF StoresInv, IInv, StoresTypeOK, IndexOrder
<1>i. \A i \in IndexStores : i \in 1 .. Len(stores) /\ stores[i].value \in Slots
  <2> SUFFICES ASSUME NEW i \in 1 .. Len(stores), stores[i].at = AtWriteIndex
               PROVE  stores[i].value \in Slots
    BY DEF IndexStores
  <2>1. stores[i] \in StoreType BY <1>0, ElementOfSeq
  <2> QED BY <2>1 DEF StoreType, AtWriteIndex, Slots
<1>d. \A x \in Slots : Ahead(localReadIndex, x) \in Int
  BY <1>0, AheadSlot DEF Slots
<1>n. \A x \in Slots : Ahead(nextReadIndex, x) \in Int
  BY <1>0, AheadSlot DEF Slots
<1>p. \A x \in {seenWriteIndex} \cup {stores[i].value : i \in IndexStores} :
        /\ x \in Slots /\ NotPassed(localWriteIndex, x) /\ NotPassed(x, writeIndex)
  BY <1>0, <1>d, <1>i DEF SeenWriteInv, NotPassed
<1>1. CASE WriterStep
  <2>1. UNCHANGED <<seenWriteIndex, nextReadIndex>>
    BY <1>1, WriterStores
  <2>2. CASE UNCHANGED stores
    BY <1>0, <2>1, <2>2 DEF PromiseInv, Below, IndexStores
  <2>3. CASE /\ stores' = Append(stores, SlotStore)
             /\ data'[nextWriteIndex] \in Tuples \cup {NoTuple}
    <3>1. SlotStore \in StoreType /\ SlotStore.at = nextWriteIndex
          /\ nextWriteIndex # AtWriteIndex
      BY <1>0, <2>3 DEF SlotStore, StoreType, AtWriteIndex, Slots
    <3>2. /\ Len(stores') = Len(stores) + 1 /\ stores'[Len(stores) + 1] = SlotStore
          /\ \A i \in 1 .. Len(stores) : stores'[i] = stores[i]
      BY <1>0, <2>3, <3>1, AppendProperties
    <3>3. IndexStores' = IndexStores
      BY <1>0, <3>1, <3>2 DEF IndexStores, AtWriteIndex
    <3>4. \A i \in IndexStores : stores'[i] = stores[i]
      BY <1>i, <3>2
    <3>5. ASSUME NEW x \in {seenWriteIndex} \cup {stores[i].value : i \in IndexStores}
          PROVE  ~Below(nextWriteIndex, x)
      <4>1. /\ Ahead(localReadIndex, nextReadIndex) <= Ahead(localReadIndex, x)
            /\ Ahead(localReadIndex, x) <= Ahead(localReadIndex, nextWriteIndex)
        BY <1>0, <1>d, <1>p DEF NotPassed, Ordered
      <4>2. Ahead(nextReadIndex, x) <= Ahead(nextReadIndex, nextWriteIndex)
        BY <1>0, <1>p, <4>1, AheadRebaseOrder
      <4> QED BY <1>0, <1>n, <1>p, <4>2 DEF Below
    <3>6. ASSUME NEW j \in 1 .. Len(stores) + 1, stores'[j].at \in Slots
          PROVE  /\ ~Below(stores'[j].at, seenWriteIndex)
                 /\ \A i \in IndexStores : i < j => ~Below(stores'[j].at, stores[i].value)
      <4>1. CASE j = Len(stores) + 1 BY <3>1, <3>2, <3>5, <4>1
      <4>2. CASE j \in 1 .. Len(stores) BY <1>0, <3>2, <3>6, <4>2 DEF PromiseInv
      <4> QED BY <1>0, <4>1, <4>2
    <3> QED BY <2>1, <3>2, <3>3, <3>4, <3>6 DEF PromiseInv, Below
  <2>4. CASE stores' = Append(stores, IndexStore)
    <3>1. IndexStore \in StoreType /\ IndexStore.at \notin Slots
      BY <1>0 DEF IndexStore, StoreType, AtWriteIndex, Slots
    <3>2. /\ Len(stores') = Len(stores) + 1 /\ stores'[Len(stores) + 1] = IndexStore
          /\ \A i \in 1 .. Len(stores) : stores'[i] = stores[i]
      BY <1>0, <2>4, <3>1, AppendProperties
    <3>3. ASSUME NEW j \in 1 .. Len(stores'), stores'[j].at \in Slots
          PROVE  /\ j \in 1 .. Len(stores) /\ stores'[j] = stores[j]
                 /\ \A i \in IndexStores' : i < j => i \in IndexStores /\ stores'[i] = stores[i]
      <4>1. j \in 1 .. Len(stores) BY <1>0, <3>1, <3>2, <3>3
      <4> QED BY <1>0, <3>2, <4>1 DEF IndexStores, AtWriteIndex
    <3> QED BY <1>0, <2>1, <3>3 DEF PromiseInv, Below
  <2> QED BY <1>1, <2>2, <2>3, <2>4, WriterStores
<1>2. CASE ReaderStep
  <2>1. UNCHANGED <<seenWriteIndex, stores>>
    BY <1>2, ReaderEffect
  <2>2. CASE UNCHANGED nextReadIndex
    BY <1>0, <2>1, <2>2 DEF PromiseInv, Below, IndexStores
  <2>3. CASE nextReadIndex # localWriteIndex /\ nextReadIndex' = nextVal(nextReadIndex)
    <3>1. ASSUME NEW x \in {seenWriteIndex} \cup {stores[i].value : i \in IndexStores},
                 NEW s \in Slots, ~Below(s, x)
          PROVE  ~Below(s, x)'
      <4>1. Ahead(localReadIndex, nextReadIndex) < Ahead(localReadIndex, localWriteIndex)
        BY <1>0, <2>3, ReaderHasRoom
      <4>2. x # nextReadIndex
        BY <1>0, <1>d, <1>p, <4>1 DEF NotPassed
      <4>3. Ahead(nextReadIndex, x) <= Ahead(nextReadIndex, s)
        BY <1>n, <1>p, <3>1 DEF Below
      <4>4. Ahead(nextReadIndex', x) <= Ahead(nextReadIndex', s)
        BY <1>0, <1>p, <2>3, <4>2, <4>3, AheadNextBase
      <4>5. \A y \in Slots : Ahead(nextReadIndex', y) \in Int
        <5>1. nextReadIndex' \in Slots
          BY <1>0, <2>3, NextValSlot
        <5> QED BY <5>1, AheadSlot
      <4>6. ~(Ahead(nextReadIndex', s) < Ahead(nextReadIndex', x))
        BY <1>p, <4>4, <4>5
      <4>7. x = x' /\ s = s' BY <2>1
      <4> QED BY <4>6 DEF Below
    <3> QED BY <1>0, <2>1, <3>1 DEF PromiseInv, IndexStores
  <2> QED BY <1>2, <2>2, <2>3, ReaderEffect
<1>3. CASE WriterStoreSeen
  <2>1. /\ UNCHANGED vars /\ Len(stores) >= 1 /\ Len(stores') = Len(stores) - 1
        /\ \A i \in 1 .. Len(stores) - 1 : stores'[i] = stores[i + 1]
        /\ \/ stores[1].at = AtWriteIndex /\ seenWriteIndex' = stores[1].value
           \/ UNCHANGED seenWriteIndex
    BY <1>0, <1>3, StoreSeen
  <2>2. ASSUME NEW j \in 1 .. Len(stores'), stores'[j].at \in Slots
        PROVE  /\ ~Below(stores'[j].at, seenWriteIndex')
               /\ \A i \in IndexStores' : i < j => ~Below(stores'[j].at, stores'[i].value)
    <3>1. /\ j + 1 \in 1 .. Len(stores) /\ j + 1 > 1 /\ stores'[j] = stores[j + 1]
      BY <1>0, <2>1
    <3>2. ~Below(stores'[j].at, seenWriteIndex')
      <4>1. stores[1].at = AtWriteIndex => 1 \in IndexStores
        BY <1>0, <2>1 DEF IndexStores
      <4> QED BY <1>0, <2>1, <2>2, <3>1, <4>1 DEF PromiseInv
    <3>3. \A i \in IndexStores' : i < j => /\ i + 1 \in IndexStores /\ i + 1 < j + 1
                                           /\ stores'[i] = stores[i + 1]
      BY <1>0, <2>1 DEF IndexStores, AtWriteIndex
    <3> QED BY <1>0, <2>2, <3>1, <3>2, <3>3 DEF PromiseInv
  <2> QED BY <2>1, <2>2 DEF vars, PromiseInv, Below
<1>4. CASE ReaderStoreSeen
  <2>1. UNCHANGED <<vars, seenWriteIndex, stores>>
    BY <1>4 DEF ReaderStoreSeen
  <2> QED BY <1>0, <2>1 DEF vars, PromiseInv, Below, IndexStores
<1>5. CASE UNCHANGED <<vars, seenVars>>
  BY <1>0, <1>5 DEF vars, seenVars, PromiseInv, Below, IndexStores
<1> QED BY <1>1, <1>2, <1>3, <1>4, <1>5 DEF StoresNext

(* What was stored last to a slot is what will be seen there last.         *)
LEMMA SeenDataStep ==
  ASSUME StoresInv, StoresNext \/ UNCHANGED <<vars, seenVars>> PROVE SeenDataInv'
<1> USE SizeAssumption
<1> DEFINE StoredLast(s, k) == /\ stores'[k].at = s /\ stores'[k].value = data'[s]
                               /\ \A j \in k + 1 .. Len(stores') : stores'[j].at # s
           NoneStored(s) == \A j \in 1 .. Len(stores') : stores'[j].at # s
<1>0. /\ StoresTypeOK /\ SeenDataInv /\ nextWriteIndex \in Slots
      /\ seenData \in [Slots -> Tuples \cup {NoTuple}]
      /\ stores \in Seq(StoreType) /\ Len(stores) \in Nat
  BY SlotIndexes, LenProperties DEF StoresInv, IInv, StoresTypeOK
<1>1. CASE WriterStep
  <2>1. UNCHANGED seenData BY <1>1, WriterStores
  <2>2. CASE UNCHANGED <<data, stores>>
    BY <1>0, <2>1, <2>2 DEF SeenDataInv, SeenLast, NoStoreTo
  <2>3. CASE /\ \A s \in Slots : s # nextWriteIndex => data'[s] = data[s]
             /\ data'[nextWriteIndex] \in Tuples \cup {NoTuple}
             /\ stores' = Append(stores, SlotStore)
    <3>1. SlotStore \in StoreType /\ SlotStore.at = nextWriteIndex
          /\ SlotStore.value = data'[nextWriteIndex]
      BY <1>0, <2>3 DEF SlotStore, StoreType
    <3>2. /\ Len(stores') = Len(stores) + 1 /\ stores'[Len(stores) + 1] = SlotStore
          /\ \A i \in 1 .. Len(stores) : stores'[i] = stores[i]
      BY <1>0, <2>3, <3>1, AppendProperties
    <3>3. SUFFICES ASSUME NEW s \in Slots
                   PROVE  \/ \E k \in 1 .. Len(stores') : StoredLast(s, k)
                          \/ seenData[s] = data'[s] /\ NoneStored(s)
      BY <2>1 DEF SeenDataInv, SeenLast, NoStoreTo
    <3>4. CASE s = nextWriteIndex
      <4>1. StoredLast(s, Len(stores) + 1) BY <1>0, <3>1, <3>2, <3>4
      <4> QED BY <1>0, <3>2, <4>1
    <3>5. CASE s # nextWriteIndex
      <4>1. data'[s] = data[s] BY <2>3, <3>5
      <4>2. ASSUME NEW k \in 1 .. Len(stores), SeenLast(s, k) PROVE StoredLast(s, k)
        BY <1>0, <3>1, <3>2, <3>5, <4>1, <4>2 DEF SeenLast
      <4>3. NoStoreTo(s) => NoneStored(s)
        BY <1>0, <3>1, <3>2, <3>5 DEF NoStoreTo
      <4> QED BY <1>0, <3>2, <4>1, <4>2, <4>3 DEF SeenDataInv
    <3> QED BY <3>4, <3>5
  <2>4. CASE stores' = Append(stores, IndexStore) /\ UNCHANGED data
    <3>1. IndexStore \in StoreType /\ IndexStore.at \notin Slots
      BY <1>0 DEF IndexStore, StoreType, AtWriteIndex, Slots
    <3>2. /\ Len(stores') = Len(stores) + 1 /\ stores'[Len(stores) + 1] = IndexStore
          /\ \A i \in 1 .. Len(stores) : stores'[i] = stores[i]
      BY <1>0, <2>4, <3>1, AppendProperties
    <3>3. SUFFICES ASSUME NEW s \in Slots
                   PROVE  \/ \E k \in 1 .. Len(stores') : StoredLast(s, k)
                          \/ seenData[s] = data'[s] /\ NoneStored(s)
      BY <2>1 DEF SeenDataInv, SeenLast, NoStoreTo
    <3>4. ASSUME NEW k \in 1 .. Len(stores), SeenLast(s, k) PROVE StoredLast(s, k)
      BY <1>0, <2>4, <3>1, <3>2, <3>4 DEF SeenLast
    <3>5. NoStoreTo(s) => NoneStored(s)
      BY <1>0, <3>1, <3>2 DEF NoStoreTo
    <3> QED BY <1>0, <2>4, <3>2, <3>4, <3>5 DEF SeenDataInv
  <2> QED BY <1>1, <2>2, <2>3, <2>4, WriterStores
<1>2. CASE ReaderStep
  BY <1>0, <1>2, ReaderEffect DEF SeenDataInv, SeenLast, NoStoreTo
<1>3. CASE WriterStoreSeen
  <2>1. /\ data' = data /\ Len(stores) >= 1 /\ Len(stores') = Len(stores) - 1
        /\ \A i \in 1 .. Len(stores) - 1 : stores'[i] = stores[i + 1]
        /\ \/ stores[1].at = AtWriteIndex /\ UNCHANGED seenData
           \/ /\ stores[1].at \in Slots
              /\ seenData' = [seenData EXCEPT ![stores[1].at] = stores[1].value]
    BY <1>0, <1>3, StoreSeen DEF vars
  <2>2. SUFFICES ASSUME NEW s \in Slots
                 PROVE  \/ \E k \in 1 .. Len(stores') : StoredLast(s, k)
                        \/ seenData'[s] = data[s] /\ NoneStored(s)
    BY <2>1 DEF SeenDataInv, SeenLast, NoStoreTo
  <2>3. stores[1].at # s => seenData'[s] = seenData[s]
    BY <1>0, <2>1
  <2>4. CASE \E k \in 1 .. Len(stores) : SeenLast(s, k)
    <3>1. PICK k \in 1 .. Len(stores) : SeenLast(s, k) BY <2>4
    <3>2. CASE k = 1
      <4>1. stores[1].at = s /\ stores[1].value = data[s]
        BY <3>1, <3>2 DEF SeenLast
      <4>2. seenData'[s] = data[s] BY <1>0, <2>1, <4>1 DEF AtWriteIndex, Slots
      <4>3. NoneStored(s)
        <5> SUFFICES ASSUME NEW j \in 1 .. Len(stores') PROVE stores'[j].at # s
          OBVIOUS
        <5>1. j + 1 \in k + 1 .. Len(stores) /\ stores'[j] = stores[j + 1]
          BY <1>0, <2>1, <3>2
        <5> QED BY <3>1, <5>1 DEF SeenLast
      <4> QED BY <4>2, <4>3
    <3>3. CASE k # 1
      <4>1. k - 1 \in 1 .. Len(stores') /\ stores'[k - 1] = stores[k]
        BY <1>0, <2>1, <3>1, <3>3
      <4>2. ASSUME NEW j \in k - 1 + 1 .. Len(stores') PROVE stores'[j].at # s
        <5>1. j + 1 \in k + 1 .. Len(stores) /\ stores'[j] = stores[j + 1]
          BY <1>0, <2>1, <3>1, <3>3
        <5> QED BY <3>1, <5>1 DEF SeenLast
      <4>3. StoredLast(s, k - 1)
        BY <2>1, <3>1, <4>1, <4>2 DEF SeenLast
      <4> QED BY <4>1, <4>3
    <3> QED BY <3>2, <3>3
  <2>5. CASE seenData[s] = data[s] /\ NoStoreTo(s)
    <3>1. stores[1].at # s BY <1>0, <2>1, <2>5 DEF NoStoreTo
    <3>2. NoneStored(s)
      <4> SUFFICES ASSUME NEW j \in 1 .. Len(stores') PROVE stores'[j].at # s
        OBVIOUS
      <4>1. j + 1 \in 1 .. Len(stores) /\ stores'[j] = stores[j + 1]
        BY <1>0, <2>1
      <4> QED BY <2>5, <4>1 DEF NoStoreTo
    <3> QED BY <2>3, <2>5, <3>1, <3>2
  <2> QED BY <1>0, <2>4, <2>5 DEF SeenDataInv
<1>4. CASE ReaderStoreSeen
  <2>1. UNCHANGED <<data, seenData, stores>>
    BY <1>4 DEF ReaderStoreSeen, vars
  <2> QED BY <1>0, <2>1 DEF SeenDataInv, SeenLast, NoStoreTo
<1>5. CASE UNCHANGED <<vars, seenVars>>
  BY <1>0, <1>5 DEF vars, seenVars, SeenDataInv, SeenLast, NoStoreTo
<1> QED BY <1>1, <1>2, <1>3, <1>4, <1>5 DEF StoresNext

(* What the two processes do with late stores is within the invariant.     *)
LEMMA StoresInvariance == StoresSpec => []StoresInv
<1>1. StoresInit => StoresInv
  <2> SUFFICES ASSUME StoresInit PROVE StoresInv
    OBVIOUS
  <2> USE SizeAssumption
  <2>1. IInv /\ ProgramOnly /\ TypeOK
    BY InitIInv DEF StoresInit, Init, ProgramOnly, IInv
  <2>2. /\ seenData = data /\ seenWriteIndex = writeIndex /\ seenReadIndex = readIndex
        /\ stores = <<>> /\ readStores = <<>> /\ Len(stores) = 0 /\ Len(readStores) = 0
        /\ wpc = "idle" /\ rpc = "idle" /\ localWriteIndex = 0 /\ writeIndex = 0
        /\ readIndex = 0 /\ localReadIndex = 0
    BY DEF StoresInit, Init
  <2>3. StoresTypeOK
    BY <2>1, <2>2, SlotIndexes, EmptySeq DEF StoresTypeOK, TypeOK
  <2>4. SeenReadInv /\ SeenWriteInv
    BY <2>2 DEF SeenReadInv, SeenWriteInv, NotPassed, IndexStores, Ahead
  <2>5. PromiseInv /\ SeenDataInv
    BY <2>2 DEF PromiseInv, SeenDataInv, NoStoreTo
  <2> QED BY <2>1, <2>3, <2>4, <2>5 DEF StoresInv
<1>2. StoresInv /\ [StoresNext]_<<vars, seenVars>> => StoresInv'
  <2> SUFFICES ASSUME StoresInv, StoresNext \/ UNCHANGED <<vars, seenVars>>
               PROVE  StoresInv'
    OBVIOUS
  <2> QED
    BY StoresKeepIInv, StoresTypeStep, SeenReadStep, SeenWriteStep, PromiseStep,
       SeenDataStep
    DEF StoresInv
<1> QED BY <1>1, <1>2, PTL DEF StoresSpec

(* On a machine with store buffers, the invariant of the ring holds of     *)
(* what was stored, though each side acts on what it sees: no index is     *)
(* overtaken, and no slot is written that is still to be read.  There is   *)
(* no bound on the stores that wait but MaxStores.                         *)
THEOREM LateStoresKeepTheRing == StoresSpec => []IInv
<1>1. StoresInv => IInv BY DEF StoresInv
<1> QED BY <1>1, StoresInvariance, PTL

(* On such a machine the ring is still the queue that it is elsewhere: no  *)
(* tuple is lost, doubled, torn or overtaken though its stores and those   *)
(* to the indexes are seen late, as long as they are seen in order.        *)
THEOREM LateStoresKeepTheQueue == StoresSpec => FifoQueue
<1>1. StoresInit => Queue!Init BY QueueInit DEF StoresInit
<1>2. StoresInv /\ StoresInv' /\ [StoresNext]_<<vars, seenVars>>
        => [Queue!Next]_<<Unread, Taken>>
  <2> SUFFICES ASSUME StoresInv, IInv', StoresNext \/ UNCHANGED <<vars, seenVars>>
               PROVE  [Queue!Next]_<<Unread, Taken>>
    BY DEF StoresInv
  <2>1. CASE \/ \E t \in Tuples : WriteCall(t)
             \/ WriteStep \/ ReadStep \/ ReaderRestart \/ UNCHANGED vars
    BY <2>1, QueueStep DEF StoresInv, Next, ProgramNext
  <2>2. CASE LateStep
    <3>1. UNCHANGED <<data, nextReadIndex, nextWriteIndex>> /\ Taken' = Taken
      BY <2>2 DEF LateStep, LateFull, LateLoad, LateEmpty, LateRefresh, AllButWriter,
                  AllButReader, writerMeta, readerMeta, readerLocal, Taken
    <3> QED BY <3>1, QueueSame DEF StoresInv
  <2>3. CASE WriterStep
    BY <2>1, <2>2, <2>3, WriterStepIs DEF StoresInv, IInv, LateStep
  <2>4. CASE ReaderStep
    BY <2>1, <2>2, <2>4, ReaderStepIs DEF LateStep
  <2>5. CASE WriterStoreSeen \/ ReaderStoreSeen \/ UNCHANGED <<vars, seenVars>>
    BY <2>1, <2>5 DEF WriterStoreSeen, ReaderStoreSeen
  <2> QED BY <2>3, <2>4, <2>5 DEF StoresNext
<1> QED BY <1>1, <1>2, StoresInvariance, PTL DEF StoresSpec, FifoQueue, Queue!Spec

-----------------------------------------------------------------------------
(***************************************************************************)
(* How rings come to be (RingLifecycle, Setup in MCRingBuffer).  For any   *)
(* threads, names and readers, however often OvS and the readers are       *)
(* killed: a ring has one writer, making one discards nothing, and, if     *)
(* threads gave their rings names of their own, each ring could be found.  *)
(*                                                                         *)
(* All rests on O_EXCL after shm_unlink: what Open leads the name to is an *)
(* object that nobody has initialised, and only initialised objects are    *)
(* written to (FreshInv).                                                  *)
(***************************************************************************)
SetupAssumptions == Setup!NameAssumption /\ MaxObjects \in Nat

Made == 1 .. created

SetupTypes ==
  /\ created \in 0 .. MaxObjects
  /\ shm \in [Names -> Made \cup {0}] /\ unread \in [Setup!Objects -> Nat]
  /\ inited \in SUBSET Made /\ rb \in [Threads -> inited \cup {0}]
  /\ creating \in {Setup!Idle} \cup [step : {"unlink", "open"}, thread : Threads]
                         \cup [step : {"zero"}, thread : Threads, object : Made]
  /\ connecting \in [Readers -> {"open", "map", "connected"}]
  /\ mapped \in [Readers -> Made \cup {0}]
  /\ \A r \in Readers : connecting[r] # "open" => mapped[r] # 0

(* An object that is not initialised is empty, and so is the one that is   *)
(* being initialised; its thread has no ring yet.                          *)
FreshInv ==
  /\ \A o \in Setup!Objects : o \notin inited => unread[o] = 0
  /\ creating.step = "zero" => creating.object \notin inited
  /\ creating # Setup!Idle => rb[creating.thread] = 0

SetupInv == SetupTypes /\ FreshInv /\ Setup!SingleWriter

LEMMA SetupInit ==
  ASSUME SetupAssumptions, Setup!Init
  PROVE  SetupInv
BY DEF SetupAssumptions, Setup!Init, SetupInv, SetupTypes, FreshInv,
   Setup!SingleWriter, Made, Setup!Objects, Setup!Idle

LEMMA MadeAreObjects ==
  ASSUME SetupAssumptions, SetupInv
  PROVE  Made \subseteq Setup!Objects /\ inited \subseteq Setup!Objects /\ 0 \notin Made
BY DEF SetupAssumptions, SetupInv, SetupTypes, Made, Setup!Objects

(* What makes a ring's object, and the ring.                               *)
LEMMA CreationKeeps ==
  ASSUME SetupAssumptions, SetupInv,
         Setup!Unlink \/ Setup!Open \/ Setup!Zero \/ Setup!OvsKilled
  PROVE  SetupInv'
<1> USE DEF SetupInv
<1>1. CASE Setup!Unlink
  <2>1. /\ creating.step = "unlink" /\ creating.thread \in Threads
        /\ creating' = [step |-> "open", thread |-> creating.thread]
        /\ shm' = [shm EXCEPT ![ring_name[creating.thread]] = 0]
        /\ UNCHANGED <<created, unread, inited, rb, connecting, mapped>>
    BY <1>1 DEF Setup!Unlink, SetupTypes, Setup!Idle, Setup!readerVars
  <2>2. SetupTypes'
    BY <2>1 DEF SetupTypes, Made
  <2>3. FreshInv' /\ Setup!SingleWriter'
    BY <2>1 DEF FreshInv, Setup!SingleWriter, Setup!Idle
  <2> QED BY <2>2, <2>3
<1>2. CASE Setup!Open
  <2> DEFINE o == created + 1
             n == ring_name[creating.thread]
  <2>1. /\ creating.step = "open" /\ creating.thread \in Threads /\ created < MaxObjects
        /\ shm' = [shm EXCEPT ![n] = o] /\ created' = o
        /\ creating' = [step |-> "zero", thread |-> creating.thread, object |-> o]
        /\ UNCHANGED <<unread, inited, rb, connecting, mapped>>
    BY <1>2 DEF Setup!Open, SetupTypes, Setup!Idle, Setup!readerVars
  <2>2. created \in Nat /\ o \in 0 .. MaxObjects /\ Made' = Made \cup {o} /\ o \notin Made
    BY <2>1 DEF SetupTypes, Made, SetupAssumptions
  <2>3. SetupTypes'
    <3>1. shm' \in [Names -> Made' \cup {0}] /\ mapped' \in [Readers -> Made' \cup {0}]
      BY <2>1, <2>2 DEF SetupTypes
    <3>2. creating' \in [step : {"zero"}, thread : Threads, object : Made']
      BY <2>1, <2>2
    <3>3. inited' \in SUBSET Made'
      BY <2>1, <2>2 DEF SetupTypes
    <3> HIDE DEF o, n
    <3> QED BY <2>1, <2>2, <3>1, <3>2, <3>3 DEF SetupTypes
  <2>4. FreshInv'
    <3>1. o \notin inited
      BY <2>2 DEF SetupTypes
    <3>2. rb[creating.thread] = 0
      BY <2>1 DEF FreshInv, Setup!Idle
    <3> HIDE DEF o
    <3> QED BY <2>1, <3>1, <3>2 DEF FreshInv
  <2>5. Setup!SingleWriter'
    BY <2>1 DEF Setup!SingleWriter
  <2> QED BY <2>3, <2>4, <2>5
<1>3. CASE Setup!Zero
  <2> DEFINE o == creating.object
             t == creating.thread
  <2>1. /\ creating.step = "zero" /\ t \in Threads /\ o \in Made /\ creating' = Setup!Idle
        /\ unread' = [unread EXCEPT ![o] = 0] /\ inited' = inited \cup {o}
        /\ rb' = [rb EXCEPT ![t] = o] /\ UNCHANGED <<shm, created, connecting, mapped>>
    BY <1>3 DEF Setup!Zero, SetupTypes, Setup!Idle, Setup!readerVars
  <2>2. o \notin inited /\ o \in Setup!Objects /\ o # 0
    BY <2>1, MadeAreObjects DEF FreshInv
  <2> HIDE DEF o, t
  <2>3. SetupTypes'
    BY <2>1, <2>2 DEF SetupTypes, Made
  <2>4. FreshInv'
    BY <2>1, <2>2 DEF FreshInv, SetupTypes, Setup!Idle
  <2>5. Setup!SingleWriter'
    BY <2>1, <2>2 DEF Setup!SingleWriter, SetupTypes
  <2> QED BY <2>3, <2>4, <2>5
<1>4. CASE Setup!OvsKilled
  BY <1>4 DEF Setup!OvsKilled, SetupTypes, FreshInv, Setup!SingleWriter,
     Setup!objectVars, Setup!readerVars, Made, Setup!Idle
<1> QED BY <1>1, <1>2, <1>3, <1>4

LEMMA ThreadKeeps ==
  ASSUME SetupAssumptions, SetupInv, NEW t \in Threads,
         Setup!ConfigurePmd(t) \/ Setup!WriteTuple(t) \/ Setup!DestroyPmd(t)
  PROVE  SetupInv'
<1> USE DEF SetupInv
<1>1. CASE Setup!ConfigurePmd(t)
  <2>1. SetupTypes'
    BY <1>1 DEF Setup!ConfigurePmd, SetupTypes, Setup!objectVars, Setup!readerVars, Made
  <2>2. FreshInv' /\ Setup!SingleWriter'
    BY <1>1 DEF Setup!ConfigurePmd, FreshInv, Setup!SingleWriter, Setup!objectVars,
       Setup!Idle
  <2> QED BY <2>1, <2>2
<1>2. CASE Setup!WriteTuple(t)
  <2>1. rb[t] \in inited /\ rb[t] \in Setup!Objects /\ unread[rb[t]] \in Nat
    BY <1>2, MadeAreObjects DEF Setup!WriteTuple, SetupTypes
  <2>2. /\ unread' = [unread EXCEPT ![rb[t]] = unread[rb[t]] + 1]
        /\ UNCHANGED <<shm, created, inited, creating, rb, connecting, mapped>>
    BY <1>2 DEF Setup!WriteTuple, Setup!ovsVars, Setup!readerVars
  <2>3. SetupTypes'
    BY <2>1, <2>2 DEF SetupTypes, Made
  <2>4. FreshInv' /\ Setup!SingleWriter'
    BY <2>1, <2>2 DEF FreshInv, Setup!SingleWriter, SetupTypes
  <2> QED BY <2>3, <2>4
<1>3. CASE Setup!DestroyPmd(t)
  BY <1>3 DEF Setup!DestroyPmd, SetupTypes, FreshInv, Setup!SingleWriter,
     Setup!objectVars, Setup!readerVars, Made, Setup!Idle
<1> QED BY <1>1, <1>2, <1>3

LEMMA ReaderKeeps ==
  ASSUME SetupAssumptions, SetupInv, NEW r \in Readers,
         Setup!ConnectOpen(r) \/ Setup!ConnectMap(r) \/ Setup!ReadTuple(r)
         \/ Setup!ReaderKilled(r)
  PROVE  SetupInv'
<1> USE DEF SetupInv
<1>1. CASE Setup!ConnectOpen(r)
  <2>1. reader_name[r] \in Names
    BY DEF SetupAssumptions, Setup!NameAssumption
  <2>2. SetupTypes'
    BY <1>1, <2>1 DEF Setup!ConnectOpen, SetupTypes, Setup!objectVars, Setup!ovsVars,
       Made
  <2>3. FreshInv' /\ Setup!SingleWriter'
    BY <1>1 DEF Setup!ConnectOpen, FreshInv, Setup!SingleWriter, Setup!objectVars,
       Setup!ovsVars
  <2> QED BY <2>2, <2>3
<1>2. CASE Setup!ConnectMap(r) \/ Setup!ReaderKilled(r)
  <2>1. SetupTypes'
    BY <1>2 DEF Setup!ConnectMap, Setup!ReaderKilled, SetupTypes, Setup!objectVars,
       Setup!ovsVars, Made
  <2>2. FreshInv' /\ Setup!SingleWriter'
    BY <1>2 DEF Setup!ConnectMap, Setup!ReaderKilled, FreshInv, Setup!SingleWriter,
       Setup!objectVars, Setup!ovsVars
  <2> QED BY <2>1, <2>2
<1>3. CASE Setup!ReadTuple(r)
  <2> DEFINE o == mapped[r]
  <2>1. o \in Setup!Objects /\ unread[o] \in Nat /\ unread[o] > 0
    BY <1>3, MadeAreObjects DEF Setup!ReadTuple, SetupTypes
  <2>2. /\ unread' = [unread EXCEPT ![o] = unread[o] - 1]
        /\ UNCHANGED <<shm, created, inited, creating, rb, connecting, mapped>>
    BY <1>3 DEF Setup!ReadTuple, Setup!ovsVars, Setup!readerVars
  <2>3. o \in inited
    BY <2>1 DEF FreshInv
  <2> HIDE DEF o
  <2>4. SetupTypes'
    BY <2>1, <2>2 DEF SetupTypes, Made
  <2>5. FreshInv' /\ Setup!SingleWriter'
    BY <2>1, <2>2, <2>3 DEF FreshInv, Setup!SingleWriter
  <2> QED BY <2>4, <2>5
<1> QED BY <1>1, <1>2, <1>3

LEMMA SetupNextKeeps ==
  ASSUME SetupAssumptions, SetupInv, [Setup!Next]_(Setup!vars)
  PROVE  SetupInv'
<1>1. CASE UNCHANGED Setup!vars
  BY <1>1 DEF Setup!vars, SetupInv, SetupTypes, FreshInv, Setup!SingleWriter, Made
<1> QED BY <1>1, CreationKeeps, ThreadKeeps, ReaderKeeps DEF Setup!Next

-----------------------------------------------------------------------------
(* dp_netdev_configure_pmd: no ring ever has two poll threads that write   *)
(* to it, also when their names are the same and when OvS is killed while  *)
(* it makes one.                                                           *)
THEOREM OneWriter ==
  ASSUME SetupAssumptions
  PROVE  Setup!Spec => []Setup!SingleWriter
<1>1. Setup!Init => SetupInv BY SetupInit
<1>2. SetupInv /\ [Setup!Next]_(Setup!vars) => SetupInv' BY SetupNextKeeps
<1>3. SetupInv => Setup!SingleWriter BY DEF SetupInv
<1> QED BY <1>1, <1>2, <1>3, PTL DEF Setup!Spec

LEMMA MakingDiscardsNothing ==
  ASSUME SetupAssumptions, SetupInv, [Setup!Next]_(Setup!vars)
  PROVE  [Setup!OverwritesNothing]_(Setup!vars)
<1> SUFFICES ASSUME Setup!Next PROVE Setup!OverwritesNothing
  OBVIOUS
<1> SUFFICES ASSUME NEW t \in Threads, rb'[t] \notin {0, rb[t]} PROVE unread[rb'[t]] = 0
  BY DEF Setup!OverwritesNothing
<1>1. Setup!Zero
  BY DEF Setup!Next, Setup!ConfigurePmd, Setup!WriteTuple, Setup!DestroyPmd,
     Setup!Unlink,
     Setup!Open, Setup!OvsKilled, Setup!ConnectOpen, Setup!ConnectMap, Setup!ReadTuple,
     Setup!ReaderKilled, Setup!ovsVars, SetupInv, SetupTypes
<1>2. /\ creating.step = "zero" /\ rb' = [rb EXCEPT ![creating.thread] = creating.object]
      /\ creating.object \in Made
  BY <1>1 DEF Setup!Zero, SetupInv, SetupTypes, Setup!Idle
<1>3. rb'[t] = creating.object
  BY <1>2 DEF SetupInv, SetupTypes
<1>4. creating.object \in Setup!Objects /\ creating.object \notin inited
  BY <1>2, MadeAreObjects DEF SetupInv, FreshInv
<1> QED BY <1>3, <1>4 DEF SetupInv, FreshInv

(* create_ringbuffer_shm: what a thread gets is empty, and a reader that   *)
(* does not wait for its initialisation loses nothing by it.               *)
THEOREM CreationDiscardsNothing ==
  ASSUME SetupAssumptions
  PROVE  Setup!Spec => Setup!InitOverwritesNothing
<1>1. Setup!Init => SetupInv BY SetupInit
<1>2. SetupInv /\ [Setup!Next]_(Setup!vars) => SetupInv' BY SetupNextKeeps
<1>3. SetupInv /\ [Setup!Next]_(Setup!vars) => [Setup!OverwritesNothing]_(Setup!vars)
  BY MakingDiscardsNothing
<1> QED BY <1>1, <1>2, <1>3, PTL DEF Setup!Spec, Setup!InitOverwritesNothing

(* Both together, as the run checks them next to the calls of the library. *)
THEOREM SetupIsSound ==
  ASSUME SetupAssumptions
  PROVE  MCSpec => SetupSound
<1>1. MCInit => SetupInv
  BY SetupInit DEF MCInit
<1>2. MCNext => [Setup!Next]_(Setup!vars)
  BY DEF MCNext, Calls, setupVars, Setup!vars
<1>3. SetupInv /\ [MCNext]_mcVars => SetupInv'
  <2>1. CASE MCNext
    BY <1>2, <2>1, SetupNextKeeps
  <2>2. CASE UNCHANGED mcVars
    <3>1. UNCHANGED (Setup!vars)
      BY <2>2 DEF mcVars, setupVars, Setup!vars
    <3> QED BY <3>1, SetupNextKeeps
  <2> QED BY <2>1, <2>2
<1>4. SetupInv /\ SetupInv' /\ [MCNext]_mcVars
        => [Setup!SingleWriter' /\ Setup!OverwritesNothing]_mcVars
  <2> SUFFICES ASSUME SetupInv, SetupInv', MCNext
               PROVE  Setup!SingleWriter' /\ Setup!OverwritesNothing
    OBVIOUS
  <2>1. Setup!SingleWriter'
    BY DEF SetupInv
  <2>2. CASE Setup!OverwritesNothing
    BY <2>1, <2>2
  <2>3. CASE UNCHANGED (Setup!vars)
    BY <2>1, <2>3 DEF Setup!vars, Setup!OverwritesNothing
  <2> QED BY <1>2, <2>2, <2>3, MakingDiscardsNothing
<1> QED BY <1>1, <1>3, <1>4, PTL DEF MCSpec, SetupSound

-----------------------------------------------------------------------------
(* The ring of a thread and the name it has, while it is made and after.   *)
NamesInv ==
  /\ Setup!RingPerThread
  /\ creating.step = "zero" => shm[ring_name[creating.thread]] = creating.object

(* Rings are found by the names of their threads, whoever is killed, if no *)
(* two threads have one name: the names that `index' makes are all that    *)
(* the comment of user_reader.cpp:36 fails for.                            *)
THEOREM DistinctNamesFindRings ==
  ASSUME SetupAssumptions, \A t, u \in Threads : ring_name[t] = ring_name[u] => t = u
  PROVE  Setup!Spec => []Setup!RingPerThread
<1>1. Setup!Init => SetupInv /\ NamesInv
  BY SetupInit DEF NamesInv, Setup!RingPerThread, Setup!Init, Setup!Idle
<1>2. SetupInv /\ [Setup!Next]_(Setup!vars) => SetupInv' BY SetupNextKeeps
<1>3. SetupInv /\ NamesInv /\ [Setup!Next]_(Setup!vars) => NamesInv'
  <2> SUFFICES ASSUME SetupInv, NamesInv, [Setup!Next]_(Setup!vars) PROVE NamesInv'
    OBVIOUS
  <2> USE DEF NamesInv, Setup!RingPerThread
  <2>n. \A t \in Threads : ring_name[t] \in Names
    BY DEF SetupAssumptions, Setup!NameAssumption
  <2>1. CASE Setup!Unlink
    <3>1. /\ creating.thread \in Threads /\ rb[creating.thread] = 0 /\ creating'.step = "open"
          /\ shm' = [shm EXCEPT ![ring_name[creating.thread]] = 0] /\ UNCHANGED rb
      BY <2>1 DEF Setup!Unlink, SetupInv, SetupTypes, FreshInv, Setup!Idle
    <3> QED BY <3>1, <2>n DEF SetupInv, SetupTypes
  <2>2. CASE Setup!Open
    <3>1. /\ creating.thread \in Threads /\ rb[creating.thread] = 0
          /\ creating'.thread = creating.thread /\ creating'.object = created + 1
          /\ shm' = [shm EXCEPT ![ring_name[creating.thread]] = created + 1] /\ UNCHANGED rb
      BY <2>2 DEF Setup!Open, SetupInv, SetupTypes, FreshInv, Setup!Idle
    <3> QED BY <3>1, <2>n DEF SetupInv, SetupTypes
  <2>3. CASE Setup!Zero
    <3>1. /\ creating.step = "zero" /\ creating' = Setup!Idle /\ UNCHANGED shm
          /\ rb' = [rb EXCEPT ![creating.thread] = creating.object]
      BY <2>3 DEF Setup!Zero
    <3> QED BY <3>1 DEF SetupInv, SetupTypes, Setup!Idle
  <2>4. CASE Setup!OvsKilled \/ \E t \in Threads : Setup!ConfigurePmd(t)
                                  \/ Setup!DestroyPmd(t)
    BY <2>4 DEF Setup!OvsKilled, Setup!ConfigurePmd, Setup!DestroyPmd,
       Setup!objectVars, Setup!Idle, SetupInv, SetupTypes
  <2>5. CASE UNCHANGED <<shm, creating, rb>>
    BY <2>5
  <2>6. ASSUME NEW t \in Threads, Setup!WriteTuple(t) PROVE UNCHANGED <<shm, creating,
  rb>>
    BY <2>6 DEF Setup!WriteTuple, Setup!ovsVars
  <2>7. ASSUME NEW r \in Readers,
               Setup!ConnectOpen(r) \/ Setup!ConnectMap(r) \/ Setup!ReadTuple(r)
               \/ Setup!ReaderKilled(r)
        PROVE  UNCHANGED <<shm, creating, rb>>
    BY <2>7 DEF Setup!ConnectOpen, Setup!ConnectMap, Setup!ReadTuple,
       Setup!ReaderKilled, Setup!ovsVars, Setup!objectVars
  <2>8. CASE UNCHANGED Setup!vars
    BY <2>8 DEF Setup!vars
  <2> QED BY <2>1, <2>2, <2>3, <2>4, <2>5, <2>6, <2>7, <2>8 DEF Setup!Next
<1>4. NamesInv => Setup!RingPerThread BY DEF NamesInv
<1> QED BY <1>1, <1>2, <1>3, <1>4, PTL DEF Setup!Spec

=============================================================================
