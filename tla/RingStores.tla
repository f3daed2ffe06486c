----------------------------- MODULE RingStores -----------------------------
(***************************************************************************)
(* The ring on a machine whose cores have store buffers.  rb_barrier of    *)
(* ringbuffer.h is commented out, so a side goes on before its stores are  *)
(* seen: it sees them at once, and the other side sees them later, in the  *)
(* order in which they were made (as x86 has it, and as far as the         *)
(* compiler keeps the order of the program).                               *)
(*                                                                         *)
(* The variables of RingBuffer are what was stored last; the calls are     *)
(* those of RingBuffer, each side's with what it has seen of the other.    *)
(***************************************************************************)
EXTENDS RingBuffer, SequencesExt

CONSTANT MaxStores    \* bound: stores of one side that wait

VARIABLES
  seenData, seenWriteIndex,   \* data and writeIndex as the reader sees them
  seenReadIndex,              \* readIndex as the writer sees it
  stores, readStores          \* what the writer and the reader stored, oldest first

seenVars == <<seenData, seenWriteIndex, seenReadIndex, stores, readStores>>

Writer == INSTANCE RingBuffer WITH readIndex <- seenReadIndex
Reader == INSTANCE RingBuffer WITH data <- seenData, writeIndex <- seenWriteIndex

StoresInit ==
  /\ Init
  /\ seenData = data /\ seenWriteIndex = writeIndex /\ seenReadIndex = readIndex
  /\ stores = <<>> /\ readStores = <<>>

(* What a step of the writer stores: to a slot, or to writeIndex, which is *)
(* at no slot's number.                                                    *)
AtWriteIndex == RB_SIZE
Stored ==
  {[at |-> s, value |-> data'[s]] : s \in {s \in Slots : data'[s] # data[s]}}
  \cup {[at |-> AtWriteIndex, value |-> i] : i \in {writeIndex'} \ {writeIndex}}

WriterStep ==
  /\ (\E t \in Tuples : Writer!WriteCall(t)) \/ Writer!WriteStep
  /\ stores' = stores \o SetToSeq(Stored)
  /\ Len(stores') <= MaxStores
  /\ UNCHANGED <<readIndex, seenData, seenWriteIndex, readStores>>

(* A reader that is killed leaves its stores to be seen.                   *)
ReaderStep ==
  /\ Reader!ReadStep \/ Reader!ReaderRestart
  /\ readStores' = IF readIndex' = readIndex THEN readStores
                   ELSE Append(readStores, readIndex')
  /\ Len(readStores') <= MaxStores
  /\ UNCHANGED <<data, writeIndex, seenReadIndex, stores>>

(* Which of the stores that wait may reach the memory next.                *)
SeenNextAny(q) ==     \* mutant: only stores to one address keep their order
  {k \in DOMAIN q : \A j \in 1 .. k - 1 : q[j].at # q[k].at}
SeenNext(q) == {1} \cap DOMAIN q

WriterStoreSeen ==
  \E k \in SeenNext(stores) :
    /\ stores' = RemoveAt(stores, k)
    /\ \/ /\ stores[k].at = AtWriteIndex
          /\ seenWriteIndex' = stores[k].value /\ UNCHANGED seenData
       \/ /\ stores[k].at \in Slots
          /\ seenData' = [seenData EXCEPT ![stores[k].at] = stores[k].value]
          /\ UNCHANGED seenWriteIndex
    /\ UNCHANGED <<vars, seenReadIndex, readStores>>

ReaderStoreSeen ==
  /\ readStores # <<>>
  /\ seenReadIndex' = Head(readStores) /\ readStores' = Tail(readStores)
  /\ UNCHANGED <<vars, seenData, seenWriteIndex, stores>>

StoresNext == WriterStep \/ ReaderStep \/ WriterStoreSeen \/ ReaderStoreSeen

StoresSpec == StoresInit /\ [][StoresNext]_<<vars, seenVars>>

=============================================================================
