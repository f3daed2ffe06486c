---------------------------- MODULE MCRingBuffer ----------------------------
(***************************************************************************)
(* Three questions about the library, in behaviours of their own (`part'). *)
(* "calls": the ring with the calls that neither program makes, in the two *)
(* combinations that are safe: a writer and a reader that both flush, or a *)
(* reader that flushes and completes.                                      *)
(* "stores": the ring when stores are seen late (RingStores).              *)
(* "setup": the creation of rings, their names, and the connection to      *)
(* them, which share nothing with the calls.                               *)
(***************************************************************************)
EXTENDS RingStores

CONSTANTS
  pmd0, pmd1, pmd2, r1, r2, rb_0, rb_x,
  Threads, Names, ring_name, Readers, reader_name, MaxObjects,  \* see RingLifecycle
  RingSize      \* of the rings that are set up

VARIABLES
  part,
  flushing,     \* may the writer flush
  shm, created, unread, inited, creating, rb, connecting, mapped  \* see RingLifecycle

setupVars == <<shm, created, unread, inited, creating, rb, connecting, mapped>>
mcVars == <<part, flushing, setupVars, vars, seenVars>>

(* The non-PMD thread and two PMD threads, whose rings have one name; both *)
(* readers connect to the first ring.                                      *)
PollThreads == {pmd0, pmd1, pmd2}
Programs == {r1, r2}
RingNames == {rb_0, rb_x}
NameOf == [t \in PollThreads |-> IF t = pmd0 THEN rb_0 ELSE rb_x]
ConnectsTo == [r \in Programs |-> rb_0]

Setup == INSTANCE RingLifecycle WITH RB_SIZE <- RingSize, rpc <- connecting

ASSUME SetupAssumption == Setup!NameAssumption

-----------------------------------------------------------------------------
MCInit ==
  /\ StoresInit /\ Setup!Init
  /\ \/ part = "calls" /\ flushing \in BOOLEAN
     \/ part \in {"stores", "setup"} /\ flushing = FALSE

Calls ==
  /\ Next
  /\ wpc' = "flushLoad" => flushing
  /\ rpc' = "complete" => ~flushing

MCNext ==
  /\ UNCHANGED <<part, flushing>>
  /\ \/ part = "calls" /\ Calls /\ UNCHANGED <<setupVars, seenVars>>
     \/ part = "stores" /\ StoresNext /\ UNCHANGED setupVars
     \/ part = "setup" /\ Setup!Next /\ UNCHANGED <<vars, seenVars>>

MCSpec == MCInit /\ [][MCNext]_mcVars

(* A reader killed again and again inside ReadPublish leaves rBatchCount   *)
(* one higher each time; any value >= RB_BATCH acts like RB_BATCH.         *)
FewKilledPublishes == rBatchCount <= RB_BATCH + 1

-----------------------------------------------------------------------------
(* No ring gets two writers, and making a ring never discards a tuple,     *)
(* whoever is killed while it is made.                                     *)
SetupSound == [][Setup!SingleWriter' /\ Setup!OverwritesNothing]_mcVars

=============================================================================
