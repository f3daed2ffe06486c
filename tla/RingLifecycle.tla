---------------------------- MODULE RingLifecycle ----------------------------
(***************************************************************************)
(* How rings come to be and are found: OvS creates a shared-memory object  *)
(* for every poll thread it configures, and user_reader connects to one by *)
(* name.  Either process may be killed and started again at any time, and  *)
(* an object lives on as long as its name or a mapping of it does.         *)
(*                                                                         *)
(* Of a ring's contents only the number of unread tuples is kept; module   *)
(* RingBuffer has the rest.                                                *)
(***************************************************************************)
EXTENDS Naturals

CONSTANTS
  Threads,       \* poll threads of OvS, the non-PMD thread among them
  Names,         \* names of shared-memory objects
  ring_name,     \* the name OvS makes for a thread's ring
  Readers,       \* user_reader processes
  reader_name,   \* the name each connects to
  RB_SIZE,
  MaxObjects     \* bound: objects created

NameAssumption ==
  ring_name \in [Threads -> Names] /\ reader_name \in [Readers -> Names]

Objects == 1 .. MaxObjects

VARIABLES
  shm,           \* the object each name leads to, or 0
  created,       \* objects created so far
  unread,        \* unread tuples, by object
  inited,        \* the objects whose initialisation is complete
  creating,      \* the thread OvS is creating a ring for: [thread, step, rb]
  rb,            \* each thread's ring, or 0
  rpc,           \* the next statement of connect_ringbuffer_shm in a reader
  mapped         \* the object a reader has opened, or 0

vars == <<shm, created, unread, inited, creating, rb, rpc, mapped>>
objectVars == <<shm, created, unread, inited>>
ovsVars    == <<creating, rb>>
readerVars == <<rpc, mapped>>

Idle == [step |-> "idle"]

Init ==
  /\ shm = [n \in Names |-> 0] /\ created = 0
  /\ unread = [o \in Objects |-> 0] /\ inited = {}
  /\ creating = Idle /\ rb = [t \in Threads |-> 0]
  /\ rpc = [r \in Readers |-> "open"] /\ mapped = [r \in Readers |-> 0]

-----------------------------------------------------------------------------
(* OvS.  One thread configures all poll threads, one after the other.      *)

ConfigurePmd(t) ==
  /\ creating = Idle /\ rb[t] = 0
  /\ creating' = [step |-> "unlink", thread |-> t]
  /\ UNCHANGED <<objectVars, rb, readerVars>>

UnlinkReuse ==       \* mutant: an object that is there is taken as it is
  LET o == shm[ring_name[creating.thread]]
  IN  /\ creating.step = "unlink"
      /\ creating' = IF o = 0 THEN [creating EXCEPT !.step = "open"]
                     ELSE [step |-> "zero", thread |-> creating.thread, object |-> o]
      /\ UNCHANGED <<objectVars, rb, readerVars>>
Unlink ==
  /\ creating.step = "unlink"
  /\ shm' = [shm EXCEPT ![ring_name[creating.thread]] = 0]
  /\ creating' = [creating EXCEPT !.step = "open"]
  /\ UNCHANGED <<created, unread, inited, rb, readerVars>>

(* O_EXCL: LOG_ERR ends the process if the name exists.                    *)
Open ==
  LET n == ring_name[creating.thread]
  IN  /\ creating.step = "open" /\ shm[n] = 0 /\ created < MaxObjects
      /\ shm' = [shm EXCEPT ![n] = created + 1] /\ created' = created + 1
      /\ creating' = [step |-> "zero", thread |-> creating.thread,
                      object |-> created + 1]
      /\ UNCHANGED <<unread, inited, rb, readerVars>>

(* ftruncate has made the object one of zeroes; the fields are zeroed all  *)
(* the same, the semaphore is posted and pmd->rb is set.                   *)
Zero ==
  /\ creating.step = "zero"
  /\ unread' = [unread EXCEPT ![creating.object] = 0]
  /\ inited' = inited \cup {creating.object}
  /\ rb' = [rb EXCEPT ![creating.thread] = creating.object]
  /\ creating' = Idle
  /\ UNCHANGED <<shm, created, readerVars>>

WriteTuple(t) ==
  /\ rb[t] # 0 /\ unread[rb[t]] < RB_SIZE - 1
  /\ unread' = [unread EXCEPT ![rb[t]] = @ + 1]
  /\ UNCHANGED <<shm, created, inited, ovsVars, readerVars>>

(* dp_netdev_destroy_pmd does not close the ring: its name stays.          *)
DestroyPmd(t) ==
  /\ creating = Idle /\ rb[t] # 0
  /\ rb' = [rb EXCEPT ![t] = 0]
  /\ UNCHANGED <<objectVars, creating, readerVars>>

OvsKilled ==
  /\ creating' = Idle /\ rb' = [t \in Threads |-> 0]
  /\ UNCHANGED <<objectVars, readerVars>>

-----------------------------------------------------------------------------
(* user_reader.  connect_ringbuffer_shm retries shm_open until the name    *)
(* exists, and returns as soon as it has mapped the object: the statements *)
(* that wait for the semaphore and unlink the name come after the return.  *)

ConnectOpen(r) ==
  /\ rpc[r] = "open" /\ shm[reader_name[r]] # 0
  /\ mapped' = [mapped EXCEPT ![r] = shm[reader_name[r]]]
  /\ rpc' = [rpc EXCEPT ![r] = "map"]
  /\ UNCHANGED <<objectVars, ovsVars>>

ConnectMap(r) ==
  /\ rpc[r] = "map"
  /\ rpc' = [rpc EXCEPT ![r] = "connected"]
  /\ UNCHANGED <<objectVars, ovsVars, mapped>>

ReadTuple(r) ==
  /\ rpc[r] = "connected" /\ unread[mapped[r]] > 0
  /\ unread' = [unread EXCEPT ![mapped[r]] = @ - 1]
  /\ UNCHANGED <<shm, created, inited, ovsVars, readerVars>>

ReaderKilled(r) ==
  /\ rpc[r] # "open"
  /\ rpc' = [rpc EXCEPT ![r] = "open"] /\ mapped' = [mapped EXCEPT ![r] = 0]
  /\ UNCHANGED <<objectVars, ovsVars>>

Next ==
  \/ \E t \in Threads : ConfigurePmd(t) \/ WriteTuple(t) \/ DestroyPmd(t)
  \/ Unlink \/ Open \/ Zero \/ OvsKilled
  \/ \E r \in Readers :
       ConnectOpen(r) \/ ConnectMap(r) \/ ReadTuple(r) \/ ReaderKilled(r)

Spec == Init /\ [][Next]_vars

-----------------------------------------------------------------------------
(* A ring has one writer, also when threads share a name, when OvS is      *)
(* killed while it creates a ring, and when an object of its former self   *)
(* is still there.                                                         *)
SingleWriter == \A t, u \in Threads : rb[t] = rb[u] => t = u \/ rb[t] = 0

(* Nothing is lost to the initialisation of a ring: whoever has mapped it  *)
(* before has found it empty and left it so.  That is why a reader that    *)
(* does not wait for the semaphore does no harm.                           *)
OverwritesNothing == \A t \in Threads : rb'[t] \notin {0, rb[t]} => unread[rb'[t]] = 0
InitOverwritesNothing == [][OverwritesNothing]_vars

(* "The number of ringbuffer Must be (# pmd threads + 1)"                  *)
(* (user_reader.cpp:36): the ring of every poll thread has a name of its   *)
(* own, by which a reader finds it.                                        *)
RingPerThread == \A t \in Threads : rb[t] # 0 => shm[ring_name[t]] = rb[t]

=============================================================================
