----------------------------- MODULE UserReader -----------------------------
(***************************************************************************)
(* user_reader: main and its SIGINT handler.  It polls the ring buffers,   *)
(* inserts every tuple into two sketches until an all-zero tuple comes,    *)
(* and then answers a query for every further tuple, one line per result   *)
(* file.  The handler may run between any two steps of main; it stops the  *)
(* loops, clears the sketches and closes the files.                        *)
(*                                                                         *)
(* The rings are FIFO queues, as module TupleQueue specifies and           *)
(* RingBuffer implements.  A sketch is kept as the tuples inserted since   *)
(* it was cleared; CountSketchSS and CountSketch say what it counts.       *)
(***************************************************************************)
EXTENDS Integers, SequencesExt

CONSTANTS
  MAX_RINGBUFFER_NUM,
  Zero,                 \* the tuple whose addresses are 0
  MaxSent,              \* bound: tuples written to all rings
  MaxSignals            \* bound: SIGINTs

Rings == 0 .. MAX_RINGBUFFER_NUM - 1

ASSUME RingsAssumption == MAX_RINGBUFFER_NUM \in Nat \ {0}

(* Any other tuple is named by the ring it goes to and its number there.   *)
Tuple(i, n) == <<i, n>>

VARIABLES
  rings,         \* the unread tuples of each ring
  sent, written, \* ghost: how many tuples were written to each ring, and
                 \* which that are not all-zero
  pc,            \* phase and next statement of main
  idx, t,
  KEEP_RUNNING,
  ss, ns,        \* the sketches
  fed,           \* ghost: the tuples main has counted (counter)
  answer,        \* the keys' counts in ns and ss: what each sketch held
  files,         \* the result files that are open, of "f" and "f2"
  lines, lines2, \* the lines of the two files: key and count
  signals        \* ghost: SIGINTs so far

inputVars  == <<rings, sent, written>>
loopVars   == <<idx, t, KEEP_RUNNING>>
sketchVars == <<ss, ns, fed>>
answerVars == <<answer, files, lines, lines2>>
vars == <<inputVars, pc, loopVars, sketchVars, answerVars, signals>>

(* main begins where the handler is installed; a SIGINT before that ends   *)
(* the process.  t is not initialised: its first value is whatever the     *)
(* stack holds, all-zero addresses or not.                                 *)
Unset == Tuple(0, 0)

Init ==
  /\ rings = [i \in Rings |-> <<>>] /\ sent = [i \in Rings |-> 0] /\ written = {}
  /\ pc = <<"start", "enable">>
  /\ idx = 0 /\ t \in {Unset, Zero} /\ KEEP_RUNNING = FALSE
  /\ ss = <<>> /\ ns = <<>> /\ fed = <<>>
  /\ answer = [ns |-> <<>>, ss |-> <<>>]
  /\ files = {} /\ lines = <<>> /\ lines2 = <<>>
  /\ signals = 0

Goto(a, b) == pc = a /\ pc' = b /\ UNCHANGED signals

Enable ==
  /\ Goto(<<"start", "enable">>, <<"insert", "test">>)
  /\ KEEP_RUNNING' = TRUE
  /\ UNCHANGED <<inputVars, idx, t, sketchVars, answerVars>>

-----------------------------------------------------------------------------
(* What the insert and the query loop have in common.                      *)

TestRunOn(phase, exit) ==     \* mutant: KEEP_RUNNING is not looked at again
  /\ Goto(<<phase, "test">>, <<phase, "read">>)
  /\ UNCHANGED <<inputVars, loopVars, sketchVars, answerVars>>
Test(phase, exit) ==
  /\ Goto(<<phase, "test">>, IF KEEP_RUNNING THEN <<phase, "read">> ELSE exit)
  /\ UNCHANGED <<inputVars, loopVars, sketchVars, answerVars>>

ReadTupleOver(phase) ==     \* mutant: the poll goes on when it has succeeded
  /\ rings[idx] # <<>>
  /\ Goto(<<phase, "read">>, <<phase, "failed">>)
  /\ t' = Head(rings[idx]) /\ rings' = [rings EXCEPT ![idx] = Tail(@)]
  /\ UNCHANGED <<sent, written, idx, KEEP_RUNNING, sketchVars, answerVars>>
ReadTuple(phase) ==
  /\ rings[idx] # <<>>
  /\ Goto(<<phase, "read">>, <<phase, "have">>)
  /\ t' = Head(rings[idx]) /\ rings' = [rings EXCEPT ![idx] = Tail(@)]
  /\ UNCHANGED <<sent, written, idx, KEEP_RUNNING, sketchVars, answerVars>>

ReadNothing(phase) ==
  /\ rings[idx] = <<>>
  /\ Goto(<<phase, "read">>, <<phase, "failed">>)
  /\ UNCHANGED <<inputVars, loopVars, sketchVars, answerVars>>

(* A failed read goes on to the next ring, unless the handler ran in the   *)
(* meantime: then main goes on with t as it is.                            *)
NextRingSame(i) == i     \* mutant: only the first ring is polled
NextRing(i) == (i + 1) % MAX_RINGBUFFER_NUM
TryNext(phase) ==
  /\ Goto(<<phase, "failed">>, <<phase, IF KEEP_RUNNING THEN "read" ELSE "have">>)
  /\ idx' = IF KEEP_RUNNING THEN NextRing(idx) ELSE idx
  /\ UNCHANGED <<inputVars, t, KEEP_RUNNING, sketchVars, answerVars>>

-----------------------------------------------------------------------------
(* The rest of the insert loop.                                            *)

CountTuple ==
  /\ Goto(<<"insert", "have">>,
          IF t = Zero THEN <<"query", "open">> ELSE <<"insert", "ss">>)
  /\ fed' = IF t = Zero THEN fed ELSE Append(fed, t)
  /\ UNCHANGED <<inputVars, loopVars, ss, ns, answerVars>>

SsInsert ==
  /\ Goto(<<"insert", "ss">>, <<"insert", "ns">>)
  /\ ss' = Append(ss, t)
  /\ UNCHANGED <<inputVars, loopVars, ns, fed, answerVars>>

NsInsert ==
  /\ Goto(<<"insert", "ns">>, <<"insert", "test">>)
  /\ ns' = Append(ns, t)
  /\ UNCHANGED <<inputVars, loopVars, ss, fed, answerVars>>

-----------------------------------------------------------------------------
(* The query loop.                                                         *)

Open ==
  /\ Goto(<<"query", "open">>, <<"query", "test">>)
  /\ files' = {"f", "f2"}
  /\ UNCHANGED <<inputVars, loopVars, sketchVars, answer, lines, lines2>>

SkipZero ==
  /\ Goto(<<"query", "have">>, <<"query", IF t = Zero THEN "test" ELSE "ns">>)
  /\ UNCHANGED <<inputVars, loopVars, sketchVars, answerVars>>

NsQuery ==
  /\ Goto(<<"query", "ns">>, <<"query", "ss">>)
  /\ answer' = [answer EXCEPT !.ns = ns]
  /\ UNCHANGED <<inputVars, loopVars, sketchVars, files, lines, lines2>>

SsQuery ==
  /\ Goto(<<"query", "ss">>, <<"query", "write">>)
  /\ answer' = [answer EXCEPT !.ss = ss]
  /\ UNCHANGED <<inputVars, loopVars, sketchVars, files, lines, lines2>>

(* A line for a file that is not open is lost.                             *)
Line(file, out, count) ==
  IF file \in files THEN Append(out, [key |-> t, count |-> count]) ELSE out

Write ==
  /\ Goto(<<"query", "write">>, <<"query", "write2">>)
  /\ lines' = Line("f", lines, answer.ns)
  /\ UNCHANGED <<inputVars, loopVars, sketchVars, answer, files, lines2>>

Write2 ==
  /\ Goto(<<"query", "write2">>, <<"query", "test">>)
  /\ lines2' = Line("f2", lines2, answer.ss)
  /\ UNCHANGED <<inputVars, loopVars, sketchVars, answer, files, lines>>

-----------------------------------------------------------------------------
(* The handler and the writers of the rings.                               *)

handlerFilesOpen ==     \* mutant: the files are not closed
  /\ signals < MaxSignals /\ signals' = signals + 1
  /\ KEEP_RUNNING' = FALSE /\ ss' = <<>> /\ ns' = <<>>
  /\ UNCHANGED <<inputVars, pc, idx, t, fed, answerVars>>
handler ==
  /\ pc # <<"done">>
  /\ signals < MaxSignals /\ signals' = signals + 1
  /\ KEEP_RUNNING' = FALSE
  /\ ss' = <<>> /\ ns' = <<>>
  /\ files' = {}
  /\ UNCHANGED <<inputVars, pc, idx, t, fed, answer, lines, lines2>>

Total == SumFunction(sent)

Send(i) ==
  /\ Total < MaxSent
  /\ sent' = [sent EXCEPT ![i] = @ + 1]
  /\ \E x \in {Zero, Tuple(i, sent[i] + 1)} :
       /\ rings' = [rings EXCEPT ![i] = Append(@, x)]
       /\ written' = written \cup ({x} \ {Zero})
  /\ UNCHANGED <<pc, loopVars, sketchVars, answerVars, signals>>

InsertLoop ==
  \/ Test("insert", <<"query", "open">>)
  \/ ReadTuple("insert") \/ ReadNothing("insert") \/ TryNext("insert")
  \/ CountTuple \/ SsInsert \/ NsInsert

QueryLoop ==
  \/ Open \/ Test("query", <<"done">>)
  \/ ReadTuple("query") \/ ReadNothing("query") \/ TryNext("query")
  \/ SkipZero \/ NsQuery \/ SsQuery \/ Write \/ Write2

main == Enable \/ InsertLoop \/ QueryLoop

Next == main \/ handler \/ \E i \in Rings : Send(i)

(* main is a process of its own, run by a fair scheduler.                  *)
Spec == Init /\ [][Next]_vars /\ WF_vars(main)

-----------------------------------------------------------------------------
(* Properties.                                                             *)

(* The tuples of each ring, in the order they were written and none twice. *)
InOrderOnce(s) ==
  \A m, n \in 1 .. Len(s) : m < n /\ s[m][1] = s[n][1] => s[m][2] < s[n][2]

(* s has all that was read from the rings, all-zero tuples apart, and no   *)
(* more.                                                                   *)
Unread == {x \in written : \E i \in Rings : \E n \in DOMAIN rings[i] : rings[i][n] = x}
Exact(s) == InOrderOnce(s) /\ {s[n] : n \in DOMAIN s} = written \ Unread

(* What main is done with, counted or answered by a line of the first      *)
(* file; and that it works on a tuple it is not done with.                 *)
Done == fed \o [n \in DOMAIN lines |-> lines[n].key]
InHand ==
  /\ pc \in ({"insert", "query"} \X {"have"}) \cup ({"query"} \X {"ns", "ss", "write"})
  /\ t # Zero

(* Every tuple is counted or answered once, each ring's in their order,    *)
(* and none is lost.  When the handler stops main, it may drop the query   *)
(* it works on, or work once more on a tuple that it is done with or has   *)
(* never read: the answer is lost, and a tuple that is counted so is the   *)
(* last, and no line is ever written.                                      *)
CountedOnce ==
  IF KEEP_RUNNING
  THEN Exact(IF InHand THEN Append(Done, t) ELSE Done)
  ELSE \/ Exact(Done)
       \/ t # Zero /\ Exact(Append(Done, t))
       \/ lines = <<>> /\ Exact(Front(fed))

(* A result line never comes from a sketch the handler has cleared, or     *)
(* from one that lacks a tuple main had counted: not when the handler runs *)
(* between insert and insert, between query and write, or before main has  *)
(* set KEEP_RUNNING.                                                       *)
HonestLines ==
  /\ \A n \in DOMAIN lines  : lines[n].count = fed
  /\ \A n \in DOMAIN lines2 : lines2[n].count = fed

(* The two result files answer the same keys line by line, but for a last  *)
(* line of the first.                                                      *)
LinesPaired ==
  /\ Len(lines) - Len(lines2) \in 0 .. 1
  /\ \A n \in DOMAIN lines2 : lines2[n].key = lines[n].key

(* What the two files hold can be relied on and compared.                  *)
ResultLines == HonestLines /\ LinesPaired

(* Once the handler has cleared KEEP_RUNNING, main ends, unless it had yet *)
(* to set it: then the signal is lost.                                     *)
StopsWhenTold ==
  (~KEEP_RUNNING /\ pc # <<"start", "enable">>) ~> (pc = <<"done">>)

(* Every ring is read, as far as the others fall silent some time.         *)
EveryRingIsRead ==
  \A i \in Rings : rings[i] # <<>> ~> (rings[i] = <<>> \/ pc = <<"done">>)

=============================================================================
