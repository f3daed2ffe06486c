--------------------------- MODULE UserReaderProofs ---------------------------
(***************************************************************************)
(* For any number of rings and of signals: user_reader works on every      *)
(* tuple once and in order and loses none (CountedOnce), and no line of    *)
(* its two result files comes from a sketch that was cleared or that lacks *)
(* a tuple (ResultLines).                                                  *)
(*                                                                         *)
(* The handler may run anywhere, but it does all it does at once: as long  *)
(* as KEEP_RUNNING holds nothing has been cleared or closed, and when it   *)
(* does not, no line is written any more.  So nearly all that the          *)
(* invariants say, they say of a main that is kept running.                *)
(***************************************************************************)
EXTENDS UserReader, SequenceTheorems, TLAPS

ZeroAssumption == Zero \notin Rings \X Nat

Tuples == Rings \X Nat
ResultLine == [key : Tuples, count : Seq(Tuples)]

InsertPcs == {"test", "read", "failed", "have", "ss", "ns"}
QueryPcs  == {"open", "test", "read", "failed", "have", "ns", "ss", "write", "write2"}

TypeInv ==
  /\ rings \in [Rings -> Seq(Tuples \cup {Zero})] /\ sent \in [Rings -> Nat]
  /\ written \in SUBSET Tuples
  /\ pc \in {<<"start", "enable">>, <<"done">>}
              \cup ({"insert"} \X InsertPcs) \cup ({"query"} \X QueryPcs)
  /\ pc \in ({"insert"} \X {"ss", "ns"}) \cup ({"query"} \X {"ns", "ss", "write", "write2"})
       => t # Zero
  /\ idx \in Rings /\ t \in Tuples \cup {Zero} /\ KEEP_RUNNING \in BOOLEAN
  /\ fed \in Seq(Tuples) /\ ss \in Seq(Tuples) /\ ns \in Seq(Tuples)
  /\ answer \in [ns : Seq(Tuples), ss : Seq(Tuples)]
  /\ lines \in Seq(ResultLine) /\ lines2 \in Seq(ResultLine)

-----------------------------------------------------------------------------
LEMMA DoneIsNoPair == \A a, b : <<"done">> # <<a, b>>
OBVIOUS

LEMMA TypeKeeps ==
  ASSUME RingsAssumption, TypeInv, [Next]_vars
  PROVE  TypeInv'
<1> USE DEF Goto, TypeInv, InsertPcs, QueryPcs, inputVars, loopVars, sketchVars, answerVars
<1>1. CASE UNCHANGED vars BY <1>1 DEF vars
<1>2. CASE Enable BY <1>2 DEF Enable
<1>3. ASSUME NEW phase \in {"insert", "query"}, NEW exit \in {<<"query", "open">>, <<"done">>},
             Test(phase, exit) \/ ReadNothing(phase)
      PROVE  TypeInv'
  BY <1>3 DEF Test, ReadNothing
<1>4. ASSUME NEW phase \in {"insert", "query"}, ReadTuple(phase)
      PROVE  TypeInv'
  <2>1. rings[idx] \in Seq(Tuples \cup {Zero}) /\ rings[idx] # <<>> BY <1>4 DEF ReadTuple
  <2>2. t' \in Tuples \cup {Zero} /\ Tail(rings[idx]) \in Seq(Tuples \cup {Zero})
    BY <1>4, <2>1 DEF ReadTuple
  <2>3. rings' \in [Rings -> Seq(Tuples \cup {Zero})] BY <1>4, <2>2 DEF ReadTuple
  <2> QED BY <1>4, <2>2, <2>3 DEF ReadTuple
<1>5. ASSUME NEW phase \in {"insert", "query"}, TryNext(phase)
      PROVE  TypeInv'
  <2>1. idx' \in Rings BY <1>5 DEF TryNext, NextRing, Rings, RingsAssumption
  <2> QED BY <1>5, <2>1 DEF TryNext
<1>6. CASE CountTuple
  <2>1. t # Zero => Append(fed, t) \in Seq(Tuples) OBVIOUS
  <2> QED BY <1>6, <2>1 DEF CountTuple
<1>7. CASE SsInsert \/ NsInsert
  <2>1. Append(ss, t) \in Seq(Tuples) /\ Append(ns, t) \in Seq(Tuples)
    BY <1>7 DEF SsInsert, NsInsert
  <2>2. CASE SsInsert BY <2>1, <2>2 DEF SsInsert
  <2>3. CASE NsInsert BY <2>1, <2>3 DEF NsInsert
  <2> QED BY <1>7, <2>2, <2>3
<1>8. CASE Open \/ SkipZero BY <1>8 DEF Open, SkipZero
<1>9. CASE NsQuery \/ SsQuery
  <2>1. [answer EXCEPT !.ns = ns] \in [ns : Seq(Tuples), ss : Seq(Tuples)]
    OBVIOUS
  <2>2. [answer EXCEPT !.ss = ss] \in [ns : Seq(Tuples), ss : Seq(Tuples)]
    OBVIOUS
  <2>3. CASE NsQuery BY <2>1, <2>3 DEF NsQuery
  <2>4. CASE SsQuery BY <2>2, <2>4 DEF SsQuery
  <2> QED BY <1>9, <2>3, <2>4
<1>10. CASE Write \/ Write2
  <2>0. t \in Tuples BY <1>10 DEF Write, Write2
  <2>1. /\ [key |-> t, count |-> answer.ns] \in ResultLine
        /\ [key |-> t, count |-> answer.ss] \in ResultLine
    BY <2>0 DEF ResultLine
  <2>2. Line("f", lines, answer.ns) \in Seq(ResultLine) BY <2>1 DEF Line
  <2>3. Line("f2", lines2, answer.ss) \in Seq(ResultLine) BY <2>1 DEF Line
  <2>4. CASE Write BY <2>2, <2>4 DEF Write
  <2>5. CASE Write2 BY <2>3, <2>5 DEF Write2
  <2> QED BY <1>10, <2>4, <2>5
<1>11. CASE handler
  <2>1. <<>> \in Seq(Tuples) OBVIOUS
  <2> QED BY <1>11, <2>1 DEF handler
<1>12. ASSUME NEW i \in Rings, Send(i) PROVE TypeInv'
  <2>1. PICK x \in {Zero, Tuple(i, sent[i] + 1)} :
          rings' = [rings EXCEPT ![i] = Append(@, x)] /\ written' = written \cup ({x} \ {Zero})
    BY <1>12 DEF Send
  <2>2. Tuple(i, sent[i] + 1) \in Tuples BY DEF Tuple, Tuples
  <2>3. /\ rings' \in [Rings -> Seq(Tuples \cup {Zero})]
        /\ written' \in SUBSET Tuples
    BY <2>1, <2>2
  <2> QED BY <1>12, <2>3 DEF Send
<1> QED
  BY <1>1, <1>2, <1>3, <1>4, <1>5, <1>6, <1>7, <1>8, <1>9, <1>10, <1>11, <1>12
  DEF Next, main, InsertLoop, QueryLoop
-----------------------------------------------------------------------------
(* What main has counted is in both sketches, but for the tuple it is      *)
(* inserting, unless it has been told to stop.                             *)
SketchInv ==
  KEEP_RUNNING =>
    /\ pc = <<"insert", "ss">> => Append(ss, t) = fed /\ ns = ss
    /\ pc = <<"insert", "ns">> => ss = fed /\ Append(ns, t) = fed
    /\ pc \notin {"insert"} \X {"ss", "ns"} => ss = fed /\ ns = fed

(* Where main is in the query loop and could write a line.                 *)
Querying == pc \in {"query"} \X (QueryPcs \ {"open", "test"})

AnswerInv ==
  /\ Querying /\ ~KEEP_RUNNING => files = {}
  /\ KEEP_RUNNING =>
       /\ pc \in {"query"} \X (QueryPcs \ {"open"}) => files = {"f", "f2"}
       /\ pc \in {"query"} \X {"ss", "write"} => answer.ns = fed
       /\ pc \in {"query"} \X {"write", "write2"} => answer.ss = fed

LinesInv ==
  /\ ResultLines
  /\ pc \notin {"query"} \X (QueryPcs \ {"open"}) /\ pc # <<"done">>
       => lines = <<>> /\ lines2 = <<>>
  /\ KEEP_RUNNING =>
       IF pc = <<"query", "write2">>
         THEN Len(lines) = Len(lines2) + 1 /\ lines[Len(lines)].key = t
         ELSE Len(lines) = Len(lines2)

QueryInv ==
  /\ SketchInv /\ AnswerInv /\ LinesInv
  /\ pc = <<"start", "enable">> => fed = <<>> /\ ss = <<>> /\ ns = <<>>

LEMMA InitType ==
  ASSUME RingsAssumption, Init
  PROVE  TypeInv
<1>1. Unset \in Tuples BY DEF Unset, Tuple, Tuples, Rings, RingsAssumption
<1>2. <<>> \in Seq(Tuples) /\ <<>> \in Seq(ResultLine) OBVIOUS
<1>3. /\ rings \in [Rings -> Seq(Tuples \cup {Zero})] /\ sent \in [Rings -> Nat]
      /\ 0 \in Rings
  <2>1. <<>> \in Seq(Tuples \cup {Zero}) OBVIOUS
  <2> QED BY <2>1 DEF Init, Rings, RingsAssumption
<1>4. t \in Tuples \cup {Zero} BY <1>1 DEF Init
<1> QED BY <1>2, <1>3, <1>4 DEF Init, TypeInv

LEMMA InitQuery ==
  ASSUME Init
  PROVE  QueryInv
BY DEF Init, QueryInv, SketchInv, Querying, AnswerInv, LinesInv, ResultLines,
       HonestLines, LinesPaired, QueryPcs

LEMMA NextKeepsQuery ==
  ASSUME RingsAssumption, TypeInv, QueryInv, [Next]_vars
  PROVE  QueryInv'
<1> USE DEF Goto, inputVars, loopVars, sketchVars, answerVars, QueryPcs
<1>1. CASE UNCHANGED vars
  BY <1>1 DEF vars, QueryInv, SketchInv, Querying, AnswerInv, LinesInv,
     ResultLines, HonestLines, LinesPaired
(* Most steps leave fed and the lines as they are.                         *)
<1>2. ASSUME UNCHANGED <<fed, lines, lines2>> PROVE ResultLines'
  BY <1>2 DEF QueryInv, LinesInv, ResultLines, HonestLines, LinesPaired
<1>3. CASE Enable
  <2>1. SketchInv' BY <1>3 DEF Enable, QueryInv, SketchInv
  <2>2. AnswerInv' BY <1>3 DEF Enable, AnswerInv, Querying
  <2>3. LinesInv' BY <1>2, <1>3 DEF Enable, QueryInv, LinesInv
  <2> QED BY <1>3, <2>1, <2>2, <2>3 DEF Enable, QueryInv
<1>4. ASSUME NEW phase \in {"insert", "query"},
             NEW exit, phase = "insert" => exit = <<"query", "open">>,
             phase = "query" => exit = <<"done">>, Test(phase, exit)
      PROVE  QueryInv'
  <2>1. SketchInv' BY <1>4 DEF Test, QueryInv, SketchInv, TypeInv
  <2>2. AnswerInv' BY <1>4 DEF Test, QueryInv, AnswerInv, Querying, TypeInv
  <2>3. LinesInv' BY <1>2, <1>4 DEF Test, QueryInv, LinesInv, TypeInv
  <2> QED BY <1>4, <2>1, <2>2, <2>3 DEF Test, QueryInv
<1>5. ASSUME NEW phase \in {"insert", "query"},
             ReadTuple(phase) \/ ReadNothing(phase) \/ TryNext(phase)
      PROVE  QueryInv'
  <2>0. /\ pc \in {phase} \X {"read", "failed"} /\ pc' \in {phase} \X {"read", "failed", "have"}
        /\ UNCHANGED <<KEEP_RUNNING, sketchVars, answerVars>>
    BY <1>5 DEF ReadTuple, ReadNothing, TryNext
  <2>1. SketchInv' BY <2>0 DEF QueryInv, SketchInv
  <2>2. AnswerInv' BY <2>0 DEF QueryInv, AnswerInv, Querying
  <2>3. LinesInv' BY <1>2, <2>0 DEF QueryInv, LinesInv
  <2> QED BY <2>0, <2>1, <2>2, <2>3 DEF QueryInv
<1>6. CASE CountTuple
  <2>1. SketchInv' BY <1>6 DEF CountTuple, QueryInv, SketchInv
  <2>2. AnswerInv' BY <1>6 DEF CountTuple, AnswerInv, Querying
  <2>3. lines = <<>> /\ lines2 = <<>> /\ UNCHANGED <<lines, lines2>>
    BY <1>6 DEF CountTuple, QueryInv, LinesInv
  <2>4. LinesInv'
    BY <1>6, <2>3 DEF CountTuple, LinesInv, ResultLines, HonestLines, LinesPaired
  <2> QED BY <1>6, <2>1, <2>2, <2>4 DEF CountTuple, QueryInv
<1>7. CASE SsInsert \/ NsInsert
  <2>1. SketchInv'
    <3>1. CASE SsInsert BY <3>1 DEF SsInsert, QueryInv, SketchInv
    <3>2. CASE NsInsert BY <3>2 DEF NsInsert, QueryInv, SketchInv
    <3> QED BY <1>7, <3>1, <3>2
  <2>2. AnswerInv' BY <1>7 DEF SsInsert, NsInsert, AnswerInv, Querying
  <2>3. LinesInv' BY <1>2, <1>7 DEF SsInsert, NsInsert, QueryInv, LinesInv
  <2> QED BY <1>7, <2>1, <2>2, <2>3 DEF SsInsert, NsInsert, QueryInv
<1>8. CASE Open
  <2>1. SketchInv' BY <1>8 DEF Open, QueryInv, SketchInv
  <2>2. AnswerInv' BY <1>8 DEF Open, AnswerInv, Querying
  <2>3. LinesInv' BY <1>2, <1>8 DEF Open, QueryInv, LinesInv
  <2> QED BY <1>8, <2>1, <2>2, <2>3 DEF Open, QueryInv
<1>9. CASE SkipZero \/ NsQuery \/ SsQuery
  <2>0. /\ pc \in {"query"} \X QueryPcs /\ pc' \in {"query"} \X QueryPcs
        /\ UNCHANGED <<KEEP_RUNNING, sketchVars>>
    BY <1>9 DEF SkipZero, NsQuery, SsQuery
  <2>1. SketchInv' BY <2>0 DEF QueryInv, SketchInv
  <2>2. AnswerInv'
    <3>1. CASE SkipZero BY <1>9, <3>1 DEF SkipZero, QueryInv, AnswerInv, Querying
    <3>2. CASE NsQuery
      BY <3>2 DEF NsQuery, QueryInv, SketchInv, AnswerInv, Querying, TypeInv
    <3>3. CASE SsQuery
      BY <3>3 DEF SsQuery, QueryInv, SketchInv, AnswerInv, Querying, TypeInv
    <3> QED BY <1>9, <3>1, <3>2, <3>3
  <2>3. LinesInv' BY <1>2, <1>9 DEF SkipZero, NsQuery, SsQuery, QueryInv, LinesInv
  <2> QED BY <1>9, <2>1, <2>2, <2>3 DEF SkipZero, NsQuery, SsQuery, QueryInv
<1>10. CASE Write \/ Write2
  <2>0. /\ pc \in {"query"} \X QueryPcs /\ pc' \in {"query"} \X QueryPcs
        /\ UNCHANGED <<KEEP_RUNNING, sketchVars>>
    BY <1>10 DEF Write, Write2
  <2>1. SketchInv' BY <2>0 DEF QueryInv, SketchInv
  <2>2. AnswerInv' BY <1>10 DEF Write, Write2, QueryInv, AnswerInv, Querying
  <2>3. LinesInv'
    <3> DEFINE line(count) == [key |-> t, count |-> count]
    <3>1. /\ lines \in Seq(ResultLine) /\ lines2 \in Seq(ResultLine)
          /\ Len(lines) \in Nat /\ Len(lines2) \in Nat
      BY DEF TypeInv
    <3>2. HonestLines /\ LinesPaired BY DEF QueryInv, LinesInv, ResultLines
    <3>3. CASE ~KEEP_RUNNING
      <4>1. UNCHANGED <<lines, lines2, KEEP_RUNNING, fed>>
        BY <1>10, <3>3 DEF Write, Write2, Line, QueryInv, AnswerInv, Querying
      <4> QED BY <1>2, <1>10, <3>3, <4>1 DEF Write, Write2, LinesInv
    <3>4. CASE KEEP_RUNNING /\ Write
      <4>1. /\ pc' = <<"query", "write2">> /\ lines' = Append(lines, line(fed))
            /\ Len(lines) = Len(lines2) /\ UNCHANGED <<t, fed, lines2, KEEP_RUNNING>>
        BY <3>4 DEF Write, Line, QueryInv, AnswerInv, LinesInv
      <4>2. line(fed) \in ResultLine BY <1>10 DEF Write, Write2, ResultLine, TypeInv
      <4>3. /\ Len(lines') = Len(lines) + 1 /\ lines'[Len(lines')] = line(fed)
            /\ \A n \in 1 .. Len(lines) : lines'[n] = lines[n]
        BY <3>1, <4>1, <4>2
      <4>4. \A n \in DOMAIN lines' : lines'[n].count = fed'
        BY <3>1, <3>2, <4>1, <4>2, <4>3 DEF HonestLines
      <4>5. HonestLines' BY <3>2, <4>1, <4>4 DEF HonestLines
      <4>6. LinesPaired' BY <3>1, <3>2, <4>1, <4>3 DEF LinesPaired
      <4> QED BY <4>1, <4>3, <4>5, <4>6 DEF LinesInv, ResultLines
    <3>5. CASE KEEP_RUNNING /\ Write2
      <4>1. /\ pc' = <<"query", "test">> /\ lines2' = Append(lines2, line(fed))
            /\ Len(lines) = Len(lines2) + 1 /\ lines[Len(lines)].key = t
            /\ UNCHANGED <<t, fed, lines, KEEP_RUNNING>>
        BY <3>5 DEF Write2, Line, QueryInv, AnswerInv, LinesInv
      <4>2. line(fed) \in ResultLine BY <1>10 DEF Write, Write2, ResultLine, TypeInv
      <4>3. /\ Len(lines2') = Len(lines2) + 1 /\ lines2'[Len(lines2')] = line(fed)
            /\ \A n \in 1 .. Len(lines2) : lines2'[n] = lines2[n]
        BY <3>1, <4>1, <4>2
      <4>4. \A n \in DOMAIN lines2' : lines2'[n].count = fed'
        BY <3>1, <3>2, <4>1, <4>2, <4>3 DEF HonestLines
      <4>5. HonestLines' BY <3>2, <4>1, <4>4 DEF HonestLines
      <4>6. \A n \in DOMAIN lines2' : lines2'[n].key = lines'[n].key
        BY <3>1, <3>2, <4>1, <4>2, <4>3 DEF LinesPaired
      <4>7. LinesPaired' BY <3>1, <4>1, <4>3, <4>6 DEF LinesPaired
      <4> QED BY <4>1, <4>3, <4>5, <4>7 DEF LinesInv, ResultLines
    <3> QED BY <1>10, <3>3, <3>4, <3>5
  <2> QED BY <1>10, <2>1, <2>2, <2>3 DEF Write, Write2, QueryInv
<1>11. CASE handler
  <2>1. SketchInv' BY <1>11 DEF handler, SketchInv
  <2>2. AnswerInv' BY <1>11 DEF handler, AnswerInv
  <2>3. LinesInv' BY <1>2, <1>11 DEF handler, QueryInv, LinesInv
  <2> QED BY <1>11, <2>1, <2>2, <2>3 DEF handler, QueryInv
<1>12. ASSUME NEW i \in Rings, Send(i) PROVE QueryInv'
  <2>1. UNCHANGED <<pc, loopVars, sketchVars, answerVars>> BY <1>12 DEF Send
  <2>2. SketchInv' BY <2>1 DEF QueryInv, SketchInv
  <2>3. AnswerInv' BY <2>1 DEF QueryInv, AnswerInv, Querying
  <2>4. LinesInv' BY <1>2, <2>1 DEF QueryInv, LinesInv
  <2> QED BY <2>1, <2>2, <2>3, <2>4 DEF QueryInv
<1> QED
  BY <1>1, <1>3, <1>4, <1>5, <1>6, <1>7, <1>8, <1>9, <1>10, <1>11, <1>12
  DEF Next, main, InsertLoop, QueryLoop

-----------------------------------------------------------------------------
(* The tuples that have been read, and that s is all of such a set.        *)
Taken == written \ Unread

AllOf(s, T) == InOrderOnce(s) /\ {s[n] : n \in DOMAIN s} = T

(* The tuples in a ring are those of the ring, in the order of writing,    *)
(* and later than what has been read from it.                              *)
RingsInv ==
  /\ \A x \in written : x[2] <= sent[x[1]]
  /\ \A i \in Rings : \A m \in DOMAIN rings[i] : rings[i][m] # Zero =>
       /\ rings[i][m] \in written /\ rings[i][m][1] = i
       /\ \A n \in DOMAIN rings[i] :
            m < n /\ rings[i][n] # Zero => rings[i][m][2] < rings[i][n][2]
       /\ \A x \in Taken : x[1] = i => x[2] < rings[i][m][2]

PollPcs == ({"insert", "query"} \X {"read", "failed"}) \cup {<<"start", "enable">>}
HandPcs == ({"insert", "query"} \X {"have"}) \cup ({"query"} \X {"ns", "ss", "write"})

(* In a poll nothing is in hand; after it the tuple in hand has been read, *)
(* or, when main was stopped, it is done with or was never read.           *)
OrderInv ==
  /\ RingsInv
  /\ pc \in PollPcs => Exact(Done)
  /\ pc \in HandPcs => Exact(Done) \/ (t # Zero /\ Exact(Append(Done, t)))
  /\ CountedOnce

(* The keys of the lines l.                                                *)
KeysOf(l) == [n \in DOMAIN l |-> l[n].key]

LEMMA KeysType ==
  ASSUME NEW l \in Seq(ResultLine)
  PROVE  KeysOf(l) \in Seq(Tuples) /\ Len(KeysOf(l)) = Len(l)
<1>1. /\ DOMAIN l = 1 .. Len(l) /\ Len(l) \in Nat
      /\ \A n \in 1 .. Len(l) : l[n].key \in Tuples
  <2>1. \A n \in 1 .. Len(l) : l[n] \in ResultLine OBVIOUS
  <2>2. \A x \in ResultLine : x.key \in Tuples BY DEF ResultLine
  <2> QED BY <2>1, <2>2
<1>2. PICK len \in Nat : len = Len(l) /\ DOMAIN l = 1 .. len
  BY <1>1
<1>3. KeysOf(l) \in [1 .. len -> Tuples]
  BY <1>1, <1>2 DEF KeysOf
<1>4. KeysOf(l) \in Seq(Tuples) /\ Len(KeysOf(l)) = len
  BY <1>2, <1>3
<1> QED BY <1>2, <1>4

LEMMA DoneType ==
  ASSUME NEW f \in Seq(Tuples), NEW l \in Seq(ResultLine)
  PROVE  f \o KeysOf(l) \in Seq(Tuples) /\ (l = <<>> => f \o KeysOf(l) = f)
<1>1. PICK keys \in Seq(Tuples) : keys = KeysOf(l) /\ Len(keys) = Len(l)
  BY KeysType
<1>2. l = <<>> => keys = <<>>
  <2> SUFFICES ASSUME l = <<>> PROVE keys = <<>> OBVIOUS
  <2>1. Len(keys) = 0 BY <1>1
  <2> QED BY <2>1, EmptySeq
<1> QED BY <1>1, <1>2, ConcatProperties, ConcatEmptySeq

LEMMA AppendExact ==
  ASSUME NEW s \in Seq(Tuples), NEW x \in Tuples, NEW T, AllOf(s, T),
         \A y \in T : y[1] = x[1] => y[2] < x[2]
  PROVE  AllOf(Append(s, x), T \cup {x})
<1>1. /\ Len(s) \in Nat /\ Len(Append(s, x)) = Len(s) + 1 /\ Append(s, x)[Len(s) + 1] = x
      /\ \A k \in 1 .. Len(s) : Append(s, x)[k] = s[k]
      /\ DOMAIN s = 1 .. Len(s) /\ DOMAIN Append(s, x) = 1 .. Len(s) + 1
  OBVIOUS
<1>2. \A k \in 1 .. Len(s) : s[k] \in T BY <1>1 DEF AllOf
<1>3. InOrderOnce(Append(s, x))
  <2> SUFFICES ASSUME NEW m \in 1 .. Len(s) + 1, NEW n \in 1 .. Len(s) + 1, m < n,
                      Append(s, x)[m][1] = Append(s, x)[n][1]
               PROVE  Append(s, x)[m][2] < Append(s, x)[n][2]
    BY <1>1 DEF InOrderOnce
  <2>1. m \in 1 .. Len(s) BY <1>1
  <2>2. CASE n = Len(s) + 1 BY <1>1, <1>2, <2>1, <2>2
  <2>3. CASE n # Len(s) + 1
    <3>1. n \in 1 .. Len(s) BY <1>1, <2>3
    <3> QED BY <1>1, <2>1, <3>1 DEF AllOf, InOrderOnce
  <2> QED BY <2>2, <2>3
<1>4. {Append(s, x)[n] : n \in 1 .. Len(s) + 1} = {s[n] : n \in 1 .. Len(s)} \cup {x}
  <2>1. \A n \in 1 .. Len(s) + 1 : n \in 1 .. Len(s) \/ n = Len(s) + 1 BY <1>1
  <2>2. 1 .. Len(s) \subseteq 1 .. Len(s) + 1 /\ Len(s) + 1 \in 1 .. Len(s) + 1 BY <1>1
  <2> QED BY <1>1, <2>1, <2>2
<1> QED BY <1>1, <1>3, <1>4 DEF AllOf

(* How CountTuple and Write move a tuple from hand to done.                *)
LEMMA FedAppended ==
  ASSUME TypeInv, t # Zero, lines = <<>>, fed' = Append(fed, t), UNCHANGED lines
  PROVE  Done' = Append(Done, t) /\ Front(fed') = Done
<1>1. fed \in Seq(Tuples) /\ t \in Tuples /\ lines \in Seq(ResultLine) BY DEF TypeInv
<1>2. Done = fed BY <1>1, DoneType DEF Done, KeysOf
<1>3. Append(fed, t) \in Seq(Tuples) BY <1>1
<1>4. Done' = Append(fed, t)
  BY <1>1, <1>3, DoneType DEF Done, KeysOf
<1>5. Front(Append(fed, t)) = fed
  <2>1. Len(Append(fed, t)) = Len(fed) + 1 BY <1>1
  <2>2. \A k \in 1 .. Len(fed) : Append(fed, t)[k] = fed[k] BY <1>1
  <2> QED BY <1>1, <2>1, <2>2 DEF Front
<1> QED BY <1>2, <1>4, <1>5

LEMMA LineAppended ==
  ASSUME TypeInv, t # Zero, UNCHANGED fed, NEW line \in ResultLine, line.key = t,
         lines' = Append(lines, line)
  PROVE  Done' = Append(Done, t)
<1>1. lines \in Seq(ResultLine) /\ fed \in Seq(Tuples) /\ t \in Tuples BY DEF TypeInv
<1>2. KeysOf(Append(lines, line)) = Append(KeysOf(lines), t)
  <2>1. PICK longer \in Seq(ResultLine) : longer = Append(lines, line)
    BY <1>1
  <2>2. /\ Len(longer) = Len(lines) + 1 /\ Len(lines) \in Nat
        /\ longer[Len(lines) + 1] = line /\ \A n \in 1 .. Len(lines) : longer[n] = lines[n]
        /\ DOMAIN longer = 1 .. Len(lines) + 1 /\ DOMAIN lines = 1 .. Len(lines)
    BY <1>1, <2>1
  <2>3. /\ KeysOf(longer) \in Seq(Tuples) /\ Len(KeysOf(longer)) = Len(lines) + 1
        /\ KeysOf(lines) \in Seq(Tuples) /\ Len(KeysOf(lines)) = Len(lines)
    BY <1>1, <2>2, KeysType
  <2>4. ASSUME NEW n \in 1 .. Len(lines) + 1
        PROVE  KeysOf(longer)[n] = IF n = Len(lines) + 1 THEN t ELSE KeysOf(lines)[n]
    <3>1. KeysOf(longer)[n] = longer[n].key BY <2>2 DEF KeysOf
    <3>2. n # Len(lines) + 1 => n \in 1 .. Len(lines) /\ KeysOf(lines)[n] = lines[n].key
      BY <2>2 DEF KeysOf
    <3> QED BY <2>2, <3>1, <3>2
  <2>5. PICK u \in Seq(Tuples), v \in Seq(Tuples) : u = KeysOf(longer) /\ v = KeysOf(lines)
    BY <2>3
  <2>6. /\ Append(v, t) \in Seq(Tuples) /\ Len(Append(v, t)) = Len(v) + 1 /\ Len(u) = Len(v) + 1
        /\ Len(v) = Len(lines)
    BY <1>1, <2>3, <2>5
  <2>7. ASSUME NEW i \in 1 .. Len(u) PROVE u[i] = Append(v, t)[i]
    BY <1>1, <2>4, <2>5, <2>6, <2>7
  <2>8. u = Append(v, t) BY <2>6, <2>7, SeqEqual
  <2> QED BY <2>1, <2>5, <2>8
<1>3. PICK u \in Seq(Tuples) : u = KeysOf(lines) BY <1>1, KeysType
<1>4. fed \o Append(u, t) = Append(fed \o u, t) BY <1>1
<1>5. Done = fed \o u /\ Done' = fed \o Append(u, t)
  BY <1>2, <1>3 DEF Done, KeysOf
<1> QED BY <1>4, <1>5

-----------------------------------------------------------------------------
(* The rings, whoever takes from them or adds to them.                     *)
LEMMA ReadTakes ==
  ASSUME RingsAssumption, ZeroAssumption, TypeInv, RingsInv,
         NEW phase \in {"insert", "query"}, ReadTuple(phase)
  PROVE  /\ RingsInv' /\ t' \in Tuples \cup {Zero}
         /\ Taken' = Taken \cup ({t'} \ {Zero})
         /\ t' # Zero => \A y \in Taken : y[1] = t'[1] => y[2] < t'[2]
<1> DEFINE ring == rings[idx]
           shift(i) == IF i = idx THEN 1 ELSE 0
<1>1. idx \in Rings /\ ring \in Seq(Tuples \cup {Zero}) /\ ring # <<>>
  BY DEF ReadTuple, TypeInv
<1>2. /\ t' = ring[1] /\ rings' = [rings EXCEPT ![idx] = Tail(ring)]
      /\ UNCHANGED <<sent, written>>
  BY <1>1 DEF ReadTuple
<1>3. /\ Len(Tail(ring)) = Len(ring) - 1 /\ 1 \in DOMAIN ring
      /\ DOMAIN Tail(ring) = 1 .. Len(ring) - 1 /\ DOMAIN ring = 1 .. Len(ring)
      /\ Len(ring) \in Nat
      /\ \A m \in 1 .. Len(ring) - 1 : Tail(ring)[m] = ring[m + 1]
      /\ ring[1] \in Tuples \cup {Zero}
  BY <1>1
<1> HIDE DEF ring
<1>4. ASSUME NEW i \in Rings, NEW m \in DOMAIN rings'[i]
      PROVE  /\ m \in Nat \ {0} /\ m + shift(i) \in DOMAIN rings[i]
             /\ rings'[i][m] = rings[i][m + shift(i)]
  <2>1. rings \in [Rings -> Seq(Tuples \cup {Zero})] BY DEF TypeInv
  <2>2. CASE i = idx
    <3>1. rings'[i] = Tail(ring) BY <1>1, <1>2, <2>1, <2>2
    <3>2. m \in 1 .. Len(ring) - 1 BY <3>1, <1>3
    <3>3. m + 1 \in 1 .. Len(ring) BY <3>2, <1>3
    <3> QED BY <3>1, <3>2, <3>3, <2>2, <1>3 DEF ring
  <2>3. CASE i # idx
    <3>1. rings'[i] = rings[i] BY <1>2, <2>1, <2>3
    <3>2. rings[i] \in Seq(Tuples \cup {Zero}) BY <2>1
    <3> QED BY <3>1, <3>2, <2>3
  <2> QED BY <2>2, <2>3
<1>5. ASSUME NEW i \in Rings, NEW n \in DOMAIN rings[i], i # idx \/ n # 1
      PROVE  \E m \in DOMAIN rings'[i] : rings'[i][m] = rings[i][n]
  <2>1. rings \in [Rings -> Seq(Tuples \cup {Zero})] BY DEF TypeInv
  <2>2. CASE i = idx
    <3>1. rings'[i] = Tail(ring) BY <1>1, <1>2, <2>1, <2>2
    <3>2. n \in 1 .. Len(ring) /\ n # 1 BY <1>3, <1>5, <2>2 DEF ring
    <3>3. n - 1 \in 1 .. Len(ring) - 1 /\ (n - 1) + 1 = n BY <3>2, <1>3
    <3>4. Tail(ring)[n - 1] = ring[n] BY <3>3, <1>3
    <3> QED BY <3>1, <3>3, <3>4, <2>2, <1>3 DEF ring
  <2>3. CASE i # idx BY <1>2, <2>1, <2>3
  <2> QED BY <2>2, <2>3
<1>6. /\ written \subseteq Tuples /\ Zero \notin written
      /\ \A x \in written : x[1] \in Rings /\ x[2] \in Nat
  BY DEF TypeInv, Tuples, ZeroAssumption
<1>7. t' # Zero => t' \in written /\ t'[1] = idx /\ t' \in Unread
  BY <1>1, <1>2, <1>3 DEF RingsInv, Unread, ring
<1>8. Unread' = Unread \ {t'}
  <2>1. ASSUME NEW x \in Unread' PROVE x \in Unread /\ x # t'
    <3>1. x \in written BY <1>2 DEF Unread
    <3>2. PICK i \in Rings : \E m \in DOMAIN rings'[i] : rings'[i][m] = x BY DEF Unread
    <3>3. PICK m \in DOMAIN rings'[i] : rings'[i][m] = x BY <3>2
    <3>4. /\ m \in Nat \ {0} /\ m + shift(i) \in DOMAIN rings[i]
          /\ rings[i][m + shift(i)] = x
      BY <1>4, <3>3
    <3> HIDE DEF shift
    <3>5. x \in Unread BY <3>1, <3>4 DEF Unread
    <3>6. CASE t' = Zero BY <1>6, <3>1, <3>5, <3>6
    <3>7. CASE t' # Zero /\ i # idx
      <4>1. x[1] = i BY <1>6, <3>1, <3>4 DEF RingsInv
      <4> QED BY <1>7, <3>5, <3>7, <4>1
    <3>8. CASE t' # Zero /\ i = idx
      <4>1. shift(i) = 1 /\ 1 < m + 1 BY <3>4, <3>8 DEF shift
      <4>2. t'[2] < x[2]
        BY <1>1, <1>2, <1>3, <1>6, <3>1, <3>4, <3>8, <4>1 DEF RingsInv, ring
      <4>3. t'[2] \in Nat BY <1>6, <1>7, <3>8
      <4> QED BY <3>5, <4>2, <4>3
    <3> QED BY <3>6, <3>7, <3>8
  <2>2. ASSUME NEW x \in Unread, x # t' PROVE x \in Unread'
    <3>1. x \in written BY DEF Unread
    <3>2. PICK i \in Rings : \E n \in DOMAIN rings[i] : rings[i][n] = x BY DEF Unread
    <3>3. PICK n \in DOMAIN rings[i] : rings[i][n] = x BY <3>2
    <3>4. i # idx \/ n # 1 BY <1>2, <2>2, <3>3 DEF ring
    <3>5. \E m \in DOMAIN rings'[i] : rings'[i][m] = x BY <1>5, <3>3, <3>4
    <3> QED BY <1>2, <3>1, <3>5 DEF Unread
  <2> QED BY <2>1, <2>2
<1>9. Taken' = Taken \cup ({t'} \ {Zero})
  <2>1. Unread \subseteq written BY DEF Unread
  <2>2. t' = Zero => t' \notin written BY <1>6
  <2> QED BY <1>2, <1>7, <1>8, <2>1, <2>2 DEF Taken
<1>10. t' # Zero => \A y \in Taken : y[1] = t'[1] => y[2] < t'[2]
  BY <1>1, <1>2, <1>3, <1>7 DEF RingsInv, ring
<1>11. RingsInv'
  <2>1. \A x \in written' : x[2] <= sent'[x[1]] BY <1>2 DEF RingsInv
  <2>2. ASSUME NEW i \in Rings, NEW m \in DOMAIN rings'[i], rings'[i][m] # Zero
        PROVE  /\ rings'[i][m] \in written' /\ rings'[i][m][1] = i
               /\ \A n \in DOMAIN rings'[i] :
                    m < n /\ rings'[i][n] # Zero => rings'[i][m][2] < rings'[i][n][2]
               /\ \A x \in Taken' : x[1] = i => x[2] < rings'[i][m][2]
    <3>1. /\ m \in Nat \ {0} /\ m + shift(i) \in DOMAIN rings[i]
          /\ rings'[i][m] = rings[i][m + shift(i)]
      BY <1>4
    <3>2. shift(i) \in Nat /\ (i = idx => shift(i) = 1) OBVIOUS
    <3>3. ASSUME NEW n \in DOMAIN rings'[i]
          PROVE  n \in Nat /\ n + shift(i) \in DOMAIN rings[i]
                 /\ rings'[i][n] = rings[i][n + shift(i)]
      BY <1>4
    <3> HIDE DEF shift
    <3>4. rings'[i][m] \in written' /\ rings'[i][m][1] = i
      BY <1>2, <2>2, <3>1 DEF RingsInv
    <3>5. ASSUME NEW n \in DOMAIN rings'[i], m < n, rings'[i][n] # Zero
          PROVE  rings'[i][m][2] < rings'[i][n][2]
      <4>1. m + shift(i) < n + shift(i) BY <3>1, <3>2, <3>3, <3>5
      <4> QED BY <2>2, <3>1, <3>3, <3>5, <4>1 DEF RingsInv
    <3>6. ASSUME NEW x \in Taken', x[1] = i PROVE x[2] < rings'[i][m][2]
      <4>1. CASE x \in Taken BY <2>2, <3>1, <3>6, <4>1 DEF RingsInv
      <4>2. CASE x \notin Taken
        <5>1. x = t' /\ t' # Zero BY <1>9, <3>6, <4>2
        <5>2. i = idx BY <1>7, <3>6, <5>1
        <5>3. 1 < m + shift(i) BY <3>1, <3>2, <5>2
        <5> QED BY <1>1, <1>2, <1>3, <2>2, <3>1, <5>1, <5>2, <5>3 DEF RingsInv, ring
      <4> QED BY <4>1, <4>2
    <3> QED BY <3>4, <3>5, <3>6
  <2> QED BY <2>1, <2>2 DEF RingsInv
<1> QED BY <1>2, <1>3, <1>9, <1>10, <1>11

(* A tuple is later than all that its ring has held.                       *)
LEMMA SendTakesNothing ==
  ASSUME RingsAssumption, ZeroAssumption, TypeInv, RingsInv, NEW i \in Rings, Send(i)
  PROVE  RingsInv' /\ Taken' = Taken
<1>1. PICK x \in {Zero, Tuple(i, sent[i] + 1)} :
        /\ rings' = [rings EXCEPT ![i] = Append(rings[i], x)]
        /\ written' = written \cup ({x} \ {Zero})
  BY DEF Send
<1>2. sent' = [sent EXCEPT ![i] = sent[i] + 1] BY DEF Send
<1>3. rings[i] \in Seq(Tuples \cup {Zero}) /\ x \in Tuples \cup {Zero} /\ sent[i] \in Nat
  BY DEF TypeInv, Tuple, Tuples
<1> DEFINE last == Len(rings[i]) + 1
<1>4. /\ Len(rings[i]) \in Nat /\ DOMAIN rings[i] = 1 .. Len(rings[i])
      /\ DOMAIN Append(rings[i], x) = 1 .. last
      /\ Append(rings[i], x)[last] = x
      /\ \A m \in 1 .. Len(rings[i]) : Append(rings[i], x)[m] = rings[i][m]
  BY <1>3
<1>5. x # Zero => x[1] = i /\ x[2] = sent[i] + 1 BY DEF Tuple
<1>6. /\ \A j \in Rings : sent[j] \in Nat /\ sent'[j] \in Nat /\ sent[j] <= sent'[j]
      /\ sent'[i] = sent[i] + 1 /\ rings'[i] = Append(rings[i], x)
      /\ \A j \in Rings \ {i} : rings'[j] = rings[j] /\ sent'[j] = sent[j]
  BY <1>1, <1>2 DEF TypeInv
<1>7. /\ written \subseteq Tuples /\ Zero \notin written /\ x \notin written
      /\ \A y \in written : y[1] \in Rings /\ y[2] \in Nat /\ y[2] <= sent[y[1]]
  <2>1. \A y \in written : y[1] \in Rings /\ y[2] \in Nat /\ y[2] <= sent[y[1]]
    BY DEF TypeInv, Tuples, RingsInv
  <2>2. written \subseteq Tuples /\ Zero \notin written
    BY DEF TypeInv, Tuples, ZeroAssumption
  <2> QED BY <1>3, <1>5, <2>1, <2>2
<1>8. \A j \in Rings : \A m \in DOMAIN rings'[j] :
        \/ m \in DOMAIN rings[j] /\ rings'[j][m] = rings[j][m]
        \/ j = i /\ m = last /\ rings'[j][m] = x
  <2> TAKE j \in Rings
  <2> TAKE m \in DOMAIN rings'[j]
  <2>1. CASE j # i BY <1>6, <2>1
  <2>2. CASE j = i
    <3>1. m \in 1 .. last BY <1>4, <1>6, <2>2
    <3>2. CASE m = last BY <1>4, <1>6, <2>2, <3>2
    <3>3. CASE m # last
      <4>1. m \in 1 .. Len(rings[i]) BY <1>4, <3>1, <3>3
      <4> QED BY <1>4, <1>6, <2>2, <4>1
    <3> QED BY <3>2, <3>3
  <2> QED BY <2>1, <2>2
<1>9. \A j \in Rings : \A m \in DOMAIN rings[j] :
        m \in DOMAIN rings'[j] /\ rings'[j][m] = rings[j][m]
  <2> TAKE j \in Rings
  <2> TAKE m \in DOMAIN rings[j]
  <2>1. CASE j # i BY <1>6, <2>1
  <2>2. CASE j = i
    <3>1. m \in 1 .. Len(rings[i]) BY <1>4, <2>2
    <3>2. m \in 1 .. last BY <1>4, <3>1
    <3> QED BY <1>4, <1>6, <2>2, <3>1, <3>2
  <2> QED BY <2>1, <2>2
<1>10. last \in DOMAIN rings'[i] /\ rings'[i][last] = x BY <1>4, <1>6
<1>11. Unread' = Unread \cup ({x} \ {Zero})
  <2>1. ASSUME NEW y \in Unread' PROVE y \in Unread \cup ({x} \ {Zero})
    <3>1. y \in written' /\ y # Zero BY <1>1, <1>7 DEF Unread
    <3>2. PICK j \in Rings : \E m \in DOMAIN rings'[j] : rings'[j][m] = y BY DEF Unread
    <3>3. PICK m \in DOMAIN rings'[j] : rings'[j][m] = y BY <3>2
    <3> QED BY <1>1, <1>8, <3>1, <3>3 DEF Unread
  <2>2. ASSUME NEW y \in Unread PROVE y \in Unread'
    <3>1. PICK j \in Rings : \E m \in DOMAIN rings[j] : rings[j][m] = y BY DEF Unread
    <3>2. PICK m \in DOMAIN rings[j] : rings[j][m] = y BY <3>1
    <3> QED BY <1>1, <1>9, <3>2 DEF Unread
  <2>3. x # Zero => x \in Unread' BY <1>1, <1>10 DEF Unread
  <2> QED BY <2>1, <2>2, <2>3
<1>12. Taken' = Taken BY <1>1, <1>7, <1>11 DEF Taken
<1>13. \A y \in written' : y[2] <= sent'[y[1]]
  <2> TAKE y \in written'
  <2>1. CASE y \in written BY <1>6, <1>7, <2>1
  <2>2. CASE y \notin written BY <1>1, <1>5, <1>6, <2>2
  <2> QED BY <2>1, <2>2
<1>14. ASSUME NEW j \in Rings, NEW m \in DOMAIN rings'[j], rings'[j][m] # Zero
       PROVE  /\ rings'[j][m] \in written' /\ rings'[j][m][1] = j
              /\ \A n \in DOMAIN rings'[j] :
                   m < n /\ rings'[j][n] # Zero => rings'[j][m][2] < rings'[j][n][2]
              /\ \A y \in Taken' : y[1] = j => y[2] < rings'[j][m][2]
  <2>1. CASE m \in DOMAIN rings[j] /\ rings'[j][m] = rings[j][m]
    <3>1. /\ rings[j][m] \in written /\ rings[j][m][1] = j
          /\ \A n \in DOMAIN rings[j] :
               m < n /\ rings[j][n] # Zero => rings[j][m][2] < rings[j][n][2]
          /\ \A y \in Taken : y[1] = j => y[2] < rings[j][m][2]
      BY <1>14, <2>1 DEF RingsInv
    <3>2. ASSUME NEW n \in DOMAIN rings'[j], m < n, rings'[j][n] # Zero
          PROVE  rings[j][m][2] < rings'[j][n][2]
      <4>1. CASE n \in DOMAIN rings[j] /\ rings'[j][n] = rings[j][n] BY <3>1, <3>2, <4>1
      <4>2. CASE j = i /\ rings'[j][n] = x
        <5>1. rings[j][m][2] \in Nat /\ rings[j][m][2] <= sent[i] BY <1>7, <3>1, <4>2
        <5> QED BY <1>3, <1>5, <3>2, <4>2, <5>1
      <4> QED BY <1>8, <4>1, <4>2
    <3> QED BY <1>1, <1>12, <2>1, <3>1, <3>2
  <2>2. CASE j = i /\ m = last /\ rings'[j][m] = x
    <3>1. \A n \in DOMAIN rings'[j] : ~(m < n) BY <1>4, <1>6, <2>2
    <3>2. ASSUME NEW y \in Taken', y[1] = j PROVE y[2] < x[2]
      <4>1. y \in written BY <1>12 DEF Taken
      <4> QED BY <1>3, <1>5, <1>7, <1>14, <2>2, <3>2, <4>1
    <3> QED BY <1>1, <1>5, <1>14, <2>2, <3>1, <3>2
  <2> QED BY <1>8, <2>1, <2>2
<1> QED BY <1>12, <1>13, <1>14 DEF RingsInv

LEMMA RingsStay ==
  ASSUME UNCHANGED <<rings, sent, written>>
  PROVE  RingsInv' = RingsInv /\ Taken' = Taken
<1>1. Taken' = Taken BY DEF Taken, Unread
<1> QED BY <1>1 DEF RingsInv

-----------------------------------------------------------------------------
(* The order: what the steps of main do with the tuple in hand.            *)
LEMMA InitOrder ==
  ASSUME Init
  PROVE  OrderInv
<1>1. written = {} /\ Unread = {} /\ Taken = {} BY DEF Init, Unread, Taken
<1>2. RingsInv BY <1>1 DEF Init, RingsInv
<1>3. <<>> \in Seq(Tuples) /\ <<>> \in Seq(ResultLine) BY EmptySeq
<1>4. Done = <<>> BY <1>3, DoneType DEF Init, Done, KeysOf
<1>5. Exact(Done) BY <1>1, <1>4 DEF Exact, InOrderOnce
<1>6. pc = <<"start", "enable">> /\ ~KEEP_RUNNING BY DEF Init
<1> QED BY <1>2, <1>5, <1>6 DEF OrderInv, PollPcs, HandPcs, CountedOnce

(* A step that neither takes a tuple nor is done with one.                 *)
OrderStays ==
  /\ RingsInv' /\ Taken' = Taken /\ UNCHANGED <<fed, lines, t>>
  /\ KEEP_RUNNING' => KEEP_RUNNING /\ (InHand' <=> InHand)
  /\ pc' \in PollPcs => Exact(Done)
  /\ pc' \in HandPcs => Exact(Done) \/ (t # Zero /\ Exact(Append(Done, t)))

LEMMA ExactIsAllOf == ASSUME NEW s PROVE Exact(s) <=> AllOf(s, Taken)
BY DEF Exact, AllOf, Taken

LEMMA OrderFrame ==
  ASSUME OrderInv, OrderStays, KEEP_RUNNING \in BOOLEAN, KEEP_RUNNING' \in BOOLEAN
  PROVE  OrderInv'
<1>1. Done' = Done BY DEF OrderStays, Done
<1>2. \A s : Exact(s) <=> AllOf(s, Taken) BY ExactIsAllOf
<1>3. /\ Exact(Done)' <=> Exact(Done)
      /\ Exact(Append(Done, t))' <=> Exact(Append(Done, t))
      /\ Exact(Front(fed))' <=> Exact(Front(fed))
  BY <1>1 DEF OrderStays, Exact, Taken
<1>4. CountedOnce'
  <2>1. CASE KEEP_RUNNING' BY <1>3, <2>1 DEF OrderInv, OrderStays, CountedOnce
  <2>2. CASE ~KEEP_RUNNING' /\ KEEP_RUNNING
    <3>1. InHand => t # Zero BY DEF InHand
    <3>2. Exact(Done) \/ (t # Zero /\ Exact(Append(Done, t)))
      BY <2>2, <3>1 DEF OrderInv, CountedOnce
    <3> QED BY <1>3, <2>2, <3>2 DEF OrderStays, CountedOnce
  <2>3. CASE ~KEEP_RUNNING' /\ ~KEEP_RUNNING
    BY <1>3, <2>3 DEF OrderInv, OrderStays, CountedOnce
  <2> QED BY <2>1, <2>2, <2>3
<1> QED BY <1>3, <1>4 DEF OrderInv, OrderStays

LEMMA ReadKeepsOrder ==
  ASSUME RingsAssumption, ZeroAssumption, TypeInv, OrderInv,
         NEW phase \in {"insert", "query"}, ReadTuple(phase)
  PROVE  OrderInv'
<1>1. /\ RingsInv' /\ t' \in Tuples \cup {Zero}
      /\ Taken' = Taken \cup ({t'} \ {Zero})
      /\ t' # Zero => \A y \in Taken : y[1] = t'[1] => y[2] < t'[2]
  BY ReadTakes DEF OrderInv
<1>2. /\ pc \in PollPcs /\ pc' = <<phase, "have">> /\ UNCHANGED <<fed, lines, KEEP_RUNNING>>
  BY DEF ReadTuple, Goto, sketchVars, answerVars, PollPcs
<1>3. Done' = Done /\ Done \in Seq(Tuples)
  BY <1>2, DoneType DEF TypeInv, Done, KeysOf
<1>4. AllOf(Done, Taken) BY <1>2 DEF OrderInv, Exact, AllOf, Taken
<1>5. CASE t' = Zero
  <2>1. Exact(Done)' BY <1>1, <1>3, <1>4, <1>5 DEF Exact, AllOf, Taken
  <2>2. ~InHand' BY <1>5 DEF InHand
  <2> QED BY <1>1, <1>2, <2>1, <2>2 DEF OrderInv, CountedOnce
<1>6. CASE t' # Zero
  <2>1. t' \in Tuples /\ Taken' = Taken \cup {t'} BY <1>1, <1>6
  <2>2. AllOf(Append(Done, t'), Taken \cup {t'})
    BY <1>1, <1>3, <1>4, <1>6, <2>1, AppendExact
  <2>3. Exact(Append(Done, t))' BY <1>3, <2>1, <2>2 DEF Exact, AllOf, Taken
  <2>4. InHand' /\ pc' \notin PollPcs BY <1>2, <1>6 DEF InHand, PollPcs
  <2> QED BY <1>1, <1>6, <2>3, <2>4 DEF OrderInv, CountedOnce
<1> QED BY <1>5, <1>6

LEMMA CountKeepsOrder ==
  ASSUME TypeInv, QueryInv, OrderInv, CountTuple
  PROVE  OrderInv'
<1>1. /\ pc = <<"insert", "have">> /\ pc \in HandPcs
      /\ UNCHANGED <<rings, sent, written, lines, t, KEEP_RUNNING>>
  BY DEF CountTuple, Goto, inputVars, loopVars, answerVars, HandPcs
<1>2. RingsInv' /\ Taken' = Taken BY <1>1, RingsStay DEF OrderInv
<1>3. Exact(Done) \/ (t # Zero /\ Exact(Append(Done, t))) BY <1>1 DEF OrderInv
<1>4. CASE t = Zero
  <2>1. pc' = <<"query", "open">> /\ UNCHANGED fed BY <1>4 DEF CountTuple, Goto
  <2>2. ~InHand /\ ~InHand' BY <1>1, <1>4 DEF InHand
  <2>3. OrderStays
    BY <1>1, <1>2, <2>1, <2>2 DEF OrderStays, PollPcs, HandPcs
  <2> QED BY <1>1, <2>3, OrderFrame DEF TypeInv
<1>5. CASE t # Zero
  <2>1. pc' = <<"insert", "ss">> /\ fed' = Append(fed, t) BY <1>5 DEF CountTuple, Goto
  <2>2. lines = <<>> BY <1>1 DEF QueryInv, LinesInv, QueryPcs
  <2>3. Done' = Append(Done, t) /\ Front(fed') = Done
    BY <1>1, <1>5, <2>1, <2>2, FedAppended
  <2>4. pc' \notin PollPcs /\ pc' \notin HandPcs /\ ~InHand'
    BY <2>1 DEF PollPcs, HandPcs, InHand
  <2>5. /\ Exact(Append(Done, t)) => Exact(Done)'
        /\ Exact(Done) => Exact(Front(fed))'
    BY <1>2, <2>3 DEF Exact, Taken
  <2>6. KEEP_RUNNING => Exact(Append(Done, t))
    BY <1>1, <1>5 DEF OrderInv, CountedOnce, InHand
  <2>7. CountedOnce' BY <1>1, <1>3, <2>2, <2>4, <2>5, <2>6 DEF CountedOnce
  <2> QED BY <1>2, <2>4, <2>7 DEF OrderInv
<1> QED BY <1>4, <1>5

LEMMA WriteKeepsOrder ==
  ASSUME TypeInv, QueryInv, OrderInv, Write
  PROVE  OrderInv'
<1>1. /\ pc = <<"query", "write">> /\ pc' = <<"query", "write2">>
      /\ UNCHANGED <<rings, sent, written, fed, t, KEEP_RUNNING>>
      /\ lines' = Line("f", lines, answer.ns)
  BY DEF Write, Goto, inputVars, loopVars, sketchVars
<1>2. RingsInv' /\ Taken' = Taken BY <1>1, RingsStay DEF OrderInv
<1>3. t # Zero /\ t \in Tuples BY <1>1 DEF TypeInv
<1>4. pc' \notin PollPcs /\ pc' \notin HandPcs /\ ~InHand'
  BY <1>1 DEF PollPcs, HandPcs, InHand
<1>5. CASE KEEP_RUNNING
  <2>1. files = {"f", "f2"} BY <1>1, <1>5 DEF QueryInv, AnswerInv, QueryPcs
  <2> DEFINE line == [key |-> t, count |-> answer.ns]
  <2>2. line \in ResultLine /\ line.key = t BY <1>3 DEF ResultLine, TypeInv
  <2>3. lines' = Append(lines, line) BY <1>1, <2>1 DEF Line
  <2>4. Done' = Append(Done, t) BY <1>1, <1>3, <2>2, <2>3, LineAppended
  <2>5. Exact(Append(Done, t))
    BY <1>1, <1>3, <1>5 DEF OrderInv, CountedOnce, InHand
  <2>6. Exact(Done)' BY <1>2, <2>4, <2>5 DEF Exact, Taken
  <2> QED BY <1>1, <1>2, <1>4, <1>5, <2>6 DEF OrderInv, CountedOnce
<1>6. CASE ~KEEP_RUNNING
  <2>1. files = {} BY <1>1, <1>6 DEF QueryInv, AnswerInv, Querying, QueryPcs
  <2>2. UNCHANGED lines BY <1>1, <2>1 DEF Line
  <2>3. OrderStays BY <1>1, <1>2, <1>4, <1>6, <2>2 DEF OrderStays
  <2> QED BY <1>1, <2>3, OrderFrame DEF TypeInv
<1> QED BY <1>5, <1>6 DEF TypeInv

LEMMA NextKeepsOrder ==
  ASSUME RingsAssumption, ZeroAssumption, TypeInv, TypeInv', QueryInv, OrderInv, [Next]_vars
  PROVE  OrderInv'
<1> USE DEF Goto, inputVars, loopVars, sketchVars, answerVars
<1>0. KEEP_RUNNING \in BOOLEAN /\ KEEP_RUNNING' \in BOOLEAN BY DEF TypeInv
<1>1. ASSUME UNCHANGED <<rings, sent, written>> PROVE RingsInv' /\ Taken' = Taken
  BY <1>1, RingsStay DEF OrderInv
<1>2. ASSUME UNCHANGED <<rings, sent, written, fed, lines, t>>,
             KEEP_RUNNING' => KEEP_RUNNING /\ (InHand' <=> InHand),
             pc' \in PollPcs => Exact(Done),
             pc' \in HandPcs => Exact(Done) \/ (t # Zero /\ Exact(Append(Done, t)))
      PROVE  OrderInv'
  <2>1. OrderStays BY <1>1, <1>2 DEF OrderStays
  <2> QED BY <1>0, <2>1, OrderFrame
<1>3. CASE UNCHANGED vars
  <2>1. UNCHANGED <<rings, sent, written, fed, lines, t, KEEP_RUNNING, pc>>
    BY <1>3 DEF vars
  <2> QED BY <1>2, <2>1 DEF OrderInv, InHand
<1>4. CASE Enable
  <2>1. /\ pc \in PollPcs /\ pc' = <<"insert", "test">>
        /\ UNCHANGED <<rings, sent, written, fed, lines, t>>
    BY <1>4 DEF Enable, PollPcs
  <2>2. RingsInv' /\ Taken' = Taken BY <1>1, <2>1
  <2>3. Done' = Done /\ Exact(Done) BY <2>1 DEF OrderInv, Done
  <2>4. Exact(Done)' BY <2>2, <2>3 DEF Exact, Taken
  <2>5. pc' \notin PollPcs /\ pc' \notin HandPcs /\ ~InHand'
    BY <2>1 DEF PollPcs, HandPcs, InHand
  <2> QED BY <2>2, <2>4, <2>5 DEF OrderInv, CountedOnce
<1>5. ASSUME NEW phase \in {"insert", "query"},
             NEW exit \in {<<"query", "open">>, <<"done">>}, Test(phase, exit)
      PROVE  OrderInv'
  <2>1. /\ pc = <<phase, "test">> /\ pc' \in {<<phase, "read">>, exit}
        /\ KEEP_RUNNING <=> pc' = <<phase, "read">>
        /\ UNCHANGED <<rings, sent, written, fed, lines, t, KEEP_RUNNING>>
    BY <1>5 DEF Test
  <2>2. ~InHand /\ ~InHand' /\ pc' \notin HandPcs BY <2>1 DEF InHand, HandPcs
  <2>3. pc' \in PollPcs => KEEP_RUNNING BY <2>1 DEF PollPcs
  <2>4. KEEP_RUNNING => Exact(Done) BY <2>2 DEF OrderInv, CountedOnce
  <2> QED BY <1>2, <2>1, <2>2, <2>3, <2>4
<1>6. ASSUME NEW phase \in {"insert", "query"}, ReadTuple(phase) PROVE OrderInv'
  BY <1>6, ReadKeepsOrder
<1>7. ASSUME NEW phase \in {"insert", "query"}, ReadNothing(phase) \/ TryNext(phase)
      PROVE  OrderInv'
  <2>1. /\ pc \in PollPcs /\ pc' \in {phase} \X {"read", "failed", "have"}
        /\ pc \in {phase} \X {"read", "failed"}
        /\ pc' = <<phase, "have">> => ~KEEP_RUNNING
        /\ UNCHANGED <<rings, sent, written, fed, lines, t, KEEP_RUNNING>>
    BY <1>7 DEF ReadNothing, TryNext, PollPcs
  <2>2. Exact(Done) BY <2>1 DEF OrderInv
  <2>3. KEEP_RUNNING => ~InHand /\ ~InHand' BY <2>1 DEF InHand
  <2> QED BY <1>2, <2>1, <2>2, <2>3
<1>8. CASE CountTuple BY <1>8, CountKeepsOrder
<1>9. CASE SsInsert \/ NsInsert \/ Open
  <2>1. /\ pc \in {<<"insert", "ss">>, <<"insert", "ns">>, <<"query", "open">>}
        /\ pc' \in {<<"insert", "ns">>, <<"insert", "test">>, <<"query", "test">>}
        /\ UNCHANGED <<rings, sent, written, fed, lines, t, KEEP_RUNNING>>
    BY <1>9 DEF SsInsert, NsInsert, Open
  <2>2. ~InHand /\ ~InHand' /\ pc' \notin PollPcs /\ pc' \notin HandPcs
    BY <2>1 DEF InHand, PollPcs, HandPcs
  <2> QED BY <1>2, <2>1, <2>2
<1>10. CASE SkipZero \/ NsQuery \/ SsQuery
  <2>1. /\ pc \in {"query"} \X {"have", "ns", "ss"}
        /\ pc' \in {"query"} \X {"test", "ns", "ss", "write"}
        /\ pc' = <<"query", "test">> <=> t = Zero
        /\ UNCHANGED <<rings, sent, written, fed, lines, t, KEEP_RUNNING>>
    <3>1. CASE SkipZero BY <3>1 DEF SkipZero
    <3>2. CASE NsQuery BY <3>2 DEF NsQuery, TypeInv
    <3>3. CASE SsQuery BY <3>3 DEF SsQuery, TypeInv
    <3> QED BY <1>10, <3>1, <3>2, <3>3
  <2>2. InHand' <=> InHand BY <2>1 DEF InHand
  <2>3. pc \in HandPcs /\ pc' \notin PollPcs BY <2>1 DEF HandPcs, PollPcs
  <2>4. Exact(Done) \/ (t # Zero /\ Exact(Append(Done, t))) BY <2>3 DEF OrderInv
  <2> QED BY <1>2, <2>1, <2>2, <2>3, <2>4
<1>11. CASE Write BY <1>11, WriteKeepsOrder
<1>12. CASE Write2
  <2>1. /\ pc = <<"query", "write2">> /\ pc' = <<"query", "test">>
        /\ UNCHANGED <<rings, sent, written, fed, lines, t, KEEP_RUNNING>>
    BY <1>12 DEF Write2
  <2>2. ~InHand /\ ~InHand' /\ pc' \notin PollPcs /\ pc' \notin HandPcs
    BY <2>1 DEF InHand, PollPcs, HandPcs
  <2> QED BY <1>2, <2>1, <2>2
<1>13. CASE handler
  <2>1. ~KEEP_RUNNING' /\ UNCHANGED <<rings, sent, written, fed, lines, t, pc>>
    BY <1>13 DEF handler
  <2> QED BY <1>2, <2>1 DEF OrderInv
<1>14. ASSUME NEW i \in Rings, Send(i) PROVE OrderInv'
  <2>1. RingsInv' /\ Taken' = Taken BY <1>14, SendTakesNothing DEF OrderInv
  <2>2. UNCHANGED <<fed, lines, t, pc, KEEP_RUNNING>> BY <1>14 DEF Send
  <2>3. OrderStays BY <2>1, <2>2 DEF OrderStays, OrderInv, InHand
  <2> QED BY <1>0, <2>3, OrderFrame
<1> QED
  BY <1>3, <1>4, <1>5, <1>6, <1>7, <1>8, <1>9, <1>10, <1>11, <1>12, <1>13, <1>14
  DEF Next, main, InsertLoop, QueryLoop

-----------------------------------------------------------------------------
(* CountTuple and Write of main, and what becomes of a tuple when the      *)
(* handler stops main between any two of its steps: every tuple that is    *)
(* read is counted or answered, none is lost and none comes twice, those   *)
(* of a ring come in their order.                                          *)
THEOREM TuplesCountedOnce ==
  ASSUME RingsAssumption, ZeroAssumption
  PROVE  Spec => []CountedOnce
<1> DEFINE Inv == TypeInv /\ QueryInv /\ OrderInv
<1>1. Init => Inv BY InitType, InitQuery, InitOrder
<1>2. Inv /\ [Next]_vars => Inv'
  BY TypeKeeps, NextKeepsQuery, NextKeepsOrder
<1>3. Inv => CountedOnce BY DEF OrderInv
<1> QED BY <1>1, <1>2, <1>3, PTL DEF Spec

(* The query loop against the handler that clears the sketches and closes  *)
(* the files: a line that is written comes from whole sketches, and the    *)
(* two files have lines for the same keys.                                 *)
THEOREM ResultsCanBeTrusted ==
  ASSUME RingsAssumption, ZeroAssumption
  PROVE  Spec => []ResultLines
<1>1. Init => TypeInv /\ QueryInv BY InitType, InitQuery
<1>2. TypeInv /\ QueryInv /\ [Next]_vars => (TypeInv /\ QueryInv)'
  BY TypeKeeps, NextKeepsQuery
<1>3. QueryInv => ResultLines BY DEF QueryInv, LinesInv
<1> QED BY <1>1, <1>2, <1>3, PTL DEF Spec

=============================================================================
