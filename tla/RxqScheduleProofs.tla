------------------------- MODULE RxqScheduleProofs -------------------------
(***************************************************************************)
(* What RxqSchedule promises of every set of cores, queues and loads: where *)
(* the queues end up, what the dry run of a rebalancing stands on, and how *)
(* even the threads are after a step that moves queues.                    *)
(***************************************************************************)
EXTENDS RxqSchedule, FoldLemmas

(* What an assignment is computed from.                                    *)
Inputs ==
  /\ affinity \in [Rxqs -> Cores \cup {None}]
  /\ cycles \in [Rxqs -> Nat]
  /\ algo \in {"roundrobin", "cycles", "group"}
  /\ pmd_iso \in BOOLEAN

Walked    == Range(numa_walk)
On(T, n)  == {p \in T : NumaOf[p] = n}

(* Lists over the threads T: the walk of a node that has threads is at one *)
(* of them.                                                                *)
Lists(T) ==
  {l \in [pmds : {T}, isolated : [T -> BOOLEAN], rxqs : [T -> SUBSET Rxqs],
          next : [Walked -> Nat \ {0}], up : [Walked -> BOOLEAN]] :
     \A n \in Walked : On(T, n) # {} => l.next[n] <= Cardinality(On(T, n))}

-----------------------------------------------------------------------------
(* The constants, and the threads of a node.                               *)

LEMMA Nodes ==
  ASSUME NEW T \in SUBSET Cores
  PROVE  /\ T \subseteq Nat /\ None \notin T /\ IsFiniteSet(T)
         /\ \A p \in T : NumaOf[p] \in Nat /\ NumaOf[p] \in Walked
         /\ \A n : IsFiniteSet(On(T, n)) /\ On(T, n) \in SUBSET T
                   /\ Cardinality(On(T, n)) \in Nat
                   /\ (On(T, n) # {} => Cardinality(On(T, n)) >= 1 /\ n \in Walked)
<1>1. /\ T \subseteq Nat /\ None \notin T
      /\ \A p \in T : NumaOf[p] \in Nat
  BY ScheduleAssumption DEF ScheduleAssumption, None
<1>2. \A p \in T : NumaOf[p] \in Walked
  <2> TAKE p \in T
  <2>1. p \in DOMAIN NumaOf
    BY ScheduleAssumption DEF ScheduleAssumption
  <2>2. NumaOf[p] \in Range(NumaOf)
    BY <2>1 DEF Range
  <2> QED  BY <2>2, ScheduleAssumption DEF ScheduleAssumption, Walked
<1>3. IsFiniteSet(T)
  BY ScheduleAssumption, FS_Subset DEF ScheduleAssumption
<1>4. ASSUME NEW n
      PROVE  /\ IsFiniteSet(On(T, n)) /\ On(T, n) \in SUBSET T
             /\ Cardinality(On(T, n)) \in Nat
             /\ On(T, n) # {} => Cardinality(On(T, n)) >= 1 /\ n \in Walked
  <2>1. On(T, n) \in SUBSET T
    BY DEF On
  <2>2. IsFiniteSet(On(T, n))
    BY <1>3, <2>1, FS_Subset
  <2>3. Cardinality(On(T, n)) \in Nat /\ (Cardinality(On(T, n)) = 0 <=> On(T, n) = {})
    BY <2>2, FS_CardinalityType, FS_EmptySet
  <2>4. On(T, n) # {} => n \in Walked
    BY <1>2 DEF On
  <2> QED  BY <2>1, <2>2, <2>3, <2>4
<1> QED  BY <1>1, <1>2, <1>3, <1>4

LEMMA ListParts ==
  ASSUME NEW T, NEW l \in Lists(T)
  PROVE  /\ l.pmds = T /\ l.isolated \in [T -> BOOLEAN] /\ l.rxqs \in [T -> SUBSET Rxqs]
         /\ l.next \in [Walked -> Nat \ {0}] /\ l.up \in [Walked -> BOOLEAN]
         /\ \A n : PmdsOn(l, n) = On(T, n)
         /\ \A n \in Walked : On(T, n) # {} => l.next[n] \in 1 .. Cardinality(On(T, n))
         /\ l = [pmds |-> l.pmds, isolated |-> l.isolated, rxqs |-> l.rxqs,
                 next |-> l.next, up |-> l.up]
<1>1. /\ l.pmds = T /\ l.isolated \in [T -> BOOLEAN] /\ l.rxqs \in [T -> SUBSET Rxqs]
      /\ l.next \in [Walked -> Nat \ {0}] /\ l.up \in [Walked -> BOOLEAN]
      /\ l = [pmds |-> l.pmds, isolated |-> l.isolated, rxqs |-> l.rxqs,
              next |-> l.next, up |-> l.up]
  BY DEF Lists
<1>2. \A n : PmdsOn(l, n) = On(T, n)
  BY <1>1 DEF PmdsOn, On
<1>3. \A n \in Walked : On(T, n) # {} => l.next[n] \in 1 .. Cardinality(On(T, n))
  <2> TAKE n \in Walked
  <2> HAVE On(T, n) # {}
  <2>1. l.next[n] <= Cardinality(On(T, n)) /\ l.next[n] \in Nat \ {0}
    BY <1>1 DEF Lists
  <2>2. Cardinality(On(T, n)) \in Nat \/ Cardinality(On(T, n)) \notin Nat
    OBVIOUS
  <2> QED  BY <2>1
<1> QED  BY <1>1, <1>2, <1>3

(* The walk's next position and direction, over m threads.                 *)
NextOf(i, up, m, updown) ==
  CASE up /\ i < m              -> i + 1
    [] up /\ i = m /\ ~updown   -> 1
    [] ~up /\ i > 1             -> i - 1
    [] OTHER                    -> i
UpOf(i, up, m, updown) == IF up THEN i < m \/ ~updown ELSE i = 1

LEMMA NextRR ==
  ASSUME NEW T \in SUBSET Cores, NEW l \in Lists(T), NEW n, On(T, n) # {},
         NEW updown \in BOOLEAN
  PROVE  LET l2 == next_rr(l, n, updown)
             m  == Cardinality(On(T, n))
         IN  /\ l2 \in Lists(T) /\ l2.isolated = l.isolated /\ l2.rxqs = l.rxqs
             /\ l2.next[n] = NextOf(l.next[n], l.up[n], m, updown)
             /\ l2.up[n] = UpOf(l.next[n], l.up[n], m, updown)
             /\ l2.next[n] \in 1 .. m /\ l2.up[n] \in BOOLEAN
             /\ \A o \in Walked \ {n} : l2.next[o] = l.next[o] /\ l2.up[o] = l.up[o]
<1> DEFINE l2 == next_rr(l, n, updown)
           m  == Cardinality(On(T, n))
           i  == NextOf(l.next[n], l.up[n], m, updown)
           u  == UpOf(l.next[n], l.up[n], m, updown)
<1>1. n \in Walked /\ m \in Nat /\ m >= 1
  BY Nodes
<1>2. /\ l.pmds = T /\ l.isolated \in [T -> BOOLEAN] /\ l.rxqs \in [T -> SUBSET Rxqs]
      /\ l.next \in [Walked -> Nat \ {0}] /\ l.up \in [Walked -> BOOLEAN]
      /\ PmdsOn(l, n) = On(T, n) /\ l.next[n] \in 1 .. m
      /\ l = [pmds |-> l.pmds, isolated |-> l.isolated, rxqs |-> l.rxqs,
              next |-> l.next, up |-> l.up]
  BY <1>1, ListParts
<1>3. l2 = [l EXCEPT !.next[n] = i, !.up[n] = u]
  <2>1. l2 = [l EXCEPT
                !.next[n] = NextOf(l.next[n], l.up[n], Cardinality(PmdsOn(l, n)), updown),
                !.up[n] = UpOf(l.next[n], l.up[n], Cardinality(PmdsOn(l, n)), updown)]
    BY DEF next_rr, NextOf, UpOf
  <2> QED  BY <2>1, <1>2
<1>4. l.up[n] \in BOOLEAN
  BY <1>1, <1>2
<1>5. i \in 1 .. m /\ u \in BOOLEAN
  <2> DEFINE j == l.next[n]
             v == l.up[n]
  <2>1. j \in 1 .. m /\ v \in BOOLEAN
    BY <1>2, <1>4
  <2> HIDE DEF m, j, v
  <2>2. NextOf(j, v, m, updown) \in 1 .. m
    BY <1>1, <2>1 DEF NextOf
  <2>3. UpOf(j, v, m, updown) \in BOOLEAN
    BY <1>1, <2>1, ZenonT(20) DEF UpOf
  <2> QED  BY <2>2, <2>3 DEF m, j, v
<1> HIDE DEF i, u, l2
<1>6. l2 = [pmds |-> T, isolated |-> l.isolated, rxqs |-> l.rxqs,
            next |-> [l.next EXCEPT ![n] = i], up |-> [l.up EXCEPT ![n] = u]]
  BY <1>2, <1>3
<1>7. /\ l2.pmds = T /\ l2.isolated = l.isolated /\ l2.rxqs = l.rxqs
      /\ l2.next = [l.next EXCEPT ![n] = i] /\ l2.up = [l.up EXCEPT ![n] = u]
  BY <1>6
<1>8. l2.next[n] = i /\ l2.up[n] = u
      /\ \A o \in Walked \ {n} : l2.next[o] = l.next[o] /\ l2.up[o] = l.up[o]
  BY <1>1, <1>2, <1>7
<1>9. l2 \in Lists(T)
  <2>1. l2.next \in [Walked -> Nat \ {0}] /\ l2.up \in [Walked -> BOOLEAN]
    BY <1>2, <1>5, <1>7, <1>1
  <2>2. \A o \in Walked : On(T, o) # {} => l2.next[o] <= Cardinality(On(T, o))
    <3> TAKE o \in Walked
    <3> HAVE On(T, o) # {}
    <3>1. CASE o = n
      BY <3>1, <1>8, <1>5, <1>1
    <3>2. CASE o # n
      BY <3>2, <1>8 DEF Lists
    <3> QED  BY <3>1, <3>2
  <2> QED  BY <1>2, <1>6, <1>7, <2>1, <2>2 DEF Lists
<1> QED  BY <1>5, <1>7, <1>8, <1>9 DEF i, u, l2

-----------------------------------------------------------------------------
(* The three orders sort.                                                  *)
LEMMA CoresSorted ==
  ASSUME NEW S \in SUBSET Nat, IsFiniteSet(S)
  PROVE  Sorts(InOrder(S, <), S, {p \in S \X S : p[1] < p[2]})
<1> DEFINE s == InOrder(S, <)
           R == {p \in S \X S : p[1] < p[2]}
<1>1. \A x, y \in S : <<x, y>> \in R <=> x < y
  OBVIOUS
<1>2. StrictOrder(S, R)
  <2> HIDE DEF R
  <2> QED  BY <1>1 DEF StrictOrder
<1>3. \A x \in S : {y \in S : y < x} = {y \in S : <<y, x>> \in R}
  BY <1>1
<1>4. \A i \in 1 .. Cardinality(S) : \E x \in S : Cardinality({y \in S : y < x}) = i - 1
  <2> TAKE i \in 1 .. Cardinality(S)
  <2> HIDE DEF R
  <2>1. i - 1 \in 0 .. Cardinality(S) - 1
    BY FS_CardinalityType
  <2>2. PICK x \in S : Rank(S, R, x) = i - 1
    BY <1>2, <2>1, RankOrder
  <2> QED  BY <2>2, <1>3 DEF Rank
<1> DEFINE e(i) == CHOOSE x \in S : Cardinality({y \in S : y < x}) = i - 1
<1>5. s = [i \in 1 .. Cardinality(S) |-> e(i)]
  BY DEF InOrder
<1>6. \A i \in 1 .. Cardinality(S) : e(i) \in S /\ Rank(S, R, e(i)) = i - 1
  <2> TAKE i \in 1 .. Cardinality(S)
  <2>1. e(i) \in S /\ Cardinality({y \in S : y < e(i)}) = i - 1
    BY <1>4
  <2> HIDE DEF e, R
  <2> QED  BY <2>1, <1>3 DEF Rank
<1> HIDE DEF s, R, e
<1>7. /\ s = [i \in 1 .. Cardinality(S) |-> s[i]]
      /\ \A i \in 1 .. Cardinality(S) : s[i] = e(i)
  BY <1>5
<1>8. Sorts(s, S, R)
  BY <1>2, <1>6, <1>7, RanksSort
<1> QED  BY <1>8 DEF s, R

LEMMA QueuesSortedByCycles ==
  ASSUME NEW S \in SUBSET Rxqs, IsFiniteSet(S), Inputs
  PROVE  Sorts(InOrder(S, compare_rxq_cycles), S, {p \in S \X S : compare_rxq_cycles(p[1], p[2])})
<1> DEFINE s == InOrder(S, compare_rxq_cycles)
           R == {p \in S \X S : compare_rxq_cycles(p[1], p[2])}
<1>1. \A x, y \in S : <<x, y>> \in R <=> compare_rxq_cycles(x, y)
  OBVIOUS
<1>2. StrictOrder(S, R)
  <2>1. \A q \in S : q \in Nat /\ cycles[q] \in Nat
    BY ScheduleAssumption DEF ScheduleAssumption, Inputs
  <2> HIDE DEF R
  <2> QED  BY <1>1, <2>1 DEF StrictOrder, compare_rxq_cycles
<1>3. \A x \in S : {y \in S : compare_rxq_cycles(y, x)} = {y \in S : <<y, x>> \in R}
  BY <1>1
<1>4. \A i \in 1 .. Cardinality(S) : \E x \in S : Cardinality({y \in S : compare_rxq_cycles(y, x)}) = i - 1
  <2> TAKE i \in 1 .. Cardinality(S)
  <2> HIDE DEF R
  <2>1. i - 1 \in 0 .. Cardinality(S) - 1
    BY FS_CardinalityType
  <2>2. PICK x \in S : Rank(S, R, x) = i - 1
    BY <1>2, <2>1, RankOrder
  <2> QED  BY <2>2, <1>3 DEF Rank
<1> DEFINE e(i) == CHOOSE x \in S : Cardinality({y \in S : compare_rxq_cycles(y, x)}) = i - 1
<1>5. s = [i \in 1 .. Cardinality(S) |-> e(i)]
  BY DEF InOrder
<1>6. \A i \in 1 .. Cardinality(S) : e(i) \in S /\ Rank(S, R, e(i)) = i - 1
  <2> TAKE i \in 1 .. Cardinality(S)
  <2>1. e(i) \in S /\ Cardinality({y \in S : compare_rxq_cycles(y, e(i))}) = i - 1
    BY <1>4
  <2> HIDE DEF e, R
  <2> QED  BY <2>1, <1>3 DEF Rank
<1> HIDE DEF s, R, e
<1>7. /\ s = [i \in 1 .. Cardinality(S) |-> s[i]]
      /\ \A i \in 1 .. Cardinality(S) : s[i] = e(i)
  BY <1>5
<1>8. Sorts(s, S, R)
  BY <1>2, <1>6, <1>7, RanksSort
<1> QED  BY <1>8 DEF s, R

LEMMA QueuesSortedByWalk ==
  ASSUME NEW S \in SUBSET Rxqs, IsFiniteSet(S)
  PROVE  Sorts(InOrder(S, walked), S, {p \in S \X S : walked(p[1], p[2])})
<1> DEFINE s == InOrder(S, walked)
           R == {p \in S \X S : walked(p[1], p[2])}
<1>1. \A x, y \in S : <<x, y>> \in R <=> walked(x, y)
  OBVIOUS
<1>2. StrictOrder(S, R)
  <2>1. DOMAIN rxq_walk \subseteq Nat /\ IsInjective(rxq_walk) /\ Range(rxq_walk) = Rxqs
    <3>1. rxq_walk \in Seq(Rxqs)
      BY ScheduleAssumption DEF ScheduleAssumption
    <3>2. DOMAIN rxq_walk \subseteq Nat
      BY <3>1
    <3> QED  BY <3>2, ScheduleAssumption DEF ScheduleAssumption
  <2>2. \A q \in S : \E i \in DOMAIN rxq_walk : rxq_walk[i] = q
    BY <2>1 DEF Range
  <2>3. \A i, j \in DOMAIN rxq_walk : rxq_walk[i] = rxq_walk[j] => i = j
    BY <2>1 DEF IsInjective
  <2> HIDE DEF R
  <2>4. \A i, j \in DOMAIN rxq_walk : walked(rxq_walk[i], rxq_walk[j]) <=> i < j
    BY <2>1, <2>3 DEF walked
  <2>5. ASSUME NEW x \in S, NEW y \in S, NEW z \in S
        PROVE  /\ ~walked(x, x)
               /\ walked(x, y) /\ walked(y, z) => walked(x, z)
               /\ x = y \/ walked(x, y) \/ walked(y, x)
    <3>1. PICK i \in DOMAIN rxq_walk, j \in DOMAIN rxq_walk, k \in DOMAIN rxq_walk :
            rxq_walk[i] = x /\ rxq_walk[j] = y /\ rxq_walk[k] = z
      BY <2>2
    <3>2. i \in Nat /\ j \in Nat /\ k \in Nat
      BY <2>1
    <3> QED  BY <3>1, <3>2, <2>4
  <2> QED  BY <1>1, <2>5 DEF StrictOrder
<1>3. \A x \in S : {y \in S : walked(y, x)} = {y \in S : <<y, x>> \in R}
  BY <1>1
<1>4. \A i \in 1 .. Cardinality(S) : \E x \in S : Cardinality({y \in S : walked(y, x)}) = i - 1
  <2> TAKE i \in 1 .. Cardinality(S)
  <2> HIDE DEF R
  <2>1. i - 1 \in 0 .. Cardinality(S) - 1
    BY FS_CardinalityType
  <2>2. PICK x \in S : Rank(S, R, x) = i - 1
    BY <1>2, <2>1, RankOrder
  <2> QED  BY <2>2, <1>3 DEF Rank
<1> DEFINE e(i) == CHOOSE x \in S : Cardinality({y \in S : walked(y, x)}) = i - 1
<1>5. s = [i \in 1 .. Cardinality(S) |-> e(i)]
  BY DEF InOrder
<1>6. \A i \in 1 .. Cardinality(S) : e(i) \in S /\ Rank(S, R, e(i)) = i - 1
  <2> TAKE i \in 1 .. Cardinality(S)
  <2>1. e(i) \in S /\ Cardinality({y \in S : walked(y, e(i))}) = i - 1
    BY <1>4
  <2> HIDE DEF e, R
  <2> QED  BY <2>1, <1>3 DEF Rank
<1> HIDE DEF s, R, e
<1>7. /\ s = [i \in 1 .. Cardinality(S) |-> s[i]]
      /\ \A i \in 1 .. Cardinality(S) : s[i] = e(i)
  BY <1>5
<1>8. Sorts(s, S, R)
  BY <1>2, <1>6, <1>7, RanksSort
<1> QED  BY <1>8 DEF s, R

-----------------------------------------------------------------------------
(* The walk over a node's threads.  Searches holds the states of a search  *)
(* on node n that began with list l.                                       *)
Searches(T) == [list : Lists(T), pmd : T \cup {None}]

TryOn(found, n, updown, cores) ==
  IF found.pmd # None THEN found
  ELSE [list |-> next_rr(found.list, n, updown),
        pmd  |-> IF found.list.isolated[cores[found.list.next[n]]] THEN None
                 ELSE cores[found.list.next[n]]]

CoresOn(T, n) == InOrder(On(T, n), <)

LEMMA CoresOfNode ==
  ASSUME NEW T \in SUBSET Cores, NEW n
  PROVE  /\ CoresOn(T, n) \in [1 .. Cardinality(On(T, n)) -> On(T, n)]
         /\ \A p \in On(T, n) : \E i \in 1 .. Cardinality(On(T, n)) : CoresOn(T, n)[i] = p
         /\ \A i, j \in 1 .. Cardinality(On(T, n)) :
              CoresOn(T, n)[i] = CoresOn(T, n)[j] => i = j
<1> DEFINE S == On(T, n)
           R == {p \in S \X S : p[1] < p[2]}
           s == CoresOn(T, n)
<1>1. S \in SUBSET Nat /\ IsFiniteSet(S) /\ Cardinality(S) \in Nat
  BY Nodes
<1>2. Sorts(s, S, R)
  <2> HIDE DEF S
  <2>1. Sorts(InOrder(S, <), S, {p \in S \X S : p[1] < p[2]})
    BY <1>1, CoresSorted
  <2> QED  BY <2>1 DEF S, CoresOn
<1> HIDE DEF s, R, S
<1>3. \A i, j \in 1 .. Cardinality(S) : s[i] = s[j] => i = j
  <2> SUFFICES ASSUME NEW i \in 1 .. Cardinality(S), NEW j \in 1 .. Cardinality(S), s[i] = s[j]
               PROVE  i = j
    OBVIOUS
  <2>1. <<s[i], s[j]>> \in R <=> i < j
    BY <1>2 DEF Sorts
  <2>2. <<s[j], s[i]>> \in R <=> j < i
    BY <1>2 DEF Sorts
  <2>3. <<s[i], s[i]>> \in R <=> i < i
    BY <1>2 DEF Sorts
  <2>4. ~(i < j) /\ ~(j < i)
    BY <2>1, <2>2, <2>3, <1>1
  <2> QED  BY <2>4, <1>1
<1> QED  BY <1>2, <1>3 DEF s, S, Sorts

LEMMA TryStays ==
  ASSUME NEW T \in SUBSET Cores, NEW n, On(T, n) # {}, NEW updown \in BOOLEAN,
         NEW found \in Searches(T)
  PROVE  TryOn(found, n, updown, CoresOn(T, n)) \in Searches(T)
<1>1. found.list \in Lists(T) /\ found.pmd \in T \cup {None}
  BY DEF Searches
<1>2. n \in Walked /\ On(T, n) \in SUBSET T
  BY Nodes
<1>3. CASE found.pmd # None
  BY <1>3 DEF TryOn
<1>4. CASE found.pmd = None
  <2>1. found.list.next[n] \in 1 .. Cardinality(On(T, n))
    BY <1>1, <1>2, ListParts
  <2>2. CoresOn(T, n)[found.list.next[n]] \in T
    <3>1. CoresOn(T, n) \in [1 .. Cardinality(On(T, n)) -> On(T, n)]
      BY CoresOfNode
    <3> QED  BY <3>1, <2>1, <1>2
  <2>3. next_rr(found.list, n, updown) \in Lists(T)
    BY <1>1, NextRR
  <2> QED  BY <1>4, <2>2, <2>3 DEF TryOn, Searches
<1> QED  BY <1>3, <1>4

LEMMA WalkRuns ==
  ASSUME NEW T \in SUBSET Cores, NEW l \in Lists(T), NEW n, On(T, n) # {},
         NEW updown \in BOOLEAN
  PROVE  LET k == 2 * Cardinality(On(T, n))
         IN  \E r \in [0 .. k -> Searches(T)] :
               /\ r[0] = [list |-> l, pmd |-> None]
               /\ \A t \in 1 .. k : r[t] = TryOn(r[t - 1], n, updown, CoresOn(T, n))
               /\ r[k] = next_noniso_rr(l, n, updown)
<1> DEFINE k     == 2 * Cardinality(On(T, n))
           turns == [t \in 1 .. k |-> t]
           base  == [list |-> l, pmd |-> None]
           cores == CoresOn(T, n)
           F     == [x \in (1 .. k) \X Searches(T) |-> TryOn(x[2], n, updown, cores)]
           Fix(h) == h = [s \in SUBSET DOMAIN turns |->
                            IF s = {} THEN base
                            ELSE TryOn(h[s \ {Max(s)}], n, updown, cores)]
           h     == CHOOSE g : Fix(g)
<1>1. k \in Nat
  <2>1. Cardinality(On(T, n)) \in Nat
    BY Nodes
  <2> QED  BY <2>1
<1>2. base \in Searches(T)
  BY DEF Searches
<1>3. \A t \in 1 .. k, v \in Searches(T) :
        F[<<t, v>>] \in Searches(T) /\ F[<<t, v>>] = TryOn(v, n, updown, cores)
  BY TryStays
<1>4. PICK g \in [SUBSET (1 .. k) -> Searches(T)] : \A s \in SUBSET (1 .. k) :
        g[s] = IF s = {} THEN base ELSE F[<<Max(s), g[s \ {Max(s)}]>>]
  <2> HIDE DEF k, F, base
  <2>1. \A t \in 1 .. k, v \in Searches(T) : F[<<t, v>>] \in Searches(T)
    BY <1>3
  <2>2. RunOf(k, Searches(T), base, F) # {}
    BY <1>1, <1>2, <2>1, RunExists
  <2> QED  BY <2>2 DEF RunOf
<1>5. Fix(g)
  <2>1. \A s \in SUBSET (1 .. k) :
          g[s] = IF s = {} THEN base ELSE TryOn(g[s \ {Max(s)}], n, updown, cores)
    <3> TAKE s \in SUBSET (1 .. k)
    <3>1. CASE s = {}
      BY <3>1, <1>4
    <3>2. CASE s # {}
      <4>1. Max(s) \in s
        BY <3>2, <1>1, MaxOfSome
      <4>2. Max(s) \in 1 .. k /\ g[s \ {Max(s)}] \in Searches(T)
        BY <4>1, <1>4
      <4>3. g[s] = F[<<Max(s), g[s \ {Max(s)}]>>]
        BY <3>2, <1>4
      <4> HIDE DEF F, k
      <4> QED  BY <3>2, <4>2, <4>3, <1>3
    <3> QED  BY <3>1, <3>2
  <2>2. DOMAIN turns = 1 .. k
    OBVIOUS
  <2> HIDE DEF k, base, turns
  <2> QED  BY <2>1, <2>2, <1>4
<1>6. Fix(h)
  <2> HIDE DEF Fix
  <2> QED  BY <1>5
<1>7. next_noniso_rr(l, n, updown) = h[DOMAIN turns]
  <2>1. PmdsOn(l, n) = On(T, n)
    BY ListParts
  <2> QED  BY <2>1 DEF next_noniso_rr, tries, FoldLeft, MapThenFoldSet, TryOn, CoresOn
<1> HIDE DEF h
<1> DEFINE r == [t \in 0 .. k |-> h[1 .. t]]
<1>8. DOMAIN turns = 1 .. k
  OBVIOUS
<1>9. \A s \in SUBSET (1 .. k) :
        h[s] = IF s = {} THEN base ELSE TryOn(h[s \ {Max(s)}], n, updown, cores)
  BY <1>6, <1>8
<1>10. r[0] = base
  <2>1. 1 .. 0 = {} /\ {} \in SUBSET (1 .. k)
    OBVIOUS
  <2>2. h[{}] = base
    BY <1>9, <2>1
  <2> QED  BY <1>1, <2>1, <2>2
<1>11. ASSUME NEW t \in 1 .. k PROVE r[t] = TryOn(r[t - 1], n, updown, cores)
  <2>1. Max(1 .. t) = t /\ (1 .. t) \ {t} = 1 .. (t - 1)
    BY LastOf
  <2>2. 1 .. t \in SUBSET (1 .. k) /\ 1 .. t # {} /\ t - 1 \in 0 .. k /\ t \in 0 .. k
    BY <1>1
  <2>3. h[1 .. t] = TryOn(h[(1 .. t) \ {Max(1 .. t)}], n, updown, cores)
    BY <1>9, <2>2
  <2> QED  BY <2>1, <2>2, <2>3
<1>12. \A t \in 0 .. k : r[t] \in Searches(T)
  <2> DEFINE P == {t \in 0 .. k : r[t] \in Searches(T)}
  <2> HIDE DEF r, k
  <2>1. 0 \in P
    BY <1>1, <1>2, <1>10
  <2>2. \A t \in 0 .. k - 1 : t \in P => t + 1 \in P
    <3> SUFFICES ASSUME NEW t \in 0 .. k - 1, r[t] \in Searches(T)
                 PROVE  t + 1 \in 0 .. k /\ r[t + 1] \in Searches(T)
      OBVIOUS
    <3>1. t + 1 \in 1 .. k /\ (t + 1) - 1 = t /\ t + 1 \in 0 .. k
      BY <1>1
    <3>2. r[t + 1] = TryOn(r[t], n, updown, cores)
      BY <3>1, <1>11
    <3> QED  BY <3>1, <3>2, TryStays
  <2> HIDE DEF P
  <2>3. \A t \in 0 .. k : t \in P
    BY <1>1, <2>1, <2>2, CountUp
  <2> QED  BY <2>3 DEF P
<1>13. r[k] = next_noniso_rr(l, n, updown)
  <2>1. k \in 0 .. k
    BY <1>1
  <2> QED  BY <2>1, <1>7, <1>8
<1>14. r \in [0 .. k -> Searches(T)]
  BY <1>12
<1> HIDE DEF r, k
<1> QED  BY <1>10, <1>11, <1>13, <1>14 DEF k

(* How many turns the walk needs from position i to j.                     *)
Distance(i, up, j, m, updown) ==
  IF up THEN IF i <= j THEN j - i ELSE IF updown THEN 2 * m - i - j + 1 ELSE m - i + j
  ELSE IF j <= i THEN i - j ELSE i + j - 1

LEMMA TurnNears ==
  ASSUME NEW m \in Nat, NEW i \in 1 .. m, NEW j \in 1 .. m, NEW up \in BOOLEAN,
         NEW updown \in BOOLEAN
  PROVE  /\ Distance(i, up, j, m, updown) \in 0 .. 2 * m - 1
         /\ i # j => Distance(NextOf(i, up, m, updown), UpOf(i, up, m, updown), j, m, updown)
                       = Distance(i, up, j, m, updown) - 1
<1>1. Distance(i, up, j, m, updown) \in 0 .. 2 * m - 1
  BY DEF Distance
<1>2. CASE up /\ i < m
  <2>1. NextOf(i, up, m, updown) = i + 1 /\ UpOf(i, up, m, updown) = TRUE
    BY <1>2 DEF NextOf, UpOf
  <2>2. i # j => Distance(i + 1, TRUE, j, m, updown) = Distance(i, up, j, m, updown) - 1
    BY <1>2 DEF Distance
  <2> QED  BY <1>1, <2>1, <2>2
<1>3. CASE up /\ i = m /\ ~updown
  <2>1. NextOf(i, up, m, updown) = 1 /\ UpOf(i, up, m, updown) = TRUE
    BY <1>3 DEF NextOf, UpOf
  <2>2. i # j => Distance(1, TRUE, j, m, updown) = Distance(i, up, j, m, updown) - 1
    BY <1>3 DEF Distance
  <2> QED  BY <1>1, <2>1, <2>2
<1>4. CASE up /\ i = m /\ updown
  <2>1. NextOf(i, up, m, updown) = i /\ UpOf(i, up, m, updown) = FALSE
    BY <1>4 DEF NextOf, UpOf
  <2>2. i # j => Distance(i, FALSE, j, m, updown) = Distance(i, up, j, m, updown) - 1
    BY <1>4 DEF Distance
  <2> QED  BY <1>1, <2>1, <2>2
<1>5. CASE ~up /\ i > 1
  <2>1. NextOf(i, up, m, updown) = i - 1 /\ UpOf(i, up, m, updown) = FALSE
    BY <1>5 DEF NextOf, UpOf
  <2>2. i # j => Distance(i - 1, FALSE, j, m, updown) = Distance(i, up, j, m, updown) - 1
    BY <1>5 DEF Distance
  <2> QED  BY <1>1, <2>1, <2>2
<1>6. CASE ~up /\ i = 1
  <2>1. NextOf(i, up, m, updown) = 1 /\ UpOf(i, up, m, updown) = TRUE
    BY <1>6 DEF NextOf, UpOf
  <2>2. i # j => Distance(1, TRUE, j, m, updown) = Distance(i, up, j, m, updown) - 1
    BY <1>6 DEF Distance
  <2> QED  BY <1>1, <2>1, <2>2
<1> QED  BY <1>2, <1>3, <1>4, <1>5, <1>6

(* The threads the walk has passed in this pass have one queue more.       *)
Passed(j, i, up) == IF up THEN (IF j < i THEN 1 ELSE 0) ELSE (IF j > i THEN 1 ELSE 0)

LEMMA TurnCounts ==
  ASSUME NEW m \in Nat, NEW i \in 1 .. m, NEW up \in BOOLEAN, NEW updown \in BOOLEAN,
         updown \/ up
  PROVE  /\ updown \/ UpOf(i, up, m, updown)
         /\ \E d \in {0, 1} : \A j \in 1 .. m :
              Passed(j, i, up) + (IF j = i THEN 1 ELSE 0)
                = d + Passed(j, NextOf(i, up, m, updown), UpOf(i, up, m, updown))
<1>2. CASE up /\ i < m
  <2>1. NextOf(i, up, m, updown) = i + 1 /\ UpOf(i, up, m, updown) = TRUE
    BY <1>2 DEF NextOf, UpOf
  <2>2. \A j \in 1 .. m : Passed(j, i, up) + (IF j = i THEN 1 ELSE 0)
                            = 0 + Passed(j, i + 1, TRUE)
    BY <1>2 DEF Passed
  <2> QED  BY <2>1, <2>2
<1>3. CASE up /\ i = m /\ ~updown
  <2>1. NextOf(i, up, m, updown) = 1 /\ UpOf(i, up, m, updown) = TRUE
    BY <1>3 DEF NextOf, UpOf
  <2>2. \A j \in 1 .. m : Passed(j, i, up) + (IF j = i THEN 1 ELSE 0)
                            = 1 + Passed(j, 1, TRUE)
    BY <1>3 DEF Passed
  <2> QED  BY <2>1, <2>2
<1>4. CASE up /\ i = m /\ updown
  <2>1. NextOf(i, up, m, updown) = i /\ UpOf(i, up, m, updown) = FALSE
    BY <1>4 DEF NextOf, UpOf
  <2>2. \A j \in 1 .. m : Passed(j, i, up) + (IF j = i THEN 1 ELSE 0)
                            = 1 + Passed(j, i, FALSE)
    BY <1>4 DEF Passed
  <2> QED  BY <1>4, <2>1, <2>2
<1>5. CASE ~up /\ i > 1
  <2>1. NextOf(i, up, m, updown) = i - 1 /\ UpOf(i, up, m, updown) = FALSE
    BY <1>5 DEF NextOf, UpOf
  <2>2. \A j \in 1 .. m : Passed(j, i, up) + (IF j = i THEN 1 ELSE 0)
                            = 0 + Passed(j, i - 1, FALSE)
    BY <1>5 DEF Passed
  <2> QED  BY <1>5, <2>1, <2>2
<1>6. CASE ~up /\ i = 1
  <2>1. NextOf(i, up, m, updown) = 1 /\ UpOf(i, up, m, updown) = TRUE
    BY <1>6 DEF NextOf, UpOf
  <2>2. \A j \in 1 .. m : Passed(j, i, up) + (IF j = i THEN 1 ELSE 0)
                            = 1 + Passed(j, 1, TRUE)
    BY <1>6 DEF Passed
  <2> QED  BY <2>1, <2>2
<1> QED  BY <1>2, <1>3, <1>4, <1>5, <1>6

(* The counts of a node's available threads.                               *)
Even(cnt, l, T, n, updown) ==
  /\ updown \/ l.up[n]
  /\ \E c \in Nat : \A j \in 1 .. Cardinality(On(T, n)) :
       ~l.isolated[CoresOn(T, n)[j]] =>
         cnt[CoresOn(T, n)[j]] = c + Passed(j, l.next[n], l.up[n])

More(cnt, p) == [cnt EXCEPT ![p] = @ + 1]

SameBut(l2, l, n) ==
  /\ l2.isolated = l.isolated /\ l2.rxqs = l.rxqs
  /\ \A o \in Walked \ {n} : l2.next[o] = l.next[o] /\ l2.up[o] = l.up[o]

(* One turn: a thread that is not isolated is found, any other passed.     *)
LEMMA TryOnce ==
  ASSUME NEW T \in SUBSET Cores, NEW l \in Lists(T), NEW n, On(T, n) # {},
         NEW updown \in BOOLEAN
  PROVE  LET f    == TryOn([list |-> l, pmd |-> None], n, updown, CoresOn(T, n))
             m    == Cardinality(On(T, n))
             here == CoresOn(T, n)[l.next[n]]
         IN  /\ f.list \in Lists(T) /\ SameBut(f.list, l, n)
             /\ here \in On(T, n) /\ l.next[n] \in 1 .. m /\ l.up[n] \in BOOLEAN
             /\ f.list.next[n] = NextOf(l.next[n], l.up[n], m, updown)
             /\ f.list.up[n] = UpOf(l.next[n], l.up[n], m, updown)
             /\ f.pmd = IF l.isolated[here] THEN None ELSE here
<1>1. n \in Walked /\ Cardinality(On(T, n)) \in Nat
  BY Nodes
<1>2. l.next[n] \in 1 .. Cardinality(On(T, n)) /\ l.up[n] \in BOOLEAN
  BY <1>1, ListParts
<1>3. CoresOn(T, n)[l.next[n]] \in On(T, n)
  <2>1. CoresOn(T, n) \in [1 .. Cardinality(On(T, n)) -> On(T, n)]
    BY CoresOfNode
  <2> QED  BY <2>1, <1>2
<1>4. TryOn([list |-> l, pmd |-> None], n, updown, CoresOn(T, n))
        = [list |-> next_rr(l, n, updown),
           pmd  |-> IF l.isolated[CoresOn(T, n)[l.next[n]]] THEN None
                    ELSE CoresOn(T, n)[l.next[n]]]
  BY DEF TryOn
<1>5. LET l2 == next_rr(l, n, updown)
      IN  /\ l2 \in Lists(T) /\ SameBut(l2, l, n)
          /\ l2.next[n] = NextOf(l.next[n], l.up[n], Cardinality(On(T, n)), updown)
          /\ l2.up[n] = UpOf(l.next[n], l.up[n], Cardinality(On(T, n)), updown)
  BY NextRR DEF SameBut
<1> QED  BY <1>2, <1>3, <1>4, <1>5

LEMMA EvenAfterTurn ==
  ASSUME NEW T \in SUBSET Cores, NEW l \in Lists(T), NEW n, On(T, n) # {},
         NEW updown \in BOOLEAN, NEW cnt \in [T -> Nat], Even(cnt, l, T, n, updown)
  PROVE  LET f == TryOn([list |-> l, pmd |-> None], n, updown, CoresOn(T, n))
         IN  Even(IF f.pmd = None THEN cnt ELSE More(cnt, f.pmd), f.list, T, n, updown)
<1> DEFINE f    == TryOn([list |-> l, pmd |-> None], n, updown, CoresOn(T, n))
           m    == Cardinality(On(T, n))
           core == CoresOn(T, n)
           i    == l.next[n]
           up   == l.up[n]
           new  == IF f.pmd = None THEN cnt ELSE More(cnt, f.pmd)
<1>1. /\ f.list.isolated = l.isolated
      /\ core[i] \in On(T, n) /\ i \in 1 .. m /\ up \in BOOLEAN
      /\ f.list.next[n] = NextOf(i, up, m, updown) /\ f.list.up[n] = UpOf(i, up, m, updown)
      /\ f.pmd = IF l.isolated[core[i]] THEN None ELSE core[i]
  BY TryOnce DEF SameBut
<1>2. m \in Nat /\ None \notin T /\ On(T, n) \in SUBSET T
  BY Nodes
<1>3. updown \/ up
  BY DEF Even
<1>4. PICK c \in Nat : \A j \in 1 .. m : ~l.isolated[core[j]] => cnt[core[j]] = c + Passed(j, i, up)
  BY DEF Even
<1>5. /\ core \in [1 .. m -> On(T, n)]
      /\ \A a, b \in 1 .. m : core[a] = core[b] => a = b
  BY CoresOfNode
<1> HIDE DEF f, core, i, up, m
<1>6. PICK d \in {0, 1} : \A j \in 1 .. m :
        Passed(j, i, up) + (IF j = i THEN 1 ELSE 0)
          = d + Passed(j, NextOf(i, up, m, updown), UpOf(i, up, m, updown))
  BY <1>1, <1>2, <1>3, TurnCounts
<1>7. updown \/ f.list.up[n]
  BY <1>1, <1>2, <1>3, TurnCounts
<1>8. ASSUME NEW j \in 1 .. m, ~l.isolated[core[j]]
      PROVE  new[core[j]] = cnt[core[j]] + (IF j = i THEN 1 ELSE 0)
  <2>1. core[j] \in T /\ core[i] \in T /\ cnt[core[j]] \in Nat
    BY <1>1, <1>2, <1>5
  <2>2. CASE j = i
    <3>1. f.pmd = core[i] /\ f.pmd # None
      BY <1>1, <1>2, <1>8, <2>1, <2>2
    <3> QED  BY <2>1, <2>2, <3>1 DEF More
  <2>3. CASE j # i
    <3>1. core[j] # core[i]
      BY <1>1, <1>5, <2>3
    <3>2. f.pmd = None \/ f.pmd = core[i]
      BY <1>1
    <3>3. new[core[j]] = cnt[core[j]]
      BY <2>1, <3>1, <3>2 DEF More
    <3> QED  BY <2>1, <2>3, <3>3
  <2> QED  BY <2>2, <2>3
<1>9. \A j \in 1 .. m : ~l.isolated[core[j]] =>
        new[core[j]] = (c + d) + Passed(j, f.list.next[n], f.list.up[n])
  <2> TAKE j \in 1 .. m
  <2> HAVE ~l.isolated[core[j]]
  <2> HIDE DEF new
  <2>1. new[core[j]] = c + Passed(j, i, up) + (IF j = i THEN 1 ELSE 0)
    BY <1>4, <1>8
  <2>2. Passed(j, i, up) \in Int /\ Passed(j, f.list.next[n], f.list.up[n]) \in Int
    BY DEF Passed
  <2> QED  BY <1>1, <1>6, <2>1, <2>2
<1>10. c + d \in Nat
  OBVIOUS
<1> HIDE DEF new
<1>11. \E e \in Nat : \A j \in 1 .. m : ~f.list.isolated[core[j]] =>
         new[core[j]] = e + Passed(j, f.list.next[n], f.list.up[n])
  BY <1>1, <1>9, <1>10
<1>12. Even(new, f.list, T, n, updown)
  BY <1>7, <1>11 DEF Even, core, m
<1> QED  BY <1>12 DEF new, f

(* The walk finds a thread that is not isolated, if the node has one,      *)
(* before its turns are over, and keeps the counts even.                   *)
LEMMA WalkFinds ==
  ASSUME NEW T \in SUBSET Cores, NEW l \in Lists(T), NEW n, Available(l, n) # {},
         NEW updown \in BOOLEAN, NEW cnt \in [T -> Nat]
  PROVE  LET f == next_noniso_rr(l, n, updown)
         IN  /\ f.list \in Lists(T) /\ SameBut(f.list, l, n) /\ f.pmd \in Available(l, n)
             /\ Even(cnt, l, T, n, updown) =>
                  Even(More(cnt, f.pmd), f.list, T, n, updown)
<1> DEFINE m    == Cardinality(On(T, n))
           core == CoresOn(T, n)
           k    == 2 * m
           Count(f) == IF f.pmd = None THEN cnt ELSE More(cnt, f.pmd)
<1>1. On(T, n) # {} /\ Available(l, n) = {p \in On(T, n) : ~l.isolated[p]}
  <2>1. PmdsOn(l, n) = On(T, n)
    BY ListParts
  <2> QED  BY <2>1 DEF Available
<1>2. m \in Nat /\ k \in Nat /\ n \in Walked /\ On(T, n) \in SUBSET T /\ None \notin T
  <2>1. m \in Nat /\ n \in Walked /\ On(T, n) \in SUBSET T /\ None \notin T
    BY <1>1, Nodes
  <2> HIDE DEF m
  <2> QED  BY <2>1
<1>3. PICK r \in [0 .. k -> Searches(T)] :
        /\ r[0] = [list |-> l, pmd |-> None]
        /\ \A t \in 1 .. k : r[t] = TryOn(r[t - 1], n, updown, core)
        /\ r[k] = next_noniso_rr(l, n, updown)
  BY <1>1, WalkRuns
<1>4. PICK j \in 1 .. m : ~l.isolated[core[j]]
  <2>1. PICK p \in On(T, n) : ~l.isolated[p]
    BY <1>1
  <2>2. \A x \in On(T, n) : \E i \in 1 .. m : core[i] = x
    BY CoresOfNode
  <2> QED  BY <2>1, <2>2
<1> DEFINE Far(f) == Distance(f.list.next[n], f.list.up[n], j, m, updown)
           Near(t) == r[t].pmd = None => Far(r[t]) <= 2 * m - 1 - t
           Kept(t) == /\ SameBut(r[t].list, l, n)
                      /\ r[t].pmd \in Available(l, n) \cup {None}
           Counted(t) == Even(cnt, l, T, n, updown) =>
                           Even(Count(r[t]), r[t].list, T, n, updown)
           P == {t \in 0 .. k : Near(t) /\ Kept(t) /\ Counted(t)}
<1>5. 0 \in P
  <2>1. l.next[n] \in 1 .. m /\ l.up[n] \in BOOLEAN
    BY <1>1, <1>2, ListParts
  <2> HIDE DEF m
  <2>2. Near(0)
    BY <1>2, <1>3, <2>1, TurnNears
  <2>3. Kept(0) /\ Counted(0)
    BY <1>3 DEF SameBut
  <2> QED  BY <1>2, <2>2, <2>3
<1>6. ASSUME NEW t \in 0 .. k - 1, t \in P PROVE t + 1 \in P
  <2>1. t + 1 \in 1 .. k /\ t \in 0 .. k /\ t + 1 \in 0 .. k /\ (t + 1) - 1 = t
    BY <1>2
  <2>2. r[t + 1] = TryOn(r[t], n, updown, core)
    BY <1>3, <2>1
  <2> DEFINE a == r[t]
             b == r[t + 1]
  <2>3. a \in Searches(T) /\ b \in Searches(T)
    BY <1>3, <2>1
  <2>4. CASE a.pmd # None
    <3>1. b = a
      BY <2>2, <2>4 DEF TryOn
    <3> QED  BY <1>6, <2>1, <2>4, <3>1
  <2>5. CASE a.pmd = None
    <3> DEFINE l1   == a.list
               here == core[l1.next[n]]
    <3>1. l1 \in Lists(T) /\ b = TryOn([list |-> l1, pmd |-> None], n, updown, core)
      BY <2>2, <2>3, <2>5 DEF TryOn, Searches
    <3>2. SameBut(l1, l, n)
      BY <1>6
    <3> HIDE DEF a, b, l1, core, m
    <3>3. /\ b.list \in Lists(T) /\ SameBut(b.list, l1, n)
          /\ here \in On(T, n) /\ l1.next[n] \in 1 .. m /\ l1.up[n] \in BOOLEAN
          /\ b.list.next[n] = NextOf(l1.next[n], l1.up[n], m, updown)
          /\ b.list.up[n] = UpOf(l1.next[n], l1.up[n], m, updown)
          /\ b.pmd = IF l1.isolated[here] THEN None ELSE here
      BY <1>1, <3>1, TryOnce DEF core, m
    <3>4. SameBut(b.list, l, n)
      BY <3>2, <3>3 DEF SameBut
    <3>5. b.pmd \in Available(l, n) \cup {None}
      BY <1>1, <3>2, <3>3 DEF SameBut
    <3>6. b.pmd = None => Far(b) <= 2 * m - 1 - (t + 1)
      <4> HAVE b.pmd = None
      <4>1. l1.next[n] # j
        BY <1>2, <1>4, <3>2, <3>3 DEF SameBut
      <4>2. Far(a) <= 2 * m - 1 - t
        BY <1>6, <2>5 DEF a
      <4>3. Far(b) = Far(a) - 1 /\ Far(a) \in Int
        <5> DEFINE i  == l1.next[n]
                   up == l1.up[n]
        <5>1. i \in 1 .. m /\ up \in BOOLEAN /\ j \in 1 .. m /\ i # j
          BY <3>3, <4>1
        <5>2. Far(a) = Distance(i, up, j, m, updown)
          BY DEF l1
        <5>3. Far(b) = Distance(NextOf(i, up, m, updown), UpOf(i, up, m, updown), j, m, updown)
          BY <3>3
        <5> HIDE DEF i, up, Far
        <5> QED  BY <1>2, <5>1, <5>2, <5>3, TurnNears
      <4> HIDE DEF Far
      <4> QED  BY <1>2, <2>1, <4>2, <4>3
    <3>7. Even(cnt, l, T, n, updown) => Even(Count(b), b.list, T, n, updown)
      <4> HAVE Even(cnt, l, T, n, updown)
      <4>1. Even(cnt, l1, T, n, updown)
        BY <1>6, <2>5 DEF a, l1
      <4>2. Even(IF b.pmd = None THEN cnt ELSE More(cnt, b.pmd), b.list, T, n, updown)
        BY <1>1, <3>1, <4>1, EvenAfterTurn DEF core
      <4> QED  BY <4>2
    <3> QED  BY <2>1, <3>4, <3>5, <3>6, <3>7 DEF b
  <2> QED  BY <2>4, <2>5
<1>7. k \in P
  <2> HIDE DEF P, k
  <2>1. \A t \in 0 .. k : t \in P
    BY <1>2, <1>5, <1>6, CountUp
  <2> QED  BY <1>2, <2>1
<1> DEFINE f == r[k]
<1>8. f \in Searches(T)
  BY <1>2, <1>3
<1>9. f.pmd # None
  <2> SUFFICES ASSUME f.pmd = None PROVE FALSE
    OBVIOUS
  <2>1. Far(f) <= 2 * m - 1 - k
    BY <1>7
  <2>2. f.list \in Lists(T)
    BY <1>8 DEF Searches
  <2>3. f.list.next[n] \in 1 .. m /\ f.list.up[n] \in BOOLEAN
    BY <1>1, <1>2, <2>2, ListParts
  <2> HIDE DEF f, m
  <2>4. Far(f) \in 0 .. 2 * m - 1
    BY <1>2, <2>3, TurnNears
  <2> HIDE DEF Far
  <2> QED  BY <1>2, <2>1, <2>4
<1> QED  BY <1>3, <1>7, <1>8, <1>9 DEF Searches

-----------------------------------------------------------------------------
(* Choosing a thread for a queue.                                          *)
LEMMA LoadIsNat ==
  ASSUME Inputs, NEW Q \in SUBSET Rxqs
  PROVE  /\ IsFiniteSet(Q) /\ Cardinality(Q) \in Nat
         /\ SumFunctionOnSet(cycles, Q) \in Nat
<1>1. IsFiniteSet(Q)
  BY ScheduleAssumption, FS_Subset DEF ScheduleAssumption
<1>2. \A q \in Q : cycles[q] \in Nat
  BY DEF Inputs
<1> QED  BY <1>1, <1>2, SumNat, FS_CardinalityType

LEMMA LowestIs ==
  ASSUME Inputs, NEW T \in SUBSET Cores, NEW l \in Lists(T), NEW n,
         Available(l, n) # {}, NEW has_cyc \in BOOLEAN
  PROVE  LET p == get_lowest(l, n, has_cyc)
         IN  /\ p \in Available(l, n)
             /\ has_cyc => \A o \in Available(l, n) : Load(l, p) <= Load(l, o)
<1> DEFINE S == Available(l, n)
           Num(p) == IF has_cyc THEN Load(l, p) ELSE Cardinality(l.rxqs[p])
           Lower(a, b) == Num(a) < Num(b) \/ (Num(a) = Num(b) /\ a <= b)
           R == {x \in S \X S : Lower(x[1], x[2]) /\ x[1] # x[2]}
           p == get_lowest(l, n, has_cyc)
<1>1. S \in SUBSET T /\ IsFiniteSet(S) /\ S \subseteq Nat
  <2>1. PmdsOn(l, n) = On(T, n)
    BY ListParts
  <2>2. S \in SUBSET T
    BY <2>1 DEF Available, On
  <2>3. IsFiniteSet(T) /\ T \subseteq Nat
    BY Nodes
  <2> QED  BY <2>2, <2>3, FS_Subset
<1>2. \A x \in S : Num(x) \in Nat
  <2> TAKE x \in S
  <2>1. l.rxqs[x] \in SUBSET Rxqs
    BY <1>1, ListParts
  <2> QED  BY <2>1, LoadIsNat DEF Load
<1>3. p = CHOOSE x \in S : \A o \in S : Lower(x, o)
  BY DEF get_lowest
<1> HIDE DEF p, S, Num
<1>4. StrictOrder(S, R)
  <2>1. \A x, y \in S : <<x, y>> \in R <=> Lower(x, y) /\ x # y
    OBVIOUS
  <2>2. \A x, y, z \in S : x \in Nat /\ y \in Nat /\ z \in Nat
                            /\ Num(x) \in Nat /\ Num(y) \in Nat /\ Num(z) \in Nat
    BY <1>1, <1>2
  <2> HIDE DEF R
  <2> QED  BY <2>1, <2>2 DEF StrictOrder
<1>5. \E x \in S : \A o \in S : Lower(x, o)
  <2> HIDE DEF R
  <2>1. Cardinality(S) \in Nat /\ Cardinality(S) # 0
    BY <1>1, FS_CardinalityType, FS_EmptySet DEF S
  <2>2. 0 \in 0 .. Cardinality(S) - 1
    BY <2>1
  <2>3. PICK x \in S : Rank(S, R, x) = 0
    BY <1>1, <1>4, <2>2, RankOrder
  <2>4. ASSUME NEW o \in S PROVE <<o, x>> \notin R
    <3>1. ~(Rank(S, R, o) < 0)
      BY <1>1, <1>4, RankOrder
    <3> QED  BY <1>1, <1>4, <2>3, <3>1, RankOrder
  <2>5. ASSUME NEW o \in S PROVE Lower(x, o)
    <3>1. x = o \/ <<x, o>> \in R
      BY <1>4, <2>4 DEF StrictOrder
    <3>2. x = o => Lower(x, o)
      BY <1>1, <1>2
    <3> QED  BY <3>1, <3>2 DEF R
  <2> QED  BY <2>5
<1>6. p \in S /\ \A o \in S : Lower(p, o)
  BY <1>3, <1>5
<1>7. ASSUME has_cyc, NEW o \in S PROVE Load(l, p) <= Load(l, o)
  <2>1. Num(p) \in Nat /\ Num(o) \in Nat
    BY <1>2, <1>6
  <2>2. Num(p) <= Num(o)
    BY <1>6, <2>1
  <2> QED  BY <1>7, <2>2 DEF Num
<1> QED  BY <1>6, <1>7 DEF p, S

LEMMA NumaForIs ==
  ASSUME NEW T \in SUBSET Cores, NEW l \in Lists(T), NEW q
  PROVE  LET n == NumaFor(l, q)
         IN  /\ n = None => \A o : Available(l, o) = {}
             /\ n # None => Available(l, n) # {}
             /\ Available(l, PortNuma[q]) # {} => n = PortNuma[q]
<1>1. \A o, p : p \in Available(l, o) => p \in T /\ NumaOf[p] = o
  BY ListParts DEF Available, On
<1>2. \A o : Available(l, o) # {} => o \in Nat /\ o \in Walked
  <2>1. \A p \in T : NumaOf[p] \in Nat /\ NumaOf[p] \in Walked
    BY Nodes
  <2> QED  BY <1>1, <2>1
<1>3. \A o \in Nat : o # None
  BY DEF None
<1>4. CASE Available(l, PortNuma[q]) # {}
  BY <1>2, <1>3, <1>4 DEF NumaFor
<1>5. CASE Available(l, PortNuma[q]) = {}
  <2> DEFINE I == {i \in 1 .. Len(numa_walk) : Available(l, numa_walk[i]) # {}}
             first == IF I # {} THEN Min(I) ELSE 0
  <2>1. NumaFor(l, q) = IF first = 0 THEN None ELSE numa_walk[first]
    BY <1>5 DEF NumaFor, SelectInSeq
  <2>2. numa_walk \in Seq(Nat) /\ DOMAIN numa_walk = 1 .. Len(numa_walk)
        /\ Len(numa_walk) \in Nat
    <3>1. numa_walk \in Seq(Nat)
      BY ScheduleAssumption DEF ScheduleAssumption
    <3> QED  BY <3>1
  <2>3. CASE I = {}
    <3>1. ASSUME NEW o, Available(l, o) # {} PROVE FALSE
      <4>1. PICK i \in DOMAIN numa_walk : numa_walk[i] = o
        BY <3>1, <1>2 DEF Walked, Range
      <4>2. i \in I
        BY <3>1, <4>1, <2>2
      <4> QED  BY <4>2, <2>3
    <3> QED  BY <1>5, <2>1, <2>3, <3>1
  <2>4. CASE I # {}
    <3>1. I \in SUBSET Nat
      BY <2>2
    <3>2. first \in I
      <4> HIDE DEF I
      <4> QED  BY <2>4, <3>1, MinOfSome
    <3> HIDE DEF first
    <3>3. first # 0 /\ Available(l, numa_walk[first]) # {}
      BY <3>2, <2>2
    <3> QED  BY <1>2, <1>3, <1>5, <2>1, <3>3
  <2> QED  BY <2>3, <2>4
<1> QED  BY <1>4, <1>5

(* What assigning a queue does: p of node n gets it.                       *)
Placing(T, l, a, q, p) ==
  /\ a \in Lists(T) /\ a.isolated = l.isolated
  /\ a.rxqs = [l.rxqs EXCEPT ![p] = @ \cup {q}]
  /\ \A o \in Walked \ {NumaOf[p]} : a.next[o] = l.next[o] /\ a.up[o] = l.up[o]
  /\ algo = "group" /\ cycles[q] > 0 =>
       \A x \in Available(l, NumaOf[p]) : Load(l, p) <= Load(l, x)
  /\ algo # "group" => \A cnt \in [T -> Nat] :
       Even(cnt, l, T, NumaOf[p], algo = "cycles") =>
         Even(More(cnt, p), a, T, NumaOf[p], algo = "cycles")

LEMMA SelectFinds ==
  ASSUME Inputs, NEW T \in SUBSET Cores, NEW l \in Lists(T), NEW n,
         Available(l, n) # {}, NEW q \in Rxqs
  PROVE  LET f == Select(l, n, q)
         IN  /\ f.list \in Lists(T) /\ SameBut(f.list, l, n) /\ f.pmd \in Available(l, n)
             /\ algo = "group" /\ cycles[q] > 0 =>
                  \A x \in Available(l, n) : Load(l, f.pmd) <= Load(l, x)
             /\ algo # "group" => \A cnt \in [T -> Nat] :
                  Even(cnt, l, T, n, algo = "cycles") =>
                    Even(More(cnt, f.pmd), f.list, T, n, algo = "cycles")
<1>1. CASE algo = "group"
  <2> DEFINE has == cycles[q] > 0
             p   == get_lowest(l, n, has)
  <2>1. has \in BOOLEAN
    OBVIOUS
  <2>2. Select(l, n, q) = [list |-> l, pmd |-> p]
    BY <1>1 DEF Select
  <2> HIDE DEF has
  <2>3. p \in Available(l, n) /\ (has => \A x \in Available(l, n) : Load(l, p) <= Load(l, x))
    BY <2>1, LowestIs
  <2> HIDE DEF p
  <2> QED  BY <1>1, <2>2, <2>3 DEF SameBut, has
<1>2. CASE algo # "group"
  <2> DEFINE updown == algo = "cycles"
  <2>1. updown \in BOOLEAN
    OBVIOUS
  <2>2. Select(l, n, q) = next_noniso_rr(l, n, updown)
    BY <1>2 DEF Select
  <2> HIDE DEF updown
  <2> DEFINE f == next_noniso_rr(l, n, updown)
  <2>3. ASSUME NEW cnt \in [T -> Nat]
        PROVE  /\ f.list \in Lists(T) /\ SameBut(f.list, l, n) /\ f.pmd \in Available(l, n)
               /\ Even(cnt, l, T, n, updown) => Even(More(cnt, f.pmd), f.list, T, n, updown)
    BY <2>1, WalkFinds
  <2>4. [p \in T |-> 0] \in [T -> Nat]
    OBVIOUS
  <2> HIDE DEF f
  <2>5. f.list \in Lists(T) /\ SameBut(f.list, l, n) /\ f.pmd \in Available(l, n)
    BY <2>3, <2>4
  <2> QED  BY <1>2, <2>2, <2>3, <2>5 DEF updown, f
<1> QED  BY <1>1, <1>2

LEMMA AssignPlaces ==
  ASSUME Inputs, NEW T \in SUBSET Cores, NEW l \in Lists(T), NEW q \in Rxqs
  PROVE  \/ (\A o : Available(l, o) = {}) /\ assign(l, q) = l
         \/ \E p \in T : /\ ~l.isolated[p] /\ Placing(T, l, assign(l, q), q, p)
                         /\ Available(l, PortNuma[q]) # {} => NumaOf[p] = PortNuma[q]
<1> DEFINE n == NumaFor(l, q)
           f == Select(l, n, q)
           p == f.pmd
           a == assign(l, q)
<1>1. CASE n = None
  BY <1>1, NumaForIs DEF assign
<1>2. CASE n # None
  <2>1. Available(l, n) # {} /\ (Available(l, PortNuma[q]) # {} => n = PortNuma[q])
    BY <1>2, NumaForIs
  <2> HIDE DEF n
  <2>2. /\ f.list \in Lists(T) /\ SameBut(f.list, l, n) /\ f.pmd \in Available(l, n)
        /\ algo = "group" /\ cycles[q] > 0 =>
             \A x \in Available(l, n) : Load(l, f.pmd) <= Load(l, x)
        /\ algo # "group" => \A cnt \in [T -> Nat] :
             Even(cnt, l, T, n, algo = "cycles") =>
               Even(More(cnt, f.pmd), f.list, T, n, algo = "cycles")
    BY <2>1, SelectFinds
  <2> HIDE DEF f
  <2>3. p \in T /\ ~l.isolated[p] /\ NumaOf[p] = n /\ p # None
    <3>1. PmdsOn(l, n) = On(T, n)
      BY ListParts
    <3>2. p \in T /\ ~l.isolated[p] /\ NumaOf[p] = n
      BY <3>1, <2>2 DEF Available, On
    <3>3. None \notin T
      BY Nodes
    <3> QED  BY <3>2, <3>3
  <2>4. a = [f.list EXCEPT !.rxqs[p] = @ \cup {q}]
    BY <1>2, <2>3 DEF assign, n, f
  <2> HIDE DEF a, p
  <2>5. /\ f.list.rxqs \in [T -> SUBSET Rxqs]
        /\ f.list = [pmds |-> f.list.pmds, isolated |-> f.list.isolated,
                     rxqs |-> f.list.rxqs, next |-> f.list.next, up |-> f.list.up]
    BY <2>2, ListParts
  <2>6. a = [pmds |-> f.list.pmds, isolated |-> f.list.isolated,
             rxqs |-> [f.list.rxqs EXCEPT ![p] = @ \cup {q}],
             next |-> f.list.next, up |-> f.list.up]
    BY <2>4, <2>5
  <2>7. [f.list.rxqs EXCEPT ![p] = @ \cup {q}] \in [T -> SUBSET Rxqs]
    BY <2>3, <2>5
  <2>8. a \in Lists(T)
    BY <2>2, <2>6, <2>7 DEF Lists
  <2>9. /\ a.isolated = l.isolated /\ a.rxqs = [l.rxqs EXCEPT ![p] = @ \cup {q}]
        /\ a.next = f.list.next /\ a.up = f.list.up
    BY <2>2, <2>6 DEF SameBut
  <2>10. algo # "group" => \A cnt \in [T -> Nat] :
           Even(cnt, l, T, n, algo = "cycles") => Even(More(cnt, p), a, T, n, algo = "cycles")
    <3> SUFFICES ASSUME algo # "group", NEW cnt \in [T -> Nat],
                        Even(cnt, l, T, n, algo = "cycles")
                 PROVE  Even(More(cnt, p), a, T, n, algo = "cycles")
      OBVIOUS
    <3>1. Even(More(cnt, p), f.list, T, n, algo = "cycles")
      BY <2>2 DEF p
    <3>2. f.list.isolated = a.isolated
      BY <2>6
    <3> QED  BY <3>1, <3>2, <2>9 DEF Even
  <2>11. Placing(T, l, a, q, p)
    BY <2>2, <2>3, <2>8, <2>9, <2>10 DEF Placing, SameBut, p
  <2> QED  BY <2>1, <2>3, <2>11 DEF a
<1> QED  BY <1>1, <1>2

-----------------------------------------------------------------------------
(* The assignment of all queues.                                           *)
Isolates(p) == pmd_iso /\ \E q \in Rxqs : affinity[q] = p
Spare(T)    == {p \in T : ~Isolates(p)}
Unpinned(T) == {q \in Rxqs : affinity[q] \notin T}

OnlyAt(l, T, q, p) == \A x \in T : q \in l.rxqs[x] <=> x = p

PlacedWell(l, T, q) ==
  \E p \in Spare(T) :
    /\ OnlyAt(l, T, q, p)
    /\ (\E x \in Spare(T) : NumaOf[x] = PortNuma[q]) => NumaOf[p] = PortNuma[q]

(* The queues of done have been assigned.                                  *)
Sound(l, T, done) ==
  /\ l \in Lists(T)
  /\ \A p \in T : l.isolated[p] <=> Isolates(p)
  /\ \A q \in Rxqs \ Unpinned(T) : OnlyAt(l, T, q, affinity[q])
  /\ \A q \in Unpinned(T) :
       IF q \in done /\ Spare(T) # {} THEN PlacedWell(l, T, q)
       ELSE \A x \in T : q \notin l.rxqs[x]

(* The order in which the queues are assigned.                             *)
RxqOrder(S) ==
  {p \in S \X S : IF algo = "roundrobin" THEN walked(p[1], p[2])
                  ELSE compare_rxq_cycles(p[1], p[2])}

Runs(T, order, r) ==
  LET n == Cardinality(Unpinned(T))
  IN  /\ n \in Nat /\ Sorts(order, Unpinned(T), RxqOrder(Unpinned(T)))
      /\ r \in [0 .. n -> Lists(T)] /\ r[0] = pin(T) /\ r[n] = schedule(T)
      /\ \A i \in 1 .. n : r[i] = assign(r[i - 1], order[i])

LEMMA PinSound ==
  ASSUME Inputs, NEW T \in SUBSET Cores
  PROVE  /\ Sound(pin(T), T, {})
         /\ \A n \in Walked : pin(T).next[n] = 1 /\ pin(T).up[n] = TRUE
         /\ \A p \in T : pin(T).rxqs[p] = {q \in Rxqs : affinity[q] = p}
<1> DEFINE l == pin(T)
           pinned == [p \in T |-> {q \in Rxqs : affinity[q] = p}]
           iso == [p \in T |-> pmd_iso /\ pinned[p] # {}]
<1>1. l = [pmds |-> T, isolated |-> iso, rxqs |-> pinned,
           next |-> [n \in Walked |-> 1], up |-> [n \in Walked |-> TRUE]]
  <2>1. l = [populate(T) EXCEPT !.rxqs = pinned, !.isolated = iso]
    BY DEF pin
  <2> HIDE DEF l, pinned, iso
  <2> DEFINE none  == [p \in T |-> FALSE]
             empty == [p \in T |-> {}]
             ones  == [n \in Walked |-> 1]
             ups   == [n \in Walked |-> TRUE]
  <2>2. populate(T) = [pmds |-> T, isolated |-> none, rxqs |-> empty,
                       next |-> ones, up |-> ups]
    BY DEF populate, Walked
  <2> HIDE DEF none, empty, ones, ups
  <2> DEFINE x == populate(T)
             y == [x EXCEPT !.rxqs = pinned]
  <2>3. y = [pmds |-> T, isolated |-> none, rxqs |-> pinned, next |-> ones, up |-> ups]
    BY <2>2
  <2>4. l = [y EXCEPT !.isolated = iso]
    <3> HIDE DEF x
    <3>1. l = [x EXCEPT !.rxqs = pinned, !.isolated = iso]
      BY <2>1 DEF x
    <3> QED  BY <3>1
  <2> HIDE DEF y
  <2>5. l = [pmds |-> T, isolated |-> iso, rxqs |-> pinned, next |-> ones, up |-> ups]
    BY <2>3, <2>4
  <2> QED  BY <2>5 DEF ones, ups
<1>2. pinned \in [T -> SUBSET Rxqs] /\ \A p \in T : pinned[p] = {q \in Rxqs : affinity[q] = p}
  OBVIOUS
<1>3. iso \in [T -> BOOLEAN] /\ \A p \in T : iso[p] <=> Isolates(p)
  <2>1. \A p \in T : (pmd_iso /\ pinned[p] # {}) \in BOOLEAN
    OBVIOUS
  <2>2. \A p \in T : pinned[p] # {} <=> \E q \in Rxqs : affinity[q] = p
    BY <1>2
  <2> HIDE DEF pinned
  <2>3. \A p \in T : iso[p] = (pmd_iso /\ pinned[p] # {})
    OBVIOUS
  <2>4. iso \in [T -> BOOLEAN]
    BY <2>1
  <2> HIDE DEF iso
  <2> QED  BY <2>2, <2>3, <2>4 DEF Isolates
<1> HIDE DEF l, pinned, iso
<1>4. l \in Lists(T)
  <2>1. [n \in Walked |-> 1] \in [Walked -> Nat \ {0}]
        /\ [n \in Walked |-> TRUE] \in [Walked -> BOOLEAN]
    OBVIOUS
  <2>2. \A n \in Walked : On(T, n) # {} => 1 <= Cardinality(On(T, n))
    <3> TAKE n \in Walked
    <3> HAVE On(T, n) # {}
    <3>1. Cardinality(On(T, n)) >= 1 /\ Cardinality(On(T, n)) \in Nat
      BY Nodes
    <3> QED  BY <3>1
  <2> QED  BY <1>1, <1>2, <1>3, <2>1, <2>2 DEF Lists
<1>5. l.rxqs = pinned /\ l.isolated = iso
  BY <1>1
<1>6. Sound(l, T, {})
  BY <1>2, <1>3, <1>4, <1>5 DEF Sound, OnlyAt, Unpinned
<1> QED  BY <1>1, <1>2, <1>5, <1>6 DEF l

LEMMA AssignType ==
  ASSUME Inputs, NEW T \in SUBSET Cores, NEW l \in Lists(T), NEW q \in Rxqs
  PROVE  assign(l, q) \in Lists(T)
BY AssignPlaces DEF Placing

LEMMA ScheduleRuns ==
  ASSUME Inputs, NEW T \in SUBSET Cores
  PROVE  \E order, r : Runs(T, order, r)
<1> DEFINE free  == Unpinned(T)
           n     == Cardinality(free)
           order == IF algo = "roundrobin" THEN InOrder(free, walked)
                    ELSE InOrder(free, compare_rxq_cycles)
           base  == pin(T)
           V     == Lists(T)
           F     == [x \in (1 .. n) \X V |-> assign(x[2], order[x[1]])]
           Fix(h) == h = [s \in SUBSET DOMAIN order |->
                            IF s = {} THEN base
                            ELSE assign(h[s \ {Max(s)}], order[Max(s)])]
           h     == CHOOSE g : Fix(g)
<1>1. free \in SUBSET Rxqs /\ n \in Nat /\ IsFiniteSet(free)
  <2>1. free \in SUBSET Rxqs
    BY DEF Unpinned
  <2> HIDE DEF free
  <2> QED  BY <2>1, LoadIsNat
<1>2. Sorts(order, free, RxqOrder(free))
  <2> HIDE DEF free
  <2>1. CASE algo = "roundrobin"
    <3>1. Sorts(InOrder(free, walked), free, {p \in free \X free : walked(p[1], p[2])})
      BY <1>1, QueuesSortedByWalk
    <3> QED  BY <2>1, <3>1 DEF RxqOrder
  <2>2. CASE algo # "roundrobin"
    <3>1. Sorts(InOrder(free, compare_rxq_cycles), free,
                {p \in free \X free : compare_rxq_cycles(p[1], p[2])})
      BY <1>1, QueuesSortedByCycles
    <3> QED  BY <2>2, <3>1 DEF RxqOrder
  <2> QED  BY <2>1, <2>2
<1>3. base \in V
  BY PinSound DEF Sound
<1>4. schedule(T) = h[DOMAIN order]
  BY DEF schedule, FoldLeft, MapThenFoldSet, Unpinned
<1> HIDE DEF order, base
<1>5. order \in [1 .. n -> Rxqs] /\ DOMAIN order = 1 .. n
  <2>1. order \in [1 .. n -> free]
    BY <1>2 DEF Sorts
  <2> QED  BY <2>1, <1>1
<1>6. \A t \in 1 .. n, v \in V :
        F[<<t, v>>] \in V /\ F[<<t, v>>] = assign(v, order[t])
  BY <1>5, AssignType
<1>7. PICK g \in [SUBSET (1 .. n) -> V] : \A s \in SUBSET (1 .. n) :
        g[s] = IF s = {} THEN base ELSE F[<<Max(s), g[s \ {Max(s)}]>>]
  <2> HIDE DEF n, F, V
  <2>1. \A t \in 1 .. n, v \in V : F[<<t, v>>] \in V
    BY <1>6
  <2>2. RunOf(n, V, base, F) # {}
    BY <1>1, <1>3, <2>1, RunExists
  <2> QED  BY <2>2 DEF RunOf
<1>8. Fix(g)
  <2>1. \A s \in SUBSET (1 .. n) :
          g[s] = IF s = {} THEN base ELSE assign(g[s \ {Max(s)}], order[Max(s)])
    <3> TAKE s \in SUBSET (1 .. n)
    <3>1. CASE s = {}
      BY <3>1, <1>7
    <3>2. CASE s # {}
      <4>1. Max(s) \in s
        BY <3>2, <1>1, MaxOfSome
      <4>2. Max(s) \in 1 .. n /\ g[s \ {Max(s)}] \in V
        BY <4>1, <1>7
      <4>3. g[s] = F[<<Max(s), g[s \ {Max(s)}]>>]
        BY <3>2, <1>7
      <4> HIDE DEF F, n, V
      <4> QED  BY <3>2, <4>2, <4>3, <1>6
    <3> QED  BY <3>1, <3>2
  <2> HIDE DEF n
  <2> QED  BY <2>1, <1>5, <1>7
<1>9. Fix(h)
  <2> HIDE DEF Fix
  <2> QED  BY <1>8
<1> HIDE DEF h
<1> DEFINE r == [t \in 0 .. n |-> h[1 .. t]]
<1>10. \A s \in SUBSET (1 .. n) :
        h[s] = IF s = {} THEN base ELSE assign(h[s \ {Max(s)}], order[Max(s)])
  BY <1>9, <1>5
<1>11. r[0] = base
  <2>1. 1 .. 0 = {} /\ {} \in SUBSET (1 .. n)
    OBVIOUS
  <2>2. h[{}] = base
    BY <1>10, <2>1
  <2> QED  BY <1>1, <2>1, <2>2
<1>12. ASSUME NEW t \in 1 .. n PROVE r[t] = assign(r[t - 1], order[t])
  <2>1. Max(1 .. t) = t /\ (1 .. t) \ {t} = 1 .. (t - 1)
    BY LastOf
  <2>2. 1 .. t \in SUBSET (1 .. n) /\ 1 .. t # {} /\ t - 1 \in 0 .. n /\ t \in 0 .. n
    BY <1>1
  <2>3. h[1 .. t] = assign(h[(1 .. t) \ {Max(1 .. t)}], order[Max(1 .. t)])
    BY <1>10, <2>2
  <2> QED  BY <2>1, <2>2, <2>3
<1>13. \A t \in 0 .. n : r[t] \in V
  <2> DEFINE P == {t \in 0 .. n : r[t] \in V}
  <2> HIDE DEF r, n
  <2>1. 0 \in P
    BY <1>1, <1>3, <1>11
  <2>2. \A t \in 0 .. n - 1 : t \in P => t + 1 \in P
    <3> SUFFICES ASSUME NEW t \in 0 .. n - 1, r[t] \in V
                 PROVE  t + 1 \in 0 .. n /\ r[t + 1] \in V
      OBVIOUS
    <3>1. t + 1 \in 1 .. n /\ (t + 1) - 1 = t /\ t + 1 \in 0 .. n
      BY <1>1
    <3>2. r[t + 1] = assign(r[t], order[t + 1])
      BY <3>1, <1>12
    <3> QED  BY <3>1, <3>2, <1>5, AssignType
  <2> HIDE DEF P
  <2>3. \A t \in 0 .. n : t \in P
    BY <1>1, <2>1, <2>2, CountUp
  <2> QED  BY <2>3 DEF P
<1>14. r[n] = schedule(T)
  <2>1. n \in 0 .. n
    BY <1>1
  <2> QED  BY <2>1, <1>4, <1>5
<1>15. r \in [0 .. n -> V]
  BY <1>13
<1> HIDE DEF r
<1>16. Runs(T, order, r)
  BY <1>1, <1>2, <1>11, <1>12, <1>14, <1>15 DEF Runs, base
<1> QED  BY <1>16

LEMMA AssignSound ==
  ASSUME Inputs, NEW T \in SUBSET Cores, NEW done, NEW l, Sound(l, T, done),
         NEW q \in Unpinned(T), q \notin done
  PROVE  Sound(assign(l, q), T, done \cup {q})
<1> DEFINE a == assign(l, q)
<1>1. l \in Lists(T) /\ q \in Rxqs /\ \A p \in T : l.isolated[p] <=> Isolates(p)
  BY DEF Sound, Unpinned
<1>2. \A o : Available(l, o) = {p \in Spare(T) : NumaOf[p] = o}
  BY <1>1, ListParts DEF Available, On, Spare
<1>3. CASE (\A o : Available(l, o) = {}) /\ a = l
  <2>1. Spare(T) = {}
    BY <1>2, <1>3
  <2> HIDE DEF a
  <2> QED  BY <1>3, <2>1 DEF Sound, a
<1>4. ASSUME NEW p \in T, ~l.isolated[p], Placing(T, l, a, q, p),
             Available(l, PortNuma[q]) # {} => NumaOf[p] = PortNuma[q]
      PROVE  Sound(a, T, done \cup {q})
  <2> HIDE DEF a
  <2>1. a \in Lists(T) /\ a.isolated = l.isolated
        /\ a.rxqs = [l.rxqs EXCEPT ![p] = @ \cup {q}]
    BY <1>4 DEF Placing
  <2>2. l.rxqs \in [T -> SUBSET Rxqs]
    BY <1>1, ListParts
  <2>3. \A x \in T, o \in Rxqs : o \in a.rxqs[x] <=> (o \in l.rxqs[x] \/ (x = p /\ o = q))
    BY <2>1, <2>2
  <2>4. p \in Spare(T)
    BY <1>1, <1>4 DEF Spare
  <2>5. \A x \in T : q \notin l.rxqs[x]
    BY DEF Sound
  <2>6. PlacedWell(a, T, q)
    <3>1. OnlyAt(a, T, q, p)
      BY <1>1, <2>3, <2>5 DEF OnlyAt
    <3>2. (\E x \in Spare(T) : NumaOf[x] = PortNuma[q]) => NumaOf[p] = PortNuma[q]
      BY <1>2, <1>4
    <3> QED  BY <2>4, <3>1, <3>2 DEF PlacedWell
  <2>7. \A o \in Rxqs \ {q}, x \in T : o \in a.rxqs[x] <=> o \in l.rxqs[x]
    BY <2>3
  <2>8. \A o \in Rxqs \ Unpinned(T) : OnlyAt(a, T, o, affinity[o])
    BY <2>7 DEF Sound, OnlyAt
  <2>9. ASSUME NEW o \in Unpinned(T)
        PROVE  IF o \in done \cup {q} /\ Spare(T) # {} THEN PlacedWell(a, T, o)
               ELSE \A x \in T : o \notin a.rxqs[x]
    <3>1. CASE o = q
      BY <2>4, <2>6, <3>1
    <3>2. CASE o # q
      <4>1. o \in Rxqs \ {q}
        BY <3>2 DEF Unpinned
      <4>2. \A x \in T : o \in a.rxqs[x] <=> o \in l.rxqs[x]
        BY <2>7, <4>1
      <4>3. PlacedWell(l, T, o) => PlacedWell(a, T, o)
        BY <4>2 DEF PlacedWell, OnlyAt
      <4> QED  BY <3>2, <4>2, <4>3 DEF Sound
    <3> QED  BY <3>1, <3>2
  <2> QED  BY <1>1, <2>1, <2>8, <2>9 DEF Sound
<1>5. \/ (\A o : Available(l, o) = {}) /\ a = l
      \/ \E p \in T : /\ ~l.isolated[p] /\ Placing(T, l, a, q, p)
                      /\ Available(l, PortNuma[q]) # {} => NumaOf[p] = PortNuma[q]
  BY <1>1, AssignPlaces
<1> HIDE DEF a
<1>6. Sound(a, T, done \cup {q})
  BY <1>3, <1>4, <1>5 DEF a
<1> QED  BY <1>6 DEF a

(* The queues assigned in the first i turns.                               *)
FirstOf(order, i) == {order[j] : j \in 1 .. i}

LEMMA RunsSound ==
  ASSUME Inputs, NEW T \in SUBSET Cores, NEW order, NEW r, Runs(T, order, r)
  PROVE  /\ \A i \in 0 .. Cardinality(Unpinned(T)) : Sound(r[i], T, FirstOf(order, i))
         /\ \A i \in 1 .. Cardinality(Unpinned(T)) :
              /\ order[i] \in Unpinned(T) \ FirstOf(order, i - 1)
              /\ FirstOf(order, i) = FirstOf(order, i - 1) \cup {order[i]}
         /\ FirstOf(order, Cardinality(Unpinned(T))) = Unpinned(T)
<1> DEFINE n == Cardinality(Unpinned(T))
           P == {i \in 0 .. n : Sound(r[i], T, FirstOf(order, i))}
<1>1. /\ n \in Nat /\ Sorts(order, Unpinned(T), RxqOrder(Unpinned(T)))
      /\ r[0] = pin(T) /\ \A i \in 1 .. n : r[i] = assign(r[i - 1], order[i])
  BY DEF Runs
<1>2. /\ order \in [1 .. n -> Unpinned(T)]
      /\ \A q \in Unpinned(T) : \E i \in 1 .. n : order[i] = q
      /\ \A i, j \in 1 .. n : <<order[i], order[j]>> \in RxqOrder(Unpinned(T)) <=> i < j
  BY <1>1 DEF Sorts
<1> HIDE DEF n
<1>3. ASSUME NEW i \in 1 .. n
      PROVE  /\ order[i] \in Unpinned(T) \ FirstOf(order, i - 1)
             /\ FirstOf(order, i) = FirstOf(order, i - 1) \cup {order[i]}
  <2>1. ASSUME NEW j \in 1 .. i - 1, order[j] = order[i] PROVE FALSE
    <3>1. j \in 1 .. n /\ j < i /\ ~(i < i)
      BY <1>1
    <3>2. <<order[j], order[i]>> \in RxqOrder(Unpinned(T))
      BY <1>2, <3>1
    <3>3. <<order[i], order[i]>> \notin RxqOrder(Unpinned(T))
      BY <1>2, <3>1
    <3> QED  BY <2>1, <3>2, <3>3
  <2>2. 1 .. i = (1 .. i - 1) \cup {i}
    BY <1>1
  <2> QED  BY <1>2, <2>1, <2>2 DEF FirstOf
<1>4. 0 \in P
  <2>1. FirstOf(order, 0) = {}
    BY DEF FirstOf
  <2>2. Sound(pin(T), T, {})
    BY PinSound
  <2>3. Sound(r[0], T, FirstOf(order, 0))
    BY <1>1, <2>1, <2>2
  <2> QED  BY <1>1, <2>3
<1>5. ASSUME NEW i \in 0 .. n - 1, i \in P PROVE i + 1 \in P
  <2>1. i + 1 \in 1 .. n /\ (i + 1) - 1 = i /\ i + 1 \in 0 .. n
    BY <1>1
  <2>2. order[i + 1] \in Unpinned(T) \ FirstOf(order, i)
        /\ FirstOf(order, i + 1) = FirstOf(order, i) \cup {order[i + 1]}
        /\ r[i + 1] = assign(r[i], order[i + 1])
    BY <1>1, <1>3, <2>1
  <2>3. Sound(r[i + 1], T, FirstOf(order, i + 1))
    BY <1>5, <2>2, AssignSound
  <2> QED  BY <2>1, <2>3
<1>6. \A i \in 0 .. n : i \in P
  <2> HIDE DEF P
  <2> QED  BY <1>1, <1>4, <1>5, CountUp
<1>7. FirstOf(order, n) = Unpinned(T)
  BY <1>2 DEF FirstOf
<1> QED  BY <1>3, <1>6, <1>7 DEF n

LEMMA ScheduleSound ==
  ASSUME Inputs, NEW T \in SUBSET Cores
  PROVE  Sound(schedule(T), T, Unpinned(T))
<1>1. PICK order, r : Runs(T, order, r)
  BY ScheduleRuns
<1> DEFINE n == Cardinality(Unpinned(T))
<1>2. n \in 0 .. n /\ r[n] = schedule(T)
  BY <1>1 DEF Runs
<1>3. Sound(r[n], T, FirstOf(order, n)) /\ FirstOf(order, n) = Unpinned(T)
  BY <1>1, <1>2, RunsSound
<1> QED  BY <1>2, <1>3

-----------------------------------------------------------------------------
(* The assignment in place.                                                *)
LEMMA PmdOfIs ==
  ASSUME NEW T \in SUBSET Cores, NEW l, Sound(l, T, Unpinned(T)), NEW q \in Rxqs
  PROVE  /\ q \notin Unpinned(T) => PmdOf(l, q) = affinity[q]
         /\ q \in Unpinned(T) /\ Spare(T) = {} => PmdOf(l, q) = None
         /\ q \in Unpinned(T) /\ Spare(T) # {} =>
              /\ PmdOf(l, q) \in Spare(T)
              /\ (\E x \in Spare(T) : NumaOf[x] = PortNuma[q]) =>
                   NumaOf[PmdOf(l, q)] = PortNuma[q]
         /\ \A p \in T : q \in l.rxqs[p] <=> PmdOf(l, q) = p
<1>1. l.pmds = T /\ None \notin T
  BY ListParts, Nodes DEF Sound
<1>2. ASSUME NEW p \in T, OnlyAt(l, T, q, p) PROVE PmdOf(l, q) = p
  BY <1>1, <1>2 DEF OnlyAt, PmdOf
<1>3. CASE q \notin Unpinned(T)
  <2>1. affinity[q] \in T /\ OnlyAt(l, T, q, affinity[q])
    BY <1>3 DEF Sound, Unpinned
  <2> QED  BY <1>2, <1>3, <2>1 DEF OnlyAt
<1>4. CASE q \in Unpinned(T) /\ Spare(T) = {}
  <2>1. \A x \in T : q \notin l.rxqs[x]
    BY <1>4 DEF Sound
  <2>2. PmdOf(l, q) = None
    BY <1>1, <2>1 DEF PmdOf
  <2> QED  BY <1>1, <1>4, <2>1, <2>2
<1>5. CASE q \in Unpinned(T) /\ Spare(T) # {}
  <2>1. PlacedWell(l, T, q)
    BY <1>5 DEF Sound
  <2>2. PICK p \in Spare(T) :
          /\ OnlyAt(l, T, q, p)
          /\ (\E x \in Spare(T) : NumaOf[x] = PortNuma[q]) => NumaOf[p] = PortNuma[q]
    BY <2>1 DEF PlacedWell
  <2>3. p \in T
    BY DEF Spare
  <2>4. PmdOf(l, q) = p
    BY <1>2, <2>2, <2>3
  <2> QED  BY <1>5, <2>2, <2>3, <2>4 DEF OnlyAt
<1> QED  BY <1>3, <1>4, <1>5

ScheduleTypes ==
  /\ pmd_cmask \in SUBSET Cores /\ pmds \in SUBSET Cores
  /\ algo \in {"roundrobin", "cycles", "group"} /\ pmd_iso \in BOOLEAN
  /\ affinity \in [Rxqs -> Cores \cup {None}] /\ cycles \in [Rxqs -> Nat]
  /\ auto_lb \in BOOLEAN /\ requested \in BOOLEAN /\ is_enabled \in BOOLEAN
  /\ isolated \in [pmds -> BOOLEAN] /\ rxq_pmd \in [Rxqs -> Cores \cup {None}]
  /\ intervals \in [pmds -> 0 .. 2]

(* Rebalancing is on when it would be if it were reviewed now.             *)
Reviewed == is_enabled <=> set_pmd_auto_lb(auto_lb, algo, isolated, rxq_pmd)

SchedInv == ScheduleTypes /\ Reviewed /\ PlacementSound

LEMMA ReconfigureSound ==
  ASSUME ScheduleTypes, reconfigure_datapath
  PROVE  ScheduleTypes' /\ Reviewed' /\ PlacementSound'
<1> DEFINE T == pmd_cmask
           l == schedule(T)
<1>1. Inputs /\ T \in SUBSET Cores
  BY DEF ScheduleTypes, Inputs
<1>2. Sound(l, T, Unpinned(T))
  BY <1>1, ScheduleSound
<1>3. /\ pmds' = T /\ isolated' = l.isolated /\ requested' = FALSE
      /\ rxq_pmd' = [q \in Rxqs |-> PmdOf(l, q)]
      /\ is_enabled' = set_pmd_auto_lb(auto_lb, algo, isolated', rxq_pmd')
      /\ UNCHANGED <<pmd_cmask, algo, pmd_iso, affinity, auto_lb, cycles>>
  BY DEF reconfigure_datapath, config, scheduling
<1>4. intervals' \in [T -> 0 .. 2]
  <2>1. \A p \in T : p \in pmds => intervals[p] \in 0 .. 2
    BY DEF ScheduleTypes
  <2>2. intervals' = [p \in T |->
          IF /\ p \in pmds /\ Cardinality(pmd_cmask) >= Cardinality(pmds)
             /\ l.rxqs[p] \in {{}, {q \in Rxqs : rxq_pmd[q] = p}}
          THEN intervals[p] ELSE 0]
    BY DEF reconfigure_datapath
  <2> QED  BY <2>1, <2>2
<1> HIDE DEF l
<1>5. \A q \in Rxqs :
        /\ q \notin Unpinned(T) => rxq_pmd'[q] = affinity[q]
        /\ q \in Unpinned(T) /\ Spare(T) = {} => rxq_pmd'[q] = None
        /\ q \in Unpinned(T) /\ Spare(T) # {} =>
             /\ rxq_pmd'[q] \in Spare(T)
             /\ (\E x \in Spare(T) : NumaOf[x] = PortNuma[q]) =>
                  NumaOf[rxq_pmd'[q]] = PortNuma[q]
  BY <1>1, <1>2, <1>3, PmdOfIs
<1>6. l.isolated \in [T -> BOOLEAN] /\ \A p \in T : l.isolated[p] <=> Isolates(p)
  BY <1>2, ListParts DEF Sound
<1>7. rxq_pmd' \in [Rxqs -> Cores \cup {None}]
  <2>1. \A q \in Rxqs : rxq_pmd'[q] \in Cores \cup {None}
    BY <1>1, <1>5 DEF Unpinned, Spare
  <2> QED  BY <1>3, <2>1
<1>8. is_enabled' \in BOOLEAN
  BY <1>3 DEF set_pmd_auto_lb
<1>9. ScheduleTypes'
  BY <1>1, <1>3, <1>4, <1>6, <1>7, <1>8 DEF ScheduleTypes
<1>10. Reviewed'
  BY <1>3 DEF Reviewed, set_pmd_auto_lb
<1>11. PlacementSound'
  <2>1. {p \in pmds' : ~isolated'[p]} = Spare(T)
    BY <1>3, <1>6 DEF Spare
  <2>2. \A p \in pmds' : isolated'[p] <=> pmd_iso' /\ \E q \in Rxqs : affinity'[q] = p
    BY <1>3, <1>6 DEF Isolates
  <2>3. ASSUME NEW q \in Rxqs
        PROVE  \/ affinity'[q] \in pmds' /\ rxq_pmd'[q] = affinity'[q]
               \/ /\ affinity'[q] \notin pmds'
                  /\ rxq_pmd'[q] \in (IF Spare(T) = {} THEN {None} ELSE Spare(T))
                  /\ (\E p \in Spare(T) : NumaOf[p] = PortNuma[q]) =>
                       NumaOf[rxq_pmd'[q]] = PortNuma[q]
    BY <1>3, <1>5 DEF Unpinned
  <2> QED  BY <2>1, <2>2, <2>3 DEF PlacementSound
<1> QED  BY <1>9, <1>10, <1>11

LEMMA SchedInvInit == Init => SchedInv
<1> SUFFICES ASSUME Init PROVE SchedInv
  OBVIOUS
<1>1. isolated \in [pmds -> BOOLEAN] /\ intervals \in [pmds -> 0 .. 2]
  BY DEF Init
<1>2. ScheduleTypes
  BY <1>1 DEF Init, ScheduleTypes
<1>3. Reviewed
  BY DEF Init, Reviewed, set_pmd_auto_lb
<1>4. PlacementSound
  BY DEF Init, PlacementSound
<1> QED  BY <1>2, <1>3, <1>4 DEF SchedInv

LEMMA SchedInvStep == SchedInv /\ [Next]_vars => SchedInv'
<1> SUFFICES ASSUME SchedInv, [Next]_vars PROVE SchedInv'
  OBVIOUS
<1> USE DEF SchedInv
<1>1. ASSUME UNCHANGED vars PROVE SchedInv'
  BY <1>1 DEF vars, config, scheduling, placing, ScheduleTypes, Reviewed, set_pmd_auto_lb,
              PlacementSound
<1>2. ASSUME NEW mask \in Masks, NEW how \in {"roundrobin", "cycles", "group"},
             NEW iso \in BOOLEAN, NEW lb \in BOOLEAN, set_config(mask, how, iso, lb)
      PROVE  SchedInv'
  <2>1. /\ pmd_cmask' = mask /\ algo' = how /\ pmd_iso' = (iso \/ how # "group")
        /\ auto_lb' = lb /\ affinity' = affinity
        /\ requested' = (requested \/ scheduling' # scheduling)
        /\ pmds' = pmds /\ isolated' = isolated /\ rxq_pmd' = rxq_pmd
        /\ cycles' = cycles /\ intervals' = intervals
        /\ is_enabled' = set_pmd_auto_lb(lb, how, isolated, rxq_pmd)
    BY <1>2 DEF set_config, configure, placing
  <2>2. ScheduleTypes'
    <3>1. mask \in SUBSET Cores
      BY ScheduleAssumption DEF ScheduleAssumption
    <3>2. pmd_iso' \in BOOLEAN /\ requested' \in BOOLEAN /\ is_enabled' \in BOOLEAN
      BY <2>1 DEF set_pmd_auto_lb
    <3> QED  BY <2>1, <3>1, <3>2 DEF ScheduleTypes
  <2>3. Reviewed'
    BY <2>1 DEF Reviewed, set_pmd_auto_lb
  <2>4. PlacementSound'
    <3>1. CASE requested'
      BY <3>1 DEF PlacementSound
    <3>2. CASE ~requested'
      <4>1. ~requested /\ pmd_iso' = pmd_iso
        BY <2>1, <3>2 DEF scheduling
      <4> QED  BY <2>1, <4>1 DEF PlacementSound
    <3> QED  BY <3>1, <3>2
  <2> QED  BY <2>2, <2>3, <2>4
<1>3. ASSUME NEW cores \in Affinities, set_rxq_affinity(cores) PROVE SchedInv'
  <2>1. /\ affinity' = cores /\ requested' = TRUE
        /\ UNCHANGED <<pmd_cmask, algo, pmd_iso, auto_lb, pmds, isolated, rxq_pmd,
                       is_enabled, cycles, intervals>>
    BY <1>3 DEF set_rxq_affinity, scheduling, placing
  <2>2. cores \in [Rxqs -> Cores \cup {None}]
    BY ScheduleAssumption DEF ScheduleAssumption
  <2> QED  BY <2>1, <2>2 DEF ScheduleTypes, Reviewed, set_pmd_auto_lb, PlacementSound
<1>4. ASSUME NEW p \in pmds, NEW load \in Loads, StoreCycles(p, load) PROVE SchedInv'
  <2>1. /\ cycles' = [q \in Rxqs |-> IF rxq_pmd[q] = p THEN load[q] ELSE cycles[q]]
        /\ intervals' = [intervals EXCEPT ![p] = IF @ < 2 THEN @ + 1 ELSE 2]
        /\ UNCHANGED <<pmd_cmask, algo, pmd_iso, affinity, auto_lb, requested,
                       pmds, isolated, rxq_pmd, is_enabled>>
    BY <1>4 DEF StoreCycles, config, scheduling, placing
  <2>2. cycles' \in [Rxqs -> Nat]
    <3>1. load \in [Rxqs -> Nat]
      BY ScheduleAssumption DEF ScheduleAssumption
    <3> QED  BY <2>1, <3>1 DEF ScheduleTypes
  <2>3. intervals' \in [pmds -> 0 .. 2]
    BY <2>1 DEF ScheduleTypes
  <2> QED  BY <2>1, <2>2, <2>3 DEF ScheduleTypes, Reviewed, set_pmd_auto_lb, PlacementSound
<1>5. ASSUME NEW due \in BOOLEAN, run(due) PROVE SchedInv'
  <2>1. CASE reconfigure_datapath
    BY <2>1, ReconfigureSound
  <2>2. CASE UNCHANGED vars
    BY <2>2, <1>1
  <2> QED  BY <1>5, <2>1, <2>2 DEF run
<1> QED  BY <1>1, <1>2, <1>3, <1>4, <1>5 DEF Next

(* The invariant of scheduling, whatever is configured, measured and put    *)
(* in place (reconfigure_datapath, dpif-netdev.c): the types, what is known *)
(* of the algorithm and the pins that were in force, and the soundness of   *)
(* the placement.                                                           *)
THEOREM ScheduleInvariant == Spec => []SchedInv
BY SchedInvInit, SchedInvStep, PTL DEF Spec

(* PlacementSound: every pinned queue is polled by its thread, every other *)
(* one by a thread that is not isolated if there is one, on its own NUMA   *)
(* node if possible, however the walk over a node's threads meets isolated *)
(* ones (sched_numa_list_schedule, dpif-netdev.c).                         *)
THEOREM PlacementIsSound == Spec => []PlacementSound
<1>1. SchedInv => PlacementSound
  BY DEF SchedInv
<1> QED  BY <1>1, ScheduleInvariant, PTL

-----------------------------------------------------------------------------
(* The dry run.                                                            *)

(* An estimate isolates the threads that are isolated now, and puts the    *)
(* pinned queues where they are.                                           *)
LEMMA EstimateIs ==
  ASSUME SchedInv, ~requested
  PROVE  LET est == schedule(pmds)
         IN  /\ Sound(est, pmds, Unpinned(pmds)) /\ est.pmds = pmds
             /\ est.isolated \in [pmds -> BOOLEAN] /\ est.rxqs \in [pmds -> SUBSET Rxqs]
             /\ \A p \in pmds : (est.isolated[p] <=> isolated[p])
                                /\ (isolated[p] <=> Isolates(p))
<1> DEFINE est == schedule(pmds)
<1>1. Sound(est, pmds, Unpinned(pmds))
  BY ScheduleSound DEF SchedInv, ScheduleTypes, Inputs
<1>2. \A p \in pmds : isolated[p] <=> Isolates(p)
  BY DEF SchedInv, PlacementSound, Isolates
<1> HIDE DEF est
<1>3. /\ est.pmds = pmds /\ est.isolated \in [pmds -> BOOLEAN]
      /\ est.rxqs \in [pmds -> SUBSET Rxqs] /\ \A p \in pmds : est.isolated[p] <=> Isolates(p)
  BY <1>1, ListParts DEF Sound
<1> QED  BY <1>1, <1>2, <1>3 DEF est

LEMMA GroundedFromInv == SchedInv => DryRunGrounded
<1> SUFFICES ASSUME SchedInv, is_enabled PROVE DryRunGrounded
  BY DEF DryRunGrounded
<1> DEFINE spare == {p \in pmds : ~isolated[p]}
           est   == schedule(pmds)
           free  == {p \in pmds : ~est.isolated[p]}
<1>1. auto_lb /\ algo # "roundrobin" /\ Cardinality(spare) > 1
  <2>1. DOMAIN isolated = pmds
    BY DEF SchedInv, ScheduleTypes
  <2> QED  BY <2>1 DEF SchedInv, Reviewed, set_pmd_auto_lb
<1>2. spare # {}
  <2>1. Cardinality({}) = 0
    BY FS_EmptySet
  <2> QED  BY <1>1, <2>1
<1>3. ASSUME ~requested
      PROVE  /\ \A p \in free, q \in Rxqs : q \in est.rxqs[p] => rxq_pmd[q] # None
             /\ cross_numa_polling(est) <=>
                  \E p \in free : \E q \in est.rxqs[p] : NumaOf[p] # PortNuma[q]
  <2>1. /\ Sound(est, pmds, Unpinned(pmds)) /\ est.pmds = pmds
        /\ est.rxqs \in [pmds -> SUBSET Rxqs]
        /\ \A p \in pmds : (est.isolated[p] <=> isolated[p])
                           /\ (isolated[p] <=> Isolates(p))
    BY <1>3, EstimateIs
  <2> HIDE DEF est
  <2>2. free = spare /\ spare = Spare(pmds)
    BY <2>1 DEF Spare
  <2>3. pmds \in SUBSET Cores /\ None \notin pmds
    BY Nodes DEF SchedInv, ScheduleTypes
  <2>4. ASSUME NEW p \in free, NEW q \in Rxqs, q \in est.rxqs[p]
        PROVE  /\ rxq_pmd[q] \in pmds
               /\ NumaOf[rxq_pmd[q]] # PortNuma[q] <=> NumaOf[p] # PortNuma[q]
    <3>1. p \in pmds /\ PmdOf(est, q) = p
      BY <2>1, <2>3, <2>4, PmdOfIs
    <3>2. \/ affinity[q] \in pmds /\ rxq_pmd[q] = affinity[q]
          \/ /\ affinity[q] \notin pmds
             /\ rxq_pmd[q] \in (IF spare = {} THEN {None} ELSE spare)
             /\ (\E x \in spare : NumaOf[x] = PortNuma[q]) => NumaOf[rxq_pmd[q]] = PortNuma[q]
      BY <1>3 DEF SchedInv, PlacementSound
    <3>3. CASE affinity[q] \in pmds
      <4>1. PmdOf(est, q) = affinity[q]
        BY <2>1, <2>3, <3>3, PmdOfIs DEF Unpinned
      <4> QED  BY <3>1, <3>2, <3>3, <4>1
    <3>4. CASE affinity[q] \notin pmds
      <4>1. q \in Unpinned(pmds)
        BY <3>4 DEF Unpinned
      <4>2. rxq_pmd[q] \in spare
            /\ ((\E x \in spare : NumaOf[x] = PortNuma[q]) => NumaOf[rxq_pmd[q]] = PortNuma[q])
        BY <1>2, <3>2, <3>4
      <4>3. p \in spare
            /\ ((\E x \in spare : NumaOf[x] = PortNuma[q]) => NumaOf[p] = PortNuma[q])
        BY <1>2, <2>1, <2>2, <2>3, <3>1, <4>1, PmdOfIs
      <4> QED  BY <4>2, <4>3
    <3> QED  BY <3>3, <3>4
  <2>5. \A p \in free, q \in Rxqs : q \in est.rxqs[p] => rxq_pmd[q] # None
    BY <2>3, <2>4
  <2>6. cross_numa_polling(est) <=>
          \E p \in free : \E q \in est.rxqs[p] : NumaOf[rxq_pmd[q]] # PortNuma[q]
    BY <2>1 DEF cross_numa_polling
  <2>7. \A p \in free : est.rxqs[p] \subseteq Rxqs
    BY <2>1
  <2>8. (\E p \in free : \E q \in est.rxqs[p] : NumaOf[rxq_pmd[q]] # PortNuma[q])
          <=> \E p \in free : \E q \in est.rxqs[p] : NumaOf[p] # PortNuma[q]
    BY <2>4, <2>7
  <2> QED  BY <2>5, <2>6, <2>8
<1> QED  BY <1>1, <1>3 DEF DryRunGrounded

(* DryRunGrounded: while automatic rebalancing is on there are two threads *)
(* to balance between, and the dry run's test for polling across NUMA      *)
(* nodes, which follows the queues' current threads, gives the verdict on  *)
(* the estimated ones (pmd_rebalance_dry_run, dpif-netdev.c).              *)
THEOREM DryRunIsGrounded == Spec => []DryRunGrounded
BY GroundedFromInv, ScheduleInvariant, PTL

(* The variance is a number, and looks at nothing but who polls what.      *)
VarianceOver(P, I, X) ==
  LET busy(p)  == IF intervals[p] < 2 THEN 0
                  ELSE (SumFunctionOnSet(cycles, X[p]) * 100) \div INTERVAL
      measured == {p \in P : ~I[p]}
      n        == Cardinality(measured)
      mean     == SumFunction([p \in measured |-> busy(p)]) \div n
  IN  IF n = 0 THEN 0
      ELSE SumFunction([p \in measured |-> (busy(p) - mean) * (busy(p) - mean)]) \div n

LEMMA VarianceIs == ASSUME NEW l PROVE variance(l) = VarianceOver(l.pmds, l.isolated, l.rxqs)
BY DEF variance, VarianceOver, Busy, Load

LEMMA VarianceIsInt ==
  ASSUME ScheduleTypes, NEW I \in [pmds -> BOOLEAN], NEW X \in [pmds -> SUBSET Rxqs]
  PROVE  VarianceOver(pmds, I, X) \in Int
<1> DEFINE busy(p)  == IF intervals[p] < 2 THEN 0
                       ELSE (SumFunctionOnSet(cycles, X[p]) * 100) \div INTERVAL
           measured == {p \in pmds : ~I[p]}
           n        == Cardinality(measured)
           f        == [p \in measured |-> busy(p)]
           mean     == SumFunction(f) \div n
           g        == [p \in measured |-> (busy(p) - mean) * (busy(p) - mean)]
<1>1. IsFiniteSet(measured) /\ n \in Nat
  <2>1. IsFiniteSet(pmds)
    BY Nodes DEF ScheduleTypes
  <2>2. measured \in SUBSET pmds
    OBVIOUS
  <2> HIDE DEF measured
  <2> QED  BY <2>1, <2>2, FS_Subset, FS_CardinalityType
<1>2. \A p \in measured : busy(p) \in Int
  <2> TAKE p \in measured
  <2>1. INTERVAL \in Nat \ {0}
    BY ScheduleAssumption DEF ScheduleAssumption
  <2>2. SumFunctionOnSet(cycles, X[p]) \in Nat
    BY LoadIsNat DEF ScheduleTypes, Inputs
  <2> QED  BY <2>1, <2>2
<1> HIDE DEF busy, n, measured
<1>3. CASE n = 0
  <2>1. VarianceOver(pmds, I, X) = 0
    BY <1>3 DEF VarianceOver, busy, n, measured
  <2> QED  BY <2>1
<1>4. CASE n # 0
  <2>1. VarianceOver(pmds, I, X) = SumFunction(g) \div n
    BY <1>4 DEF VarianceOver, busy, n, measured
  <2>2. SumFunction(f) \in Int
    <3>1. DOMAIN f = measured /\ \A p \in measured : f[p] \in Int
      BY <1>2
    <3> HIDE DEF f
    <3> QED  BY <1>1, <3>1, SumInt DEF SumFunction
  <2> HIDE DEF f
  <2>3. mean \in Int
    BY <1>1, <1>4, <2>2
  <2> HIDE DEF mean
  <2>4. DOMAIN g = measured /\ \A p \in measured : g[p] \in Int
    BY <1>2, <2>3
  <2> HIDE DEF g
  <2>5. SumFunction(g) \in Int
    BY <1>1, <2>4, SumInt DEF SumFunction
  <2> QED  BY <1>1, <1>4, <2>1, <2>5
<1> QED  BY <1>3, <1>4

LEMMA MovesFromInv == SchedInv => RebalanceMoves
<1> SUFFICES ASSUME SchedInv, is_enabled, ~requested, Misplaced = {}, THRESHOLD > 0,
                    pmd_rebalance_dry_run,
                    \A q \in Rxqs : PmdOf(schedule(pmds), q) = rxq_pmd[q]
             PROVE  FALSE
  BY DEF RebalanceMoves
<1> DEFINE est == schedule(pmds)
           now == assignments
<1>1. /\ Sound(est, pmds, Unpinned(pmds)) /\ est.pmds = pmds
      /\ est.isolated \in [pmds -> BOOLEAN] /\ est.rxqs \in [pmds -> SUBSET Rxqs]
      /\ \A p \in pmds : (est.isolated[p] <=> isolated[p]) /\ (isolated[p] <=> Isolates(p))
  BY EstimateIs
<1>2. pmds \in SUBSET Cores /\ None \notin pmds
  BY Nodes DEF SchedInv, ScheduleTypes
<1> DEFINE polled == [p \in pmds |-> {q \in Rxqs : rxq_pmd[q] = p}]
           iso == [p \in pmds |->
                     pmd_iso /\ \E q \in Rxqs : rxq_pmd[q] = p /\ affinity[q] # None]
<1>3. now.pmds = pmds /\ now.rxqs = polled /\ now.isolated = iso
  BY DEF assignments, populate
<1>4. est.rxqs = polled
  <2>1. \A p \in pmds, q \in Rxqs : q \in est.rxqs[p] <=> rxq_pmd[q] = p
    BY <1>1, <1>2, PmdOfIs
  <2> HIDE DEF est
  <2>2. \A p \in pmds : est.rxqs[p] = {q \in Rxqs : rxq_pmd[q] = p}
    BY <1>1, <2>1
  <2> QED  BY <1>1, <2>2
<1>5. est.isolated = iso
  <2>1. ASSUME NEW q \in Rxqs, NEW p \in pmds
        PROVE  (rxq_pmd[q] = p /\ affinity[q] # None) <=> affinity[q] = p
    <3>1. affinity[q] \in pmds \cup {None}
      BY DEF Misplaced
    <3>2. affinity[q] \in pmds => rxq_pmd[q] = affinity[q]
      BY DEF SchedInv, PlacementSound
    <3> QED  BY <1>2, <3>1, <3>2
  <2>2. \A p \in pmds : (pmd_iso /\ \E q \in Rxqs : rxq_pmd[q] = p /\ affinity[q] # None)
                          <=> Isolates(p)
    BY <2>1 DEF Isolates
  <2>3. iso \in [pmds -> BOOLEAN] /\ \A p \in pmds : iso[p] <=> Isolates(p)
    <3>1. \A p \in pmds :
            (pmd_iso /\ \E q \in Rxqs : rxq_pmd[q] = p /\ affinity[q] # None) \in BOOLEAN
      OBVIOUS
    <3>2. iso \in [pmds -> BOOLEAN]
      BY <3>1
    <3>3. \A p \in pmds : iso[p] = (pmd_iso /\ \E q \in Rxqs : rxq_pmd[q] = p /\ affinity[q] # None)
      OBVIOUS
    <3> HIDE DEF iso
    <3> QED  BY <2>2, <3>2, <3>3
  <2> HIDE DEF est, iso
  <2>4. \A p \in pmds : est.isolated[p] = iso[p]
    BY <1>1, <2>3
  <2> QED  BY <1>1, <2>3, <2>4
<1> HIDE DEF est, now, polled, iso
<1>6. variance(est) = variance(now) /\ variance(est) \in Int
  <2>1. variance(est) = VarianceOver(pmds, est.isolated, est.rxqs)
    BY <1>1, VarianceIs
  <2>2. variance(now) = VarianceOver(pmds, iso, polled)
    BY <1>3, VarianceIs
  <2>3. VarianceOver(pmds, est.isolated, est.rxqs) \in Int
    BY <1>1, VarianceIsInt DEF SchedInv
  <2> QED  BY <1>4, <1>5, <2>1, <2>2, <2>3
<1>7. variance(est) >= variance(now)
  BY <1>6
<1>8. 0 >= THRESHOLD
  BY <1>7 DEF pmd_rebalance_dry_run, est, now
<1> QED  BY <1>8, ScheduleAssumption DEF ScheduleAssumption

(* RebalanceMoves: if the pinned queues are where they are pinned and some *)
(* improvement is required, a dry run that asks for a rebalancing would    *)
(* move a queue: an assignment that changes nothing improves nothing,      *)
(* whatever the loads.                                                     *)
THEOREM RebalancingMoves == Spec => []RebalanceMoves
BY MovesFromInv, ScheduleInvariant, PTL

-----------------------------------------------------------------------------
(* Balance.                                                                *)
Assigned(l, T, p) == {q \in Unpinned(T) : q \in l.rxqs[p]}
Counts(l, T)      == [p \in T |-> Cardinality(Assigned(l, T, p))]

(* roundrobin and cycles: every node's counts are even.                    *)
EvenNodes(l, T) ==
  \A n \in Walked : On(T, n) # {} => Even(Counts(l, T), l, T, n, algo = "cycles")

(* group: without any one of its queues that have work, a thread has no    *)
(* more work than another of its node.                                     *)
LoadsEven(l, T) ==
  \A x, y \in Spare(T) : NumaOf[x] = NumaOf[y] =>
    \A q \in Assigned(l, T, x) : cycles[q] > 0 => Load(l, x) - cycles[q] <= Load(l, y)

EvenList(l, T) == IF algo = "group" THEN LoadsEven(l, T) ELSE EvenNodes(l, T)

LEMMA PinEven ==
  ASSUME Inputs, NEW T \in SUBSET Cores
  PROVE  EvenList(pin(T), T)
<1> DEFINE l == pin(T)
<1>1. /\ Sound(l, T, {}) /\ \A n \in Walked : l.next[n] = 1 /\ l.up[n] = TRUE
      /\ \A p \in T : l.rxqs[p] = {q \in Rxqs : affinity[q] = p}
  BY PinSound
<1> HIDE DEF l
<1>2. \A p \in T : Assigned(l, T, p) = {}
  BY <1>1 DEF Assigned, Unpinned
<1>3. LoadsEven(l, T)
  BY <1>2 DEF LoadsEven, Spare
<1>4. EvenNodes(l, T)
  <2> SUFFICES ASSUME NEW n \in Walked, On(T, n) # {}
               PROVE  Even(Counts(l, T), l, T, n, algo = "cycles")
    BY DEF EvenNodes
  <2> DEFINE m == Cardinality(On(T, n))
             core == CoresOn(T, n)
  <2>1. core \in [1 .. m -> On(T, n)]
    BY CoresOfNode
  <2>2. On(T, n) \in SUBSET T /\ m \in Nat
    BY Nodes
  <2>3. \A p \in T : Counts(l, T)[p] = 0
    BY <1>2, FS_EmptySet DEF Counts
  <2> HIDE DEF m, core
  <2>4. \A j \in 1 .. m : Counts(l, T)[core[j]] = 0 + Passed(j, l.next[n], l.up[n])
    <3> TAKE j \in 1 .. m
    <3>1. core[j] \in T
      BY <2>1, <2>2
    <3>2. Passed(j, l.next[n], l.up[n]) = 0
      BY <1>1, <2>2 DEF Passed
    <3> QED  BY <2>3, <3>1, <3>2
  <2> QED  BY <1>1, <2>4 DEF Even, m, core
<1>5. EvenList(l, T)
  BY <1>3, <1>4 DEF EvenList
<1> QED  BY <1>5 DEF l

LEMMA AssignEven ==
  ASSUME Inputs, NEW T \in SUBSET Cores, NEW done, NEW l, Sound(l, T, done), EvenList(l, T),
         NEW q \in Unpinned(T), q \notin done,
         algo = "group" => \A o \in done : cycles[o] >= cycles[q]
  PROVE  EvenList(assign(l, q), T)
<1> DEFINE a == assign(l, q)
<1>1. /\ l \in Lists(T) /\ q \in Rxqs /\ \A p \in T : l.isolated[p] <=> Isolates(p)
      /\ \A x \in T : q \notin l.rxqs[x]
  BY DEF Sound, Unpinned
<1>2. \A o : Available(l, o) = {p \in Spare(T) : NumaOf[p] = o}
  BY <1>1, ListParts DEF Available, On, Spare
<1>3. CASE a = l
  BY <1>3
<1>4. ASSUME NEW p \in T, ~l.isolated[p], Placing(T, l, a, q, p)
      PROVE  EvenList(a, T)
  <2> HIDE DEF a
  <2>1. /\ a \in Lists(T) /\ a.isolated = l.isolated
        /\ a.rxqs = [l.rxqs EXCEPT ![p] = @ \cup {q}]
    BY <1>4 DEF Placing
  <2>2. l.rxqs \in [T -> SUBSET Rxqs] /\ l.isolated \in [T -> BOOLEAN]
    BY <1>1, ListParts
  <2>3. /\ a.rxqs[p] = l.rxqs[p] \cup {q}
        /\ \A x \in T \ {p} : a.rxqs[x] = l.rxqs[x]
    BY <2>1, <2>2
  <2>4. /\ Assigned(a, T, p) = Assigned(l, T, p) \cup {q} /\ q \notin Assigned(l, T, p)
        /\ \A x \in T \ {p} : Assigned(a, T, x) = Assigned(l, T, x)
    BY <1>1, <2>3 DEF Assigned
  <2>5. \A x \in T : IsFiniteSet(Assigned(l, T, x)) /\ Cardinality(Assigned(l, T, x)) \in Nat
    <3> TAKE x \in T
    <3>1. Assigned(l, T, x) \in SUBSET Rxqs
      BY DEF Assigned, Unpinned
    <3> QED  BY <3>1, LoadIsNat
  <2>6. CASE algo # "group"
    <3>1. Counts(a, T) = More(Counts(l, T), p) /\ Counts(l, T) \in [T -> Nat]
      <4>1. Cardinality(Assigned(a, T, p)) = Cardinality(Assigned(l, T, p)) + 1
        <5> DEFINE S == Assigned(l, T, p)
        <5>1. IsFiniteSet(S) /\ q \notin S /\ Assigned(a, T, p) = S \cup {q}
          BY <2>4, <2>5
        <5> HIDE DEF S
        <5>2. Cardinality(S \cup {q}) = Cardinality(S) + 1
          BY <5>1, FS_AddElement
        <5>3. Cardinality(Assigned(a, T, p)) = Cardinality(S) + 1
          BY <5>1, <5>2
        <5> QED  BY <5>3 DEF S
      <4>2. Counts(l, T) \in [T -> Nat]
        BY <2>5 DEF Counts
      <4>3. \A x \in T : Counts(a, T)[x] = More(Counts(l, T), p)[x]
        BY <2>4, <4>1 DEF Counts, More
      <4>4. More(Counts(l, T), p) = [x \in T |-> More(Counts(l, T), p)[x]]
        BY <4>2 DEF More
      <4>5. Counts(a, T) = [x \in T |-> Counts(a, T)[x]]
        BY DEF Counts
      <4> QED  BY <4>2, <4>3, <4>4, <4>5
    <3>2. ASSUME NEW n \in Walked, On(T, n) # {}
          PROVE  Even(Counts(a, T), a, T, n, algo = "cycles")
      <4>1. Even(Counts(l, T), l, T, n, algo = "cycles")
        BY <2>6, <3>2 DEF EvenList, EvenNodes
      <4>2. CASE n = NumaOf[p]
        BY <1>4, <2>6, <3>1, <4>1, <4>2 DEF Placing
      <4>3. CASE n # NumaOf[p]
        <5>1. a.next[n] = l.next[n] /\ a.up[n] = l.up[n]
          BY <1>4, <4>3 DEF Placing
        <5>2. \A j \in 1 .. Cardinality(On(T, n)) :
                CoresOn(T, n)[j] \in T /\ CoresOn(T, n)[j] # p
          <6>1. CoresOn(T, n) \in [1 .. Cardinality(On(T, n)) -> On(T, n)]
            BY CoresOfNode
          <6> QED  BY <6>1, <4>3 DEF On
        <5>3. \A x \in T \ {p} : Counts(a, T)[x] = Counts(l, T)[x]
          BY <2>4 DEF Counts
        <5> QED  BY <2>1, <4>1, <5>1, <5>2, <5>3 DEF Even
      <4> QED  BY <4>2, <4>3
    <3> QED  BY <2>6, <3>2 DEF EvenList, EvenNodes
  <2>7. CASE algo = "group"
    <3>1. \A x \in T : Load(l, x) \in Nat /\ l.rxqs[x] \in SUBSET Rxqs
      BY <2>2, LoadIsNat DEF Load
    <3>2. \A o \in Rxqs : cycles[o] \in Nat
      BY DEF Inputs
    <3>3. Load(a, p) = cycles[q] + Load(l, p)
      <4>1. IsFiniteSet(l.rxqs[p]) /\ q \notin l.rxqs[p]
            /\ \A o \in l.rxqs[p] : cycles[o] \in Int
        BY <1>1, <3>1, <3>2, LoadIsNat
      <4>2. cycles[q] \in Int
        BY <1>1, <3>2
      <4>3. SumFunctionOnSet(cycles, l.rxqs[p] \cup {q})
              = cycles[q] + SumFunctionOnSet(cycles, l.rxqs[p])
        BY <4>1, <4>2, SumWith
      <4> QED  BY <2>3, <4>3 DEF Load
    <3>4. \A x \in T \ {p} : Load(a, x) = Load(l, x)
      BY <2>3 DEF Load
    <3>5. LoadsEven(l, T)
      BY <2>7 DEF EvenList
    <3>6. ASSUME NEW x \in Spare(T), NEW y \in Spare(T), NumaOf[x] = NumaOf[y],
                 NEW o \in Assigned(a, T, x), cycles[o] > 0
          PROVE  Load(a, x) - cycles[o] <= Load(a, y)
      <4>1. x \in T /\ y \in T /\ o \in Rxqs
        BY DEF Spare, Assigned, Unpinned
      <4>2. /\ cycles[o] \in Nat /\ cycles[q] \in Nat /\ Load(l, x) \in Nat
            /\ Load(l, y) \in Nat /\ Load(l, p) \in Nat
        BY <1>1, <3>1, <3>2, <4>1
      <4>3. CASE x = y
        <5>1. Load(a, x) \in Nat
          BY <3>3, <3>4, <4>1, <4>2
        <5> QED  BY <4>2, <4>3, <5>1
      <4>4. CASE x = p /\ y # p
        <5>1. Load(a, x) = cycles[q] + Load(l, p) /\ Load(a, y) = Load(l, y)
          BY <3>3, <3>4, <4>1, <4>4
        <5>2. cycles[o] >= cycles[q]
          <6>1. o = q \/ o \in Assigned(l, T, p)
            BY <2>4, <4>4
          <6>2. o \in Assigned(l, T, p) => o \in done
            BY DEF Assigned, Sound
          <6> QED  BY <2>7, <4>2, <6>1, <6>2
        <5>3. CASE cycles[q] > 0
          <6>1. y \in Available(l, NumaOf[p])
            BY <1>2, <3>6, <4>4
          <6>2. Load(l, p) <= Load(l, y)
            BY <1>4, <2>7, <5>3, <6>1 DEF Placing
          <6> QED  BY <4>2, <5>1, <5>2, <6>2
        <5>4. CASE cycles[q] = 0
          <6>1. o \in Assigned(l, T, x)
            BY <2>4, <3>6, <4>2, <4>4, <5>4
          <6>2. Load(l, x) - cycles[o] <= Load(l, y)
            BY <3>5, <3>6, <6>1 DEF LoadsEven
          <6> QED  BY <4>2, <4>4, <5>1, <5>4, <6>2
        <5> QED  BY <4>2, <5>3, <5>4
      <4>5. CASE x # p
        <5>1. o \in Assigned(l, T, x) /\ Load(a, x) = Load(l, x)
          BY <2>4, <3>4, <4>1, <4>5
        <5>2. Load(l, x) - cycles[o] <= Load(l, y)
          BY <3>5, <3>6, <5>1 DEF LoadsEven
        <5>3. Load(a, y) \in Nat /\ Load(l, y) <= Load(a, y)
          BY <3>3, <3>4, <4>1, <4>2
        <5> QED  BY <4>2, <5>1, <5>2, <5>3
      <4> QED  BY <4>3, <4>4, <4>5
    <3> QED  BY <2>7, <3>6 DEF EvenList, LoadsEven
  <2> QED  BY <2>6, <2>7
<1>5. a = l \/ \E p \in T : ~l.isolated[p] /\ Placing(T, l, a, q, p)
  BY <1>1, AssignPlaces
<1> HIDE DEF a
<1>6. EvenList(a, T)
  BY <1>3, <1>4, <1>5
<1> QED  BY <1>6 DEF a

LEMMA ScheduleEven ==
  ASSUME Inputs, NEW T \in SUBSET Cores
  PROVE  EvenList(schedule(T), T)
<1>1. PICK order, r : Runs(T, order, r)
  BY ScheduleRuns
<1> DEFINE n == Cardinality(Unpinned(T))
           P == {i \in 0 .. n : EvenList(r[i], T)}
<1>2. /\ n \in Nat /\ r[0] = pin(T) /\ r[n] = schedule(T)
      /\ \A i \in 1 .. n : r[i] = assign(r[i - 1], order[i])
      /\ \A i, j \in 1 .. n : <<order[i], order[j]>> \in RxqOrder(Unpinned(T)) <=> i < j
  BY <1>1 DEF Runs, Sorts
<1>3. /\ \A i \in 0 .. n : Sound(r[i], T, FirstOf(order, i))
      /\ \A i \in 1 .. n : order[i] \in Unpinned(T) \ FirstOf(order, i - 1)
  BY <1>1, RunsSound
<1> HIDE DEF n
<1>4. 0 \in P
  BY <1>2, PinEven
<1>5. ASSUME NEW i \in 0 .. n - 1, i \in P PROVE i + 1 \in P
  <2>1. i + 1 \in 1 .. n /\ (i + 1) - 1 = i /\ i \in 0 .. n /\ i + 1 \in 0 .. n
    BY <1>2
  <2> DEFINE q == order[i + 1]
             done == FirstOf(order, i)
  <2>2. r[i + 1] = assign(r[i], q) /\ q \in Unpinned(T) \ done /\ Sound(r[i], T, done)
    BY <1>2, <1>3, <2>1
  <2>3. ASSUME algo = "group", NEW o \in done PROVE cycles[o] >= cycles[q]
    <3>1. PICK j \in 1 .. i : o = order[j]
      BY DEF FirstOf
    <3>2. j \in 1 .. n /\ j < i + 1
      BY <1>2, <2>1
    <3>3. <<o, q>> \in RxqOrder(Unpinned(T))
      BY <1>2, <2>1, <3>1, <3>2
    <3>4. compare_rxq_cycles(o, q) /\ o \in Rxqs /\ q \in Rxqs
      BY <2>3, <3>3 DEF RxqOrder, Unpinned
    <3>5. cycles[o] \in Nat /\ cycles[q] \in Nat
      BY <3>4 DEF Inputs
    <3> QED  BY <3>4, <3>5 DEF compare_rxq_cycles
  <2> HIDE DEF q, done
  <2>4. EvenList(r[i + 1], T)
    BY <1>5, <2>2, <2>3, AssignEven
  <2> QED  BY <2>1, <2>4
<1>6. n \in P
  <2> HIDE DEF P
  <2>1. \A i \in 0 .. n : i \in P
    BY <1>2, <1>4, <1>5, CountUp
  <2> QED  BY <1>2, <2>1
<1> QED  BY <1>2, <1>6

LEMMA ReconfigureBalances ==
  ASSUME ScheduleTypes, reconfigure_datapath
  PROVE  BalancedPlacement'
<1> DEFINE T == pmd_cmask
           l == schedule(T)
<1>1. Inputs /\ T \in SUBSET Cores
  BY DEF ScheduleTypes, Inputs
<1>2. Sound(l, T, Unpinned(T)) /\ EvenList(l, T)
  BY <1>1, ScheduleSound, ScheduleEven
<1>3. /\ pmds' = T /\ isolated' = l.isolated
      /\ rxq_pmd' = [q \in Rxqs |-> PmdOf(l, q)]
      /\ UNCHANGED <<algo, affinity, cycles>>
  BY DEF reconfigure_datapath, config, scheduling
<1> HIDE DEF l
<1>4. /\ l \in Lists(T) /\ l.rxqs \in [T -> SUBSET Rxqs]
      /\ \A p \in T : l.isolated[p] <=> Isolates(p)
      /\ \A q \in Rxqs \ Unpinned(T) : OnlyAt(l, T, q, affinity[q])
  BY <1>2, ListParts DEF Sound
<1>5. ASSUME NEW p \in T
      PROVE  /\ {q \in Rxqs : rxq_pmd'[q] = p} = l.rxqs[p]
             /\ Placed(p)' = Assigned(l, T, p)
             /\ Working(p)' = {q \in Assigned(l, T, p) : cycles[q] > 0}
             /\ Work(p)' = Load(l, p) /\ Load(l, p) \in Nat
  <2>1. \A q \in Rxqs : rxq_pmd'[q] = p <=> q \in l.rxqs[p]
    BY <1>1, <1>2, <1>3, PmdOfIs
  <2>2. {q \in Rxqs : rxq_pmd'[q] = p} = l.rxqs[p]
    BY <1>4, <2>1
  <2>3. Placed(p)' = {q \in Rxqs : rxq_pmd'[q] = p /\ affinity[q] # p}
    BY <1>3 DEF Placed
  <2>4. \A q \in Rxqs : (q \in l.rxqs[p] /\ affinity[q] # p) <=> q \in Assigned(l, T, p)
    BY <1>4 DEF Assigned, Unpinned, OnlyAt
  <2>5. Placed(p)' = Assigned(l, T, p)
    BY <2>1, <2>3, <2>4 DEF Assigned, Unpinned
  <2>6. Working(p)' = {q \in Assigned(l, T, p) : cycles[q] > 0}
    BY <1>3, <2>5 DEF Working
  <2>7. Work(p)' = SumFunctionOnSet(cycles, {q \in Rxqs : rxq_pmd'[q] = p})
    BY <1>3 DEF Work
  <2>8. Load(l, p) \in Nat
    BY <1>1, <1>4, LoadIsNat DEF Load
  <2> QED  BY <2>2, <2>5, <2>6, <2>7, <2>8 DEF Load
<1>6. ASSUME NEW x \in T, NEW y \in T, ~l.isolated[x], ~l.isolated[y], NumaOf[x] = NumaOf[y]
      PROVE  Balanced(x, y)'
  <2>1. CASE algo = "group"
    <3>1. ASSUME Working(x)' # {} PROVE Work(x)' - Least(x)' <= Work(y)'
      <4> DEFINE C == {cycles[q] : q \in Working(x)'}
      <4>1. C \in SUBSET Nat /\ C # {}
        BY <1>1, <1>5, <3>1 DEF Inputs, Assigned, Unpinned
      <4>2. Least(x)' = Min(C)
        BY <1>3 DEF Least
      <4>3. Min(C) \in C
        <5> HIDE DEF C
        <5> QED  BY <4>1, MinOfSome
      <4>4. PICK q \in Working(x)' : Least(x)' = cycles[q]
        BY <4>2, <4>3
      <4>5. q \in Assigned(l, T, x) /\ cycles[q] > 0
        BY <1>5
      <4>6. x \in Spare(T) /\ y \in Spare(T)
        BY <1>4, <1>6 DEF Spare
      <4>7. Load(l, x) - cycles[q] <= Load(l, y)
        BY <1>2, <1>6, <2>1, <4>5, <4>6 DEF EvenList, LoadsEven
      <4> QED  BY <1>5, <4>4, <4>7
    <3>2. algo' = "group"
      BY <1>3, <2>1
    <3> QED  BY <3>1, <3>2 DEF Balanced
  <2>2. CASE algo # "group"
    <3> DEFINE n == NumaOf[x]
               m == Cardinality(On(T, n))
               core == CoresOn(T, n)
    <3>1. x \in On(T, n) /\ y \in On(T, n) /\ n \in Walked
      BY <1>1, <1>6, Nodes DEF On
    <3>2. Even(Counts(l, T), l, T, n, algo = "cycles")
      BY <1>2, <2>2, <3>1 DEF EvenList, EvenNodes
    <3>3. PICK c \in Nat : \A j \in 1 .. m : ~l.isolated[core[j]] =>
            Counts(l, T)[core[j]] = c + Passed(j, l.next[n], l.up[n])
      BY <3>2 DEF Even
    <3>4. \A p \in On(T, n) : \E j \in 1 .. m : core[j] = p
      BY <1>1, CoresOfNode
    <3>5. PICK i \in 1 .. m, j \in 1 .. m : core[i] = x /\ core[j] = y
      BY <3>1, <3>4
    <3> HIDE DEF core, m
    <3>6. /\ Counts(l, T)[x] = c + Passed(i, l.next[n], l.up[n])
          /\ Counts(l, T)[y] = c + Passed(j, l.next[n], l.up[n])
      BY <1>6, <3>3, <3>5
    <3>7. \A k : Passed(k, l.next[n], l.up[n]) \in {0, 1}
      BY DEF Passed
    <3>8. Counts(l, T)[x] <= Counts(l, T)[y] + 1
      BY <3>6, <3>7
    <3>9. Cardinality(Placed(x)') <= Cardinality(Placed(y)') + 1
      BY <1>5, <3>8 DEF Counts
    <3>10. algo' # "group"
      BY <1>3, <2>2
    <3> QED  BY <3>9, <3>10 DEF Balanced
  <2> QED  BY <2>1, <2>2
<1> QED  BY <1>3, <1>6 DEF BalancedPlacement

LEMMA MovesBalanceStep == SchedInv /\ [Next]_vars => (rxq_pmd' # rxq_pmd => BalancedPlacement')
<1> SUFFICES ASSUME SchedInv, [Next]_vars, rxq_pmd' # rxq_pmd PROVE BalancedPlacement'
  OBVIOUS
<1>1. reconfigure_datapath
  BY DEF Next, vars, placing, set_config, configure, set_rxq_affinity, StoreCycles, run
<1> QED  BY <1>1, ReconfigureBalances DEF SchedInv

(* MovesBalance: a step that moves queues leaves the threads of every NUMA *)
(* node balanced: by number of queues with roundrobin and cycles, whatever *)
(* isolated threads the walk steps over and wherever it turns; by work     *)
(* with group, up to the smallest queue a thread was given.                *)
THEOREM MovesAreBalanced == Spec => MovesBalance
BY SchedInvStep, MovesBalanceStep, ScheduleInvariant, PTL DEF MovesBalance, Spec

=============================================================================
