----------------------------- MODULE FoldLemmas -----------------------------
(***************************************************************************)
(* Induction, recursion and sums over finite sets, for the proofs.  The    *)
(* library's induction theorems take an operator as a parameter; here what *)
(* is to be shown for every number or set is that it is an element of a    *)
(* set, and the body of a fold is a function.                              *)
(***************************************************************************)
EXTENDS Integers, FiniteSetsExt, Functions, FiniteSetTheorems, WellFoundedInduction, TLAPS

-----------------------------------------------------------------------------
(* Induction.                                                              *)

LEMMA CountUp ==
  ASSUME NEW n \in Nat, NEW P, 0 \in P,
         \A i \in 0 .. n - 1 : i \in P => i + 1 \in P
  PROVE  \A i \in 0 .. n : i \in P
<1> DEFINE T == {i \in Nat : i <= n /\ i \notin P}
<1>1. SUFFICES ASSUME T # {} PROVE FALSE
  OBVIOUS
<1>2. PICK t \in T : \A y \in T : ~(<<y, t>> \in OpToRel(<, Nat))
  BY <1>1, NatLessThanWellFounded, WFMin
<1>2a. \A y \in T : ~(y < t)
  BY <1>2 DEF OpToRel
<1>3. t \in Nat /\ t <= n /\ t \notin P /\ t # 0
  OBVIOUS
<1>4. t - 1 \in Nat /\ t - 1 \in 0 .. n - 1 /\ (t - 1) + 1 = t
  BY <1>3
<1>5. t - 1 \notin P
  BY <1>3, <1>4
<1>6. t - 1 \in T
  BY <1>3, <1>4, <1>5
<1> QED  BY <1>2a, <1>3, <1>4, <1>6

LEMMA SubsetSizes ==
  ASSUME NEW S, IsFiniteSet(S)
  PROVE  /\ Cardinality(S) \in Nat
         /\ \A s \in SUBSET S : IsFiniteSet(s) /\ Cardinality(s) \in 0 .. Cardinality(S)
<1>1. Cardinality(S) \in Nat
  BY FS_CardinalityType
<1>2. ASSUME NEW s \in SUBSET S
      PROVE  IsFiniteSet(s) /\ Cardinality(s) <= Cardinality(S) /\ Cardinality(s) \in Nat
  <2>1. IsFiniteSet(s) /\ Cardinality(s) <= Cardinality(S)
    BY FS_Subset
  <2> QED  BY <2>1, FS_CardinalityType
<1> QED  BY <1>1, <1>2

(* A set is reached when it is from all sets with an element less.         *)
LEMMA SubsetInduction ==
  ASSUME NEW S, IsFiniteSet(S), NEW P,
         \A s \in SUBSET S : (\A x \in s : s \ {x} \in P) => s \in P
  PROVE  \A s \in SUBSET S : s \in P
<1> DEFINE n == Cardinality(S)
           Up == {i \in 0 .. n : \A s \in SUBSET S : Cardinality(s) <= i => s \in P}
<1>1. n \in Nat /\ \A s \in SUBSET S : IsFiniteSet(s) /\ Cardinality(s) \in 0 .. n
  BY SubsetSizes
<1>2. 0 \in Up
  <2>1. ASSUME NEW s \in SUBSET S, Cardinality(s) <= 0 PROVE s \in P
    <3>1. s = {}
      BY <2>1, <1>1, FS_EmptySet
    <3> QED  BY <3>1
  <2> QED  BY <2>1, <1>1
<1>3. \A i \in 0 .. n - 1 : i \in Up => i + 1 \in Up
  <2> SUFFICES ASSUME NEW i \in 0 .. n - 1, i \in Up,
                      NEW s \in SUBSET S, Cardinality(s) <= i + 1
               PROVE  s \in P
    BY <1>1
  <2>1. ASSUME NEW x \in s PROVE s \ {x} \in P
    <3>1. Cardinality(s \ {x}) = Cardinality(s) - 1 /\ s \ {x} \in SUBSET S
      BY <1>1, FS_RemoveElement
    <3>2. Cardinality(s \ {x}) <= i
      BY <3>1, <1>1
    <3> QED  BY <3>1, <3>2
  <2> QED  BY <2>1
<1> HIDE DEF Up
<1>4. n \in Up
  BY <1>1, <1>2, <1>3, CountUp
<1> QED  BY <1>4, <1>1 DEF Up

-----------------------------------------------------------------------------
(* Recursion: the fold of F over a set, which takes the elements in the    *)
(* order that c chooses them, is there and stays in V.                     *)
FoldOf(S, V, base, c, F) ==
  {g \in [SUBSET S -> V] : \A s \in SUBSET S :
     g[s] = IF s = {} THEN base ELSE F[<<c[s], g[s \ {c[s]}]>>]}

LEMMA FoldExists ==
  ASSUME NEW S, IsFiniteSet(S), NEW V, NEW base \in V,
         NEW c, \A s \in SUBSET S : s # {} => c[s] \in s,
         NEW F, \A x \in S, v \in V : F[<<x, v>>] \in V
  PROVE  FoldOf(S, V, base, c, F) # {}
<1> DEFINE n == Cardinality(S)
           Level(i) == {s \in SUBSET S : Cardinality(s) <= i}
           Eq(g, s) == g[s] = IF s = {} THEN base ELSE F[<<c[s], g[s \ {c[s]}]>>]
           Done(i) == \E g \in [Level(i) -> V] : \A s \in Level(i) : Eq(g, s)
           Up == {i \in 0 .. n : Done(i)}
<1>1. n \in Nat /\ \A s \in SUBSET S : IsFiniteSet(s) /\ Cardinality(s) \in 0 .. n
  BY SubsetSizes
<1>2. \A s \in SUBSET S : s # {} =>
        s \ {c[s]} \in SUBSET S /\ Cardinality(s \ {c[s]}) = Cardinality(s) - 1
  BY <1>1, FS_RemoveElement
<1>3. 0 \in Up
  <2>1. \A s \in Level(0) : s = {}
    BY <1>1, FS_EmptySet
  <2>2. [s \in Level(0) |-> base] \in [Level(0) -> V]
        /\ \A s \in Level(0) : Eq([t \in Level(0) |-> base], s)
    BY <2>1
  <2>3. Done(0)
    <3> HIDE DEF Level, Eq
    <3> QED  BY <2>2
  <2> HIDE DEF Done
  <2> QED  BY <2>3, <1>1
<1>4. \A i \in 0 .. n - 1 : i \in Up => i + 1 \in Up
  <2> SUFFICES ASSUME NEW i \in 0 .. n - 1, i \in Up PROVE i + 1 \in Up
    OBVIOUS
  <2>1. PICK g \in [Level(i) -> V] : \A s \in Level(i) : Eq(g, s)
    OBVIOUS
  <2>2. i \in Nat /\ i + 1 \in 0 .. n
    BY <1>1
  <2> DEFINE h == [s \in Level(i + 1) |->
                     IF s = {} THEN base ELSE F[<<c[s], g[s \ {c[s]}]>>]]
  <2>3. \A s \in Level(i + 1) : s # {} => s \ {c[s]} \in Level(i) /\ c[s] \in S
    BY <1>1, <1>2, <2>2
  <2>4. h \in [Level(i + 1) -> V]
    BY <2>3
  <2>5. \A s \in Level(i) : s \in Level(i + 1) /\ h[s] = g[s]
    <3> TAKE s \in Level(i)
    <3>1. s \in Level(i + 1)
      BY <1>1, <2>2
    <3>2. Eq(g, s)
      BY <2>1
    <3> QED  BY <3>1, <3>2
  <2>6. \A s \in Level(i + 1) : Eq(h, s)
    <3> TAKE s \in Level(i + 1)
    <3>1. CASE s = {}
      BY <3>1
    <3>2. CASE s # {}
      BY <3>2, <2>3, <2>5
    <3> QED  BY <3>1, <3>2
  <2> QED  BY <2>2, <2>4, <2>6
<1> HIDE DEF Up
<1>5. n \in Up
  BY <1>1, <1>3, <1>4, CountUp
<1>6. Level(n) = SUBSET S
  BY <1>1
<1> QED  BY <1>5, <1>6 DEF Up, FoldOf

LEMMA MaxOfSome ==
  ASSUME NEW n \in Nat, NEW s \in SUBSET (1 .. n), s # {}
  PROVE  Max(s) \in s /\ \A y \in s : Max(s) >= y
<1> DEFINE T == {n - x : x \in s}
<1>0. ASSUME NEW x \in s PROVE n - x \in Nat
  <2>1. x \in 1 .. n
    OBVIOUS
  <2> QED  BY <2>1
<1>1. T \subseteq Nat /\ T # {}
  <2>1. PICK x \in s : TRUE
    OBVIOUS
  <2>2. n - x \in T
    OBVIOUS
  <2> QED  BY <1>0, <2>2
<1>2a. PICK t \in T : \A y \in T : ~(<<y, t>> \in OpToRel(<, Nat))
  BY <1>1, NatLessThanWellFounded, WFMin
<1>2. \A y \in T : ~(y < t)
  BY <1>1, <1>2a DEF OpToRel
<1>3. PICK m \in s : t = n - m
  OBVIOUS
<1>4. \A y \in s : m >= y
  <2> TAKE y \in s
  <2>1. n - y \in T /\ n - y \in Nat /\ y \in Nat /\ m \in Nat /\ t \in Nat
    BY <1>0, <1>1
  <2>2. ~(n - y < n - m)
    BY <1>2, <1>3, <2>1
  <2> QED  BY <2>1, <2>2
<1> QED  BY <1>4 DEF Max

LEMMA MinOfSome ==
  ASSUME NEW s \in SUBSET Nat, s # {}
  PROVE  Min(s) \in s /\ \A y \in s : Min(s) <= y
<1>1. PICK t \in s : \A y \in s : ~(<<y, t>> \in OpToRel(<, Nat))
  BY NatLessThanWellFounded, WFMin
<1>2. \A y \in s : ~(y < t)
  BY <1>1 DEF OpToRel
<1>3. \A y \in s : t <= y
  BY <1>2
<1> QED  BY <1>3 DEF Min

(* The same for a fold from left to right over n things.                   *)
RunOf(n, V, base, F) ==
  {g \in [SUBSET (1 .. n) -> V] : \A s \in SUBSET (1 .. n) :
     g[s] = IF s = {} THEN base ELSE F[<<Max(s), g[s \ {Max(s)}]>>]}

LEMMA RunExists ==
  ASSUME NEW n \in Nat, NEW V, NEW base \in V,
         NEW F, \A i \in 1 .. n, v \in V : F[<<i, v>>] \in V
  PROVE  RunOf(n, V, base, F) # {}
<1> DEFINE S == 1 .. n
           c == [s \in SUBSET S |-> Max(s)]
<1>1. IsFiniteSet(S)
  BY FS_Interval
<1>2. \A s \in SUBSET S : s # {} => Max(s) \in s
  BY MaxOfSome
<1>3. \A s \in SUBSET S : s # {} => c[s] \in s
  BY <1>2
<1>4. \E g \in [SUBSET S -> V] : \A s \in SUBSET S :
        g[s] = IF s = {} THEN base ELSE F[<<c[s], g[s \ {c[s]}]>>]
  <2>1. \A x \in S, v \in V : F[<<x, v>>] \in V
    OBVIOUS
  <2> HIDE DEF c, S
  <2>2. FoldOf(S, V, base, c, F) # {}
    BY <2>1, <1>1, <1>3, FoldExists
  <2> QED  BY <2>2 DEF FoldOf
<1> QED  BY <1>4 DEF RunOf

(* The last of the first i is the i-th.                                    *)
LEMMA LastOf ==
  ASSUME NEW i \in Nat \ {0}
  PROVE  Max(1 .. i) = i /\ (1 .. i) \ {i} = 1 .. (i - 1)
<1>1. i \in 1 .. i /\ \A y \in 1 .. i : i >= y
  OBVIOUS
<1>2. \A m \in 1 .. i : (\A y \in 1 .. i : m >= y) => m = i
  BY <1>1
<1> QED  BY <1>1, <1>2 DEF Max

-----------------------------------------------------------------------------
(* Sums.  Which element is added first does not matter.                    *)
PickOf(s) == CHOOSE x \in s : TRUE

SumStep(f, g, s) == IF s = {} THEN 0 ELSE f[PickOf(s)] + g[s \ {PickOf(s)}]

LEMMA SumsOfSubsets ==
  ASSUME NEW S, IsFiniteSet(S), NEW f, \A x \in S : f[x] \in Int
  PROVE  \E g \in [SUBSET S -> Int] : \A s \in SUBSET S :
           g[s] = SumFunctionOnSet(f, s) /\ g[s] = SumStep(f, g, s)
<1> DEFINE Fix(T, g) == g = [s \in SUBSET T |-> SumStep(f, g, s)]
<1>1. ASSUME NEW T \in SUBSET S
      PROVE  \E g \in [SUBSET T -> Int] : Fix(T, g)
  <2> DEFINE c == [s \in SUBSET T |-> PickOf(s)]
             F == [p \in T \X Int |-> f[p[1]] + p[2]]
  <2>1. \A s \in SUBSET T : s # {} => c[s] \in s
    BY DEF PickOf
  <2>2. \A x \in T, v \in Int : F[<<x, v>>] \in Int /\ F[<<x, v>>] = f[x] + v
    OBVIOUS
  <2>3. IsFiniteSet(T)
    BY FS_Subset
  <2>4. PICK g \in [SUBSET T -> Int] : \A s \in SUBSET T :
          g[s] = IF s = {} THEN 0 ELSE F[<<c[s], g[s \ {c[s]}]>>]
    <3> HIDE DEF c, F
    <3>0. 0 \in Int /\ \A x \in T, v \in Int : F[<<x, v>>] \in Int
      BY <2>2
    <3>1. FoldOf(T, Int, 0, c, F) # {}
      BY <3>0, <2>1, <2>3, FoldExists
    <3> QED  BY <3>1 DEF FoldOf
  <2>5. \A s \in SUBSET T : g[s] = SumStep(f, g, s)
    <3> TAKE s \in SUBSET T
    <3>1. CASE s = {}
      BY <3>1, <2>4 DEF SumStep
    <3>2. CASE s # {}
      <4>1. PickOf(s) = c[s] /\ PickOf(s) \in T /\ s \ {PickOf(s)} \in SUBSET T
        BY <3>2, <2>1
      <4>2. g[s] = F[<<PickOf(s), g[s \ {PickOf(s)}]>>]
        BY <3>2, <4>1, <2>4
      <4>3. g[s] = f[PickOf(s)] + g[s \ {PickOf(s)}]
        <5> HIDE DEF F
        <5> QED  BY <4>1, <4>2, <2>2
      <4> QED  BY <3>2, <4>3 DEF SumStep
    <3> QED  BY <3>1, <3>2
  <2> QED  BY <2>5
<1>2. ASSUME NEW T \in SUBSET S, NEW g, Fix(S, g), NEW h, Fix(T, h)
      PROVE  \A s \in SUBSET T : h[s] = g[s]
  <2> DEFINE P == {s \in SUBSET T : h[s] = g[s]}
  <2>1. \A s \in SUBSET T : (\A x \in s : s \ {x} \in P) => s \in P
    <3> TAKE s \in SUBSET T
    <3> HAVE \A x \in s : s \ {x} \in P
    <3>1. h[s] = SumStep(f, h, s) /\ g[s] = SumStep(f, g, s)
      <4>1. s \in SUBSET S
        OBVIOUS
      <4> QED  BY <4>1, <1>2
    <3>2. CASE s = {}
      BY <3>1, <3>2 DEF SumStep
    <3>3. CASE s # {}
      <4>1. PickOf(s) \in s
        BY <3>3 DEF PickOf
      <4>2. h[s \ {PickOf(s)}] = g[s \ {PickOf(s)}]
        BY <4>1
      <4> QED  BY <3>1, <3>3, <4>2 DEF SumStep
    <3> QED  BY <3>2, <3>3
  <2>2. IsFiniteSet(T)
    BY FS_Subset
  <2> HIDE DEF P
  <2>3. \A s \in SUBSET T : s \in P
    BY <2>1, <2>2, SubsetInduction
  <2> QED  BY <2>3 DEF P
<1>3. ASSUME NEW T \in SUBSET S
      PROVE  \E h : Fix(T, h) /\ SumFunctionOnSet(f, T) = h[T]
  <2> DEFINE h == CHOOSE g : Fix(T, g)
  <2>1. SumFunctionOnSet(f, T) = h[T]
    BY DEF SumFunctionOnSet, FoldFunctionOnSet, MapThenFoldSet, SumStep, PickOf
  <2>2. Fix(T, h)
    <3> HIDE DEF Fix
    <3> QED  BY <1>1
  <2> HIDE DEF h
  <2> QED  BY <2>1, <2>2
<1>4. PICK g \in [SUBSET S -> Int] : Fix(S, g)
  BY <1>1
<1>5. \A s \in SUBSET S : g[s] = SumFunctionOnSet(f, s)
  <2> TAKE s \in SUBSET S
  <2>1. PICK h : Fix(s, h) /\ SumFunctionOnSet(f, s) = h[s]
    BY <1>3
  <2>2. h[s] = g[s]
    <3> HIDE DEF Fix
    <3>1. s \in SUBSET s
      OBVIOUS
    <3> QED  BY <1>2, <1>4, <2>1, <3>1
  <2> QED  BY <2>1, <2>2
<1> QED  BY <1>4, <1>5

LEMMA SumEmpty == \A f : SumFunctionOnSet(f, {}) = 0
<1> TAKE f
<1>1. PICK g \in [SUBSET {} -> Int] : \A s \in SUBSET {} :
        g[s] = SumFunctionOnSet(f, s) /\ g[s] = SumStep(f, g, s)
  <2>1. IsFiniteSet({}) /\ \A x \in {} : f[x] \in Int
    BY FS_EmptySet
  <2> QED  BY <2>1, SumsOfSubsets
<1> QED  BY <1>1 DEF SumStep

LEMMA SumInt ==
  ASSUME NEW S, IsFiniteSet(S), NEW f, \A x \in S : f[x] \in Int
  PROVE  SumFunctionOnSet(f, S) \in Int
<1>1. PICK g \in [SUBSET S -> Int] : \A s \in SUBSET S :
        g[s] = SumFunctionOnSet(f, s) /\ g[s] = SumStep(f, g, s)
  BY SumsOfSubsets
<1>2. S \in SUBSET S
  OBVIOUS
<1> QED  BY <1>1, <1>2

LEMMA SumWithout ==
  ASSUME NEW S, IsFiniteSet(S), NEW f, \A x \in S : f[x] \in Int, NEW a \in S
  PROVE  /\ SumFunctionOnSet(f, S) = f[a] + SumFunctionOnSet(f, S \ {a})
         /\ SumFunctionOnSet(f, S \ {a}) \in Int
<1>1. PICK g \in [SUBSET S -> Int] : \A s \in SUBSET S :
        g[s] = SumFunctionOnSet(f, s) /\ g[s] = SumStep(f, g, s)
  BY SumsOfSubsets
<1> DEFINE P == {s \in SUBSET S : \A x \in s : g[s] = f[x] + g[s \ {x}]}
<1>2. \A s \in SUBSET S : (\A x \in s : s \ {x} \in P) => s \in P
  <2> SUFFICES ASSUME NEW s \in SUBSET S, \A x \in s : s \ {x} \in P, NEW x \in s
               PROVE  g[s] = f[x] + g[s \ {x}]
    OBVIOUS
  <2> DEFINE y == PickOf(s)
  <2>1. y \in s /\ g[s] = f[y] + g[s \ {y}]
    BY <1>1 DEF SumStep, PickOf
  <2> HIDE DEF y
  <2>2. CASE x = y
    BY <2>1, <2>2
  <2>3. CASE x # y
    <3>1. x \in s \ {y} /\ y \in s \ {x} /\ (s \ {y}) \ {x} = (s \ {x}) \ {y}
      BY <2>1, <2>3
    <3>2. g[s \ {y}] = f[x] + g[(s \ {y}) \ {x}]
      BY <2>1, <3>1
    <3>3. g[s \ {x}] = f[y] + g[(s \ {x}) \ {y}]
      BY <2>1, <3>1
    <3>4. f[x] \in Int /\ f[y] \in Int /\ g[(s \ {x}) \ {y}] \in Int
      BY <2>1, <1>1
    <3> QED  BY <2>1, <3>1, <3>2, <3>3, <3>4
  <2> QED  BY <2>2, <2>3
<1>3. S \in P
  <2> HIDE DEF P
  <2> QED  BY <1>2, SubsetInduction
<1>4. g[S] = f[a] + g[S \ {a}] /\ g[S \ {a}] \in Int
  BY <1>1, <1>3
<1> QED  BY <1>1, <1>4

LEMMA SumWith ==
  ASSUME NEW S, IsFiniteSet(S), NEW f, \A x \in S : f[x] \in Int,
         NEW a, a \notin S, f[a] \in Int
  PROVE  SumFunctionOnSet(f, S \cup {a}) = f[a] + SumFunctionOnSet(f, S)
<1>1. (S \cup {a}) \ {a} = S /\ IsFiniteSet(S \cup {a})
  BY FS_AddElement
<1> QED  BY <1>1, SumWithout

LEMMA SumNat ==
  ASSUME NEW S, IsFiniteSet(S), NEW f, \A x \in S : f[x] \in Nat
  PROVE  SumFunctionOnSet(f, S) \in Nat
<1>0. \A x \in S : f[x] \in Int
  OBVIOUS
<1>1. PICK g \in [SUBSET S -> Int] : \A s \in SUBSET S :
        g[s] = SumFunctionOnSet(f, s) /\ g[s] = SumStep(f, g, s)
  BY <1>0, SumsOfSubsets
<1> DEFINE P == {s \in SUBSET S : g[s] >= 0}
<1>2. \A s \in SUBSET S : (\A x \in s : s \ {x} \in P) => s \in P
  <2> SUFFICES ASSUME NEW s \in SUBSET S, \A x \in s : s \ {x} \in P
               PROVE  g[s] >= 0
    OBVIOUS
  <2>1. CASE s = {}
    <3>1. g[s] = SumStep(f, g, s)
      BY <1>1
    <3>2. SumStep(f, g, s) = 0
      BY <2>1 DEF SumStep
    <3> QED  BY <3>1, <3>2
  <2>2. CASE s # {}
    <3> DEFINE y == PickOf(s)
    <3>1. y \in s /\ g[s] = f[y] + g[s \ {y}]
      BY <1>1, <2>2 DEF SumStep, PickOf
    <3> HIDE DEF y
    <3>2. g[s \ {y}] >= 0 /\ f[y] \in Nat /\ g[s \ {y}] \in Int
      BY <3>1
    <3> QED  BY <3>1, <3>2
  <2> QED  BY <2>1, <2>2
<1>3. S \in P
  <2> HIDE DEF P
  <2> QED  BY <1>2, SubsetInduction
<1> QED  BY <1>1, <1>3

-----------------------------------------------------------------------------
(* Sorting: the place of an element is how many come before it.            *)
StrictOrder(S, R) ==
  /\ \A x \in S : <<x, x>> \notin R
  /\ \A x, y, z \in S : <<x, y>> \in R /\ <<y, z>> \in R => <<x, z>> \in R
  /\ \A x, y \in S : x = y \/ <<x, y>> \in R \/ <<y, x>> \in R

Rank(S, R, x) == Cardinality({y \in S : <<y, x>> \in R})

LEMMA ProperSubset ==
  ASSUME NEW S, IsFiniteSet(S), NEW T \in SUBSET S, NEW a \in S, a \notin T
  PROVE  Cardinality(T) \in Nat /\ Cardinality(S) \in Nat /\ Cardinality(T) < Cardinality(S)
<1>1. IsFiniteSet(T) /\ Cardinality(T) <= Cardinality(S)
      /\ (Cardinality(S) = Cardinality(T) => S = T)
  BY FS_Subset
<1>2. S # T
  OBVIOUS
<1>3. Cardinality(T) \in Nat /\ Cardinality(S) \in Nat
  BY <1>1, FS_CardinalityType
<1> QED  BY <1>1, <1>2, <1>3

LEMMA RankOrder ==
  ASSUME NEW S, IsFiniteSet(S), NEW R, StrictOrder(S, R)
  PROVE  /\ Cardinality(S) \in Nat
         /\ \A x \in S : Rank(S, R, x) \in 0 .. Cardinality(S) - 1
         /\ \A x, y \in S : <<x, y>> \in R <=> Rank(S, R, x) < Rank(S, R, y)
         /\ \A i \in 0 .. Cardinality(S) - 1 : \E x \in S : Rank(S, R, x) = i
<1> DEFINE Lower(x) == {y \in S : <<y, x>> \in R}
           n == Cardinality(S)
<1>1. ASSUME NEW x \in S PROVE Rank(S, R, x) \in Nat /\ n \in Nat /\ Rank(S, R, x) < n
  <2>1. Lower(x) \in SUBSET S /\ x \notin Lower(x)
    BY DEF StrictOrder
  <2> HIDE DEF Lower
  <2>2. Cardinality(Lower(x)) \in Nat /\ n \in Nat /\ Cardinality(Lower(x)) < n
    BY <2>1, ProperSubset
  <2> QED  BY <2>2 DEF Rank, Lower
<1>2. ASSUME NEW x \in S, NEW y \in S, <<x, y>> \in R PROVE Rank(S, R, x) < Rank(S, R, y)
  <2>1. x \notin Lower(x) /\ x \in Lower(y)
    BY <1>2 DEF StrictOrder
  <2>2. Lower(x) \in SUBSET Lower(y)
    BY <1>2 DEF StrictOrder
  <2>3. IsFiniteSet(Lower(y))
    BY FS_Subset
  <2> HIDE DEF Lower
  <2>4. Cardinality(Lower(x)) < Cardinality(Lower(y))
    BY <2>1, <2>2, <2>3, ProperSubset
  <2> QED  BY <2>4 DEF Rank, Lower
<1>3. ASSUME NEW x \in S, NEW y \in S
      PROVE  <<x, y>> \in R <=> Rank(S, R, x) < Rank(S, R, y)
  <2>1. CASE x = y
    BY <2>1, <1>1 DEF StrictOrder
  <2>2. CASE <<x, y>> \in R
    BY <2>2, <1>2
  <2>3. CASE <<y, x>> \in R
    <3>1. Rank(S, R, y) < Rank(S, R, x)
      BY <2>3, <1>2
    <3>2. <<x, y>> \notin R
      BY <2>3 DEF StrictOrder
    <3>3. Rank(S, R, x) \in Nat /\ Rank(S, R, y) \in Nat
      BY <1>1
    <3> QED  BY <3>1, <3>2, <3>3
  <2> QED  BY <2>1, <2>2, <2>3 DEF StrictOrder
<1>4. n \in Nat
  BY FS_CardinalityType
<1> DEFINE f == [x \in S |-> Rank(S, R, x)]
           I == 0 .. n - 1
<1>5. f \in [S -> I] /\ \A x, y \in S : f[x] = f[y] => x = y
  <2>1. \A x \in S : f[x] \in I /\ f[x] = Rank(S, R, x)
    BY <1>1, <1>4
  <2>2. ASSUME NEW x \in S, NEW y \in S, f[x] = f[y] PROVE x = y
    <3>1. Rank(S, R, x) = Rank(S, R, y) /\ Rank(S, R, x) \in Nat
      BY <2>2, <1>1
    <3>2. <<x, y>> \notin R /\ <<y, x>> \notin R
      BY <3>1, <1>3
    <3> QED  BY <3>2 DEF StrictOrder
  <2> QED  BY <2>1, <2>2
<1>6. IsFiniteSet(I) /\ Cardinality(I) = n
  BY <1>4, FS_Interval
<1> HIDE DEF f, I
<1>7. f \in Injection(S, I)
  BY <1>5 DEF Injection, IsInjective
<1>8. f \in Surjection(S, I)
  BY <1>6, <1>7, FS_Injection
<1>9. \A i \in I : \E x \in S : f[x] = i
  BY <1>8 DEF Surjection
<1> QED  BY <1>1, <1>3, <1>4, <1>9 DEF f, I

(* Everything of the set is in its place, once.                            *)
Sorts(s, S, R) ==
  /\ s \in [1 .. Cardinality(S) -> S] /\ Cardinality(S) \in Nat
  /\ \A x \in S : \E i \in 1 .. Cardinality(S) : s[i] = x
  /\ \A i, j \in 1 .. Cardinality(S) : <<s[i], s[j]>> \in R <=> i < j

LEMMA RanksSort ==
  ASSUME NEW S, IsFiniteSet(S), NEW R, StrictOrder(S, R),
         NEW s, s = [i \in 1 .. Cardinality(S) |-> s[i]],
         \A i \in 1 .. Cardinality(S) : s[i] \in S /\ Rank(S, R, s[i]) = i - 1
  PROVE  Sorts(s, S, R)
<1> DEFINE n == Cardinality(S)
<1>1. n \in Nat /\ s \in [1 .. n -> S]
  BY RankOrder
<1>2. ASSUME NEW x \in S PROVE \E i \in 1 .. n : s[i] = x
  <2>1. Rank(S, R, x) \in 0 .. n - 1
    BY RankOrder
  <2> DEFINE i == Rank(S, R, x) + 1
  <2>2. i \in 1 .. n /\ i - 1 = Rank(S, R, x)
    BY <2>1, <1>1
  <2>3. s[i] \in S /\ Rank(S, R, s[i]) = Rank(S, R, x)
    BY <2>2
  <2>4. <<s[i], x>> \notin R /\ <<x, s[i]>> \notin R
    BY <2>1, <2>3, RankOrder
  <2>5. s[i] = x
    BY <2>3, <2>4 DEF StrictOrder
  <2> QED  BY <2>2, <2>5
<1>3. ASSUME NEW i \in 1 .. n, NEW j \in 1 .. n PROVE <<s[i], s[j]>> \in R <=> i < j
  <2>1. <<s[i], s[j]>> \in R <=> i - 1 < j - 1
    BY RankOrder
  <2> QED  BY <2>1, <1>1
<1> QED  BY <1>1, <1>2, <1>3 DEF Sorts

LEMMA SumSame ==
  ASSUME NEW S, IsFiniteSet(S), NEW f, NEW g, \A x \in S : f[x] \in Int /\ g[x] = f[x]
  PROVE  SumFunctionOnSet(g, S) = SumFunctionOnSet(f, S)
<1> DEFINE P == {s \in SUBSET S : SumFunctionOnSet(g, s) = SumFunctionOnSet(f, s)}
<1>1. ASSUME NEW s \in SUBSET S, \A x \in s : s \ {x} \in P
      PROVE  s \in P
  <2>1. CASE s = {}
    BY <2>1, SumEmpty
  <2>2. CASE s # {}
    <3>1. PICK x \in s : TRUE
      BY <2>2
    <3>2. IsFiniteSet(s) /\ \A y \in s : f[y] \in Int /\ g[y] \in Int
      BY FS_Subset
    <3>3. /\ SumFunctionOnSet(f, s) = f[x] + SumFunctionOnSet(f, s \ {x})
          /\ SumFunctionOnSet(g, s) = g[x] + SumFunctionOnSet(g, s \ {x})
      BY <3>1, <3>2, SumWithout
    <3>4. SumFunctionOnSet(g, s \ {x}) = SumFunctionOnSet(f, s \ {x})
      BY <1>1, <3>1
    <3>5. SumFunctionOnSet(g, s) = SumFunctionOnSet(f, s)
      BY <3>1, <3>3, <3>4
    <3> QED  BY <3>5
  <2> QED  BY <2>1, <2>2
<1> HIDE DEF P
<1>2. \A s \in SUBSET S : s \in P
  BY <1>1, SubsetInduction
<1> QED  BY <1>2 DEF P

LEMMA SumPlus ==
  ASSUME NEW S, IsFiniteSet(S), NEW f, NEW g, NEW h,
         \A x \in S : f[x] \in Int /\ g[x] \in Int /\ h[x] = f[x] + g[x]
  PROVE  SumFunctionOnSet(h, S) = SumFunctionOnSet(f, S) + SumFunctionOnSet(g, S)
<1> DEFINE P == {s \in SUBSET S :
                   SumFunctionOnSet(h, s) = SumFunctionOnSet(f, s) + SumFunctionOnSet(g, s)}
<1>1. ASSUME NEW s \in SUBSET S, \A x \in s : s \ {x} \in P
      PROVE  s \in P
  <2>1. CASE s = {}
    BY <2>1, SumEmpty
  <2>2. CASE s # {}
    <3>1. PICK x \in s : TRUE
      BY <2>2
    <3>2. IsFiniteSet(s) /\ \A y \in s : f[y] \in Int /\ g[y] \in Int /\ h[y] \in Int
      BY FS_Subset
    <3>3. /\ SumFunctionOnSet(f, s) = f[x] + SumFunctionOnSet(f, s \ {x})
          /\ SumFunctionOnSet(f, s \ {x}) \in Int
      BY <3>1, <3>2, SumWithout
    <3>4. /\ SumFunctionOnSet(g, s) = g[x] + SumFunctionOnSet(g, s \ {x})
          /\ SumFunctionOnSet(g, s \ {x}) \in Int
      BY <3>1, <3>2, SumWithout
    <3>5. SumFunctionOnSet(h, s) = h[x] + SumFunctionOnSet(h, s \ {x})
      BY <3>1, <3>2, SumWithout
    <3>6. SumFunctionOnSet(h, s \ {x}) =
            SumFunctionOnSet(f, s \ {x}) + SumFunctionOnSet(g, s \ {x})
      BY <1>1, <3>1
    <3>7. f[x] \in Int /\ g[x] \in Int /\ h[x] = f[x] + g[x]
      BY <3>1
    <3>8. SumFunctionOnSet(h, s) = SumFunctionOnSet(f, s) + SumFunctionOnSet(g, s)
      BY <3>3, <3>4, <3>5, <3>6, <3>7
    <3> QED  BY <3>8
  <2> QED  BY <2>1, <2>2
<1> HIDE DEF P
<1>2. \A s \in SUBSET S : s \in P
  BY <1>1, SubsetInduction
<1> QED  BY <1>2 DEF P

LEMMA SumConst ==
  ASSUME NEW S, IsFiniteSet(S), NEW c \in Int, NEW f, \A x \in S : f[x] = c
  PROVE  SumFunctionOnSet(f, S) = c * Cardinality(S)
<1> DEFINE P == {s \in SUBSET S : SumFunctionOnSet(f, s) = c * Cardinality(s)}
<1>1. ASSUME NEW s \in SUBSET S, \A x \in s : s \ {x} \in P
      PROVE  s \in P
  <2>1. CASE s = {}
    <3>1. Cardinality(s) = 0 /\ SumFunctionOnSet(f, s) = 0
      BY <2>1, SumEmpty, FS_EmptySet
    <3> QED  BY <3>1
  <2>2. CASE s # {}
    <3>1. PICK x \in s : TRUE
      BY <2>2
    <3>2. IsFiniteSet(s) /\ \A y \in s : f[y] \in Int
      BY FS_Subset
    <3>3. SumFunctionOnSet(f, s) = c + SumFunctionOnSet(f, s \ {x})
      BY <3>1, <3>2, SumWithout
    <3>4. SumFunctionOnSet(f, s \ {x}) = c * Cardinality(s \ {x})
      BY <1>1, <3>1
    <3>5. Cardinality(s \ {x}) = Cardinality(s) - 1 /\ Cardinality(s) \in Nat
      BY <3>1, <3>2, FS_RemoveElement, FS_CardinalityType
    <3>6. \A k \in Nat : c + c * (k - 1) = c * k
      OBVIOUS
    <3>7. SumFunctionOnSet(f, s) = c * Cardinality(s)
      BY <3>3, <3>4, <3>5, <3>6
    <3> QED  BY <3>7
  <2> QED  BY <2>1, <2>2
<1> HIDE DEF P
<1>2. \A s \in SUBSET S : s \in P
  BY <1>1, SubsetInduction
<1> QED  BY <1>2 DEF P

LEMMA SumSubset ==
  ASSUME NEW S, IsFiniteSet(S), NEW T \in SUBSET S, NEW f, \A x \in S : f[x] \in Nat
  PROVE  SumFunctionOnSet(f, T) <= SumFunctionOnSet(f, S)
<1> DEFINE P == {s \in SUBSET S : SumFunctionOnSet(f, s \cap T) <= SumFunctionOnSet(f, s)}
<1>0. \A s \in SUBSET S : IsFiniteSet(s) /\ \A y \in s : f[y] \in Int
  BY FS_Subset
<1>1. ASSUME NEW s \in SUBSET S, \A x \in s : s \ {x} \in P
      PROVE  s \in P
  <2>1. CASE s = {}
    <3>1. s \cap T = {} /\ SumFunctionOnSet(f, {}) = 0
      BY <2>1, SumEmpty
    <3> QED  BY <2>1, <3>1
  <2>2. CASE s # {}
    <3>1. PICK x \in s : TRUE
      BY <2>2
    <3>2. /\ SumFunctionOnSet(f, s) = f[x] + SumFunctionOnSet(f, s \ {x})
          /\ SumFunctionOnSet(f, s \ {x}) \in Int /\ f[x] \in Nat
      BY <1>0, <3>1, SumWithout
    <3>3. SumFunctionOnSet(f, (s \ {x}) \cap T) <= SumFunctionOnSet(f, s \ {x})
      BY <1>1, <3>1
    <3>4. (s \ {x}) \cap T \in SUBSET S
      OBVIOUS
    <3>5. SumFunctionOnSet(f, (s \ {x}) \cap T) \in Int
      BY <1>0, <3>4, SumInt
    <3>6. CASE x \in T
      <4>1. x \in s \cap T /\ (s \cap T) \ {x} = (s \ {x}) \cap T /\ s \cap T \in SUBSET S
        BY <3>1, <3>6
      <4> DEFINE u == s \cap T
      <4>2. IsFiniteSet(u) /\ x \in u /\ \A y \in u : f[y] \in Int
        BY <1>0, <4>1
      <4> HIDE DEF u
      <4>3. SumFunctionOnSet(f, u) = f[x] + SumFunctionOnSet(f, u \ {x})
        BY <4>2, SumWithout
      <4>4. SumFunctionOnSet(f, u) <= SumFunctionOnSet(f, s)
        BY <3>2, <3>3, <3>5, <4>1, <4>3 DEF u
      <4> QED  BY <4>4 DEF u
    <3>7. CASE x \notin T
      <4>1. s \cap T = (s \ {x}) \cap T
        BY <3>7
      <4>2. SumFunctionOnSet(f, s \cap T) <= SumFunctionOnSet(f, s)
        BY <3>2, <3>3, <3>5, <4>1
      <4> QED  BY <4>2
    <3> QED  BY <3>6, <3>7
  <2> QED  BY <2>1, <2>2
<1>2. S \in P
  <2> HIDE DEF P
  <2> QED  BY <1>1, SubsetInduction
<1>3. S \cap T = T
  OBVIOUS
<1> QED  BY <1>2, <1>3

(* The next of a row.                                                      *)
LEMMA SumNext ==
  ASSUME NEW i \in Int, NEW n \in Int, i <= n + 1, NEW f, NEW g, g[n + 1] \in Int,
         \A x \in i .. n : f[x] \in Int /\ g[x] = f[x]
  PROVE  /\ SumFunctionOnSet(g, i .. n + 1) = SumFunctionOnSet(f, i .. n) + g[n + 1]
         /\ SumFunctionOnSet(f, i .. n) \in Int
<1>1. IsFiniteSet(i .. n) /\ IsFiniteSet(i .. n + 1)
  BY FS_Interval
<1>2. n + 1 \in i .. n + 1 /\ (i .. n + 1) \ {n + 1} = i .. n
  OBVIOUS
<1>3. \A x \in i .. n + 1 : g[x] \in Int
  <2> TAKE x \in i .. n + 1
  <2>1. x \in i .. n \/ x = n + 1
    OBVIOUS
  <2> QED  BY <2>1
<1>4. SumFunctionOnSet(g, i .. n + 1) = g[n + 1] + SumFunctionOnSet(g, i .. n)
  BY <1>1, <1>2, <1>3, SumWithout
<1>5. SumFunctionOnSet(g, i .. n) = SumFunctionOnSet(f, i .. n) /\ SumFunctionOnSet(f, i .. n) \in Int
  BY <1>1, SumSame, SumInt
<1> QED  BY <1>4, <1>5

(* f counts the things of I by what they are, when that is in S.           *)
CountsParts(I, S, of, f, part, all) ==
  /\ IsFiniteSet(I) /\ IsFiniteSet(S)
  /\ \A b \in S : part[b] \in SUBSET I /\ f[b] = Cardinality(part[b])
  /\ \A b \in S, i \in I : i \in part[b] <=> of[i] = b
  /\ all \in SUBSET I /\ \A i \in I : i \in all <=> of[i] \in S

(* Things counted by what they are sum up to the number of them.           *)
LEMMA SumCounts ==
  ASSUME NEW I, NEW S, NEW of, NEW f, NEW part, NEW all, CountsParts(I, S, of, f, part, all)
  PROVE  SumFunctionOnSet(f, S) = Cardinality(all)
<1>0. /\ IsFiniteSet(I) /\ IsFiniteSet(S)
      /\ \A b \in S : part[b] \in SUBSET I /\ f[b] = Cardinality(part[b])
      /\ \A b \in S, i \in I : i \in part[b] <=> of[i] = b
      /\ all \in SUBSET I /\ \A i \in I : i \in all <=> of[i] \in S
  BY DEF CountsParts
<1> DEFINE In(s) == {i \in I : of[i] \in s}
           P == {s \in SUBSET S : SumFunctionOnSet(f, s) = Cardinality(In(s))}
<1>1. ASSUME NEW s \in SUBSET S, \A x \in s : s \ {x} \in P
      PROVE  s \in P
  <2>1. CASE s = {}
    <3>1. In(s) = {} /\ SumFunctionOnSet(f, {}) = 0
      BY <2>1, SumEmpty
    <3> QED  BY <2>1, <3>1, FS_EmptySet
  <2>2. CASE s # {}
    <3>1. PICK x \in s : TRUE
      BY <2>2
    <3> DEFINE one == part[x]
    <3>2. IsFiniteSet(one) /\ IsFiniteSet(In(s \ {x})) /\ IsFiniteSet(s)
      BY <1>0, FS_Subset
    <3>3. In(s) = In(s \ {x}) \cup one /\ In(s \ {x}) \cap one = {}
      BY <1>0, <3>1
    <3>4. \A y \in s : f[y] \in Int
      <4> TAKE y \in s
      <4>1. IsFiniteSet(part[y]) /\ f[y] = Cardinality(part[y])
        BY <1>0, FS_Subset
      <4> QED  BY <4>1, FS_CardinalityType
    <3>5. SumFunctionOnSet(f, s) = f[x] + SumFunctionOnSet(f, s \ {x})
      BY <3>1, <3>2, <3>4, SumWithout
    <3>6. SumFunctionOnSet(f, s \ {x}) = Cardinality(In(s \ {x}))
      BY <1>1, <3>1
    <3>7. f[x] = Cardinality(one)
      BY <1>0, <3>1
    <3> HIDE DEF In, one
    <3>8. Cardinality(In(s)) = Cardinality(In(s \ {x})) + Cardinality(one)
      <4>1. Cardinality(In(s \ {x}) \cup one) =
              Cardinality(In(s \ {x})) + Cardinality(one) - Cardinality(In(s \ {x}) \cap one)
        BY <3>2, FS_Union
      <4>2. Cardinality({}) = 0 /\ Cardinality(In(s \ {x})) \in Nat /\ Cardinality(one) \in Nat
        BY <3>2, FS_EmptySet, FS_CardinalityType
      <4>3. Cardinality(In(s \ {x}) \cap one) = 0
        BY <3>3, <4>2
      <4>4. Cardinality(In(s \ {x}) \cup one) = Cardinality(In(s \ {x})) + Cardinality(one)
        BY <4>1, <4>2, <4>3
      <4> QED  BY <3>3, <4>4
    <3>9. Cardinality(In(s \ {x})) \in Nat /\ Cardinality(one) \in Nat
      BY <3>2, FS_CardinalityType
    <3>10. SumFunctionOnSet(f, s) = Cardinality(In(s))
      BY <3>5, <3>6, <3>7, <3>8, <3>9
    <3> QED  BY <3>10
  <2> QED  BY <2>1, <2>2
<1> HIDE DEF P
<1>2. \A s \in SUBSET S : s \in P
  BY <1>0, <1>1, SubsetInduction
<1>3. S \in P
  BY <1>2
<1>4. In(S) = all
  BY <1>0
<1> HIDE DEF In
<1> QED  BY <1>3, <1>4 DEF P

-----------------------------------------------------------------------------
(* Maxima and minima.                                                      *)
LEMMA MaxOfFinite ==
  ASSUME NEW S, IsFiniteSet(S), S # {}, \A x \in S : x \in Int
  PROVE  Max(S) \in S /\ \A y \in S : Max(S) >= y
<1> DEFINE P == {s \in SUBSET S : s # {} => \E m \in s : \A y \in s : m >= y}
<1>1. ASSUME NEW s \in SUBSET S, \A x \in s : s \ {x} \in P, s # {}
      PROVE  \E m \in s : \A y \in s : m >= y
  <2>1. PICK x \in s : TRUE
    BY <1>1
  <2>2. x \in Int
    BY <2>1
  <2>3. CASE s \ {x} = {}
    <3>1. \A y \in s : x >= y
      BY <2>2, <2>3
    <3> QED  BY <3>1
  <2>4. CASE s \ {x} # {}
    <3>1. s \ {x} \in P
      BY <1>1
    <3>2. PICK m \in s \ {x} : \A y \in s \ {x} : m >= y
      BY <2>4, <3>1
    <3>3. m \in Int /\ \A y \in s : y \in Int
      OBVIOUS
    <3>4. CASE m >= x
      BY <3>2, <3>4
    <3>5. CASE ~(m >= x)
      <4>1. \A y \in s : x >= y
        BY <2>2, <3>2, <3>3, <3>5
      <4> QED  BY <4>1
    <3> QED  BY <3>4, <3>5
  <2> QED  BY <2>3, <2>4
<1>2. S \in P
  <2>1. \A s \in SUBSET S : (\A x \in s : s \ {x} \in P) => s \in P
    BY <1>1
  <2> HIDE DEF P
  <2> QED  BY <2>1, SubsetInduction
<1>3. \E m \in S : \A y \in S : m >= y
  BY <1>2
<1> QED  BY <1>3 DEF Max

LEMMA OfTwo ==
  ASSUME NEW a \in Int, NEW b \in Int
  PROVE  /\ Max({a, b}) = IF a >= b THEN a ELSE b
         /\ Min({a, b}) = IF a <= b THEN a ELSE b
<1>1. \A m \in {a, b} : (\A y \in {a, b} : m >= y) <=> m = IF a >= b THEN a ELSE b
  OBVIOUS
<1>2. \A m \in {a, b} : (\A y \in {a, b} : m <= y) <=> m = IF a <= b THEN a ELSE b
  OBVIOUS
<1>3. (IF a >= b THEN a ELSE b) \in {a, b} /\ (IF a <= b THEN a ELSE b) \in {a, b}
  OBVIOUS
<1> QED  BY <1>1, <1>2, <1>3 DEF Max, Min

LEMMA FiniteImage ==
  ASSUME NEW S, IsFiniteSet(S), NEW f
  PROVE  IsFiniteSet({f[x] : x \in S})
<1> DEFINE T == {f[x] : x \in S}
<1>1. [x \in S |-> f[x]] \in Surjection(S, T)
  BY DEF Surjection
<1> HIDE DEF T
<1>2. IsFiniteSet(T)
  BY <1>1, FS_Surjection
<1> QED  BY <1>2 DEF T

=============================================================================
