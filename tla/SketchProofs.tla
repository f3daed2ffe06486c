---------------------------- MODULE SketchProofs ----------------------------
(***************************************************************************)
(* What the sketches are worth, proved for every set of keys, every hash   *)
(* function, every size of a sketch, of its window and of the epoch, and   *)
(* however the draws fall.                                                 *)
(* First the areas: they hold what came in the last epochs (WindowExact),  *)
(* whatever the sketch in them.  Then the cells of HeavyKeeper_v3: they    *)
(* count for no other key (NoInheritance), never too much, and exactly     *)
(* when a key is alone (HKBounds).  Then the switch, the Bloom filter,     *)
(* the hand of the sliding sketches and the sliding Bloom filter.  Last    *)
(* what the run on small instances checks, as theorems of its own          *)
(* specification.                                                          *)
(***************************************************************************)
EXTENDS MCSketches, FoldLemmas, SequenceTheorems


-----------------------------------------------------------------------------
(* Epochs and their numbers.                                               *)

(* The number of the last key before epoch q.                              *)
Begin(q) == q * window_size

(* The epoch of the n-th key.                                              *)
EpochOf(n) == (n - 1) \div window_size

LEMMA Products ==
  ASSUME NEW a \in Int, NEW b \in Int, NEW c \in Nat
  PROVE  /\ a * c \in Int
         /\ (a + b) * c = a * c + b * c
         /\ 0 <= a => 0 <= a * c
OBVIOUS

LEMMA BeginStep ==
  ASSUME NEW q \in Nat, NEW t \in Nat
  PROVE  /\ Begin(q) \in Nat /\ Begin(t) \in Nat
         /\ Begin(q + t) = Begin(q) + Begin(t)
         /\ 0 < t => window_size <= Begin(t)
<1>1. q * window_size \in Nat /\ t * window_size \in Nat
  BY Products, WindowAssumption
<1>2. (q + t) * window_size = q * window_size + t * window_size
  BY Products, WindowAssumption
<1>3. ASSUME 0 < t PROVE window_size <= t * window_size
  <2>1. ((t - 1) + 1) * window_size = (t - 1) * window_size + 1 * window_size
    BY <1>3, Products, WindowAssumption
  <2>2. 0 <= (t - 1) * window_size /\ (t - 1) * window_size \in Int
    BY <1>3, Products, WindowAssumption
  <2>3. (t - 1) + 1 = t /\ 1 * window_size = window_size
    BY WindowAssumption
  <2> QED  BY <2>1, <2>2, <2>3, WindowAssumption
<1> QED  BY <1>1, <1>2, <1>3 DEF Begin

LEMMA BeginSmall ==
  /\ Begin(0) = 0 /\ Begin(1) = window_size
  /\ Begin(4) = 4 * window_size /\ Begin(7) = 7 * window_size
BY WindowAssumption DEF Begin

LEMMA BeginOrder ==
  ASSUME NEW q \in Nat, NEW r \in Nat
  PROVE  /\ Begin(q) \in Nat /\ Begin(r) \in Nat
         /\ Begin(q + 1) = Begin(q) + window_size
         /\ Begin(q + 4) = Begin(q) + 4 * window_size
         /\ q < r <=> Begin(q) < Begin(r)
         /\ q < r => Begin(q) + window_size <= Begin(r)
<1>1. Begin(q) \in Nat /\ Begin(r) \in Nat
      /\ Begin(q + 1) = Begin(q) + window_size
      /\ Begin(q + 4) = Begin(q) + 4 * window_size
  <2>1. Begin(q) \in Nat /\ Begin(r) \in Nat
    BY BeginStep
  <2>2. Begin(q + 1) = Begin(q) + Begin(1)
    BY BeginStep
  <2>3. Begin(q + 4) = Begin(q) + Begin(4)
    BY BeginStep
  <2> QED  BY <2>1, <2>2, <2>3, BeginSmall
<1>2. ASSUME NEW x \in Nat, NEW y \in Nat, x < y PROVE Begin(x) + window_size <= Begin(y)
  <2>1. y - x \in Nat /\ 0 < y - x /\ x + (y - x) = y
    BY <1>2
  <2>2. Begin(x + (y - x)) = Begin(x) + Begin(y - x) /\ window_size <= Begin(y - x)
        /\ Begin(x) \in Nat /\ Begin(y - x) \in Nat
    BY <2>1, BeginStep
  <2> QED  BY <2>1, <2>2, WindowAssumption
<1>3. Begin(q) < Begin(r) => q < r
  <2>1. CASE q = r
    BY <2>1, <1>1
  <2>2. CASE r < q
    BY <2>2, <1>1, <1>2, WindowAssumption
  <2> QED  BY <2>1, <2>2
<1> QED  BY <1>1, <1>2, <1>3, WindowAssumption

LEMMA BeginsBefore ==
  ASSUME NEW q \in Nat, NEW r \in Nat, NEW n \in Int, Begin(q) <= n, n < Begin(r)
  PROVE  q < r
<1>1. Begin(q) \in Nat /\ Begin(r) \in Nat
  BY BeginOrder
<1>2. Begin(q) < Begin(r)
  BY <1>1
<1> QED  BY <1>2, BeginOrder

LEMMA Quotient ==
  ASSUME NEW n \in Nat
  PROVE  /\ n \div window_size \in Nat
         /\ Begin(n \div window_size) <= n
         /\ n < Begin((n \div window_size) + 1)
         /\ n % window_size = 0 <=> n = Begin(n \div window_size)
<1>1. n \div window_size \in Nat
  BY WindowAssumption
<1>2. n % window_size \in 0 .. window_size - 1
  BY WindowAssumption
<1>3. n = (n \div window_size) * window_size + (n % window_size)
  BY WindowAssumption
<1> QED  BY <1>1, <1>2, <1>3, BeginOrder, WindowAssumption DEF Begin

LEMMA EpochOfKey ==
  ASSUME NEW n \in Nat \ {0}
  PROVE  /\ EpochOf(n) \in Nat
         /\ Begin(EpochOf(n)) < n /\ n <= Begin(EpochOf(n) + 1)
         /\ \A q \in Nat : Begin(q) < n /\ n <= Begin(q + 1) => q = EpochOf(n)
<1>1. n - 1 \in Nat
  OBVIOUS
<1>2. /\ EpochOf(n) \in Nat
      /\ Begin(EpochOf(n)) <= n - 1 /\ n - 1 < Begin(EpochOf(n) + 1)
  BY <1>1, Quotient DEF EpochOf
<1>3. Begin(EpochOf(n)) < n /\ n <= Begin(EpochOf(n) + 1)
  BY <1>2, BeginOrder
<1>4. ASSUME NEW q \in Nat, Begin(q) < n, n <= Begin(q + 1) PROVE q = EpochOf(n)
  <2>1. Begin(q) < Begin(EpochOf(n) + 1) /\ Begin(EpochOf(n)) < Begin(q + 1)
    <3>1. Begin(q) \in Nat /\ Begin(q + 1) \in Nat /\ Begin(EpochOf(n)) \in Nat /\ Begin(EpochOf(n) + 1) \in Nat
      BY <1>2, BeginOrder
    <3> QED  BY <1>3, <1>4, <3>1
  <2>2. q < EpochOf(n) + 1 /\ EpochOf(n) < q + 1
    BY <1>2, <2>1, BeginOrder
  <2> QED  BY <1>2, <2>2
<1> QED  BY <1>2, <1>3, <1>4

LEMMA MultipleInside ==
  ASSUME NEW t \in Int, NEW c \in Nat, NEW x \in Int, x < c, -c < x, t * c = x
  PROVE  t = 0
<1>1. CASE t > 0
  <2>1. ((t - 1) + 1) * c = (t - 1) * c + 1 * c /\ 0 <= (t - 1) * c /\ (t - 1) * c \in Int
    BY <1>1, Products
  <2>2. (t - 1) + 1 = t /\ 1 * c = c
    OBVIOUS
  <2>3. t * c = (t - 1) * c + c
    BY <2>1, <2>2
  <2> QED  BY <2>1, <2>3
<1>2. CASE t < 0
  <2>1. (-t - 1) * c \in Int /\ 0 <= (-t - 1) * c
    BY <1>2, Products
  <2>2. (-t - 1) * c + (t + 1) * c = 0 /\ (t + 1) * c = t * c + c
    <3>1. ((-t - 1) + (t + 1)) * c = (-t - 1) * c + (t + 1) * c
      BY Products
    <3>2. (t + 1) * c = t * c + 1 * c
      BY Products
    <3>3. (-t - 1) + (t + 1) = 0 /\ 0 * c = 0 /\ 1 * c = c
      OBVIOUS
    <3> QED  BY <3>1, <3>2, <3>3
  <2> QED  BY <2>1, <2>2
<1> QED  BY <1>1, <1>2

LEMMA RemainderIs ==
  ASSUME NEW a \in Int, NEW q \in Int, NEW r \in 0 .. EPOCHS - 1, a = q * EPOCHS + r
  PROVE  a % EPOCHS = r
<1>1. EPOCHS \in Nat \ {0}
  BY EpochAssumption DEF AREA_NUM
<1> DEFINE m == a % EPOCHS
           e == a \div EPOCHS
           x == q * EPOCHS
           y == e * EPOCHS
           z == (q - e) * EPOCHS
<1>2. m \in 0 .. EPOCHS - 1 /\ e \in Int /\ a = y + m
  BY <1>1
<1> HIDE DEF m, e
<1>3. x \in Int /\ y \in Int /\ z \in Int /\ z + y = x
  <2>1. ((q - e) + e) * EPOCHS = (q - e) * EPOCHS + e * EPOCHS /\ (q - e) + e = q
    BY <1>1, <1>2, Products
  <2> QED  BY <1>1, <1>2, <2>1, Products
<1>4. a = x + r
  OBVIOUS
<1> HIDE DEF x, y
<1>5. z = m - r /\ m - r < EPOCHS /\ -EPOCHS < m - r
  <2> HIDE DEF z
  <2> QED  BY <1>1, <1>2, <1>3, <1>4
<1>6. q - e = 0
  BY <1>1, <1>2, <1>5, MultipleInside
<1>7. m = r
  BY <1>1, <1>2, <1>5, <1>6
<1> QED  BY <1>7 DEF m

LEMMA NarrowEpoch ==
  ASSUME NEW e \in Nat
  PROVE  /\ e % EPOCHS \in 0 .. EPOCHS - 1
         /\ (e % EPOCHS) % 4 = e % 4
         /\ e < EPOCHS => e % EPOCHS = e
         /\ \A t \in 0 .. 4 : t <= e =>
              (e - t) % EPOCHS = IF t <= e % EPOCHS THEN (e % EPOCHS) - t
                                 ELSE (e % EPOCHS) - t + EPOCHS
<1> DEFINE r == e % EPOCHS
           q == e \div EPOCHS
<1>1. EPOCHS \in Nat /\ EPOCHS > 4 /\ EPOCHS % 4 = 0
  BY EpochAssumption DEF AREA_NUM
<1>2. r \in 0 .. EPOCHS - 1 /\ q \in Nat /\ e = q * EPOCHS + r
  BY <1>1
<1> HIDE DEF r, q
<1>3. r % 4 = e % 4
  <2>1. PICK m \in Nat : EPOCHS = 4 * m
    BY <1>1
  <2>2. \E p \in Nat : q * EPOCHS = 4 * p
    BY <1>2, <2>1
  <2>3. PICK p \in Nat : e = 4 * p + r
    BY <1>2, <2>2
  <2>4. r \in Nat
    BY <1>1, <1>2
  <2> QED  BY <2>3, <2>4
<1>4. e < EPOCHS => r = e
  <2>1. e = 0 * EPOCHS + e
    BY <1>1
  <2> QED  BY <1>1, <2>1, RemainderIs DEF r
<1>5. ASSUME NEW t \in 0 .. 4, t <= e
      PROVE  (e - t) % EPOCHS = IF t <= r THEN r - t ELSE r - t + EPOCHS
  <2>1. CASE t <= r
    <3>1. e - t = q * EPOCHS + (r - t)
      BY <1>1, <1>2, <1>5
    <3>2. r - t \in 0 .. EPOCHS - 1 /\ e - t \in Int /\ q \in Int
      BY <1>1, <1>2, <2>1
    <3>3. (e - t) % EPOCHS = r - t
      BY <3>1, <3>2, RemainderIs
    <3> QED  BY <2>1, <3>3
  <2>2. CASE t > r
    <3>1. ((q - 1) + 1) * EPOCHS = (q - 1) * EPOCHS + 1 * EPOCHS /\ (q - 1) * EPOCHS \in Int
      BY <1>1, <1>2, Products
    <3>2. e - t = (q - 1) * EPOCHS + (r - t + EPOCHS)
      BY <1>1, <1>2, <1>5, <3>1
    <3>3. r - t + EPOCHS \in 0 .. EPOCHS - 1 /\ e - t \in Int /\ q - 1 \in Int
      BY <1>1, <1>2, <2>2
    <3>4. (e - t) % EPOCHS = r - t + EPOCHS
      BY <3>2, <3>3, RemainderIs
    <3>5. ~(t <= r)
      BY <1>1, <1>2, <2>2
    <3> QED  BY <3>4, <3>5
  <2> QED  BY <1>1, <1>2, <2>1, <2>2
<1> QED  BY <1>2, <1>3, <1>4, <1>5 DEF r

-----------------------------------------------------------------------------
(* The areas.                                                              *)

WindowTypes ==
  /\ sequence \in Nat /\ clears \in Nat
  /\ epoches \in [Areas -> Nat]
  /\ held \in [Areas -> [Keys -> Nat]]
  /\ log \in [Recent(sequence) -> Keys]

(* The keys k that a log has in epoch q.                                   *)
Came(lg, k, q) == {n \in DOMAIN lg : Begin(q) < n /\ n <= Begin(q + 1) /\ lg[n] = k}

(* Area i is the one of epoch q, the last of its epochs to have begun, and *)
(* holds what came in it; after a clear it may hold more in its first.     *)
HoldsEpoch(i, q) ==
  /\ q % 4 = i /\ Begin(q) < sequence /\ sequence <= Begin(q + 4)
  /\ epoches[i] = q % EPOCHS
  /\ \A k \in Keys :
       /\ Cardinality(Came(log, k, q)) <= held[i][k]
       /\ q >= 4 \/ clears = 0 => Cardinality(Came(log, k, q)) = held[i][k]

(* Before its first epoch begins an area is empty, or left by a clear.     *)
AreaRight(i) ==
  /\ Begin(i) < sequence => \E q \in Nat : HoldsEpoch(i, q)
  /\ sequence <= Begin(i) /\ clears = 0 =>
       epoches[i] = 0 /\ \A k \in Keys : held[i][k] = 0

WindowInv == WindowTypes /\ \A i \in Areas : AreaRight(i)

-----------------------------------------------------------------------------
(* Where insert is: the epoch, its number in 16 bits, and its area.        *)
LEMMA WhereInsertIs ==
  ASSUME sequence \in Nat
  PROVE  /\ epoch_seq \in Nat
         /\ Begin(epoch_seq) <= sequence /\ sequence < Begin(epoch_seq + 1)
         /\ sequence % window_size = 0 <=> sequence = Begin(epoch_seq)
         /\ epoch_seq16 = epoch_seq % EPOCHS /\ epoch_seq16 \in Nat
         /\ area_pos = epoch_seq % 4 /\ area_pos \in Areas
<1>1. /\ epoch_seq \in Nat
      /\ Begin(epoch_seq) <= sequence /\ sequence < Begin(epoch_seq + 1)
      /\ sequence % window_size = 0 <=> sequence = Begin(epoch_seq)
  BY Quotient DEF epoch_seq
<1>2. epoch_seq16 = epoch_seq % EPOCHS
  BY DEF epoch_seq16
<1>3. epoch_seq16 \in 0 .. EPOCHS - 1 /\ epoch_seq16 % 4 = epoch_seq % 4
  BY <1>1, <1>2, NarrowEpoch
<1>4. epoch_seq16 \in Nat
  BY <1>3, EpochAssumption
<1>5. area_pos = epoch_seq % 4
  BY <1>3 DEF area_pos, AREA_NUM
<1>6. area_pos \in Areas
  BY <1>1, <1>5 DEF Areas, AREA_NUM
<1> QED  BY <1>1, <1>2, <1>4, <1>5, <1>6

LEMMA CameFinite ==
  ASSUME NEW s \in Nat, NEW lg \in [Recent(s) -> Keys], NEW k, NEW q
  PROVE  IsFiniteSet(Came(lg, k, q)) /\ Cardinality(Came(lg, k, q)) \in Nat
<1>1. IsFiniteSet(1 .. s)
  BY FS_Interval
<1>2. Came(lg, k, q) \in SUBSET (1 .. s)
  BY DEF Came, Recent
<1> QED  BY <1>1, <1>2, FS_Subset, FS_CardinalityType

LEMMA AreaBegins ==
  ASSUME NEW i \in Areas PROVE i \in Nat /\ i < 4 /\ Begin(i) \in Nat
<1>1. i \in Nat /\ i < 4
  BY DEF Areas, AREA_NUM
<1> QED  BY <1>1, BeginStep

LEMMA WindowStarts == WindowInit => WindowInv
<1> SUFFICES ASSUME WindowInit PROVE WindowInv
  OBVIOUS
<1> USE DEF WindowInit, AreaInit
<1>1. WindowTypes
  <2>1. Recent(sequence) = {}
    BY DEF Recent
  <2>2. log \in [{} -> Keys]
    OBVIOUS
  <2> QED  BY <2>1, <2>2 DEF WindowTypes
<1>2. ASSUME NEW i \in Areas PROVE AreaRight(i)
  <2>1. Begin(i) \in Nat
    BY AreaBegins
  <2> QED  BY <2>1 DEF AreaRight
<1> QED  BY <1>1, <1>2 DEF WindowInv

LEMMA WindowClear == WindowInv /\ ClearKeys => WindowInv'
<1> SUFFICES ASSUME WindowInv, ClearKeys PROVE WindowInv'
  OBVIOUS
<1> USE DEF WindowInv, WindowTypes, ClearKeys, ForgetSequence
<1>1. WindowTypes'
  <2>1. Recent(0) = {}
    BY DEF Recent
  <2>2. log' \in [{} -> Keys]
    OBVIOUS
  <2> QED  BY <2>1, <2>2
<1>2. ASSUME NEW i \in Areas PROVE AreaRight(i)'
  <2>1. Begin(i) \in Nat
    BY AreaBegins
  <2>2. clears' # 0 /\ sequence' = 0
    OBVIOUS
  <2> QED  BY <2>1, <2>2 DEF AreaRight
<1> QED  BY <1>1, <1>2

LEMMA WindowSame == WindowInv /\ UNCHANGED windowVars => WindowInv'
BY DEF WindowInv, windowVars, areaVars, WindowTypes, AreaRight, HoldsEpoch

(* What the next key adds to an epoch: itself to its own, nothing to one   *)
(* that is not more than four epochs old.                                  *)
LEMMA NextKeyCame ==
  ASSUME WindowTypes, NEW k \in Keys, InsertKey(k), NEW j \in Keys, NEW q \in Nat,
         sequence < Begin(q + 4)
  PROVE  Came(log', j, q) =
           Came(log, j, q) \cup
             (IF j = k /\ Begin(q) <= sequence /\ sequence < Begin(q + 1)
              THEN {sequence + 1} ELSE {})
<1> DEFINE s == sequence
           more == IF j = k /\ Begin(q) <= s /\ s < Begin(q + 1) THEN {s + 1} ELSE {}
<1>1. s \in Nat /\ DOMAIN log = Recent(s) /\ Begin(q) \in Nat /\ Begin(q + 1) \in Nat
      /\ Begin(q + 4) = Begin(q) + 4 * window_size
  BY BeginOrder DEF WindowTypes
<1>2. DOMAIN log' = Recent(s + 1) /\ log'[s + 1] = k
      /\ \A n \in Recent(s + 1) : n # s + 1 => log'[n] = log[n]
  <2>1. s + 1 \in Recent(s + 1)
    BY <1>1, WindowAssumption DEF Recent, AREA_NUM
  <2> QED  BY <1>1, <2>1 DEF InsertKey
<1>3. ASSUME NEW n PROVE n \in Came(log', j, q) <=> n \in Came(log, j, q) \cup more
  <2>1. CASE n = s + 1
    <3>1. n \in Recent(s + 1) /\ n \notin Recent(s)
      BY <1>1, <2>1, WindowAssumption DEF Recent, AREA_NUM
    <3>2. n \notin Came(log, j, q)
      BY <1>1, <3>1 DEF Came
    <3>3. n \in Came(log', j, q) <=> Begin(q) < s + 1 /\ s + 1 <= Begin(q + 1) /\ k = j
      BY <1>2, <2>1, <3>1 DEF Came
    <3> QED  BY <1>1, <2>1, <3>2, <3>3
  <2>2. CASE n # s + 1
    <3>1. n \in Recent(s + 1) /\ Begin(q) < n <=> n \in Recent(s) /\ Begin(q) < n
      BY <1>1, <2>2, WindowAssumption DEF Recent, AREA_NUM
    <3>2. n \in Came(log', j, q) <=> n \in Came(log, j, q)
      BY <1>1, <1>2, <2>2, <3>1 DEF Came
    <3> QED  BY <2>2, <3>2
  <2> QED  BY <2>1, <2>2
<1> QED  BY <1>3

(* The area of the current epoch counts the key.                           *)
LEMMA OwnAreaCounts ==
  ASSUME WindowInv, NEW k \in Keys, InsertKey(k),
         NEW a \in Areas, a = area_pos, NEW e \in Nat, e = epoch_seq
  PROVE  HoldsEpoch(a, e)'
<1> DEFINE s == sequence
           one(j) == IF j = k THEN 1 ELSE 0
           card(j) == Cardinality(Came(log, j, e))
<1>1. s \in Nat /\ WindowTypes /\ AreaRight(a)
  BY DEF WindowInv, WindowTypes
<1>2. /\ Begin(e) <= s /\ s < Begin(e + 1)
      /\ epoch_seq16 = e % EPOCHS /\ epoch_seq16 \in Nat /\ a = e % 4
  BY <1>1, WhereInsertIs
<1>3. /\ Begin(e) \in Nat /\ Begin(e + 1) \in Nat /\ Begin(e + 4) \in Nat
      /\ s < Begin(e + 4) /\ window_size \in Nat \ {0}
  <2>1. Begin(e) \in Nat /\ Begin(e + 1) = Begin(e) + window_size
        /\ Begin(e + 4) = Begin(e) + 4 * window_size
    BY BeginOrder
  <2> QED  BY <1>1, <1>2, <2>1, WindowAssumption
<1>4. s' = s + 1 /\ clears' = clears /\ epoches'[a] = e % EPOCHS
      /\ \A j \in Keys : held'[a][j] = (IF NewEpoch THEN 0 ELSE held[a][j]) + one(j)
  BY <1>1, <1>2 DEF InsertKey, EnterEpoch, WindowTypes
<1>5. ASSUME NEW j \in Keys
      PROVE  /\ card(j) \in Nat
             /\ Cardinality(Came(log', j, e)) = card(j) + one(j)
  <2>1. log \in [Recent(s) -> Keys]
    BY <1>1 DEF WindowTypes
  <2>2. IsFiniteSet(Came(log, j, e)) /\ card(j) \in Nat
    BY <1>1, <2>1, CameFinite
  <2>3. Came(log', j, e) = Came(log, j, e) \cup (IF j = k THEN {s + 1} ELSE {})
    BY <1>1, <1>2, <1>3, NextKeyCame
  <2>4. s + 1 \notin Came(log, j, e)
    BY <1>1, <2>1 DEF Came, Recent
  <2>5. CASE j = k
    <3>1. Came(log', j, e) = Came(log, j, e) \cup {s + 1}
      BY <2>3, <2>5
    <3>2. Cardinality(Came(log', j, e)) = card(j) + 1
      BY <2>2, <2>4, <3>1, FS_AddElement
    <3> QED  BY <2>2, <2>5, <3>2
  <2>6. CASE j # k
    <3>1. Came(log', j, e) = Came(log, j, e)
      BY <2>3, <2>6
    <3> QED  BY <2>2, <2>6, <3>1
  <2> QED  BY <2>5, <2>6
<1>6. ASSUME NEW j \in Keys
      PROVE  /\ card(j) + one(j) <= held'[a][j]
             /\ e >= 4 \/ clears = 0 => card(j) + one(j) = held'[a][j]
  <2>0. held[a][j] \in Nat /\ one(j) \in Nat /\ clears \in Nat /\ log \in [Recent(s) -> Keys]
    BY <1>1 DEF WindowTypes
  <2>1. CASE Begin(e) < s
    <3>1. Begin(a) < s
      <4>1. a \in Nat /\ (a = e \/ a < e)
        BY <1>2, AreaBegins
      <4>2. Begin(a) \in Nat /\ (a < e => Begin(a) < Begin(e))
        BY <4>1, BeginOrder
      <4> QED  BY <1>1, <1>3, <2>1, <4>1, <4>2
    <3>2. PICK q \in Nat : HoldsEpoch(a, q)
      BY <1>1, <3>1 DEF AreaRight
    <3>3. q = e
      <4>1. Begin(q) < Begin(e + 1) /\ Begin(e) < Begin(q + 4)
        <5>1. Begin(q) \in Nat /\ Begin(q + 4) \in Nat /\ Begin(q) < s /\ s <= Begin(q + 4)
          BY <3>2, BeginOrder DEF HoldsEpoch
        <5> QED  BY <1>1, <1>2, <1>3, <2>1, <5>1
      <4>2. q < e + 1 /\ e < q + 4
        BY <4>1, BeginOrder
      <4> QED  BY <1>2, <3>2, <4>2 DEF HoldsEpoch
    <3>4. ~NewEpoch
      BY <1>2, <3>2, <3>3 DEF HoldsEpoch, NewEpoch
    <3>5. held'[a][j] = held[a][j] + one(j)
      BY <1>4, <3>4
    <3>6. card(j) <= held[a][j] /\ (e >= 4 \/ clears = 0 => card(j) = held[a][j])
      BY <3>2, <3>3 DEF HoldsEpoch
    <3> HIDE DEF card, one
    <3> QED  BY <1>5, <2>0, <3>5, <3>6
  <2>2. CASE s = Begin(e)
    <3>1. card(j) = 0
      <4>1. Came(log, j, e) = {}
        BY <1>1, <1>3, <2>0, <2>2 DEF Came, Recent
      <4> QED  BY <4>1, FS_EmptySet
    <3>2. CASE e >= 4
      <4>1. Begin(a) < s
        BY <1>3, <2>2, <3>2, AreaBegins, BeginOrder
      <4>2. PICK q \in Nat : HoldsEpoch(a, q)
        BY <1>1, <4>1 DEF AreaRight
      <4>3. q = e - 4
        <5>1. q < e
          BY <2>2, <4>2, BeginOrder DEF HoldsEpoch
        <5>2. ~(q + 4 < e)
          BY <1>1, <1>3, <2>2, <4>2, BeginOrder DEF HoldsEpoch
        <5> QED  BY <1>2, <4>2, <5>1, <5>2 DEF HoldsEpoch
      <4>4. NewEpoch
        <5>1. epoches[a] = (e - 4) % EPOCHS
          BY <4>2, <4>3 DEF HoldsEpoch
        <5>2. (e - 4) % EPOCHS # e % EPOCHS
          <6>1. 4 \in 0 .. 4 /\ 4 <= e /\ EPOCHS \in Nat /\ EPOCHS > 4
            BY <3>2, EpochAssumption DEF AREA_NUM
          <6>2. (e - 4) % EPOCHS = IF 4 <= e % EPOCHS THEN (e % EPOCHS) - 4
                                   ELSE (e % EPOCHS) - 4 + EPOCHS
            BY <6>1, NarrowEpoch
          <6>3. e % EPOCHS \in Int
            BY <1>2
          <6> QED  BY <6>1, <6>2, <6>3
        <5> QED  BY <1>2, <5>1, <5>2 DEF NewEpoch
      <4>5. held'[a][j] = one(j)
        BY <1>4, <2>0, <4>4
      <4> HIDE DEF card, one
      <4> QED  BY <2>0, <3>1, <4>5
    <3>3. CASE e < 4
      <4>1. a = e
        BY <1>2, <3>3
      <4>2. clears = 0 => held[a][j] = 0
        BY <1>1, <1>3, <2>2, <4>1 DEF AreaRight
      <4>3. held'[a][j] = one(j) \/ held'[a][j] = held[a][j] + one(j)
        BY <1>4, <2>0
      <4> HIDE DEF card, one
      <4> QED  BY <2>0, <3>1, <3>3, <4>2, <4>3
    <3> QED  BY <3>2, <3>3
  <2> QED  BY <1>1, <1>2, <1>3, <2>1, <2>2
<1>7. /\ e % 4 = a /\ Begin(e) < sequence' /\ sequence' <= Begin(e + 4)
      /\ epoches'[a] = e % EPOCHS
  BY <1>1, <1>2, <1>3, <1>4
<1>8. \A j \in Keys :
        /\ Cardinality(Came(log', j, e)) <= held'[a][j]
        /\ e >= 4 \/ clears' = 0 => Cardinality(Came(log', j, e)) = held'[a][j]
  <2> HIDE DEF card, one
  <2> QED  BY <1>4, <1>5, <1>6
<1> QED  BY <1>7, <1>8 DEF HoldsEpoch

(* The other areas keep what they hold, and their epochs remain the last.  *)
LEMMA OtherAreasKeep ==
  ASSUME WindowInv, NEW k \in Keys, InsertKey(k), NEW i \in Areas, i # area_pos
  PROVE  AreaRight(i)'
<1> DEFINE s == sequence
           e == epoch_seq
<1>1. s \in Nat /\ WindowTypes /\ AreaRight(i)
  BY DEF WindowInv, WindowTypes
<1>2. /\ e \in Nat /\ Begin(e) <= s /\ s < Begin(e + 1)
      /\ area_pos = e % 4 /\ area_pos \in Areas
  BY <1>1, WhereInsertIs
<1>3. s' = s + 1 /\ clears' = clears /\ epoches'[i] = epoches[i] /\ held'[i] = held[i]
  BY <1>1, <1>2 DEF InsertKey, EnterEpoch, WindowTypes
<1> HIDE DEF e
<1>4. s # Begin(i)
  <2>1. CASE s = Begin(i)
    <3>1. i \in Nat /\ Begin(e) <= Begin(i) /\ Begin(i) < Begin(e + 1) /\ Begin(i) < Begin(i + 1)
      <4>1. i \in Nat /\ Begin(i + 1) = Begin(i) + window_size
        BY AreaBegins, BeginOrder
      <4> QED  BY <1>1, <1>2, <2>1, <4>1, WindowAssumption
    <3>2. e < i + 1 /\ i < e + 1
      BY <1>1, <1>2, <2>1, <3>1, BeginsBefore
    <3>3. i = e
      BY <1>2, <3>2, AreaBegins
    <3> QED  BY <1>2, <3>3, AreaBegins
  <2> QED  BY <2>1
<1>5. CASE Begin(i) < s
  <2>1. PICK q \in Nat : HoldsEpoch(i, q)
    BY <1>1, <1>5 DEF AreaRight
  <2>2. q # e /\ q + 4 # e
    BY <1>2, <2>1 DEF HoldsEpoch
  <2>3. s < Begin(q + 4)
    <3>1. CASE s = Begin(q + 4)
      <4>1. s < Begin((q + 4) + 1)
        <5>1. Begin((q + 4) + 1) = Begin(q + 4) + window_size
          BY BeginOrder
        <5> QED  BY <1>1, <3>1, <5>1, WindowAssumption
      <4>2. e < (q + 4) + 1 /\ q + 4 < e + 1
        BY <1>1, <1>2, <3>1, <4>1, BeginsBefore
      <4> QED  BY <1>2, <2>2, <4>2
    <3>2. s <= Begin(q + 4) /\ Begin(q + 4) \in Nat
      BY <2>1, BeginOrder DEF HoldsEpoch
    <3> QED  BY <1>1, <3>1, <3>2
  <2>4. Begin(q) < s /\ Begin(q + 1) <= s
    <3>1. Begin(q) < s /\ Begin(q) \in Nat /\ Begin(q + 1) \in Nat
          /\ Begin(e) \in Nat /\ Begin(e + 1) \in Nat
      BY <1>2, <2>1, BeginOrder DEF HoldsEpoch
    <3>2. q < e + 1
      BY <1>1, <1>2, <3>1, BeginOrder
    <3>3. q < e
      BY <1>2, <2>2, <3>2
    <3>4. Begin(q + 1) <= Begin(e)
      BY <1>2, <3>3, BeginOrder
    <3> QED  BY <1>1, <1>2, <3>1, <3>4
  <2>5. \A j \in Keys : Came(log', j, q) = Came(log, j, q)
    <3> TAKE j \in Keys
    <3>1. ~(s < Begin(q + 1))
      BY <1>1, <2>4, BeginOrder
    <3>2. Came(log', j, q) =
            Came(log, j, q) \cup
              (IF j = k /\ Begin(q) <= s /\ s < Begin(q + 1) THEN {s + 1} ELSE {})
      BY <1>1, <2>3, NextKeyCame
    <3> QED  BY <3>1, <3>2
  <2>6. Begin(q) < s' /\ s' <= Begin(q + 4)
    BY <1>1, <1>3, <2>3, <2>4, BeginOrder
  <2>7. HoldsEpoch(i, q)'
    BY <1>3, <2>1, <2>5, <2>6 DEF HoldsEpoch
  <2>8. ~(sequence' <= Begin(i))
    BY <1>1, <1>3, <1>5, AreaBegins
  <2> QED  BY <2>7, <2>8 DEF AreaRight
<1>6. CASE s < Begin(i)
  <2>1. ~(Begin(i) < sequence')
    BY <1>1, <1>3, <1>6, AreaBegins
  <2> QED  BY <1>1, <1>3, <1>6, <2>1, AreaBegins DEF AreaRight
<1> QED  BY <1>1, <1>4, <1>5, <1>6, AreaBegins

LEMMA WindowInsert ==
  ASSUME WindowInv, NEW k \in Keys, InsertKey(k) PROVE WindowInv'
<1>1. WindowTypes /\ sequence \in Nat
  BY DEF WindowInv, WindowTypes
<1>2. /\ epoch_seq \in Nat /\ epoch_seq16 \in Nat /\ area_pos \in Areas
      /\ area_pos = epoch_seq % 4 /\ Begin(epoch_seq) <= sequence
  BY <1>1, WhereInsertIs
<1>3. WindowTypes'
  <2>1. sequence' \in Nat /\ clears' \in Nat
    BY <1>1 DEF InsertKey, EnterEpoch, WindowTypes
  <2>2. epoches' \in [Areas -> Nat]
    BY <1>1, <1>2 DEF InsertKey, EnterEpoch, WindowTypes
  <2>3. held' \in [Areas -> [Keys -> Nat]]
    <3>1. \A j \in Keys : (IF NewEpoch THEN 0 ELSE held[area_pos][j]) + (IF j = k THEN 1 ELSE 0) \in Nat
      BY <1>1, <1>2 DEF WindowTypes
    <3>2. [j \in Keys |-> (IF NewEpoch THEN 0 ELSE held[area_pos][j]) + (IF j = k THEN 1 ELSE 0)]
            \in [Keys -> Nat]
      BY <3>1
    <3> QED  BY <1>1, <1>2, <3>2 DEF InsertKey, EnterEpoch, WindowTypes
  <2>4. log' \in [Recent(sequence') -> Keys]
    <3>1. sequence' = sequence + 1
      BY DEF InsertKey, EnterEpoch
    <3>2. \A n \in Recent(sequence + 1) : n # sequence + 1 => n \in Recent(sequence)
      BY <1>1, WindowAssumption DEF Recent, AREA_NUM
    <3>3. \A n \in Recent(sequence + 1) : (IF n = sequence + 1 THEN k ELSE log[n]) \in Keys
      BY <1>1, <3>2 DEF WindowTypes
    <3> QED  BY <3>1, <3>3 DEF InsertKey
  <2> QED  BY <2>1, <2>2, <2>3, <2>4 DEF WindowTypes
<1>4. ASSUME NEW i \in Areas PROVE AreaRight(i)'
  <2>1. CASE i = area_pos
    <3>1. PICK e \in Nat : e = epoch_seq
      BY <1>2
    <3>2. HoldsEpoch(i, e)'
      BY <2>1, <3>1, OwnAreaCounts
    <3>3. Begin(i) < sequence'
      <4>1. i = e \/ i < e
        BY <1>2, <2>1, <3>1
      <4>2. Begin(i) <= Begin(e) /\ Begin(i) \in Nat /\ Begin(e) \in Nat
        <5>1. Begin(i) \in Nat /\ Begin(e) \in Nat /\ (i < e => Begin(i) < Begin(e))
          BY AreaBegins, BeginOrder
        <5> QED  BY <4>1, <5>1
      <4>3. sequence' = sequence + 1
        BY DEF InsertKey, EnterEpoch
      <4> QED  BY <1>1, <1>2, <3>1, <4>2, <4>3
    <3>4. ~(sequence' <= Begin(i))
      BY <1>3, <3>3, AreaBegins DEF WindowTypes
    <3> QED  BY <3>2, <3>4 DEF AreaRight
  <2>2. CASE i # area_pos
    BY <2>2, OtherAreasKeep
  <2> QED  BY <2>1, <2>2
<1> QED  BY <1>3, <1>4 DEF WindowInv

-----------------------------------------------------------------------------
(* Sums over the areas.                                                    *)

Term(f, S, i) == IF i \in S THEN f[i] ELSE 0
Total(f, S) == Term(f, S, 0) + Term(f, S, 1) + Term(f, S, 2) + Term(f, S, 3)

LEMMA TotalWithout ==
  ASSUME NEW f \in [Areas -> Int], NEW S \in SUBSET Areas, NEW x \in S
  PROVE  Total(f, S) = f[x] + Total(f, S \ {x})
<1>1. x \in 0 .. 3 /\ f[0] \in Int /\ f[1] \in Int /\ f[2] \in Int /\ f[3] \in Int
  BY DEF Areas, AREA_NUM
<1> QED  BY <1>1 DEF Total, Term

LEMMA TotalOfNone == ASSUME NEW f PROVE Total(f, {}) = 0
BY DEF Total, Term

LEMMA SumOfAreas ==
  ASSUME NEW f \in [Areas -> Int], NEW S \in SUBSET Areas
  PROVE  SumFunctionOnSet(f, S) = Total(f, S)
<1> DEFINE body(g, s) == IF s = {} THEN 0
                         ELSE f[CHOOSE x \in s : TRUE] + g[s \ {CHOOSE x \in s : TRUE}]
           Fix(g) == g = [s \in SUBSET S |-> body(g, s)]
           iter == CHOOSE g : Fix(g)
           sums == [s \in SUBSET S |-> Total(f, s)]
<1>1. SumFunctionOnSet(f, S) = iter[S]
  BY DEF SumFunctionOnSet, FoldFunctionOnSet, MapThenFoldSet
<1>2. \A s \in SUBSET S : s # {} =>
        /\ (CHOOSE x \in s : TRUE) \in s
        /\ s \ {CHOOSE x \in s : TRUE} \in SUBSET S
        /\ Total(f, s) = f[CHOOSE x \in s : TRUE] + Total(f, s \ {CHOOSE x \in s : TRUE})
  <2> TAKE s \in SUBSET S
  <2> HAVE s # {}
  <2> DEFINE x == CHOOSE y \in s : TRUE
  <2>1. x \in s
    OBVIOUS
  <2> HIDE DEF x
  <2>2. s \in SUBSET Areas /\ s \ {x} \in SUBSET S
    OBVIOUS
  <2>3. Total(f, s) = f[x] + Total(f, s \ {x})
    BY <2>1, <2>2, TotalWithout
  <2> QED  BY <2>1, <2>2, <2>3 DEF x
<1>3. Fix(sums)
  <2>1. \A s \in SUBSET S : sums[s] = body(sums, s)
    <3> TAKE s \in SUBSET S
    <3>1. CASE s = {}
      BY <3>1 DEF Total, Term
    <3>2. CASE s # {}
      BY <3>2, <1>2
    <3> QED  BY <3>1, <3>2
  <2> HIDE DEF body
  <2> QED  BY <2>1
<1>4. Fix(iter)
  <2> HIDE DEF Fix
  <2> QED  BY <1>3
<1> HIDE DEF iter
<1>5. \A s \in SUBSET S : iter[s] = body(iter, s)
  BY <1>4
<1> DEFINE Sum(s) == iter[s] = Total(f, s)
<1>6. \A s \in SUBSET S : (\A x \in s : Sum(s \ {x})) => Sum(s)
  <2> TAKE s \in SUBSET S
  <2> HAVE \A x \in s : Sum(s \ {x})
  <2>1. CASE s = {}
    BY <2>1, <1>5, TotalOfNone
  <2>2. CASE s # {}
    <3> DEFINE x == CHOOSE y \in s : TRUE
    <3>1. x \in s /\ s \ {x} \in SUBSET S /\ Total(f, s) = f[x] + Total(f, s \ {x})
      BY <2>2, <1>2
    <3>2. iter[s] = f[x] + iter[s \ {x}]
      BY <2>2, <1>5
    <3>3. iter[s \ {x}] = Total(f, s \ {x})
      BY <3>1
    <3> QED  BY <3>1, <3>2, <3>3
  <2> QED  BY <2>1, <2>2
<1> HIDE DEF Sum
<1>7. \A s \in SUBSET S : s = {} => Sum(s)
  BY <1>6
<1>8. \A s \in SUBSET S, a \in Areas : s \subseteq {a} => Sum(s)
  BY <1>6, <1>7
<1>9. \A s \in SUBSET S, a, b \in Areas : s \subseteq {a, b} => Sum(s)
  <2> TAKE s \in SUBSET S, a \in Areas, b \in Areas
  <2> HAVE s \subseteq {a, b}
  <2>1. \A x \in s : s \ {x} \in SUBSET S /\ (s \ {x} \subseteq {a} \/ s \ {x} \subseteq {b})
    OBVIOUS
  <2>2. \A x \in s : Sum(s \ {x})
    BY <2>1, <1>8
  <2> QED  BY <2>2, <1>6
<1>10. \A s \in SUBSET S, a, b, c \in Areas : s \subseteq {a, b, c} => Sum(s)
  <2> TAKE s \in SUBSET S, a \in Areas, b \in Areas, c \in Areas
  <2> HAVE s \subseteq {a, b, c}
  <2>1. \A x \in s : s \ {x} \in SUBSET S /\ (s \ {x} \subseteq {a, b} \/ s \ {x} \subseteq {b, c} \/ s \ {x} \subseteq {a, c})
    OBVIOUS
  <2>2. \A x \in s : Sum(s \ {x})
    BY <2>1, <1>9
  <2> QED  BY <2>2, <1>6
<1>11. Sum(S)
  <2>1. S \subseteq {0, 1, 2, 3}
    BY DEF Areas, AREA_NUM
  <2>2. \A x \in S : S \ {x} \in SUBSET S /\ (S \ {x} \subseteq {0,1,2} \/ S \ {x} \subseteq {1,2,3} \/ S \ {x} \subseteq {0,2,3} \/ S \ {x} \subseteq {0,1,3})
    BY <2>1
  <2>3. 0 \in Areas /\ 1 \in Areas /\ 2 \in Areas /\ 3 \in Areas
    BY DEF Areas, AREA_NUM
  <2>4. \A s \in SUBSET S :
          s \subseteq {0,1,2} \/ s \subseteq {1,2,3} \/ s \subseteq {0,2,3} \/ s \subseteq {0,1,3} => Sum(s)
    BY <2>3, <1>10
  <2>5. \A x \in S : Sum(S \ {x})
    BY <2>2, <2>4
  <2>6. S \in SUBSET S
    OBVIOUS
  <2> QED  BY <2>5, <2>6, <1>6
<1> QED  BY <1>1, <1>11 DEF Sum

-----------------------------------------------------------------------------
(* The keys k of a query over `time' epochs, and those of one area.        *)
Window(k, time) == {n \in DOMAIN log : log[n] = k /\ Reached(n, time)}
Part(k, time, i) == {n \in Window(k, time) : EpochOf(n) % 4 = i}

LEMMA WindowFinite ==
  ASSUME WindowTypes, NEW k \in Keys, NEW time \in Times
  PROVE  /\ IsFiniteSet(Window(k, time)) /\ Window(k, time) \in SUBSET (Nat \ {0})
         /\ \A i \in Areas : IsFiniteSet(Part(k, time, i))
<1>1. sequence \in Nat /\ DOMAIN log = Recent(sequence)
  BY DEF WindowTypes
<1>2. Window(k, time) \in SUBSET (1 .. sequence) /\ IsFiniteSet(1 .. sequence)
  BY <1>1, FS_Interval DEF Window, Recent
<1>3. IsFiniteSet(Window(k, time))
  BY <1>2, FS_Subset
<1>4. \A i \in Areas : Part(k, time, i) \in SUBSET Window(k, time)
  BY DEF Part
<1> QED  BY <1>1, <1>2, <1>3, <1>4, FS_Subset

(* A set is as large as its four parts.                                    *)
LEMMA FourParts ==
  ASSUME NEW A, NEW B, NEW C, NEW D, IsFiniteSet(A), IsFiniteSet(B), IsFiniteSet(C),
         IsFiniteSet(D), A \cap B = {}, (A \cup B) \cap C = {}, (A \cup B \cup C) \cap D = {}
  PROVE  Cardinality(A \cup B \cup C \cup D) =
           Cardinality(A) + Cardinality(B) + Cardinality(C) + Cardinality(D)
<1>1. Cardinality({}) = 0
  BY FS_EmptySet
<1>2. IsFiniteSet(A \cup B) /\ Cardinality(A \cup B) = Cardinality(A) + Cardinality(B) - Cardinality({})
  BY FS_Union
<1>3. IsFiniteSet(A \cup B \cup C) /\ Cardinality(A \cup B \cup C) = Cardinality(A \cup B) + Cardinality(C) - Cardinality({})
  BY <1>2, FS_Union
<1>4. Cardinality(A \cup B \cup C \cup D) = Cardinality(A \cup B \cup C) + Cardinality(D) - Cardinality({})
  BY <1>3, FS_Union
<1>5. Cardinality(A) \in Nat /\ Cardinality(B) \in Nat /\ Cardinality(C) \in Nat /\ Cardinality(D) \in Nat
  BY FS_CardinalityType
<1> QED  BY <1>1, <1>2, <1>3, <1>4, <1>5

LEMMA WindowInParts ==
  ASSUME WindowTypes, NEW k \in Keys, NEW time \in Times
  PROVE  InWindow(k, time) =
           Cardinality(Part(k, time, 0)) + Cardinality(Part(k, time, 1))
             + Cardinality(Part(k, time, 2)) + Cardinality(Part(k, time, 3))
<1> DEFINE P(i) == Part(k, time, i)
<1>1. 0 \in Areas /\ 1 \in Areas /\ 2 \in Areas /\ 3 \in Areas
  BY DEF Areas, AREA_NUM
<1>2. Window(k, time) \in SUBSET (Nat \ {0}) /\ \A i \in Areas : IsFiniteSet(P(i))
  BY WindowFinite
<1>3. \A n \in Window(k, time) : EpochOf(n) % 4 \in {0, 1, 2, 3}
  <2> TAKE n \in Window(k, time)
  <2>1. EpochOf(n) \in Nat
    BY <1>2, EpochOfKey
  <2> QED  BY <2>1
<1>4. Window(k, time) = P(0) \cup P(1) \cup P(2) \cup P(3)
  BY <1>3 DEF Part
<1>5. P(0) \cap P(1) = {} /\ (P(0) \cup P(1)) \cap P(2) = {}
      /\ (P(0) \cup P(1) \cup P(2)) \cap P(3) = {}
  BY DEF Part
<1>6. InWindow(k, time) = Cardinality(Window(k, time))
  BY DEF InWindow, Window
<1> HIDE DEF P
<1>7. Cardinality(P(0) \cup P(1) \cup P(2) \cup P(3)) =
        Cardinality(P(0)) + Cardinality(P(1)) + Cardinality(P(2)) + Cardinality(P(3))
  BY <1>1, <1>2, <1>5, FourParts
<1> QED  BY <1>4, <1>6, <1>7 DEF P

(* The epoch of an area is one of the last four.                           *)
LEMMA HeldEpochs ==
  ASSUME sequence \in Nat, NEW i, NEW q \in Nat, HoldsEpoch(i, q)
  PROVE  /\ epoch_seq \in Nat /\ q <= epoch_seq /\ epoch_seq <= q + 4
         /\ epoch_seq = q + 4 => sequence = Begin(epoch_seq)
<1> DEFINE s == sequence
           e == epoch_seq
<1>1. e \in Nat /\ Begin(e) <= s /\ s < Begin(e + 1) /\ Begin(e) \in Nat
  BY WhereInsertIs, BeginOrder
<1>2. /\ Begin(q) < s /\ s <= Begin(q + 4) /\ Begin(q) \in Nat /\ Begin(q + 4) \in Nat
      /\ Begin((q + 4) + 1) = Begin(q + 4) + window_size /\ window_size \in Nat \ {0}
  <2>1. Begin(q) < s /\ s <= Begin(q + 4)
    BY DEF HoldsEpoch
  <2>2. Begin((q + 4) + 1) = Begin(q + 4) + window_size
    BY BeginOrder
  <2>3. Begin(q) \in Nat /\ Begin(q + 4) \in Nat
    BY BeginOrder
  <2> QED  BY <2>1, <2>2, <2>3, WindowAssumption
<1> HIDE DEF e
<1>3. q < e + 1
  BY <1>1, <1>2, BeginsBefore
<1>4. e < (q + 4) + 1
  <2>1. s < Begin((q + 4) + 1)
    BY <1>2
  <2> QED  BY <1>1, <2>1, BeginsBefore
<1>5. e = q + 4 => s = Begin(e)
  BY <1>1, <1>2
<1> QED  BY <1>1, <1>3, <1>4, <1>5 DEF e

(* What a query can reach of an area.                                      *)
LEMMA PartOfArea ==
  ASSUME WindowInv, NEW k \in Keys, NEW time \in Times, NEW i \in Areas
  PROVE  /\ sequence <= Begin(i) => Part(k, time, i) = {}
         /\ \A q \in Nat : HoldsEpoch(i, q) =>
              /\ epoch_seq - time <= q => Part(k, time, i) = Came(log, k, q)
              /\ q < epoch_seq - time => Part(k, time, i) = {}
<1> DEFINE s == sequence
           e == epoch_seq
<1>1. s \in Nat /\ DOMAIN log = Recent(s) /\ time \in 0 .. 4 /\ i \in Nat /\ i < 4
      /\ window_size \in Nat \ {0}
  BY AreaBegins, WindowAssumption DEF WindowInv, WindowTypes, Times, AREA_NUM
<1>2. e \in Nat /\ Begin(e) <= s /\ s < Begin(e + 1) /\ Begin(e) \in Nat
      /\ (s % window_size = 0 <=> s = Begin(e))
  BY <1>1, WhereInsertIs, BeginOrder
<1> DEFINE p(n) == EpochOf(n)
<1>3. ASSUME NEW n \in Recent(s)
      PROVE  /\ n \in Nat \ {0} /\ n <= s /\ s < n + 4 * window_size
             /\ p(n) \in Nat /\ Begin(p(n)) < n /\ n <= Begin(p(n) + 1)
             /\ Begin(p(n)) \in Nat /\ Begin(p(n) + 1) = Begin(p(n)) + window_size
             /\ Reached(n, time) <=> p(n) >= e - time /\ (s = Begin(e) \/ p(n) > e - 4)
  <2>1. n \in Nat \ {0} /\ n <= s /\ s < n + 4 * window_size
    BY <1>1 DEF Recent, AREA_NUM
  <2>2. p(n) \in Nat /\ Begin(p(n)) < n /\ n <= Begin(p(n) + 1)
    BY <2>1, EpochOfKey
  <2>3. Reached(n, time) <=> p(n) >= e - time /\ (s = Begin(e) \/ p(n) > e - 4)
    BY <1>2 DEF Reached, EpochOf, AREA_NUM
  <2> QED  BY <2>1, <2>2, <2>3, BeginOrder
<1> HIDE DEF e, p
<1>4. ASSUME s <= Begin(i), NEW n \in Recent(s), p(n) % 4 = i PROVE FALSE
  <2>1. i <= p(n)
    BY <1>1, <1>3, <1>4
  <2>2. Begin(i) <= Begin(p(n)) /\ Begin(i) \in Nat
    <3>1. i = p(n) \/ i < p(n)
      BY <1>1, <1>3, <2>1
    <3>2. Begin(i) \in Nat /\ (i < p(n) => Begin(i) < Begin(p(n)))
      BY <1>1, <1>3, BeginOrder
    <3> QED  BY <1>3, <3>1, <3>2
  <2> QED  BY <1>1, <1>3, <1>4, <2>2
<1>5. ASSUME NEW q \in Nat, HoldsEpoch(i, q)
      PROVE  /\ q % 4 = i /\ q <= e /\ e <= q + 4 /\ Begin(q) < s
             /\ Begin(q) \in Nat /\ Begin(q + 1) = Begin(q) + window_size
             /\ \A n \in Recent(s) : p(n) % 4 = i =>
                  p(n) = q \/ (p(n) + 4 = q /\ ~Reached(n, time))
             /\ s = Begin(e) \/ q > e - 4
  <2>1. q % 4 = i /\ Begin(q) < s /\ s <= Begin(q + 4)
    BY <1>5 DEF HoldsEpoch
  <2>2. Begin(q) \in Nat /\ Begin(q + 1) = Begin(q) + window_size
        /\ Begin(q + 4) = Begin(q) + 4 * window_size
    BY BeginOrder
  <2>3. q <= e /\ e <= q + 4 /\ (e = q + 4 => s = Begin(e))
    BY <1>1, <1>5, HeldEpochs DEF e
  <2>5. s = Begin(e) \/ q > e - 4
    BY <1>2, <2>3
  <2>6. ASSUME NEW n \in Recent(s), p(n) % 4 = i
        PROVE  p(n) = q \/ (p(n) + 4 = q /\ ~Reached(n, time))
    <3>1. p(n) < q + 4
      <4>1. n - 1 \in Int /\ Begin(p(n)) <= n - 1 /\ n - 1 < Begin(q + 4)
        BY <1>1, <1>3, <2>1, <2>2
      <4> QED  BY <1>3, <4>1, BeginsBefore
    <3>2. q < p(n) + 5
      <4>1. Begin(p(n) + 5) = Begin(p(n) + 1) + 4 * window_size
        <5>1. Begin((p(n) + 1) + 4) = Begin(p(n) + 1) + 4 * window_size
          BY <1>3, BeginOrder
        <5>2. (p(n) + 1) + 4 = p(n) + 5
          BY <1>3
        <5> QED  BY <5>1, <5>2
      <4>2. Begin(q) < Begin(p(n) + 5)
        BY <1>1, <1>3, <2>1, <2>2, <4>1
      <4>3. p(n) + 5 \in Nat
        BY <1>3
      <4> QED  BY <2>2, <4>2, <4>3, BeginsBefore
    <3>3. p(n) = q \/ p(n) + 4 = q
      BY <1>3, <2>1, <2>6, <3>1, <3>2
    <3>4. ASSUME p(n) + 4 = q, Reached(n, time) PROVE FALSE
      <4>1. s = Begin(e)
        BY <1>2, <1>3, <2>3, <3>4
      <4>2. q < e
        BY <1>1, <1>2, <2>1, <2>2, <4>1, BeginsBefore
      <4>3. Begin(q) + window_size <= s
        BY <1>2, <4>1, <4>2, BeginOrder
      <4>4. Begin(q) = Begin(p(n)) + 4 * window_size
        BY <1>3, <3>4, BeginOrder
      <4> QED  BY <1>1, <1>3, <2>2, <4>3, <4>4
    <3> QED  BY <3>3, <3>4
  <2> QED  BY <1>2, <2>1, <2>2, <2>3, <2>5, <2>6
<1>6. ASSUME NEW q \in Nat, HoldsEpoch(i, q), e - time <= q
      PROVE  Part(k, time, i) = Came(log, k, q)
  <2>1. ASSUME NEW n \in Recent(s)
        PROVE  Reached(n, time) /\ p(n) % 4 = i <=> Begin(q) < n /\ n <= Begin(q + 1)
    <3>1. CASE p(n) = q
      <4>1. Reached(n, time)
        BY <1>3, <1>5, <1>6, <3>1
      <4> QED  BY <1>3, <1>5, <1>6, <3>1, <4>1
    <3>2. CASE p(n) # q
      <4>1. ~(Begin(q) < n /\ n <= Begin(q + 1))
        BY <1>3, <3>2, EpochOfKey DEF p
      <4>2. ~(Reached(n, time) /\ p(n) % 4 = i)
        BY <1>5, <1>6, <3>2
      <4> QED  BY <4>1, <4>2
    <3> QED  BY <3>1, <3>2
  <2> QED  BY <1>1, <2>1 DEF Part, Window, Came, p
<1>7. ASSUME NEW q \in Nat, HoldsEpoch(i, q), q < e - time
      PROVE  Part(k, time, i) = {}
  <2>1. ASSUME NEW n \in Recent(s), Reached(n, time), p(n) % 4 = i PROVE FALSE
    <3>1. p(n) = q
      BY <1>5, <1>7, <2>1
    <3> QED  BY <1>1, <1>2, <1>3, <1>7, <2>1, <3>1
  <2> QED  BY <1>1, <2>1 DEF Part, Window, p
<1>8. sequence <= Begin(i) => Part(k, time, i) = {}
  BY <1>1, <1>4 DEF Part, Window, p
<1> QED  BY <1>5, <1>6, <1>7, <1>8 DEF e

(* When a clear is long past, or there was none, areas hold what came.     *)
LEMMA SettledAreas ==
  ASSUME WindowInv, Settled, NEW k \in Keys, NEW i \in Areas
  PROVE  /\ sequence <= Begin(i) => held[i][k] = 0
         /\ \A q \in Nat : HoldsEpoch(i, q) => Cardinality(Came(log, k, q)) = held[i][k]
<1>1. sequence \in Nat /\ AreaRight(i)
  BY DEF WindowInv, WindowTypes
<1>2. CASE clears = 0
  BY <1>1, <1>2 DEF AreaRight, HoldsEpoch
<1>3. CASE clears # 0
  <2>1. Begin(7) < sequence /\ Begin(7) \in Nat
    <3>1. clears > 0
      BY <1>3 DEF WindowInv, WindowTypes
    <3>2. sequence > 7 * window_size
      BY <3>1 DEF Settled, AREA_NUM
    <3> QED  BY <1>1, <3>2, BeginSmall, WindowAssumption
  <2>2. ~(sequence <= Begin(i))
    <3>1. Begin(i) < Begin(7) /\ Begin(i) \in Nat
      <4>1. i \in Nat /\ i < 7
        BY AreaBegins
      <4> QED  BY <4>1, BeginOrder
    <3> QED  BY <1>1, <2>1, <3>1
  <2>3. ASSUME NEW q \in Nat, HoldsEpoch(i, q) PROVE q >= 4
    <3>1. sequence <= Begin(q + 4)
      BY <2>3 DEF HoldsEpoch
    <3>2. 7 < q + 4
      <4>1. Begin(7) < Begin(q + 4)
        BY <1>1, <2>1, <3>1, BeginOrder
      <4> QED  BY <4>1, BeginOrder
    <3> QED  BY <3>2
  <2> QED  BY <2>2, <2>3 DEF HoldsEpoch
<1> QED  BY <1>2, <1>3

(* The areas whose epoch is one of the last `time'.                        *)
Recents(S, time) ==
  \A i \in Areas, q \in Nat : HoldsEpoch(i, q) => (i \in S <=> epoch_seq - time <= q)

HeldOf(k) == [i \in Areas |-> held[i][k]]

LEMMA ShareOfArea ==
  ASSUME WindowInv, NEW k \in Keys, NEW time \in Times, NEW i \in Areas,
         NEW S \in SUBSET Areas, Recents(S, time)
  PROVE  /\ Term(HeldOf(k), S, i) \in Nat /\ Cardinality(Part(k, time, i)) \in Nat
         /\ Cardinality(Part(k, time, i)) <= Term(HeldOf(k), S, i)
         /\ Settled => Cardinality(Part(k, time, i)) = Term(HeldOf(k), S, i)
<1>1. /\ WindowTypes /\ AreaRight(i) /\ sequence \in Nat /\ held[i][k] \in Nat
      /\ Begin(i) \in Nat /\ epoch_seq \in Nat /\ time \in Int
  BY AreaBegins, WhereInsertIs DEF WindowInv, WindowTypes, Times
<1>2. Term(HeldOf(k), S, i) = IF i \in S THEN held[i][k] ELSE 0
  BY DEF Term, HeldOf
<1>3. Cardinality(Part(k, time, i)) \in Nat
  BY <1>1, WindowFinite, FS_CardinalityType
<1>4. CASE sequence <= Begin(i)
  <2>1. Cardinality(Part(k, time, i)) = 0
    BY <1>4, PartOfArea, FS_EmptySet
  <2>2. Settled => held[i][k] = 0
    BY <1>4, SettledAreas
  <2> QED  BY <1>1, <1>2, <2>1, <2>2
<1>5. CASE Begin(i) < sequence
  <2>1. PICK q \in Nat : HoldsEpoch(i, q)
    BY <1>1, <1>5 DEF AreaRight
  <2>2. Cardinality(Came(log, k, q)) <= held[i][k]
        /\ (Settled => Cardinality(Came(log, k, q)) = held[i][k])
    BY <2>1, SettledAreas DEF HoldsEpoch
  <2>3. CASE i \in S
    <3>1. Part(k, time, i) = Came(log, k, q)
      BY <2>1, <2>3, PartOfArea DEF Recents
    <3> QED  BY <1>1, <1>2, <1>3, <2>2, <2>3, <3>1
  <2>4. CASE i \notin S
    <3>1. q < epoch_seq - time
      BY <1>1, <2>1, <2>4 DEF Recents
    <3>2. Cardinality(Part(k, time, i)) = 0
      BY <2>1, <3>1, PartOfArea, FS_EmptySet
    <3> QED  BY <1>2, <2>4, <3>2
  <2> QED  BY <2>3, <2>4
<1> QED  BY <1>1, <1>4, <1>5

LEMMA SharesAddUp ==
  ASSUME WindowInv, NEW k \in Keys, NEW time \in Times,
         NEW S \in SUBSET Areas, Recents(S, time)
  PROVE  /\ InWindow(k, time) <= SumFunctionOnSet(HeldOf(k), S)
         /\ Settled => SumFunctionOnSet(HeldOf(k), S) = InWindow(k, time)
<1>1. WindowTypes /\ HeldOf(k) \in [Areas -> Int]
  BY DEF WindowInv, WindowTypes, HeldOf
<1>2. 0 \in Areas /\ 1 \in Areas /\ 2 \in Areas /\ 3 \in Areas
  BY DEF Areas, AREA_NUM
<1> DEFINE T(i) == Term(HeldOf(k), S, i)
           C(i) == Cardinality(Part(k, time, i))
<1>3. SumFunctionOnSet(HeldOf(k), S) = T(0) + T(1) + T(2) + T(3)
  BY <1>1, SumOfAreas DEF Total
<1>4. InWindow(k, time) = C(0) + C(1) + C(2) + C(3)
  BY <1>1, WindowInParts
<1>5. ASSUME NEW i \in Areas
      PROVE  T(i) \in Nat /\ C(i) \in Nat /\ C(i) <= T(i) /\ (Settled => C(i) = T(i))
  BY ShareOfArea
<1> HIDE DEF T, C
<1>6. /\ T(0) \in Nat /\ T(1) \in Nat /\ T(2) \in Nat /\ T(3) \in Nat
      /\ C(0) \in Nat /\ C(1) \in Nat /\ C(2) \in Nat /\ C(3) \in Nat
      /\ C(0) <= T(0) /\ C(1) <= T(1) /\ C(2) <= T(2) /\ C(3) <= T(3)
      /\ Settled => C(0) = T(0) /\ C(1) = T(1) /\ C(2) = T(2) /\ C(3) = T(3)
  BY <1>2, <1>5
<1> QED  BY <1>3, <1>4, <1>6

(* The test of a query picks just the areas of the last epochs, while the  *)
(* epoch fits into 16 bits; over four epochs, the narrow test always does. *)
LEMMA CountedRecents ==
  ASSUME WindowInv, NEW time \in Times, epoch_seq < EPOCHS
  PROVE  Recents({i \in Areas : Counted(i, time)}, time)
<1> SUFFICES ASSUME NEW i \in Areas, NEW q \in Nat, HoldsEpoch(i, q)
             PROVE  Counted(i, time) <=> epoch_seq - time <= q
  BY DEF Recents
<1>1. epoch_seq \in Nat /\ time \in Int
  BY WhereInsertIs DEF WindowInv, WindowTypes, Times
<1>2. q <= epoch_seq
  BY HeldEpochs DEF WindowInv, WindowTypes
<1>3. epoches[i] = q
  <2>1. q < EPOCHS
    BY <1>1, <1>2, EpochAssumption
  <2> QED  BY <2>1, NarrowEpoch DEF HoldsEpoch
<1> QED  BY <1>1, <1>3 DEF Counted

LEMMA Counted16Recents ==
  ASSUME WindowInv
  PROVE  Recents({i \in Areas : Counted16(i, AREA_NUM)}, AREA_NUM)
<1> SUFFICES ASSUME NEW i \in Areas, NEW q \in Nat, HoldsEpoch(i, q)
             PROVE  Counted16(i, AREA_NUM) /\ epoch_seq - AREA_NUM <= q
  BY DEF Recents
<1>1. epoch_seq \in Nat /\ epoch_seq16 = epoch_seq % EPOCHS /\ 4 \in Times /\ AREA_NUM = 4
      /\ EPOCHS \in Nat
  BY WhereInsertIs, EpochAssumption DEF WindowInv, WindowTypes, Times, AREA_NUM
<1>2. q <= epoch_seq /\ epoch_seq <= q + 4
  BY HeldEpochs DEF WindowInv, WindowTypes
<1>3. epoches[i] = q % EPOCHS
  BY DEF HoldsEpoch
<1>4. PICK t \in 0 .. 4 : q = epoch_seq - t /\ t <= epoch_seq
  BY <1>1, <1>2
<1> DEFINE r == epoch_seq % EPOCHS
<1>5. q % EPOCHS = (IF t <= r THEN r - t ELSE r - t + EPOCHS) /\ r \in 0 .. EPOCHS - 1
  BY <1>1, <1>4, NarrowEpoch
<1> HIDE DEF r
<1>6. epoches[i] >= r - 4
  BY <1>1, <1>3, <1>5
<1>7. Counted16(i, AREA_NUM)
  BY <1>1, <1>6 DEF Counted16, r
<1> QED  BY <1>1, <1>2, <1>7

LEMMA WindowInvExact == WindowInv => WindowExact
<1> SUFFICES ASSUME WindowInv PROVE WindowExact
  OBVIOUS
<1>1. QueryExact
  <2> SUFFICES ASSUME epoch_seq < EPOCHS, NEW k \in Keys, NEW time \in Times
               PROVE  /\ CountedHeld(k, time) >= InWindow(k, time)
                      /\ Settled => CountedHeld(k, time) = InWindow(k, time)
    BY DEF QueryExact
  <2> DEFINE S == {i \in Areas : Counted(i, time)}
  <2>1. S \in SUBSET Areas /\ Recents(S, time)
    BY CountedRecents
  <2>2. CountedHeld(k, time) = SumFunctionOnSet(HeldOf(k), S)
    BY DEF CountedHeld, HeldOf
  <2> HIDE DEF S
  <2>3. /\ InWindow(k, time) <= CountedHeld(k, time)
        /\ Settled => CountedHeld(k, time) = InWindow(k, time)
    BY <2>1, <2>2, SharesAddUp
  <2>4. InWindow(k, time) <= CountedHeld(k, time) <=> CountedHeld(k, time) >= InWindow(k, time)
    OBVIOUS
  <2> QED  BY <2>3, <2>4
<1>2. QueryExact16
  <2> SUFFICES ASSUME Settled, NEW k \in Keys
               PROVE  CountedHeld16(k, AREA_NUM) = InWindow(k, AREA_NUM)
    BY DEF QueryExact16
  <2> DEFINE S == {i \in Areas : Counted16(i, AREA_NUM)}
  <2>1. S \in SUBSET Areas /\ Recents(S, AREA_NUM) /\ AREA_NUM \in Times
    BY Counted16Recents DEF Times, AREA_NUM
  <2>2. CountedHeld16(k, AREA_NUM) = SumFunctionOnSet(HeldOf(k), S)
    BY DEF CountedHeld16, HeldOf
  <2> HIDE DEF S
  <2> QED  BY <2>1, <2>2, SharesAddUp
<1> QED  BY <1>1, <1>2 DEF WindowExact

-----------------------------------------------------------------------------
(* The cells.                                                              *)

CellType == [flowkey : Keys \cup {NoKey}, count : Nat]

Types ==
  /\ sequence \in Nat
  /\ epoches \in [Areas -> Nat]
  /\ held \in [Areas -> [Keys -> Nat]]
  /\ counters \in [Areas -> [Rows -> [Cols -> CellType]]]

(* A key alone on its cell in row r is counted there, up to CAP.           *)
Counts(r, k, cell, shown) ==
  (\A j \in Keys \ {k} : hash[r][j] = hash[r][k] => shown[j] = 0) =>
    \/ shown[k] = 0
    \/ cell.flowkey = k /\ (cell.count >= shown[k] \/ cell.count >= CAP)

LoneKeysCount ==
  \A i \in Areas, r \in Rows, k \in Keys :
    Counts(r, k, counters[i][r][hash[r][k]], held[i])

HKInv == Types /\ NoInheritance /\ LoneKeysCount

(* What CellOK says of a cell in column c of row r, and of what its area   *)
(* has seen.                                                               *)
Fits(r, c, cell, shown) ==
  IF cell.flowkey = NoKey THEN cell.count = 0
  ELSE /\ cell.flowkey \in Keys
       /\ hash[r][cell.flowkey] = c
       /\ cell.count \in 1 .. shown[cell.flowkey]

AreaFits(area, shown) ==
  /\ \A r \in Rows, c \in Cols : Fits(r, c, area[r][c], shown)
  /\ \A r \in Rows, k \in Keys : Counts(r, k, area[r][hash[r][k]], shown)

(* One key more, seen by an area.                                          *)
SeenMore(shown, k) == [shown EXCEPT ![k] = @ + 1]

(* One more insertion of k, and no other key's count changes.              *)
LEMMA SeenMoreCounts ==
  ASSUME NEW shown \in [Keys -> Nat], NEW k \in Keys
  PROVE  /\ SeenMore(shown, k) \in [Keys -> Nat]
         /\ SeenMore(shown, k)[k] = shown[k] + 1
         /\ \A j \in Keys : shown[j] \in Nat /\ shown[j] <= SeenMore(shown, k)[j]
BY DEF SeenMore

(* The same, written as AreaRing writes it.                                *)
LEMMA SeenMoreByKey ==
  ASSUME NEW shown \in [Keys -> Nat], NEW k \in Keys
  PROVE  SeenMore(shown, k) = [j \in Keys |-> shown[j] + (IF j = k THEN 1 ELSE 0)]
<1>1. ASSUME NEW j \in Keys
      PROVE  SeenMore(shown, k)[j] = shown[j] + (IF j = k THEN 1 ELSE 0)
  <2>1. CASE j = k
    BY <2>1 DEF SeenMore
  <2>2. CASE j # k
    BY <2>2 DEF SeenMore
  <2> QED  BY <2>1, <2>2
<1> QED  BY <1>1 DEF SeenMore

(* What fits before another insertion fits after it.                       *)
LEMMA FitsMore ==
  ASSUME NEW shown \in [Keys -> Nat], NEW k \in Keys, NEW r \in Rows, NEW c \in Cols,
         NEW cell \in CellType, Fits(r, c, cell, shown)
  PROVE  Fits(r, c, cell, SeenMore(shown, k))
<1>1. CASE cell.flowkey = NoKey
  BY <1>1 DEF Fits
<1>2. CASE cell.flowkey # NoKey
  <2>1. cell.flowkey \in Keys /\ hash[r][cell.flowkey] = c
        /\ cell.count \in 1 .. shown[cell.flowkey]
    BY <1>2 DEF Fits
  <2>2. cell.count \in 1 .. SeenMore(shown, k)[cell.flowkey]
    <3>1. cell.count \in Nat /\ shown[cell.flowkey] \in Nat
      BY <2>1 DEF CellType
    <3>2. SeenMore(shown, k)[cell.flowkey] \in Nat
      BY <2>1, SeenMoreCounts
    <3> QED  BY <2>1, <3>1, <3>2, SeenMoreCounts
  <2> QED  BY <1>2, <2>1, <2>2 DEF Fits
<1> QED  BY <1>1, <1>2

(* A cell that counts for key j, at least one and at most its insertions.  *)
LEMMA FitsOwn ==
  ASSUME NEW shown \in [Keys -> Nat], NEW j \in Keys, NEW r \in Rows,
         NEW n \in 1 .. shown[j]
  PROVE  LET cell == [flowkey |-> j, count |-> n]
         IN  cell \in CellType /\ Fits(r, hash[r][j], cell, shown)
<1>1. j # NoKey /\ n \in Nat
  BY KeyAssumption
<1> QED  BY <1>1 DEF Fits, CellType

(* The loop body of insert makes a fitting cell of a fitting one, whether  *)
(* it counts, decays or is taken over.                                     *)
LEMMA UpdatedFits ==
  ASSUME NEW shown \in [Keys -> Nat], NEW k \in Keys, NEW r \in Rows,
         NEW cell \in CellType, Fits(r, hash[r][k], cell, shown),
         NEW u \in Updated(cell, k)
  PROVE  u \in CellType /\ Fits(r, hash[r][k], u, SeenMore(shown, k))
<1> DEFINE more == SeenMore(shown, k)
           own(j, n) == [flowkey |-> j, count |-> n]
<1>0. more \in [Keys -> Nat] /\ more[k] = shown[k] + 1
      /\ \A j \in Keys : shown[j] \in Nat /\ shown[j] <= more[j]
  BY SeenMoreCounts
<1>1. \A j \in Keys, n \in Nat \ {0} :
        n <= more[j] =>
          own(j, n) \in CellType /\ Fits(r, hash[r][j], own(j, n), more)
  BY <1>0, FitsOwn
<1>2. cell = own(cell.flowkey, cell.count) /\ cell.count \in Nat
  BY DEF CellType
<1>3. cell.count # 0 =>
        /\ cell.flowkey \in Keys /\ hash[r][cell.flowkey] = hash[r][k]
        /\ cell.count <= shown[cell.flowkey]
  BY <1>0, <1>2 DEF Fits
<1> HIDE DEF more
<1>4. CASE cell.count = 0
  <2>1. u = own(k, 1)
    BY <1>4 DEF Updated, TakenOver
  <2> QED  BY <1>0, <1>1, <2>1 DEF more
<1>5. CASE cell.count # 0 /\ cell.flowkey = k
  <2>1. u = own(k, cell.count) \/ u = own(k, cell.count + 1)
    BY <1>2, <1>5 DEF Updated, Grown
  <2> QED  BY <1>0, <1>1, <1>2, <1>3, <1>5, <2>1 DEF more
<1>6. CASE cell.count # 0 /\ cell.flowkey # k
  <2>1. PICK v \in {own(cell.flowkey, cell.count - 1), cell} : u = TakenOver(v, k)
    <3>1. [cell EXCEPT !.count = @ - 1] = own(cell.flowkey, cell.count - 1)
      BY <1>2
    <3> QED  BY <1>6, <3>1 DEF Updated, Decayed
  <2>2. v = own(cell.flowkey, v.count) /\ v.count \in 0 .. cell.count
    BY <1>2, <1>6, <2>1
  <2>3. CASE v.count = 0
    <3>1. u = own(k, 1)
      BY <2>1, <2>3 DEF TakenOver
    <3> QED  BY <1>0, <1>1, <3>1 DEF more
  <2>4. CASE v.count # 0
    <3>1. u = own(cell.flowkey, v.count)
      BY <2>1, <2>2, <2>4 DEF TakenOver
    <3>2. v.count \in Nat \ {0} /\ v.count <= more[cell.flowkey]
      BY <1>0, <1>2, <1>3, <1>6, <2>2, <2>4
    <3> QED  BY <1>1, <1>3, <1>6, <3>1, <3>2 DEF more
  <2> QED  BY <2>3, <2>4
<1> QED  BY <1>2, <1>4, <1>5, <1>6

(* Nor does it miss a key that is alone, its own or another's.             *)
LEMMA UpdatedCounts ==
  ASSUME NEW shown \in [Keys -> Nat], NEW k \in Keys, NEW j \in Keys, NEW r \in Rows,
         NEW cell \in CellType, Fits(r, hash[r][j], cell, shown), Counts(r, j, cell, shown),
         NEW u, IF hash[r][k] = hash[r][j] THEN u \in Updated(cell, k) ELSE u = cell
  PROVE  Counts(r, j, u, SeenMore(shown, k))
<1> DEFINE more == SeenMore(shown, k)
<1>0. more \in [Keys -> Nat] /\ more[k] = shown[k] + 1
      /\ \A m \in Keys : shown[m] \in Nat /\ shown[m] <= more[m]
  BY SeenMoreCounts
<1>1. j # k => more[j] = shown[j]
  BY DEF SeenMore
<1> HIDE DEF more
<1> SUFFICES ASSUME \A m \in Keys \ {j} : hash[r][m] = hash[r][j] => more[m] = 0
             PROVE  \/ more[j] = 0
                    \/ u.flowkey = j /\ (u.count >= more[j] \/ u.count >= CAP)
  BY DEF Counts, more
<1>2. \A m \in Keys \ {j} : hash[r][m] = hash[r][j] => shown[m] = 0
  BY <1>0
<1>3. shown[j] = 0 \/ (cell.flowkey = j /\ (cell.count >= shown[j] \/ cell.count >= CAP))
  BY <1>2 DEF Counts
<1>4. cell.count \in Nat /\ shown[j] \in Nat /\ CAP \in Nat \ {0}
  BY <1>0, CapAssumption DEF CellType
<1>5. CASE hash[r][k] # hash[r][j]
  <2>1. u = cell /\ more[j] = shown[j]
    BY <1>1, <1>5
  <2> QED  BY <1>3, <2>1
<1>6. CASE hash[r][k] = hash[r][j]
  <2>1. j = k
    <3>1. CASE j # k
      <4>1. more[k] = 0 /\ more[k] = shown[k] + 1 /\ shown[k] \in Nat
        BY <1>0, <1>6, <3>1
      <4> QED  BY <4>1
    <3> QED  BY <3>1
  <2>2. u \in Updated(cell, j) /\ more[j] = shown[j] + 1
    BY <1>0, <1>6, <2>1
  <2>3. CASE cell.count = 0
    <3>1. shown[j] = 0
      BY <1>3, <1>4, <2>3
    <3>2. u.flowkey = j /\ u.count = 1
      BY <2>2, <2>3 DEF Updated, TakenOver
    <3> QED  BY <2>2, <3>1, <3>2
  <2>4. CASE cell.count # 0
    <3>1. cell.flowkey = j /\ shown[j] # 0
      BY <1>2, <1>4, <2>4 DEF Fits
    <3>2. u \in Grown(cell)
      BY <2>2, <2>4, <3>1 DEF Updated
    <3>3. CASE u = [cell EXCEPT !.count = @ + 1]
      <4>1. u.flowkey = j /\ u.count = cell.count + 1
        BY <3>1, <3>3 DEF CellType
      <4> QED  BY <1>3, <1>4, <2>2, <3>1, <4>1
    <3>4. CASE u = cell /\ ~(cell.count < CAP)
      BY <1>4, <3>1, <3>4
    <3> QED  BY <3>2, <3>3, <3>4 DEF Grown
  <2> QED  BY <2>3, <2>4
<1> QED  BY <1>5, <1>6

(* The invariant holds of the zeroed sketch.                               *)
LEMMA HKInit == Init => HKInv
<1> SUFFICES ASSUME Init PROVE HKInv
  OBVIOUS
<1> USE DEF Init, WindowInit, AreaInit, EmptyCell
<1>1. Types
  BY DEF Types, CellType
<1>2. NoInheritance
  BY DEF NoInheritance, CellOK
<1>3. LoneKeysCount
  BY DEF LoneKeysCount, Counts
<1> QED  BY <1>1, <1>2, <1>3 DEF HKInv

(* It survives an insertion, into an area in use and into one that starts  *)
(* a new epoch.                                                            *)
LEMMA HKInsert ==
  ASSUME HKInv, NEW k \in Keys, insert(k) PROVE HKInv'
<1> DEFINE area == IF NewEpoch THEN [r \in Rows |-> [c \in Cols |-> EmptyCell]] ELSE counters[area_pos]
           shown == IF NewEpoch THEN [j \in Keys |-> 0] ELSE held[area_pos]
<1>1. area_pos \in Areas /\ epoch_seq16 \in Nat /\ sequence' \in Nat
  <2>0. sequence \in Nat
    BY DEF HKInv, Types
  <2>1. epoch_seq \in Nat
    BY <2>0, WindowAssumption DEF epoch_seq
  <2>2. epoch_seq16 \in Nat
    <3>1. EPOCHS \in Nat \ {0}
      BY EpochAssumption DEF AREA_NUM
    <3> QED  BY <2>1, <3>1 DEF epoch_seq16
  <2>3. area_pos \in Areas
    BY <2>2 DEF area_pos, Areas, AREA_NUM
  <2> QED  BY <2>0, <2>2, <2>3 DEF insert, InsertKey, EnterEpoch
<1>2. area \in [Rows -> [Cols -> CellType]] /\ shown \in [Keys -> Nat]
  BY <1>1 DEF HKInv, Types, EmptyCell, CellType
<1>3. AreaFits(area, shown)
  <2>1. CASE NewEpoch
    BY <2>1, KeyAssumption DEF AreaFits, Fits, Counts, EmptyCell
  <2>2. CASE ~NewEpoch
    <3>1. area = counters[area_pos] /\ shown = held[area_pos]
      BY <2>2
    <3> HIDE DEF area, shown
    <3>2. \A r \in Rows, c \in Cols : Fits(r, c, area[r][c], shown)
      BY <3>1, <1>1 DEF HKInv, NoInheritance, CellOK, Fits
    <3>3. \A r \in Rows, j \in Keys : Counts(r, j, area[r][hash[r][j]], shown)
      BY <3>1, <1>1 DEF HKInv, LoneKeysCount
    <3> QED  BY <3>2, <3>3 DEF AreaFits
  <2> QED  BY <2>1, <2>2
<1>4. held' = [held EXCEPT ![area_pos] = SeenMore(shown, k)]
  <2>1. SeenMore(shown, k) =
          [j \in Keys |-> (IF NewEpoch THEN 0 ELSE held[area_pos][j]) + (IF j = k THEN 1 ELSE 0)]
    <3>1. \A j \in Keys : shown[j] \in Nat
                         /\ shown[j] = IF NewEpoch THEN 0 ELSE held[area_pos][j]
      BY <1>2
    <3>2. shown \in [Keys -> Nat]
      BY <1>2
    <3> HIDE DEF shown
    <3>3. SeenMore(shown, k) = [j \in Keys |-> shown[j] + (IF j = k THEN 1 ELSE 0)]
      BY <3>2, SeenMoreByKey
    <3> QED  BY <3>1, <3>3
  <2>2. held' = [held EXCEPT ![area_pos] =
          [j \in Keys |-> (IF NewEpoch THEN 0 ELSE held[area_pos][j]) + (IF j = k THEN 1 ELSE 0)]]
    BY <1>1 DEF insert, InsertKey, EnterEpoch, HKInv, Types
  <2> QED  BY <2>1, <2>2
<1>5. PICK drawn : /\ \A r \in Rows : drawn[r] \in Updated(area[r][hash[r][k]], k)
                   /\ counters' = [counters EXCEPT ![area_pos] =
                        [r \in Rows |-> [area[r] EXCEPT ![hash[r][k]] = drawn[r]]]]
  BY DEF insert, StoreRows
<1> DEFINE after == [r \in Rows |-> [area[r] EXCEPT ![hash[r][k]] = drawn[r]]]
<1> HIDE DEF area, shown
<1>6. ASSUME NEW r \in Rows, NEW c \in Cols
      PROVE  after[r][c] \in CellType /\ Fits(r, c, after[r][c], SeenMore(shown, k))
  <2>1. Fits(r, c, area[r][c], shown) /\ area[r][c] \in CellType
    BY <1>2, <1>3 DEF AreaFits
  <2>2. CASE c = hash[r][k]
    <3>1. drawn[r] \in Updated(area[r][c], k)
      BY <1>5, <2>2
    <3>2. after[r][c] = drawn[r]
      BY <1>2, <2>2
    <3> QED  BY <1>2, <2>1, <2>2, <3>1, <3>2, UpdatedFits
  <2>3. CASE c # hash[r][k]
    <3>1. after[r][c] = area[r][c]
      BY <1>2, <2>3
    <3> QED  BY <1>2, <2>1, <3>1, FitsMore
  <2> QED  BY <2>2, <2>3
<1>7. after \in [Rows -> [Cols -> CellType]]
  <2>1. \A r \in Rows : after[r] = [area[r] EXCEPT ![hash[r][k]] = drawn[r]]
    OBVIOUS
  <2>2. \A r \in Rows : after[r] = [c \in Cols |-> after[r][c]]
    BY <1>2, <2>1
  <2>3. \A r \in Rows : after[r] \in [Cols -> CellType]
    BY <1>6, <2>2
  <2> QED  BY <2>3
<1>10. ASSUME NEW r \in Rows, NEW j \in Keys
       PROVE  Counts(r, j, after[r][hash[r][j]], SeenMore(shown, k))
  <2> DEFINE c == hash[r][j]
             cell == area[r][c]
             u == after[r][c]
  <2>1. c \in Cols /\ hash[r][k] \in Cols
    BY HashAssumption
  <2>2. cell \in CellType /\ Fits(r, c, cell, shown) /\ Counts(r, j, cell, shown)
    BY <1>2, <1>3, <2>1 DEF AreaFits
  <2>3. IF hash[r][k] = c THEN u \in Updated(cell, k) ELSE u = cell
    <3>1. area[r] \in [Cols -> CellType]
      BY <1>2
    <3>2. CASE hash[r][k] = c
      <4>1. u = drawn[r]
        BY <2>1, <3>1, <3>2
      <4> QED  BY <1>5, <3>2, <4>1
    <3>3. CASE hash[r][k] # c
      <4>1. u = cell
        BY <2>1, <3>1, <3>3
      <4> QED  BY <3>3, <4>1
    <3> QED  BY <3>2, <3>3
  <2> HIDE DEF cell, u, c
  <2>4. Counts(r, j, u, SeenMore(shown, k))
    BY <1>2, <2>2, <2>3, UpdatedCounts DEF c
  <2> QED  BY <2>4 DEF u, c
<1> HIDE DEF after
<1>8. Types'
  <2>1. SeenMore(shown, k) \in [Keys -> Nat]
    BY <1>2 DEF SeenMore
  <2>2. epoches' \in [Areas -> Nat]
    BY <1>1 DEF insert, InsertKey, EnterEpoch, HKInv, Types
  <2> QED  BY <1>1, <1>4, <1>5, <1>7, <2>1, <2>2 DEF Types, HKInv, after
<1>9. ASSUME NEW i \in Areas, NEW r \in Rows, NEW c \in Cols PROVE CellOK(i, r, c)'
  <2>1. CASE i = area_pos
    <3>1. counters'[i][r][c] = after[r][c] /\ held'[i] = SeenMore(shown, k)
      BY <1>1, <1>4, <1>5, <2>1 DEF after, HKInv, Types
    <3> QED  BY <1>6, <3>1 DEF CellOK, Fits
  <2>2. CASE i # area_pos
    <3>1. counters'[i] = counters[i] /\ held'[i] = held[i]
      BY <1>1, <1>4, <1>5, <2>2 DEF HKInv, Types
    <3>2. CellOK(i, r, c)
      BY DEF HKInv, NoInheritance
    <3> QED  BY <3>1, <3>2 DEF CellOK
  <2> QED  BY <2>1, <2>2
<1>11. ASSUME NEW i \in Areas, NEW r \in Rows, NEW j \in Keys
       PROVE  Counts(r, j, counters'[i][r][hash[r][j]], held'[i])
  <2>1. CASE i = area_pos
    <3>1. counters'[i] = after /\ held'[i] = SeenMore(shown, k)
      BY <1>1, <1>4, <1>5, <2>1 DEF after, HKInv, Types
    <3> QED  BY <1>10, <3>1
  <2>2. CASE i # area_pos
    <3>1. counters'[i] = counters[i] /\ held'[i] = held[i]
      BY <1>1, <1>4, <1>5, <2>2 DEF HKInv, Types
    <3> QED  BY <3>1 DEF HKInv, LoneKeysCount
  <2> QED  BY <2>1, <2>2
<1>12. LoneKeysCount'
  BY <1>11 DEF LoneKeysCount, Counts
<1> QED  BY <1>8, <1>9, <1>12 DEF HKInv, NoInheritance

(* A clear and a stuttering step leave the areas as they are.              *)
LEMMA HKSame == HKInv /\ (clear \/ UNCHANGED vars) => HKInv'
<1> SUFFICES ASSUME HKInv, clear \/ UNCHANGED vars PROVE HKInv'
  OBVIOUS
<1>1. UNCHANGED <<epoches, held, counters>> /\ sequence' \in {0, sequence}
  BY DEF clear, ClearKeys, ForgetSequence, vars, windowVars, areaVars
<1> QED  BY <1>1 DEF HKInv, Types, NoInheritance, CellOK, LoneKeysCount, Counts

(* The largest of a bounded set of numbers.                                *)
LEMMA BoundedMax ==
  ASSUME NEW S \in SUBSET Nat, S # {}, NEW h \in Nat, \A x \in S : x <= h
  PROVE  Max(S) \in S /\ \A y \in S : y <= Max(S)
<1> DEFINE T == {h - x : x \in S}
<1>0. ASSUME NEW x \in S PROVE h - x \in Nat
  <2>1. x \in Nat /\ x <= h
    OBVIOUS
  <2> QED  BY <2>1
<1>1. T \subseteq Nat /\ T # {}
  <2>1. T \subseteq Nat
    BY <1>0
  <2>2. PICK x \in S : TRUE
    OBVIOUS
  <2>3. h - x \in T
    BY <2>2
  <2> QED  BY <2>1, <2>3
<1>2. PICK t \in T : \A y \in T : ~(<<y, t>> \in OpToRel(<, Nat))
  BY <1>1, NatLessThanWellFounded, WFMin
<1>3. \A y \in T : ~(y < t)
  BY <1>1, <1>2 DEF OpToRel
<1>4. PICK m \in S : t = h - m
  BY <1>2
<1>5. \A y \in S : m >= y
  <2> TAKE y \in S
  <2>1. h - y \in T
    OBVIOUS
  <2>2. ~(h - y < h - m)
    BY <1>3, <1>4, <2>1
  <2> QED  BY <2>2
<1>6. Max(S) \in S /\ \A y \in S : Max(S) >= y
  BY <1>4, <1>5 DEF Max
<1> QED  BY <1>6

LEMMA MinOfTwo ==
  ASSUME NEW a \in Nat, NEW b \in Nat
  PROVE  Min({a, b}) <= a /\ Min({a, b}) <= b /\ Min({a, b}) \in Nat
<1>1. \E x \in {a, b} : \A y \in {a, b} : x <= y
  OBVIOUS
<1>2. Min({a, b}) \in {a, b} /\ \A y \in {a, b} : Min({a, b}) <= y
  BY <1>1 DEF Min
<1> QED  BY <1>2

(* What a query takes from an area: the largest count under the key, which *)
(* is no more than the area has seen of it.                                *)
LEMMA KeptBounds ==
  ASSUME HKInv, NEW i \in Areas, NEW k \in Keys
  PROVE  /\ Kept(i, k) \in Nat /\ Kept(i, k) <= held[i][k]
         /\ \A r \in Rows : counters[i][r][hash[r][k]].flowkey = k =>
              counters[i][r][hash[r][k]].count <= Kept(i, k)
<1> DEFINE cell(r) == counters[i][r][hash[r][k]]
           S == {0} \cup {cell(r).count : r \in {q \in Rows : cell(q).flowkey = k}}
<1>1. held[i][k] \in Nat
  BY DEF HKInv, Types
<1>2. ASSUME NEW r \in Rows, cell(r).flowkey = k
      PROVE  cell(r).count \in Nat /\ cell(r).count <= held[i][k]
  <2>1. hash[r][k] \in Cols
    BY HashAssumption
  <2>2. CellOK(i, r, hash[r][k])
    BY <2>1 DEF HKInv, NoInheritance
  <2> QED  BY <1>1, <1>2, <2>2, KeyAssumption DEF CellOK
<1>3. Kept(i, k) = Max(S)
  BY DEF Kept
<1>4. S \in SUBSET Nat /\ S # {} /\ \A x \in S : x <= held[i][k]
  BY <1>1, <1>2
<1>5. \A r \in Rows : cell(r).flowkey = k => cell(r).count \in S
  OBVIOUS
<1> HIDE DEF S
<1>6. Max(S) \in S /\ \A y \in S : y <= Max(S)
  BY <1>1, <1>4, BoundedMax
<1> QED  BY <1>3, <1>4, <1>5, <1>6

LEMMA DecodeGrows ==
  ASSUME NEW n \in Nat, NEW m \in Nat, n <= m
  PROVE  Decode(n) \in Int /\ Decode(m) \in Int /\ Decode(n) <= Decode(m)
<1> DEFINE a == n - CAP
           b == m - CAP
<1>1. CAP \in Nat \ {0} /\ SCALE \in Nat \ {0} /\ a \in Int /\ b \in Int /\ a <= b
  BY CapAssumption
<1>2. a * SCALE \in Int /\ b * SCALE \in Int /\ (0 <= b => 0 <= b * SCALE)
  BY <1>1, Products
<1>3. a * SCALE <= b * SCALE
  <2>1. (a + (b - a)) * SCALE = a * SCALE + (b - a) * SCALE /\ (b - a) * SCALE \in Int
        /\ 0 <= (b - a) * SCALE
    BY <1>1, Products
  <2>2. a + (b - a) = b
    BY <1>1
  <2> HIDE DEF a, b
  <2>3. b * SCALE = a * SCALE + (b - a) * SCALE
    BY <2>1, <2>2
  <2> QED  BY <1>2, <2>1, <2>3
<1>4. Decode(n) = (IF n > CAP THEN CAP + a * SCALE ELSE n)
      /\ Decode(m) = (IF m > CAP THEN CAP + b * SCALE ELSE m)
  BY DEF Decode
<1>5. m > CAP => 0 <= b
  BY <1>1
<1> DEFINE x == a * SCALE
           y == b * SCALE
<1>6. x \in Int /\ y \in Int /\ x <= y /\ (0 <= b => 0 <= y)
      /\ Decode(n) = (IF n > CAP THEN CAP + x ELSE n)
      /\ Decode(m) = (IF m > CAP THEN CAP + y ELSE m)
  BY <1>2, <1>3, <1>4
<1> HIDE DEF x, y
<1> QED  BY <1>1, <1>5, <1>6

LEMMA NeverOverHolds == HKInv => NeverOver
<1> SUFFICES ASSUME HKInv, NEW k \in Keys, NEW time \in Times
             PROVE  query_epoch(k, time) <=
                      SumFunctionOnSet([i \in Areas |-> Decode(held[i][k])],
                                       {i \in Areas : Counted(i, time)})
  BY DEF NeverOver
<1> DEFINE f == [i \in Areas |-> Decode(Kept(i, k))]
           g == [i \in Areas |-> Decode(held[i][k])]
           S == {i \in Areas : Counted(i, time)}
<1>1. ASSUME NEW i \in Areas PROVE f[i] \in Int /\ g[i] \in Int /\ f[i] <= g[i]
  <2>1. held[i][k] \in Nat
    BY DEF HKInv, Types
  <2> QED  BY <2>1, KeptBounds, DecodeGrows
<1>2. f \in [Areas -> Int] /\ g \in [Areas -> Int] /\ S \in SUBSET Areas
  BY <1>1
<1>3. query_epoch(k, time) = SumFunctionOnSet(f, S)
  BY DEF query_epoch
<1> HIDE DEF f, g, S
<1>4. SumFunctionOnSet(f, S) = Total(f, S) /\ SumFunctionOnSet(g, S) = Total(g, S)
  BY <1>2, SumOfAreas
<1>5. ASSUME NEW i \in Areas
      PROVE  Term(f, S, i) \in Int /\ Term(g, S, i) \in Int /\ Term(f, S, i) <= Term(g, S, i)
  BY <1>1 DEF Term
<1>6. Total(f, S) <= Total(g, S)
  <2>1. 0 \in Areas /\ 1 \in Areas /\ 2 \in Areas /\ 3 \in Areas
    BY DEF Areas, AREA_NUM
  <2>2. /\ Term(f, S, 0) \in Int /\ Term(g, S, 0) \in Int /\ Term(f, S, 0) <= Term(g, S, 0)
        /\ Term(f, S, 1) \in Int /\ Term(g, S, 1) \in Int /\ Term(f, S, 1) <= Term(g, S, 1)
        /\ Term(f, S, 2) \in Int /\ Term(g, S, 2) \in Int /\ Term(f, S, 2) <= Term(g, S, 2)
        /\ Term(f, S, 3) \in Int /\ Term(g, S, 3) \in Int /\ Term(f, S, 3) <= Term(g, S, 3)
    BY <1>5, <2>1
  <2> QED  BY <2>2 DEF Total
<1>7. SumFunctionOnSet(f, S) <= SumFunctionOnSet(g, S)
  BY <1>4, <1>6
<1> QED  BY <1>3, <1>7 DEF f, g, S

LEMMA AloneHolds == HKInv => AloneIsCounted
<1> SUFFICES ASSUME HKInv, NEW i \in Areas, NEW k \in Keys, NEW r \in Rows,
                    \A j \in Keys \ {k} : hash[r][j] = hash[r][k] => held[i][j] = 0
             PROVE  Kept(i, k) >= Min({held[i][k], CAP})
  BY DEF AloneIsCounted
<1> DEFINE cell == counters[i][r][hash[r][k]]
<1>1. held[i][k] \in Nat /\ CAP \in Nat /\ cell.count \in Nat
  <2>1. hash[r][k] \in Cols
    BY HashAssumption
  <2> QED  BY <2>1, CapAssumption DEF HKInv, Types, CellType
<1>2. \/ held[i][k] = 0
      \/ cell.flowkey = k /\ (cell.count >= held[i][k] \/ cell.count >= CAP)
  <2>1. Counts(r, k, cell, held[i])
    BY DEF HKInv, LoneKeysCount
  <2> QED  BY <2>1 DEF Counts
<1>3. Kept(i, k) \in Nat /\ (cell.flowkey = k => cell.count <= Kept(i, k))
  BY KeptBounds
<1>4. Min({held[i][k], CAP}) <= held[i][k] /\ Min({held[i][k], CAP}) <= CAP
      /\ Min({held[i][k], CAP}) \in Nat
  BY <1>1, MinOfTwo
<1> HIDE DEF cell
<1> QED  BY <1>1, <1>2, <1>3, <1>4

-----------------------------------------------------------------------------
(* A step of the sketch is a step of the areas.                            *)
LEMMA WindowStep == WindowInv /\ [Next]_vars => WindowInv'
<1> SUFFICES ASSUME WindowInv, [Next]_vars PROVE WindowInv'
  OBVIOUS
<1>1. CASE \E k \in Keys : insert(k)
  BY <1>1, WindowInsert DEF insert
<1>2. CASE clear
  BY <1>2, WindowClear DEF clear
<1>3. CASE UNCHANGED vars
  BY <1>3, WindowSame DEF vars
<1> QED  BY <1>1, <1>2, <1>3 DEF Next

LEMMA HKStep == HKInv /\ [Next]_vars => HKInv'
BY HKInsert, HKSame DEF Next

(* What the areas of a query hold of a key is exactly what came of it in   *)
(* the last epochs: nothing is left of an earlier turn of an area, nothing *)
(* is lost when one is zeroed, in BloomFilter_new not even when the 16-bit *)
(* epoch wraps; and of what came since a clear nothing is ever missed.     *)
THEOREM WindowIsExact == Spec => []WindowExact
<1>1. Init => WindowInv
  BY WindowStarts DEF Init
<1> QED  BY <1>1, WindowStep, WindowInvExact, PTL DEF Spec

(* In every cell of every area, the count is one of insertions of the      *)
(* cell's own key, which hashes there, into this area since it was last    *)
(* zeroed: whatever keys meet, and whenever areas are reused or the sketch *)
(* cleared.                                                                *)
THEOREM CountsAreOwn == Spec => []NoInheritance
<1>1. HKInv => NoInheritance
  BY DEF HKInv
<1> QED  BY HKInit, HKStep, <1>1, PTL DEF Spec

(* A query never reports more than came, but for the scaling of counts     *)
(* above CAP, and a key that met no other on one of its cells is counted   *)
(* exactly up to CAP.                                                      *)
THEOREM CountsAreBounded == Spec => []HKBounds
<1>1. HKInv => HKBounds
  BY NeverOverHolds, AloneHolds DEF HKBounds
<1> QED  BY HKInit, HKStep, <1>1, PTL DEF Spec

LEMMA SumOneMore ==
  ASSUME NEW S, IsFiniteSet(S), NEW a \in S, NEW f, NEW g, \A x \in S : f[x] \in Int,
         g[a] = f[a] + 1, \A x \in S \ {a} : g[x] = f[x]
  PROVE  SumFunctionOnSet(g, S) = SumFunctionOnSet(f, S) + 1
<1>1. SumFunctionOnSet(f, S) = f[a] + SumFunctionOnSet(f, S \ {a})
  BY SumWithout
<1>2. SumFunctionOnSet(g, S) = g[a] + SumFunctionOnSet(g, S \ {a})
  BY SumWithout
<1>3. IsFiniteSet(S \ {a})
  BY FS_RemoveElement
<1>4. SumFunctionOnSet(g, S \ {a}) = SumFunctionOnSet(f, S \ {a})
  BY <1>3, SumSame
<1>5. SumFunctionOnSet(f, S \ {a}) \in Int
  BY <1>3, SumInt
<1> QED  BY <1>1, <1>2, <1>4, <1>5

-----------------------------------------------------------------------------
(* The P4 switch.                                                          *)

SwitchType ==
  /\ number \in 0 .. CYCLE - 1
  /\ cells \in [P4!Areas -> [P4!Rows -> [P4!Cells -> Nat]]]
  /\ seen \in [P4!Areas -> [FewKeys -> Nat]]

(* The packet that came last decides how far the areas are filled.         *)
TurnsInv ==
  \E q \in Nat : \A i \in P4!Areas :
    P4!Total(i) = q + (IF i <= (number + 1) % 4 THEN 1 ELSE 0)

SwitchInv == SwitchType /\ TurnsInv /\ P4!CellCounts

LEMMA SwitchSums ==
  /\ \A f, S : P4!SumFunctionOnSet(f, S) = SumFunctionOnSet(f, S)
  /\ \A f : P4!SumFunction(f) = SumFunctionOnSet(f, DOMAIN f)
  /\ \A S : P4!Min(S) = Min(S)
BY DEF P4!Min, Min, P4!SumFunctionOnSet, SumFunctionOnSet, P4!SumFunction, SumFunction,
   P4!FoldFunctionOnSet, FoldFunctionOnSet, P4!MapThenFoldSet, MapThenFoldSet

LEMMA Quarters ==
  ASSUME NEW c \in Nat, c % 16 = 0
  PROVE  c % 4 = 0
<1>1. PICK t \in Nat : c = 16 * t
  <2>1. c \div 16 \in Nat /\ c = 16 * (c \div 16) + (c % 16)
    OBVIOUS
  <2> QED  BY <2>1
<1>2. c = 4 * (4 * t) /\ 4 * t \in Nat
  BY <1>1
<1> QED  BY <1>2

LEMMA NextOfFour ==
  ASSUME NEW a \in Nat, NEW b \in Nat, a % 4 = (b + 1) % 4
  PROVE  /\ (b + 1) % 4 \in 0 .. 3
         /\ (b + 1) % 4 < 3 => (a + 1) % 4 = ((b + 1) % 4) + 1
         /\ (b + 1) % 4 = 3 => (a + 1) % 4 = 0
OBVIOUS

LEMMA SwitchSizes ==
  ASSUME P4!SwitchAssumption
  PROVE  /\ CYCLE \in Nat \ {0} /\ CYCLE % 4 = 0
         /\ p4_cap \in Nat /\ CELL_VALUES \in Nat /\ p4_cap < CELL_VALUES
<1>1. /\ CYCLE \in Nat \ {0} /\ CYCLE % 16 = 0
      /\ p4_cap \in Nat /\ CELL_VALUES \in Nat /\ p4_cap < CELL_VALUES
  BY DEF P4!SwitchAssumption
<1>2. CYCLE \in Nat /\ CYCLE % 4 = 0
  BY <1>1, Quarters
<1> QED  BY <1>1, <1>2

LEMMA SwitchFinite == P4!SwitchAssumption => IsFiniteSet(FewKeys)
BY DEF P4!SwitchAssumption, P4!IsFiniteSet, IsFiniteSet

LEMMA SwitchBalance == SwitchInv => P4!AreasBalanced
BY DEF SwitchInv, TurnsInv, P4!AreasBalanced, P4!Areas, SwitchType

LEMMA SwitchTotal ==
  ASSUME P4!SwitchAssumption, SwitchType, NEW i \in P4!Areas
  PROVE  /\ P4!Total(i) = SumFunctionOnSet(seen[i], FewKeys)
         /\ P4!Total(i) \in Int
<1>1. DOMAIN seen[i] = FewKeys /\ \A k \in FewKeys : seen[i][k] \in Int
  BY DEF SwitchType
<1> QED  BY <1>1, SwitchSums, SwitchFinite, SumInt DEF P4!Total

LEMMA SwitchStarts == P4!SwitchAssumption /\ P4!Init => SwitchInv
<1> SUFFICES ASSUME P4!SwitchAssumption, P4!Init PROVE SwitchInv
  OBVIOUS
<1>1. SwitchType
  BY DEF P4!SwitchAssumption, P4!Init, SwitchType
<1>2. \A i \in P4!Areas, S \in SUBSET FewKeys : SumFunctionOnSet(seen[i], S) = 0
  <2> TAKE i \in P4!Areas, S \in SUBSET FewKeys
  <2>1. IsFiniteSet(S) /\ Cardinality(S) \in Nat
    BY SwitchFinite, FS_Subset, FS_CardinalityType
  <2>2. \A k \in S : seen[i][k] = 0
    BY DEF P4!Init
  <2>3. SumFunctionOnSet(seen[i], S) = 0 * Cardinality(S)
    BY <2>1, <2>2, SumConst
  <2> QED  BY <2>1, <2>3
<1>3. TurnsInv
  <2>0. number = CYCLE - 1
    BY DEF P4!Init
  <2>1. number + 1 = CYCLE /\ CYCLE % 4 = 0
    BY <2>0, SwitchSizes
  <2>2. \A i \in P4!Areas : P4!Total(i) = 0
    BY <1>1, <1>2, SwitchTotal
  <2> QED  BY <2>1, <2>2 DEF TurnsInv, P4!Areas
<1>4. P4!CellCounts
  <2> SUFFICES ASSUME NEW i \in P4!Areas, NEW r \in P4!Rows, NEW c \in P4!Cells
               PROVE  /\ P4!Load(i, r, c) = 0
                      /\ cells[i][r][c] \in P4!Min({0, p4_cap}) .. 0
    BY DEF P4!CellCounts
  <2>1. P4!Load(i, r, c) = 0
    BY <1>2, SwitchSums DEF P4!Load
  <2>2. cells[i][r][c] = 0
    BY DEF P4!Init
  <2>3. p4_cap \in Nat
    BY DEF P4!SwitchAssumption
  <2>4. Min({0, p4_cap}) = 0
    BY <2>3, OfTwo
  <2> QED  BY <2>1, <2>2, <2>4, SwitchSums
<1> QED  BY <1>1, <1>3, <1>4 DEF SwitchInv

LEMMA SwitchCounted ==
  ASSUME P4!SwitchAssumption, SwitchType, NEW k \in FewKeys,
         NEW area \in P4!Areas, NEW i \in P4!Areas, NEW S \in SUBSET FewKeys,
         \A x \in FewKeys :
           seen'[i][x] = seen[i][x] + (IF i = area /\ x = k THEN 1 ELSE 0)
  PROVE  /\ SumFunctionOnSet(seen[i], S) \in Nat
         /\ SumFunctionOnSet(seen'[i], S) =
              SumFunctionOnSet(seen[i], S) + (IF i = area /\ k \in S THEN 1 ELSE 0)
<1>1. IsFiniteSet(S)
  BY SwitchFinite, FS_Subset
<1>2. /\ \A x \in S : seen[i][x] \in Nat
      /\ \A x \in S : seen'[i][x] = seen[i][x] + (IF i = area /\ x = k THEN 1 ELSE 0)
  BY DEF SwitchType
<1>3. SumFunctionOnSet(seen[i], S) \in Nat
  BY <1>1, <1>2, SumNat
<1>4. CASE i = area /\ k \in S
  <2> DEFINE f == seen[i]
             g == seen'[i]
  <2>a. /\ \A x \in S : f[x] \in Int
        /\ g[k] = f[k] + 1 /\ \A x \in S \ {k} : g[x] = f[x]
    BY <1>2, <1>4
  <2> HIDE DEF f, g
  <2>b. SumFunctionOnSet(g, S) = SumFunctionOnSet(f, S) + 1
    BY <1>1, <1>4, <2>a, SumOneMore
  <2>1. SumFunctionOnSet(seen'[i], S) = SumFunctionOnSet(seen[i], S) + 1
    BY <2>b DEF f, g
  <2> QED  BY <1>3, <1>4, <2>1
<1>5. CASE ~(i = area /\ k \in S)
  <2> DEFINE f == seen[i]
             g == seen'[i]
  <2>a. \A x \in S : f[x] \in Int /\ g[x] = f[x]
    BY <1>2, <1>5
  <2> HIDE DEF f, g
  <2>b. SumFunctionOnSet(g, S) = SumFunctionOnSet(f, S)
    BY <1>1, <2>a, SumSame
  <2>1. SumFunctionOnSet(seen'[i], S) = SumFunctionOnSet(seen[i], S)
    BY <2>b DEF f, g
  <2> QED  BY <1>3, <1>5, <2>1
<1> QED  BY <1>4, <1>5

LEMMA SwitchStep ==
  ASSUME P4!SwitchAssumption, SwitchInv, NEW k \in FewKeys, P4!apply(k)
  PROVE  SwitchInv'
<1> DEFINE cycleN == P4!getSub(number)
           area == (cycleN % 4) + 1
<1>1. PICK lucky \in BOOLEAN :
        /\ number' = cycleN
        /\ cells' = [cells EXCEPT ![area] = [r \in P4!Rows |->
             [cells[area][r] EXCEPT ![p4_hash[r][k]] = P4!setValue(@, lucky)]]]
        /\ seen' = [seen EXCEPT ![area][k] = @ + 1]
  BY DEF P4!apply
<1>2. /\ CYCLE \in Nat \ {0} /\ CYCLE % 4 = 0 /\ number \in 0 .. CYCLE - 1
      /\ p4_cap \in Nat /\ CELL_VALUES \in Nat /\ p4_cap < CELL_VALUES
  BY SwitchSizes DEF SwitchInv, SwitchType
<1>0. SwitchType
  BY DEF SwitchInv
<1>1a. number' = cycleN
  BY <1>1
<1>3. /\ number' \in 0 .. CYCLE - 1 /\ number' % 4 = (number + 1) % 4
      /\ area \in P4!Areas /\ area = ((number + 1) % 4) + 1
  <2>1. CASE number = CYCLE - 1
    <3>1. cycleN = 0 /\ (number + 1) % 4 = 0
      BY <1>2, <2>1 DEF P4!getSub
    <3> QED  BY <1>1, <1>2, <3>1 DEF P4!Areas
  <2>2. CASE number # CYCLE - 1
    <3>1. cycleN = number + 1
      BY <2>2 DEF P4!getSub
    <3>2. area = ((number + 1) % 4) + 1 /\ (number + 1) % 4 \in 0 .. 3
      BY <1>2, <3>1
    <3>3. number' = number + 1 /\ number + 1 \in 0 .. CYCLE - 1
      BY <1>1a, <1>2, <2>2, <3>1
    <3> QED  BY <3>2, <3>3 DEF P4!Areas
  <2> QED  BY <2>1, <2>2
<1> HIDE DEF cycleN, area
<1> DEFINE m == (number + 1) % 4
<1>1b. \A i \in P4!Areas, x \in FewKeys :
         seen'[i][x] = seen[i][x] + (IF i = area /\ x = k THEN 1 ELSE 0)
  BY <1>0, <1>1, <1>3 DEF SwitchType
<1>2a. number \in Nat /\ number' \in Nat
  BY <1>2, <1>3
<1>3a. /\ m \in 0 .. 3 /\ area = m + 1
       /\ m < 3 => (number' + 1) % 4 = m + 1
       /\ m = 3 => (number' + 1) % 4 = 0
  BY <1>2a, <1>3, NextOfFour
<1> HIDE DEF m
<1>4. \A n \in Nat : P4!setValue(n, lucky) \in Nat
  BY <1>2 DEF P4!setValue
<1>5. SwitchType'
  <2>1. cells' \in [P4!Areas -> [P4!Rows -> [P4!Cells -> Nat]]]
    <3>1. cells \in [P4!Areas -> [P4!Rows -> [P4!Cells -> Nat]]]
      BY DEF SwitchInv, SwitchType
    <3> DEFINE row(r) == [cells[area][r] EXCEPT ![p4_hash[r][k]] = P4!setValue(@, lucky)]
    <3>2. \A r \in P4!Rows : row(r) \in [P4!Cells -> Nat]
      <4> TAKE r \in P4!Rows
      <4>1. p4_hash[r][k] \in P4!Cells
        BY DEF P4!SwitchAssumption
      <4>2. cells[area][r] \in [P4!Cells -> Nat]
        BY <1>3, <3>1
      <4> QED  BY <1>4, <4>1, <4>2
    <3>3. cells' = [cells EXCEPT ![area] = [r \in P4!Rows |-> row(r)]]
      BY <1>1
    <3> HIDE DEF row
    <3> QED  BY <1>3, <3>1, <3>2, <3>3
  <2>2. seen' \in [P4!Areas -> [FewKeys -> Nat]]
    BY <1>1, <1>3 DEF SwitchInv, SwitchType
  <2> QED  BY <1>3, <2>1, <2>2 DEF SwitchType
<1>6. TurnsInv'
  <2>1. PICK q \in Nat : \A i \in P4!Areas : P4!Total(i) = q + (IF i <= m THEN 1 ELSE 0)
    BY DEF SwitchInv, TurnsInv, m
  <2>2. \A i \in P4!Areas : P4!Total(i)' = P4!Total(i) + (IF i = area THEN 1 ELSE 0)
    <3> TAKE i \in P4!Areas
    <3>1. P4!Total(i) = SumFunctionOnSet(seen[i], FewKeys)
      BY SwitchTotal DEF SwitchInv
    <3>2. P4!Total(i)' = SumFunctionOnSet(seen'[i], FewKeys)
      <4>1. DOMAIN seen'[i] = FewKeys
        BY <1>5 DEF SwitchType
      <4> QED  BY <4>1, SwitchSums DEF P4!Total
    <3>3. SumFunctionOnSet(seen'[i], FewKeys) =
            SumFunctionOnSet(seen[i], FewKeys) + (IF i = area /\ k \in FewKeys THEN 1 ELSE 0)
      <4>1. FewKeys \in SUBSET FewKeys
        OBVIOUS
      <4> QED  BY <1>0, <1>1b, <1>3, <4>1, SwitchCounted
    <3> QED  BY <3>1, <3>2, <3>3
  <2>3. CASE m < 3
    <3>1. \A i \in P4!Areas : P4!Total(i)' = q + (IF i <= m + 1 THEN 1 ELSE 0)
      BY <1>3a, <2>1, <2>2 DEF P4!Areas
    <3>2. (number' + 1) % 4 = m + 1
      BY <1>3a, <2>3
    <3> QED  BY <3>1, <3>2 DEF TurnsInv
  <2>4. CASE m = 3
    <3>1. \A i \in P4!Areas : P4!Total(i)' = (q + 1) + (IF i <= 0 THEN 1 ELSE 0)
      BY <1>3a, <2>1, <2>2, <2>4 DEF P4!Areas
    <3>2. (number' + 1) % 4 = 0
      BY <1>3a, <2>4
    <3> QED  BY <3>1, <3>2 DEF TurnsInv
  <2> QED  BY <1>3a, <2>3, <2>4
<1>7. P4!CellCounts'
  <2> SUFFICES ASSUME NEW i \in P4!Areas, NEW r \in P4!Rows, NEW c \in P4!Cells,
                      P4!Load(i, r, c)' < CELL_VALUES
               PROVE  cells'[i][r][c] \in P4!Min({P4!Load(i, r, c)', p4_cap}) .. P4!Load(i, r, c)'
    BY DEF P4!CellCounts
  <2> DEFINE S == {j \in FewKeys : p4_hash[r][j] = c}
             n == SumFunctionOnSet(seen[i], S)
             l == SumFunctionOnSet(seen'[i], S)
             v == cells[i][r][c]
  <2>1. P4!Load(i, r, c) = n /\ P4!Load(i, r, c)' = l
    BY SwitchSums DEF P4!Load
  <2>2. n \in Nat /\ l = n + (IF i = area /\ k \in S THEN 1 ELSE 0)
    <3>1. S \in SUBSET FewKeys
      OBVIOUS
    <3> HIDE DEF S
    <3> QED  BY <1>0, <1>1b, <1>3, <3>1, SwitchCounted
  <2>3. v \in Nat
    BY DEF SwitchInv, SwitchType
  <2>4. n < CELL_VALUES
    BY <1>2, <2>1, <2>2
  <2>5. v \in Min({n, p4_cap}) .. n
    BY <2>1, <2>4, SwitchSums DEF SwitchInv, P4!CellCounts
  <2>6. cells'[i][r][c] = IF i = area /\ k \in S THEN P4!setValue(v, lucky) ELSE v
    BY <1>1, <1>3 DEF SwitchInv, SwitchType
  <2>7. Min({n, p4_cap}) = (IF n <= p4_cap THEN n ELSE p4_cap)
    <3>1. n \in Int /\ p4_cap \in Int
      BY <1>2, <2>2
    <3> QED  BY <3>1, OfTwo
  <2>8. Min({l, p4_cap}) = (IF l <= p4_cap THEN l ELSE p4_cap) /\ l \in Nat
    <3>1. l \in Nat /\ l \in Int /\ p4_cap \in Int
      BY <1>2, <2>2
    <3> QED  BY <3>1, OfTwo
  <2> HIDE DEF n, l, v
  <2>9. cells'[i][r][c] \in Min({l, p4_cap}) .. l
    <3>1. CASE i = area /\ k \in S
      <4>1. v + 1 <= n + 1 /\ n + 1 < CELL_VALUES
        BY <1>2, <2>1, <2>2, <2>3, <2>5, <2>7, <3>1
      <4>2. (v + 1) % CELL_VALUES = v + 1
        BY <1>2, <2>2, <2>3, <4>1
      <4> QED  BY <1>2, <2>2, <2>3, <2>5, <2>6, <2>7, <2>8, <3>1, <4>1, <4>2 DEF P4!setValue
    <3>2. CASE ~(i = area /\ k \in S)
      BY <1>2, <2>2, <2>3, <2>5, <2>6, <2>7, <2>8, <3>2
    <3> QED  BY <3>1, <3>2
  <2> QED  BY <2>1, <2>9, SwitchSums
<1> QED  BY <1>5, <1>6, <1>7 DEF SwitchInv

LEMMA SwitchSame ==
  ASSUME SwitchInv, UNCHANGED <<number, cells, seen>>
  PROVE  SwitchInv'
<1>1. SwitchType' /\ TurnsInv'
  BY DEF SwitchInv, SwitchType, TurnsInv, P4!Total
<1>2. P4!CellCounts'
  BY DEF SwitchInv, P4!CellCounts, P4!Load
<1> QED  BY <1>1, <1>2 DEF SwitchInv

(* apply in the ingress control, for any flows, any hashes and any size of *)
(* a cycle, through any number of cycles.                                  *)
THEOREM SwitchSpreadsAndCounts ==
  ASSUME P4!SwitchAssumption
  PROVE  P4!Spec => [](P4!AreasBalanced /\ P4!CellCounts)
<1>1. P4!Init => SwitchInv
  BY SwitchStarts
<1>2. SwitchInv /\ [P4!Next]_(P4!vars) => SwitchInv'
  BY SwitchStep, SwitchSame DEF P4!Next, P4!vars
<1>3. SwitchInv => P4!AreasBalanced /\ P4!CellCounts
  BY SwitchBalance DEF SwitchInv
<1> QED  BY <1>1, <1>2, <1>3, PTL DEF P4!Spec

(* The same of the run: the switch spreads its packets evenly over its     *)
(* areas, and a cell that has not wrapped is exact up to CAP.              *)
THEOREM SwitchCountsHold == MCSpec => []SwitchCounts
<1> DEFINE Inv == sketch = "P4" => SwitchInv
<1>1. MCInit => Inv
  BY SketchAssumptions, SwitchStarts DEF MCInit, RingInit, SlidingInit, SketchAssumptions,
     HeavyKeepers, BloomFilters
<1>2. Inv /\ [MCNext]_mcVars => Inv'
  <2> SUFFICES ASSUME Inv, [MCNext]_mcVars, sketch' = "P4" PROVE SwitchInv'
    OBVIOUS
  <2>1. sketch = "P4" /\ SwitchInv
    BY DEF MCNext, mcVars
  <2>2. P4!Next \/ UNCHANGED <<number, cells, seen>>
    BY <2>1 DEF MCNext, mcVars, HeavyKeeperNext, BloomNext, RingNext, SlidingNext, others,
       ring, HeavyKeepers
  <2> QED  BY <2>1, <2>2, SketchAssumptions, SwitchStep, SwitchSame
           DEF P4!Next, SketchAssumptions
<1>3. Inv => SwitchCounts
  BY SwitchBalance DEF SwitchInv, SwitchCounts
<1> QED  BY <1>1, <1>2, <1>3, PTL DEF MCSpec

-----------------------------------------------------------------------------
(* BloomFilter_new: an area has set the cells of the keys it holds.        *)

HeldKeys(i) == {j \in Keys : held[i][j] > 0}

CellsHeld ==
  \A i \in Areas : cells[i] = UNION {bf_positions[j] : j \in HeldKeys(i)}

FilterInv == WindowInv /\ cells \in [Areas -> SUBSET (0 .. bf_width - 1)] /\ CellsHeld

LEMMA FilterNames ==
  /\ BF!Areas = Areas /\ BF!AREA_NUM = AREA_NUM /\ BF!area_pos = area_pos
  /\ BF!NewEpoch = NewEpoch /\ BF!Settled = Settled
  /\ BF!WindowInit = WindowInit /\ BF!ClearKeys = ClearKeys
  /\ \A k : /\ BF!InsertKey(k) = InsertKey(k)
            /\ BF!InWindow(k, AREA_NUM) = Cardinality(Window(k, AREA_NUM))
            /\ \A i : BF!Counted16(i, AREA_NUM) = Counted16(i, AREA_NUM)
<1>1. /\ BF!Areas = Areas /\ BF!AREA_NUM = AREA_NUM /\ BF!area_pos = area_pos
      /\ BF!NewEpoch = NewEpoch /\ BF!Settled = Settled /\ BF!epoch_seq16 = epoch_seq16
      /\ BF!epoch_seq = epoch_seq
  BY DEF BF!Areas, Areas, BF!AREA_NUM, AREA_NUM, BF!area_pos, area_pos, BF!NewEpoch, NewEpoch,
     BF!Settled, Settled, BF!epoch_seq16, epoch_seq16, BF!epoch_seq, epoch_seq
<1>2. \A k, i : BF!Reached(k, i) = Reached(k, i) /\ BF!Counted16(i, k) = Counted16(i, k)
  BY <1>1 DEF BF!Reached, Reached, BF!Counted16, Counted16
<1>3. \A n : BF!Recent(n) = Recent(n)
  BY <1>1 DEF BF!Recent, Recent
<1>4. BF!WindowInit = WindowInit /\ BF!ClearKeys = ClearKeys
  BY <1>1 DEF BF!WindowInit, WindowInit, BF!AreaInit, AreaInit, BF!ClearKeys, ClearKeys,
     BF!ForgetSequence, ForgetSequence
<1>5. \A k : BF!InsertKey(k) = InsertKey(k)
  BY <1>1, <1>3 DEF BF!InsertKey, InsertKey, BF!EnterEpoch, EnterEpoch
<1>6. \A S : BF!Cardinality(S) = Cardinality(S)
  BY DEF BF!Cardinality, Cardinality, BF!IsFiniteSet, IsFiniteSet
<1>7. \A k : BF!InWindow(k, AREA_NUM) = Cardinality(Window(k, AREA_NUM))
  BY <1>2, <1>6 DEF BF!InWindow, Window
<1> QED  BY <1>1, <1>2, <1>4, <1>5, <1>7

LEMMA FilterStarts ==
  ASSUME BF!PositionsAssumption, BF!Init PROVE FilterInv
<1>1. WindowInit /\ cells = [i \in Areas |-> {}]
  BY FilterNames DEF BF!Init
<1>2. \A i \in Areas : HeldKeys(i) = {}
  BY <1>1 DEF WindowInit, AreaInit, HeldKeys
<1> QED  BY <1>1, <1>2, WindowStarts DEF FilterInv, CellsHeld

LEMMA FilterInsert ==
  ASSUME BF!PositionsAssumption, FilterInv, NEW k \in Keys, BF!insert(k)
  PROVE  FilterInv'
<1>1. InsertKey(k) /\ WindowInv /\ WindowTypes
      /\ cells' = [cells EXCEPT ![area_pos] = (IF NewEpoch THEN {} ELSE @) \cup bf_positions[k]]
  BY FilterNames DEF BF!insert, FilterInv, WindowInv
<1>2. WindowInv' /\ area_pos \in Areas
  BY <1>1, WindowInsert, WhereInsertIs DEF WindowTypes
<1>3. cells' \in [Areas -> SUBSET (0 .. bf_width - 1)]
  BY <1>1, <1>2 DEF FilterInv, BF!PositionsAssumption
<1>4. ASSUME NEW i \in Areas
      PROVE  cells'[i] = UNION {bf_positions[j] : j \in HeldKeys(i)'}
  <2>0. cells[i] = UNION {bf_positions[j] : j \in HeldKeys(i)} /\ cells \in [Areas -> SUBSET (0 .. bf_width - 1)]
    BY DEF FilterInv, CellsHeld
  <2>1. CASE i # area_pos
    <3>1. cells'[i] = cells[i] /\ held'[i] = held[i]
      BY <1>1, <1>2, <2>0, <2>1 DEF InsertKey, EnterEpoch, WindowTypes
    <3> QED  BY <2>0, <3>1 DEF HeldKeys
  <2>2. CASE i = area_pos
    <3>1. \A j \in Keys : /\ held[i][j] \in Nat
                          /\ held'[i][j] = (IF NewEpoch THEN 0 ELSE held[i][j]) + (IF j = k THEN 1 ELSE 0)
      BY <1>1, <2>2 DEF InsertKey, EnterEpoch, WindowTypes
    <3>2. HeldKeys(i)' = (IF NewEpoch THEN {} ELSE HeldKeys(i)) \cup {k}
      BY <3>1 DEF HeldKeys
    <3>3. cells'[i] = (IF NewEpoch THEN {} ELSE cells[i]) \cup bf_positions[k]
      BY <1>1, <1>2, <2>0, <2>2
    <3> QED  BY <2>0, <3>2, <3>3
  <2> QED  BY <2>1, <2>2
<1> QED  BY <1>2, <1>3, <1>4 DEF FilterInv, CellsHeld

LEMMA FilterSame ==
  ASSUME FilterInv, BF!clear \/ UNCHANGED <<windowVars, cells>>
  PROVE  FilterInv'
<1>1. ClearKeys \/ UNCHANGED windowVars
  BY FilterNames DEF BF!clear
<1>2. WindowInv'
  BY <1>1, WindowClear, WindowSame DEF FilterInv
<1>3. held' = held /\ cells' = cells
  BY DEF BF!clear, BF!ClearKeys, BF!ForgetSequence, windowVars, areaVars
<1> QED  BY <1>2, <1>3 DEF FilterInv, CellsHeld, HeldKeys

(* A key is in the window when one of the areas holds part of it.          *)
LEMMA WindowHasPart ==
  ASSUME WindowTypes, NEW k \in Keys, NEW time \in Times
  PROVE  Cardinality(Window(k, time)) > 0 <=> \E i \in Areas : Part(k, time, i) # {}
<1>1. IsFiniteSet(Window(k, time)) /\ Window(k, time) \in SUBSET (Nat \ {0})
  BY WindowFinite
<1>2. Cardinality(Window(k, time)) > 0 <=> Window(k, time) # {}
  BY <1>1, FS_EmptySet, FS_CardinalityType
<1>3. \A n \in Window(k, time) : EpochOf(n) % 4 \in Areas
  <2> TAKE n \in Window(k, time)
  <2>1. EpochOf(n) \in Nat
    BY <1>1, EpochOfKey
  <2> QED  BY <2>1 DEF Areas, AREA_NUM
<1> QED  BY <1>2, <1>3 DEF Part

LEMMA FilterReports == FilterInv => BF!NoFalseNegative
<1> SUFFICES ASSUME FilterInv, NEW k \in Keys, BF!InWindow(k, BF!AREA_NUM) > 0
             PROVE  BF!query(k)
  BY DEF BF!NoFalseNegative
<1>1. WindowInv /\ WindowTypes /\ 4 \in Times /\ AREA_NUM = 4
  BY DEF FilterInv, WindowInv, Times, AREA_NUM
<1>2. PICK i \in Areas : Part(k, 4, i) # {}
  BY <1>1, FilterNames, WindowHasPart
<1>3. ~(sequence <= Begin(i))
  BY <1>1, <1>2, PartOfArea
<1>4. AreaRight(i) /\ sequence \in Nat /\ Begin(i) \in Nat /\ held[i][k] \in Nat
  BY <1>1, AreaBegins DEF WindowInv, WindowTypes
<1>5. PICK q \in Nat : HoldsEpoch(i, q)
  BY <1>3, <1>4 DEF AreaRight
<1>6. Counted16(i, AREA_NUM) /\ epoch_seq - 4 <= q
  BY <1>1, <1>4, <1>5, HeldEpochs, Counted16Recents DEF Recents
<1>7. Part(k, 4, i) = Came(log, k, q)
  BY <1>1, <1>5, <1>6, PartOfArea
<1>8. Cardinality(Came(log, k, q)) \in Nat \ {0}
  BY <1>1, <1>2, <1>7, WindowFinite, FS_EmptySet, FS_CardinalityType
<1>9. held[i][k] > 0
  <2>1. Cardinality(Came(log, k, q)) <= held[i][k]
    BY <1>5 DEF HoldsEpoch
  <2> QED  BY <1>4, <1>8, <2>1
<1>10. bf_positions[k] \subseteq cells[i]
  BY <1>9 DEF FilterInv, CellsHeld, HeldKeys
<1> QED  BY <1>6, <1>10, FilterNames DEF BF!query, BF!query_epoch

LEMMA FilterForgets == FilterInv => BF!NoStalePositive
<1> SUFFICES ASSUME FilterInv, Settled, NEW k \in Keys, BF!query(k)
             PROVE  bf_positions[k] \subseteq
                      UNION {bf_positions[j] : j \in {n \in Keys : BF!InWindow(n, AREA_NUM) > 0}}
  BY FilterNames DEF BF!NoStalePositive
<1>1. WindowInv /\ WindowTypes /\ 4 \in Times /\ AREA_NUM = 4
  BY DEF FilterInv, WindowInv, Times, AREA_NUM
<1>2. PICK i \in Areas : bf_positions[k] \subseteq cells[i]
  BY FilterNames DEF BF!query, BF!query_epoch
<1>3. ASSUME NEW j \in HeldKeys(i) PROVE BF!InWindow(j, AREA_NUM) > 0
  <2>1. j \in Keys /\ held[i][j] > 0 /\ held[i][j] \in Nat
    BY <1>1 DEF HeldKeys, WindowTypes
  <2>2. ~(sequence <= Begin(i)) /\ AreaRight(i) /\ sequence \in Nat /\ Begin(i) \in Nat
    BY <1>1, <2>1, SettledAreas, AreaBegins DEF WindowInv, WindowTypes
  <2>3. PICK q \in Nat : HoldsEpoch(i, q)
    BY <2>2 DEF AreaRight
  <2>4. Cardinality(Came(log, j, q)) > 0
    BY <1>1, <2>1, <2>3, SettledAreas
  <2>5. epoch_seq - 4 <= q
    BY <1>1, <2>2, <2>3, HeldEpochs
  <2>6. Part(j, 4, i) = Came(log, j, q)
    BY <1>1, <2>1, <2>3, <2>5, PartOfArea
  <2>7. Part(j, 4, i) # {}
    BY <2>4, <2>6, FS_EmptySet
  <2> QED  BY <1>1, <2>1, <2>7, WindowHasPart, FilterNames
<1> QED  BY <1>2, <1>3 DEF FilterInv, CellsHeld, HeldKeys

-----------------------------------------------------------------------------
(* The hand of the sliding sketches goes round a ring of C cells.          *)

LEMMA Remainder ==
  ASSUME NEW C \in Nat \ {0}, NEW a \in Int, NEW q \in Int, NEW r \in 0 .. C - 1, a = q * C + r
  PROVE  a % C = r
<1> DEFINE m == a % C
           e == a \div C
           x == q * C
           y == e * C
           z == (q - e) * C
<1>2. m \in 0 .. C - 1 /\ e \in Int /\ a = y + m
  OBVIOUS
<1> HIDE DEF m, e
<1>3. x \in Int /\ y \in Int /\ z \in Int /\ z + y = x
  <2>1. ((q - e) + e) * C = (q - e) * C + e * C /\ (q - e) + e = q
    BY <1>2, Products
  <2> QED  BY <1>2, <2>1, Products
<1>4. a = x + r
  OBVIOUS
<1> HIDE DEF x, y
<1>5. z = m - r /\ m - r < C /\ -C < m - r
  <2> HIDE DEF z
  <2> QED  BY <1>2, <1>3, <1>4
<1>6. q - e = 0
  BY <1>2, <1>5, MultipleInside
<1>7. m = r
  BY <1>2, <1>5, <1>6
<1> QED  BY <1>7 DEF m

LEMMA SameRemainder ==
  ASSUME NEW C \in Nat \ {0}, NEW a \in Int, NEW t \in Int, NEW b, b = a + (t * C)
  PROVE  b % C = a % C
<1> DEFINE q == a \div C
           r == a % C
<1>1. q \in Int /\ r \in 0 .. C - 1 /\ a = q * C + r
  OBVIOUS
<1> HIDE DEF q, r
<1>2. (q + t) * C = q * C + t * C /\ q * C \in Int /\ t * C \in Int
  BY <1>1, Products
<1>3. b = (q + t) * C + r /\ q + t \in Int /\ b \in Int
  BY <1>1, <1>2
<1>4. b % C = r
  BY <1>1, <1>3, Remainder
<1> QED  BY <1>4 DEF r

(* Which of n moves that begin at cell `from' pass cell c, and how many.   *)
Hand(C, from, n, c) == {i \in 0 .. n - 1 : (from + i) % C = c}
Turns(C, from, n, c) == Cardinality(Hand(C, from, n, c))

LEMMA HandFinite ==
  ASSUME NEW C \in Nat \ {0}, NEW from \in Int, NEW n \in Nat, NEW c
  PROVE  IsFiniteSet(Hand(C, from, n, c)) /\ Turns(C, from, n, c) \in Nat
<1>1. IsFiniteSet(0 .. n - 1) /\ Hand(C, from, n, c) \in SUBSET (0 .. n - 1)
  BY FS_Interval DEF Hand
<1> QED  BY <1>1, FS_Subset, FS_CardinalityType DEF Turns

LEMMA HandGoesOn ==
  ASSUME NEW C \in Nat \ {0}, NEW from \in Int, NEW a \in Nat, NEW b \in Nat, NEW c
  PROVE  Turns(C, from, a + b, c) = Turns(C, from, a, c) + Turns(C, from + a, b, c)
<1> DEFINE S == Hand(C, from, a, c)
           T == Hand(C, from + a, b, c)
           U == {i \in a .. a + b - 1 : (from + i) % C = c}
           f == [i \in T |-> i + a]
<1>1. Hand(C, from, a + b, c) = S \cup U /\ S \cap U = {}
  BY DEF Hand
<1>2. IsFiniteSet(S) /\ IsFiniteSet(T)
  BY HandFinite
<1>3. f \in Bijection(T, U)
  <2>1. \A i \in T : i + a \in U
    <3> TAKE i \in T
    <3>1. i \in 0 .. b - 1 /\ ((from + a) + i) % C = c /\ (from + a) + i = from + (i + a)
      BY DEF Hand
    <3> QED  BY <3>1
  <2>2. \A u \in U : u - a \in T
    <3> TAKE u \in U
    <3>1. u - a \in 0 .. b - 1 /\ (from + u) % C = c /\ (from + a) + (u - a) = from + u
      OBVIOUS
    <3> QED  BY <3>1 DEF Hand
  <2>3. \A i \in T : i \in Int
    BY DEF Hand
  <2>4. \A u \in U : u \in Int /\ (u - a) + a = u
    OBVIOUS
  <2> HIDE DEF T, U
  <2>5. f \in Injection(T, U)
    <3>1. f \in [T -> U]
      BY <2>1
    <3>2. \A i, j \in T : f[i] = f[j] => i = j
      <4> SUFFICES ASSUME NEW i \in T, NEW j \in T, f[i] = f[j] PROVE i = j
        OBVIOUS
      <4>1. i \in Int /\ j \in Int /\ i + a = j + a
        BY <2>3
      <4> QED  BY <4>1
    <3> HIDE DEF f
    <3> QED  BY <3>1, <3>2 DEF Injection, IsInjective
  <2>6. f \in Surjection(T, U)
    BY <2>1, <2>2, <2>4 DEF Surjection
  <2> QED  BY <2>5, <2>6 DEF Bijection
<1> HIDE DEF S, T, U, f
<1>4. IsFiniteSet(U) /\ Cardinality(U) = Cardinality(T)
  BY <1>2, <1>3, FS_Bijection DEF ExistsBijection
<1>5. Cardinality(S \cup U) = Cardinality(S) + Cardinality(U) - Cardinality({}) /\ Cardinality({}) = 0
  BY <1>1, <1>2, <1>4, FS_Union, FS_EmptySet
<1>6. Cardinality(S) \in Nat /\ Cardinality(U) \in Nat
  BY <1>2, <1>4, FS_CardinalityType
<1>7. Cardinality(S \cup U) = Cardinality(S) + Cardinality(T)
  BY <1>4, <1>5, <1>6
<1>8. /\ Turns(C, from, a + b, c) = Cardinality(S \cup U)
      /\ Turns(C, from, a, c) = Cardinality(S) /\ Turns(C, from + a, b, c) = Cardinality(T)
  BY <1>1 DEF Turns, S, T
<1> QED  BY <1>7, <1>8

(* Where the hand is counts only up to whole turns.                        *)
WholeTurns(C, from, to) == to \in Int /\ \E t \in Int : to = from + (t * C)

LEMMA HandOnRing ==
  ASSUME NEW C, C \in Nat \ {0}, NEW from, from \in Int, NEW to, WholeTurns(C, from, to),
         NEW n, NEW c
  PROVE  Turns(C, to, n, c) = Turns(C, from, n, c)
<1>0. PICK t \in Int : to = from + (t * C)
  BY DEF WholeTurns
<1>1. \A i \in 0 .. n - 1 : (to + i) % C = (from + i) % C
  <2> TAKE i \in 0 .. n - 1
  <2>1. from + i \in Int /\ to + i = (from + i) + (t * C)
    <3>1. t * C \in Int
      BY Products
    <3> QED  BY <1>0, <3>1 DEF WholeTurns
  <2> QED  BY <2>1, SameRemainder
<1> QED  BY <1>1 DEF Turns, Hand

(* A turn passes each cell once.                                           *)
LEMMA OneTurn ==
  ASSUME NEW C \in Nat \ {0}, NEW from \in Int, NEW c \in 0 .. C - 1
  PROVE  Turns(C, from, C, c) = 1
<1> DEFINE p == (c - from) % C
           q == (c - from) \div C
<1>1. p \in 0 .. C - 1 /\ q \in Int /\ c - from = q * C + p
  OBVIOUS
<1> HIDE DEF p, q
<1>2. (from + p) % C = c
  <2>1. (-q) * C + q * C = 0 /\ (-q) * C \in Int /\ q * C \in Int
    <3>1. ((-q) + q) * C = (-q) * C + q * C /\ (-q) + q = 0 /\ 0 * C = 0
      BY <1>1, Products
    <3> QED  BY <1>1, <3>1, Products
  <2>2. from + p = (-q) * C + c /\ from + p \in Int /\ -q \in Int
    BY <1>1, <2>1
  <2> QED  BY <2>2, Remainder
<1>3. ASSUME NEW i \in 0 .. C - 1, (from + i) % C = c PROVE i = p
  <2> DEFINE e == (from + i) \div C
  <2>1. e \in Int /\ from + i = e * C + c
    BY <1>3
  <2> HIDE DEF e
  <2>2. (-e) * C + e * C = 0 /\ (-e) * C \in Int /\ e * C \in Int
    <3>1. ((-e) + e) * C = (-e) * C + e * C /\ (-e) + e = 0 /\ 0 * C = 0
      BY <2>1, Products
    <3> QED  BY <2>1, <3>1, Products
  <2>3. c - from = (-e) * C + i /\ c - from \in Int /\ -e \in Int
    BY <2>1, <2>2
  <2>4. (c - from) % C = i
    BY <2>3, Remainder
  <2> QED  BY <2>4 DEF p
<1>4. Hand(C, from, C, c) = {p}
  BY <1>1, <1>2, <1>3 DEF Hand
<1> QED  BY <1>4, FS_Singleton DEF Turns

LEMMA ManyTurns ==
  ASSUME NEW C \in Nat \ {0}, NEW from \in Int, NEW c \in 0 .. C - 1, NEW m \in Nat
  PROVE  Turns(C, from, m * C, c) = m
<1> DEFINE P == {t \in Nat : Turns(C, from, t * C, c) = t}
<1>1. 0 \in P
  <2>1. Hand(C, from, 0, c) = {} /\ 0 * C = 0
    BY DEF Hand
  <2> QED  BY <2>1, FS_EmptySet DEF Turns
<1>2. ASSUME NEW i \in 0 .. m - 1, i \in P PROVE i + 1 \in P
  <2>1. i \in Nat /\ (i + 1) * C = i * C + 1 * C /\ 1 * C = C /\ i * C \in Nat
    BY Products
  <2>2. Turns(C, from, i * C + C, c) = Turns(C, from, i * C, c) + Turns(C, from + (i * C), C, c)
    BY <2>1, HandGoesOn
  <2>3. Turns(C, from + (i * C), C, c) = 1
    BY <2>1, OneTurn
  <2>4. Turns(C, from, i * C, c) = i
    BY <1>2
  <2> QED  BY <2>1, <2>2, <2>3, <2>4
<1> HIDE DEF P
<1>3. m \in P
  BY <1>1, <1>2, CountUp
<1> QED  BY <1>3 DEF P

LEMMA HandGrows ==
  ASSUME NEW C \in Nat \ {0}, NEW from \in Int, NEW a \in Nat, NEW b \in Nat, a <= b, NEW c
  PROVE  Turns(C, from, a, c) <= Turns(C, from, b, c)
<1>1. b - a \in Nat /\ a + (b - a) = b /\ from + a \in Int
  OBVIOUS
<1>2. Turns(C, from, a + (b - a), c) = Turns(C, from, a, c) + Turns(C, from + a, b - a, c)
  BY <1>1, HandGoesOn
<1>3. Turns(C, from, a, c) \in Nat /\ Turns(C, from + a, b - a, c) \in Nat
  BY <1>1, HandFinite
<1> QED  BY <1>1, <1>2, <1>3

(* The hand at ix, moved st cells by every insertion: how often the last n *)
(* insertions passed cell c.                                               *)
Since(C, st, ix, n, c) == Turns(C, ix + n * (C - st), n * st, c)

LEMMA SinceNone ==
  ASSUME NEW C \in Nat \ {0}, NEW st \in Nat, st <= C, NEW ix \in Int, NEW c
  PROVE  Since(C, st, ix, 0, c) = 0
<1>1. 0 * st = 0 /\ Hand(C, ix + 0 * (C - st), 0, c) = {}
  BY DEF Hand
<1> QED  BY <1>1, FS_EmptySet DEF Since, Turns

LEMMA SinceNat ==
  ASSUME NEW C \in Nat \ {0}, NEW st \in Nat, st <= C, NEW ix \in Int, NEW n \in Nat, NEW c
  PROVE  Since(C, st, ix, n, c) \in Nat
<1>1. n * (C - st) \in Int /\ n * st \in Nat
  BY Products
<1> QED  BY <1>1, HandFinite DEF Since

(* One insertion more.                                                     *)
LEMMA SinceNext ==
  ASSUME NEW C \in Nat \ {0}, NEW st \in Nat, st <= C, NEW ix \in Int, NEW n \in Nat, NEW c
  PROVE  Since(C, st, (ix + st) % C, n + 1, c) = Since(C, st, ix, n, c) + Turns(C, ix, st, c)
<1> DEFINE q == (ix + st) \div C
           to == (ix + st) % C
           x == n * (C - st)
           y == n * st
<1>1. q \in Int /\ to \in Int /\ ix + st = q * C + to
  OBVIOUS
<1>2. x \in Int /\ y \in Nat /\ x + y = n * C /\ (n + 1) * (C - st) = x + (C - st)
      /\ (n + 1) * st = y + st /\ n * C \in Int
  <2>1. n * ((C - st) + st) = n * (C - st) + n * st /\ (C - st) + st = C
    OBVIOUS
  <2>2. (n + 1) * (C - st) = n * (C - st) + 1 * (C - st) /\ 1 * (C - st) = C - st
    OBVIOUS
  <2>3. (n + 1) * st = n * st + 1 * st /\ 1 * st = st
    OBVIOUS
  <2>4. n * (C - st) \in Int /\ n * st \in Nat /\ n * C \in Int
    BY Products
  <2> QED  BY <2>1, <2>2, <2>3, <2>4
<1> HIDE DEF q, to, x, y
<1>3. (1 - q) * C = C - q * C /\ q * C \in Int /\ (n + 1 - q) * C = n * C + C - q * C
  <2>1. ((1 - q) + q) * C = (1 - q) * C + q * C /\ (1 - q) + q = 1 /\ 1 * C = C
    BY <1>1, Products
  <2>2. ((n + 1 - q) + q) * C = (n + 1 - q) * C + q * C /\ (n + 1 - q) + q = n + 1
    BY <1>1, Products
  <2>3. (n + 1) * C = n * C + 1 * C
    BY Products
  <2>4. q * C \in Int /\ (1 - q) * C \in Int /\ (n + 1 - q) * C \in Int
    BY <1>1, Products
  <2>5. (n + 1 - q) * C = n * C + C - q * C
    <3> DEFINE u == (n + 1 - q) * C
               v == q * C
               w == n * C
               z == (n + 1) * C
    <3>1. u \in Int /\ v \in Int /\ w \in Int /\ z = u + v /\ z = w + C
      BY <1>2, <2>2, <2>3, <2>4
    <3> HIDE DEF u, v, w, z
    <3>2. u = w + C - v
      BY <3>1
    <3> QED  BY <3>2 DEF u, v, w
  <2> QED  BY <2>1, <2>4, <2>5
<1> DEFINE old == ix + x
           new == to + (x + (C - st))
<1>4. old \in Int /\ new \in Int /\ 1 - q \in Int /\ new = old + ((1 - q) * C)
  BY <1>1, <1>2, <1>3
<1>5. old + y \in Int /\ new + y \in Int /\ n + 1 - q \in Int /\ new + y = ix + ((n + 1 - q) * C)
  BY <1>1, <1>2, <1>3
<1> HIDE DEF old, new
<1>6. Turns(C, new, y + st, c) = Turns(C, new, y, c) + Turns(C, new + y, st, c)
  BY <1>2, <1>4, HandGoesOn
<1>7. \A m : Turns(C, new, m, c) = Turns(C, old, m, c)
  <2>0. PICK b : b = new
    OBVIOUS
  <2>1. PICK a \in Int : a = old
    BY <1>4
  <2>2. WholeTurns(C, a, b)
    BY <1>4, <2>0, <2>1 DEF WholeTurns
  <2>3. ASSUME NEW m PROVE Turns(C, b, m, c) = Turns(C, a, m, c)
    BY <2>2, HandOnRing
  <2> QED  BY <2>0, <2>1, <2>3
<1>8. \A m : Turns(C, new + y, m, c) = Turns(C, ix, m, c)
  <2>1. PICK b : b = new + y
    OBVIOUS
  <2>2. WholeTurns(C, ix, b)
    BY <1>5, <2>1 DEF WholeTurns
  <2>3. ASSUME NEW m PROVE Turns(C, b, m, c) = Turns(C, ix, m, c)
    BY <2>2, HandOnRing
  <2> QED  BY <2>1, <2>3
<1>9. Since(C, st, (ix + st) % C, n + 1, c) = Turns(C, new, y + st, c)
  BY <1>2 DEF Since, new, to
<1>10. Since(C, st, ix, n, c) = Turns(C, old, y, c)
  BY DEF Since, old, x, y
<1> QED  BY <1>6, <1>7, <1>8, <1>9, <1>10

LEMMA SinceTurns ==
  ASSUME NEW C \in Nat \ {0}, NEW st \in Nat, st <= C, NEW ix \in Int, NEW n \in Nat,
         NEW c \in 0 .. C - 1, NEW m \in Nat
  PROVE  /\ n * st <= m * C => Since(C, st, ix, n, c) <= m
         /\ m * C <= n * st => m <= Since(C, st, ix, n, c)
<1>1. ix + n * (C - st) \in Int /\ n * st \in Nat /\ m * C \in Nat
  <2>1. n * (C - st) \in Int /\ n * st \in Nat /\ m * C \in Nat
    BY Products
  <2> QED  BY <2>1
<1>2. Turns(C, ix + n * (C - st), m * C, c) = m
  BY <1>1, ManyTurns
<1> QED  BY <1>1, <1>2, HandGrows DEF Since

(* A sliding sketch of C cells, with a window of w keys and `day' counters *)
(* in a cell, moves its hand by StepOf cells and forgets after MaxOf keys. *)
StepOf(C, w, dy) == (C \div w) * (dy - 1)
MaxOf(w, dy) == (dy * w) \div (dy - 1)

RingSizes(C, w, dy) ==
  /\ w \in Nat \ {0} /\ C \in Nat \ {0} /\ C % w = 0
  /\ dy \in Nat /\ dy > 1 /\ w % (dy - 1) = 0

LEMMA Factors ==
  ASSUME NEW a \in Nat, NEW b \in Nat \ {0}, a % b = 0
  PROVE  a \div b \in Nat /\ a = (a \div b) * b
OBVIOUS

LEMMA ProductsOfThree ==
  ASSUME NEW a \in Nat, NEW b \in Nat, NEW c \in Nat
  PROVE  /\ a * b \in Nat /\ b * c \in Nat /\ (a * b) * c = a * (b * c) /\ a * b = b * a
         /\ a <= b => a * c <= b * c
<1>1. a <= b => a * c <= b * c
  <2> SUFFICES ASSUME a <= b PROVE a * c <= b * c
    OBVIOUS
  <2>1. (b - a) * c + a * c = b * c /\ 0 <= (b - a) * c /\ a * c \in Int /\ (b - a) * c \in Int
    <3>1. ((b - a) + a) * c = (b - a) * c + a * c /\ (b - a) + a = b
      BY Products
    <3> QED  BY <3>1, Products
  <2> QED  BY <2>1
<1> QED  BY <1>1

LEMMA ExactQuotient ==
  ASSUME NEW a \in Nat, NEW b \in Nat \ {0}
  PROVE  (a * b) \div b = a
<1> DEFINE q == (a * b) \div b
           r == (a * b) % b
           x == a * b
           y == q * b
           z == (q - a) * b
<1>1. x \in Nat /\ q \in Int /\ r \in 0 .. b - 1 /\ x = y + r
  OBVIOUS
<1> HIDE DEF q, r
<1>2. y \in Int /\ z \in Int /\ z + x = y
  <2>1. ((q - a) + a) * b = (q - a) * b + a * b /\ (q - a) + a = q
    BY <1>1, Products
  <2> QED  BY <1>1, <2>1, Products
<1> HIDE DEF x, y
<1>3. z = -r /\ z < b /\ -b < z
  <2> HIDE DEF z
  <2> QED  BY <1>1, <1>2
<1>4. q - a = 0
  BY <1>1, <1>3, MultipleInside
<1> QED  BY <1>1, <1>4 DEF q

LEMMA RingStepSizes ==
  ASSUME NEW C, NEW w, NEW dy, RingSizes(C, w, dy)
  PROVE  /\ C \in Nat \ {0} /\ w \in Nat \ {0} /\ dy \in Nat /\ dy > 1
         /\ StepOf(C, w, dy) \in Nat /\ StepOf(C, w, dy) <= C
         /\ MaxOf(w, dy) \in Nat /\ w <= MaxOf(w, dy)
         /\ w * StepOf(C, w, dy) = (dy - 1) * C
         /\ MaxOf(w, dy) * StepOf(C, w, dy) = dy * C
<1>1. w \in Nat \ {0} /\ C \in Nat \ {0} /\ C % w = 0 /\ dy \in Nat /\ dy > 1 /\ w % (dy - 1) = 0
  BY DEF RingSizes
<1>2. PICK e \in Nat \ {0} : e = dy - 1
  BY <1>1
<1>3. PICK q \in Nat : q = C \div w /\ C = q * w
  BY <1>1, Factors
<1>4. PICK p \in Nat : w = p * e
  <2>1. w % e = 0 /\ w \in Nat
    BY <1>1, <1>2
  <2> QED  BY <1>2, <2>1, Factors
<1>5. StepOf(C, w, dy) = q * e /\ q * e \in Nat
  BY <1>2, <1>3, ProductsOfThree DEF StepOf
<1>6. p # 0
  <2>1. p = 0 => p * e = 0
    OBVIOUS
  <2> QED  BY <1>1, <1>4, <2>1
<1>7. e <= w
  <2>1. 1 <= p => 1 * e <= p * e
    BY ProductsOfThree
  <2> QED  BY <1>4, <1>6, <2>1
<1>8. q * e <= C
  <2>1. e * q <= w * q
    BY <1>1, <1>7, ProductsOfThree
  <2>2. e * q = q * e /\ w * q = q * w
    BY <1>1, ProductsOfThree
  <2> QED  BY <1>3, <2>1, <2>2
<1>9. MaxOf(w, dy) = dy * p /\ dy * p \in Nat
  <2>1. dy * w = (dy * p) * e /\ dy * p \in Nat
    BY <1>1, <1>4, ProductsOfThree
  <2>2. ((dy * p) * e) \div e = dy * p
    BY <2>1, ExactQuotient
  <2> QED  BY <1>2, <2>1, <2>2 DEF MaxOf
<1>10. w <= dy * p
  <2>1. e * p <= dy * p /\ e * p = p * e
    BY <1>1, <1>2, ProductsOfThree
  <2> QED  BY <1>4, <2>1
<1>11. w * (q * e) = e * C
  <2>1. w * (q * e) = (w * q) * e /\ w * q = q * w
    BY <1>1, ProductsOfThree
  <2>2. C * e = e * C
    BY <1>1, ProductsOfThree
  <2> QED  BY <1>3, <2>1, <2>2
<1>12. (dy * p) * (q * e) = dy * C
  <2>1. (dy * p) * (q * e) = dy * (p * (q * e))
    BY <1>1, <1>5, ProductsOfThree
  <2>2. p * (q * e) = (q * e) * p /\ (q * e) * p = q * (e * p) /\ e * p = p * e
    BY <1>5, ProductsOfThree
  <2> QED  BY <1>3, <1>4, <2>1, <2>2
<1> QED  BY <1>1, <1>2, <1>5, <1>8, <1>9, <1>10, <1>11, <1>12

-----------------------------------------------------------------------------
(* The log of a sliding sketch: the key of the n-th last insertion.        *)
Ago(lg, n) == lg[Len(lg) - n + 1]

Longer(lg, k, M) == LET s == Append(lg, k) IN IF Len(s) > M THEN Tail(s) ELSE s

LogGrown(lg, l2, k, M) ==
  /\ Len(l2) \in 1 .. M /\ Ago(l2, 1) = k
  /\ Len(l2) = IF Len(lg) = M THEN M ELSE Len(lg) + 1
  /\ \A n \in 1 .. Len(l2) - 1 : n \in 1 .. Len(lg) /\ Ago(l2, n + 1) = Ago(lg, n)

LEMMA LogGoesOn ==
  ASSUME NEW S, NEW lg \in Seq(S), NEW M \in Nat \ {0}, Len(lg) <= M, NEW k \in S
  PROVE  Longer(lg, k, M) \in Seq(S) /\ LogGrown(lg, Longer(lg, k, M), k, M)
<1> USE DEF LogGrown
<1> DEFINE s == Append(lg, k)
<1>1. /\ s \in Seq(S) /\ Len(s) = Len(lg) + 1 /\ Len(lg) \in Nat /\ s[Len(lg) + 1] = k
      /\ \A i \in 1 .. Len(lg) : s[i] = lg[i]
  BY AppendProperties
<1> HIDE DEF s
<1>2. CASE Len(lg) < M
  <2>1. Longer(lg, k, M) = s
    BY <1>1, <1>2 DEF Longer, s
  <2> QED  BY <1>1, <1>2, <2>1 DEF Ago
<1>3. CASE Len(lg) = M
  <2>1. Longer(lg, k, M) = Tail(s)
    BY <1>1, <1>3 DEF Longer, s
  <2>2. /\ Tail(s) \in Seq(S) /\ Len(Tail(s)) = M
        /\ \A i \in 1 .. M : Tail(s)[i] = s[i + 1]
    BY <1>1, <1>3, HeadTailProperties
  <2> QED  BY <1>1, <1>3, <2>1, <2>2 DEF Ago
<1> QED  BY <1>1, <1>2, <1>3

(* What an insertion does to the passes of the insertions before it: the   *)
(* moves it makes over a cell come on top.                                 *)
LEMMA PassesGoOn ==
  ASSUME NEW C, NEW w, NEW dy, RingSizes(C, w, dy), NEW ix \in Int, NEW c \in 0 .. C - 1
  PROVE  LET st == StepOf(C, w, dy)
             to == (ix + st) % C
             p  == Turns(C, ix, st, c)
         IN  /\ to \in 0 .. C - 1 /\ p \in Nat
             /\ Since(C, st, to, 1, c) = p
             /\ \A n \in Nat : /\ Since(C, st, ix, n, c) \in Nat
                               /\ Since(C, st, to, n + 1, c) = Since(C, st, ix, n, c) + p
             /\ Since(C, st, ix, MaxOf(w, dy), c) >= dy
             /\ \A n \in Nat : n <= w => Since(C, st, ix, n, c) < dy
<1> DEFINE st == StepOf(C, w, dy)
           to == (ix + st) % C
           p  == Turns(C, ix, st, c)
           M  == MaxOf(w, dy)
<1>1. /\ C \in Nat \ {0} /\ w \in Nat \ {0} /\ dy \in Nat /\ dy > 1 /\ st \in Nat /\ st <= C
      /\ M \in Nat /\ w * st = (dy - 1) * C /\ M * st = dy * C
  BY RingStepSizes
<1> HIDE DEF st, M
<1>2. to \in 0 .. C - 1 /\ p \in Nat
  BY <1>1, HandFinite
<1>3. ASSUME NEW n \in Nat
      PROVE  Since(C, st, ix, n, c) \in Nat
             /\ Since(C, st, to, n + 1, c) = Since(C, st, ix, n, c) + p
  <2> HIDE DEF p
  <2>1. Since(C, st, ix, n, c) \in Nat
    BY <1>1, SinceNat
  <2>2. Since(C, st, to, n + 1, c) = Since(C, st, ix, n, c) + p
    BY <1>1, SinceNext DEF p
  <2> QED  BY <2>1, <2>2
<1>4. Since(C, st, to, 1, c) = p
  <2>1. Since(C, st, to, 0 + 1, c) = Since(C, st, ix, 0, c) + p
    BY <1>3
  <2>2. Since(C, st, ix, 0, c) = 0
    BY <1>1, SinceNone
  <2> HIDE DEF p, to
  <2>3. 0 + 1 = 1
    OBVIOUS
  <2> QED  BY <1>2, <2>1, <2>2, <2>3
<1>5. Since(C, st, ix, M, c) >= dy
  <2>1. dy * C <= M * st
    <3>1. dy * C \in Int
      BY <1>1, Products
    <3> QED  BY <1>1, <3>1
  <2>2. dy <= Since(C, st, ix, M, c)
    BY <1>1, <2>1, SinceTurns
  <2>3. Since(C, st, ix, M, c) \in Nat
    BY <1>1, <1>3
  <2> QED  BY <1>1, <2>2, <2>3
<1>6. ASSUME NEW n \in Nat, n <= w PROVE Since(C, st, ix, n, c) < dy
  <2>1. PICK m \in Nat : m = dy - 1
    BY <1>1
  <2>2. n * st <= m * C
    <3>1. n * st <= w * st /\ n * st \in Nat /\ w * st \in Nat
      BY <1>1, <1>6, ProductsOfThree
    <3> QED  BY <1>1, <2>1, <3>1
  <2>3. Since(C, st, ix, n, c) <= m
    BY <1>1, <2>2, SinceTurns
  <2> QED  BY <1>1, <1>3, <2>1, <2>3
<1> HIDE DEF to, p
<1> QED  BY <1>2, <1>3, <1>4, <1>5, <1>6 DEF to, p, st, M

-----------------------------------------------------------------------------
(* bloomFilter_ss: a bit of a cell is set when one of the insertions that  *)
(* the hand has since passed as often was of one of the cell's keys.       *)

bs_step == StepOf(bs_cells, bs_window, bs_day)
BitSet(c, j) ==
  \E n \in 1 .. Len(stream) :
    c \in bs_positions[Ago(stream, n)] /\ Since(bs_cells, bs_step, index, n, c) = j

SlidingBits ==
  /\ index \in 0 .. bs_cells - 1
  /\ stream \in Seq(Keys) /\ Len(stream) <= MaxOf(bs_window, bs_day)
  /\ cells \in [SlidBF!Cells -> [SlidBF!Days -> BOOLEAN]]
  /\ \A c \in SlidBF!Cells, j \in SlidBF!Days : cells[c][j] <=> BitSet(c, j)

LEMMA SlidBFNames ==
  /\ SlidBF!Cells = 0 .. bs_cells - 1 /\ SlidBF!Days = 0 .. bs_day - 1
  /\ SlidBF!step = bs_step /\ SlidBF!MaxWindow = MaxOf(bs_window, bs_day)
  /\ \A n : SlidBF!KeyAgo(n) = Ago(stream, n)
  /\ \A k : SlidBF!Logged(k) <=> stream' = Longer(stream, k, MaxOf(bs_window, bs_day))
  /\ SlidBF!WindowAssumption /\ SlidBF!TurnAssumption => RingSizes(bs_cells, bs_window, bs_day)
<1>1. /\ SlidBF!Cells = 0 .. bs_cells - 1 /\ SlidBF!Days = 0 .. bs_day - 1
      /\ SlidBF!step = bs_step /\ SlidBF!MaxWindow = MaxOf(bs_window, bs_day)
  BY DEF SlidBF!Cells, SlidBF!Days, SlidBF!step, bs_step, StepOf, SlidBF!MaxWindow, MaxOf
<1>2. \A n : SlidBF!KeyAgo(n) = Ago(stream, n)
  BY DEF SlidBF!KeyAgo, Ago
<1>3. \A k : SlidBF!Logged(k) <=> stream' = Longer(stream, k, MaxOf(bs_window, bs_day))
  BY <1>1 DEF SlidBF!Logged, Longer
<1>4. SlidBF!WindowAssumption /\ SlidBF!TurnAssumption => RingSizes(bs_cells, bs_window, bs_day)
  BY DEF SlidBF!WindowAssumption, SlidBF!TurnAssumption, RingSizes
<1> QED  BY <1>1, <1>2, <1>3, <1>4

LEMMA SlidBFPasses ==
  /\ \A c : SlidBF!Passes(index, 1, c) = Turns(bs_cells, index, bs_step, c)
             \/ ~(bs_step \in Nat)
  /\ \A n, c : SlidBF!PassesSince(n, c) = Since(bs_cells, bs_step, index, n, c)
<1>1. \A S : SlidBF!Cardinality(S) = Cardinality(S)
  BY DEF SlidBF!Cardinality, Cardinality, SlidBF!IsFiniteSet, IsFiniteSet
<1>2. SlidBF!step = bs_step
  BY SlidBFNames
<1>3. bs_step \in Nat => 1 * bs_step = bs_step
  OBVIOUS
<1>4. \A from, n, c : SlidBF!Passes(from, n, c) = Turns(bs_cells, from, n * bs_step, c)
  BY <1>1, <1>2 DEF SlidBF!Passes, Turns, Hand
<1> QED  BY <1>2, <1>3, <1>4 DEF SlidBF!PassesSince, Since

LEMMA SlidBFStarts ==
  ASSUME SlidBF!WindowAssumption, SlidBF!TurnAssumption, SlidBF!Init
  PROVE  SlidingBits
<1>1. index = 0 /\ stream = <<>> /\ cells = [c \in SlidBF!Cells |-> [j \in SlidBF!Days |-> FALSE]]
  BY DEF SlidBF!Init, SlidBF!SlideInit
<1>2. stream \in Seq(Keys) /\ Len(stream) = 0 /\ 1 .. Len(stream) = {}
  BY <1>1
<1>3. bs_cells \in Nat \ {0} /\ MaxOf(bs_window, bs_day) \in Nat
  BY SlidBFNames, RingStepSizes
<1>4. \A c \in SlidBF!Cells, j \in SlidBF!Days : cells[c][j] = FALSE /\ ~BitSet(c, j)
  BY <1>1, <1>2 DEF BitSet
<1> QED  BY <1>1, <1>2, <1>3, <1>4 DEF SlidingBits

LEMMA SlidBFClear ==
  ASSUME SlidBF!WindowAssumption, SlidBF!TurnAssumption, SlidingBits, SlidBF!clear
  PROVE  SlidingBits'
<1>1. index' = index /\ stream' = <<>> /\ cells' = [c \in SlidBF!Cells |-> [j \in SlidBF!Days |-> FALSE]]
  BY DEF SlidBF!clear, SlidBF!ClearCounters
<1>2. stream' \in Seq(Keys) /\ Len(stream') = 0 /\ 1 .. Len(stream') = {}
  BY <1>1
<1>3. MaxOf(bs_window, bs_day) \in Nat
  BY SlidBFNames, RingStepSizes
<1>4. \A c \in SlidBF!Cells, j \in SlidBF!Days : cells'[c][j] = FALSE /\ ~BitSet(c, j)'
  BY <1>1, <1>2 DEF BitSet
<1> QED  BY <1>1, <1>2, <1>3, <1>4 DEF SlidingBits, SlidBF!Cells, SlidBF!Days

LEMMA SlidBFSame ==
  ASSUME SlidingBits, UNCHANGED <<cells, index, stream>>
  PROVE  SlidingBits'
BY DEF SlidingBits, BitSet, SlidBF!Cells, SlidBF!Days

LEMMA SlidBFInsert ==
  ASSUME SlidBF!WindowAssumption, SlidBF!TurnAssumption, SlidBF!PositionsAssumption,
         SlidingBits, NEW k \in Keys, SlidBF!insert(k)
  PROVE  SlidingBits'
<1>0. PICK M \in Nat \ {0} : M = MaxOf(bs_window, bs_day)
  <2>1. /\ bs_window \in Nat \ {0} /\ MaxOf(bs_window, bs_day) \in Nat
        /\ bs_window <= MaxOf(bs_window, bs_day)
    BY SlidBFNames, RingStepSizes
  <2> QED  BY <2>1
<1> DEFINE C == bs_cells
           p(c) == Turns(C, index, bs_step, c)
           age(n, c) == Since(C, bs_step, index, n, c)
           set(c, j) == cells[c][j] \/ (j = 0 /\ c \in bs_positions[k])
<1>1. /\ RingSizes(C, bs_window, bs_day) /\ C \in Nat \ {0} /\ M \in Nat \ {0}
      /\ bs_day \in Nat /\ bs_day > 1 /\ bs_step \in Nat
      /\ SlidBF!Cells = 0 .. C - 1 /\ SlidBF!Days = 0 .. bs_day - 1
  BY <1>0, SlidBFNames, RingStepSizes DEF bs_step
<1>2. /\ index \in 0 .. C - 1 /\ stream \in Seq(Keys) /\ Len(stream) <= M
      /\ cells \in [SlidBF!Cells -> [SlidBF!Days -> BOOLEAN]]
      /\ \A c \in SlidBF!Cells, j \in SlidBF!Days : cells[c][j] <=> BitSet(c, j)
  BY <1>0 DEF SlidingBits
<1>3. index' = (index + bs_step) % C /\ stream' = Longer(stream, k, M)
  BY <1>0, SlidBFNames DEF SlidBF!insert, SlidBF!MoveHand
<1>4. /\ stream' \in Seq(Keys) /\ Len(stream') \in 1 .. M /\ Ago(stream', 1) = k
      /\ Len(stream') = IF Len(stream) = M THEN M ELSE Len(stream) + 1
      /\ \A n \in 1 .. Len(stream') - 1 :
           n \in 1 .. Len(stream) /\ Ago(stream', n + 1) = Ago(stream, n)
  <2>0. stream \in Seq(Keys) /\ Len(stream) <= M
    BY <1>2
  <2>1. Longer(stream, k, M) \in Seq(Keys) /\ LogGrown(stream, Longer(stream, k, M), k, M)
    BY <2>0, LogGoesOn
  <2> QED  BY <1>3, <2>1 DEF LogGrown
<1>5. ASSUME NEW c \in SlidBF!Cells
      PROVE  /\ index' \in 0 .. C - 1 /\ p(c) \in Nat
             /\ Since(C, bs_step, index', 1, c) = p(c)
             /\ \A n \in Nat : age(n, c) \in Nat /\ Since(C, bs_step, index', n + 1, c) = age(n, c) + p(c)
             /\ age(M, c) >= bs_day
  <2>1. /\ bs_step = StepOf(C, bs_window, bs_day) /\ index \in Int /\ c \in 0 .. C - 1
    BY <1>1, <1>2 DEF bs_step
  <2>2. LET st == StepOf(C, bs_window, bs_day)
            to == (index + st) % C
            q  == Turns(C, index, st, c)
        IN  /\ to \in 0 .. C - 1 /\ q \in Nat
            /\ Since(C, st, to, 1, c) = q
            /\ \A n \in Nat : /\ Since(C, st, index, n, c) \in Nat
                              /\ Since(C, st, to, n + 1, c) = Since(C, st, index, n, c) + q
            /\ Since(C, st, index, MaxOf(bs_window, bs_day), c) >= bs_day
    BY <1>1, <2>1, PassesGoOn
  <2> QED  BY <1>0, <1>3, <2>1, <2>2
<1>6. /\ cells' \in [SlidBF!Cells -> [SlidBF!Days -> BOOLEAN]]
      /\ \A c \in SlidBF!Cells, j \in SlidBF!Days :
           cells'[c][j] <=> p(c) <= j /\ set(c, j - p(c))
  <2> DEFINE cs == [c \in SlidBF!Cells |->
               IF c \in bs_positions[k] THEN [cells[c] EXCEPT ![0] = TRUE] ELSE cells[c]]
  <2>1. cells' = [c \in SlidBF!Cells |->
                   [j \in SlidBF!Days |-> IF j < p(c) THEN FALSE ELSE cs[c][j - p(c)]]]
    <3>1. \A c \in SlidBF!Cells : SlidBF!Passes(index, 1, c) = p(c)
      BY <1>1, SlidBFPasses
    <3>2. cells' = SlidBF!Slid(cs, FALSE)
      BY DEF SlidBF!insert
    <3> HIDE DEF p, cs
    <3> QED  BY <3>1, <3>2 DEF SlidBF!Slid
  <2>2. \A c \in SlidBF!Cells, j \in SlidBF!Days : cs[c][j] \in BOOLEAN /\ (cs[c][j] <=> set(c, j))
    BY <1>1, <1>2
  <2> HIDE DEF cs, p, set
  <2>a. ASSUME NEW c \in SlidBF!Cells, NEW j \in SlidBF!Days
        PROVE  /\ ~(j < p(c)) => j - p(c) \in SlidBF!Days
               /\ p(c) <= j <=> ~(j < p(c))
    <3>1. p(c) \in Nat
      BY <1>5
    <3>2. j \in 0 .. bs_day - 1
      BY <1>1
    <3> HIDE DEF p
    <3> QED  BY <1>1, <3>1, <3>2
  <2>3. \A c \in SlidBF!Cells, j \in SlidBF!Days : ~(j < p(c)) => j - p(c) \in SlidBF!Days
    BY <2>a
  <2>4. \A c \in SlidBF!Cells, j \in SlidBF!Days : p(c) <= j <=> ~(j < p(c))
    BY <2>a
  <2>5. ASSUME NEW c \in SlidBF!Cells, NEW j \in SlidBF!Days
        PROVE  /\ cells'[c][j] = IF j < p(c) THEN FALSE ELSE cs[c][j - p(c)]
               /\ cells'[c][j] \in BOOLEAN
    BY <2>1, <2>2, <2>3
  <2>6. cells' \in [SlidBF!Cells -> [SlidBF!Days -> BOOLEAN]]
    <3>1. \A c \in SlidBF!Cells, j \in SlidBF!Days : (IF j < p(c) THEN FALSE ELSE cs[c][j - p(c)]) \in BOOLEAN
      BY <2>2, <2>3
    <3> HIDE DEF cs
    <3> QED  BY <2>1, <3>1
  <2> QED  BY <2>2, <2>3, <2>4, <2>5, <2>6
<1> HIDE DEF set
<1>7. ASSUME NEW c \in SlidBF!Cells, NEW j \in SlidBF!Days
      PROVE  cells'[c][j] <=> BitSet(c, j)'
  <2>0. /\ p(c) \in Nat /\ j \in Nat /\ j < bs_day /\ Len(stream) \in Nat
        /\ Since(C, bs_step, index', 1, c) = p(c)
        /\ \A n \in Nat : age(n, c) \in Nat /\ Since(C, bs_step, index', n + 1, c) = age(n, c) + p(c)
        /\ age(M, c) >= bs_day
    <3>1. j \in Nat /\ j < bs_day
      BY <1>1
    <3>2. Len(stream) \in Nat
      BY <1>2, LenProperties
    <3> QED  BY <1>5, <3>1, <3>2
  <2>1. BitSet(c, j)' <=> \E n \in 1 .. Len(stream') :
                            c \in bs_positions[Ago(stream', n)] /\ Since(C, bs_step, index', n, c) = j
    BY DEF BitSet
  <2> HIDE DEF p, age
  <2>2. ASSUME cells'[c][j]
        PROVE  \E n \in 1 .. Len(stream') :
                 c \in bs_positions[Ago(stream', n)] /\ Since(C, bs_step, index', n, c) = j
    <3>1. p(c) <= j /\ set(c, j - p(c)) /\ j - p(c) \in SlidBF!Days
      <4>1. p(c) <= j /\ set(c, j - p(c))
        BY <1>6, <2>2 DEF p
      <4>2. PICK q \in Nat : q = p(c)
        BY <2>0
      <4>3. j - q \in 0 .. bs_day - 1
        <5>1. q <= j /\ j \in Nat /\ j < bs_day /\ bs_day \in Nat
          BY <1>1, <2>0, <4>1, <4>2
        <5> QED  BY <5>1
      <4> QED  BY <1>1, <4>1, <4>2, <4>3
    <3>2. CASE j - p(c) = 0 /\ c \in bs_positions[k]
      <4>1. 1 \in 1 .. Len(stream') /\ p(c) = j
        <5>1. PICK q \in Nat : q = p(c)
          BY <2>0
        <5>2. q = j
          BY <2>0, <3>2, <5>1
        <5> QED  BY <1>1, <1>4, <5>1, <5>2
      <4> QED  BY <1>4, <2>0, <3>2, <4>1
    <3>3. CASE cells[c][j - p(c)]
      <4>1. PICK n \in 1 .. Len(stream) :
              c \in bs_positions[Ago(stream, n)] /\ age(n, c) = j - p(c)
        BY <1>2, <3>1, <3>3 DEF BitSet, age
      <4>2. n + 1 \in 1 .. Len(stream')
        <5>1. n # M
          <6>1. j - p(c) < bs_day
            BY <1>1, <3>1
          <6>2. age(n, c) < bs_day
            BY <4>1, <6>1
          <6>3. ~(age(M, c) < bs_day)
            <7>1. age(M, c) \in Nat /\ age(M, c) >= bs_day /\ bs_day \in Nat
              BY <1>1, <2>0
            <7> QED  BY <7>1
          <6> QED  BY <6>2, <6>3
        <5>2. Len(stream) \in Nat /\ Len(stream) <= M /\ n \in 1 .. Len(stream)
              /\ Len(stream') = IF Len(stream) = M THEN M ELSE Len(stream) + 1
          BY <1>2, <1>4, <2>0
        <5> QED  BY <5>1, <5>2
      <4>3. n \in 1 .. Len(stream') - 1 /\ n \in Nat
        BY <1>1, <1>4, <2>0, <4>2
      <4>4. Ago(stream', n + 1) = Ago(stream, n) /\ Since(C, bs_step, index', n + 1, c) = j
        <5>1. Since(C, bs_step, index', n + 1, c) = age(n, c) + p(c)
          BY <2>0, <4>3
        <5>2. age(n, c) + p(c) = j
          BY <2>0, <4>1
        <5> QED  BY <1>4, <4>3, <5>1, <5>2
      <4> QED  BY <4>1, <4>2, <4>4
    <3> QED  BY <3>1, <3>2, <3>3 DEF set
  <2>3. ASSUME NEW n \in 1 .. Len(stream'), c \in bs_positions[Ago(stream', n)],
               Since(C, bs_step, index', n, c) = j
        PROVE  cells'[c][j]
    <3>1. CASE n = 1
      <4>1. p(c) = j /\ c \in bs_positions[k]
        BY <1>4, <2>0, <2>3, <3>1
      <4>2. p(c) <= j /\ set(c, j - p(c))
        <5>1. PICK q \in Nat : q = p(c)
          BY <2>0
        <5>2. q <= j /\ j - q = 0
          BY <2>0, <4>1, <5>1
        <5> QED  BY <4>1, <5>1, <5>2 DEF set
      <4> QED  BY <1>6, <4>2
    <3>2. CASE n # 1
      <4>1. PICK m \in 1 .. Len(stream') - 1 : n = m + 1
        <5>1. n - 1 \in 1 .. Len(stream') - 1 /\ n = (n - 1) + 1
          BY <1>1, <1>4, <3>2
        <5> QED  BY <5>1
      <4>2. m \in 1 .. Len(stream) /\ Ago(stream', n) = Ago(stream, m) /\ m \in Nat
        BY <1>4, <4>1
      <4>3. age(m, c) + p(c) = j /\ age(m, c) \in Nat
        BY <2>0, <2>3, <4>1, <4>2
      <4>4. p(c) <= j /\ j - p(c) = age(m, c) /\ j - p(c) \in SlidBF!Days
        <5>1. PICK q \in Nat, a \in Nat : q = p(c) /\ a = age(m, c)
          BY <2>0, <4>3
        <5>2. q <= j /\ j - q = a /\ j - q \in 0 .. bs_day - 1
          <6>1. a + q = j /\ j \in Nat /\ j < bs_day /\ bs_day \in Nat
            BY <1>1, <2>0, <4>3, <5>1
          <6> QED  BY <6>1
        <5> QED  BY <1>1, <5>1, <5>2
      <4>5. BitSet(c, j - p(c))
        BY <2>3, <4>2, <4>4 DEF BitSet, age
      <4>6. set(c, j - p(c))
        BY <1>2, <4>4, <4>5 DEF set
      <4> QED  BY <1>6, <4>4, <4>6
    <3> QED  BY <3>1, <3>2
  <2> QED  BY <2>1, <2>2, <2>3
<1>8. index' \in 0 .. C - 1
  BY <1>1, <1>2, <1>3
<1> QED  BY <1>0, <1>1, <1>4, <1>6, <1>7, <1>8 DEF SlidingBits, SlidBF!Cells, SlidBF!Days

LEMMA SlidBFReports == SlidingBits => SlidBF!InStepIsReported
<1> SUFFICES ASSUME SlidingBits, NEW k \in Keys, NEW n \in 1 .. Len(stream), SlidBF!KeyAgo(n) = k,
                    SlidBF!InStep(k, n)
             PROVE  SlidBF!query(k)
  BY DEF SlidBF!InStepIsReported
<1>1. PICK j \in SlidBF!Days : \A c \in bs_positions[k] : SlidBF!PassesSince(n, c) = j
  BY DEF SlidBF!InStep
<1>2. \A c \in bs_positions[k] \cap SlidBF!Cells : cells[c][j]
  BY <1>1, SlidBFNames, SlidBFPasses DEF SlidingBits, BitSet
<1>3. bs_positions[k] \subseteq SlidBF!Cells
  BY SketchAssumptions DEF SketchAssumptions, SlidBF!PositionsAssumption
<1> QED  BY <1>2, <1>3 DEF SlidBF!query

LEMMA SlidBFForgets == SlidingBits => SlidBF!NoStalePositive
<1> SUFFICES ASSUME SlidingBits, NEW k \in Keys, SlidBF!query(k), NEW c \in bs_positions[k]
             PROVE  \E j \in SlidBF!Range(stream) : c \in bs_positions[j]
  BY DEF SlidBF!NoStalePositive
<1>1. c \in SlidBF!Cells
  BY SketchAssumptions DEF SketchAssumptions, SlidBF!PositionsAssumption
<1>2. PICK j \in SlidBF!Days : cells[c][j]
  BY DEF SlidBF!query
<1>3. PICK n \in 1 .. Len(stream) : c \in bs_positions[Ago(stream, n)]
  BY <1>1, <1>2 DEF SlidingBits, BitSet
<1>4. stream \in Seq(Keys) /\ Len(stream) \in Nat
  BY LenProperties DEF SlidingBits
<1>5. Len(stream) - n + 1 \in DOMAIN stream
  BY <1>4
<1>6. Ago(stream, n) \in SlidBF!Range(stream)
  BY <1>5 DEF Ago, SlidBF!Range
<1> QED  BY <1>3, <1>6

-----------------------------------------------------------------------------
(* The run on small instances, for any constants: its specification is the *)
(* one TLC explores.                                                       *)

(* What a step of the run is for each sketch.                              *)
LEMMA KeeperSteps ==
  ASSUME [MCNext]_mcVars
  PROVE  /\ sketch' = sketch
         /\ sketch \in HeavyKeepers => [Next]_vars
         /\ sketch \in BloomFilters =>
              \/ \E k \in Keys : BF!insert(k)
              \/ BF!clear \/ UNCHANGED <<windowVars, cells>>
         /\ \/ [Next]_vars
            \/ \E k \in Keys : InsertKey(k)
            \/ ClearKeys
         /\ sketch = "bloomFilter_ss" => SlidBF!Next \/ UNCHANGED <<cells, index, stream>>
<1> USE SketchAssumptions DEF HeavyKeepers, BloomFilters
<1>1. FewKeys \subseteq Keys
  BY DEF SketchAssumptions
<1>2. CASE UNCHANGED mcVars
  BY <1>2 DEF mcVars, others, sliding, vars
<1>3. CASE UNCHANGED sketch /\ HeavyKeeperNext /\ UNCHANGED <<cells, others>>
  BY <1>1, <1>3 DEF HeavyKeeperNext, Next
<1>4. CASE UNCHANGED sketch /\ BloomNext /\ UNCHANGED <<counters, others>>
  <2>1. sketch \in BloomFilters /\ ((\E k \in Keys : BF!insert(k)) \/ BF!clear)
    BY <1>1, <1>4 DEF BloomNext
  <2>2. (\E k \in Keys : InsertKey(k)) \/ ClearKeys
    BY <2>1, FilterNames DEF BF!insert, BF!clear
  <2> QED  BY <1>4, <2>1, <2>2
<1>5. CASE UNCHANGED sketch /\ RingNext /\ UNCHANGED <<sliding, vars>>
  BY <1>5 DEF RingNext, sliding, vars
<1>6. CASE UNCHANGED sketch /\ SlidingNext /\ UNCHANGED <<counts, ring, vars>>
  BY <1>6 DEF SlidingNext, vars
<1> QED  BY <1>2, <1>3, <1>4, <1>5, <1>6 DEF MCNext

(* Whichever sketch uses the areas: what a query over the last epochs adds *)
(* up is what came in them.                                                *)
THEOREM WindowExactHolds == MCSpec => []WindowExact
<1>1. MCInit => WindowInv
  BY WindowStarts DEF MCInit, Init
<1>2. WindowInv /\ [MCNext]_mcVars => WindowInv'
  BY KeeperSteps, WindowStep, WindowInsert, WindowClear
<1> QED  BY <1>1, <1>2, WindowInvExact, PTL DEF MCSpec

(* No cell of HeavyKeeper_v3 ever counts an insertion of another key than  *)
(* the one it names, nor one its area held before it was last zeroed.      *)
THEOREM KeeperCellsOwnHold == MCSpec => []KeeperCellsOwn
<1> DEFINE Inv == sketch \in HeavyKeepers => HKInv
<1>1. MCInit => Inv
  BY HKInit DEF MCInit
<1>2. Inv /\ [MCNext]_mcVars => Inv'
  <2> SUFFICES ASSUME Inv, [MCNext]_mcVars, sketch' \in HeavyKeepers PROVE HKInv'
    BY DEF HeavyKeepers
  <2> QED  BY KeeperSteps, HKStep
<1>3. Inv => KeeperCellsOwn
  BY DEF HKInv, KeeperCellsOwn
<1> QED  BY <1>1, <1>2, <1>3, PTL DEF MCSpec

(* Queries of HeavyKeeper_v3 never report more than came, but for the      *)
(* scaling above CAP, and count a key that is alone on a cell exactly.     *)
THEOREM KeeperBoundsHold == MCSpec => []KeeperBounds
<1> DEFINE Inv == sketch \in HeavyKeepers => HKInv
<1>1. MCInit => Inv
  BY HKInit DEF MCInit
<1>2. Inv /\ [MCNext]_mcVars => Inv'
  <2> SUFFICES ASSUME Inv, [MCNext]_mcVars, sketch' \in HeavyKeepers PROVE HKInv'
    BY DEF HeavyKeepers
  <2> QED  BY KeeperSteps, HKStep
<1>3. Inv => KeeperBounds
  BY NeverOverHolds, AloneHolds DEF HKBounds, KeeperBounds
<1> QED  BY <1>1, <1>2, <1>3, PTL DEF MCSpec

(* The two Bloom filters.  BloomFilter_new reports every key of the last   *)
(* four epochs, also across the wrap of the 16-bit epoch and after a       *)
(* clear; bloomFilter_ss reports every key of its window while the hand    *)
(* does not stand between the cells of the key.  Neither reports a key     *)
(* whose cells are not covered by those of the keys in the window.         *)
THEOREM BloomBoundsHold == MCSpec => []BloomBounds
<1> DEFINE Inv == /\ sketch \in BloomFilters => FilterInv
                  /\ sketch = "bloomFilter_ss" => SlidingBits
<1>0. SlidBF!WindowAssumption /\ SlidBF!TurnAssumption /\ SlidBF!PositionsAssumption
      /\ BF!PositionsAssumption
  BY SketchAssumptions DEF SketchAssumptions
<1>1. MCInit => Inv
  <2>1. MCInit /\ sketch \in BloomFilters => BF!Init
    BY DEF MCInit, RingInit, SlidingInit, BloomFilters, HeavyKeepers
  <2>2. MCInit /\ sketch = "bloomFilter_ss" => SlidBF!Init
    BY DEF MCInit, RingInit, SlidingInit, BloomFilters, HeavyKeepers
  <2> QED  BY <1>0, <2>1, <2>2, FilterStarts, SlidBFStarts
<1>2. Inv /\ [MCNext]_mcVars => Inv'
  <2> SUFFICES ASSUME Inv, [MCNext]_mcVars PROVE Inv'
    OBVIOUS
  <2>1. ASSUME sketch' \in BloomFilters PROVE FilterInv'
    <3>1. sketch \in BloomFilters /\ FilterInv
      BY <2>1, KeeperSteps DEF BloomFilters
    <3> QED  BY <1>0, <3>1, KeeperSteps, FilterInsert, FilterSame
  <2>2. ASSUME sketch' = "bloomFilter_ss" PROVE SlidingBits'
    <3>1. SlidingBits /\ (SlidBF!Next \/ UNCHANGED <<cells, index, stream>>)
      BY <2>2, KeeperSteps
    <3> QED  BY <1>0, <3>1, SlidBFInsert, SlidBFClear, SlidBFSame DEF SlidBF!Next
  <2> QED  BY <2>1, <2>2 DEF BloomFilters
<1>3. Inv => BloomBounds
  BY FilterReports, FilterForgets, SlidBFReports, SlidBFForgets DEF BloomBounds
<1> QED  BY <1>1, <1>2, <1>3, PTL DEF MCSpec

=============================================================================
