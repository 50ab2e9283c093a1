--------------------------- MODULE RotationLemmas ---------------------------
(***************************************************************************)
(* Facts about batches, turns and the look-ahead of a rotation, whatever   *)
(* its option, the length of the key list and the keys enabled.            *)
(***************************************************************************)
EXTENDS Rotation, FiniteSetTheorems, TLAPS

-----------------------------------------------------------------------------
(* Arithmetic of batches and bands.                                        *)

\* Quotient and remainder as the code computes them (mod in batch.go).
LEMMA Division ==
  ASSUME NEW x \in Int, NEW m \in Nat \ {0}
  PROVE  /\ x \div m \in Int
         /\ x % m \in 0 .. m - 1
         /\ x % m = x - m * (x \div m)
<1>1. x \div m \in Int
  OBVIOUS
<1>2. x % m \in 0 .. m - 1
  OBVIOUS
<1>3. x % m = x - m * (x \div m)
  BY SMTT(60)
<1>. QED BY <1>1, <1>2, <1>3

\* A remainder below the divisor is the remainder (mod in batch.go).
LEMMA Remainder ==
  ASSUME NEW m \in Nat \ {0}, NEW q \in Int, NEW r \in 0 .. m - 1
  PROVE  (m * q + r) % m = r
BY SMTT(30)

\* Going through m steps from anywhere meets every remainder.
LEMMA EveryRemainder ==
  ASSUME NEW m \in Nat \ {0}, NEW x \in Int, NEW r \in 0 .. m - 1
  PROVE  /\ \E s \in 0 .. m - 1 : (x + s) % m = r
         /\ \E s \in 1 .. m : (x + s) % m = r
<1>. DEFINE q == x \div m
            e == x % m
<1>1. q \in Int /\ e \in 0 .. m - 1 /\ e = x - m * q
  BY Division
<1>. HIDE DEF q, e
<1>2. CASE r > e
  <2>1. x + (r - e) = m * q + r
    BY <1>1
  <2>2. (x + (r - e)) % m = r
    BY <1>1, <2>1, Remainder
  <2>3. r - e \in 0 .. m - 1 /\ r - e \in 1 .. m
    BY <1>1, <1>2
  <2>. QED BY <2>2, <2>3
<1>3. CASE r = e
  <2>1. x + 0 = m * q + r /\ x + m = m * (q + 1) + r
    BY <1>1, <1>3
  <2>2. (x + 0) % m = r /\ (x + m) % m = r
    BY <1>1, <2>1, Remainder
  <2>. QED BY <2>2
<1>4. CASE r < e
  <2>1. x + (r - e + m) = m * (q + 1) + r
    BY <1>1
  <2>2. (x + (r - e + m)) % m = r
    BY <1>1, <2>1, Remainder
  <2>3. r - e + m \in 0 .. m - 1 /\ r - e + m \in 1 .. m
    BY <1>1, <1>4
  <2>. QED BY <2>2, <2>3
<1>. QED BY <1>1, <1>2, <1>3, <1>4

\* Two numbers less than N apart leave different remainders.
LEMMA Remainders ==
  ASSUME NEW N \in Nat \ {0}, NEW m \in Int, NEW n \in Int, m < n, n - m < N
  PROVE  m % N # n % N
<1>. DEFINE q == m \div N
            r == n \div N
<1>1. q \in Int /\ r \in Int /\ m % N = m - N * q /\ n % N = n - N * r
  BY SMTT(60)
<1>. HIDE DEF q, r
<1>2. SUFFICES ASSUME m - N * q = n - N * r PROVE FALSE
  BY <1>1
<1>3. n - m = N * (r - q)
  BY <1>1, <1>2
<1>4. r - q \in Int /\ (r - q <= 0 \/ r - q >= 1)
  BY <1>1
<1>5. CASE r - q <= 0
  <2>1. N * (r - q) <= 0
    BY <1>1, <1>5
  <2>. QED BY <1>3, <2>1
<1>6. CASE r - q >= 1
  <2>1. N * (r - q) >= N
    BY <1>1, <1>6
  <2>. QED BY <1>3, <2>1
<1>. QED BY <1>4, <1>5, <1>6

\* A list of n keys has a batch for every index (the rounding up).
LEMMA BatchIndex ==
  ASSUME NEW a \in Nat \ {0}, NEW l \in Nat \ {0}
  PROVE  /\ (l + a - 1) \div a \in Nat \ {0}
         /\ \A i \in 0 .. l - 1 : i \div a \in 0 .. (l + a - 1) \div a - 1
BY SMTT(30)

\* A band lasts its seconds, and a second later it is the same or the next
\* (bandAt).
LEMMA BandTime ==
  ASSUME NEW s \in Nat \ {0}, NEW t \in Nat
  PROVE  /\ t \div s \in Nat
         /\ t < (t \div s + 1) * s
         /\ (t + 1) \div s \in {t \div s, t \div s + 1}
         /\ \A b \in Int : (b * s) \div s = b
BY SMTT(30)

\* A set of steps has a first one: of the intervals up to its members one holds
\* no other.
LEMMA Minimum ==
  ASSUME NEW S \in SUBSET Nat, S # {}
  PROVE  \E s \in S : \A t \in S : s <= t
<1>. DEFINE T == {1 .. s : s \in S}
            Less == StrictSubsetOrdering(Nat)
<1>1. T \subseteq FiniteSubsetsOf(Nat) /\ T # {}
  <2>1. \A s \in S : 1 .. s \in FiniteSubsetsOf(Nat)
    BY FS_Interval DEF FiniteSubsetsOf
  <2>. QED BY <2>1
<1>2. IsWellFoundedOn(Less, FiniteSubsetsOf(Nat))
  BY FS_StrictSubsetOrderingWellFounded
<1>3. PICK x \in T : \A y \in T : ~ (<<y, x>> \in Less)
  <2>. HIDE DEF T, Less
  <2>. QED BY <1>1, <1>2, WFMin
<1>4. PICK s \in S : x = 1 .. s
  OBVIOUS
<1>5. ASSUME NEW t \in S, t < s PROVE FALSE
  <2>1. 1 .. t \in T /\ 1 .. t \in SUBSET Nat /\ 1 .. s \in SUBSET Nat
    OBVIOUS
  <2>2. 1 .. t \subseteq 1 .. s /\ s \in 1 .. s /\ s \notin 1 .. t
    BY <1>5
  <2>3. 1 .. t # 1 .. s
    BY <2>2
  <2>4. <<1 .. t, 1 .. s>> \in Less
    BY <2>1, <2>2, <2>3, Zenon DEF StrictSubsetOrdering
  <2>. QED BY <1>3, <1>4, <2>1, <2>4
<1>6. \A t \in S : s <= t
  BY <1>5
<1>. QED BY <1>4, <1>6

-----------------------------------------------------------------------------
(* Batches and look-ahead.                                                 *)

\* A channel under rotation: its option is on, and its list has keys, of which
\* some are enabled.
Turning(cfg, n, enabled) ==
  /\ cfg \in CfgType /\ HasRotation(cfg)
  /\ n \in Nat \ {0} /\ Permutes(n)
  /\ enabled \subseteq 0 .. n - 1

\* What is true of a rotating channel.
LEMMA Shape ==
  ASSUME NEW cfg, NEW n, NEW enabled, Turning(cfg, n, enabled)
  PROVE  /\ cfg.seconds \in Nat \ {0} /\ cfg.active \in Nat \ {0} /\ cfg.overlap \in Int
         /\ n \in Nat \ {0} /\ enabled \subseteq 0 .. n - 1
         /\ NumBatches(cfg, n) \in Nat \ {0}
         /\ \A t \in Nat : BandAt(cfg, t) \in Nat
<1>1. cfg \in CfgType /\ n \in Nat \ {0} /\ enabled \subseteq 0 .. n - 1
  BY DEF Turning
<1>2. cfg.seconds \in Nat \ {0} /\ cfg.active \in Nat \ {0} /\ cfg.overlap \in Int
  BY <1>1 DEF CfgType, Turning, HasRotation
<1>3. NumBatches(cfg, n) \in Nat \ {0}
  BY <1>1, <1>2, BatchIndex DEF NumBatches
<1>. QED BY <1>1, <1>2, <1>3, BandTime DEF BandAt

\* Every key lies in a batch, shuffled or not (buildBatches).
LEMMA KeyInBatch ==
  ASSUME NEW cfg, NEW n, NEW enabled, Turning(cfg, n, enabled), NEW k \in 0 .. n - 1
  PROVE  \E b \in 0 .. NumBatches(cfg, n) - 1 : k \in Batch(cfg, n, b)
<1>1. PICK i \in 0 .. n - 1 : KeyAt(cfg, n, i) = k
  BY Shape DEF KeyAt, Turning, Permutes
<1>2. i \div cfg.active \in 0 .. NumBatches(cfg, n) - 1
  BY Shape, BatchIndex DEF NumBatches
<1>. QED BY <1>1, <1>2 DEF Batch

\* An enabled key is reached within one round, from every band on.
LEMMA KeyReached ==
  ASSUME NEW cfg, NEW n, NEW enabled, Turning(cfg, n, enabled), NEW band \in Int, NEW k \in enabled
  PROVE  /\ \E s \in 0 .. NumBatches(cfg, n) - 1 : k \in BatchOfBand(cfg, n, band + s)
         /\ \E s \in Reached(cfg, n, enabled, band) : k \in BatchOfBand(cfg, n, band + s)
<1>1. PICK b \in 0 .. NumBatches(cfg, n) - 1 : k \in Batch(cfg, n, b)
  BY Shape, KeyInBatch
<1>2. NumBatches(cfg, n) \in Nat \ {0}
  BY Shape
<1>3. /\ \E s \in 0 .. NumBatches(cfg, n) - 1 : (band + s) % NumBatches(cfg, n) = b
      /\ \E s \in 1 .. NumBatches(cfg, n) : (band + s) % NumBatches(cfg, n) = b
  BY ONLY <1>1, <1>2, EveryRemainder
<1>. QED BY ONLY <1>1, <1>3 DEF BatchOfBand, Reached

\* Selection looks no further than it must (candidates: the loop stops at the
\* first batch that has an enabled key).
LEMMA LookAheadIsFirst ==
  ASSUME NEW cfg, NEW n, NEW enabled, Turning(cfg, n, enabled), NEW band \in Int
  PROVE  LET s == LookAhead(cfg, n, enabled, band)
             R == Reached(cfg, n, enabled, band)
         IN  /\ Turn(cfg, n, band) \cap enabled # {} \/ R = {} => s = 0
             /\ Turn(cfg, n, band) \cap enabled = {} /\ R # {} =>
                  s \in R /\ \A t \in R : s <= t
<1>. DEFINE R == Reached(cfg, n, enabled, band)
<1>1. R \subseteq Nat
  BY Shape DEF Reached
<1>2. ASSUME R # {} PROVE \E s \in R : \A t \in R : s <= t
  <2>. HIDE DEF R
  <2>. QED BY <1>1, <1>2, Minimum
<1>. QED BY <1>2 DEF LookAhead

\* How far it looks determines it.
LEMMA FirstIsLookAhead ==
  ASSUME NEW cfg, NEW n, NEW enabled, Turning(cfg, n, enabled), NEW band \in Int, NEW s \in Reached(cfg, n, enabled, band),
         Turn(cfg, n, band) \cap enabled = {},
         \A t \in Reached(cfg, n, enabled, band) : s <= t
  PROVE  LookAhead(cfg, n, enabled, band) = s
<1>. DEFINE R == Reached(cfg, n, enabled, band)
            x == LookAhead(cfg, n, enabled, band)
<1>1. x \in R /\ \A t \in R : x <= t
  BY LookAheadIsFirst
<1>2. R \subseteq Nat
  BY Shape DEF Reached
<1>. HIDE DEF R, x
<1>3. x <= s /\ s <= x /\ x \in Nat /\ s \in Nat
  BY <1>1, <1>2 DEF R
<1>. QED BY <1>3 DEF x

\* A look-ahead is a number of bands (candidates).
LEMMA LookAheadType ==
  ASSUME NEW cfg, NEW n, NEW enabled, Turning(cfg, n, enabled), NEW band \in Int
  PROVE  LookAhead(cfg, n, enabled, band) \in Nat
<1>1. Reached(cfg, n, enabled, band) \subseteq Nat
  BY Shape DEF Reached
<1>. QED BY <1>1, LookAheadIsFirst

\* A key lies in one batch only: a shuffle takes no key twice (buildBatches).
LEMMA OneBatch ==
  ASSUME NEW cfg, NEW n, NEW enabled, Turning(cfg, n, enabled), NEW k \in 0 .. n - 1
  PROVE  \E b \in 0 .. NumBatches(cfg, n) - 1 :
           \A x \in Int : k \in Batch(cfg, n, x) <=> x = b
<1>. DEFINE I == 0 .. n - 1
<1>0. n \in Nat \ {0} /\ cfg.active \in Nat \ {0}
  BY Shape
<1>1. PICK b \in 0 .. NumBatches(cfg, n) - 1 : k \in Batch(cfg, n, b)
  BY KeyInBatch
<1>2. \A i, j \in I : KeyAt(cfg, n, i) = KeyAt(cfg, n, j) => i = j
  <2>1. CASE cfg.order = "shuffle"
    <3>1. IsFiniteSet(I)
      BY <1>0, FS_Interval
    <3>2. Shuffle[n] \in Surjection(I, I)
      BY DEF Turning, Permutes, Surjection
    <3>. HIDE DEF I
    <3>3. Shuffle[n] \in Injection(I, I)
      BY ONLY <3>1, <3>2, FS_SurjSameCardinalityImpliesInj
    <3>4. \A i, j \in I : Shuffle[n][i] = Shuffle[n][j] => i = j
      BY ONLY <3>3 DEF Injection, IsInjective
    <3>. QED BY ONLY <2>1, <3>4 DEF KeyAt
  <2>2. CASE cfg.order # "shuffle"
    BY ONLY <2>2 DEF KeyAt
  <2>. QED BY ONLY <2>1, <2>2
<1>3. PICK i \in I : i \div cfg.active = b /\ k = KeyAt(cfg, n, i)
  BY ONLY <1>1 DEF Batch
<1>4. ASSUME NEW x \in Int, k \in Batch(cfg, n, x) PROVE x = b
  <2>1. PICK j \in I : j \div cfg.active = x /\ k = KeyAt(cfg, n, j)
    BY ONLY <1>4 DEF Batch
  <2>. HIDE DEF I
  <2>2. i = j
    BY ONLY <1>2, <1>3, <2>1
  <2>. QED BY ONLY <1>3, <2>1, <2>2
<1>. QED BY ONLY <1>1, <1>4

\* A key has its turn while it is no longer than the overlap ago that its batch
\* came up (candidates: the union over the overlap bands).
LEMMA TurnSince ==
  ASSUME NEW N \in Nat \ {0}, NEW o \in Nat, NEW x \in Int, NEW r \in 0 .. N - 1
  PROVE  (\E j \in 0 .. o : (x - j) % N = r) <=> (x - r) % N <= o
<1>1. ASSUME (x - r) % N <= o PROVE \E j \in 0 .. o : (x - j) % N = r
  <2>. DEFINE d == (x - r) % N
              q == (x - r) \div N
  <2>0. x - r \in Int
    OBVIOUS
  <2>1. d \in 0 .. N - 1 /\ q \in Int /\ d = x - r - N * q
    BY ONLY <2>0, Division
  <2>2. d \in 0 .. o
    BY <1>1, <2>1
  <2>. HIDE DEF d, q
  <2>3. x - d = N * q + r
    BY <2>1
  <2>4. (x - d) % N = r
    BY ONLY <2>1, <2>3, Remainder
  <2>. QED BY <2>2, <2>4
<1>2. ASSUME NEW j \in 0 .. o, (x - j) % N = r PROVE (x - r) % N <= o
  <2>. DEFINE q == (x - j) \div N
              f == j % N
              e == j \div N
  <2>0. x - j \in Int
    OBVIOUS
  <2>1. q \in Int /\ r = x - j - N * q
    BY ONLY <1>2, <2>0, Division
  <2>a. j \in Int
    OBVIOUS
  <2>2. f \in 0 .. N - 1 /\ e \in Int /\ f = j - N * e
    BY ONLY <2>a, Division
  <2>3. f <= j
    <3>1. e >= 0
      BY SMTT(30)
    <3>. HIDE DEF e, f
    <3>2. N * e >= 0
      BY <2>2, <3>1
    <3>. QED BY <2>2, <3>2
  <2>. HIDE DEF q, e, f
  <2>4. x - r = N * (q + e) + f
    BY <2>1, <2>2
  <2>b. q + e \in Int
    BY <2>1, <2>2
  <2>c. (N * (q + e) + f) % N = f
    BY ONLY <2>2, <2>b, Remainder
  <2>5. (x - r) % N = f
    BY ONLY <2>4, <2>c
  <2>. QED BY <2>2, <2>3, <2>5
<1>. QED BY <1>1, <1>2

\* Selection finds a key unless none is enabled, and none but an enabled one
\* (candidates).
LEMMA CandidatesFound ==
  ASSUME NEW cfg, NEW n, NEW enabled, Turning(cfg, n, enabled), NEW t \in Nat
  PROVE  LET c == Candidates(cfg, n, enabled, t)
         IN  c \subseteq enabled /\ (c = {} => enabled = {})
<1>. DEFINE c == Candidates(cfg, n, enabled, t)
            band == BandAt(cfg, t)
            s == LookAhead(cfg, n, enabled, band)
            R == Reached(cfg, n, enabled, band)
            T == Turn(cfg, n, band) \cap enabled
<1>1. band \in Int
  BY Shape
<1>2. /\ T # {} \/ R = {} => s = 0
      /\ T = {} /\ R # {} => s \in R
  BY <1>1, LookAheadIsFirst
<1>3. c = IF s = 0 THEN T ELSE BatchOfBand(cfg, n, band + s) \cap enabled
  BY Shape DEF Candidates, Turning
<1>4. ASSUME enabled # {} PROVE c # {}
  <2>1. R # {}
    BY <1>1, <1>4, KeyReached
  <2>2. CASE T # {}
    BY <1>2, <1>3, <2>2
  <2>3. CASE T = {}
    <3>1. s \in R
      BY <1>2, <2>1, <2>3
    <3>2. s # 0 /\ BatchOfBand(cfg, n, band + s) \cap enabled # {}
      BY <3>1 DEF Reached
    <3>. QED BY <1>3, <3>2
  <2>. QED BY <2>2, <2>3
<1>5. c \subseteq enabled
  BY <1>3
<1>. QED BY <1>4, <1>5

\* The end of this band, and of any later one, is yet to come (endsAt).
LEMMA BandFuture ==
  ASSUME NEW s \in Nat \ {0}, NEW t \in Nat, NEW k \in Nat
  PROVE  t < (t \div s + k + 1) * s
<1>1. t \div s \in Nat /\ t < (t \div s + 1) * s
  BY BandTime
<1>. DEFINE q == t \div s
<1>. HIDE DEF q
<1>2. (q + k + 1) * s = (q + 1) * s + k * s /\ k * s >= 0
  BY <1>1, SMTT(30) DEF q
<1>. QED BY <1>1, <1>2 DEF q

\* The keys that have their turn one band later had it before, or lie in the
\* next batch.
LEMMA NextTurn ==
  ASSUME NEW cfg, NEW n, NEW enabled, Turning(cfg, n, enabled), NEW band \in Int
  PROVE  /\ Turn(cfg, n, band + 1)
              \subseteq Turn(cfg, n, band) \cup BatchOfBand(cfg, n, band + 1)
         /\ BatchOfBand(cfg, n, band + 1) \subseteq Turn(cfg, n, band + 1)
<1>. DEFINE O == 0 .. IF cfg.overlap < 0 THEN 0 ELSE cfg.overlap
<1>1. O \subseteq Nat /\ 0 \in O /\ \A k \in O : k = 0 \/ k - 1 \in O
  BY Shape
<1>2. ASSUME NEW x \in Turn(cfg, n, band + 1)
      PROVE  x \in Turn(cfg, n, band) \cup BatchOfBand(cfg, n, band + 1)
  <2>1. PICK k \in O : x \in BatchOfBand(cfg, n, band + 1 - k)
    BY <1>2 DEF Turn
  <2>2. CASE k = 0
    BY <2>1, <2>2
  <2>3. CASE k # 0
    <3>1. k - 1 \in O /\ band + 1 - k = band - (k - 1)
      BY <1>1, <2>3
    <3>2. BatchOfBand(cfg, n, band + 1 - k) = BatchOfBand(cfg, n, band - (k - 1))
      BY <3>1
    <3>. HIDE DEF O
    <3>3. x \in UNION {BatchOfBand(cfg, n, band - j) : j \in O}
      BY <2>1, <3>1, <3>2
    <3>. QED BY <3>3 DEF Turn, O
  <2>. QED BY <2>2, <2>3
<1>3. BatchOfBand(cfg, n, band + 1) \subseteq Turn(cfg, n, band + 1)
  <2>1. BatchOfBand(cfg, n, band + 1 - 0) = BatchOfBand(cfg, n, band + 1)
    OBVIOUS
  <2>. HIDE DEF O
  <2>2. BatchOfBand(cfg, n, band + 1 - 0) \in {BatchOfBand(cfg, n, band + 1 - k) : k \in O}
    BY <1>1
  <2>. QED BY <2>1, <2>2 DEF Turn, O
<1>. QED BY <1>2, <1>3

\* Where selection looks s bands ahead, it looks s - 1 ahead a band later.
LEMMA LookAheadShrinks ==
  ASSUME NEW cfg, NEW n, NEW enabled, Turning(cfg, n, enabled), enabled # {}, NEW band \in Int,
         NEW s, s = LookAhead(cfg, n, enabled, band), s > 0
  PROVE  /\ LookAhead(cfg, n, enabled, band + 1) = s - 1
         /\ s = 1 => Turn(cfg, n, band + 1) \cap enabled
                     = BatchOfBand(cfg, n, band + s) \cap enabled
<1>. DEFINE R(b) == Reached(cfg, n, enabled, b)
<1>1. /\ Turn(cfg, n, band) \cap enabled = {}
      /\ s \in R(band) /\ \A t \in R(band) : s <= t
  BY LookAheadIsFirst
<1>2. s \in 1 .. NumBatches(cfg, n) /\ BatchOfBand(cfg, n, band + s) \cap enabled # {}
  BY <1>1 DEF Reached
<1>3. Turn(cfg, n, band + 1) \cap enabled = BatchOfBand(cfg, n, band + 1) \cap enabled
  BY <1>1, NextTurn
<1>4. CASE s = 1
  <2>1. LookAhead(cfg, n, enabled, band + 1) = 0
    BY <1>2, <1>3, <1>4 DEF LookAhead
  <2>. QED BY <1>3, <1>4, <2>1
<1>5. CASE s # 1
  <2>1. s - 1 \in 1 .. NumBatches(cfg, n) /\ s - 1 \in Nat /\ s \in Nat /\ 1 < s
    BY <1>2, <1>5, Shape
  <2>2. 1 \in 1 .. NumBatches(cfg, n) /\ 1 \notin R(band)
    <3>1. 1 \in 1 .. NumBatches(cfg, n)
      BY Shape
    <3>. HIDE DEF R
    <3>. QED BY <1>1, <2>1, <3>1
  <2>3. BatchOfBand(cfg, n, band + 1) \cap enabled = {}
    BY <2>2 DEF Reached
  <2>4. band + 1 + (s - 1) = band + s
    BY <2>1
  <2>5. s - 1 \in R(band + 1)
    BY <1>2, <2>1, <2>4 DEF Reached
  <2>6. ASSUME NEW t \in R(band + 1) PROVE s - 1 <= t
    <3>1. /\ t \in 1 .. NumBatches(cfg, n)
          /\ BatchOfBand(cfg, n, band + 1 + t) \cap enabled # {}
      BY <2>6 DEF Reached
    <3>2. CASE t + 1 \in 1 .. NumBatches(cfg, n)
      <4>1. band + 1 + t = band + (t + 1)
        BY <3>1
      <4>2. t + 1 \in R(band)
        BY <3>1, <3>2, <4>1 DEF Reached
      <4>. HIDE DEF R
      <4>3. s <= t + 1
        BY <1>1, <4>2
      <4>. QED BY <2>1, <3>1, <4>3
    <3>3. CASE t + 1 \notin 1 .. NumBatches(cfg, n)
      BY <1>2, <3>1, <3>3, Shape
    <3>. QED BY <3>2, <3>3
  <2>7. LookAhead(cfg, n, enabled, band + 1) = s - 1
    <3>1. Turn(cfg, n, band + 1) \cap enabled = {} /\ band + 1 \in Int
      BY <1>3, <2>3
    <3>. QED BY <2>5, <2>6, <3>1, FirstIsLookAhead
  <2>. QED BY <1>5, <2>7
<1>. QED BY <1>4, <1>5
=============================================================================
