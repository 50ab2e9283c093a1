--------------------------- MODULE RotationProofs ---------------------------
(***************************************************************************)
(* Theorems about RotationClock, for key lists of every length, batches    *)
(* and bands of every size, every overlap and every moment.                *)
(***************************************************************************)
EXTENDS RotationClock, RotationLemmas

-----------------------------------------------------------------------------
(* What selection answers.                                                 *)

\* The channel of RotationClock, while it rotates.
LEMMA Turns ==
  ASSUME ClockTypeOK, Rotating
  PROVE  /\ Turning(cfg, n, enabled)
         /\ cfg.seconds \in Nat \ {0} /\ cfg.active \in Nat \ {0} /\ cfg.overlap \in Int
         /\ n \in 1 .. MaxKeys /\ now \in Nat
         /\ NumBatches(cfg, n) \in Nat \ {0}
         /\ BandAt(cfg, now) \in Nat
<1>1. cfg \in CfgType /\ n \in 1 .. MaxKeys /\ now \in Nat
  BY ClockAssumption DEF ClockTypeOK, Rotating, HasRotation
<1>2. Turning(cfg, n, enabled)
  BY <1>1, ClockAssumption DEF Turning, ClockTypeOK, Rotating
<1>. QED BY <1>1, <1>2, Shape

\* Types first: the option, the list and the keys stay within their bounds.
LEMMA StepClock == ASSUME ClockTypeOK, [Next]_vars PROVE ClockTypeOK'
<1>. USE ClockAssumption DEF ClockTypeOK
<1>1. CASE Tick
  BY <1>1 DEF Tick
<1>2. CASE SetKeyStatus
  BY <1>2 DEF SetKeyStatus
<1>3. CASE EditKeys
  BY <1>3 DEF EditKeys
<1>4. CASE PutRotation
  BY <1>4 DEF PutRotation
<1>5. CASE UNCHANGED vars
  BY <1>5 DEF vars
<1>. QED BY <1>1, <1>2, <1>3, <1>4, <1>5 DEF Next

\* The types hold however the keys and the option are changed while time passes.
THEOREM ClockTypeCorrect == Spec => []ClockTypeOK
<1>1. Init => ClockTypeOK
  BY ClockAssumption DEF Init, ClockTypeOK
<1>. QED BY <1>1, StepClock, PTL DEF Spec

\* Selection is refused only when no key is enabled.
LEMMA Complete == ASSUME ClockTypeOK PROVE SelectionComplete
<1>1. CASE ~ Rotating
  <2>1. ~ HasRotation(cfg) \/ n = 0
    BY <1>1 DEF Rotating, ClockTypeOK
  <2>. QED BY <2>1 DEF SelectionComplete, Candidates
<1>2. CASE Rotating
  BY <1>2, Turns, CandidatesFound DEF SelectionComplete
<1>. QED BY <1>1, <1>2

\* However the enabled keys lie in the batches, a channel with an enabled key
\* answers one, and never a disabled one (candidates).
THEOREM NeverRefusedInVain == Spec => []SelectionComplete
BY ClockTypeCorrect, Complete, PTL

\* At the start of the band whose batch holds it a key has its turn.
LEMMA TurnComes == ASSUME ClockTypeOK PROVE EveryKeyGetsItsTurn
<1>. SUFFICES ASSUME Rotating, NEW k \in enabled
              PROVE  \E b \in Round : k \in CandidatesOf(b)
  BY DEF EveryKeyGetsItsTurn
<1>1. PICK s \in 0 .. NumBatches(cfg, n) - 1 : k \in BatchOfBand(cfg, n, BandAt(cfg, now) + s)
  BY Turns, KeyReached
<1>. DEFINE b == BandAt(cfg, now) + s
<1>2. b \in Int /\ b \in Round /\ k \in BatchOfBand(cfg, n, b)
  BY <1>1, Turns DEF Round
<1>. HIDE DEF b
<1>3. BandAt(cfg, b * cfg.seconds) = b
  BY <1>2, Turns, BandTime DEF BandAt
<1>4. k \in Turn(cfg, n, b) \cap enabled
  <2>1. 0 \in 0 .. IF cfg.overlap < 0 THEN 0 ELSE cfg.overlap
    BY Turns
  <2>2. BatchOfBand(cfg, n, b - 0) = BatchOfBand(cfg, n, b)
    BY <1>2
  <2>. QED BY <1>2, <2>1, <2>2 DEF Turn
<1>5. LookAhead(cfg, n, enabled, b) = 0
  BY <1>4 DEF LookAhead
<1>6. CandidatesOf(b) = Turn(cfg, n, b) \cap enabled
  BY <1>3, <1>5 DEF CandidatesOf, Candidates, Rotating
<1>. QED BY <1>2, <1>4, <1>6

\* No key is left out of the rotation, the last and shorter batch included,
\* whatever the shuffle (buildBatches).
THEOREM EveryKeyServes == Spec => []EveryKeyGetsItsTurn
BY ClockTypeCorrect, TurnComes, PTL

-----------------------------------------------------------------------------
(* What an answer says of its band.                                        *)

\* The band announced ends in the future and holds the keys looked up ahead.
LEMMA NamesKeys == ASSUME ClockTypeOK PROVE BandNamesItsKeys
<1>. SUFFICES ASSUME Rotating, enabled # {} PROVE
       LET b == Band(cfg, n, enabled, now)
       IN  /\ b.endsAt > now
           /\ LookAhead(cfg, n, enabled, BandAt(cfg, now)) > 0 =>
                Candidates(cfg, n, enabled, now) = Batch(cfg, n, b.index) \cap enabled
  BY DEF BandNamesItsKeys
<1>. DEFINE band == BandAt(cfg, now)
            s == LookAhead(cfg, n, enabled, band)
            b == Band(cfg, n, enabled, now)
<1>1. band \in Nat /\ s \in Nat
  BY Turns, LookAheadType
<1>2. /\ b.endsAt = (band + s + 1) * cfg.seconds
      /\ b.index = (band + s) % NumBatches(cfg, n)
  BY DEF Band
<1>3. now < (band + s + 1) * cfg.seconds
  BY <1>1, Turns, BandFuture DEF BandAt
<1>4. b.endsAt > now
  <2>1. (band + s + 1) * cfg.seconds \in Int /\ now \in Int
    BY <1>1, Turns
  <2>. HIDE DEF band, s, b
  <2>. QED BY <1>2, <1>3, <2>1
<1>5. ASSUME s > 0
      PROVE  Candidates(cfg, n, enabled, now) = Batch(cfg, n, b.index) \cap enabled
  <2>1. Candidates(cfg, n, enabled, now) = BatchOfBand(cfg, n, band + s) \cap enabled
    BY <1>5 DEF Candidates, Rotating
  <2>. QED BY <1>2, <2>1 DEF BatchOfBand
<1>. QED BY <1>4, <1>5

\* An answer looked up ahead bears the band of its keys, not of the clock.
THEOREM BandFitsKeys == Spec => []BandNamesItsKeys
BY ClockTypeCorrect, NamesKeys, PTL

-----------------------------------------------------------------------------
(* An answer holds until its band ends.                                    *)

\* A second that ends no announced band leaves the answer as it is.
LEMMA SecondHolds ==
  ASSUME ClockTypeOK, Rotating, NEW t \in Nat, t = now + 1,
         t < Band(cfg, n, enabled, now).endsAt
  PROVE  /\ Candidates(cfg, n, enabled, t) = Candidates(cfg, n, enabled, now)
         /\ Band(cfg, n, enabled, t) = Band(cfg, n, enabled, now)
<1>. DEFINE band == BandAt(cfg, now)
            s == LookAhead(cfg, n, enabled, band)
<1>1. band \in Nat /\ s \in Nat /\ cfg.seconds \in Nat \ {0}
  BY Turns, LookAheadType
<1>2. BandAt(cfg, t) \in {band, band + 1}
  BY Turns, BandTime DEF BandAt
<1>3. CASE BandAt(cfg, t) = band
  BY <1>3 DEF Candidates, Band
<1>4. CASE BandAt(cfg, t) = band + 1
  <2>1. s > 0
    <3>1. t < (band + s + 1) * cfg.seconds
      BY DEF Band
    <3>2. (t \div cfg.seconds) * cfg.seconds <= t
      BY <1>1, SMTT(30)
    <3>3. (band + 1) * cfg.seconds <= t
      BY <1>4, <3>2 DEF BandAt
    <3>. HIDE DEF band, s
    <3>4. CASE s = 0
      BY <1>1, <3>1, <3>3, <3>4
    <3>. QED BY <1>1, <3>4
  <2>2. enabled # {}
    <3>1. CASE enabled = {}
      <4>1. Turn(cfg, n, band) \cap enabled = {} /\ Reached(cfg, n, enabled, band) = {}
        BY <3>1 DEF Reached
      <4>2. s = 0
        BY <4>1 DEF LookAhead
      <4>. QED BY <2>1, <4>2
    <3>. QED BY <3>1
  <2>3. /\ LookAhead(cfg, n, enabled, band + 1) = s - 1
        /\ s = 1 => Turn(cfg, n, band + 1) \cap enabled
                    = BatchOfBand(cfg, n, band + s) \cap enabled
    BY <1>1, <2>1, <2>2, Turns, LookAheadShrinks
  <2>4. band + 1 + (s - 1) = band + s
    BY <1>1
  <2>5. Band(cfg, n, enabled, t) = Band(cfg, n, enabled, now)
    BY <1>4, <2>3, <2>4 DEF Band
  <2>6. Candidates(cfg, n, enabled, now) = BatchOfBand(cfg, n, band + s) \cap enabled
    BY <2>1 DEF Candidates, Rotating
  <2>7. Candidates(cfg, n, enabled, t) =
          IF s = 1 THEN Turn(cfg, n, band + 1) \cap enabled
                   ELSE BatchOfBand(cfg, n, band + 1 + (s - 1)) \cap enabled
    <3>1. s - 1 = 0 <=> s = 1
      BY <1>1
    <3>. DEFINE r == LookAhead(cfg, n, enabled, band + 1)
    <3>2. Candidates(cfg, n, enabled, t) =
            IF r = 0 THEN Turn(cfg, n, band + 1) \cap enabled
                     ELSE BatchOfBand(cfg, n, band + 1 + r) \cap enabled
      BY <1>4 DEF Candidates, Rotating
    <3>. HIDE DEF r, s, band
    <3>3. r = s - 1
      BY <2>3 DEF r
    <3>. QED BY <3>1, <3>2, <3>3
  <2>. QED BY <2>3, <2>4, <2>5, <2>6, <2>7
<1>. QED BY <1>2, <1>3, <1>4

\* A caller may hold on to its batch until the end of the band it was told,
\* look-ahead included (BandInfo.EndsAt).
THEOREM AnswerHolds == Spec => BandHolds
<1>1. ClockTypeOK /\ [Next]_vars =>
        [Rotating /\ UNCHANGED <<cfg, n, enabled>>
         /\ now' < Band(cfg, n, enabled, now).endsAt
         => /\ Candidates(cfg, n, enabled, now') = Candidates(cfg, n, enabled, now)
            /\ Band(cfg, n, enabled, now') = Band(cfg, n, enabled, now)]_vars
  <2>. SUFFICES ASSUME ClockTypeOK, Next, Rotating, UNCHANGED <<cfg, n, enabled>>,
                       now' < Band(cfg, n, enabled, now).endsAt
                PROVE  /\ Candidates(cfg, n, enabled, now') = Candidates(cfg, n, enabled, now)
                       /\ Band(cfg, n, enabled, now') = Band(cfg, n, enabled, now)
    OBVIOUS
  <2>1. now' = now \/ now' = now + 1
    BY DEF Next, Tick, SetKeyStatus, EditKeys, PutRotation
  <2>2. CASE now' = now
    BY <2>2
  <2>3. CASE now' = now + 1
    <3>1. now' \in Nat
      BY <2>3, Turns
    <3>. QED BY <2>3, <3>1, SecondHolds
  <2>. QED BY <2>1, <2>2, <2>3
<1>. QED BY <1>1, ClockTypeCorrect, PTL DEF Spec, BandHolds

-----------------------------------------------------------------------------
(* How long a key serves.                                                  *)

\* While every batch has an enabled key, selection answers the keys whose turn
\* it is, and key k has its turn in the bands less than a turn after its batch.
LEMMA ServingBands ==
  ASSUME ClockTypeOK, Rotating, NEW k \in enabled,
         \A b \in 0 .. NumBatches(cfg, n) - 1 : Batch(cfg, n, b) \cap enabled # {},
         NEW o \in Nat, o = IF cfg.overlap < 0 THEN 0 ELSE cfg.overlap
  PROVE  \E b0 \in 0 .. NumBatches(cfg, n) - 1 :
           \A b \in Nat : k \in CandidatesOf(b) <=> (b - b0) % NumBatches(cfg, n) <= o
<1>. DEFINE N == NumBatches(cfg, n)
<1>1. /\ Turning(cfg, n, enabled) /\ N \in Nat \ {0} /\ cfg.seconds \in Nat \ {0}
      /\ k \in 0 .. n - 1 /\ n # 0 /\ HasRotation(cfg)
  BY Turns DEF ClockTypeOK, Rotating
<1>2. PICK b0 \in 0 .. N - 1 : \A x \in Int : k \in Batch(cfg, n, x) <=> x = b0
  BY <1>1, OneBatch
<1>. HIDE DEF N
<1>3. ASSUME NEW b \in Nat PROVE k \in CandidatesOf(b) <=> (b - b0) % N <= o
  <2>1. BandAt(cfg, b * cfg.seconds) = b
    BY <1>1, BandTime DEF BandAt
  <2>2. \A j \in 0 .. o : (b - j) % N \in 0 .. N - 1
    BY <1>1, Division
  <2>3. Turn(cfg, n, b) = UNION {BatchOfBand(cfg, n, b - j) : j \in 0 .. o}
    BY DEF Turn
  <2>4. BatchOfBand(cfg, n, b - 0) \cap enabled # {}
    BY <2>2 DEF BatchOfBand, N
  <2>5. Turn(cfg, n, b) \cap enabled # {}
    <3>1. BatchOfBand(cfg, n, b - 0) \in {BatchOfBand(cfg, n, b - j) : j \in 0 .. o}
      OBVIOUS
    <3>. QED BY ONLY <2>3, <2>4, <3>1
  <2>6. LookAhead(cfg, n, enabled, b) = 0
    BY <2>5 DEF LookAhead
  <2>7. CandidatesOf(b) = Turn(cfg, n, b) \cap enabled
    BY ONLY <1>1, <2>1, <2>6 DEF CandidatesOf, Candidates
  <2>8. k \in Turn(cfg, n, b) <=> \E j \in 0 .. o : (b - j) % N = b0
    <3>1. \A j \in 0 .. o : k \in BatchOfBand(cfg, n, b - j) <=> (b - j) % N = b0
      BY <1>2, <2>2 DEF BatchOfBand, N
    <3>. QED BY ONLY <2>3, <3>1
  <2>9. (\E j \in 0 .. o : (b - j) % N = b0) <=> (b - b0) % N <= o
    <3>1. N \in Nat \ {0} /\ b0 \in 0 .. N - 1 /\ b \in Int
      BY <1>1
    <3>. QED BY ONLY <3>1, TurnSince
  <2>. QED BY ONLY <2>7, <2>8, <2>9
<1>. QED BY <1>3 DEF N

\* The bands of the round of N from B on that come at most o after the one
\* congruent to b0.
Since(N, B, b0, o) == {b \in {B + k : k \in 0 .. N - 1} : (b - b0) % N <= o}

\* Counting them: in one round each remainder comes up once.
LEMMA RoundCount ==
  ASSUME NEW N \in Nat \ {0}, NEW B \in Int, NEW b0 \in Int, NEW o \in Nat
  PROVE  Cardinality(Since(N, B, b0, o)) = IF o + 1 < N THEN o + 1 ELSE N
<1>. DEFINE S == {b \in {B + k : k \in 0 .. N - 1} : (b - b0) % N <= o}
            m == IF o + 1 < N THEN o + 1 ELSE N
            T == 0 .. m - 1
            f == [b \in S |-> (b - b0) % N]
<1>1. m \in Nat /\ \A r \in 0 .. N - 1 : r <= o <=> r \in T
  OBVIOUS
<1>2. \A b \in S : b \in Int /\ b - b0 \in Int /\ (b - b0) % N <= o
  OBVIOUS
<1>3. \A b \in S : (b - b0) % N \in 0 .. N - 1
  BY ONLY <1>2, Division
<1>4. f \in [S -> T]
  <2>. HIDE DEF S, T
  <2>. QED BY ONLY <1>1, <1>2, <1>3
<1>5. ASSUME NEW b \in S, NEW c \in S, b < c PROVE f[b] # f[c]
  <2>1. b - b0 \in Int /\ c - b0 \in Int /\ b - b0 < c - b0 /\ (c - b0) - (b - b0) < N
    BY <1>5
  <2>2. (b - b0) % N # (c - b0) % N
    BY ONLY <2>1, Remainders
  <2>. HIDE DEF S
  <2>. QED BY ONLY <2>2
<1>6. ASSUME NEW r \in T PROVE \E b \in S : f[b] = r
  <2>1. r \in 0 .. N - 1 /\ r <= o /\ B - b0 \in Int
    OBVIOUS
  <2>2. PICK s \in 0 .. N - 1 : ((B - b0) + s) % N = r
    BY ONLY <2>1, EveryRemainder
  <2>3. (B + s) - b0 = (B - b0) + s
    OBVIOUS
  <2>4. B + s \in S
    BY <2>1, <2>2, <2>3
  <2>. HIDE DEF S, T
  <2>. QED BY ONLY <2>2, <2>3, <2>4
<1>7. IsFiniteSet(T) /\ Cardinality(T) = m
  <2>. HIDE DEF m
  <2>. QED BY ONLY <1>1, FS_Interval
<1>. HIDE DEF S, T, f, m
<1>8. \A b, c \in S : b # c => f[b] # f[c]
  <2>1. \A b, c \in S : b # c => b < c \/ c < b
    BY ONLY <1>2
  <2>. QED BY ONLY <1>5, <2>1
<1>9. f \in Injection(S, T) /\ f \in Surjection(S, T)
  BY ONLY <1>4, <1>6, <1>8 DEF Injection, IsInjective, Surjection
<1>10. Cardinality(S) = Cardinality(T)
  BY ONLY <1>7, <1>9, FS_Injection
<1>. QED BY ONLY <1>7, <1>10 DEF S, m, Since

\* A key serves for one turn of a round (candidates, buildBatches).
LEMMA TurnCounted == ASSUME ClockTypeOK PROVE TurnLength
<1>. DEFINE N == NumBatches(cfg, n)
            B == BandAt(cfg, now)
            o == IF cfg.overlap < 0 THEN 0 ELSE cfg.overlap
<1>. SUFFICES ASSUME Rotating, NEW k \in enabled,
                     \A b \in 0 .. N - 1 : Batch(cfg, n, b) \cap enabled # {}
              PROVE  Cardinality({b \in Round : k \in CandidatesOf(b)})
                       = IF o + 1 < N THEN o + 1 ELSE N
  BY DEF TurnLength
<1>1. N \in Nat \ {0} /\ B \in Nat /\ o \in Nat
  BY Turns
<1>2. PICK b0 \in 0 .. N - 1 : \A b \in Nat : k \in CandidatesOf(b) <=> (b - b0) % N <= o
  BY <1>1, ServingBands
<1>. HIDE DEF N, B, o
<1>3. Round = {B + j : j \in 0 .. N - 1}
  BY DEF Round, B, N
<1>4. Round \subseteq Nat
  BY <1>1, <1>3
<1>5. {b \in Round : k \in CandidatesOf(b)} = Since(N, B, b0, o)
  BY <1>2, <1>3, <1>4 DEF Since
<1>6. Cardinality(Since(N, B, b0, o)) = IF o + 1 < N THEN o + 1 ELSE N
  <2>1. b0 \in Int /\ B \in Int
    BY <1>1
  <2>. QED BY ONLY <1>1, <2>1, RoundCount
<1>. QED BY ONLY <1>5, <1>6

\* While every batch has an enabled key, each key serves for the bands of its
\* turn and rests for the others of the round, whatever the overlap, the
\* shuffle and the length of the last batch (README, rotation).
THEOREM KeysRest == Spec => []TurnLength
BY ClockTypeCorrect, TurnCounted, PTL

-----------------------------------------------------------------------------
(* The view of the API.                                                    *)

\* The key list agrees with selection, outside a look-ahead (rotationStates).
LEMMA ViewFits == ASSUME ClockTypeOK PROVE ViewAgrees
<1>. SUFFICES ASSUME Rotating
              PROVE  Active(cfg, n, enabled, now) =
                       IF LookAhead(cfg, n, enabled, BandAt(cfg, now)) = 0
                       THEN Candidates(cfg, n, enabled, now) ELSE {}
  BY DEF ViewAgrees
<1>. DEFINE band == BandAt(cfg, now)
            s == LookAhead(cfg, n, enabled, band)
<1>1. /\ Turning(cfg, n, enabled) /\ band \in Int
      /\ HasRotation(cfg) /\ n # 0
  BY Turns DEF Rotating
<1>. HIDE DEF s
<1>2. CASE s = 0
  BY <1>1, <1>2 DEF Active, Candidates, s
<1>3. CASE s # 0
  BY <1>1, <1>3, LookAheadIsFirst DEF Active, s
<1>. QED BY <1>2, <1>3 DEF s

\* The rule the API recomputes is selection's, and during a look-ahead it shows
\* no key as active though selection answers some.
THEOREM ViewIsSelections == Spec => []ViewAgrees
BY ClockTypeCorrect, ViewFits, PTL
=============================================================================
