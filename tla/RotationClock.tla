--------------------------- MODULE RotationClock ----------------------------
(***************************************************************************)
(* A channel under rotation while time passes: what selection may answer   *)
(* (Rotation) as the clock ticks, keys go and come back, the key list is   *)
(* edited and the rotation option is rewritten.                            *)
(***************************************************************************)
EXTENDS Rotation

CONSTANTS
  MaxKeys,   \* bound: the longest key list
  MaxNow,    \* bound: the last second considered
  Cfgs       \* the rotation options written

ASSUME ClockAssumption ==
  /\ MaxKeys \in Nat \ {0} /\ MaxNow \in Nat
  /\ NoCfg \notin CfgType /\ Cfgs \subseteq CfgType \cup {NoCfg}
  /\ \A m \in 1 .. MaxKeys : Permutes(m)

VARIABLES
  cfg,       \* the rotation option in the snapshot
  n,         \* the length of the key list
  enabled,   \* EnabledKeyIndexes
  now        \* seconds

vars == <<cfg, n, enabled, now>>

ClockTypeOK ==
  /\ cfg \in Cfgs
  /\ n \in 0 .. MaxKeys
  /\ enabled \subseteq 0 .. n - 1
  /\ now \in 0 .. MaxNow

\* A second passes.
Tick ==
  /\ now < MaxNow
  /\ now' = now + 1
  /\ UNCHANGED <<cfg, n, enabled>>

\* Mutant: a key beyond the end of the list.
SetKeyStatus_OffByOne ==
  /\ \E k \in 0 .. n :
       enabled' = IF k \in enabled THEN enabled \ {k} ELSE enabled \cup {k}
  /\ UNCHANGED <<cfg, n, now>>

\* A key is disabled or enabled.
SetKeyStatus ==
  /\ \E k \in 0 .. n - 1 :
       enabled' = IF k \in enabled THEN enabled \ {k} ELSE enabled \cup {k}
  /\ UNCHANGED <<cfg, n, now>>

\* new-api edits the key list and forgets the statuses.
EditKeys ==
  /\ n' \in 0 .. MaxKeys \ {n}
  /\ enabled' = 0 .. n' - 1
  /\ UNCHANGED <<cfg, now>>

\* The rotation option changes.
PutRotation ==
  /\ cfg' \in Cfgs \ {cfg}
  /\ UNCHANGED <<n, enabled, now>>

Init ==
  /\ cfg \in Cfgs
  /\ n \in 0 .. MaxKeys
  /\ enabled = 0 .. n - 1
  /\ now = 0

Next == Tick \/ SetKeyStatus \/ EditKeys \/ PutRotation

Spec == Init /\ [][Next]_vars

-----------------------------------------------------------------------------
(* What rotation must guarantee.                                           *)

Rotating == HasRotation(cfg) /\ n > 0

\* The bands of one round, from the current one on.
Round == {BandAt(cfg, now) + k : k \in 0 .. NumBatches(cfg, n) - 1}

\* What selection may answer at the start of band b.
CandidatesOf(b) == Candidates(cfg, n, enabled, b * cfg.seconds)

\* Selection is refused only when every key is disabled, however the enabled
\* ones lie in the batches, and never answers a disabled key (candidates:
\* look-ahead goes on until a batch has an enabled key).
SelectionComplete ==
  LET c == Candidates(cfg, n, enabled, now)
  IN  c \subseteq enabled /\ (c = {} <=> enabled = {})

\* Within one round of bands every enabled key may be answered, whichever
\* keys are disabled, the keys of the last, shorter batch included
\* (buildBatches: the batches hold all keys).
EveryKeyGetsItsTurn ==
  Rotating => \A k \in enabled : \E b \in Round : k \in CandidatesOf(b)

\* While every batch has an enabled key, a key serves for the bands of one
\* turn and then rests for the remainder of the round: that limits how long a
\* key is used without a break (README, rotation).
TurnLength ==
  LET N == NumBatches(cfg, n)
      t == IF cfg.overlap < 0 THEN 1 ELSE cfg.overlap + 1
  IN  Rotating /\ (\A b \in 0 .. N - 1 : Batch(cfg, n, b) \cap enabled # {}) =>
        \A k \in enabled :
          Cardinality({b \in Round : k \in CandidatesOf(b)}) = IF t < N THEN t ELSE N

\* An answer looked up ahead names the batch its keys come from, and its band
\* ends later than now (selector.candidates: the band of the answer, not of
\* the clock).
BandNamesItsKeys ==
  Rotating /\ enabled # {} =>
    LET b == Band(cfg, n, enabled, now)
    IN  /\ b.endsAt > now
        /\ LookAhead(cfg, n, enabled, BandAt(cfg, now)) > 0 =>
             Candidates(cfg, n, enabled, now) = Batch(cfg, n, b.index) \cap enabled

\* Until the moment an answer announces as the end of its band the candidates
\* stay the same, if nobody touches the keys or the option: a caller may hold
\* on to its batch till ends_at, look-ahead included (BandInfo.EndsAt).
BandHolds ==
  [][Rotating /\ UNCHANGED <<cfg, n, enabled>>
     /\ now' < Band(cfg, n, enabled, now).endsAt
     => /\ Candidates(cfg, n, enabled, now') = Candidates(cfg, n, enabled, now)
        /\ Band(cfg, n, enabled, now') = Band(cfg, n, enabled, now)]_vars

\* The key list of the API, which recomputes the rule, shows as active the
\* keys selection may answer, as long as a key has its turn (rotationStates:
\* must agree with selector/batch.go).  During a look-ahead, when selection
\* answers keys of a later band, it shows every key as standby.
ViewAgrees ==
  Rotating =>
    Active(cfg, n, enabled, now) =
      IF LookAhead(cfg, n, enabled, BandAt(cfg, now)) = 0
      THEN Candidates(cfg, n, enabled, now) ELSE {}
=============================================================================
