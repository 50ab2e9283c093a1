------------------------------ MODULE Rotation ------------------------------
(***************************************************************************)
(* The rotation of a channel's keys through time bands (batch.go and       *)
(* selector.candidates), and the view of it that the key list of the API   *)
(* computes for itself (api/rotation.go).  No state.                       *)
(*                                                                         *)
(* n is the length of the key list; batch b holds the keys at the places   *)
(* b * active .. (b + 1) * active - 1 of the list, or of its shuffle.      *)
(***************************************************************************)
EXTENDS Integers, FiniteSets

CONSTANTS
  Shuffle,   \* Shuffle[n]: the permutation of 0 .. n-1 that math/rand draws
             \* from the seed sha1(cid): the same on every replica
  NoCfg      \* the channel has no rotation option

\* A rotation option as the endpoint, or new-api's table, may hold it.
CfgType ==
  [seconds : Int, active : Int, overlap : Int, order : {"index", "shuffle"}]

HasRotation(cfg) == cfg # NoCfg /\ cfg.seconds > 0 /\ cfg.active > 0

-----------------------------------------------------------------------------
(* Batches.                                                                *)

\* Shuffle[m] is a permutation of 0 .. m-1: Shuffle swaps.
Permutes(m) ==
  /\ Shuffle[m] \in [0 .. m - 1 -> 0 .. m - 1]
  /\ \A k \in 0 .. m - 1 : \E i \in 0 .. m - 1 : Shuffle[m][i] = k

KeyAt(cfg, n, i) == IF cfg.order = "shuffle" THEN Shuffle[n][i] ELSE i

\* Mutant: the last, incomplete batch is forgotten.
NumBatches_Floor(cfg, n) ==
  IF n < cfg.active THEN 1 ELSE n \div cfg.active

NumBatches(cfg, n) == (n + cfg.active - 1) \div cfg.active

Batch(cfg, n, b) ==
  {KeyAt(cfg, n, i) : i \in {j \in 0 .. n - 1 : j \div cfg.active = b}}

BandAt(cfg, now) == now \div cfg.seconds

\* % is the mod of the code: never negative.
BatchOfBand(cfg, n, band) == Batch(cfg, n, band % NumBatches(cfg, n))

\* Mutant: one band too many.
Turn_OffByOne(cfg, n, band) ==
  UNION {BatchOfBand(cfg, n, band - k) : k \in 0 .. cfg.overlap + 1}

\* The keys whose turn it is: this band's and those of the overlap bands
\* before it.
Turn(cfg, n, band) ==
  UNION {BatchOfBand(cfg, n, band - k) :
           k \in 0 .. IF cfg.overlap < 0 THEN 0 ELSE cfg.overlap}

-----------------------------------------------------------------------------
(* Candidates.                                                             *)

\* Mutant: the search stops before the last batch.
Reached_Short(cfg, n, enabled, band) ==
  {s \in 1 .. NumBatches(cfg, n) - 2 :
     BatchOfBand(cfg, n, band + s) \cap enabled # {}}

\* The steps ahead at which a batch has an enabled key.
Reached(cfg, n, enabled, band) ==
  {s \in 1 .. NumBatches(cfg, n) : BatchOfBand(cfg, n, band + s) \cap enabled # {}}

\* How far selection looks ahead: not at all while a key has its turn, or
\* when no key is enabled.
LookAhead(cfg, n, enabled, band) ==
  IF Turn(cfg, n, band) \cap enabled # {} \/ Reached(cfg, n, enabled, band) = {}
  THEN 0
  ELSE CHOOSE s \in Reached(cfg, n, enabled, band) :
         \A t \in Reached(cfg, n, enabled, band) : s <= t

\* The keys selection may answer.
Candidates(cfg, n, enabled, now) ==
  IF ~ HasRotation(cfg) \/ n = 0 THEN enabled
  ELSE LET band == BandAt(cfg, now)
           s    == LookAhead(cfg, n, enabled, band)
       IN  IF s = 0 THEN Turn(cfg, n, band) \cap enabled
                    ELSE BatchOfBand(cfg, n, band + s) \cap enabled

\* Mutant: the band of the clock, though the keys come from a later one.
Band_OfClock(cfg, n, enabled, now) ==
  [index  |-> BandAt(cfg, now) % NumBatches(cfg, n),
   endsAt |-> (BandAt(cfg, now) + 1) * cfg.seconds]

\* Mutant: the end of the band after the one announced.
Band_EndsLate(cfg, n, enabled, now) ==
  LET b == BandAt(cfg, now) + LookAhead(cfg, n, enabled, BandAt(cfg, now))
  IN  [index |-> b % NumBatches(cfg, n), endsAt |-> (b + 2) * cfg.seconds]

\* The band an answer announces: the one its keys come from.
Band(cfg, n, enabled, now) ==
  LET b == BandAt(cfg, now) + LookAhead(cfg, n, enabled, BandAt(cfg, now))
  IN  [index |-> b % NumBatches(cfg, n), endsAt |-> (b + 1) * cfg.seconds]

-----------------------------------------------------------------------------
(* The view of GET /v1/channels/{id}/keys.                                 *)

\* Mutant: the copy of the rule forgets the overlap.
Active_NoOverlap(cfg, n, enabled, now) ==
  BatchOfBand(cfg, n, BandAt(cfg, now)) \cap enabled

\* The keys shown as active; the others are standby.
Active(cfg, n, enabled, now) ==
  Turn(cfg, n, BandAt(cfg, now)) \cap enabled
=============================================================================
