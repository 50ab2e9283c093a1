----------------------------- MODULE ChannelRow -----------------------------
(***************************************************************************)
(* One row of new-api's channels table, with its abilities, as keypool     *)
(* reads and writes it: the key list and its fingerprint, the location of  *)
(* a reported key, the verdicts of the classifier and the write-through    *)
(* of a key status.  No state: KeyState makes the row a variable.          *)
(*                                                                         *)
(* Key indexes are the code's: they start at 0.  The three maps of         *)
(* channel_info (status, reason, time) share their domain; only the status *)
(* is kept, and an index missing from it reads as Enabled, so the map is a *)
(* total function ks.  All abilities of a channel are always written       *)
(* together: abil stands for the enabled column of every one of them.      *)
(***************************************************************************)
EXTENDS Integers, FiniteSets

CONSTANTS
  Key,          \* key strings
  NoKey,        \* the empty string: a request that names no key
  MaxKeys,      \* the longest key list considered
  KeyLists,     \* the key lists a channel may have
  Epoch,        \* fingerprints
  NoEpoch,      \* the empty string: a request that carries no epoch
  Fingerprint,  \* the epoch of a key list (eight hex digits of a SHA-1)
  NoChannel,    \* no such row
  Code,         \* HTTP status codes
  Word          \* keywords an error message may contain

Idx == 0 .. MaxKeys - 1

Enabled          == 1
ManuallyDisabled == 2
AutoDisabled     == 3
Status           == {Enabled, ManuallyDisabled, AutoDisabled}

ASSUME RowAssumption ==
  /\ MaxKeys \in Nat \ {0}
  /\ \A l \in KeyLists : \E n \in 0 .. MaxKeys : l \in [0 .. n - 1 -> Key]
  /\ NoKey \notin Key
  /\ Fingerprint \in [KeyLists -> Epoch]
  /\ NoEpoch \notin Epoch

Channel ==
  [keys    : KeyLists,
   multi   : BOOLEAN,          \* channel_info.is_multi_key
   autoBan : BOOLEAN,          \* auto_ban, NULL read as TRUE
   ks      : [Idx -> Status],  \* channel_info.multi_key_status_list
   status  : Status,           \* channels.status
   abil    : BOOLEAN]          \* abilities.enabled

ASSUME NoChannelAssumption == NoChannel \notin Channel

KeyIndexes(c) == DOMAIN c.keys

EnabledKeyIndexes(c) == {i \in KeyIndexes(c) : c.ks[i] = Enabled}

-----------------------------------------------------------------------------
(* Locating the key a report is about.                                     *)

\* A non-negative index decides, and must not contradict the key string;
\* without one the key string does.
Located(c, ki, key) ==
  {i \in KeyIndexes(c) :
     IF ki >= 0 THEN i = ki /\ key \in {NoKey, c.keys[i]}
                ELSE c.keys[i] = key}

\* The first match is the one taken.
IsLocated(c, ki, key, i) ==
  /\ i \in Located(c, ki, key)
  /\ \A j \in Located(c, ki, key) : i <= j

\* A report bears the epoch of the key list it saw, or none.
SameEpoch(c, e) == e \in {NoEpoch, Fingerprint[c.keys]}

-----------------------------------------------------------------------------
(* The classifier.                                                         *)

ShouldDisable(st, ban, code, words) ==
  /\ st.autoDisable
  /\ ban
  /\ code \in st.codes \/ words \cap st.words # {}

\* Mutant: the previous status is not looked at.
ShouldEnable_AnyStatus(st, prev) == st.autoEnable

ShouldEnable(st, prev) == st.autoEnable /\ prev = AutoDisabled

\* What the classifier calls the previous status of key i: a channel that is
\* not multi-key has no status per key.
PrevStatus(c, i) == IF c.multi THEN c.ks[i] ELSE c.status

-----------------------------------------------------------------------------
(* The write-through of a key status: one transaction.                     *)

CanApply(c, i) ==
  /\ c # NoChannel
  /\ IF c.multi THEN i \in KeyIndexes(c) ELSE i = 0

\* Mutant: enabling stores a zero where it should remove the entry.
SetKey_Zero(c, i, s) == [c EXCEPT !.ks[i] = IF s = Enabled THEN 0 ELSE s]

SetKey(c, i, s) == [c EXCEPT !.ks[i] = s]

\* Mutant: the enabled keys are counted before the write.
ApplyMulti_CountsBefore(c, i, s) ==
  LET n == SetKey(c, i, s)
  IN  CASE EnabledKeyIndexes(c) = {} ->
             [n EXCEPT !.status = AutoDisabled, !.abil = FALSE]
        [] EnabledKeyIndexes(c) # {} /\ s = Enabled ->
             [n EXCEPT !.status = Enabled, !.abil = TRUE]
        [] OTHER -> n

\* The last enabled key takes the channel and its abilities with it; enabling
\* a key restores both; otherwise the channel stays as it was.
ApplyMulti(c, i, s) ==
  LET n == SetKey(c, i, s)
  IN  CASE EnabledKeyIndexes(n) = {} ->
             [n EXCEPT !.status = AutoDisabled, !.abil = FALSE]
        [] EnabledKeyIndexes(n) # {} /\ s = Enabled ->
             [n EXCEPT !.status = Enabled, !.abil = TRUE]
        [] OTHER -> n

ApplySingle(c, s) == [c EXCEPT !.status = s, !.abil = s = Enabled]

ApplyKeyStatus(c, i, s) ==
  IF c.multi THEN ApplyMulti(c, i, s) ELSE ApplySingle(c, s)

\* The allDead result, of the row the transaction leaves.
AllDead(n, s) == IF n.multi THEN EnabledKeyIndexes(n) = {} ELSE s # Enabled
=============================================================================
