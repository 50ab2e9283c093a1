-------------------------- MODULE KeyStateHistory --------------------------
(***************************************************************************)
(* What the channel has been through: its status beside its keys, the      *)
(* order of the events, reports on key lists that are gone, and the lock;  *)
(* and what the answer of a request says of its effects.                   *)
(***************************************************************************)
EXTENDS KeyStateProofs, FiniteSetTheorems

-----------------------------------------------------------------------------
(* The lock.                                                               *)

\* Only the owner's Unlock and the TTL take the lock away (Unlock's script).
LEMMA StepLock ==
  ASSUME TypeInv, [Next]_vars, NEW q \in Proc, lock = q, lock' # q
  PROVE  \/ pc' = pc
         \/ pc[q] = "unlock" /\ pc'[q] # "unlock"
<1>. USE DEF TypeInv, TypeOK
<1>1. CASE LockExpire
  BY <1>1 DEF LockExpire, reqVars
<1>2. ASSUME NEW p \in Proc, Unlock(p)
      PROVE  pc[q] = "unlock" /\ pc'[q] # "unlock"
  BY <1>2 DEF Unlock, Goto
<1>3. ASSUME NEW p \in Proc, Lock(p) PROVE FALSE
  BY <1>3, KeyStateAssumption DEF Lock
<1>4. ASSUME NEW p \in Proc,
             Arrive(p) \/ IdemSet(p) \/ Load(p) \/ Metric(p) \/ LeaseTake(p) \/ UsageIncr(p)
      PROVE  FALSE
  BY <1>4 DEF Arrive, IdemSet, Load, Metric, LeaseTake, UsageIncr, redisVars
<1>5. ASSUME NEW p \in Proc,
             Reload(p) \/ Decide(p) \/ Apply(p) \/ Publish(p) \/ Release(p) \/ Cancel(p) \/ Crash(p)
      PROVE  FALSE
  BY <1>5 DEF Reload, Decide, Apply, Publish, Release, Cancel, Crash, redisVars
<1>6. ASSUME \/ \E k \in IdemKey : IdemExpire(k)
             \/ \E l \in Lease : LeaseExpire(l)
             \/ SettingsChange \/ NewApiEditKeys \/ NewApiSetStatus \/ NewApiDelete
             \/ UNCHANGED vars
      PROVE  FALSE
  BY <1>6 DEF IdemExpire, LeaseExpire, SettingsChange, NewApiEditKeys, NewApiSetStatus,
     NewApiDelete, vars, redisVars
<1>. QED BY <1>1, <1>2, <1>3, <1>4, <1>5, <1>6 DEF Next, Step, Environment, Exhausted

\* A late Unlock never frees the next owner's lock, however locks lapse, replies
\* are lost, callers hang up and replicas die (the token in the lock).
THEOREM OwnerKeepsLock == Spec => LockKeptByOwner
<1>1. Init => TypeInv
  BY InitType
<1>2. TypeInv /\ [Next]_vars => TypeInv'
  BY StepType
<1>3. TypeInv /\ [Next]_vars =>
        [\A p \in Proc :
           lock = p /\ lock' # p =>
             \/ pc' = pc
             \/ pc[p] = "unlock" /\ pc'[p] # "unlock"]_vars
  BY StepLock
<1>. QED BY <1>1, <1>2, <1>3, PTL DEF Spec, LockKeptByOwner

-----------------------------------------------------------------------------
(* Who writes the channel.                                                 *)

\* Requests write the channel in Apply only; nothing else but new-api does
\* (Manager writes through Store.ApplyKeyStatus alone).
LEMMA Writers ==
  ASSUME [Next]_vars, <<row, commits>>' # <<row, commits>>
  PROVE  \/ \E p \in Proc : Apply(p)
         \/ NewApi # {} /\ row # NoChannel /\ commits' = commits
<1>1. ASSUME NEW p \in Proc,
             Arrive(p) \/ IdemSet(p) \/ Load(p) \/ Metric(p) \/ LeaseTake(p) \/ UsageIncr(p)
      PROVE  FALSE
  BY <1>1 DEF Arrive, IdemSet, Load, Metric, LeaseTake, UsageIncr, history
<1>2. ASSUME NEW p \in Proc,
             \/ Lock(p) \/ Reload(p) \/ Decide(p) \/ Publish(p) \/ Unlock(p) \/ Release(p)
             \/ Cancel(p) \/ Crash(p)
      PROVE  FALSE
  BY <1>2 DEF Lock, Reload, Decide, Publish, Unlock, Release, Cancel, Crash, history
<1>3. ASSUME \/ LockExpire
             \/ \E k \in IdemKey : IdemExpire(k)
             \/ \E l \in Lease : LeaseExpire(l)
             \/ SettingsChange
             \/ UNCHANGED vars
      PROVE  FALSE
  BY <1>3 DEF LockExpire, IdemExpire, LeaseExpire, SettingsChange, vars, history
<1>4. CASE NewApiEditKeys \/ NewApiSetStatus \/ NewApiDelete
  BY <1>4 DEF NewApiEditKeys, NewApiSetStatus, NewApiDelete, history
<1>. QED BY <1>1, <1>2, <1>3, <1>4 DEF Next, Step, Environment, Exhausted

\* What Apply does to the channel: nothing, or the write-through of its target.
LEMMA ApplyWrites ==
  ASSUME TypeInv, NEW p \in Proc, Apply(p), row' # row
  PROVE  /\ row \in Channel /\ idx[p] \in Idx /\ Target(req[p]) \in Status
         /\ row' = ApplyKeyStatus(row, idx[p], Target(req[p]))
BY RequestFields DEF TypeInv, TypeOK, Apply, Commit, CanApply

-----------------------------------------------------------------------------
(* Status, abilities and keys.                                             *)

Matching(c) ==
  /\ c.abil <=> c.status = Enabled
  /\ c.multi /\ EnabledKeyIndexes(c) = {} => c.status # Enabled

\* The write-through keeps the three in step (ApplyKeyStatus).
LEMMA ApplyMatching ==
  ASSUME NEW c \in Channel, Matching(c), NEW i \in Idx, NEW s \in Status
  PROVE  Matching(ApplyKeyStatus(c, i, s))
<1>1. CASE ~ c.multi
  <2>. DEFINE n == ApplySingle(c, s)
  <2>1. n.status = s /\ n.abil = (s = Enabled) /\ ~ n.multi
    BY <1>1 DEF ApplySingle, Channel
  <2>. HIDE DEF n
  <2>2. Matching(n)
    BY <2>1 DEF Matching
  <2>. QED BY <1>1, <2>2 DEF ApplyKeyStatus, n
<1>2. CASE c.multi
  <2>. DEFINE k == SetKey(c, i, s)
              n == ApplyMulti(c, i, s)
  <2>1. /\ k \in Channel /\ k.multi /\ k.abil = c.abil /\ k.status = c.status
    BY <1>2 DEF SetKey, Channel
  <2>2. CASE EnabledKeyIndexes(k) = {}
    <3>1. n = [k EXCEPT !.status = AutoDisabled, !.abil = FALSE]
      BY <2>2 DEF ApplyMulti
    <3>2. n.status = AutoDisabled /\ n.abil = FALSE
      BY <2>1, <3>1 DEF Channel
    <3>. QED BY <1>2, <3>2 DEF Matching, Enabled, AutoDisabled, ApplyKeyStatus
  <2>3. CASE EnabledKeyIndexes(k) # {} /\ s = Enabled
    <3>1. n = [k EXCEPT !.status = Enabled, !.abil = TRUE]
      BY <2>3 DEF ApplyMulti
    <3>2. n.status = Enabled /\ n.abil = TRUE /\ EnabledKeyIndexes(n) # {}
      BY <2>1, <2>3, <3>1 DEF Channel, EnabledKeyIndexes, KeyIndexes
    <3>. QED BY <1>2, <3>2 DEF Matching, ApplyKeyStatus
  <2>4. CASE EnabledKeyIndexes(k) # {} /\ s # Enabled
    <3>1. n = k
      BY <2>4 DEF ApplyMulti
    <3>. QED BY <1>2, <2>1, <2>4, <3>1 DEF Matching, ApplyKeyStatus
  <2>. QED BY <2>2, <2>3, <2>4
<1>. QED BY <1>1, <1>2

\* While nobody but keypool writes the channel, its status, its abilities and
\* its keys stay in step, however many requests write at a time and whether
\* their lock holds or not: a row that matches its keys is mapped to another.
THEOREM StatusMatchesKeys ==
  ASSUME NewApi = {}, \A c \in InitRow : Matching(c)
  PROVE  Spec => []ChannelMatchesKeys
<1>. DEFINE Inv == TypeInv /\ (row # NoChannel => Matching(row))
<1>1. Init => Inv
  BY InitType DEF Init
<1>2. Inv /\ [Next]_vars => Inv'
  <2>. SUFFICES ASSUME Inv, [Next]_vars PROVE Inv'
    OBVIOUS
  <2>1. TypeInv'
    BY StepType
  <2>2. CASE row' = row
    BY <2>1, <2>2
  <2>3. CASE row' # row
    <3>1. PICK p \in Proc : Apply(p)
      BY <2>3, Writers
    <3>2. /\ row \in Channel /\ idx[p] \in Idx /\ Target(req[p]) \in Status
          /\ row' = ApplyKeyStatus(row, idx[p], Target(req[p]))
      BY <2>3, <3>1, ApplyWrites
    <3>3. Matching(row)
      BY <3>2, NoChannelAssumption
    <3>4. Matching(row')
      BY <3>2, <3>3, ApplyMatching
    <3>. QED BY <2>1, <3>4
  <2>. QED BY <2>2, <2>3
<1>3. Inv => ChannelMatchesKeys
  BY DEF ChannelMatchesKeys, Matching
<1>. QED BY <1>1, <1>2, <1>3, PTL DEF Spec

-----------------------------------------------------------------------------
(* Reports on key lists that are gone.                                     *)

\* The channel's key list is among those each request in flight has seen.
ListOK == \A p \in Proc : pc[p] # "idle" /\ row # NoChannel => row.keys \in lists[p]

BeforeCommit == {"metric", "lease", "incr", "lock", "reload", "decide", "apply"}

Known(p) == \E l \in lists[p] : Fingerprint[l] = req[p].epoch

\* A report that has passed the comparison names a list the channel has had
\* since the report came.
EpochOK ==
  \A p \in Proc :
    pc[p] \in BeforeCommit /\ req[p].op = "report" /\ req[p].epoch # NoEpoch => Known(p)

\* A request keeps what it asked for, and the lists it has seen only grow.
LEMMA Remembers ==
  ASSUME TypeInv, [Next]_vars, NEW q \in Proc, pc[q] # "idle"
  PROVE  req'[q] = req[q] /\ lists[q] \subseteq lists'[q]
<1>. USE DEF TypeInv, TypeOK
<1>1. ASSUME NEW p \in Proc, Arrive(p)
      PROVE  req'[q] = req[q] /\ lists[q] \subseteq lists'[q]
  BY <1>1 DEF Arrive
<1>2. CASE NewApiEditKeys
  BY <1>2 DEF NewApiEditKeys, reqVars
<1>3. ASSUME NEW p \in Proc,
             \/ IdemSet(p) \/ Load(p) \/ Metric(p) \/ LeaseTake(p) \/ UsageIncr(p)
             \/ Lock(p) \/ Reload(p) \/ Decide(p) \/ Apply(p) \/ Publish(p) \/ Unlock(p)
             \/ Release(p) \/ Cancel(p) \/ Crash(p)
      PROVE  req' = req /\ lists' = lists
  BY <1>3 DEF IdemSet, Load, Metric, LeaseTake, UsageIncr, Lock, Reload, Decide, Apply,
     Publish, Unlock, Release, Cancel, Crash, history
<1>4. ASSUME \/ LockExpire
             \/ \E k \in IdemKey : IdemExpire(k)
             \/ \E l \in Lease : LeaseExpire(l)
             \/ SettingsChange \/ NewApiSetStatus \/ NewApiDelete
             \/ UNCHANGED vars
      PROVE  req' = req /\ lists' = lists
  BY <1>4 DEF LockExpire, IdemExpire, LeaseExpire, SettingsChange, NewApiSetStatus,
     NewApiDelete, vars, reqVars, history
<1>. QED BY <1>1, <1>2, <1>3, <1>4 DEF Next, Step, Environment, Exhausted

\* The write-through keeps the key list, and so does new-api's change of status.
LEMMA KeysKept ==
  ASSUME NEW c \in Channel, NEW i \in Idx, NEW s \in Status
  PROVE  ApplyKeyStatus(c, i, s).keys = c.keys
<1>1. SetKey(c, i, s) \in Channel /\ SetKey(c, i, s).keys = c.keys
  BY DEF SetKey, Channel
<1>. QED BY <1>1 DEF ApplyKeyStatus, ApplyMulti, ApplySingle, Channel

\* A new list is noted for every request in flight (NewApiEditKeys, Arrive).
LEMMA StepList ==
  ASSUME TypeInv, ListOK, [Next]_vars
  PROVE  ListOK'
<1>. USE DEF TypeInv, TypeOK
<1>. SUFFICES ASSUME NEW q \in Proc, pc'[q] # "idle", row' # NoChannel
              PROVE  row'.keys \in lists'[q]
  BY DEF ListOK
<1>1. ASSUME NEW p \in Proc, Arrive(p) PROVE row'.keys \in lists'[q]
  BY <1>1 DEF Arrive, ListOK, Goto
<1>2. CASE NewApiEditKeys
  <2>1. PICK l \in KeyLists : /\ row'.keys = l
                              /\ pc[q] # "idle" => l \in lists'[q]
    BY <1>2 DEF NewApiEditKeys, Channel
  <2>. QED BY <1>2, <2>1 DEF NewApiEditKeys, reqVars
<1>3. ASSUME NEW p \in Proc,
             \/ IdemSet(p) \/ Load(p) \/ Metric(p) \/ LeaseTake(p) \/ UsageIncr(p)
             \/ Lock(p) \/ Reload(p) \/ Decide(p) \/ Publish(p) \/ Unlock(p)
             \/ Release(p) \/ Cancel(p) \/ Crash(p)
      PROVE  row'.keys \in lists'[q]
  <2>1. pc[q] # "idle" /\ row' = row
    BY <1>3 DEF IdemSet, Load, Metric, LeaseTake, UsageIncr, Lock, Reload, Decide, Publish,
       Unlock, Release, Cancel, Crash, Goto, Return, InFlight, Steps
  <2>. QED BY <2>1, Remembers DEF ListOK
<1>4. ASSUME NEW p \in Proc, Apply(p) PROVE row'.keys \in lists'[q]
  <2>1. pc[q] # "idle"
    BY <1>4 DEF Apply, Goto, Return
  <2>2. row'.keys = row.keys /\ (row' # row => row \in Channel)
    BY <1>4, ApplyWrites, KeysKept
  <2>3. row # NoChannel
    BY <2>2, NoChannelAssumption
  <2>. QED BY <2>1, <2>2, <2>3, Remembers DEF ListOK
<1>5. ASSUME \/ LockExpire
             \/ \E k \in IdemKey : IdemExpire(k)
             \/ \E l \in Lease : LeaseExpire(l)
             \/ SettingsChange \/ NewApiSetStatus \/ NewApiDelete
             \/ UNCHANGED vars
      PROVE  row'.keys \in lists'[q]
  <2>1. pc' = pc
    BY <1>5 DEF LockExpire, IdemExpire, LeaseExpire, SettingsChange, NewApiSetStatus,
       NewApiDelete, vars, reqVars
  <2>2. row # NoChannel /\ row'.keys = row.keys
    BY <1>5, NoChannelAssumption DEF LockExpire, IdemExpire, LeaseExpire, SettingsChange,
       NewApiSetStatus, NewApiDelete, vars, Channel
  <2>. QED BY <2>1, <2>2, Remembers DEF ListOK
<1>. QED BY <1>1, <1>2, <1>3, <1>4, <1>5 DEF Next, Step, Environment, Exhausted

\* Load compares the epoch with the list of that moment; nothing forgets it.
LEMMA StepEpoch ==
  ASSUME TypeInv, ListOK, EpochOK, [Next]_vars
  PROVE  EpochOK'
<1>. USE DEF TypeInv, TypeOK
<1>. SUFFICES ASSUME NEW q \in Proc, pc'[q] \in BeforeCommit, req'[q].op = "report",
                     req'[q].epoch # NoEpoch
              PROVE  Known(q)'
  BY DEF EpochOK
<1>1. CASE pc[q] \in BeforeCommit
  <2>1. req'[q] = req[q] /\ lists[q] \subseteq lists'[q]
    BY <1>1, Remembers DEF BeforeCommit
  <2>2. Known(q)
    BY <1>1, <2>1 DEF EpochOK
  <2>. QED BY <2>1, <2>2 DEF Known
<1>2. CASE pc[q] \notin BeforeCommit
  <2>1. Load(q) /\ row # NoChannel /\ SameEpoch(row, req[q].epoch) /\ pc[q] = "load"
    <3>1. ASSUME NEW p \in Proc, Arrive(p) PROVE FALSE
      BY <1>2, <3>1 DEF Arrive, Goto, BeforeCommit, Target
    <3>2. ASSUME NEW p \in Proc, Load(p)
          PROVE  Load(q) /\ row # NoChannel /\ SameEpoch(row, req[q].epoch) /\ pc[q] = "load"
      <4>1. p = q
        BY <1>2, <3>2 DEF Load, Goto, Return
      <4>. QED BY <1>2, <3>2, <4>1 DEF Load, Return, Goto, InCritical, BeforeCommit
    <3>3. ASSUME NEW p \in Proc,
                 \/ IdemSet(p) \/ Metric(p) \/ LeaseTake(p) \/ UsageIncr(p)
                 \/ Lock(p) \/ Reload(p) \/ Decide(p) \/ Apply(p)
          PROVE  FALSE
      BY <1>2, <3>3 DEF IdemSet, Metric, LeaseTake, UsageIncr, Lock, Reload, Decide, Apply,
         Goto, Return, InCritical, BeforeCommit
    <3>4. ASSUME NEW p \in Proc,
                 Publish(p) \/ Unlock(p) \/ Release(p) \/ Cancel(p) \/ Crash(p)
          PROVE  FALSE
      BY <1>2, <3>4 DEF Publish, Unlock, Release, Cancel, Crash, Goto, BeforeCommit
    <3>5. ASSUME \/ LockExpire
                 \/ \E k \in IdemKey : IdemExpire(k)
                 \/ \E l \in Lease : LeaseExpire(l)
                 \/ SettingsChange \/ NewApiEditKeys \/ NewApiSetStatus \/ NewApiDelete
                 \/ UNCHANGED vars
          PROVE  FALSE
      BY <1>2, <3>5 DEF LockExpire, IdemExpire, LeaseExpire, SettingsChange, NewApiEditKeys,
         NewApiSetStatus, NewApiDelete, vars, reqVars
    <3>. QED BY <3>1, <3>2, <3>3, <3>4, <3>5 DEF Next, Step, Environment, Exhausted
  <2>2. req'[q] = req[q] /\ lists[q] \subseteq lists'[q]
    BY <2>1, Remembers
  <2>3. row.keys \in lists[q] /\ Fingerprint[row.keys] = req[q].epoch
    BY <2>1, <2>2 DEF ListOK, SameEpoch
  <2>. QED BY <2>2, <2>3 DEF Known
<1>. QED BY <1>1, <1>2

\* Only a request that is in the place to commit adds to the history.
LEMMA StepStale ==
  ASSUME TypeInv, Committed, EpochOK, StaleReportWritesNothing, [Next]_vars
  PROVE  StaleReportWritesNothing'
<1>. SUFFICES ASSUME NEW n \in DOMAIN commits', NEW q, q = commits'[n].proc,
                     req'[q].op = "report", req'[q].epoch # NoEpoch
              PROVE  \E l \in lists'[q] : Fingerprint[l] = req'[q].epoch
  BY DEF StaleReportWritesNothing
<1>1. \/ n \in DOMAIN commits /\ commits'[n] = commits[n]
      \/ q \in Proc /\ pc[q] = "apply"
  <2>1. CASE commits' = commits
    BY <2>1
  <2>2. CASE commits' # commits
    <3>1. PICK p \in Proc : Apply(p)
      BY <2>2, Writers
    <3>. QED BY <2>2, <3>1, ApplyHistory DEF Apply
  <2>. QED BY <2>1, <2>2
<1>2. q \in Proc /\ pc[q] # "idle"
  BY <1>1 DEF Committed, AfterCommit
<1>3. req'[q] = req[q] /\ lists[q] \subseteq lists'[q]
  BY <1>2, Remembers
<1>4. Known(q)
  <2>1. CASE n \in DOMAIN commits /\ commits'[n] = commits[n]
    BY <1>3, <2>1 DEF StaleReportWritesNothing, Known
  <2>2. CASE q \in Proc /\ pc[q] = "apply"
    BY <1>3, <2>2 DEF EpochOK, BeforeCommit
  <2>. QED BY <1>1, <2>1, <2>2
<1>. QED BY <1>3, <1>4 DEF Known

\* Whatever fails, and however often new-api edits the key list, a report on a
\* list that the channel has not had since the report came writes nothing.
THEOREM StaleReportHarmless == Spec => []StaleReportWritesNothing
<1>. DEFINE Inv == TypeInv /\ Committed /\ ListOK /\ EpochOK /\ StaleReportWritesNothing
<1>1. Init => Inv
  BY InitType
  DEF Init, Committed, ListOK, EpochOK, BeforeCommit, StaleReportWritesNothing
<1>2. Inv /\ [Next]_vars => Inv'
  BY StepType, StepCommitted, StepList, StepEpoch, StepStale
<1>3. Inv => StaleReportWritesNothing
  OBVIOUS
<1>. QED BY <1>1, <1>2, <1>3, PTL DEF Spec

-----------------------------------------------------------------------------
(* The order of the events.                                                *)

EventOf(p) == [proc |-> p, idx |-> idx[p],
               from |-> From(req[p], ch[p], idx[p]), to |-> Target(req[p])]

\* Every event has been told by one of the first n commits.
ToldBefore(n) == \A m \in DOMAIN events : \E a \in 1 .. n : Tells(events[m], commits[a])

\* A request about to publish made the last commit, and every event before it
\* tells of an earlier one.
PublishOK ==
  \A p \in Proc : pc[p] = "publish" =>
    /\ Len(commits) > 0
    /\ Tells(EventOf(p), commits[Len(commits)])
    /\ ToldBefore(Len(commits) - 1)

EventInv == SafeInv /\ PublishOK /\ EventsTellCommits

\* A step that neither commits nor publishes changes nothing an event is
\* compared with, and brings nobody to Publish.
LEMMA QuietEvents ==
  ASSUME NewApi = {}, TypeInv, Committed, [Next]_vars,
         \A p \in Proc : ~ Apply(p) /\ ~ Publish(p)
  PROVE  /\ UNCHANGED <<row, commits, events>>
         /\ \A q \in Proc : pc'[q] = "publish" =>
              pc[q] = "publish" /\ ch'[q] = ch[q] /\ idx'[q] = idx[q]
<1>. USE DEF TypeInv, TypeOK
<1>1. UNCHANGED <<row, commits>>
  BY Writers
<1>2. events' = events
  <2>1. ASSUME NEW p \in Proc,
               \/ Arrive(p) \/ IdemSet(p) \/ Load(p) \/ Metric(p) \/ LeaseTake(p)
               \/ UsageIncr(p) \/ Lock(p) \/ Reload(p) \/ Decide(p) \/ Unlock(p)
               \/ Release(p) \/ Cancel(p) \/ Crash(p)
        PROVE  events' = events
    BY <2>1 DEF Arrive, IdemSet, Load, Metric, LeaseTake, UsageIncr, Lock, Reload, Decide,
       Unlock, Release, Cancel, Crash, redisVars
  <2>2. ASSUME \/ LockExpire
               \/ \E k \in IdemKey : IdemExpire(k)
               \/ \E l \in Lease : LeaseExpire(l)
               \/ SettingsChange \/ NewApiEditKeys \/ NewApiSetStatus \/ NewApiDelete
               \/ UNCHANGED vars
        PROVE  events' = events
    BY <2>2 DEF LockExpire, IdemExpire, LeaseExpire, SettingsChange, NewApiEditKeys,
       NewApiSetStatus, NewApiDelete, vars, redisVars
  <2>. QED BY <2>1, <2>2 DEF Next, Step, Environment, Exhausted
<1>3. ASSUME NEW q \in Proc, pc'[q] = "publish"
      PROVE  pc[q] = "publish" /\ ch'[q] = ch[q] /\ idx'[q] = idx[q]
  <2>1. ASSUME NEW p \in Proc,
               \/ Arrive(p) \/ IdemSet(p) \/ Metric(p) \/ LeaseTake(p)
               \/ UsageIncr(p) \/ Lock(p)
        PROVE  pc[q] = "publish" /\ ch'[q] = ch[q] /\ idx'[q] = idx[q]
    BY <1>3, <2>1 DEF Arrive, IdemSet, Metric, LeaseTake, UsageIncr, Lock, Goto,
       Return, InCritical
  <2>2. ASSUME NEW p \in Proc, Load(p) \/ Reload(p) \/ Decide(p)
        PROVE  pc[q] = "publish" /\ ch'[q] = ch[q] /\ idx'[q] = idx[q]
    <3>1. p # q /\ pc'[q] = pc[q]
      BY <1>3, <2>2 DEF Load, Reload, Decide, Goto, Return, InCritical
    <3>. QED BY <1>3, <2>2, <3>1 DEF Load, Reload, Decide, Return
  <2>3. ASSUME NEW p \in Proc, Unlock(p) \/ Release(p) \/ Cancel(p) \/ Crash(p)
        PROVE  pc[q] = "publish" /\ ch'[q] = ch[q] /\ idx'[q] = idx[q]
    BY <1>3, <2>3 DEF Unlock, Release, Cancel, Crash, Goto
  <2>4. ASSUME \/ LockExpire
               \/ \E k \in IdemKey : IdemExpire(k)
               \/ \E l \in Lease : LeaseExpire(l)
               \/ SettingsChange \/ NewApiEditKeys \/ NewApiSetStatus \/ NewApiDelete
               \/ UNCHANGED vars
        PROVE  pc[q] = "publish" /\ ch'[q] = ch[q] /\ idx'[q] = idx[q]
    BY <1>3, <2>4 DEF LockExpire, IdemExpire, LeaseExpire, SettingsChange, NewApiEditKeys,
       NewApiSetStatus, NewApiDelete, vars, reqVars
  <2>. QED BY <2>1, <2>2, <2>3, <2>4 DEF Next, Step, Environment, Exhausted
<1>. QED BY <1>1, <1>2, <1>3

\* What an event is compared with stays: a commit, what its request asked for,
\* and whether the channel is multi-key.
LEMMA CommitsKept ==
  ASSUME TypeInv, Committed, [Next]_vars, NewApi = {}
  PROVE  /\ \A a \in DOMAIN commits :
              /\ a \in DOMAIN commits' /\ commits'[a] = commits[a]
              /\ req'[commits[a].proc] = req[commits[a].proc]
         /\ row'.multi = row.multi
<1>1. ASSUME NEW a \in DOMAIN commits
      PROVE  a \in DOMAIN commits' /\ commits'[a] = commits[a]
  <2>1. CASE commits' = commits
    BY <2>1
  <2>2. CASE commits' # commits
    <3>1. PICK p \in Proc : Apply(p)
      BY <2>2, Writers
    <3>2. Len(commits') = Len(commits) + 1 /\ commits'[a] = commits[a]
      BY <2>2, <3>1, ApplyHistory
    <3>3. commits \in Seq(Change) /\ commits' \in Seq(Change)
      BY StepType DEF TypeInv, TypeOK
    <3>. QED BY <3>2, <3>3
  <2>. QED BY <2>1, <2>2
<1>2. ASSUME NEW a \in DOMAIN commits
      PROVE  req'[commits[a].proc] = req[commits[a].proc]
  BY Remembers DEF Committed, AfterCommit
<1>3. row'.multi = row.multi
  <2>1. CASE row' = row
    BY <2>1
  <2>2. CASE row' # row
    <3>1. PICK p \in Proc : Apply(p)
      BY <2>2, Writers
    <3>2. /\ row \in Channel /\ idx[p] \in Idx /\ Target(req[p]) \in Status
          /\ row' = ApplyKeyStatus(row, idx[p], Target(req[p]))
      BY <2>2, <3>1, ApplyWrites
    <3>3. SetKey(row, idx[p], Target(req[p])) \in Channel
          /\ SetKey(row, idx[p], Target(req[p])).multi = row.multi
      BY <3>2 DEF SetKey, Channel
    <3>. QED BY <3>2, <3>3 DEF ApplyKeyStatus, ApplyMulti, ApplySingle, Channel
  <2>. QED BY <2>1, <2>2
<1>. QED BY <1>1, <1>2, <1>3

\* One request at a time is between its commit and its event.
LEMMA OnePublisher ==
  ASSUME HolderOwnsLock, NEW p \in Proc, pc[p] \in {"apply", "publish"},
         NEW q \in Proc, pc[q] = "publish"
  PROVE  p = q
BY DEF HolderOwnsLock, InCritical

\* The commit of p is the last, and p's event tells of it (Apply).
LEMMA ApplyEvents ==
  ASSUME NewApi = {}, EventInv, [Next]_vars, NEW p \in Proc, Apply(p)
  PROVE  PublishOK' /\ EventsTellCommits'
<1>. USE DEF EventInv, SafeInv
<1>1. /\ events' = events /\ req' = req /\ idx' = idx
      /\ pc[p] = "apply" /\ \A q \in Proc \ {p} : pc'[q] = pc[q]
  <2>1. events' = events /\ req' = req /\ idx' = idx /\ pc[p] = "apply"
    BY DEF Apply, redisVars
  <2>2. \A q \in Proc \ {p} : pc'[q] = pc[q]
    BY DEF Apply, Return, Goto, TypeInv, TypeOK
  <2>. QED BY <2>1, <2>2
<1>2. commits \in Seq(Change) /\ commits' \in Seq(Change) /\ events \in Seq(Change)
  BY StepType DEF TypeInv, TypeOK
<1>3. \A a \in DOMAIN commits : a \in DOMAIN commits' /\ commits'[a] = commits[a]
  BY CommitsKept
<1>4. row'.multi = row.multi
  BY CommitsKept
<1>5. EventsTellCommits'
  BY <1>1, <1>3, <1>4 DEF EventsTellCommits, Tells
<1>6. PublishOK'
  <2>. SUFFICES ASSUME NEW q \in Proc, pc'[q] = "publish"
                PROVE  /\ Len(commits') > 0
                       /\ Tells(EventOf(q), commits[Len(commits)])'
                       /\ ToldBefore(Len(commits) - 1)'
    BY DEF PublishOK
  <2>1. q = p
    BY <1>1, OnePublisher
  <2>2. Commit(p, idx[p], Target(req[p])) /\ ch' = ch
    BY <1>1, <2>1 DEF Apply, Return, Goto, InCritical, TypeInv, TypeOK
  <2>3. commits' # commits
    BY <1>2, <2>2 DEF Commit
  <2>4. /\ Len(commits') = Len(commits) + 1
        /\ commits'[Len(commits')].proc = p
        /\ commits'[Len(commits')].idx = idx[p]
        /\ commits'[Len(commits')].from = PrevStatus(row, idx[p])
        /\ commits'[Len(commits')].to = Target(req[p])
    BY <2>3, ApplyHistory
  <2>5. row = ch[p]
    BY <1>1 DEF Fresh
  <2>6. req[p].op = "report" \/ row.multi => From(req[p], ch[p], idx[p]) = PrevStatus(row, idx[p])
    BY <2>5, RequestFields DEF From, PrevStatus
  <2>7. Tells(EventOf(q), commits[Len(commits)])'
    BY <1>1, <1>4, <2>1, <2>2, <2>4, <2>6 DEF Tells, EventOf
  <2>8. ToldBefore(Len(commits) - 1)'
    <3>. SUFFICES ASSUME NEW m \in DOMAIN events'
                  PROVE  \E a \in 1 .. Len(commits') - 1 : Tells(events[m], commits[a])'
      BY DEF ToldBefore
    <3>1. PICK a \in DOMAIN commits : Tells(events[m], commits[a])
      BY <1>1 DEF EventsTellCommits
    <3>2. a \in 1 .. Len(commits') - 1
      BY <1>2, <2>4
    <3>. QED BY <1>1, <1>3, <1>4, <3>1, <3>2 DEF Tells
  <2>. QED BY <1>2, <2>4, <2>7, <2>8
<1>. QED BY <1>5, <1>6

\* The event of p tells of the last commit, those before it of earlier ones
\* (Publish, before Unlock).
LEMMA PublishEvents ==
  ASSUME NewApi = {}, EventInv, [Next]_vars, NEW p \in Proc, Publish(p)
  PROVE  PublishOK' /\ EventsTellCommits'
<1>. USE DEF EventInv, SafeInv
<1>1. /\ UNCHANGED <<row, req, commits>>
      /\ pc[p] = "publish" /\ pc'[p] = "unlock" /\ \A q \in Proc \ {p} : pc'[q] = pc[q]
  BY DEF Publish, history, Goto, TypeInv, TypeOK
<1>2. PublishOK'
  BY <1>1, OnePublisher DEF PublishOK
<1>3. commits \in Seq(Change) /\ events \in Seq(Change)
  BY DEF TypeInv, TypeOK
<1>4. CASE events' = events
  BY <1>1, <1>2, <1>4 DEF EventsTellCommits, Tells
<1>5. CASE events' = Append(events, EventOf(p))
  <2>. DEFINE e == EventOf(p)
  <2>1. Len(commits) \in DOMAIN commits /\ Tells(e, commits[Len(commits)])
    BY <1>1, <1>3 DEF PublishOK
  <2>2. \A m \in DOMAIN events : \E a \in DOMAIN commits :
          a < Len(commits) /\ Tells(events[m], commits[a])
    <3>1. /\ ToldBefore(Len(commits) - 1) /\ Len(commits) \in Nat
          /\ DOMAIN commits = 1 .. Len(commits)
      BY <1>1, <1>3 DEF PublishOK
    <3>2. \A a \in 1 .. Len(commits) - 1 : a \in DOMAIN commits /\ a < Len(commits)
      BY <3>1
    <3>. QED BY <3>1, <3>2 DEF ToldBefore
  <2>. HIDE DEF e
  <2>3. /\ \A m \in DOMAIN events : events'[m] = events[m]
        /\ \A m \in DOMAIN events' : m \in DOMAIN events \/ m = Len(events) + 1
        /\ events'[Len(events) + 1] = e
        /\ \A m \in DOMAIN events' : m \in Nat /\ m <= Len(events) + 1
        /\ \A m \in DOMAIN events : m < Len(events) + 1
    BY <1>3, <1>5 DEF e
  <2>4. \A x, c : Tells(x, c) => Tells(x, c)'
    BY <1>1 DEF Tells
  <2>5. ASSUME NEW m \in DOMAIN events'
        PROVE  \E a \in DOMAIN commits : Tells(events'[m], commits[a])
    BY <2>1, <2>2, <2>3
  <2>6. ASSUME NEW m \in DOMAIN events', NEW n \in DOMAIN events', m < n
        PROVE  \E a, b \in DOMAIN commits :
                 a < b /\ Tells(events'[m], commits[a]) /\ Tells(events'[n], commits[b])
    <3>1. m \in DOMAIN events /\ events'[m] = events[m]
      BY <2>3, <2>6
    <3>2. CASE n \in DOMAIN events
      BY <2>3, <2>6, <3>1, <3>2 DEF EventsTellCommits
    <3>3. CASE n = Len(events) + 1
      BY <2>1, <2>2, <2>3, <3>1, <3>3
    <3>. QED BY <2>3, <3>2, <3>3
  <2>. QED BY <1>1, <1>2, <2>5, <2>6 DEF EventsTellCommits, Tells
<1>. QED BY <1>2, <1>4, <1>5 DEF Publish, EventOf

\* Whatever else happens moves neither the commits nor the events.
LEMMA StepEvents ==
  ASSUME NewApi = {}, EventInv, [Next]_vars
  PROVE  PublishOK' /\ EventsTellCommits'
<1>. USE DEF EventInv, SafeInv
<1>1. ASSUME NEW p \in Proc, Apply(p) PROVE PublishOK' /\ EventsTellCommits'
  BY <1>1, ApplyEvents
<1>2. ASSUME NEW p \in Proc, Publish(p) PROVE PublishOK' /\ EventsTellCommits'
  BY <1>2, PublishEvents
<1>3. CASE \A p \in Proc : ~ Apply(p) /\ ~ Publish(p)
  <2>1. /\ UNCHANGED <<row, commits, events>>
        /\ \A q \in Proc : pc'[q] = "publish" =>
             pc[q] = "publish" /\ ch'[q] = ch[q] /\ idx'[q] = idx[q]
    BY <1>3, QuietEvents
  <2>2. \A a \in DOMAIN commits : req'[commits[a].proc] = req[commits[a].proc]
    BY CommitsKept
  <2>3. \A x : \A a \in DOMAIN commits : Tells(x, commits[a]) => Tells(x, commits[a])'
    BY <2>1, <2>2 DEF Tells
  <2>4. EventsTellCommits'
    BY <2>1, <2>2 DEF EventsTellCommits, Tells
  <2>5. ASSUME NEW q \in Proc, pc'[q] = "publish"
        PROVE  /\ Len(commits') > 0
               /\ Tells(EventOf(q), commits[Len(commits)])'
               /\ ToldBefore(Len(commits) - 1)'
    <3>1. /\ pc[q] = "publish" /\ ch'[q] = ch[q] /\ idx'[q] = idx[q]
          /\ req'[q] = req[q]
      BY <2>1, <2>5, Remembers
    <3>2. commits \in Seq(Change)
      BY DEF TypeInv, TypeOK
    <3>3. Len(commits) > 0 /\ Tells(EventOf(q), commits[Len(commits)])
          /\ ToldBefore(Len(commits) - 1)
      BY <3>1 DEF PublishOK
    <3>4. Len(commits) \in DOMAIN commits /\ 1 .. Len(commits) - 1 \subseteq DOMAIN commits
      BY <3>2, <3>3
    <3>5. Tells(EventOf(q), commits[Len(commits)])'
      BY <2>1, <2>2, <3>1, <3>3, <3>4 DEF Tells, EventOf
    <3>6. ToldBefore(Len(commits) - 1)'
      BY <2>1, <2>2, <3>3, <3>4 DEF ToldBefore, Tells
    <3>. QED BY <2>1, <3>3, <3>5, <3>6
  <2>. QED BY <2>4, <2>5 DEF PublishOK
<1>. QED BY <1>1, <1>2, <1>3

\* While no lock lapses under its holder and only keypool writes the channel,
\* the stream tells of commits only, in their order and with their statuses.
THEOREM EventsFollowCommits ==
  ASSUME "lockexpire" \notin Faults, NewApi = {}
  PROVE  Spec => []EventsTellCommits
<1>1. Init => EventInv
  BY InitSafe DEF Init, EventInv, PublishOK, EventsTellCommits
<1>2. EventInv /\ [Next]_vars => EventInv'
  BY StepSafe, StepEvents DEF EventInv
<1>3. EventInv => EventsTellCommits
  BY DEF EventInv
<1>. QED BY <1>1, <1>2, <1>3, PTL DEF Spec

-----------------------------------------------------------------------------
(* Channels that are gone.                                                 *)

\* A channel that is gone stays gone (ids are not reused).
LEMMA StaysAbsent == ASSUME TypeInv, row = NoChannel, [Next]_vars PROVE row' = NoChannel
<1>. SUFFICES ASSUME row' # row PROVE FALSE
  OBVIOUS
<1>1. PICK p \in Proc : Apply(p)
  BY Writers
<1>. QED BY <1>1, ApplyWrites, NoChannelAssumption

\* Nobody is told that a channel is absent by a step that finds one (getChannel).
LEMMA StepAbsent ==
  ASSUME TypeInv, [Next]_vars, NEW q \in Proc, resp'[q] = "notfound", resp[q] # "notfound"
  PROVE  row = NoChannel
<1>. USE DEF TypeInv, TypeOK
<1>1. ASSUME NEW p \in Proc, Load(p) \/ Reload(p) PROVE row = NoChannel
  BY <1>1 DEF Load, Reload, Return
<1>2. ASSUME NEW p \in Proc, Apply(p) PROVE FALSE
  BY <1>2 DEF Apply, Return, ActionOf
<1>3. ASSUME NEW p \in Proc,
             IdemSet(p) \/ LeaseTake(p) \/ UsageIncr(p) \/ Lock(p) \/ Decide(p)
      PROVE  FALSE
  BY <1>3 DEF IdemSet, LeaseTake, UsageIncr, Lock, Decide, Return
<1>4. ASSUME NEW p \in Proc,
             \/ Arrive(p) \/ Metric(p) \/ Publish(p) \/ Unlock(p) \/ Release(p)
             \/ Cancel(p) \/ Crash(p)
      PROVE  FALSE
  BY <1>4 DEF Arrive, Metric, Publish, Unlock, Release, Cancel, Crash
<1>5. ASSUME \/ LockExpire
             \/ \E k \in IdemKey : IdemExpire(k)
             \/ \E l \in Lease : LeaseExpire(l)
             \/ SettingsChange \/ NewApiEditKeys \/ NewApiSetStatus \/ NewApiDelete
             \/ UNCHANGED vars
      PROVE  FALSE
  BY <1>5 DEF LockExpire, IdemExpire, LeaseExpire, SettingsChange, NewApiEditKeys,
     NewApiSetStatus, NewApiDelete, vars, reqVars
<1>. QED BY <1>1, <1>2, <1>3, <1>4, <1>5 DEF Next, Step, Environment, Exhausted

\* Whatever fails, lapses or changes meanwhile, a caller who is told that there
\* is no such channel may drop it: it is gone and does not come back
\* (getChannel tells a missing row from a database that fails).
THEOREM AbsentIsAbsent == Spec => []NotFoundWasAbsent
<1>. DEFINE Inv == TypeInv /\ NotFoundWasAbsent
<1>1. Init => Inv
  BY InitType DEF Init, NotFoundWasAbsent
<1>2. Inv /\ [Next]_vars => Inv'
  BY StepType, StaysAbsent, StepAbsent DEF NotFoundWasAbsent
<1>. QED BY <1>1, <1>2, PTL DEF Spec

-----------------------------------------------------------------------------
(* Answers.                                                                *)

\* A request has no answer before it returns, and releases its key only with
\* an error to report.
Answering ==
  \A p \in Proc :
    /\ pc[p] \in {"idle", "idem", "load", "metric", "lease", "incr", "lock",
                  "reload", "decide", "apply"} => resp[p] = "pending"
    /\ pc[p] = "release" => resp[p] \in Errors

\* A return answers, and releases the key for an error only.
LEMMA AnsweringReturn ==
  ASSUME TypeInv, Answering, NEW p \in Proc, NEW a \in Returned, Return(p, a)
  PROVE  Answering'
<1>1. /\ resp' = [resp EXCEPT ![p] = a]
      /\ \E l \in {"unlock", "release", "done"} :
           pc' = [pc EXCEPT ![p] = l] /\ (l = "release" => a \in Errors)
  BY DEF Return, Goto
<1>. QED BY <1>1 DEF Answering, TypeInv, TypeOK, Returned

\* Only Return and Apply answer, on the way out.
LEMMA StepAnswering ==
  ASSUME TypeInv, Answering, [Next]_vars
  PROVE  Answering'
<1>. USE DEF Answering, TypeInv, TypeOK
<1>1. ASSUME NEW p \in Proc, Arrive(p) PROVE Answering'
  BY <1>1 DEF Arrive, Goto, Errors, Accepted, InCritical, redisVars, history
<1>2. ASSUME NEW p \in Proc, IdemSet(p) PROVE Answering'
  BY <1>2 DEF IdemSet, Goto, Return, Errors, Accepted, InCritical, redisVars, history
<1>3. ASSUME NEW p \in Proc, Load(p) PROVE Answering'
  <2>1. CASE \E a \in Errors \cup {"stale_epoch_ignored"} : Return(p, a)
    BY <2>1, AnsweringReturn DEF Returned
  <2>2. CASE (\E l \in {"lock", "metric"} : Goto(p, l)) /\ UNCHANGED resp
    BY <1>3, <2>2 DEF Load, Goto
  <2>. QED BY <1>3, <2>1, <2>2 DEF Load, Errors
<1>4. ASSUME NEW p \in Proc, Metric(p) PROVE Answering'
  BY <1>4 DEF Metric, Goto, Errors, Accepted, InCritical, redisVars, history
<1>5. ASSUME NEW p \in Proc, LeaseTake(p) PROVE Answering'
  BY <1>5 DEF LeaseTake, Goto, Return, Errors, Accepted, InCritical, redisVars, history
<1>6. ASSUME NEW p \in Proc, UsageIncr(p) PROVE Answering'
  BY <1>6 DEF UsageIncr, Goto, Return, Errors, Accepted, InCritical, redisVars, history
<1>7. ASSUME NEW p \in Proc, Lock(p) PROVE Answering'
  BY <1>7 DEF Lock, Goto, Return, Errors, Accepted, InCritical, redisVars, history
<1>8. ASSUME NEW p \in Proc, Reload(p) PROVE Answering'
  <2>1. CASE \E a \in Errors : Return(p, a)
    BY <2>1, AnsweringReturn DEF Returned
  <2>2. CASE (\E l \in {"apply", "decide"} : Goto(p, l)) /\ UNCHANGED resp
    BY <1>8, <2>2 DEF Reload, Goto
  <2>. QED BY <1>8, <2>1, <2>2 DEF Reload, Errors
<1>9. ASSUME NEW p \in Proc, Decide(p) PROVE Answering'
  BY <1>9 DEF Decide, Goto, Return, Errors, Accepted, InCritical, redisVars, history
<1>10. ASSUME NEW p \in Proc, Apply(p) PROVE Answering'
  <2>1. CASE Return(p, "internal")
    BY <2>1, AnsweringReturn DEF Returned, Errors
  <2>2. CASE Goto(p, "publish") /\ \A q \in Proc \ {p} : resp'[q] = resp[q]
    BY <1>10, <2>2 DEF Apply, Goto
  <2>. QED BY <1>10, <2>1, <2>2 DEF Apply
<1>11. ASSUME NEW p \in Proc, Publish(p) PROVE Answering'
  BY <1>11 DEF Publish, Goto, Errors, Accepted, InCritical, redisVars, history
<1>12. ASSUME NEW p \in Proc, Unlock(p) PROVE Answering'
  BY <1>12 DEF Unlock, Goto, Errors, Accepted, InCritical, redisVars, history
<1>13. ASSUME NEW p \in Proc, Release(p) PROVE Answering'
  BY <1>13 DEF Release, Goto, Errors, Accepted, InCritical, redisVars, history
<1>14. ASSUME NEW p \in Proc, Cancel(p) PROVE Answering'
  BY <1>14 DEF Cancel, Goto, Errors, Accepted, InCritical, redisVars, history
<1>15. ASSUME NEW p \in Proc, Crash(p) PROVE Answering'
  BY <1>15 DEF Crash, Goto, Errors, Accepted, InCritical, redisVars, history
<1>16. CASE LockExpire
  BY <1>16 DEF LockExpire, reqVars, redisVars, history
<1>17. ASSUME NEW k \in IdemKey, IdemExpire(k) PROVE Answering'
  BY <1>17 DEF IdemExpire, reqVars, redisVars, history
<1>18. ASSUME NEW l \in Lease, LeaseExpire(l) PROVE Answering'
  BY <1>18 DEF LeaseExpire, reqVars, redisVars, history
<1>19. CASE SettingsChange
  BY <1>19 DEF SettingsChange, reqVars, redisVars, history
<1>20. CASE NewApiEditKeys
  BY <1>20 DEF NewApiEditKeys, reqVars, redisVars, history
<1>21. CASE NewApiSetStatus
  BY <1>21 DEF NewApiSetStatus, reqVars, redisVars, history
<1>22. CASE NewApiDelete
  BY <1>22 DEF NewApiDelete, reqVars, redisVars, history
<1>23. CASE UNCHANGED vars
  BY <1>23 DEF vars, reqVars, redisVars, history
<1>. QED
  BY <1>1, <1>2, <1>3, <1>4, <1>5, <1>6, <1>7, <1>8, <1>9, <1>10, <1>11, <1>12,
     <1>13, <1>14, <1>15, <1>16, <1>17, <1>18, <1>19, <1>20, <1>21, <1>22, <1>23
  DEF Next, Step, Environment, Exhausted

-----------------------------------------------------------------------------
(* Idempotency keys.                                                       *)

\* The reports a key belongs to: under way behind IdemSet, or accepted.
Owns(p) ==
  /\ HoldsIdem(p)
  /\ pc[p] \in Steps \ {"idem"} \/ resp[p] \in Accepted

\* A key that belongs to a report is in Redis, and belongs to no other.
IdemOwned ==
  /\ \A p \in Proc : Owns(p) => req[p].idem \in idem
  /\ \A p, q \in Proc : p # q /\ Owns(p) /\ Owns(q) => req[p].idem # req[q].idem

\* No step but IdemSet makes a report an owner.
OwnersKept == \A p \in Proc : Owns(p)' => Owns(p) /\ req'[p] = req[p]

\* A step that leaves the idempotency keys alone and makes no new owner keeps
\* every owner's claim (IdemSet, IdemDel).
LEMMA KeptOwned ==
  ASSUME IdemOwned, OwnersKept, idem' = idem
  PROVE  IdemOwned'
BY DEF IdemOwned, OwnersKept

\* A report that passed IdemSet keeps its claim until it returns: only its own
\* IdemDel, after a failure, and the TTL take the key away.
LEMMA StepOwned ==
  ASSUME "idemexpire" \notin Faults, TypeInv, Answering, IdemOwned, [Next]_vars
  PROVE  IdemOwned'
<1>. USE DEF TypeInv, TypeOK, Owns, HoldsIdem, Steps
<1>1. ASSUME NEW p \in Proc, Arrive(p) PROVE IdemOwned'
  <2>1. OwnersKept /\ idem' = idem
    BY <1>1 DEF Arrive, OwnersKept, Goto, redisVars, history, Answering, Accepted
  <2>. QED BY <2>1, KeptOwned
<1>2. ASSUME NEW p \in Proc, IdemSet(p) PROVE IdemOwned'
  <2>1. /\ pc[p] = "idem" /\ HoldsIdem(p) /\ resp[p] = "pending" /\ req' = req
        /\ \A q \in Proc \ {p} : pc'[q] = pc[q] /\ resp'[q] = resp[q]
    BY <1>2 DEF IdemSet, Answering, ControlOK, Goto, Return
  <2>2. CASE req[p].idem \notin idem /\ idem' = idem \cup {req[p].idem}
    <3>1. \A q \in Proc \ {p} : Owns(q)' => Owns(q)
      BY <2>1
    <3>2. \A q \in Proc \ {p} : Owns(q)' =>
            req[q].idem \in idem /\ req[q].idem # req[p].idem
      BY <2>2, <3>1 DEF IdemOwned
    <3>3. \A q \in Proc : Owns(q)' => req'[q].idem \in idem'
      BY <2>1, <2>2, <3>2
    <3>4. ASSUME NEW q \in Proc, NEW r \in Proc, q # r, Owns(q)', Owns(r)'
          PROVE  req'[q].idem # req'[r].idem
      <4>1. CASE q = p BY <2>1, <3>2, <3>4, <4>1
      <4>2. CASE r = p BY <2>1, <3>2, <3>4, <4>2
      <4>3. CASE q # p /\ r # p BY <2>1, <3>1, <3>4, <4>3 DEF IdemOwned
      <4>. QED BY <4>1, <4>2, <4>3
    <3>. QED BY <3>3, <3>4 DEF IdemOwned
  <2>3. CASE ~ (req[p].idem \notin idem /\ idem' = idem \cup {req[p].idem})
    <3>1. idem' = idem \cup {req[p].idem} \/ idem' = idem
      BY <1>2 DEF IdemSet
    <3>2. pc'[p] = "done" /\ resp'[p] \in {"duplicate", "internal"}
      BY <1>2, <2>1, <2>3 DEF IdemSet, Return, Goto, InCritical, Errors
    <3>3. ~ Owns(p)'
      BY <3>2 DEF Accepted
    <3>4. OwnersKept
      BY <2>1, <3>3 DEF OwnersKept
    <3>. QED BY <3>1, <3>4 DEF IdemOwned, OwnersKept
  <2>. QED BY <2>2, <2>3
<1>3. ASSUME NEW p \in Proc, Load(p) PROVE IdemOwned'
  <2>1. OwnersKept /\ idem' = idem
    BY <1>3 DEF Load, OwnersKept, Goto, Return, Errors, Accepted, redisVars, history
  <2>. QED BY <2>1, KeptOwned
<1>4. ASSUME NEW p \in Proc, Metric(p) PROVE IdemOwned'
  <2>1. OwnersKept /\ idem' = idem
    BY <1>4 DEF Metric, OwnersKept, Goto, redisVars, history
  <2>. QED BY <2>1, KeptOwned
<1>5. ASSUME NEW p \in Proc, LeaseTake(p) PROVE IdemOwned'
  <2>1. OwnersKept /\ idem' = idem
    BY <1>5 DEF LeaseTake, OwnersKept, Goto, Return, Errors, Accepted, redisVars,
       history
  <2>. QED BY <2>1, KeptOwned
<1>6. ASSUME NEW p \in Proc, UsageIncr(p) PROVE IdemOwned'
  <2>1. OwnersKept /\ idem' = idem
    BY <1>6 DEF UsageIncr, OwnersKept, Goto, Return, Errors, Accepted, redisVars,
       history
  <2>. QED BY <2>1, KeptOwned
<1>7. ASSUME NEW p \in Proc, Lock(p) PROVE IdemOwned'
  <2>1. OwnersKept /\ idem' = idem
    BY <1>7 DEF Lock, OwnersKept, Goto, Return, Errors, Accepted, redisVars, history
  <2>. QED BY <2>1, KeptOwned
<1>8. ASSUME NEW p \in Proc, Reload(p) PROVE IdemOwned'
  <2>1. OwnersKept /\ idem' = idem
    BY <1>8 DEF Reload, OwnersKept, Goto, Return, Errors, Accepted, redisVars, history
  <2>. QED BY <2>1, KeptOwned
<1>9. ASSUME NEW p \in Proc, Decide(p) PROVE IdemOwned'
  <2>1. OwnersKept /\ idem' = idem
    BY <1>9 DEF Decide, OwnersKept, Goto, Return, Errors, Accepted, redisVars,
       history, Answering
  <2>. QED BY <2>1, KeptOwned
<1>10. ASSUME NEW p \in Proc, Apply(p) PROVE IdemOwned'
  <2>1. OwnersKept /\ idem' = idem
    BY <1>10 DEF Apply, OwnersKept, Goto, Return, Errors, Accepted, redisVars,
       history, Answering
  <2>. QED BY <2>1, KeptOwned
<1>11. ASSUME NEW p \in Proc, Publish(p) PROVE IdemOwned'
  <2>1. OwnersKept /\ idem' = idem
    BY <1>11 DEF Publish, OwnersKept, Goto, redisVars, history
  <2>. QED BY <2>1, KeptOwned
<1>12. ASSUME NEW p \in Proc, Unlock(p) PROVE IdemOwned'
  <2>1. OwnersKept /\ idem' = idem
    BY <1>12 DEF Unlock, OwnersKept, Goto, redisVars, history
  <2>. QED BY <2>1, KeptOwned
<1>13. ASSUME NEW p \in Proc, Release(p) PROVE IdemOwned'
  <2>1. /\ pc[p] = "release" /\ pc'[p] = "done" /\ HoldsIdem(p)
        /\ resp[p] \in Errors /\ resp' = resp /\ req' = req
        /\ \A q \in Proc \ {p} : pc'[q] = pc[q]
        /\ idem' = idem \ {req[p].idem} \/ idem' = idem
    BY <1>13 DEF Release, Goto, Answering, ControlOK
  <2>2. ~ Owns(p)' /\ Owns(p)
    BY <2>1 DEF Owns, HoldsIdem, Steps, Errors, Accepted
  <2>3. \A q \in Proc \ {p} : Owns(q)' <=> Owns(q)
    BY <2>1 DEF Owns, HoldsIdem
  <2>4. \A q \in Proc \ {p} : Owns(q) => req[q].idem # req[p].idem
    BY <2>2 DEF IdemOwned
  <2>5. \A q \in Proc : Owns(q)' => Owns(q) /\ q # p
    BY <2>2, <2>3
  <2>. HIDE DEF Owns
  <2>6. \A q \in Proc : Owns(q)' => req'[q].idem \in idem'
    <3>1. ASSUME NEW q \in Proc, Owns(q)' PROVE req'[q].idem \in idem'
      <4>1. Owns(q) /\ req[q].idem \in idem /\ req[q].idem # req[p].idem
        BY <2>4, <2>5, <3>1 DEF IdemOwned
      <4>. QED BY <2>1, <4>1
    <3>. QED BY <3>1
  <2>7. \A q, r \in Proc : q # r /\ Owns(q)' /\ Owns(r)' => req'[q].idem # req'[r].idem
    <3>1. \A q, r \in Proc : q # r /\ Owns(q) /\ Owns(r) => req[q].idem # req[r].idem
      BY DEF IdemOwned
    <3>. QED BY <2>1, <2>5, <3>1
  <2>. QED BY <2>6, <2>7 DEF IdemOwned
<1>14. ASSUME NEW p \in Proc, Cancel(p) PROVE IdemOwned'
  <2>1. OwnersKept /\ idem' = idem
    BY <1>14 DEF Cancel, OwnersKept, Goto, redisVars, history
  <2>. QED BY <2>1, KeptOwned
<1>15. ASSUME NEW p \in Proc, Crash(p) PROVE IdemOwned'
  <2>1. OwnersKept /\ idem' = idem
    BY <1>15 DEF Crash, OwnersKept, Goto, redisVars, history
  <2>. QED BY <2>1, KeptOwned
<1>16. CASE LockExpire
  <2>1. OwnersKept /\ idem' = idem
    BY <1>16 DEF LockExpire, OwnersKept, reqVars, redisVars, history
  <2>. QED BY <2>1, KeptOwned
<1>17. ASSUME NEW k \in IdemKey, IdemExpire(k) PROVE IdemOwned'
  BY <1>17 DEF IdemExpire
<1>18. ASSUME NEW l \in Lease, LeaseExpire(l) PROVE IdemOwned'
  <2>1. OwnersKept /\ idem' = idem
    BY <1>18 DEF LeaseExpire, OwnersKept, reqVars, redisVars, history
  <2>. QED BY <2>1, KeptOwned
<1>19. CASE SettingsChange
  <2>1. OwnersKept /\ idem' = idem
    BY <1>19 DEF SettingsChange, OwnersKept, reqVars, redisVars, history
  <2>. QED BY <2>1, KeptOwned
<1>20. CASE NewApiEditKeys
  <2>1. OwnersKept /\ idem' = idem
    BY <1>20 DEF NewApiEditKeys, OwnersKept, reqVars, redisVars, history
  <2>. QED BY <2>1, KeptOwned
<1>21. CASE NewApiSetStatus
  <2>1. OwnersKept /\ idem' = idem
    BY <1>21 DEF NewApiSetStatus, OwnersKept, reqVars, redisVars, history
  <2>. QED BY <2>1, KeptOwned
<1>22. CASE NewApiDelete
  <2>1. OwnersKept /\ idem' = idem
    BY <1>22 DEF NewApiDelete, OwnersKept, reqVars, redisVars, history
  <2>. QED BY <2>1, KeptOwned
<1>23. CASE UNCHANGED vars
  <2>1. OwnersKept /\ idem' = idem
    BY <1>23 DEF vars, OwnersKept, reqVars, redisVars, history
  <2>. QED BY <2>1, KeptOwned
<1>. QED
  BY <1>1, <1>2, <1>3, <1>4, <1>5, <1>6, <1>7, <1>8, <1>9, <1>10, <1>11, <1>12,
     <1>13, <1>14, <1>15, <1>16, <1>17, <1>18, <1>19, <1>20, <1>21, <1>22, <1>23
  DEF Next, Step, Environment, Exhausted

IdemInv == TypeInv /\ Answering /\ IdemOwned

\* No report has claimed a key or answered when a replica starts.
LEMMA InitIdem == Init => IdemInv
<1>. SUFFICES ASSUME Init PROVE IdemInv
  OBVIOUS
<1>1. \A p \in Proc : pc[p] = "idle" /\ resp[p] = "pending"
  BY DEF Init
<1>2. Answering /\ IdemOwned
  BY <1>1 DEF Answering, IdemOwned, Owns, Steps, Accepted
<1>. QED BY <1>2, InitType DEF IdemInv

\* Before an idempotency key's TTL ends, at most one of the reports that carry
\* it is accepted, whatever is lost, cancelled or retried, and whoever dies.
THEOREM Idempotent ==
  ASSUME "idemexpire" \notin Faults PROVE Spec => []AcceptedOnce
<1>1. Init => IdemInv
  BY InitIdem
<1>2. IdemInv /\ [Next]_vars => IdemInv'
  BY StepType, StepAnswering, StepOwned DEF IdemInv
<1>3. IdemInv => AcceptedOnce
  BY DEF IdemInv, IdemOwned, Owns, AcceptedOnce
<1>. QED BY <1>1, <1>2, <1>3, PTL DEF Spec

-----------------------------------------------------------------------------
(* Writes.                                                                 *)

\* A request in the history was accepted.
CommittedAccepted == \A n \in DOMAIN commits : resp[commits[n].proc] \in Accepted

\* Apply answers with its commit; afterwards only Release and Unlock run, and they
\* leave the answer alone.
LEMMA StepCommittedAccepted ==
  ASSUME "lostcommit" \notin Faults, TypeInv, Committed, CommittedAccepted, [Next]_vars
  PROVE  CommittedAccepted'
<1>. USE DEF Committed, AfterCommit, CommittedAccepted, TypeInv, TypeOK
<1>1. ASSUME NEW p \in Proc, Arrive(p) PROVE CommittedAccepted'
  BY <1>1 DEF Arrive, Goto, redisVars, history
<1>2. ASSUME NEW p \in Proc, IdemSet(p) PROVE CommittedAccepted'
  BY <1>2 DEF IdemSet, Goto, Return, redisVars, history
<1>3. ASSUME NEW p \in Proc, Load(p) PROVE CommittedAccepted'
  BY <1>3, ZenonT(60) DEF Load, Goto, Return, redisVars, history
<1>4. ASSUME NEW p \in Proc, Metric(p) PROVE CommittedAccepted'
  BY <1>4 DEF Metric, Goto, redisVars, history
<1>5. ASSUME NEW p \in Proc, LeaseTake(p) PROVE CommittedAccepted'
  BY <1>5 DEF LeaseTake, Goto, Return, redisVars, history
<1>6. ASSUME NEW p \in Proc, UsageIncr(p) PROVE CommittedAccepted'
  BY <1>6 DEF UsageIncr, Goto, Return, redisVars, history
<1>7. ASSUME NEW p \in Proc, Lock(p) PROVE CommittedAccepted'
  BY <1>7 DEF Lock, Goto, Return, redisVars, history
<1>8. ASSUME NEW p \in Proc, Reload(p) PROVE CommittedAccepted'
  BY <1>8, ZenonT(60) DEF Reload, Goto, Return, redisVars, history
<1>9. ASSUME NEW p \in Proc, Decide(p) PROVE CommittedAccepted'
  BY <1>9 DEF Decide, Goto, Return, redisVars, history
<1>10. ASSUME NEW p \in Proc, Apply(p) PROVE CommittedAccepted'
  <2>1. CASE commits' = commits
    <3>1. \A q \in Proc \ {p} : resp'[q] = resp[q]
      BY <1>10 DEF Apply, Return
    <3>2. pc[p] = "apply"
      BY <1>10 DEF Apply
    <3>. QED BY <2>1, <3>1, <3>2
  <2>2. CASE commits' # commits
    <3>1. resp'[p] \in Accepted /\ \A q \in Proc \ {p} : resp'[q] = resp[q]
      BY <1>10, <2>2 DEF Apply, DBLost, ActionOf, Accepted
    <3>2. \A n \in DOMAIN commits' :
            (n \in DOMAIN commits /\ commits'[n] = commits[n]) \/ commits'[n].proc = p
      BY <1>10, <2>2, ApplyHistory
    <3>. QED BY <3>1, <3>2
  <2>. QED BY <2>1, <2>2
<1>11. ASSUME NEW p \in Proc, Publish(p) PROVE CommittedAccepted'
  BY <1>11 DEF Publish, Goto, redisVars, history
<1>12. ASSUME NEW p \in Proc, Unlock(p) PROVE CommittedAccepted'
  BY <1>12 DEF Unlock, Goto, redisVars, history
<1>13. ASSUME NEW p \in Proc, Release(p) PROVE CommittedAccepted'
  BY <1>13 DEF Release, Goto, redisVars, history
<1>14. ASSUME NEW p \in Proc, Cancel(p) PROVE CommittedAccepted'
  BY <1>14 DEF Cancel, Goto, redisVars, history
<1>15. ASSUME NEW p \in Proc, Crash(p) PROVE CommittedAccepted'
  BY <1>15 DEF Crash, Goto, redisVars, history
<1>16. CASE LockExpire
  BY <1>16 DEF LockExpire, reqVars, redisVars, history
<1>17. ASSUME NEW k \in IdemKey, IdemExpire(k) PROVE CommittedAccepted'
  BY <1>17 DEF IdemExpire, reqVars, redisVars, history
<1>18. ASSUME NEW l \in Lease, LeaseExpire(l) PROVE CommittedAccepted'
  BY <1>18 DEF LeaseExpire, reqVars, redisVars, history
<1>19. CASE SettingsChange
  BY <1>19 DEF SettingsChange, reqVars, redisVars, history
<1>20. CASE NewApiEditKeys
  BY <1>20 DEF NewApiEditKeys, reqVars, redisVars, history
<1>21. CASE NewApiSetStatus
  BY <1>21 DEF NewApiSetStatus, reqVars, redisVars, history
<1>22. CASE NewApiDelete
  BY <1>22 DEF NewApiDelete, reqVars, redisVars, history
<1>23. CASE UNCHANGED vars
  BY <1>23 DEF vars, reqVars, redisVars, history
<1>. QED
  BY <1>1, <1>2, <1>3, <1>4, <1>5, <1>6, <1>7, <1>8, <1>9, <1>10, <1>11, <1>12,
     <1>13, <1>14, <1>15, <1>16, <1>17, <1>18, <1>19, <1>20, <1>21, <1>22, <1>23
  DEF Next, Step, Environment, Exhausted

\* Unless the reply to a committed transaction is lost, a request that is
\* refused has written nothing, whatever new-api does to the row meanwhile.
THEOREM RefusedWritesNothing ==
  ASSUME "lostcommit" \notin Faults PROVE Spec => []FailedWritesNothing
<1>. DEFINE Inv == TypeInv /\ Committed /\ CommittedAccepted
<1>1. Init => Inv
  BY InitType DEF Init, Committed, CommittedAccepted
<1>2. Inv /\ [Next]_vars => Inv'
  BY StepType, StepCommitted, StepCommittedAccepted
<1>3. Inv => FailedWritesNothing
  BY DEF CommittedAccepted, FailedWritesNothing, Accepted, Errors
<1>. QED BY <1>1, <1>2, <1>3, PTL DEF Spec
-----------------------------------------------------------------------------
(* Sums.                                                                   *)

\* A property of {} that every other set has when all its members can be left
\* out one at a time is one of every finite set.
LEMMA OneByOne ==
  ASSUME NEW S, IsFiniteSet(S), NEW Q \in SUBSET SUBSET S,
         {} \in Q,
         \A T \in SUBSET S : T # {} /\ (\A x \in T : T \ {x} \in Q) => T \in Q
  PROVE  \A T \in SUBSET S : T \in Q
<1>. DEFINE Bad == (SUBSET S) \ Q
            Less == StrictSubsetOrdering(S)
<1>. SUFFICES ASSUME Bad # {} PROVE FALSE
  OBVIOUS
<1>1. Bad \subseteq FiniteSubsetsOf(S)
  BY FS_Subset DEF FiniteSubsetsOf
<1>2. IsWellFoundedOn(Less, FiniteSubsetsOf(S))
  BY FS_StrictSubsetOrderingWellFounded
<1>3. PICK T \in Bad : \A U \in Bad : ~ (<<U, T>> \in Less)
  <2>. HIDE DEF Bad, Less
  <2>. QED BY <1>1, <1>2, WFMin
<1>4. PICK x \in T : T \ {x} \notin Q
  BY <1>3
<1>5. T \ {x} \in Bad
  BY <1>3, <1>4
<1>6. <<T \ {x}, T>> \in Less
  <2>1. T \ {x} \subseteq T /\ T \ {x} # T
    BY <1>4
  <2>2. T \in SUBSET S /\ T \ {x} \in SUBSET S
    BY <1>3
  <2>. QED BY <2>1, <2>2, Zenon DEF StrictSubsetOrdering
<1>. QED BY <1>3, <1>5, <1>6

\* f gives the sum of w over each subset of S, in whatever order it is taken.
Sums(f, w, S) ==
  /\ f \in [SUBSET S -> Int]
  /\ f[{}] = 0
  /\ \A T \in SUBSET S : \A x \in T : f[T] = w[x] + f[T \ {x}]

\* Every finite family of integers has its sums.
LEMMA SumsExist ==
  ASSUME NEW S, IsFiniteSet(S), NEW w \in [S -> Int]
  PROVE  \E f : Sums(f, w, S)
<1>. DEFINE Q == {T \in SUBSET S : \E f : Sums(f, w, T)}
<1>1. {} \in Q
  <2>1. Sums([T \in SUBSET {} |-> 0], w, {})
    BY DEF Sums
  <2>. QED BY <2>1
<1>2. ASSUME NEW T \in SUBSET S, T # {}, \A x \in T : T \ {x} \in Q
      PROVE  T \in Q
  <2>1. PICK x : x \in T
    BY <1>2
  <2>2. PICK f : Sums(f, w, T \ {x})
    BY <1>2, <2>1
  <2>. DEFINE g == [U \in SUBSET T |-> IF x \in U THEN w[x] + f[U \ {x}] ELSE f[U]]
  <2>3. f \in [SUBSET (T \ {x}) -> Int] /\ f[{}] = 0 /\ w[x] \in Int
    BY <2>1, <2>2 DEF Sums
  <2>4. g \in [SUBSET T -> Int] /\ g[{}] = 0
    <3>1. ASSUME NEW U \in SUBSET T PROVE g[U] \in Int
      <4>1. U \ {x} \in SUBSET (T \ {x}) /\ (x \notin U => U \in SUBSET (T \ {x}))
        OBVIOUS
      <4>2. f[U \ {x}] \in Int /\ (x \notin U => f[U] \in Int)
        BY <2>3, <4>1
      <4>. QED BY <2>3, <4>2
    <3>2. {} \in SUBSET T /\ x \notin {}
      OBVIOUS
    <3>. QED BY <2>3, <3>1, <3>2
  <2>5. ASSUME NEW U \in SUBSET T, NEW y \in U PROVE g[U] = w[y] + g[U \ {y}]
    <3>1. U \ {y} \in SUBSET T /\ w[y] \in Int
      OBVIOUS
    <3>2. CASE y = x
      BY <3>1, <3>2
    <3>3. CASE y # x /\ x \notin U
      <4>1. U \in SUBSET (T \ {x}) /\ x \notin U \ {y}
        BY <3>3
      <4>2. f[U] = w[y] + f[U \ {y}]
        BY <2>2, <4>1 DEF Sums
      <4>. QED BY <3>1, <3>3, <4>1, <4>2
    <3>4. CASE y # x /\ x \in U
      <4>. DEFINE V == U \ {x}
                  W == (U \ {y}) \ {x}
      <4>1. V \in SUBSET (T \ {x}) /\ y \in V /\ V \ {y} = W /\ W \in SUBSET (T \ {x})
        BY <3>4
      <4>2. f[V] = w[y] + f[V \ {y}]
        BY <2>2, <4>1 DEF Sums
      <4>3. f[V] \in Int /\ f[W] \in Int /\ f[V] = w[y] + f[W]
        BY <2>3, <4>1, <4>2
      <4>4. g[U] = w[x] + f[V] /\ g[U \ {y}] = w[x] + f[W]
        BY <3>1, <3>4
      <4>. HIDE DEF g, V, W
      <4>. QED BY <2>3, <3>1, <4>3, <4>4
    <3>. QED BY <3>2, <3>3, <3>4
  <2>. HIDE DEF g
  <2>6. Sums(g, w, T)
    BY <2>4, <2>5 DEF Sums
  <2>. QED BY <2>6
<1>. HIDE DEF Q
<1>3. \A T \in SUBSET S : T \in Q
  BY <1>1, <1>2, OneByOne DEF Q
<1>. QED BY <1>3 DEF Q

\* The library's sum is that sum (the order of its fold is fixed by CHOOSE).
LEMMA SumFunctionSums ==
  ASSUME NEW S, IsFiniteSet(S), NEW w \in [S -> Int], NEW g, Sums(g, w, S)
  PROVE  SumFunction(w) = g[S]
<1>. DEFINE Body(f, T) == IF T = {} THEN 0
                          ELSE w[CHOOSE x \in T : TRUE] + f[T \ {CHOOSE x \in T : TRUE}]
            Folds(f) == f = [T \in SUBSET S |-> Body(f, T)]
<1>1. SumFunction(w) = (CHOOSE f : Folds(f))[S]
  BY DEF SumFunction, SumFunctionOnSet, FoldFunctionOnSet, MapThenFoldSet
<1>2. ASSUME NEW T \in SUBSET S PROVE g[T] = Body(g, T)
  <2>1. T # {} => (CHOOSE x \in T : TRUE) \in T
    OBVIOUS
  <2>. QED BY <2>1 DEF Sums
<1>3. Folds(g)
  BY <1>2 DEF Sums
<1>. HIDE DEF Folds
<1>4. Folds(CHOOSE f : Folds(f))
  BY <1>3
<1>5. ASSUME NEW f, Folds(f) PROVE f[S] = g[S]
  <2>. DEFINE Q == {T \in SUBSET S : f[T] = g[T]}
  <2>1. \A T \in SUBSET S : f[T] = Body(f, T)
    BY <1>5 DEF Folds
  <2>2. {} \in Q
    BY <1>2, <2>1
  <2>3. ASSUME NEW T \in SUBSET S, T # {}, \A x \in T : T \ {x} \in Q PROVE T \in Q
    <3>. DEFINE c == CHOOSE x \in T : TRUE
    <3>1. c \in T
      BY <2>3
    <3>2. f[T \ {c}] = g[T \ {c}]
      BY <2>3, <3>1
    <3>. QED BY <1>2, <2>1, <2>3, <3>2
  <2>. HIDE DEF Q
  <2>4. \A T \in SUBSET S : T \in Q
    BY <2>2, <2>3, OneByOne DEF Q
  <2>. QED BY <2>4 DEF Q
<1>. QED BY <1>1, <1>4, <1>5

\* A sum over nothing is 0.
LEMMA SumOfNone == ASSUME NEW w \in [{} -> Int] PROVE SumFunction(w) = 0
<1>1. IsFiniteSet({})
  BY FS_EmptySet
<1>2. PICK g : Sums(g, w, {})
  BY <1>1, SumsExist
<1>. QED BY <1>1, <1>2, SumFunctionSums DEF Sums

\* Any member of a sum may be taken out of it.
LEMMA SumSplit ==
  ASSUME NEW S, IsFiniteSet(S), NEW w \in [S -> Int], NEW x \in S,
         NEW v \in [S \ {x} -> Int], \A y \in S \ {x} : v[y] = w[y]
  PROVE  SumFunction(w) = w[x] + SumFunction(v)
<1>. DEFINE R == S \ {x}
<1>1. PICK g : Sums(g, w, S)
  BY SumsExist
<1>. DEFINE h == [T \in SUBSET R |-> g[T]]
<1>2. IsFiniteSet(R)
  BY FS_Subset
<1>3. Sums(h, v, R)
  <2>1. h \in [SUBSET R -> Int] /\ h[{}] = 0
    BY <1>1 DEF Sums
  <2>2. ASSUME NEW T \in SUBSET R, NEW y \in T PROVE h[T] = v[y] + h[T \ {y}]
    <3>1. T \in SUBSET S /\ T \ {y} \in SUBSET R /\ y \in R
      OBVIOUS
    <3>2. g[T] = w[y] + g[T \ {y}]
      BY <1>1, <3>1 DEF Sums
    <3>. QED BY <3>1, <3>2
  <2>. HIDE DEF h
  <2>. QED BY <2>1, <2>2 DEF Sums
<1>4. SumFunction(v) = h[R]
  <2>. HIDE DEF h
  <2>1. v \in [R -> Int]
    OBVIOUS
  <2>. HIDE DEF R
  <2>. QED BY <1>2, <1>3, <2>1, SumFunctionSums
<1>5. SumFunction(w) = g[S] /\ g[S] = w[x] + g[R]
  BY <1>1, SumFunctionSums DEF Sums
<1>. QED BY <1>4, <1>5

\* Sums of integers are integers.
LEMMA SumInt ==
  ASSUME NEW S, IsFiniteSet(S), NEW w \in [S -> Int]
  PROVE  SumFunction(w) \in Int
<1>1. PICK g : Sums(g, w, S)
  BY SumsExist
<1>2. SumFunction(w) = g[S]
  BY <1>1, SumFunctionSums
<1>. QED BY <1>1, <1>2 DEF Sums

\* A sum moves with each of its members (HINCRBYFLOAT on one counter).
LEMMA SumAdd ==
  ASSUME NEW S, IsFiniteSet(S), NEW v \in [S -> Int], NEW w \in [S -> Int],
         NEW x \in S, NEW d \in Int,
         v[x] = w[x] + d, \A y \in S \ {x} : v[y] = w[y]
  PROVE  SumFunction(v) = SumFunction(w) + d
<1>. DEFINE r == [y \in S \ {x} |-> w[y]]
<1>1. /\ r \in [S \ {x} -> Int] /\ IsFiniteSet(S \ {x})
      /\ \A y \in S \ {x} : r[y] = v[y] /\ r[y] = w[y]
  BY FS_Subset
<1>. HIDE DEF r
<1>2. SumFunction(v) = v[x] + SumFunction(r)
  BY <1>1, SumSplit
<1>3. SumFunction(w) = w[x] + SumFunction(r)
  BY <1>1, SumSplit
<1>4. SumFunction(r) \in Int
  BY <1>1, SumInt
<1>. QED BY <1>2, <1>3, <1>4

\* A member more adds its value to a sum.
LEMMA SumNew ==
  ASSUME NEW S, IsFiniteSet(S), NEW v \in [S -> Int], NEW x, x \notin S,
         NEW w \in [S \cup {x} -> Int], \A y \in S : w[y] = v[y]
  PROVE  SumFunction(w) = w[x] + SumFunction(v)
<1>. DEFINE U == S \cup {x}
<1>1. IsFiniteSet(U)
  BY FS_AddElement
<1>2. U \ {x} = S
  OBVIOUS
<1>3. x \in U /\ w \in [U -> Int]
  OBVIOUS
<1>. HIDE DEF U
<1>. QED BY <1>1, <1>2, <1>3, SumSplit

-----------------------------------------------------------------------------
(* Usage.                                                                  *)

BeforeTake == {"idle", "idem", "load", "metric", "lease"}
AfterIncr  == {"lock", "reload", "decide", "apply", "publish", "unlock", "release",
               "done", "crashed"}

\* A lease is taken once, and is gone then (LeaseTake's GET and DEL in one script).
LeaseOnce ==
  /\ \A p \in Proc : pc[p] \in BeforeTake => took[p] = NoLease
  /\ \A p \in Proc : took[p] # NoLease => took[p] \notin leases
  /\ \A p, q \in Proc : took[p] = took[q] /\ took[p] # NoLease => p = q

\* A report is counted once, and keeps what it was counted with (Report, step 4).
ChargedOnce ==
  /\ IsFiniteSet(charged)
  /\ \A p \in charged : pc[p] \in AfterIncr

\* No request returns to the steps before the correction, or to it.
Ahead ==
  \A p \in Proc : /\ pc'[p] \in BeforeTake => pc[p] \in BeforeTake
                  /\ pc[p] \in AfterIncr => pc'[p] \in AfterIncr

Accounts == <<delta, took, leases, usage, charged>>

\* What a step may do to the accounts: nothing, or what Metric, LeaseTake,
\* UsageIncr and the TTL of a lease do.
LEMMA AccountSteps ==
  ASSUME TypeInv, [Next]_vars
  PROVE  \/ Accounts' = Accounts /\ Ahead
         \/ \E p \in Proc : Metric(p) \/ LeaseTake(p) \/ UsageIncr(p)
         \/ \E l \in Lease : LeaseExpire(l)
<1>. USE DEF TypeInv, TypeOK, Accounts, Ahead, BeforeTake, AfterIncr
<1>1. ASSUME NEW p \in Proc, Arrive(p) \/ IdemSet(p)
      PROVE  Accounts' = Accounts /\ Ahead
  BY <1>1 DEF Arrive, IdemSet, Goto, Return, InCritical, redisVars, history
<1>2. ASSUME NEW p \in Proc, Load(p)
      PROVE  Accounts' = Accounts /\ Ahead
  BY <1>2 DEF Load, Goto, Return, InCritical, redisVars, history
<1>3. ASSUME NEW p \in Proc, Lock(p) \/ Decide(p)
      PROVE  Accounts' = Accounts /\ Ahead
  BY <1>3 DEF Lock, Decide, Goto, Return, InCritical, redisVars, history
<1>4. ASSUME NEW p \in Proc, Reload(p) \/ Apply(p)
      PROVE  Accounts' = Accounts /\ Ahead
  BY <1>4 DEF Reload, Apply, Goto, Return, InCritical, redisVars, history
<1>5. ASSUME NEW p \in Proc,
             Publish(p) \/ Unlock(p) \/ Release(p) \/ Cancel(p) \/ Crash(p)
      PROVE  Accounts' = Accounts /\ Ahead
  BY <1>5 DEF Publish, Unlock, Release, Cancel, Crash, Goto, InFlight, redisVars, history
<1>6. ASSUME \/ LockExpire
             \/ \E k \in IdemKey : IdemExpire(k)
             \/ SettingsChange \/ NewApiEditKeys \/ NewApiSetStatus \/ NewApiDelete
             \/ UNCHANGED vars
      PROVE  Accounts' = Accounts /\ Ahead
  BY <1>6 DEF LockExpire, IdemExpire, SettingsChange, NewApiEditKeys, NewApiSetStatus,
     NewApiDelete, vars, reqVars, redisVars, history
<1>. QED BY <1>1, <1>2, <1>3, <1>4, <1>5, <1>6 DEF Next, Step, Environment, Exhausted

\* What LeaseTake, UsageIncr and Metric do to the accounts.
LEMMA TakeEffect ==
  ASSUME TypeInv, LeaseOnce, NEW p \in Proc, LeaseTake(p)
  PROVE  /\ Ahead /\ pc[p] = "lease" /\ took[p] = NoLease
         /\ UNCHANGED <<usage, charged>>
         /\ \A q \in Proc \ {p} : delta'[q] = delta[q] /\ took'[q] = took[q]
         /\ leases' \subseteq leases
         /\ \/ took' = took
            \/ took'[p] \in leases /\ took'[p] \notin leases' /\ pc'[p] = "incr"
<1>1. pc[p] = "lease" /\ took[p] = NoLease
  BY DEF LeaseTake, LeaseOnce, BeforeTake
<1>2. Ahead
  BY DEF LeaseTake, Goto, Return, InCritical, Ahead, BeforeTake, AfterIncr, TypeInv, TypeOK
<1>3. /\ UNCHANGED <<usage, charged>>
      /\ \A q \in Proc \ {p} : delta'[q] = delta[q] /\ took'[q] = took[q]
      /\ leases' \subseteq leases
  BY DEF LeaseTake, history, TypeInv, TypeOK
<1>4. \/ took' = took
      \/ took'[p] \in leases /\ took'[p] \notin leases' /\ pc'[p] = "incr"
  BY DEF LeaseTake, Goto, TypeInv, TypeOK
<1>. QED BY <1>1, <1>2, <1>3, <1>4

LEMMA MetricEffect ==
  ASSUME TypeInv, NEW p \in Proc, Metric(p)
  PROVE  /\ Ahead /\ pc[p] = "metric"
         /\ UNCHANGED <<took, leases, usage, charged>>
         /\ \A q \in Proc \ {p} : delta'[q] = delta[q]
BY DEF Metric, Goto, Ahead, BeforeTake, AfterIncr, redisVars, history, TypeInv, TypeOK

LEMMA IncrEffect ==
  ASSUME TypeInv, NEW p \in Proc, UsageIncr(p)
  PROVE  /\ Ahead /\ pc[p] = "incr" /\ pc'[p] \in AfterIncr
         /\ UNCHANGED <<delta, took, leases>>
         /\ \/ UNCHANGED <<usage, charged>>
            \/ /\ usage' = [usage EXCEPT ![idx[p]] = @ + delta[p]]
               /\ charged' = charged \cup {p}
<1>. USE DEF UsageIncr, Goto, Return, InCritical, Charge, TypeInv, TypeOK
<1>1. pc[p] = "incr" /\ pc'[p] \in AfterIncr /\ \A q \in Proc \ {p} : pc'[q] = pc[q]
  BY DEF AfterIncr
<1>2. Ahead
  BY <1>1 DEF Ahead, BeforeTake, AfterIncr
<1>3. /\ UNCHANGED <<delta, took, leases>>
      /\ \/ UNCHANGED <<usage, charged>>
         \/ /\ usage' = [usage EXCEPT ![idx[p]] = @ + delta[p]]
            /\ charged' = charged \cup {p}
  OBVIOUS
<1>. QED BY <1>1, <1>2, <1>3

\* No two requests hold one lease, and none that Redis has.
LEMMA StepLeaseOnce ==
  ASSUME TypeInv, LeaseOnce, [Next]_vars
  PROVE  LeaseOnce'
<1>1. ASSUME Ahead, took' = took, leases' \subseteq leases PROVE LeaseOnce'
  BY <1>1 DEF LeaseOnce, Ahead
<1>2. ASSUME NEW p \in Proc, LeaseTake(p), took' # took PROVE LeaseOnce'
  <2>1. /\ Ahead /\ took[p] = NoLease
        /\ \A q \in Proc \ {p} : took'[q] = took[q]
        /\ leases' \subseteq leases
        /\ took'[p] \in leases /\ took'[p] \notin leases' /\ pc'[p] = "incr"
    BY <1>2, TakeEffect
  <2>2. \A q \in Proc : pc'[q] \in BeforeTake => took'[q] = NoLease
    BY <2>1 DEF LeaseOnce, Ahead, BeforeTake
  <2>3. \A q \in Proc : took'[q] # NoLease => took'[q] \notin leases'
    BY <2>1 DEF LeaseOnce
  <2>4. \A q \in Proc \ {p} : took'[q] # took'[p]
    <3>1. NoLease \notin leases
      BY KeyStateAssumption DEF TypeInv, TypeOK
    <3>. QED BY <2>1, <3>1 DEF LeaseOnce
  <2>5. \A q, r \in Proc : took'[q] = took'[r] /\ took'[q] # NoLease => q = r
    BY <2>1, <2>4 DEF LeaseOnce
  <2>. QED BY <2>2, <2>3, <2>5 DEF LeaseOnce
<1>3. ASSUME NEW p \in Proc, Metric(p) \/ LeaseTake(p) \/ UsageIncr(p) PROVE LeaseOnce'
  BY <1>1, <1>2, <1>3, MetricEffect, TakeEffect, IncrEffect
<1>4. ASSUME NEW l \in Lease, LeaseExpire(l) PROVE LeaseOnce'
  <2>1. Ahead /\ took' = took /\ leases' \subseteq leases
    BY <1>4 DEF LeaseExpire, reqVars, Ahead
  <2>. QED BY <1>1, <2>1
<1>5. ASSUME Accounts' = Accounts, Ahead PROVE LeaseOnce'
  BY <1>1, <1>5 DEF Accounts
<1>. QED BY <1>3, <1>4, <1>5, AccountSteps

\* One report more is counted, or none.
LEMMA StepChargedOnce ==
  ASSUME TypeInv, LeaseOnce, ChargedOnce, [Next]_vars
  PROVE  ChargedOnce'
<1>1. ASSUME Ahead, charged' = charged PROVE ChargedOnce'
  BY <1>1 DEF ChargedOnce, Ahead, TypeInv, TypeOK
<1>2. ASSUME NEW p \in Proc, UsageIncr(p) PROVE ChargedOnce'
  <2>1. charged' = charged \/ charged' = charged \cup {p}
    BY <1>2, IncrEffect
  <2>2. IsFiniteSet(charged')
    BY <2>1, FS_AddElement DEF ChargedOnce
  <2>3. Ahead /\ pc'[p] \in AfterIncr
    BY <1>2, IncrEffect
  <2>. QED BY <2>1, <2>2, <2>3 DEF ChargedOnce, Ahead, TypeInv, TypeOK
<1>3. ASSUME NEW p \in Proc, Metric(p) \/ LeaseTake(p) PROVE ChargedOnce'
  BY <1>1, <1>3, MetricEffect, TakeEffect
<1>4. ASSUME NEW l \in Lease, LeaseExpire(l) PROVE ChargedOnce'
  <2>1. Ahead /\ charged' = charged
    BY <1>4 DEF LeaseExpire, reqVars, history, Ahead
  <2>. QED BY <1>1, <2>1
<1>5. ASSUME Accounts' = Accounts, Ahead PROVE ChargedOnce'
  BY <1>1, <1>5 DEF Accounts
<1>. QED BY <1>2, <1>3, <1>4, <1>5, AccountSteps

\* What the counted reports spent, and the estimates of the leases they took.
Spending == [p \in charged |-> Spent(p)]
Taken    == {took[p] : p \in charged} \ {NoLease}
Debits   == [l \in Taken |-> Est[l]]

\* The families UsageBalance sums are finite, and of integers.
LEMMA Families ==
  ASSUME TypeInv, ChargedOnce
  PROVE  /\ IsFiniteSet(Idx) /\ usage \in [Idx -> Int] /\ PreDebit \in [Idx -> Int]
         /\ IsFiniteSet(charged) /\ Spending \in [charged -> Int]
         /\ IsFiniteSet(Taken) /\ Debits \in [Taken -> Int]
         /\ \A l \in Lease : Est[l] \in Int
         /\ \A p \in Proc : Spent(p) \in Int
<1>1. IsFiniteSet(Idx)
  BY RowAssumption, FS_Interval DEF Idx
<1>2. \A l \in Lease : Est[l] \in Int
  BY KeyStateAssumption
<1>3. \A p \in Proc : Spent(p) \in Int
  BY <1>2 DEF Spent, EstOf, TypeInv, TypeOK
<1>4. Spending \in [charged -> Int]
  BY <1>3 DEF Spending, TypeInv, TypeOK
<1>5. IsFiniteSet({took[p] : p \in charged})
  <2>. DEFINE T == {took[p] : p \in charged}
              f == [p \in charged |-> took[p]]
  <2>1. f \in Surjection(charged, T)
    BY DEF Surjection
  <2>2. IsFiniteSet(charged)
    BY DEF ChargedOnce
  <2>. HIDE DEF T, f
  <2>3. IsFiniteSet(T)
    BY <2>1, <2>2, FS_Surjection
  <2>. QED BY <2>3 DEF T
<1>6. IsFiniteSet(Taken)
  BY <1>5, FS_Subset DEF Taken
<1>7. Taken \subseteq Lease
  BY DEF Taken, TypeInv, TypeOK
<1>8. Debits \in [Taken -> Int]
  BY <1>2, <1>7 DEF Debits
<1>9. usage \in [Idx -> Int] /\ PreDebit \in [Idx -> Int] /\ IsFiniteSet(charged)
  BY KeyStateAssumption DEF ChargedOnce, TypeInv, TypeOK
<1>. QED BY <1>1, <1>2, <1>3, <1>4, <1>6, <1>8, <1>9

\* The balance of the three sums; UsageBalance spelled with the names above.
Balance ==
  SumFunction(usage) = SumFunction(PreDebit) + SumFunction(Spending) - SumFunction(Debits)

LEMMA BalanceIs == UsageBalance <=> Balance
BY DEF UsageBalance, Balance, Spending, Debits, Taken

\* A step that counts no report leaves what was counted alone.
LEMMA KeepsBalance ==
  ASSUME ChargedOnce, Balance, usage' = usage, charged' = charged,
         charged \subseteq Proc,
         \A q \in charged : delta'[q] = delta[q] /\ took'[q] = took[q]
  PROVE  Balance'
<1>1. Spending' = Spending
  BY DEF Spending, Spent, EstOf
<1>2. Taken' = Taken
  BY DEF Taken
<1>3. Debits' = Debits
  BY <1>2 DEF Debits
<1>. QED BY <1>1, <1>3 DEF Balance

\* A correction moves the counters by what the report spent, less the estimate of
\* the lease it took, which no other report has taken (UsageIncr).
LEMMA IncrBalance ==
  ASSUME TypeInv, LeaseOnce, ChargedOnce, ChargedOnce', Balance, TypeInv',
         NEW p \in Proc, pc[p] = "incr", UNCHANGED <<delta, took>>,
         usage' = [usage EXCEPT ![idx[p]] = @ + delta[p]],
         charged' = charged \cup {p}
  PROVE  Balance'
<1>1. p \notin charged
  BY DEF ChargedOnce, AfterIncr
<1>2. SumFunction(usage') = SumFunction(usage) + delta[p]
  <2>1. idx[p] \in Idx /\ delta[p] \in Int
    BY DEF TypeInv, TypeOK
  <2>2. IsFiniteSet(Idx) /\ usage \in [Idx -> Int]
    BY Families
  <2>. DEFINE v == usage'
              i == idx[p]
              d == delta[p]
  <2>3. v \in [Idx -> Int] /\ v[i] = usage[i] + d /\ \A k \in Idx \ {i} : v[k] = usage[k]
    BY <2>1, <2>2
  <2>. HIDE DEF v, i, d
  <2>4. i \in Idx /\ d \in Int
    BY <2>1 DEF i, d
  <2>5. SumFunction(v) = SumFunction(usage) + d
    BY <2>2, <2>3, <2>4, SumAdd
  <2>. QED BY <2>5 DEF v, d
<1>3. SumFunction(Spending') = Spent(p) + SumFunction(Spending)
  <2>. DEFINE v == Spending
              w == Spending'
  <2>1. w \in [charged \cup {p} -> Int] /\ v \in [charged -> Int] /\ IsFiniteSet(charged)
    BY Families DEF Spending, Spent
  <2>2. w[p] = Spent(p) /\ \A q \in charged : w[q] = v[q]
    BY DEF Spending, Spent
  <2>. HIDE DEF v, w
  <2>3. \A u \in [charged \cup {p} -> Int] :
          (\A q \in charged : u[q] = v[q]) => SumFunction(u) = u[p] + SumFunction(v)
    BY <1>1, <2>1, SumNew
  <2>4. SumFunction(w) = w[p] + SumFunction(v)
    BY <2>1, <2>2, <2>3
  <2>. QED BY <2>2, <2>4 DEF v, w
<1>4. SumFunction(Debits') = EstOf(took[p]) + SumFunction(Debits)
  <2>1. CASE took[p] = NoLease
    <3>1. Taken' = Taken
      BY <2>1 DEF Taken
    <3>2. Debits' = Debits
      BY <3>1 DEF Debits
    <3>3. SumFunction(Debits) \in Int
      BY Families, SumInt
    <3>. QED BY <2>1, <3>2, <3>3 DEF EstOf
  <2>2. CASE took[p] # NoLease
    <3>. DEFINE l == took[p]
    <3>1. l \notin Taken
      BY <1>1, <2>2 DEF Taken, LeaseOnce, TypeInv, TypeOK
    <3>2. Taken' = Taken \cup {l}
      BY <2>2 DEF Taken
    <3>. DEFINE v == Debits
                w == Debits'
    <3>3. l \in Lease /\ \A k \in Lease : Est[k] \in Int
      BY <2>2, Families DEF TypeInv, TypeOK
    <3>4. v \in [Taken -> Int] /\ IsFiniteSet(Taken)
      BY Families
    <3>5. \A k \in Taken \cup {l} : Est[k] \in Int
      BY <3>3, <3>4 DEF Debits
    <3>6. w \in [Taken \cup {l} -> Int]
      BY <3>2, <3>5 DEF Debits
    <3>7. w[l] = Est[l] /\ \A k \in Taken : w[k] = v[k]
      BY <3>2 DEF Debits
    <3>. HIDE DEF l, v, w, Taken
    <3>8. SumFunction(w) = w[l] + SumFunction(v)
      BY <3>1, <3>4, <3>6, <3>7, SumNew
    <3>9. EstOf(l) = Est[l]
      BY <2>2 DEF EstOf, l
    <3>. QED BY <3>7, <3>8, <3>9 DEF l, v, w
  <2>. QED BY <2>1, <2>2
<1>5. /\ SumFunction(usage) \in Int /\ SumFunction(PreDebit) \in Int
      /\ SumFunction(Spending) \in Int /\ SumFunction(Debits) \in Int
  <2>. HIDE DEF Spending, Debits, Taken
  <2>. QED BY Families, SumInt
<1>6. delta[p] \in Int /\ EstOf(took[p]) \in Int /\ Spent(p) = delta[p] + EstOf(took[p])
  BY Families DEF Spent, EstOf, TypeInv, TypeOK
<1>7. Balance' <=> SumFunction(usage') =
        SumFunction(PreDebit) + SumFunction(Spending') - SumFunction(Debits')
  BY DEF Balance
<1>. QED BY <1>2, <1>3, <1>4, <1>5, <1>6, <1>7 DEF Balance

\* Every step keeps the balance.
LEMMA StepBalance ==
  ASSUME TypeInv, LeaseOnce, ChargedOnce, Balance, [Next]_vars
  PROVE  Balance'
<1>1. TypeInv' /\ ChargedOnce'
  BY StepType, StepChargedOnce
<1>2. charged \subseteq Proc
  BY DEF TypeInv, TypeOK
<1>3. \A p \in Proc : pc[p] \in {"metric", "lease"} => p \notin charged
  BY DEF ChargedOnce, AfterIncr
<1>4. ASSUME NEW p \in Proc, UsageIncr(p) PROVE Balance'
  <2>1. /\ pc[p] = "incr" /\ UNCHANGED <<delta, took>>
        /\ \/ UNCHANGED <<usage, charged>>
           \/ /\ usage' = [usage EXCEPT ![idx[p]] = @ + delta[p]]
              /\ charged' = charged \cup {p}
    BY <1>4, IncrEffect
  <2>2. CASE UNCHANGED <<usage, charged>>
    BY <1>2, <2>1, <2>2, KeepsBalance
  <2>. QED BY <1>1, <2>1, <2>2, IncrBalance
<1>5. ASSUME NEW p \in Proc, Metric(p) \/ LeaseTake(p) PROVE Balance'
  <2>1. /\ pc[p] \in {"metric", "lease"} /\ UNCHANGED <<usage, charged>>
        /\ \A q \in Proc \ {p} : delta'[q] = delta[q] /\ took'[q] = took[q]
    BY <1>5, MetricEffect, TakeEffect
  <2>2. \A q \in charged : delta'[q] = delta[q] /\ took'[q] = took[q]
    BY <1>2, <1>3, <2>1
  <2>. QED BY <1>2, <2>1, <2>2, KeepsBalance
<1>6. ASSUME NEW l \in Lease, LeaseExpire(l) PROVE Balance'
  <2>1. UNCHANGED <<usage, charged, delta, took>>
    BY <1>6 DEF LeaseExpire, reqVars, history
  <2>. QED BY <1>2, <2>1, KeepsBalance
<1>7. ASSUME Accounts' = Accounts PROVE Balance'
  <2>1. UNCHANGED <<usage, charged, delta, took>>
    BY <1>7 DEF Accounts
  <2>. QED BY <1>2, <2>1, KeepsBalance
<1>. QED BY <1>4, <1>5, <1>6, <1>7, AccountSteps

\* At the start nothing is counted.
LEMMA InitBalance == ASSUME Init PROVE LeaseOnce /\ ChargedOnce /\ Balance
<1>1. LeaseOnce
  BY DEF Init, LeaseOnce
<1>2. ChargedOnce
  BY FS_EmptySet DEF Init, ChargedOnce
<1>3. Spending \in [{} -> Int] /\ Debits \in [{} -> Int]
  BY DEF Init, Spending, Debits, Taken
<1>4. SumFunction(Spending) = 0 /\ SumFunction(Debits) = 0
  <2>. HIDE DEF Spending, Debits
  <2>. QED BY <1>3, SumOfNone
<1>5. SumFunction(PreDebit) \in Int
  BY <1>2, InitType, Families, SumInt
<1>6. usage = PreDebit
  BY DEF Init
<1>. QED BY <1>1, <1>2, <1>4, <1>5, <1>6 DEF Balance

\* The counters hold what select debited and what the counted reports spent, less
\* each lease's estimate once, whatever fails, is lost or lapses, whoever hangs up
\* or dies, and however reports share leases.
THEOREM UsageAccounted == Spec => []UsageBalance
<1>. DEFINE Inv == TypeInv /\ LeaseOnce /\ ChargedOnce /\ Balance
<1>1. Init => Inv
  BY InitType, InitBalance
<1>2. Inv /\ [Next]_vars => Inv'
  BY StepType, StepLeaseOnce, StepChargedOnce, StepBalance
<1>3. Inv => UsageBalance
  BY BalanceIs
<1>. QED BY <1>1, <1>2, <1>3, PTL DEF Spec
=============================================================================
