------------------------- MODULE WriteThroughProofs -------------------------
(***************************************************************************)
(* Theorems about WriteThrough, for every number of calls, every row and   *)
(* every other_info, on every database.                                    *)
(***************************************************************************)
EXTENDS WriteThrough, TLAPS

-----------------------------------------------------------------------------
(* Rows.                                                                   *)

\* The write-through of a key status maps rows to rows, and so does its first
\* statement (ApplyKeyStatus).
LEMMA WriteType ==
  ASSUME NEW c \in Channel, NEW i \in Idx, NEW s \in Status
  PROVE  ApplyKeyStatus(c, i, s) \in Channel /\ ChannelPart(c, i, s) \in Channel
<1>1. SetKey(c, i, s) \in Channel
  BY DEF SetKey, Channel
<1>2. ApplyMulti(c, i, s) \in Channel
  BY <1>1 DEF ApplyMulti, Channel, Status, Enabled, AutoDisabled, ManuallyDisabled
<1>3. ApplySingle(c, s) \in Channel
  BY DEF ApplySingle, Channel
<1>4. ApplyKeyStatus(c, i, s) \in Channel
  BY <1>2, <1>3 DEF ApplyKeyStatus
<1>. QED BY <1>4 DEF ChannelPart, Channel

\* The two statements together are the whole write: without the second one the
\* abilities are as they were, with it they are on unless no key is left.
LEMMA Statements ==
  ASSUME NEW c \in Channel, NEW i \in Idx, NEW s \in Status, CanApply(c, i)
  PROVE  LET n == ApplyKeyStatus(c, i, s)
         IN  /\ ~ AbilitiesDue(c, i, s) => ChannelPart(c, i, s) = n
             /\ AbilitiesDue(c, i, s) =>
                  [ChannelPart(c, i, s) EXCEPT !.abil = ~ AllDead(n, s)] = n
<1>. DEFINE n == ApplyKeyStatus(c, i, s)
<1>1. n \in Channel
  BY WriteType
<1>2. CASE ~ c.multi
  <2>1. n = [c EXCEPT !.status = s, !.abil = s = Enabled]
    BY <1>2 DEF ApplyKeyStatus, ApplySingle
  <2>2. n.multi = c.multi /\ n.abil = (s = Enabled)
    BY <2>1 DEF Channel
  <2>3. AbilitiesDue(c, i, s) /\ AllDead(n, s) = (s # Enabled)
    BY <1>2, <2>2 DEF AbilitiesDue, AllDead, Channel
  <2>. QED BY <1>1, <2>2, <2>3 DEF ChannelPart, Channel
<1>3. CASE c.multi
  <2>. DEFINE k == SetKey(c, i, s)
  <2>1. /\ k \in Channel /\ k.multi /\ k.abil = c.abil
        /\ KeyIndexes(k) = KeyIndexes(c)
    BY <1>3 DEF SetKey, Channel, KeyIndexes
  <2>2. n = ApplyMulti(c, i, s)
    BY <1>3 DEF ApplyKeyStatus
  <2>3. CASE EnabledKeyIndexes(k) = {}
    <3>1. n = [k EXCEPT !.status = AutoDisabled, !.abil = FALSE]
      BY <2>2, <2>3 DEF ApplyMulti
    <3>2. n.multi /\ n.abil = FALSE /\ EnabledKeyIndexes(n) = {}
      BY <2>1, <2>3, <3>1 DEF Channel, EnabledKeyIndexes, KeyIndexes
    <3>3. AllDead(n, s) /\ AbilitiesDue(c, i, s)
      BY <3>2 DEF AllDead, AbilitiesDue
    <3>. QED BY <1>1, <3>2, <3>3 DEF ChannelPart, Channel
  <2>4. CASE EnabledKeyIndexes(k) # {} /\ s = Enabled
    <3>1. n = [k EXCEPT !.status = Enabled, !.abil = TRUE]
      BY <2>2, <2>4 DEF ApplyMulti
    <3>2. n.multi /\ n.abil = TRUE /\ EnabledKeyIndexes(n) # {}
      BY <2>1, <2>4, <3>1 DEF Channel, EnabledKeyIndexes, KeyIndexes
    <3>3. ~ AllDead(n, s) /\ AbilitiesDue(c, i, s)
      BY <2>4, <3>2 DEF AllDead, AbilitiesDue
    <3>. QED BY <1>1, <3>2, <3>3 DEF ChannelPart, Channel
  <2>5. CASE EnabledKeyIndexes(k) # {} /\ s # Enabled
    <3>1. n = k
      BY <2>2, <2>5 DEF ApplyMulti
    <3>2. ~ AllDead(n, s)
      BY <2>1, <2>5, <3>1 DEF AllDead
    <3>3. ~ AbilitiesDue(c, i, s)
      BY <1>3, <2>5, <3>2 DEF AbilitiesDue
    <3>. QED BY <2>1, <3>1, <3>3 DEF ChannelPart, Channel
  <2>. QED BY <2>3, <2>4, <2>5
<1>. QED BY <1>2, <1>3

\* What is left in other_info is of its type (mergeOtherInfo).
LEMMA InfoType ==
  ASSUME NEW c, NEW o \in Info, NEW i, NEW s
  PROVE  InfoAfter(c, o, i, s) \in Info
BY DEF InfoAfter, MergeOtherInfo, Fields, Info

\* new-api leaves rows and other_infos behind, too.
LEMMA NewApiType ==
  ASSUME NEW c \in Channel, NEW r \in Edits(c), NEW o \in Info, NEW f \in SUBSET Field
  PROVE  r \in Channel \cup {NoChannel} /\ Fields(o) \cup f \in Info
<1>. SUFFICES ASSUME r \in Edits(c), o \in Info, f \in SUBSET Field
              PROVE  r \in Channel \cup {NoChannel} /\ Fields(o) \cup f \in Info
  OBVIOUS
<1>1. \A m \in [Idx -> Status] : [c EXCEPT !.ks = m] \in Channel
  BY DEF Channel
<1>2. \A l \in KeyLists : [c EXCEPT !.keys = l] \in Channel
  BY DEF Channel
<1>3. \A s \in Status : [c EXCEPT !.status = s, !.abil = s = Enabled] \in Channel
  BY DEF Channel
<1>4. Fields(o) \cup f \in Info
  <2>1. o \ {NoObject} \subseteq Field \cup {StatusField}
    <3>1. o \in SUBSET (Field \cup {StatusField}) \/ o = {NoObject}
      BY DEF Info
    <3>2. CASE o \in SUBSET (Field \cup {StatusField})
      BY <3>2, Zenon
    <3>3. CASE o = {NoObject}
      BY <3>3
    <3>. QED BY <3>1, <3>2, <3>3
  <2>2. Fields(o) \cup f \subseteq Field \cup {StatusField}
    BY <2>1 DEF Fields
  <2>. QED BY <2>2 DEF Info
<1>5. r \in Channel \cup {NoChannel}
  <2>. DEFINE A == {[c EXCEPT !.ks = m] : m \in [Idx -> Status]}
              B == {[c EXCEPT !.keys = l] : l \in KeyLists}
              D == {[c EXCEPT !.status = s, !.abil = s = Enabled] : s \in Status}
  <2>1. r \in A \cup B \cup D \cup {NoChannel}
    BY Zenon DEF Edits
  <2>2. A \subseteq Channel
    BY <1>1, Zenon
  <2>3. B \subseteq Channel
    BY <1>2, Zenon
  <2>4. D \subseteq Channel
    BY <1>3, Zenon
  <2>. HIDE DEF A, B, D
  <2>. QED BY <2>1, <2>2, <2>3, <2>4
<1>. QED BY <1>4, <1>5

-----------------------------------------------------------------------------
(* The invariant.                                                          *)

HasRead == {"channel", "abilities", "commit", "committed", "ok"}
Writing == {"abilities", "commit"}

\* A call that is past its read has a channel it can be applied to.
ReadOK ==
  \A t \in Tx : pc[t] \in HasRead => snap[t] \in Channel /\ CanApply(snap[t], call[t].idx)

\* Who writes owns the lock, and so does who has read, where reads lock.
OwnerOK ==
  \A t \in Tx : pc[t] \in Writing \/ (RowLock /\ pc[t] = "channel") => owner = t

\* What the owner of a row lock, or a writer, or a reader of SQLite whose
\* snapshot is not stale has read is what is committed.
CurrentOK ==
  \A t \in Tx :
    pc[t] \in Writing \/ (pc[t] = "channel" /\ (RowLock \/ ~ stale[t])) =>
      snap[t] = row /\ sinfo[t] = info

\* The uncommitted row is a half or the whole of the write.
WorkOK ==
  \A t \in Tx :
    LET i == call[t].idx
        s == call[t].to
    IN  /\ pc[t] = "abilities" =>
             AbilitiesDue(snap[t], i, s) /\ work[t] = ChannelPart(snap[t], i, s)
        /\ pc[t] = "commit" => work[t] = ApplyKeyStatus(snap[t], i, s)

WriteInv == WriteTypeOK /\ ReadOK /\ OwnerOK /\ CurrentOK /\ WorkOK

\* A call's parameters.
LEMMA CallType ==
  ASSUME WriteTypeOK, NEW t \in Tx
  PROVE  call[t].idx \in Idx /\ call[t].to \in Status
BY WriteAssumption DEF WriteTypeOK, Call

\* The row of the one who commits is the write applied to the row committed
\* last, and it is a row.
LEMMA CommitIsApply ==
  ASSUME WriteInv, NEW t \in Tx, pc[t] = "commit"
  PROVE  /\ snap[t] = row /\ sinfo[t] = info /\ owner = t
         /\ row \in Channel /\ CanApply(row, call[t].idx)
         /\ work[t] = ApplyKeyStatus(row, call[t].idx, call[t].to)
         /\ work[t] \in Channel
<1>1. snap[t] = row /\ sinfo[t] = info /\ owner = t
  BY DEF WriteInv, CurrentOK, OwnerOK, Writing
<1>2. row \in Channel /\ CanApply(row, call[t].idx)
  BY <1>1 DEF WriteInv, ReadOK, HasRead
<1>3. work[t] = ApplyKeyStatus(row, call[t].idx, call[t].to)
  BY <1>1 DEF WriteInv, WorkOK
<1>. QED BY <1>1, <1>2, <1>3, CallType, WriteType DEF WriteInv

\* Nobody has read or written anything when the calls start.
LEMMA InitWrite == Init => WriteInv
<1>. SUFFICES ASSUME Init PROVE WriteInv
  OBVIOUS
<1>1. WriteTypeOK
  BY WriteAssumption DEF Init, WriteTypeOK, PC, Info
<1>2. \A t \in Tx : pc[t] = "read"
  BY DEF Init
<1>. QED BY <1>1, <1>2 DEF WriteInv, ReadOK, OwnerOK, CurrentOK, WorkOK, HasRead, Writing

\* Every step keeps the types.
LEMMA StepWriteType == ASSUME WriteInv, [Next]_vars PROVE WriteTypeOK'
<1>. USE DEF WriteTypeOK, PC, Ended
<1>. USE WriteInv DEF WriteInv
<1>1. ASSUME NEW t \in Tx, Read(t) PROVE WriteTypeOK'
  BY <1>1 DEF Read, Goto
<1>2. ASSUME NEW t \in Tx, UpdateChannel(t) PROVE WriteTypeOK'
  <2>1. snap[t] \in Channel
    BY <1>2 DEF UpdateChannel, ReadOK, HasRead
  <2>2. ChannelPart(snap[t], call[t].idx, call[t].to) \in Channel
    BY <2>1, CallType, WriteType
  <2>. QED BY <1>2, <2>2 DEF UpdateChannel, Goto
<1>3. ASSUME NEW t \in Tx, UpdateAbilities(t) PROVE WriteTypeOK'
  <2>1. /\ snap[t] \in Channel
        /\ work[t] = ChannelPart(snap[t], call[t].idx, call[t].to)
    BY <1>3 DEF UpdateAbilities, ReadOK, HasRead, WorkOK
  <2>2. work[t] \in Channel
    BY <2>1, CallType, WriteType
  <2>3. Result(t).allDead \in BOOLEAN
    BY DEF Result, AnswerFor, AllDead
  <2>4. [work[t] EXCEPT !.abil = ~ Result(t).allDead] \in Channel
    BY <2>2, <2>3 DEF Channel
  <2>5. work' \in [Tx -> Channel \cup {NoChannel}]
    BY <1>3, <2>4 DEF UpdateAbilities
  <2>. QED BY <1>3, <2>5 DEF UpdateAbilities, Goto
<1>4. ASSUME NEW t \in Tx, Commit(t) PROVE WriteTypeOK'
  <2>1. row' \in Channel \cup {NoChannel} /\ info' \in Info
    BY <1>4, CommitIsApply, InfoType DEF Commit
  <2>2. owner' \in Tx \cup {Free} /\ stale' \in [Tx -> BOOLEAN]
    BY <1>4 DEF Commit
  <2>. QED BY <1>4, <2>1, <2>2 DEF Commit, Goto
<1>5. ASSUME NEW t \in Tx, Return(t) PROVE WriteTypeOK'
  BY <1>5 DEF Return, Forget, Goto, Info
<1>6. ASSUME NEW t \in Tx, Rollback(t) PROVE WriteTypeOK'
  BY <1>6 DEF Rollback, Forget, Goto, Info
<1>7. ASSUME NEW t \in Tx, Crash(t) PROVE WriteTypeOK'
  BY <1>7 DEF Crash, Forget, Goto, Info
<1>8. CASE Abort
  BY <1>8 DEF Abort, txVars
<1>9. CASE NewApi
  <2>1. row \in Channel
    BY <1>9 DEF NewApi
  <2>2. PICK f \in SUBSET Field : info' = IF f = {} THEN info ELSE Fields(info) \cup f
    BY <1>9 DEF NewApi
  <2>3. row' \in Edits(row) /\ info \in Info
    BY <1>9 DEF NewApi
  <2>4. row' \in Channel \cup {NoChannel} /\ Fields(info) \cup f \in Info
    BY <2>1, <2>3, NewApiType
  <2>5. info' \in Info
    BY <2>2, <2>3, <2>4
  <2>6. stale' \in [Tx -> BOOLEAN] /\ edits' \in 0 .. MaxEdits
    BY <1>9, WriteAssumption DEF NewApi
  <2>. QED BY <1>9, <2>4, <2>5, <2>6 DEF NewApi
<1>10. CASE UNCHANGED vars
  BY <1>10 DEF vars, txVars
<1>. QED
  BY <1>1, <1>2, <1>3, <1>4, <1>5, <1>6, <1>7, <1>8, <1>9, <1>10 DEF Next, Step, Exhausted

\* Every step keeps a reader's channel, and who reads gets one.
LEMMA StepRead == ASSUME WriteInv, [Next]_vars PROVE ReadOK'
<1>. USE DEF WriteInv, WriteTypeOK, ReadOK, HasRead, Ended
<1>1. ASSUME NEW t \in Tx, Read(t) PROVE ReadOK'
  BY <1>1 DEF Read, Goto, CanApply
<1>2. ASSUME NEW t \in Tx, UpdateChannel(t) PROVE ReadOK'
  BY <1>2 DEF UpdateChannel, Goto
<1>3. ASSUME NEW t \in Tx, UpdateAbilities(t) PROVE ReadOK'
  BY <1>3 DEF UpdateAbilities, Goto
<1>4. ASSUME NEW t \in Tx, Commit(t) PROVE ReadOK'
  BY <1>4 DEF Commit, Goto
<1>5. ASSUME NEW t \in Tx, Return(t) PROVE ReadOK'
  BY <1>5 DEF Return, Forget, Goto
<1>6. ASSUME NEW t \in Tx, Rollback(t) PROVE ReadOK'
  BY <1>6 DEF Rollback, Forget, Goto
<1>7. ASSUME NEW t \in Tx, Crash(t) PROVE ReadOK'
  BY <1>7 DEF Crash, Forget, Goto
<1>8. CASE Abort
  BY <1>8 DEF Abort, txVars
<1>9. CASE NewApi
  BY <1>9 DEF NewApi
<1>10. CASE UNCHANGED vars
  BY <1>10 DEF vars, txVars
<1>. QED
  BY <1>1, <1>2, <1>3, <1>4, <1>5, <1>6, <1>7, <1>8, <1>9, <1>10 DEF Next, Step, Exhausted

\* The lock is taken free and given back by its owner, or by the database for
\* an owner that is dead.
LEMMA StepOwner == ASSUME WriteInv, [Next]_vars PROVE OwnerOK'
<1>. USE WriteAssumption DEF WriteInv, WriteTypeOK, OwnerOK, Writing, RowLock, Ended
<1>1. ASSUME NEW t \in Tx, Read(t) PROVE OwnerOK'
  BY <1>1 DEF Read, Goto
<1>2. ASSUME NEW t \in Tx, UpdateChannel(t) PROVE OwnerOK'
  BY <1>2 DEF UpdateChannel, Goto
<1>3. ASSUME NEW t \in Tx, UpdateAbilities(t) PROVE OwnerOK'
  BY <1>3 DEF UpdateAbilities, Goto
<1>4. ASSUME NEW t \in Tx, Commit(t) PROVE OwnerOK'
  BY <1>4 DEF Commit, Goto
<1>5. ASSUME NEW t \in Tx, Return(t) PROVE OwnerOK'
  BY <1>5 DEF Return, Forget, Goto
<1>6. ASSUME NEW t \in Tx, Rollback(t) PROVE OwnerOK'
  BY <1>6 DEF Rollback, Forget, Goto
<1>7. ASSUME NEW t \in Tx, Crash(t) PROVE OwnerOK'
  BY <1>7 DEF Crash, Forget, Goto
<1>8. CASE Abort
  BY <1>8 DEF Abort, txVars
<1>9. CASE NewApi
  BY <1>9 DEF NewApi
<1>10. CASE UNCHANGED vars
  BY <1>10 DEF vars, txVars
<1>. QED
  BY <1>1, <1>2, <1>3, <1>4, <1>5, <1>6, <1>7, <1>8, <1>9, <1>10 DEF Next, Step, Exhausted

\* The row changes when its lock is free or in the hand of who commits: no
\* other writer is under way, and SQLite's readers become stale.
LEMMA StepCurrent == ASSUME WriteInv, [Next]_vars PROVE CurrentOK'
<1>. USE WriteAssumption DEF WriteInv, WriteTypeOK, OwnerOK, CurrentOK, Writing, RowLock, Ended
<1>1. ASSUME NEW t \in Tx, Read(t) PROVE CurrentOK'
  BY <1>1 DEF Read, Goto
<1>2. ASSUME NEW t \in Tx, UpdateChannel(t) PROVE CurrentOK'
  BY <1>2 DEF UpdateChannel, Goto
<1>3. ASSUME NEW t \in Tx, UpdateAbilities(t) PROVE CurrentOK'
  BY <1>3 DEF UpdateAbilities, Goto
<1>4. ASSUME NEW t \in Tx, Commit(t) PROVE CurrentOK'
  <2>1. /\ pc[t] = "commit" /\ owner = t /\ UNCHANGED <<dialect, snap, sinfo>>
        /\ pc'[t] \notin {"channel", "abilities", "commit"}
        /\ \A u \in Tx \ {t} : pc'[u] = pc[u]
    BY <1>4 DEF Commit, Goto
  <2>2. CASE UNCHANGED <<row, info, stale>>
    BY <2>1, <2>2
  <2>3. CASE stale' = [u \in Tx |-> stale[u] \/ pc[u] = "channel"]
    BY <2>1, <2>3
  <2>. QED BY <1>4, <2>2, <2>3 DEF Commit
<1>5. ASSUME NEW t \in Tx, Return(t) PROVE CurrentOK'
  BY <1>5 DEF Return, Forget, Goto
<1>6. ASSUME NEW t \in Tx, Rollback(t) PROVE CurrentOK'
  BY <1>6 DEF Rollback, Forget, Goto
<1>7. ASSUME NEW t \in Tx, Crash(t) PROVE CurrentOK'
  BY <1>7 DEF Crash, Forget, Goto
<1>8. CASE Abort
  BY <1>8 DEF Abort, txVars
<1>9. CASE NewApi
  BY <1>9 DEF NewApi
<1>10. CASE UNCHANGED vars
  BY <1>10 DEF vars, txVars
<1>. QED
  BY <1>1, <1>2, <1>3, <1>4, <1>5, <1>6, <1>7, <1>8, <1>9, <1>10 DEF Next, Step, Exhausted

\* The statements build the write of the call from what it has read.
LEMMA StepWork == ASSUME WriteInv, [Next]_vars PROVE WorkOK'
<1>. USE DEF WriteInv, WriteTypeOK, WorkOK, Ended
<1>1. ASSUME NEW t \in Tx, Read(t) PROVE WorkOK'
  BY <1>1 DEF Read, Goto
<1>2. ASSUME NEW t \in Tx, UpdateChannel(t) PROVE WorkOK'
  <2>1. /\ snap[t] \in Channel /\ CanApply(snap[t], call[t].idx)
        /\ call[t].idx \in Idx /\ call[t].to \in Status
    BY <1>2, CallType DEF UpdateChannel, ReadOK, HasRead
  <2>2. ~ AbilitiesDue(snap[t], call[t].idx, call[t].to) =>
          ChannelPart(snap[t], call[t].idx, call[t].to)
          = ApplyKeyStatus(snap[t], call[t].idx, call[t].to)
    BY <2>1, Statements
  <2>. QED BY <1>2, <2>2 DEF UpdateChannel, Goto
<1>3. ASSUME NEW t \in Tx, UpdateAbilities(t) PROVE WorkOK'
  <2>1. /\ snap[t] \in Channel /\ CanApply(snap[t], call[t].idx)
        /\ call[t].idx \in Idx /\ call[t].to \in Status
        /\ AbilitiesDue(snap[t], call[t].idx, call[t].to)
        /\ work[t] = ChannelPart(snap[t], call[t].idx, call[t].to)
    BY <1>3, CallType DEF UpdateAbilities, ReadOK, HasRead
  <2>2. [work[t] EXCEPT !.abil = ~ Result(t).allDead]
        = ApplyKeyStatus(snap[t], call[t].idx, call[t].to)
    BY <2>1, Statements DEF Result, AnswerFor
  <2>. QED BY <1>3, <2>2 DEF UpdateAbilities, Goto
<1>4. ASSUME NEW t \in Tx, Commit(t) PROVE WorkOK'
  BY <1>4 DEF Commit, Goto
<1>5. ASSUME NEW t \in Tx, Return(t) PROVE WorkOK'
  BY <1>5 DEF Return, Forget, Goto
<1>6. ASSUME NEW t \in Tx, Rollback(t) PROVE WorkOK'
  BY <1>6 DEF Rollback, Forget, Goto
<1>7. ASSUME NEW t \in Tx, Crash(t) PROVE WorkOK'
  BY <1>7 DEF Crash, Forget, Goto
<1>8. CASE Abort
  BY <1>8 DEF Abort, txVars
<1>9. CASE NewApi
  BY <1>9 DEF NewApi
<1>10. CASE UNCHANGED vars
  BY <1>10 DEF vars, txVars
<1>. QED
  BY <1>1, <1>2, <1>3, <1>4, <1>5, <1>6, <1>7, <1>8, <1>9, <1>10 DEF Next, Step, Exhausted

\* The invariant is inductive.
LEMMA StepWrite == WriteInv /\ [Next]_vars => WriteInv'
BY StepWriteType, StepRead, StepOwner, StepCurrent, StepWork DEF WriteInv

\* Every variable keeps its type.
THEOREM WriteTypeCorrect == Spec => []WriteTypeOK
<1>1. WriteInv => WriteTypeOK
  BY DEF WriteInv
<1>. QED BY InitWrite, StepWrite, <1>1, PTL DEF Spec

\* On every database, whatever fails and whoever else writes, a call commits
\* what it computed from the row committed last (FOR UPDATE; SQLite's lock).
THEOREM NoUpdateLost == Spec => []NoLostUpdate
<1>1. WriteInv => NoLostUpdate
  BY DEF WriteInv, CurrentOK, NoLostUpdate, Writing
<1>. QED BY InitWrite, StepWrite, <1>1, PTL DEF Spec

\* What a commit, or new-api, leaves of other_info holds the fields keypool does
\* not know: the commit's was merged from the one committed last.
LEMMA StepForeign ==
  ASSUME WriteInv, [Next]_vars
  PROVE  Fields(info) \cap Field \subseteq Fields(info')
<1>. USE StoreAssumption DEF Fields
<1>1. ASSUME NEW t \in Tx, Commit(t) PROVE Fields(info) \cap Field \subseteq Fields(info')
  <2>1. CASE info' = info
    BY <2>1
  <2>2. CASE info' = InfoAfter(snap[t], sinfo[t], call[t].idx, call[t].to) /\ pc[t] = "commit"
    <3>1. sinfo[t] = info
      BY <2>2, CommitIsApply
    <3>. QED BY <2>2, <3>1 DEF InfoAfter, MergeOtherInfo
  <2>. QED BY <1>1, <2>1, <2>2 DEF Commit
<1>2. CASE NewApi
  BY <1>2 DEF NewApi
<1>3. ASSUME \/ \E t \in Tx : \/ Read(t) \/ UpdateChannel(t) \/ UpdateAbilities(t)
                              \/ Return(t) \/ Rollback(t) \/ Crash(t)
             \/ Abort \/ UNCHANGED vars
      PROVE  info' = info
  BY <1>3 DEF Read, UpdateChannel, UpdateAbilities, Return, Rollback, Crash, Abort, vars
<1>. QED BY <1>1, <1>2, <1>3 DEF Next, Step, Exhausted

\* No field of other_info that keypool does not know is ever lost, whoever else
\* adds fields meanwhile (mergeOtherInfo in the transaction).
THEOREM ForeignFieldsSafe == Spec => ForeignFieldsKept
<1>1. WriteInv /\ [Next]_vars => [Fields(info) \cap Field \subseteq Fields(info')]_vars
  BY StepForeign
<1>. QED BY InitWrite, StepWrite, <1>1, PTL DEF Spec, ForeignFieldsKept

-----------------------------------------------------------------------------
(* Refinement.                                                             *)

\* ChannelStore means by its operators what WriteThrough means by them.
LEMMA SameOperators ==
  ASSUME NEW c, NEW i, NEW s, NEW o
  PROVE  /\ Store!CanApply(c, i) <=> CanApply(c, i)
         /\ Store!ApplyKeyStatus(c, i, s) = ApplyKeyStatus(c, i, s)
         /\ Store!InfoAfter(c, o, i, s) = InfoAfter(c, o, i, s)
         /\ Store!AnswerFor(c, s) = AnswerFor(c, s)
         /\ Store!Edits(c) = Edits(c)
         /\ Store!Fields(o) = Fields(o)
<1>1. Store!CanApply(c, i) <=> CanApply(c, i)
  BY DEF Store!CanApply, CanApply, Store!KeyIndexes, KeyIndexes
<1>2. Store!ApplyKeyStatus(c, i, s) = ApplyKeyStatus(c, i, s)
  BY DEF Store!ApplyKeyStatus, ApplyKeyStatus, Store!ApplyMulti, ApplyMulti,
     Store!ApplySingle, ApplySingle, Store!SetKey, SetKey,
     Store!EnabledKeyIndexes, EnabledKeyIndexes, Store!KeyIndexes, KeyIndexes,
     Store!Enabled, Enabled, Store!AutoDisabled, AutoDisabled
<1>3. \A n : Store!AllDead(n, s) = AllDead(n, s)
  BY DEF Store!AllDead, AllDead, Store!EnabledKeyIndexes, EnabledKeyIndexes,
     Store!KeyIndexes, KeyIndexes, Store!Enabled, Enabled
<1>4. Store!Fields(o) = Fields(o)
  BY DEF Store!Fields, Fields
<1>5. Store!InfoAfter(c, o, i, s) = InfoAfter(c, o, i, s)
  BY <1>2, <1>3, <1>4 DEF Store!InfoAfter, InfoAfter, Store!MergeOtherInfo, MergeOtherInfo,
     Store!StatusField, StatusField
<1>6. Store!AnswerFor(c, s) = AnswerFor(c, s)
  BY <1>3 DEF Store!AnswerFor, AnswerFor
<1>7. Store!Edits(c) = Edits(c)
  BY DEF Store!Edits, Edits, Store!Idx, Idx, Store!Status, Status, Store!Enabled, Enabled,
     Store!ManuallyDisabled, ManuallyDisabled, Store!AutoDisabled, AutoDisabled
<1>. QED BY <1>1, <1>2, <1>4, <1>5, <1>6, <1>7

\* No call has taken effect at the start.
LEMMA InitStore == Init => Store!Init
<1>. SUFFICES ASSUME Init PROVE Store!Init
  OBVIOUS
<1>1. /\ Store!Channel = Channel /\ Store!Info = Info /\ Store!Call = Call
  <2>1. Store!Idx = Idx /\ Store!Status = Status
    BY DEF Store!Idx, Idx, Store!Status, Status, Store!Enabled, Enabled,
       Store!ManuallyDisabled, ManuallyDisabled, Store!AutoDisabled, AutoDisabled
  <2>2. Store!Channel = Channel /\ Store!Call = Call
    BY <2>1, Zenon DEF Store!Channel, Channel, Store!Call, Call
  <2>3. Store!Info = Info
    BY DEF Store!Info, Info, Store!StatusField, StatusField
  <2>. QED BY <2>2, <2>3
<1>2. row \in Channel /\ info \in Info /\ call \in [Tx -> Call]
  BY WriteAssumption DEF Init
<1>3. \A t \in Tx : pc[t] = "read"
  BY DEF Init
<1>4. /\ [t \in Tx |-> PhaseOf(pc[t])] = [t \in Tx |-> "open"]
      /\ [t \in Tx |-> IF pc[t] \in {"committed", "ok"} THEN Result(t) ELSE NoAnswer]
         = [t \in Tx |-> NoAnswer]
  BY <1>3 DEF PhaseOf
<1>. QED BY <1>1, <1>2, <1>4 DEF Store!Init

\* Every step is one of ChannelStore's or changes nothing of it.
LEMMA StepStore == ASSUME WriteInv, [Next]_vars PROVE [Store!Next]_(Store!vars)
<1>. DEFINE phase  == [t \in Tx |-> PhaseOf(pc[t])]
            answer == [t \in Tx |-> IF pc[t] \in {"committed", "ok"} THEN Result(t)
                                    ELSE NoAnswer]
<1>. USE DEF WriteInv, WriteTypeOK, Ended
\* A step that moves one call between two open places.
<1>0. ASSUME NEW t \in Tx, UNCHANGED <<row, info, call>>,
             PhaseOf(pc[t]) = "open", PhaseOf(pc'[t]) = "open",
             pc[t] \notin {"committed", "ok"}, pc'[t] \notin {"committed", "ok"},
             \A u \in Tx \ {t} : pc'[u] = pc[u] /\ snap'[u] = snap[u]
      PROVE  UNCHANGED Store!vars
  <2>1. phase' = phase
    BY <1>0
  <2>2. answer' = answer
    BY <1>0 DEF Result
  <2>. QED BY <1>0, <2>1, <2>2 DEF Store!vars
\* A step that ends one call without an answer.
<1>00. ASSUME NEW t \in Tx, UNCHANGED <<row, info, call>>,
              \/ PhaseOf(pc[t]) = "open"
              \/ PhaseOf(pc[t]) = "applied" /\ Faults \cap {"lostcommit", "crash"} # {},
              pc' = [pc EXCEPT ![t] = "failed"] \/ pc' = [pc EXCEPT ![t] = "crashed"],
              \A u \in Tx \ {t} : snap'[u] = snap[u]
       PROVE  Store!Fail(t)
  <2>1. phase' = [phase EXCEPT ![t] = "failed"]
    BY <1>00 DEF PhaseOf
  <2>2. answer' = [answer EXCEPT ![t] = NoAnswer]
    BY <1>00 DEF Result
  <2>. QED BY <1>00, <2>1, <2>2 DEF Store!Fail
<1>1. ASSUME NEW t \in Tx, Read(t) PROVE UNCHANGED Store!vars
  BY <1>0, <1>1 DEF Read, Goto, PhaseOf
<1>2. ASSUME NEW t \in Tx, UpdateChannel(t) PROVE UNCHANGED Store!vars
  BY <1>0, <1>2 DEF UpdateChannel, Goto, PhaseOf
<1>3. ASSUME NEW t \in Tx, UpdateAbilities(t) PROVE UNCHANGED Store!vars
  BY <1>0, <1>3 DEF UpdateAbilities, Goto, PhaseOf
<1>4. ASSUME NEW t \in Tx, Commit(t) PROVE [Store!Next]_(Store!vars)
  <2>1. CASE pc' = [pc EXCEPT ![t] = "rollback"] /\ UNCHANGED <<row, info>>
    BY <1>0, <1>4, <2>1 DEF Commit, PhaseOf
  <2>2. CASE pc' = [pc EXCEPT ![t] = "committed"] /\ row' = work[t]
             /\ info' = InfoAfter(snap[t], sinfo[t], call[t].idx, call[t].to)
    <3>1. pc[t] = "commit" /\ UNCHANGED <<call, snap>>
      BY <1>4 DEF Commit
    <3>2. /\ CanApply(row, call[t].idx)
          /\ row' = ApplyKeyStatus(row, call[t].idx, call[t].to)
          /\ info' = InfoAfter(row, info, call[t].idx, call[t].to)
          /\ snap[t] = row
      BY <2>2, <3>1, CommitIsApply
    <3>3. phase[t] = "open" /\ phase' = [phase EXCEPT ![t] = "applied"]
      BY <2>2, <3>1 DEF PhaseOf
    <3>4. answer' = [answer EXCEPT ![t] = AnswerFor(row', call[t].to)]
      BY <2>2, <3>1, <3>2 DEF Result
    <3>5. Store!Apply(t)
      <4>1. /\ Store!CanApply(row, call[t].idx)
            /\ row' = Store!ApplyKeyStatus(row, call[t].idx, call[t].to)
            /\ info' = Store!InfoAfter(row, info, call[t].idx, call[t].to)
        BY <3>2, SameOperators
      <4>2. answer' = [answer EXCEPT ![t] = Store!AnswerFor(row', call[t].to)]
        BY <3>4, SameOperators
      <4>. QED BY <3>1, <3>3, <4>1, <4>2 DEF Store!Apply
    <3>. QED BY <3>5 DEF Store!Next
  <2>. QED BY <1>4, <2>1, <2>2 DEF Commit, Goto
<1>5. ASSUME NEW t \in Tx, Return(t) PROVE Store!Succeed(t) \/ Store!Fail(t)
  <2>1. CASE pc' = [pc EXCEPT ![t] = "ok"] /\ UNCHANGED snap
    <3>1. pc[t] = "committed" /\ UNCHANGED <<row, info, call>>
      BY <1>5 DEF Return
    <3>2. phase[t] = "applied" /\ phase' = [phase EXCEPT ![t] = "ok"]
      BY <2>1, <3>1 DEF PhaseOf
    <3>3. answer' = answer
      BY <2>1, <3>1 DEF Result
    <3>. QED BY <3>1, <3>2, <3>3 DEF Store!Succeed
  <2>2. CASE pc' = [pc EXCEPT ![t] = "failed"] /\ "lostcommit" \in Faults /\ Forget(t)
    BY <1>00, <1>5, <2>2 DEF Return, Forget, PhaseOf
  <2>. QED BY <1>5, <2>1, <2>2 DEF Return, Goto
<1>6. ASSUME NEW t \in Tx, Rollback(t) PROVE Store!Fail(t)
  BY <1>00, <1>6 DEF Rollback, Forget, Goto, PhaseOf
<1>7. ASSUME NEW t \in Tx, Crash(t) PROVE Store!Fail(t)
  BY <1>00, <1>7 DEF Crash, Forget, Goto, PhaseOf, PC
<1>8. CASE Abort
  BY <1>8 DEF Abort, txVars, Store!vars, Result
<1>9. CASE NewApi
  <2>1. phase' = phase /\ answer' = answer
    BY <1>9 DEF NewApi, Result
  <2>2. Store!NewApi
    BY <1>9, <2>1, SameOperators DEF NewApi, Store!NewApi
  <2>. QED BY <2>2 DEF Store!Next
<1>10. CASE UNCHANGED vars
  BY <1>10 DEF vars, txVars, Store!vars, Result
<1>. QED
  BY <1>1, <1>2, <1>3, <1>4, <1>5, <1>6, <1>7, <1>8, <1>9, <1>10
  DEF Next, Step, Exhausted, Store!Next

\* The transaction in its steps, on every database, is the one step that the
\* other modules take for it.
THEOREM WriteThroughRefines == Spec => ImplementsStore
<1>1. Init => Store!Init
  BY InitStore
<1>2. WriteInv /\ [Next]_vars => [Store!Next]_(Store!vars)
  BY StepStore
<1>. QED BY InitWrite, StepWrite, <1>1, <1>2, PTL DEF Spec, ImplementsStore, Store!Spec
=============================================================================
