---------------------------- MODULE WriteThrough ----------------------------
(***************************************************************************)
(* Store.ApplyKeyStatus in its steps: a transaction that reads the channel,*)
(* writes it, writes its abilities and commits.  Several run at a time: the*)
(* Redis lock that should keep them apart may have lapsed, and new-api,    *)
(* which never takes it, writes the same row in one transaction of its own.*)
(*                                                                         *)
(* MySQL and PostgreSQL lock the row at the read (FOR UPDATE), and the     *)
(* others wait.  SQLite has no row lock: a transaction reads a snapshot,   *)
(* and its first write needs the one write lock of the file and a snapshot *)
(* that nobody has committed after; else the statement is refused as busy. *)
(***************************************************************************)
EXTENDS ChannelWrite

CONSTANTS
  Free,      \* nobody holds the lock
  Dialects,  \* a subset of {"rowlock", "filelock"}
  Calls,     \* what the calls ask for
  InitRow, InitInfo,
  Faults,    \* a subset of {"db", "lostcommit", "crash"}
  MaxEdits   \* how often new-api may write

ASSUME WriteAssumption ==
  /\ Free \notin Tx
  /\ Dialects \subseteq {"rowlock", "filelock"}
  /\ Calls \subseteq Call
  /\ InitRow \subseteq Channel /\ InitInfo \subseteq Info
  /\ Faults \subseteq {"db", "lostcommit", "crash"}
  /\ MaxEdits \in Nat

VARIABLES
  dialect,
  row, info,   \* as committed
  owner,       \* of the row lock, or of SQLite's write lock
  call, pc,
  snap, sinfo, \* what each transaction has read
  stale,       \* SQLite: somebody has committed since
  work,        \* the row it has written and not committed
  edits        \* how often new-api has written

txVars == <<call, pc, snap, sinfo, stale, work>>
vars   == <<dialect, row, info, owner, txVars, edits>>

Ended == {"ok", "failed", "crashed"}
PC    == {"read", "channel", "abilities", "commit", "committed", "rollback"} \cup Ended

WriteTypeOK ==
  /\ dialect \in Dialects
  /\ row \in Channel \cup {NoChannel} /\ info \in Info
  /\ owner \in Tx \cup {Free}
  /\ call \in [Tx -> Calls]
  /\ pc \in [Tx -> PC]
  /\ snap \in [Tx -> Channel \cup {NoChannel}] /\ sinfo \in [Tx -> Info]
  /\ stale \in [Tx -> BOOLEAN]
  /\ work \in [Tx -> Channel \cup {NoChannel}]
  /\ edits \in 0 .. MaxEdits

-----------------------------------------------------------------------------

RowLock     == dialect = "rowlock"
DBFailed    == "db" \in Faults
Goto(t, l)  == pc' = [pc EXCEPT ![t] = l]

\* A transaction that failed, or whose replica died, leaves nothing behind.
Forget(t) ==
  /\ snap' = [snap EXCEPT ![t] = NoChannel]
  /\ sinfo' = [sinfo EXCEPT ![t] = {}]
  /\ work' = [work EXCEPT ![t] = NoChannel]
  /\ stale' = [stale EXCEPT ![t] = FALSE]

\* Mutant: the channel is read without FOR UPDATE.
Read_Unlocked(t) ==
  /\ pc[t] = "read"
  /\ row # NoChannel
  /\ CanApply(row, call[t].idx)
  /\ snap' = [snap EXCEPT ![t] = row]
  /\ sinfo' = [sinfo EXCEPT ![t] = info]
  /\ Goto(t, "channel")
  /\ UNCHANGED <<dialect, row, info, owner, call, stale, work, edits>>

\* The channel is read; a channel that is gone or has no such key ends the
\* transaction with an error.
Read(t) ==
  /\ pc[t] = "read"
  /\ \/ /\ RowLock => owner = Free
        /\ CanApply(row, call[t].idx)
        /\ owner' = IF RowLock THEN t ELSE owner
        /\ snap' = [snap EXCEPT ![t] = row]
        /\ sinfo' = [sinfo EXCEPT ![t] = info]
        /\ Goto(t, "channel")
     \/ /\ RowLock => owner = Free
        /\ row # NoChannel /\ ~ CanApply(row, call[t].idx)
        /\ owner' = IF RowLock THEN t ELSE owner
        /\ Goto(t, "rollback")
        /\ UNCHANGED <<snap, sinfo>>
     \/ /\ row = NoChannel \/ DBFailed
        /\ Goto(t, "rollback")
        /\ UNCHANGED <<owner, snap, sinfo>>
  /\ UNCHANGED <<dialect, row, info, call, stale, work, edits>>

\* The columns of channels: everything but the abilities.
ChannelPart(c, i, s) == [ApplyKeyStatus(c, i, s) EXCEPT !.abil = c.abil]

\* Mutant: abilities follow an enabled key only.
AbilitiesDue_EnableOnly(c, i, s) == s = Enabled

\* A plain channel always writes its abilities, a multi-key one when the call
\* leaves it without an enabled key or enables one.
AbilitiesDue(c, i, s) ==
  \/ ~ c.multi
  \/ AllDead(ApplyKeyStatus(c, i, s), s)
  \/ s = Enabled

\* channelStatus and allDead, computed from the snapshot.
Result(t) == AnswerFor(ApplyKeyStatus(snap[t], call[t].idx, call[t].to), call[t].to)

\* Mutant: a busy statement is tried again in the same transaction.
UpdateChannel_Retry(t) ==
  LET c == snap[t]
      i == call[t].idx
      s == call[t].to
  IN  /\ pc[t] = "channel"
      /\ IF RowLock \/ (owner = Free /\ ~ stale[t])
         THEN /\ owner' = t
              /\ work' = [work EXCEPT ![t] = ChannelPart(c, i, s)]
              /\ Goto(t, IF AbilitiesDue(c, i, s) THEN "abilities" ELSE "commit")
         ELSE UNCHANGED <<owner, work, pc>>
      /\ UNCHANGED <<dialect, row, info, call, snap, sinfo, stale, edits>>

\* UPDATE channels, with the values computed from the snapshot.
UpdateChannel(t) ==
  LET c == snap[t]
      i == call[t].idx
      s == call[t].to
  IN  /\ pc[t] = "channel"
      /\ \/ /\ RowLock \/ (owner = Free /\ ~ stale[t])
            /\ owner' = t
            /\ work' = [work EXCEPT ![t] = ChannelPart(c, i, s)]
            /\ Goto(t, IF AbilitiesDue(c, i, s) THEN "abilities" ELSE "commit")
         \/ /\ DBFailed \/ (~ RowLock /\ (owner # Free \/ stale[t]))
            /\ Goto(t, "rollback")
            /\ UNCHANGED <<owner, work>>
      /\ UNCHANGED <<dialect, row, info, call, snap, sinfo, stale, edits>>

\* UPDATE abilities: off when no key is left, on otherwise.
UpdateAbilities(t) ==
  /\ pc[t] = "abilities"
  /\ \/ /\ work' = [work EXCEPT ![t].abil = ~ Result(t).allDead]
        /\ Goto(t, "commit")
     \/ /\ DBFailed
        /\ Goto(t, "rollback")
        /\ UNCHANGED work
  /\ UNCHANGED <<dialect, row, info, owner, call, snap, sinfo, stale, edits>>

\* A commit makes every other open snapshot an old one.
Commit(t) ==
  /\ pc[t] = "commit"
  /\ \/ /\ row' = work[t]
        /\ info' = InfoAfter(snap[t], sinfo[t], call[t].idx, call[t].to)
        /\ owner' = Free
        /\ stale' = [u \in Tx |-> stale[u] \/ pc[u] = "channel"]
        /\ Goto(t, "committed")
     \/ /\ DBFailed
        /\ Goto(t, "rollback")
        /\ UNCHANGED <<row, info, owner, stale>>
  /\ UNCHANGED <<dialect, call, snap, sinfo, work, edits>>

\* The reply to the commit arrives, or the connection was lost after it.
Return(t) ==
  /\ pc[t] = "committed"
  /\ \/ Goto(t, "ok") /\ UNCHANGED <<snap, sinfo, work, stale>>
     \/ /\ "lostcommit" \in Faults
        /\ Goto(t, "failed")
        /\ Forget(t)
  /\ UNCHANGED <<dialect, row, info, owner, call, edits>>

\* Mutant: an early return without a rollback; the connection keeps the lock.
Rollback_Forgotten(t) ==
  /\ pc[t] = "rollback"
  /\ Goto(t, "failed")
  /\ Forget(t)
  /\ UNCHANGED <<dialect, row, info, owner, call, edits>>

\* gorm rolls back whenever the function of the transaction returns an error.
Rollback(t) ==
  /\ pc[t] = "rollback"
  /\ owner' = IF owner = t THEN Free ELSE owner
  /\ Goto(t, "failed")
  /\ Forget(t)
  /\ UNCHANGED <<dialect, row, info, call, edits>>

Step(t) ==
  \/ Read(t) \/ UpdateChannel(t) \/ UpdateAbilities(t) \/ Commit(t) \/ Return(t)
  \/ Rollback(t)

-----------------------------------------------------------------------------

\* The replica dies between two steps.
Crash(t) ==
  /\ "crash" \in Faults
  /\ pc[t] \notin Ended
  /\ Goto(t, "crashed")
  /\ Forget(t)
  /\ UNCHANGED <<dialect, row, info, owner, call, edits>>

\* The database finds the connection of a dead replica closed and rolls back.
Abort ==
  /\ owner # Free /\ pc[owner] = "crashed"
  /\ owner' = Free
  /\ UNCHANGED <<dialect, row, info, txVars, edits>>

\* new-api's own transaction, which waits for the lock like any other.
NewApi ==
  /\ edits < MaxEdits
  /\ edits' = edits + 1
  /\ owner = Free /\ row # NoChannel
  /\ row' \in Edits(row)
  /\ \E f \in SUBSET Field : info' = IF f = {} THEN info ELSE Fields(info) \cup f
  /\ stale' = [u \in Tx |-> stale[u] \/ pc[u] = "channel"]
  /\ UNCHANGED <<dialect, owner, call, pc, snap, sinfo, work>>

\* Every call has returned: the instance is exhausted.
Exhausted == (\A t \in Tx : pc[t] \in Ended) /\ UNCHANGED vars

Init ==
  /\ dialect \in Dialects
  /\ row \in InitRow /\ info \in InitInfo
  /\ owner = Free
  /\ call \in [Tx -> Calls]
  /\ pc = [t \in Tx |-> "read"]
  /\ snap = [t \in Tx |-> NoChannel] /\ sinfo = [t \in Tx |-> {}]
  /\ stale = [t \in Tx |-> FALSE]
  /\ work = [t \in Tx |-> NoChannel]
  /\ edits = 0

Next ==
  \/ \E t \in Tx : Step(t) \/ Crash(t)
  \/ Abort \/ NewApi \/ Exhausted

Spec == Init /\ [][Next]_vars

\* Statements return, and the database notices lost connections.
FairSpec == Spec /\ (\A t \in Tx : WF_vars(Step(t))) /\ WF_vars(Abort)

-----------------------------------------------------------------------------

\* What a transaction is about to commit was computed from the channel as it is
\* committed now, on every database: no write of new-api, or of a request whose
\* Redis lock has lapsed, is lost under it (rowLockSupported, FOR UPDATE).
NoLostUpdate ==
  \A t \in Tx : pc[t] \in {"abilities", "commit"} =>
    snap[t] = row /\ sinfo[t] = info

\* Whatever keypool writes, the fields of other_info it does not know stay
\* (mergeOtherInfo: merge, not overwrite).
ForeignFieldsKept == [][Fields(info) \cap Field \subseteq Fields(info')]_vars

\* The lock never stays behind: not after an error, nor a death (Transaction).
RowLockFreed == \A t \in Tx : owner = t ~> owner # t

\* A call of ApplyKeyStatus comes to an end whatever the others do.
CallsEnd == \A t \in Tx : <>(pc[t] \in Ended)

-----------------------------------------------------------------------------

PhaseOf(l) ==
  CASE l = "committed" -> "applied"
    [] l = "ok" -> "ok"
    [] l \in {"failed", "crashed"} -> "failed"
    [] OTHER -> "open"

Store == INSTANCE ChannelStore WITH
  LostAnswers <- Faults \cap {"lostcommit", "crash"} # {},
  phase  <- [t \in Tx |-> PhaseOf(pc[t])],
  answer <- [t \in Tx |-> IF pc[t] \in {"committed", "ok"} THEN Result(t) ELSE NoAnswer]

\* Calls take effect at one moment, on the row of that moment, or not at all.
ImplementsStore == Store!Spec
=============================================================================
