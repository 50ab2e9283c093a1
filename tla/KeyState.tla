------------------------------ MODULE KeyState ------------------------------
(***************************************************************************)
(* state.Manager: the reports of callers (Report) and the operator's       *)
(* enabling and disabling of keys (SetKeyStatus), on one channel.          *)
(*                                                                         *)
(* A process p is one HTTP request.  pc[p] names the call it makes next;   *)
(* between two calls anything may happen.  A call of Redis or of the       *)
(* database may fail, or take effect and lose its reply; the caller may    *)
(* hang up (ctx), after which every Redis call fails, the deferred ones    *)
(* included, while the database calls, which take no context, go on.       *)
(* The replica that serves p may die.                                      *)
(***************************************************************************)
EXTENDS ChannelRow, Sequences, Functions

CONSTANTS
  Proc,         \* requests in flight; also the random tokens of the lock
  Free,         \* the lock key is absent
  Request,      \* what callers may send
  IdemKey, NoIdem,
  Lease, NoLease,
  Est,          \* the estimate select debited when it granted each lease
  PreDebit,     \* what usage holds at the start, those estimates included
  NoUsage,      \* a report without usage
  Settings,     \* the snapshots the options poller may install
  InitRow,      \* rows the channel may start with
  Faults,       \* what may go wrong, a subset of FaultKinds
  NewApi        \* what new-api may write to the row, a subset of NewApiKinds

FaultKinds ==
  {"redis", "lostreply", "db", "lostcommit", "cancel", "crash",
   "lockexpire", "idemexpire", "leaseexpire"}

NewApiKinds == {"keys", "status", "delete"}

UsageType == [tokens : Nat, cost : Nat]

\* A request: a report, or the operator's change of the status of key ki.
RequestType ==
  [op      : {"report", "set"},
   ki      : {-1} \cup Nat,                  \* -1: no key index given
   key     : Key \cup {NoKey},
   epoch   : Epoch \cup {NoEpoch},
   success : BOOLEAN,
   code    : Code,
   words   : SUBSET Word,                    \* keywords in the message
   usage   : UsageType \cup {NoUsage},
   lease   : Lease \cup {NoLease},
   idem    : IdemKey \cup {NoIdem},
   status  : {Enabled, ManuallyDisabled}]    \* of a "set"

SettingsType ==
  [autoDisable : BOOLEAN, autoEnable : BOOLEAN,
   codes : SUBSET Code, words : SUBSET Word, metric : {"tokens", "cost"}]

ASSUME KeyStateAssumption ==
  /\ Free \notin Proc
  /\ Request # {} /\ Request \subseteq RequestType
  /\ \A r \in Request : r.op = "set" => r.ki >= 0
  /\ Settings \subseteq SettingsType
  /\ InitRow \subseteq Channel
  /\ Est \in [Lease -> Nat] /\ PreDebit \in [Idx -> Nat]
  /\ NoIdem \notin IdemKey /\ NoLease \notin Lease
  /\ NoUsage \notin UsageType
  /\ Faults \subseteq FaultKinds /\ NewApi \subseteq NewApiKinds

VARIABLES
  \* requests
  pc, req, ctx,
  ch,        \* the channel as last loaded, NoChannel when out of scope
  idx,       \* the key located
  delta,     \* the usage to charge
  took,      \* the lease taken back
  resp,      \* the answer
  \* database
  row,
  \* Redis
  lock, idem, leases, usage, events,
  \* the options snapshot
  settings,
  \* history, read by properties only
  commits,   \* the key statuses written, in the order they were committed
  charged,   \* the requests whose usage was counted
  lists      \* the key lists the channel has had since each request came

reqVars   == <<pc, req, ctx, ch, idx, delta, took, resp>>
redisVars == <<lock, idem, leases, usage, events>>
history   == <<commits, charged, lists>>
vars      == <<reqVars, row, redisVars, settings, history>>

-----------------------------------------------------------------------------

Steps == {"idem", "load", "metric", "lease", "incr", "lock", "reload",
          "decide", "apply", "publish", "unlock", "release"}
PC    == Steps \cup {"idle", "done", "crashed"}

\* An answer that is an error; "internal" is a 500, or a 503 when Redis is
\* known to be down.
Errors == {"invalid", "notfound", "dependency", "lock_failed", "internal"}
\* An answer that says the report was worked on to its end.
Accepted == {"none", "enabled", "key_disabled", "channel_disabled"}
Answers == {"pending"} \cup Errors \cup Accepted \cup {"duplicate", "stale_epoch_ignored"}

\* A committed change of a key's status; a key_status event tells of one.
Change == [proc : Proc, idx : Idx, from : Status, to : Status]

\* What the code declares of its variables.
TypeOK ==
  /\ pc \in [Proc -> PC]
  /\ req \in [Proc -> Request]
  /\ ctx \in [Proc -> {"live", "cancelled"}]
  /\ ch \in [Proc -> Channel \cup {NoChannel}]
  /\ idx \in [Proc -> Idx]
  /\ delta \in [Proc -> Int]
  /\ took \in [Proc -> Lease \cup {NoLease}]
  /\ resp \in [Proc -> Answers]
  /\ row \in Channel \cup {NoChannel}
  /\ lock \in Proc \cup {Free}
  /\ idem \subseteq IdemKey
  /\ leases \subseteq Lease
  /\ usage \in [Idx -> Int]
  /\ events \in Seq(Change)
  /\ settings \in Settings
  /\ commits \in Seq(Change)
  /\ charged \subseteq Proc
  /\ lists \in [Proc -> SUBSET KeyLists]

InFlight(p) == pc[p] \in Steps

\* Between a successful Lock and the deferred Unlock.
InCritical(p) == pc[p] \in {"reload", "decide", "apply", "publish", "unlock"}

\* The status a request writes, if it writes one.
Target(r) ==
  CASE r.op = "set" -> r.status
    [] r.op = "report" /\ r.success -> Enabled
    [] OTHER -> AutoDisabled

\* The status a request read before it writes another, the from of its event:
\* SetKeyStatus asks the status per key of every channel.
From(r, c, i) == IF r.op = "set" THEN c.ks[i] ELSE PrevStatus(c, i)

EstOf(l) == IF l = NoLease THEN 0 ELSE Est[l]

\* cost counts when the metric is cost and the caller gave one.
UsageValue(metric, u) ==
  IF metric = "cost" /\ u.cost > 0 THEN u.cost ELSE u.tokens

-----------------------------------------------------------------------------
(* Outcomes of one call.                                                   *)

RedisOk(p)     == ctx[p] = "live"
RedisFailed(p) == ctx[p] = "cancelled" \/ "redis" \in Faults
RedisLost      == "lostreply" \in Faults   \* it took effect, the reply is lost
DBFailed       == "db" \in Faults
DBLost         == "lostcommit" \in Faults  \* committed, the reply is lost

Goto(p, l) == pc' = [pc EXCEPT ![p] = l]

\* Report holds its idempotency key from step load on.
HoldsIdem(p) == req[p].op = "report" /\ req[p].idem # NoIdem

\* The deferred calls run on return: Unlock inside the critical section, then
\* IdemDel when the answer is an error.
Return(p, answer) ==
  /\ resp' = [resp EXCEPT ![p] = answer]
  /\ Goto(p, IF InCritical(p) THEN "unlock"
             ELSE IF answer \in Errors /\ pc[p] # "idem" /\ HoldsIdem(p)
             THEN "release" ELSE "done")
  /\ ch' = IF InCritical(p) THEN ch ELSE [ch EXCEPT ![p] = NoChannel]

-----------------------------------------------------------------------------
(* The steps of a request.                                                 *)

\* The handlers hand a well-formed request to Report or SetKeyStatus.
Arrive(p) ==
  /\ pc[p] = "idle"
  /\ \E r \in Request :
       /\ req' = [req EXCEPT ![p] = r]
       /\ Goto(p, IF r.op = "set" THEN "lock"
                  ELSE IF r.idem # NoIdem THEN "idem" ELSE "load")
  /\ lists' = [lists EXCEPT ![p] = IF row = NoChannel THEN {} ELSE {row.keys}]
  /\ UNCHANGED <<ctx, ch, idx, delta, took, resp, row, redisVars, settings,
                 commits, charged>>

\* Step 1: SET NX of the idempotency key.  An error here leaves idemHeld
\* false: nothing is released.
IdemSet(p) ==
  /\ pc[p] = "idem"
  /\ \/ /\ RedisOk(p)
        /\ req[p].idem \notin idem
        /\ idem' = idem \cup {req[p].idem}
        /\ Goto(p, "load")
        /\ UNCHANGED <<resp, ch>>
     \/ /\ RedisOk(p)
        /\ req[p].idem \in idem
        /\ Return(p, "duplicate")
        /\ UNCHANGED idem
     \/ /\ RedisFailed(p)
        /\ Return(p, "internal")
        /\ UNCHANGED idem
     \/ /\ RedisLost
        /\ Return(p, "internal")
        /\ idem' = idem \cup {req[p].idem}
  /\ UNCHANGED <<req, ctx, idx, delta, took, row, lock, leases, usage, events,
                 settings, history>>

\* Mutant: the epoch is not compared.
Load_AnyEpoch(p) ==
  /\ pc[p] = "load"
  /\ row # NoChannel
  /\ \E i \in Idx :
       /\ IsLocated(row, req[p].ki, req[p].key, i)
       /\ idx' = [idx EXCEPT ![p] = i]
  /\ ch' = [ch EXCEPT ![p] = row]
  /\ Goto(p, IF req[p].usage = NoUsage THEN "lock" ELSE "metric")
  /\ UNCHANGED <<req, ctx, delta, took, resp, row, redisVars, settings, history>>

\* Steps 2 and 3: the channel is loaded, the epoch compared, the key located.
Load(p) ==
  /\ pc[p] = "load"
  /\ \/ /\ DBFailed
        /\ Return(p, "dependency")
        /\ UNCHANGED idx
     \/ /\ row = NoChannel
        /\ Return(p, "notfound")
        /\ UNCHANGED idx
     \/ /\ row # NoChannel
        /\ ~ SameEpoch(row, req[p].epoch)
        /\ Return(p, "stale_epoch_ignored")
        /\ UNCHANGED idx
     \/ /\ row # NoChannel
        /\ SameEpoch(row, req[p].epoch)
        /\ Located(row, req[p].ki, req[p].key) = {}
        /\ Return(p, "invalid")
        /\ UNCHANGED idx
     \/ /\ row # NoChannel
        /\ SameEpoch(row, req[p].epoch)
        /\ \E i \in Idx :
             /\ IsLocated(row, req[p].ki, req[p].key, i)
             /\ idx' = [idx EXCEPT ![p] = i]
        /\ ch' = [ch EXCEPT ![p] = row]
        /\ Goto(p, IF req[p].usage = NoUsage THEN "lock" ELSE "metric")
        /\ UNCHANGED resp
  /\ UNCHANGED <<req, ctx, delta, took, row, redisVars, settings, history>>

\* Step 4: the usage, valued by the metric of the snapshot of the moment.
Metric(p) ==
  /\ pc[p] = "metric"
  /\ delta' = [delta EXCEPT ![p] = UsageValue(settings.metric, req[p].usage)]
  /\ Goto(p, IF req[p].lease = NoLease THEN "incr" ELSE "lease")
  /\ UNCHANGED <<req, ctx, ch, idx, took, resp, row, redisVars, settings, history>>

\* Mutant: the script forgets the DEL.
LeaseTake_NoDel(p) ==
  /\ pc[p] = "lease"
  /\ \/ /\ req[p].lease \in leases
        /\ took' = [took EXCEPT ![p] = req[p].lease]
        /\ delta' = [delta EXCEPT ![p] = @ - EstOf(req[p].lease)]
        /\ Goto(p, "incr")
        /\ UNCHANGED <<resp, ch>>
     \/ /\ req[p].lease \notin leases
        /\ Return(p, "internal")
        /\ UNCHANGED <<took, delta>>
  /\ UNCHANGED <<req, ctx, idx, row, redisVars, settings, history>>

\* GET and DEL of the lease in one script.  A script that returns false is a
\* nil reply, which the client library reports as an error (redis.Nil):
\* LeaseTake hands that error on, so an absent lease fails the report.
LeaseTake(p) ==
  /\ pc[p] = "lease"
  /\ \/ /\ RedisOk(p)
        /\ req[p].lease \in leases
        /\ leases' = leases \ {req[p].lease}
        /\ took' = [took EXCEPT ![p] = req[p].lease]
        /\ delta' = [delta EXCEPT ![p] = @ - EstOf(req[p].lease)]
        /\ Goto(p, "incr")
        /\ UNCHANGED <<resp, ch>>
     \/ /\ RedisOk(p)
        /\ req[p].lease \notin leases
        /\ Return(p, "internal")
        /\ UNCHANGED <<leases, took, delta>>
     \/ /\ RedisFailed(p)
        /\ Return(p, "internal")
        /\ UNCHANGED <<leases, took, delta>>
     \/ /\ RedisLost
        /\ Return(p, "internal")
        /\ leases' = leases \ {req[p].lease}
        /\ UNCHANGED <<took, delta>>
  /\ UNCHANGED <<req, ctx, idx, row, lock, idem, usage, events, settings, history>>

Charge(p) ==
  /\ usage' = [usage EXCEPT ![idx[p]] = @ + delta[p]]
  /\ charged' = charged \cup {p}

\* HINCRBYFLOAT of the correction.
UsageIncr(p) ==
  /\ pc[p] = "incr"
  /\ \/ RedisOk(p) /\ Charge(p) /\ Goto(p, "lock") /\ UNCHANGED <<resp, ch>>
     \/ RedisFailed(p) /\ Return(p, "internal") /\ UNCHANGED <<usage, charged>>
     \/ RedisLost /\ Charge(p) /\ Return(p, "internal")
  /\ UNCHANGED <<req, ctx, idx, delta, took, row, lock, idem, leases, events,
                 settings, commits, lists>>

\* Mutant: SET without NX.
Lock_NoNX(p) ==
  /\ pc[p] = "lock"
  /\ RedisOk(p)
  /\ lock' = p
  /\ Goto(p, "reload")
  /\ UNCHANGED <<req, ctx, ch, idx, delta, took, resp, row, idem, leases, usage,
                 events, settings, history>>

\* Step 5: one attempt at SET NX of the channel lock.  A lost reply leaves a
\* lock nobody holds, until its TTL.
Lock(p) ==
  /\ pc[p] = "lock"
  /\ \/ /\ RedisOk(p)
        /\ lock = Free
        /\ lock' = p
        /\ Goto(p, "reload")
        /\ UNCHANGED <<resp, ch>>
     \/ /\ RedisOk(p)
        /\ lock # Free
        /\ Return(p, "lock_failed")
        /\ UNCHANGED lock
     \/ /\ RedisFailed(p)
        /\ Return(p, "lock_failed")
        /\ UNCHANGED lock
     \/ /\ RedisLost
        /\ Return(p, "lock_failed")
        /\ lock' = IF lock = Free THEN p ELSE lock
  /\ UNCHANGED <<req, ctx, idx, delta, took, row, idem, leases, usage, events,
                 settings, history>>

\* Mutant: a report decides on the channel it loaded before the lock.
Reload_KeepSnapshot(p) ==
  /\ pc[p] = "reload"
  /\ row # NoChannel
  /\ IF req[p].op = "report"
     THEN Goto(p, "decide") /\ UNCHANGED <<ch, idx>>
     ELSE /\ Located(row, req[p].ki, NoKey) # {}
          /\ idx' = [idx EXCEPT ![p] = req[p].ki]
          /\ ch' = [ch EXCEPT ![p] = row]
          /\ Goto(p, "apply")
  /\ UNCHANGED <<req, ctx, delta, took, resp, row, redisVars, settings, history>>

\* Mutant: every failure of the read is reported as a channel that is absent.
Reload_DownIsAbsent(p) ==
  /\ pc[p] = "reload"
  /\ DBFailed
  /\ Return(p, "notfound")
  /\ UNCHANGED <<req, ctx, idx, delta, took, row, redisVars, settings, history>>

\* The channel is read again under the lock.  A report keeps the index it
\* located and the epoch it compared before; an operator's request locates
\* its key here.
Reload(p) ==
  /\ pc[p] = "reload"
  /\ \/ /\ DBFailed
        /\ Return(p, "dependency")
        /\ UNCHANGED idx
     \/ /\ row = NoChannel
        /\ Return(p, "notfound")
        /\ UNCHANGED idx
     \/ /\ row # NoChannel
        /\ req[p].op = "set"
        /\ Located(row, req[p].ki, NoKey) = {}
        /\ Return(p, "invalid")
        /\ UNCHANGED idx
     \/ /\ row # NoChannel
        /\ req[p].op = "set"
        /\ \E i \in Idx :
             /\ IsLocated(row, req[p].ki, NoKey, i)
             /\ idx' = [idx EXCEPT ![p] = i]
        /\ ch' = [ch EXCEPT ![p] = row]
        /\ Goto(p, "apply")
        /\ UNCHANGED resp
     \/ /\ row # NoChannel
        /\ req[p].op = "report"
        /\ ch' = [ch EXCEPT ![p] = row]
        /\ Goto(p, "decide")
        /\ UNCHANGED <<resp, idx>>
  /\ UNCHANGED <<req, ctx, delta, took, row, redisVars, settings, history>>

\* Steps 6 and 7: does the classifier ask for a write?
Verdict(st, r, c, i) ==
  IF r.success THEN ShouldEnable(st, PrevStatus(c, i))
               ELSE ShouldDisable(st, c.autoBan, r.code, r.words)

Decide(p) ==
  /\ pc[p] = "decide"
  /\ \/ /\ Verdict(settings, req[p], ch[p], idx[p])
        /\ Goto(p, "apply")
        /\ UNCHANGED <<resp, ch>>
     \/ /\ ~ Verdict(settings, req[p], ch[p], idx[p])
        /\ Return(p, "none")
  /\ UNCHANGED <<req, ctx, idx, delta, took, row, redisVars, settings, history>>

\* The transaction of ApplyKeyStatus and its history.
Commit(p, i, s) ==
  /\ CanApply(row, i)
  /\ row' = ApplyKeyStatus(row, i, s)
  /\ commits' = Append(commits, [proc |-> p, idx |-> i,
                                 from |-> PrevStatus(row, i), to |-> s])

ActionOf(s, n) ==
  CASE s = Enabled -> "enabled"
    [] s # Enabled /\ AllDead(n, s) -> "channel_disabled"
    [] OTHER -> "key_disabled"

\* Mutant: no transaction; the channel is written, the abilities are not.
Apply_NoTransaction(p) ==
  /\ pc[p] = "apply"
  /\ Commit(p, idx[p], Target(req[p]))
  /\ \/ /\ resp' = [resp EXCEPT ![p] = ActionOf(Target(req[p]), row')]
        /\ Goto(p, "publish")
        /\ UNCHANGED ch
     \/ DBFailed /\ Return(p, "internal")
  /\ UNCHANGED <<req, ctx, idx, delta, took, redisVars, settings, charged, lists>>

Apply(p) ==
  /\ pc[p] = "apply"
  /\ \/ /\ Commit(p, idx[p], Target(req[p]))
        /\ resp' = [resp EXCEPT ![p] = ActionOf(Target(req[p]), row')]
        /\ Goto(p, "publish")
        /\ UNCHANGED ch
     \/ /\ ~ CanApply(row, idx[p]) \/ DBFailed
        /\ Return(p, "internal")
        /\ UNCHANGED <<row, commits>>
     \/ /\ DBLost
        /\ Commit(p, idx[p], Target(req[p]))
        /\ Return(p, "internal")
  /\ UNCHANGED <<req, ctx, idx, delta, took, redisVars, settings, charged, lists>>

\* Mutant: the event is sent again until Redis takes it.
Publish_Retry(p) ==
  /\ pc[p] = "publish"
  /\ RedisOk(p)
  /\ events' = Append(events,
       [proc |-> p, idx |-> idx[p],
        from |-> From(req[p], ch[p], idx[p]), to |-> Target(req[p])])
  /\ Goto(p, "unlock")
  /\ UNCHANGED <<req, ctx, ch, idx, delta, took, resp, row, lock, idem, leases,
                 usage, settings, history>>

\* XADD of the key_status event; its failure is ignored.
Publish(p) ==
  /\ pc[p] = "publish"
  /\ \/ /\ RedisOk(p) \/ RedisLost
        /\ events' = Append(events,
             [proc |-> p, idx |-> idx[p],
              from |-> From(req[p], ch[p], idx[p]), to |-> Target(req[p])])
     \/ RedisFailed(p) /\ UNCHANGED events
  /\ Goto(p, "unlock")
  /\ UNCHANGED <<req, ctx, ch, idx, delta, took, resp, row, lock, idem, leases,
                 usage, settings, history>>

\* Mutant: the idempotency key is given back whatever the answer.
Unlock_AlwaysRelease(p) ==
  /\ pc[p] = "unlock"
  /\ \/ RedisOk(p) /\ lock' = IF lock = p THEN Free ELSE lock
     \/ RedisFailed(p) /\ UNCHANGED lock
  /\ Goto(p, IF HoldsIdem(p) THEN "release" ELSE "done")
  /\ ch' = [ch EXCEPT ![p] = NoChannel]
  /\ UNCHANGED <<req, ctx, idx, delta, took, resp, row, idem, leases, usage,
                 events, settings, history>>

\* Mutant: DEL without a look at the token.
Unlock_NoToken(p) ==
  /\ pc[p] = "unlock"
  /\ lock' = Free
  /\ Goto(p, "done")
  /\ ch' = [ch EXCEPT ![p] = NoChannel]
  /\ UNCHANGED <<req, ctx, idx, delta, took, resp, row, idem, leases, usage,
                 events, settings, history>>

\* The deferred Unlock deletes the lock only while it bears p's token.
Unlock(p) ==
  /\ pc[p] = "unlock"
  /\ \/ /\ RedisOk(p) \/ RedisLost
        /\ lock' = IF lock = p THEN Free ELSE lock
     \/ RedisFailed(p) /\ UNCHANGED lock
  /\ Goto(p, IF resp[p] \in Errors /\ HoldsIdem(p) THEN "release" ELSE "done")
  /\ ch' = [ch EXCEPT ![p] = NoChannel]
  /\ UNCHANGED <<req, ctx, idx, delta, took, resp, row, idem, leases, usage,
                 events, settings, history>>

\* The deferred IdemDel of a report that failed; best effort.
Release(p) ==
  /\ pc[p] = "release"
  /\ \/ /\ RedisOk(p) \/ RedisLost
        /\ idem' = idem \ {req[p].idem}
     \/ RedisFailed(p) /\ UNCHANGED idem
  /\ Goto(p, "done")
  /\ UNCHANGED <<req, ctx, ch, idx, delta, took, resp, row, lock, leases, usage,
                 events, settings, history>>

Step(p) ==
  \/ IdemSet(p) \/ Load(p) \/ Metric(p) \/ LeaseTake(p) \/ UsageIncr(p)
  \/ Lock(p) \/ Reload(p) \/ Decide(p) \/ Apply(p) \/ Publish(p)
  \/ Unlock(p) \/ Release(p)

-----------------------------------------------------------------------------
(* What happens to a request, to Redis and to the row from outside.        *)

\* The caller hangs up, or times out: net/http cancels the request's context.
Cancel(p) ==
  /\ "cancel" \in Faults
  /\ InFlight(p) /\ ctx[p] = "live"
  /\ ctx' = [ctx EXCEPT ![p] = "cancelled"]
  /\ UNCHANGED <<pc, req, ch, idx, delta, took, resp, row, redisVars, settings, history>>

\* The replica dies, or its shutdown grace of 10 s ends: no deferred call runs.
Crash(p) ==
  /\ "crash" \in Faults
  /\ InFlight(p)
  /\ Goto(p, "crashed")
  /\ ch' = [ch EXCEPT ![p] = NoChannel]
  /\ UNCHANGED <<req, ctx, idx, delta, took, resp, row, redisVars, settings, history>>

\* Mutant: SET NX without PX; only a lock whose request is done is ever freed.
LockExpire_NoTTL ==
  /\ lock # Free /\ pc[lock] = "done"
  /\ lock' = Free
  /\ UNCHANGED <<reqVars, row, idem, leases, usage, events, settings, history>>

\* The 5 s TTL of the lock.  It may always end a lock that was left behind;
\* whether it may end one still in use is a fault.
LockExpire ==
  /\ lock # Free
  /\ ~ InCritical(lock) \/ "lockexpire" \in Faults
  /\ lock' = Free
  /\ UNCHANGED <<reqVars, row, idem, leases, usage, events, settings, history>>

\* The 10 min TTL of the idempotency keys.
IdemExpire(k) ==
  /\ "idemexpire" \in Faults
  /\ k \in idem
  /\ idem' = idem \ {k}
  /\ UNCHANGED <<reqVars, row, lock, leases, usage, events, settings, history>>

\* The 10 min TTL of the leases.
LeaseExpire(l) ==
  /\ "leaseexpire" \in Faults
  /\ l \in leases
  /\ leases' = leases \ {l}
  /\ UNCHANGED <<reqVars, row, lock, idem, usage, events, settings, history>>

\* The poller, or a settings endpoint, installs a snapshot.
SettingsChange ==
  /\ settings' \in Settings \ {settings}
  /\ UNCHANGED <<reqVars, row, redisVars, history>>

\* new-api edits the key list; the status map may be kept or emptied.
NewApiEditKeys ==
  /\ "keys" \in NewApi
  /\ row # NoChannel
  /\ \E l \in KeyLists \ {row.keys}, m \in {row.ks, [i \in Idx |-> Enabled]} :
       /\ row' = [row EXCEPT !.keys = l, !.ks = m]
       /\ lists' = [p \in Proc |-> IF pc[p] = "idle" THEN {} ELSE lists[p] \cup {l}]
  /\ UNCHANGED <<reqVars, redisVars, settings, commits, charged>>

\* new-api disables or enables the whole channel with its abilities.
NewApiSetStatus ==
  /\ "status" \in NewApi
  /\ row # NoChannel
  /\ \E s \in Status \ {row.status} :
       row' = [row EXCEPT !.status = s, !.abil = s = Enabled]
  /\ UNCHANGED <<reqVars, redisVars, settings, history>>

NewApiDelete ==
  /\ "delete" \in NewApi
  /\ row # NoChannel
  /\ row' = NoChannel
  /\ UNCHANGED <<reqVars, redisVars, settings, history>>

Environment ==
  \/ \E p \in Proc : Cancel(p) \/ Crash(p)
  \/ LockExpire
  \/ \E k \in IdemKey : IdemExpire(k)
  \/ \E l \in Lease : LeaseExpire(l)
  \/ SettingsChange
  \/ NewApiEditKeys \/ NewApiSetStatus \/ NewApiDelete

\* Every request was answered and none is left: the instance is exhausted.
Exhausted ==
  /\ \A p \in Proc : pc[p] \in {"done", "crashed"}
  /\ UNCHANGED vars

-----------------------------------------------------------------------------

Init ==
  /\ pc = [p \in Proc |-> "idle"]
  /\ req = [p \in Proc |-> CHOOSE r \in Request : TRUE]  \* until it arrives
  /\ ctx = [p \in Proc |-> "live"]
  /\ ch = [p \in Proc |-> NoChannel]
  /\ idx = [p \in Proc |-> 0]
  /\ delta = [p \in Proc |-> 0]
  /\ took = [p \in Proc |-> NoLease]
  /\ resp = [p \in Proc |-> "pending"]  \* no answer yet
  /\ row \in InitRow
  /\ lock = Free
  /\ idem = {}
  /\ leases = Lease
  /\ usage = PreDebit
  /\ events = <<>>
  /\ settings \in Settings
  /\ commits = <<>>
  /\ charged = {}
  /\ lists = [p \in Proc |-> {}]

Next ==
  \/ \E p \in Proc : Arrive(p) \/ Step(p)
  \/ Environment
  \/ Exhausted

\* A handler that was started goes on, and Redis drops what its TTL ends;
\* nothing obliges callers to call, or faults to happen.
Fairness ==
  /\ \A p \in Proc : WF_vars(Step(p))
  /\ WF_vars(LockExpire)

Spec     == Init /\ [][Next]_vars
FairSpec == Spec /\ Fairness

-----------------------------------------------------------------------------
(* What the code must guarantee.                                           *)

\* A report enables a key only out of automatic disablement, whatever was
\* written between its first load and the lock (state.go, the reload under
\* the lock; classifier.ShouldEnable).
AutoEnableOnlyAutoDisabled ==
  \A n \in DOMAIN commits :
    /\ req[commits[n].proc].op = "report"
    /\ commits[n].to = Enabled
    => commits[n].from = AutoDisabled

\* A channel with no enabled key is not listed as enabled, and its abilities
\* are on exactly while it is (ApplyKeyStatus keeps status, the status map and
\* the abilities in step).
ChannelMatchesKeys ==
  row # NoChannel =>
    /\ row.abil <=> row.status = Enabled
    /\ row.multi /\ EnabledKeyIndexes(row) = {} => row.status # Enabled

\* The stream tells only what was committed, in the order of the commits, and
\* with the status that was really left behind: the lock spans the read, the
\* write and the event.  An order on a channel that is not multi-key is left
\* out: its event bears the status of a key such a channel does not have.
Tells(e, c) ==
  /\ e.proc = c.proc /\ e.idx = c.idx /\ e.to = c.to
  /\ req[c.proc].op = "report" \/ row.multi => e.from = c.from

EventsTellCommits ==
  /\ \A m \in DOMAIN events : \E a \in DOMAIN commits :
       Tells(events[m], commits[a])
  /\ \A m, n \in DOMAIN events : m < n =>
       \E a, b \in DOMAIN commits :
         a < b /\ Tells(events[m], commits[a]) /\ Tells(events[n], commits[b])

\* While no lock lapses under its holder, one request at a time is between
\* Lock and Unlock, and it is the one whose token Redis holds.
HolderOwnsLock == \A p \in Proc : InCritical(p) => lock = p

\* Of the reports with one idempotency key at most one is accepted, whatever
\* the first one's failures and the later ones' timing (IdemSet, and IdemDel
\* on failure only).
AcceptedOnce ==
  \A p, q \in Proc :
    /\ p # q
    /\ HoldsIdem(p) /\ HoldsIdem(q) /\ req[p].idem = req[q].idem
    /\ resp[p] \in Accepted
    => resp[q] \notin Accepted

\* The usage of one call is counted once, however often its report is retried
\* with its idempotency key (lease.go: a call must not be counted twice).
CountedOnce ==
  \A p, q \in charged :
    HoldsIdem(p) /\ HoldsIdem(q) /\ req[p].idem = req[q].idem => p = q

\* The counters hold what select debited, corrected by every counted report,
\* and each lease's estimate is taken off once, by one of them: counting a
\* call in full or twice shows as a difference (Report, step 4; LeaseTake).
Spent(p) == delta[p] + EstOf(took[p])
UsageBalance ==
  SumFunction(usage) =
    SumFunction(PreDebit)
    + SumFunction([p \in charged |-> Spent(p)])
    - SumFunction([l \in {took[p] : p \in charged} \ {NoLease} |-> Est[l]])

\* A request answered with an error, as stale or as a duplicate has written
\* nothing to the channel (ApplyKeyStatus is one transaction, and nothing in
\* Report or SetKeyStatus can fail after it).
FailedWritesNothing ==
  \A p \in Proc : resp[p] \in Errors \cup {"duplicate", "stale_epoch_ignored"} =>
    \A n \in DOMAIN commits : commits[n].proc # p

\* A report that names the fingerprint of a key list changes nothing of a
\* channel that had no such list since the report came: an epoch out of date
\* never disables a key (Report, step 3).  An edit after the comparison is the
\* code's to miss, and is why every list since then counts.
StaleReportWritesNothing ==
  \A n \in DOMAIN commits :
    LET p == commits[n].proc
    IN  req[p].op = "report" /\ req[p].epoch # NoEpoch =>
          \E l \in lists[p] : Fingerprint[l] = req[p].epoch

\* A caller is told that there is no such channel only when there is none: a
\* database that fails is a 503, so that the caller does not drop the channel
\* (getChannel; the loads of Report and SetKeyStatus).  Ids are not reused.
NotFoundWasAbsent == \A p \in Proc : resp[p] = "notfound" => row = NoChannel

\* Without a fault no report ends in a 500: in particular one whose lease has
\* lapsed, or was never written, is charged in full (LeaseTake: ok = false and
\* a nil error when there is no such lease).
NoInternalError == \A p \in Proc : resp[p] # "internal"

\* A lock leaves its owner only by the owner's Unlock or by the TTL, which
\* moves no request: a late Unlock never frees the next owner's lock.
LockKeptByOwner ==
  [][\A p \in Proc :
       lock = p /\ lock' # p =>
         \/ pc' = pc
         \/ pc[p] = "unlock" /\ pc'[p] # "unlock"]_vars

\* The lock never outlives its owners for good: every lock is followed by a
\* free channel, though owners die, hang up or fail to reach Redis.
LockFreed == \A p \in Proc : lock = p ~> lock # p

\* Every request is answered, or died with its replica: nothing waits on the
\* lock, on Redis or on another request.
Answered == \A p \in Proc : InFlight(p) ~> pc[p] \in {"done", "crashed"}

-----------------------------------------------------------------------------
(* The abstract specification this one implements.                         *)

KeyView(c) ==
  IF c.multi THEN [i \in KeyIndexes(c) |-> c.ks[i]] ELSE [i \in {0} |-> c.status]

OrdersDone ==
  {p \in Proc : req[p].op = "set" /\ \E n \in DOMAIN commits : commits[n].proc = p}

Lifecycle == INSTANCE ChannelLifecycle WITH
  KeyIndex <- Idx,
  Order    <- Proc,
  st       <- KeyView(row),
  serving  <- row.abil /\ row.status = Enabled,
  orders   <- OrdersDone

\* Without writers that take no lock, and while no lock lapses, keypool's
\* requests do to the channel what ChannelLifecycle allows.
ImplementsLifecycle == Lifecycle!Spec
=============================================================================
