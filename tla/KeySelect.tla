------------------------------ MODULE KeySelect ------------------------------
(***************************************************************************)
(* selector.Selector: the choice of a channel and of one of its keys       *)
(* (Select), with the Lua script that picks the key in Redis.              *)
(*                                                                         *)
(* A process p is one call of POST /v1/keys/select, on any replica.  pc[p] *)
(* names what it does next; between two steps other selects, the           *)
(* write-through of key statuses, new-api, the options poller and the      *)
(* clock go on.                                                            *)
(*                                                                         *)
(* Counters are integers in a unit so small that the halvings within the   *)
(* bounds are exact; jitter_pct is 1/20.                                   *)
(***************************************************************************)
EXTENDS ChannelRow, Rotation, Sequences

CONSTANTS
  Proc,        \* calls of select
  Chan,        \* channels
  NoChan,      \* a request by group and model
  Null,        \* a priority that is NULL
  Priority,    \* abilities.priority of each channel, for the group and model
  NullsFirst,  \* whether ORDER BY priority DESC puts NULL first (PostgreSQL)
  KeyMode,     \* channel_info.multi_key_mode of each channel
  Call,        \* what callers may send
  Snapshots,   \* settings the poller may install
  InitRows,    \* rows the channels may start with
  Actual,      \* the usage a report states for a call that was leased
  Start,       \* the second the replicas start in, long after second 0
  MaxNow,      \* bound: the last second considered
  Faults,      \* what may go wrong, a subset of FaultKinds
  Changes      \* what may happen to the rows, a subset of ChangeKinds

FaultKinds  == {"redis", "lostreply", "db", "late"}  \* late: Redis comes late
ChangeKinds == {"status", "keys", "settings", "report"}

CallType ==
  [chan    : Chan \cup {NoChan},
   direct  : {-1} \cup Nat,             \* key_index; -1: none
   retry   : Int,
   exclude : SUBSET (Chan \X Nat),
   mode    : {"default", "polling", "random", "usage"},
   est     : Nat,
   advance : BOOLEAN]                   \* advance_cursor

SnapshotType ==
  [usage    : SUBSET Chan,              \* balance.mode = usage
   rotation : [Chan -> CfgType \cup {NoCfg}],
   interval : [Chan -> Nat \ {0}]]      \* decay_interval, 3600 when unset

ASSUME SelectAssumption ==
  /\ NoChan \notin Chan /\ IsFiniteSet(Chan)
  /\ Priority \in [Chan -> Int \cup {Null}] /\ NullsFirst \in BOOLEAN
  /\ KeyMode \in [Chan -> {"polling", "random"}]
  /\ Call \subseteq CallType /\ Call # {} /\ Snapshots \subseteq SnapshotType
  /\ \A c \in Call : c.chan = NoChan => c.direct = -1
  /\ NoCfg \notin CfgType /\ \A m \in 1 .. MaxKeys : Permutes(m)
  /\ InitRows \subseteq [Chan -> Channel \cup {NoChannel}]
  /\ Actual \in Nat /\ Start \in Nat /\ MaxNow \in Nat /\ Start <= MaxNow
  /\ \A s \in Snapshots, c \in Chan : s.interval[c] < Start
  /\ Faults \subseteq FaultKinds /\ Changes \subseteq ChangeKinds

VARIABLES
  \* requests
  pc, req,
  at,        \* now, taken on arrival
  cid,       \* the channel chosen
  ch,        \* the channel as loaded
  plan,      \* the candidates, the mode and the decay interval
  resp,      \* the answer
  \* database, options, clock
  row, settings, clock,
  \* Redis
  up, client, cursor, usage, lastDecay, leases,
  \* history, read by properties only
  seen,      \* the keys of its channel that could be served at some, and at
             \* every, moment of a call
  picks,     \* the picks that advanced each channel's cursor
  decays,    \* the moments at which each channel's counters were decayed
  real       \* the counters as they would be if only actual usage counted

reqVars == <<pc, req, at, cid, ch, plan, resp>>
dbVars  == <<row, settings, clock>>
luaVars == <<cursor, usage, lastDecay, picks, decays, real>>
vars    == <<reqVars, dbVars, luaVars, up, client, leases, seen>>

-----------------------------------------------------------------------------

NoPlan == [cands |-> {}, mode |-> "none", interval |-> 1]
NoAnswer == [kind |-> "pending", idx |-> 0, epoch |-> NoEpoch]
Modes == {"polling", "peek", "random", "usage"}
Kinds == {"pending", "key", "nokey", "nochannel", "invalid", "dependency",
          "degraded", "internal"}

\* What the code declares of its variables.
SelectTypeOK ==
  /\ pc \in [Proc -> {"idle", "abilities", "load", "plan", "pick", "lease", "done"}]
  /\ req \in [Proc -> Call]
  /\ at \in [Proc -> 0 .. MaxNow]
  /\ cid \in [Proc -> Chan \cup {NoChan}]
  /\ ch \in [Proc -> Channel \cup {NoChannel}]
  /\ \A p \in Proc : /\ plan[p].cands \subseteq Idx
                     /\ plan[p].mode \in Modes \cup {"none"}
  /\ \A p \in Proc : resp[p].kind \in Kinds /\ resp[p].idx \in Idx
  /\ row \in [Chan -> Channel \cup {NoChannel}]
  /\ settings \in Snapshots /\ clock \in Start .. MaxNow
  /\ up \in BOOLEAN /\ client \in {"connected", "nil"}
  /\ cursor \in [Chan -> Nat]
  /\ usage \in [Chan -> [Idx -> Int]]
  /\ lastDecay \in [Chan -> 0 .. MaxNow]
  /\ leases \subseteq Proc

\* The keys of a channel that select may serve, with the epoch of their list.
Serviceable(c) ==
  IF c = NoChannel \/ c.status # Enabled THEN {}
  ELSE {<<i, Fingerprint[c.keys]>> : i \in EnabledKeyIndexes(c)}

\* From the moment its channel is chosen a call sees the channel's row.
Watch(p, c) == seen' = [seen EXCEPT ![p] =
                          [some |-> Serviceable(c), all |-> Serviceable(c)]]

Goto(p, l) == pc' = [pc EXCEPT ![p] = l]

\* The call ends, and what it held is gone.
End(p) ==
  /\ Goto(p, "done")
  /\ at' = [at EXCEPT ![p] = 0]
  /\ ch' = [ch EXCEPT ![p] = NoChannel]
  /\ plan' = [plan EXCEPT ![p] = NoPlan]

Answer(p, kind) ==
  /\ resp' = [resp EXCEPT ![p].kind = kind]
  /\ End(p)

AnswerKey(p, i, c) ==
  /\ resp' = [resp EXCEPT ![p] =
                [kind |-> "key", idx |-> i, epoch |-> Fingerprint[c.keys]]]
  /\ End(p)

-----------------------------------------------------------------------------
(* Channel and candidates.                                                 *)

\* A call arrives: now is taken before anything is read.
Arrive(p) ==
  /\ pc[p] = "idle"
  /\ \E c \in Call :
       /\ req' = [req EXCEPT ![p] = c]
       /\ cid' = [cid EXCEPT ![p] = c.chan]
       /\ \/ c.chan = NoChan /\ Goto(p, "abilities") /\ UNCHANGED seen
          \/ c.chan # NoChan /\ Goto(p, "load") /\ Watch(p, row[c.chan])
  /\ at' = [at EXCEPT ![p] = clock]
  /\ UNCHANGED <<ch, plan, resp, dbVars, luaVars, up, client, leases>>

\* abilities.enabled = true for the group and the model.
Offered == {c \in Chan : row[c] # NoChannel /\ row[c].abil}

PriorityOf(c) == IF Priority[c] = Null THEN 0 ELSE Priority[c]

\* The NULLs are next to the zeros in the list the database sorts, unless a
\* priority lies between.
Apart(offered) ==
  \E c \in offered :
    /\ Priority[c] # Null
    /\ IF NullsFirst THEN Priority[c] > 0 ELSE Priority[c] < 0

\* Tiers are runs of equal priority in that list, sorted again, stably.
TierOf(offered, c) ==
  <<PriorityOf(c),
    IF Priority[c] = Null /\ Apart(offered)
    THEN IF NullsFirst THEN 1 ELSE -1 ELSE 0>>

\* Mutant: the tiers in ascending order.
Above_Ascending(s, t) == s[1] < t[1]

Above(s, t) == s[1] > t[1] \/ (s[1] = t[1] /\ s[2] > t[2])

\* The tier of a retry, the lowest when there are not that many.
Tier(offered, retry) ==
  LET tiers   == {TierOf(offered, c) : c \in offered}
      rank(t) == Cardinality({s \in tiers : Above(s, t)})
      wanted  == CASE retry < 0 -> 0
                   [] retry >= Cardinality(tiers) -> Cardinality(tiers) - 1
                   [] OTHER -> retry
  IN  {c \in offered : rank(TierOf(offered, c)) = wanted}

\* Step 1 of a call by group and model; every weight is positive, so any
\* channel of the tier may be drawn.
Abilities(p) ==
  /\ pc[p] = "abilities"
  /\ \/ /\ "db" \in Faults
        /\ Answer(p, "dependency")
        /\ UNCHANGED <<cid, seen>>
     \/ /\ Offered = {}
        /\ Answer(p, "nochannel")
        /\ UNCHANGED <<cid, seen>>
     \/ /\ \E c \in Tier(Offered, req[p].retry) :
             /\ cid' = [cid EXCEPT ![p] = c]
             /\ Watch(p, row[c])
        /\ Goto(p, "load")
        /\ UNCHANGED <<at, ch, plan, resp>>
  /\ UNCHANGED <<req, dbVars, luaVars, up, client, leases>>

\* Step 1: the channel is read from the database, and must be enabled.  A
\* call that names its key is answered at once.
Load(p) ==
  LET c == row[cid[p]]
      i == req[p].direct
  IN
  /\ pc[p] = "load"
  /\ \/ /\ "db" \in Faults
        /\ Answer(p, "dependency")
     \/ /\ c = NoChannel
        /\ Answer(p, "nochannel")
     \/ /\ c # NoChannel
        /\ c.status # Enabled
        /\ Answer(p, "nokey")
     \/ /\ c # NoChannel
        /\ c.status = Enabled
        /\ i >= 0 /\ i \notin KeyIndexes(c)
        /\ Answer(p, "invalid")
     \/ /\ c # NoChannel
        /\ c.status = Enabled
        /\ i >= 0 /\ i \in KeyIndexes(c) \ EnabledKeyIndexes(c)
        /\ Answer(p, "nokey")
     \/ /\ c # NoChannel
        /\ c.status = Enabled
        /\ i >= 0 /\ i \in EnabledKeyIndexes(c)
        /\ AnswerKey(p, i, c)
     \/ /\ c # NoChannel
        /\ c.status = Enabled
        /\ i = -1
        /\ ch' = [ch EXCEPT ![p] = c]
        /\ Goto(p, "plan")
        /\ UNCHANGED <<at, plan, resp>>
  /\ UNCHANGED <<req, cid, dbVars, luaVars, up, client, leases, seen>>

\* The keys of the chosen channel the caller excludes.
Excluded(p) == {x[2] : x \in {y \in req[p].exclude : y[1] = cid[p]}}

\* Mutant: what a request leaves open stays open.
ModeOf_NoFallback(p) ==
  IF req[p].mode = "polling" /\ ~ req[p].advance THEN "peek" ELSE req[p].mode

\* A mode in the request overrides the balance option, which overrides the
\* mode of the channel; a probe reads the cursor and leaves it.
ModeOf(p) ==
  LET m == CASE req[p].mode # "default" -> req[p].mode
             [] req[p].mode = "default" /\ cid[p] \in settings.usage -> "usage"
             [] OTHER -> KeyMode[cid[p]]
  IN  IF m = "polling" /\ ~ req[p].advance THEN "peek" ELSE m

\* Mutant: a key is a candidate whatever its status.
Allowed_AnyStatus(p) ==
  LET c == ch[p]
      r == settings.rotation[cid[p]]
      n == Cardinality(KeyIndexes(c))
  IN  Candidates(r, n, KeyIndexes(c), at[p])

\* The enabled keys of the channel as loaded whose turn it was on arrival.
Allowed(p) ==
  LET c == ch[p]
      r == settings.rotation[cid[p]]
      n == Cardinality(KeyIndexes(c))
  IN  Candidates(r, n, EnabledKeyIndexes(c), at[p])

\* Steps 2 to 4: the snapshot of the moment decides on candidates and mode.
Plan(p) ==
  LET cands == Allowed(p) \ Excluded(p)
  IN
  /\ pc[p] = "plan"
  /\ \/ /\ cands = {}
        /\ Answer(p, "nokey")
     \/ /\ cands # {}
        /\ plan' = [plan EXCEPT ![p] =
             [cands |-> cands, mode |-> ModeOf(p),
              interval |-> settings.interval[cid[p]]]]
        /\ Goto(p, "pick")
        /\ UNCHANGED <<at, ch, resp>>
  /\ UNCHANGED <<req, cid, dbVars, luaVars, up, client, leases, seen>>

-----------------------------------------------------------------------------
(* The Lua script: one atomic step of Redis.                               *)

\* The member of C at place k, modulo the size of C.
Place(C, k) ==
  CHOOSE i \in C : Cardinality({j \in C : j < i}) = k % Cardinality(C)

\* The counters are decayed when more than an interval has passed since the
\* last time, by the clock of the caller.
Due(p) ==
  /\ plan[p].mode = "usage"
  /\ at[p] - lastDecay[cid[p]] > plan[p].interval

Halved(u) == [i \in Idx |-> u[i] \div 2]

Counters(p) == IF Due(p) THEN Halved(usage[cid[p]]) ELSE usage[cid[p]]

\* A counter v is compared as v * (1 + r / 20) for a random r, 0 <= r < 1;
\* both bounds are 20 times that.
Low(v)  == IF v < 0 THEN 21 * v ELSE 20 * v
High(v) == IF v > 0 THEN 21 * v ELSE 20 * v

\* Mutant: any candidate will do.
MayBeLeast_Any(u, C, i) == TRUE

\* Key i may come out as the least, the first among equals.
MayBeLeast(u, C, i) ==
  \A j \in C \ {i} :
    \/ Low(u[i]) < High(u[j])
    \/ i < j /\ u[i] = 0 /\ u[j] = 0

\* Mutant: a probe moves the cursor too.
Advances_Peek(p) == plan[p].mode \in {"polling", "peek"}

Advances(p) == plan[p].mode = "polling"

\* The keys the script may return.
MayPick(p) ==
  LET C == plan[p].cands
      m == plan[p].mode
  IN  CASE m = "polling" -> {Place(C, cursor[cid[p]] + 1)}
        [] m = "peek"    -> {Place(C, cursor[cid[p]])}
        [] m = "random"  -> C
        [] m = "usage"   -> {i \in C : MayBeLeast(Counters(p), C, i)}

\* Mutant: the moment of the decay is not kept.
Decay_Forgotten(p) ==
  /\ decays' = IF Due(p) THEN [decays EXCEPT ![cid[p]] = Append(@, at[p])] ELSE decays
  /\ real' = IF Due(p) THEN [real EXCEPT ![cid[p]] = Halved(@)] ELSE real
  /\ UNCHANGED lastDecay

Decay(p) ==
  /\ decays' = IF Due(p) THEN [decays EXCEPT ![cid[p]] = Append(@, at[p])] ELSE decays
  /\ real' = IF Due(p) THEN [real EXCEPT ![cid[p]] = Halved(@)] ELSE real
  /\ lastDecay' = IF Due(p) THEN [lastDecay EXCEPT ![cid[p]] = at[p]] ELSE lastDecay

\* The script runs and picks i.
Script(p, i) ==
  LET c == cid[p]
      debit == IF plan[p].mode = "usage" THEN req[p].est ELSE 0
  IN
  /\ i \in MayPick(p)
  /\ Decay(p)
  /\ usage' = [usage EXCEPT ![c] = [Counters(p) EXCEPT ![i] = @ + debit]]
  /\ cursor' = IF Advances(p) THEN [cursor EXCEPT ![c] = @ + 1] ELSE cursor
  /\ picks' = IF plan[p].mode = "polling"
              THEN [picks EXCEPT ![c] = Append(@, [cands |-> plan[p].cands, idx |-> i])]
              ELSE picks

\* Step 5.  Without a client, for Redis was away when the replica started,
\* every call is refused.
Pick(p) ==
  /\ pc[p] = "pick"
  /\ \/ /\ client = "nil"
        /\ Answer(p, "degraded")
        /\ UNCHANGED luaVars
     \/ /\ client = "connected"
        /\ \E i \in Idx :
             /\ Script(p, i)
             /\ IF plan[p].mode = "usage" /\ req[p].est > 0
                THEN /\ resp' = [resp EXCEPT ![p].idx = i]
                     /\ Goto(p, "lease")
                     /\ UNCHANGED <<at, ch, plan>>
                ELSE AnswerKey(p, i, ch[p])
     \/ /\ client = "connected"
        /\ "redis" \in Faults
        /\ Answer(p, "internal")
        /\ UNCHANGED luaVars
     \/ /\ client = "connected"
        /\ "lostreply" \in Faults
        /\ \E i \in Idx : Script(p, i)
        /\ Answer(p, "internal")
  /\ UNCHANGED <<req, cid, dbVars, up, client, leases, seen>>

\* Mutant: the answer promises a lease that was not written.
LeaseSet_Skipped(p) ==
  /\ pc[p] = "lease"
  /\ AnswerKey(p, resp[p].idx, ch[p])
  /\ UNCHANGED <<req, cid, dbVars, luaVars, up, client, leases, seen>>

\* Step 6: the estimate is kept under a lease the report will bring back.
LeaseSet(p) ==
  /\ pc[p] = "lease"
  /\ \/ /\ leases' = leases \cup {p}
        /\ AnswerKey(p, resp[p].idx, ch[p])
     \/ /\ "redis" \in Faults
        /\ Answer(p, "internal")
        /\ UNCHANGED leases
     \/ /\ "lostreply" \in Faults
        /\ leases' = leases \cup {p}
        /\ Answer(p, "internal")
  /\ UNCHANGED <<req, cid, dbVars, luaVars, up, client, seen>>

Step(p) == Abilities(p) \/ Load(p) \/ Plan(p) \/ Pick(p) \/ LeaseSet(p)

-----------------------------------------------------------------------------
(* What goes on meanwhile.                                                 *)

\* A second passes.
Tick ==
  /\ clock < MaxNow
  /\ clock' = clock + 1
  /\ UNCHANGED <<reqVars, row, settings, luaVars, up, client, leases, seen>>

\* The rows change; what may be served while a call goes on with them.
Write(rows) ==
  /\ row' = rows
  /\ seen' = [p \in Proc |->
       IF pc[p] \in {"idle", "abilities", "done"} THEN seen[p]
       ELSE [some |-> seen[p].some \cup Serviceable(rows[cid[p]]),
             all  |-> seen[p].all \cap Serviceable(rows[cid[p]])]]
  /\ UNCHANGED <<reqVars, settings, clock, luaVars, up, client, leases>>

\* The write-through of a key status by a report or an order (KeyState).
KeyStatus ==
  /\ "status" \in Changes
  /\ \E c \in Chan, i \in Idx, s \in Status :
       /\ CanApply(row[c], i)
       /\ Write([row EXCEPT ![c] = ApplyKeyStatus(@, i, s)])

\* new-api edits a key list and clears its statuses.
EditKeys ==
  /\ "keys" \in Changes
  /\ \E c \in Chan :
       /\ row[c] # NoChannel
       /\ \E l \in KeyLists \ {row[c].keys} :
            Write([row EXCEPT ![c].keys = l, ![c].ks = [i \in Idx |-> Enabled]])

\* The poller, or a settings endpoint, installs another snapshot.
SettingsChange ==
  /\ "settings" \in Changes
  /\ settings' \in Snapshots \ {settings}
  /\ UNCHANGED <<reqVars, row, clock, luaVars, up, client, leases, seen>>

\* A report takes the lease of p back and counts what was really used
\* (KeyState: LeaseTake and UsageIncr).
Report(p) ==
  /\ "report" \in Changes
  /\ p \in leases /\ pc[p] = "done"
  /\ leases' = leases \ {p}
  /\ usage' = [usage EXCEPT ![cid[p]][resp[p].idx] = @ + Actual - req[p].est]
  /\ real' = [real EXCEPT ![cid[p]][resp[p].idx] = @ + Actual]
  /\ UNCHANGED <<reqVars, dbVars, cursor, lastDecay, picks, decays, up, client, seen>>

\* Redis, away when the replica started, comes up.  main.go has given up on
\* it: the client stays nil.
RedisComes ==
  /\ ~ up
  /\ up' = TRUE
  /\ UNCHANGED <<reqVars, dbVars, luaVars, client, leases, seen>>

Environment ==
  \/ Tick \/ KeyStatus \/ EditKeys \/ SettingsChange \/ RedisComes
  \/ \E p \in Proc : Report(p)

\* Every call is answered and the last second has come.
Exhausted ==
  /\ \A p \in Proc : pc[p] = "done"
  /\ clock = MaxNow
  /\ UNCHANGED vars

Init ==
  /\ pc = [p \in Proc |-> "idle"]
  /\ req = [p \in Proc |-> CHOOSE c \in Call : TRUE]  \* until it arrives
  /\ at = [p \in Proc |-> 0]
  /\ cid = [p \in Proc |-> NoChan]
  /\ ch = [p \in Proc |-> NoChannel]
  /\ plan = [p \in Proc |-> NoPlan]
  /\ resp = [p \in Proc |-> NoAnswer]
  /\ row \in InitRows
  /\ settings \in Snapshots
  /\ clock = Start
  /\ up \in IF "late" \in Faults THEN BOOLEAN ELSE {TRUE}
  /\ client = IF up THEN "connected" ELSE "nil"  \* the PING of NewClient
  /\ cursor = [c \in Chan |-> 0]
  /\ usage = [c \in Chan |-> [i \in Idx |-> 0]]
  /\ lastDecay = [c \in Chan |-> 0]  \* no field: the first call decays
  /\ leases = {}
  /\ seen = [p \in Proc |-> [some |-> {}, all |-> {}]]
  /\ picks = [c \in Chan |-> <<>>]
  /\ decays = [c \in Chan |-> <<>>]
  /\ real = usage

Next ==
  \/ \E p \in Proc : Arrive(p) \/ Step(p)
  \/ Environment
  \/ Exhausted

Spec == Init /\ [][Next]_vars

-----------------------------------------------------------------------------
(* What the code must guarantee.                                           *)

Served(p) == resp[p].kind = "key"

\* An answered key could be served at some moment of the call, once its
\* channel was chosen: the channel was enabled, the key was enabled, and the
\* epoch answered is that of the list it was in.  In particular a key disabled
\* before a call arrives is not answered (package selector: no cache, a
\* write-through counts at once).
ServedWasServiceable ==
  \A p \in Proc :
    Served(p) => <<resp[p].idx, resp[p].epoch>> \in seen[p].some

\* A call is refused for want of a key only if no key of its channel that it
\* does not exclude could be served throughout (SPEC 4: an empty batch looks
\* ahead, only if all are empty the answer is ErrNoKey).  A caller who excludes
\* keys of a channel under rotation is not promised this: Select filters after
\* the look-ahead, and the batch may be empty then.
Rotates(c) == \E s \in Snapshots : HasRotation(s.rotation[c])

NoKeyMeansNone ==
  \A p \in Proc :
    /\ resp[p].kind = "nokey" /\ req[p].direct = -1
    /\ Rotates(cid[p]) => Excluded(p) = {}
    => \A x \in seen[p].all : x[1] \in Excluded(p)

\* Polling goes round: as long as the candidates stay the same, every run of
\* as many picks as there are candidates takes each of them once, whoever
\* asks, and whatever probes and other modes come between (select_key.lua:
\* INCR and modulo in one script).
RoundRobin ==
  \A c \in Chan : \A m, n \in DOMAIN picks[c] :
    LET C == picks[c][m].cands
    IN  /\ m < n /\ n - m < Cardinality(C)
        /\ \A k \in m .. n : picks[c][k].cands = C
        => picks[c][m].idx # picks[c][n].idx

\* Callers who estimate right keep the counters of the enabled keys level: none
\* is ahead of another by more than the jitter and one estimate, however their
\* selects interleave, because the pick and its debit are one step and a decay
\* takes all counters down alike (select_key.lua, usage mode).
CountersLevel ==
  \A c \in Chan : row[c] # NoChannel =>
    \A i, j \in EnabledKeyIndexes(row[c]) : \E r \in Call :
      20 * usage[c][i] <= 21 * usage[c][j] + 20 * r.est

\* Replicas that decay the same counters do it once per interval, in the
\* order of their clocks, though each passes a moment it read long before the
\* script runs (select_key.lua: last_decay).
DecayedOncePerInterval ==
  \A c \in Chan : \A n \in DOMAIN decays[c] :
    \E s \in Snapshots :
      decays[c][n] - (IF n = 1 THEN 0 ELSE decays[c][n - 1]) > s.interval[c]

\* Once every lease is back, the counters hold what was really used and no
\* estimate is left in them (lease.go: an estimate and the actual usage are
\* not counted both).  Only while the counters do not decay between a select
\* and its report: the first decay finds them zero, a second one would halve
\* an estimate the report takes off in full.
EstimatesComeBack ==
  \A c \in Chan :
    /\ Len(decays[c]) <= 1
    /\ leases = {} /\ \A p \in Proc : pc[p] # "lease"
    => usage[c] = real[c]

\* A retry goes down one priority, and no further than the lowest; a negative
\* one is a first try (SPEC 4: tiers are the distinct priorities, in descending
\* order; tierForRetry).
RetryGoesDown ==
  [][\A p \in Proc : pc[p] = "abilities" /\ pc'[p] = "load" =>
       LET all    == {PriorityOf(c) : c \in Offered}
           higher == {q \in all : q > PriorityOf(cid'[p])}
       IN  Cardinality(higher) =
             CASE req[p].retry < 0 -> 0
               [] req[p].retry >= Cardinality(all) -> Cardinality(all) - 1
               [] OTHER -> req[p].retry]_vars

\* A call that finds Redis reachable is not refused as degraded (README: no
\* restart is needed when Redis recovers).
DegradedMeansDown ==
  [][\A p \in Proc : resp'[p].kind = "degraded" /\ pc[p] = "pick" => ~ up]_vars
=============================================================================
