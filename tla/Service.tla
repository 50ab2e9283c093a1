------------------------------ MODULE Service -------------------------------
(***************************************************************************)
(* cmd/keypool: the life of one process, around the options poller it      *)
(* starts and stops.  main connects to Redis and to the database, lets the *)
(* poller refresh once, listens, waits for a signal or for the server to   *)
(* fail, drains the server and runs its deferred calls in reverse order.   *)
(*                                                                         *)
(* Handlers are OptionsPoller's: a request that was let in and is not      *)
(* answered stands for any request.                                        *)
(***************************************************************************)
EXTENDS OptionsPoller, Config

CONSTANTS
  Env,      \* the environments a process may be started in
  RedisAt,  \* where a Redis would answer: address, password and number
  Trouble   \* what may go wrong, a subset of {"open", "redis", "listen", "grace"}

ASSUME ServiceAssumption ==
  /\ Env \subseteq EnvType /\ RedisAt \subseteq RedisType
  /\ Trouble \subseteq {"open", "redis", "listen", "grace"}

VARIABLES
  cfg,       \* config.Load()
  phase,     \* where main is
  redis,     \* the client: "none" when degraded
  server,    \* the goroutine of ListenAndServe
  signalled, \* the context of NotifyContext is done
  graceOut   \* Shutdown has returned before its requests

mainVars == <<cfg, phase, redis, server, signalled, graceOut>>
service  == <<vars, mainVars>>

Gone    == {"exited", "fatal", "killed"}
\* No handler of signals is installed yet, or no more.
Mortal  == {"redis", "open", "first", "notify", "stoploop", "await", "close"}
Phase   == Mortal \cup {"serve", "shutdown", "signals"} \cup Gone

ServiceTypeOK ==
  /\ PollerTypeOK
  /\ cfg \in ConfigType
  /\ phase \in Phase
  /\ redis \in {"none", "open", "closed"}
  /\ server \in {"starting", "up", "failed", "closed"}
  /\ signalled \in BOOLEAN /\ graceOut \in BOOLEAN

Alive == phase \notin Gone
Enter(l) == phase' = l
InFlight(h) == pc[h] \notin {"idle", "done"}

-----------------------------------------------------------------------------
(* Starting.                                                               *)

\* NewClient sends one PING; without an answer the service runs degraded.
ConnectRedis ==
  /\ phase = "redis" /\ Enter("open")
  /\ \/ cfg.redis \in RedisAt /\ redis' = "open"
     \/ cfg.redis \notin RedisAt /\ UNCHANGED redis
     \/ "redis" \in Trouble /\ UNCHANGED redis
  /\ UNCHANGED <<vars, cfg, server, signalled, graceOut>>

\* A driver takes the data sources of its own database; SQLite's takes what it
\* is given for the name of a file.
MayOpen  == cfg.type \in {"sqlite", Scheme[cfg.dsn]}
MustOpen == cfg.type = Scheme[cfg.dsn] /\ "open" \notin Trouble

\* store.Open; without a store the process ends, and no deferred call runs.
OpenStore ==
  /\ phase = "open"
  /\ \/ MayOpen /\ Enter("first")
     \/ ~ MustOpen /\ Enter("fatal")
  /\ UNCHANGED <<vars, cfg, redis, server, signalled, graceOut>>

\* poller.Start refreshes before it returns, done well or not.
FirstRefresh ==
  /\ phase = "first"
  /\ Refresh(Main)
  /\ Enter(IF pc'[Main] = "done" THEN "notify" ELSE phase)
  /\ UNCHANGED <<cfg, redis, server, signalled, graceOut>>

\* NotifyContext, and the goroutine that listens.
Notify ==
  /\ phase = "notify" /\ Enter("serve")
  /\ UNCHANGED <<vars, cfg, redis, server, signalled, graceOut>>

\* ListenAndServe fails, or listens; after Shutdown it does neither.
Listen ==
  /\ Alive /\ phase \notin {"redis", "open", "first", "notify"}
  /\ server = "starting"
  /\ server' \in IF "listen" \in Trouble THEN {"up", "failed"} ELSE {"up"}
  /\ UNCHANGED <<vars, cfg, phase, redis, signalled, graceOut>>

\* Accept fails for good while requests are under way.
ServeFails ==
  /\ "listen" \in Trouble
  /\ Alive /\ server = "up"
  /\ server' = "failed"
  /\ UNCHANGED <<vars, cfg, phase, redis, signalled, graceOut>>

-----------------------------------------------------------------------------
(* Serving.                                                                *)

\* authMW: without a token nobody is let in.
Accept(h) ==
  /\ Alive /\ server = "up"
  /\ cfg.token
  /\ Arrive(h)
  /\ UNCHANGED mainVars

\* The poller's loop and the handlers go on until the process is gone.
Work ==
  /\ Alive
  /\ \/ \E p \in Handler \cup {Loop} : Refresh(p)
     \/ \E h \in Handler : Upsert(h)
     \/ Tick \/ Exit
  /\ UNCHANGED mainVars

\* The first signal ends the wait; those during Shutdown are swallowed; where
\* no handler of signals is installed it kills the process.
Signal ==
  /\ \/ phase \in Mortal /\ Enter("killed") /\ UNCHANGED signalled
     \/ phase = "serve" /\ signalled' = TRUE /\ UNCHANGED phase
  /\ UNCHANGED <<vars, cfg, redis, server, graceOut>>

\* errCh: log.Fatalf.
ServerError ==
  /\ phase = "serve" /\ server = "failed"
  /\ Enter("fatal")
  /\ UNCHANGED <<vars, cfg, redis, server, signalled, graceOut>>

-----------------------------------------------------------------------------
(* Ending.                                                                 *)

\* Shutdown closes the listener first, or keeps it from being opened.
BeginShutdown ==
  /\ phase = "serve" /\ signalled
  /\ Enter("shutdown")
  /\ server' = IF server = "failed" THEN server ELSE "closed"
  /\ UNCHANGED <<vars, cfg, redis, signalled, graceOut>>

\* Mutant: Close instead of Shutdown.
Drained_Close ==
  /\ phase = "shutdown"
  /\ Enter("signals")
  /\ UNCHANGED <<vars, cfg, redis, server, signalled, graceOut>>

\* Every request that was let in has been answered.
Drained ==
  /\ phase = "shutdown"
  /\ \A h \in Handler : ~ InFlight(h)
  /\ Enter("signals")
  /\ UNCHANGED <<vars, cfg, redis, server, signalled, graceOut>>

\* The 10 s of Shutdown's context are over.
GraceEnds ==
  /\ "grace" \in Trouble
  /\ phase = "shutdown" /\ \E h \in Handler : InFlight(h)
  /\ Enter("signals")
  /\ graceOut' = TRUE
  /\ UNCHANGED <<vars, cfg, redis, server, signalled>>

\* defer stop().
StopNotify ==
  /\ phase = "signals" /\ Enter("stoploop")
  /\ UNCHANGED <<vars, cfg, redis, server, signalled, graceOut>>

\* defer poller.Stop(): the stop channel is closed, the loop awaited.
StopPoller ==
  /\ phase = "stoploop" /\ Enter("await")
  /\ Stop
  /\ UNCHANGED <<cfg, redis, server, signalled, graceOut>>

LoopEnded ==
  /\ phase = "await" /\ pc[Loop] = "exited"
  /\ Enter("close")
  /\ UNCHANGED <<vars, cfg, redis, server, signalled, graceOut>>

\* defer rdb.Close(), registered when there was a client; main returns.
CloseRedis ==
  /\ phase = "close" /\ Enter("exited")
  /\ redis' = IF redis = "open" THEN "closed" ELSE redis
  /\ UNCHANGED <<vars, cfg, server, signalled, graceOut>>

MainStep ==
  \/ ConnectRedis \/ OpenStore \/ FirstRefresh \/ Notify
  \/ ServerError \/ BeginShutdown \/ Drained \/ GraceEnds
  \/ StopNotify \/ StopPoller \/ LoopEnded \/ CloseRedis

\* Others write the table; what they do after the process is gone is nobody's.
WriteTable == Alive /\ Edit /\ UNCHANGED mainVars

Over == ~ Alive /\ UNCHANGED service

ServiceInit ==
  /\ Init
  /\ cfg \in {Load(e) : e \in Env}
  /\ phase = "redis" /\ redis = "none" /\ server = "starting"
  /\ signalled = FALSE /\ graceOut = FALSE

ServiceNext ==
  \/ MainStep \/ Listen \/ ServeFails \/ Signal \/ Work
  \/ \E h \in Handler : Accept(h)
  \/ WriteTable \/ Over

\* main and the handlers go on; the ticker fires; a database that answers now
\* and then answers the loop now and then; Go's select takes the closed channel
\* if it is offered again and again.
Fairness ==
  LET Runs(A) == Alive /\ A /\ UNCHANGED mainVars
  IN  /\ WF_service(MainStep)
      /\ WF_service(Runs(Tick)) /\ WF_service(Runs(Merge(Loop)))
      /\ WF_service(Runs(Install(Loop)))
      /\ \A h \in Handler : WF_service(Runs(Refresh(h))) /\ WF_service(Runs(Upsert(h)))
      /\ SF_service(Runs(Read(Loop))) /\ SF_service(Runs(Exit))

ServiceSpec == ServiceInit /\ [][ServiceNext]_service /\ Fairness

-----------------------------------------------------------------------------

\* Unless its grace runs out, Shutdown leaves nothing behind: what runs after it
\* (the poller's end, the closing of the Redis client, the end of the process)
\* finds every request that was let in answered, and lets none in any more.
GracefulExit ==
  phase \in {"signals", "stoploop", "await", "close", "exited"} /\ ~ graceOut =>
    \A h \in Handler : ~ InFlight(h)

\* Once nobody writes the table any more, the settings follow it for good while
\* the service serves, though polls fail, refreshes overtake each other and old
\* snapshots are installed late (Start's loop; the README: options take effect
\* within an interval).
SettingsFollowTable ==
  <>[](phase = "serve" => \A o \in Option :
         snapshot # NoSnapshot
         /\ (table[o] \in Val => snapshot[o] = table[o]))

\* A signal ends the process, though a refresh is under way, a tick is due or
\* the listener is not up yet (Shutdown has a timeout; Stop waits for the loop
\* and must come back).
SignalEndsService == signalled ~> phase \in Gone
=============================================================================
