--------------------------- MODULE ServiceProofs ---------------------------
(***************************************************************************)
(* Theorems about Service, for every number of handlers, every set of      *)
(* options and texts, every environment.                                   *)
(***************************************************************************)
EXTENDS Service, TLAPS

-----------------------------------------------------------------------------
(* Types.                                                                  *)

\* main, the loop and the handlers are three (Start, the goroutines).
LEMMA Refreshers ==
  /\ Main \in Refresher /\ Loop \in Refresher /\ Handler \subseteq Refresher
  /\ Main # Loop /\ Main \notin Handler /\ Loop \notin Handler
BY PollerAssumption DEF Refresher, Main, Loop

\* What the process makes of its environment is a configuration (config.Load).
LEMMA LoadType == ASSUME NEW e \in EnvType PROVE Load(e) \in ConfigType
<1>1. DatabaseDSN(e) \in Dsn
  BY ConfigAssumption DEF DatabaseDSN, First, EnvType
<1>2. DatabaseType(e) \in DBTypes \cup {"other"}
  <2>1. "mysql" \in DBTypes
    BY DEF DBTypes
  <2>2. e.SQL_DSN # NoValue => Scheme[e.SQL_DSN] \in DBTypes
    BY ConfigAssumption DEF EnvType
  <2>3. e.DATABASE_TYPE # NoValue => e.DATABASE_TYPE \in DBTypes \cup {"other"}
    BY DEF EnvType
  <2>. QED BY <2>1, <2>2, <2>3 DEF DatabaseType, First
<1>3. Redis(e) \in RedisType
  <2>1. CASE e.REDIS_CONN_STRING # NoValue
    BY <2>1, ConfigAssumption DEF Redis, EnvType
  <2>2. CASE e.REDIS_CONN_STRING = NoValue
    BY <2>2, ConfigAssumption DEF Redis, First, EnvType, RedisType
  <2>. QED BY <2>1, <2>2
<1>4. e.AUTH_TOKEN \in BOOLEAN
  BY DEF EnvType
<1>. QED BY <1>1, <1>2, <1>3, <1>4 DEF Load, ConfigType

\* A refresh rebuilds a whole snapshot (parseSettings).
LEMMA ParsedType ==
  ASSUME NEW texts \in Table, NEW before \in Snapshot \cup {NoSnapshot}
  PROVE  Parsed(texts, before) \in Snapshot
<1>1. ASSUME NEW o \in Option
      PROVE  /\ texts[o] \in Val => texts[o] \in Val \cup {Default}
             /\ before # NoSnapshot => before[o] \in Val \cup {Default}
  BY DEF Snapshot
<1>. QED BY <1>1 DEF Parsed, Snapshot

\* The poller's steps keep its variables of their types.
LEMMA PollerStepType ==
  ASSUME PollerTypeOK,
         \/ \E p \in Refresher : Refresh(p)
         \/ \E h \in Handler : Arrive(h) \/ Upsert(h)
         \/ Tick \/ Stop \/ Exit \/ Edit
  PROVE  PollerTypeOK'
<1>. USE DEF PollerTypeOK
<1>1. ASSUME NEW p \in Refresher, Read(p) PROVE PollerTypeOK'
  BY <1>1 DEF Read, Goto
<1>2. ASSUME NEW p \in Refresher, ReadFails(p) PROVE PollerTypeOK'
  BY <1>2 DEF ReadFails, Finish, Goto
<1>3. ASSUME NEW p \in Refresher, Merge(p) PROVE PollerTypeOK'
  BY <1>3 DEF Merge, Goto
<1>4. ASSUME NEW p \in Refresher, Install(p) PROVE PollerTypeOK'
  <2>1. snapshot' \in Snapshot /\ snapVer' \in 0 .. MaxWrites
    BY <1>4, ParsedType DEF Install
  <2>. QED BY <1>4, <2>1 DEF Install, Finish, Goto
<1>5. ASSUME NEW h \in Handler, Arrive(h) PROVE PollerTypeOK'
  BY <1>5 DEF Arrive, Goto
<1>6. ASSUME NEW h \in Handler, Upsert(h) PROVE PollerTypeOK'
  <2>1. version' \in 0 .. MaxWrites /\ put' \in [Handler -> 0 .. MaxWrites]
    BY <1>6, PollerAssumption DEF Upsert
  <2>2. table' \in Table
    BY <1>6 DEF Upsert, Table
  <2>. QED BY <1>6, <2>1, <2>2 DEF Upsert, Finish, Goto
<1>7. CASE Tick
  BY <1>7 DEF Tick, Goto
<1>8. CASE Stop
  BY <1>8 DEF Stop
<1>9. CASE Exit
  BY <1>9 DEF Exit, Goto
<1>10. CASE Edit
  <2>1. version' \in 0 .. MaxWrites
    BY <1>10, PollerAssumption DEF Edit
  <2>2. table' \in Table
    BY <1>10 DEF Edit, Table
  <2>. QED BY <1>10, <2>1, <2>2 DEF Edit
<1>. QED BY <1>1, <1>2, <1>3, <1>4, <1>5, <1>6, <1>7, <1>8, <1>9, <1>10 DEF Refresh

\* Only main moves main's state, and the steps of the others are the poller's.
LEMMA StepService ==
  ASSUME ServiceTypeOK, [ServiceNext]_service
  PROVE  ServiceTypeOK'
<1>1. PollerTypeOK'
  <2>1. CASE UNCHANGED vars
    BY <2>1 DEF vars, ServiceTypeOK, PollerTypeOK
  <2>2. \/ UNCHANGED vars
        \/ \E p \in Refresher : Refresh(p)
        \/ \E h \in Handler : Arrive(h) \/ Upsert(h)
        \/ Tick \/ Stop \/ Exit \/ Edit
    BY Refreshers
    DEF ServiceNext, MainStep, ConnectRedis, OpenStore, FirstRefresh, Notify, ServerError,
        BeginShutdown, Drained, GraceEnds, StopNotify, StopPoller, LoopEnded, CloseRedis,
        Listen, ServeFails, Signal, Work, Accept, WriteTable, Over, service
  <2>. QED BY <2>1, <2>2, PollerStepType DEF ServiceTypeOK
<1>2. /\ cfg' \in ConfigType
      /\ phase' \in Phase
      /\ redis' \in {"none", "open", "closed"}
      /\ server' \in {"starting", "up", "failed", "closed"}
      /\ signalled' \in BOOLEAN /\ graceOut' \in BOOLEAN
  <2>. USE DEF ServiceTypeOK, Phase, Mortal, Gone, Enter
  <2>1. CASE MainStep
    BY <2>1 DEF MainStep, ConnectRedis, OpenStore, FirstRefresh, Notify, ServerError,
       BeginShutdown, Drained, GraceEnds, StopNotify, StopPoller, LoopEnded, CloseRedis
  <2>2. CASE Listen \/ ServeFails \/ Signal
    BY <2>2 DEF Listen, ServeFails, Signal
  <2>3. ASSUME Work \/ (\E h \in Handler : Accept(h)) \/ WriteTable \/ Over \/ UNCHANGED service
        PROVE  UNCHANGED mainVars
    BY <2>3 DEF Work, Accept, WriteTable, Over, service
  <2>. QED BY <2>1, <2>2, <2>3 DEF ServiceNext, mainVars
<1>. QED BY <1>1, <1>2 DEF ServiceTypeOK

\* The process starts with every variable of its type (main, newPoller).
LEMMA InitService == ServiceInit => ServiceTypeOK
<1>. SUFFICES ASSUME ServiceInit PROVE ServiceTypeOK
  OBVIOUS
<1>1. cfg \in ConfigType
  BY LoadType, ServiceAssumption DEF ServiceInit
<1>2. PollerTypeOK
  <2>1. 0 \in 0 .. MaxWrites
    BY PollerAssumption
  <2>2. table \in Table
    BY DEF ServiceInit, Init
  <2>. QED BY <2>1, <2>2 DEF ServiceInit, Init, PollerTypeOK
<1>. QED BY <1>1, <1>2 DEF ServiceInit, ServiceTypeOK, Phase, Mortal

\* The types hold from start to end, for every environment and every trouble.
THEOREM ServiceTypeCorrect == ServiceSpec => []ServiceTypeOK
<1>1. ServiceInit => ServiceTypeOK
  BY InitService
<1>2. ServiceTypeOK /\ [ServiceNext]_service => ServiceTypeOK'
  BY StepService
<1>. QED BY <1>1, <1>2, PTL DEF ServiceSpec

-----------------------------------------------------------------------------
(* Shutdown.                                                               *)

Drainage == {"signals", "stoploop", "await", "close", "exited"}

\* Past Shutdown nothing listens, and only the end of its grace leaves requests.
DrainInv ==
  /\ phase \in Drainage \cup {"shutdown"} => server \in {"closed", "failed"}
  /\ phase \in Drainage /\ ~ graceOut => \A h \in Handler : ~ InFlight(h)

\* A refresh is a step of a request in flight, the poller's loop is no request,
\* and nobody else is let in once the server is closed (Shutdown).
LEMMA StepDrain ==
  ASSUME ServiceTypeOK, DrainInv, [ServiceNext]_service
  PROVE  DrainInv'
<1>. USE DEF DrainInv, Drainage, ServiceTypeOK
<1>1. CASE MainStep
  <2>1. ASSUME ConnectRedis \/ OpenStore \/ FirstRefresh \/ Notify \/ ServerError
        PROVE  DrainInv'
    BY <2>1 DEF ConnectRedis, OpenStore, FirstRefresh, Notify, ServerError, Enter
  <2>2. CASE BeginShutdown
    BY <2>2 DEF BeginShutdown, Enter
  <2>3. CASE Drained
    BY <2>3 DEF Drained, Enter, InFlight, vars
  <2>4. CASE GraceEnds
    BY <2>4 DEF GraceEnds, Enter
  <2>5. CASE StopPoller
    BY <2>5 DEF StopPoller, Stop, Enter, InFlight
  <2>6. CASE StopNotify \/ LoopEnded \/ CloseRedis
    BY <2>6 DEF StopNotify, LoopEnded, CloseRedis, Enter, InFlight, vars
  <2>. QED BY <1>1, <2>1, <2>2, <2>3, <2>4, <2>5, <2>6 DEF MainStep
<1>2. CASE Listen \/ ServeFails \/ Signal
  BY <1>2 DEF Listen, ServeFails, Signal, Enter, InFlight, vars, Mortal, Gone
<1>3. CASE Work
  <2>1. UNCHANGED mainVars
    BY <1>3 DEF Work
  <2>2. ASSUME \A h \in Handler : ~ InFlight(h) PROVE \A h \in Handler : ~ InFlight(h)'
    <3>1. ASSUME NEW p \in Handler \cup {Loop}, Refresh(p)
          PROVE  p = Loop /\ \A h \in Handler : pc'[h] = pc[h]
      <4>1. pc[p] \in {"read", "merge", "install"}
        BY <3>1 DEF Refresh, Read, ReadFails, Merge, Install
      <4>2. p = Loop
        BY <2>2, <3>1, <4>1 DEF InFlight
      <4>. QED BY <3>1, <4>2, Refreshers
           DEF Refresh, Read, ReadFails, Merge, Install, Finish, Goto, PollerTypeOK
    <3>2. ASSUME NEW h \in Handler, Upsert(h) PROVE FALSE
      BY <2>2, <3>2 DEF Upsert, InFlight
    <3>3. ASSUME Tick \/ Exit PROVE \A h \in Handler : pc'[h] = pc[h]
      BY <3>3, Refreshers DEF Tick, Exit, Goto, PollerTypeOK
    <3>4. \A h \in Handler : pc'[h] = pc[h]
      BY <1>3, <3>1, <3>2, <3>3 DEF Work
    <3>. QED BY <2>2, <3>4 DEF InFlight
  <2>. QED BY <2>1, <2>2 DEF mainVars
<1>4. ASSUME NEW h \in Handler, Accept(h) PROVE DrainInv'
  BY <1>4 DEF Accept, mainVars
<1>5. CASE WriteTable
  BY <1>5 DEF WriteTable, Edit, mainVars, InFlight
<1>6. CASE Over \/ UNCHANGED service
  BY <1>6 DEF Over, service, mainVars, vars, InFlight
<1>. QED BY <1>1, <1>2, <1>3, <1>4, <1>5, <1>6 DEF ServiceNext

\* However many requests are under way when the signal comes, what runs after
\* Shutdown finds them answered, unless its grace has run out.
THEOREM ExitIsGraceful == ServiceSpec => []GracefulExit
<1>1. ServiceInit => ServiceTypeOK /\ DrainInv
  BY InitService DEF ServiceInit, DrainInv, Drainage
<1>2. ServiceTypeOK /\ DrainInv /\ [ServiceNext]_service => (ServiceTypeOK /\ DrainInv)'
  BY StepService, StepDrain
<1>3. DrainInv => GracefulExit
  BY DEF DrainInv, Drainage, GracefulExit
<1>. QED BY <1>1, <1>2, <1>3, PTL DEF ServiceSpec

-----------------------------------------------------------------------------
(* Settings whose text does not parse.                                     *)

HandlersIdle == \A h \in Handler : pc[h] = "idle"

\* Nobody refreshes before main has; and while no handler does, the snapshot the
\* loop has taken to merge into is the one in force.
RefreshInv ==
  /\ stopping => pc[Main] = "done"
  /\ pc[Main] # "done" => snapshot = NoSnapshot /\ pc[Loop] = "idle" /\ HandlersIdle
  /\ HandlersIdle /\ pc[Loop] = "install" => old[Loop] = snapshot

\* The steps of the poller, by who takes them (main, the loop, the handlers).
LEMMA PollerSteps ==
  ASSUME [ServiceNext]_service
  PROVE  \/ UNCHANGED vars
         \/ Refresh(Main) \/ Refresh(Loop)
         \/ \E h \in Handler : Refresh(h) \/ Arrive(h) \/ Upsert(h)
         \/ Tick \/ Stop \/ Exit \/ Edit
BY DEF ServiceNext, MainStep, ConnectRedis, OpenStore, FirstRefresh, Notify, ServerError,
       BeginShutdown, Drained, GraceEnds, StopNotify, StopPoller, LoopEnded, CloseRedis,
       Listen, ServeFails, Signal, Work, Accept, WriteTable, Over, service

\* The loop alone moves the snapshot under itself (refresh).
LEMMA StepRefresh ==
  ASSUME PollerTypeOK, RefreshInv, [ServiceNext]_service
  PROVE  RefreshInv'
<1>. USE Refreshers DEF RefreshInv, HandlersIdle, PollerTypeOK
<1>1. CASE UNCHANGED vars
  BY <1>1 DEF vars
<1>2. CASE Refresh(Main)
  <2>1. CASE Read(Main) \/ Merge(Main)
    BY <2>1 DEF Read, Merge, Goto
  <2>2. CASE ReadFails(Main) \/ Install(Main)
    BY <2>2 DEF ReadFails, Install, Finish, Goto
  <2>. QED BY <1>2, <2>1, <2>2 DEF Refresh
<1>3. CASE Refresh(Loop)
  <2>1. CASE Read(Loop) \/ Merge(Loop)
    BY <2>1 DEF Read, Merge, Goto
  <2>2. CASE ReadFails(Loop) \/ Install(Loop)
    BY <2>2 DEF ReadFails, Install, Finish, Goto
  <2>. QED BY <1>3, <2>1, <2>2 DEF Refresh
<1>4. ASSUME NEW h \in Handler, Refresh(h) PROVE RefreshInv'
  <2>1. /\ pc[h] # "idle" /\ pc'[h] # "idle"
        /\ pc'[Main] = pc[Main] /\ UNCHANGED stopping
    BY <1>4 DEF Refresh, Read, ReadFails, Merge, Install, Finish, Goto
  <2>. QED BY <2>1
<1>5. ASSUME NEW h \in Handler, Arrive(h) \/ Upsert(h) PROVE RefreshInv'
  <2>1. /\ pc'[h] # "idle"
        /\ pc'[Main] = pc[Main] /\ UNCHANGED stopping
        /\ pc[Main] = "done" \/ pc[h] # "idle"
    BY <1>5 DEF Arrive, Upsert, Finish, Goto
  <2>. QED BY <2>1
<1>6. CASE Tick \/ Stop \/ Exit \/ Edit
  BY <1>6 DEF Tick, Stop, Exit, Edit, Goto
<1>. QED BY <1>1, <1>2, <1>3, <1>4, <1>5, <1>6, PollerSteps

\* Only an Install changes the settings; the loop's merges into the settings in
\* force, and a text that does not parse keeps them.
LEMMA StepKeeps ==
  ASSUME PollerTypeOK, RefreshInv, [ServiceNext]_service, HandlersIdle,
         NEW o \in Option, snapshot # NoSnapshot, Kind[o] \in {"codes", "config"},
         snapshot'[o] # snapshot[o]
  PROVE  got[Loop][o] # Bad
<1>. USE DEF PollerTypeOK
<1>1. CASE Refresh(Main)
  <2>1. pc[Main] # "done"
    BY <1>1 DEF Refresh, Read, ReadFails, Merge, Install
  <2>. QED BY <2>1 DEF RefreshInv
<1>2. CASE Refresh(Loop)
  <2>1. Install(Loop)
    BY <1>2 DEF Refresh, Read, ReadFails, Merge
  <2>2. old[Loop] = snapshot /\ snapshot' = Parsed(got[Loop], old[Loop])
    BY <2>1 DEF Install, RefreshInv
  <2>3. ASSUME got[Loop][o] = Bad PROVE snapshot'[o] = snapshot[o]
    <3>1. got[Loop][o] \notin Val /\ KeepsOld(o, got[Loop][o])
      BY <2>3, PollerAssumption DEF KeepsOld
    <3>. QED BY <2>2, <3>1 DEF Parsed
  <2>. QED BY <2>3
<1>3. ASSUME NEW h \in Handler, Refresh(h) \/ Upsert(h) PROVE FALSE
  BY <1>3 DEF Refresh, Read, ReadFails, Merge, Install, Upsert, HandlersIdle
<1>4. ASSUME \/ UNCHANGED vars
             \/ \E h \in Handler : Arrive(h)
             \/ Tick \/ Stop \/ Exit \/ Edit
      PROVE  FALSE
  BY <1>4 DEF vars, Arrive, Tick, Stop, Exit, Edit
<1>. QED BY <1>1, <1>2, <1>3, <1>4, PollerSteps

\* However often the table is written and polled, and wherever polls fail, a
\* text that does not parse leaves its setting alone while the loop refreshes.
THEOREM BadTextHarmless == ServiceSpec => BadTextKeepsSetting
<1>. DEFINE Inv == ServiceTypeOK /\ RefreshInv
<1>1. ServiceInit => Inv
  BY InitService, Refreshers DEF ServiceInit, Init, RefreshInv, HandlersIdle
<1>2. Inv /\ [ServiceNext]_service => Inv'
  BY StepService, StepRefresh DEF ServiceTypeOK
<1>3. Inv /\ [ServiceNext]_service =>
        [(\A p \in Handler : pc[p] = "idle") => \A o \in Option :
           /\ snapshot # NoSnapshot /\ Kind[o] \in {"codes", "config"}
           /\ snapshot'[o] # snapshot[o]
           => got[Loop][o] # Bad]_vars
  BY StepKeeps DEF ServiceTypeOK, HandlersIdle
<1>. QED BY <1>1, <1>2, <1>3, PTL DEF ServiceSpec, BadTextKeepsSetting
=============================================================================
