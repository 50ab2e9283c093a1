------------------------------- MODULE Config -------------------------------
(***************************************************************************)
(* config.Load: what the process makes of its environment.  A variable has *)
(* a value or is NoValue; a set but empty one counts as absent wherever    *)
(* the code compares with the empty string.  Of a data source only the     *)
(* database it names is kept, of a Redis URL what parseRedisURL finds.     *)
(***************************************************************************)
EXTENDS Integers

CONSTANTS
  NoValue,     \* not in the environment, or empty
  Dsn,         \* data sources
  Scheme,      \* the database each of them names
  DefaultDsn,
  Addr,        \* Redis addresses
  DefaultAddr,
  Pass,        \* Redis passwords
  Url          \* the values of REDIS_CONN_STRING

DBTypes == {"mysql", "postgres", "sqlite"}

RedisType == [addr : Addr, pass : Pass \cup {NoValue}, db : Nat]

EnvType ==
  [SQL_DSN : Dsn \cup {NoValue}, DATABASE_DSN : Dsn \cup {NoValue},
   DATABASE_TYPE : DBTypes \cup {"other", NoValue},
   REDIS_CONN_STRING : Url \cup {NoValue},
   REDIS_ADDR : Addr \cup {NoValue}, REDIS_PASS : Pass \cup {NoValue}, REDIS_DB : Nat,
   AUTH_TOKEN : BOOLEAN]   \* FALSE: set to the empty string

ConfigType ==
  [type : DBTypes \cup {"other"}, dsn : Dsn, redis : RedisType, token : BOOLEAN]

ASSUME ConfigAssumption ==
  /\ Scheme \in [Dsn -> DBTypes]
  /\ DefaultDsn \in Dsn /\ Scheme[DefaultDsn] = "mysql"
  /\ DefaultAddr \in Addr
  /\ Url \subseteq RedisType
  /\ NoValue \notin Dsn /\ NoValue \notin Addr /\ NoValue \notin Pass /\ NoValue \notin Url
  /\ NoValue \notin DBTypes \cup {"other"}

First(a, b) == IF a # NoValue THEN a ELSE b

\* SQL_DSN goes before DATABASE_DSN.
DatabaseDSN(env) == First(First(env.SQL_DSN, env.DATABASE_DSN), DefaultDsn)

\* An explicit type goes before an inferred one, and only SQL_DSN is looked at
\* to infer one.
DatabaseType(env) ==
  First(env.DATABASE_TYPE, IF env.SQL_DSN # NoValue THEN Scheme[env.SQL_DSN] ELSE "mysql")

\* REDIS_CONN_STRING replaces address, password and number together.
Redis(env) ==
  IF env.REDIS_CONN_STRING # NoValue THEN env.REDIS_CONN_STRING
  ELSE [addr |-> First(env.REDIS_ADDR, DefaultAddr), pass |-> env.REDIS_PASS,
        db |-> env.REDIS_DB]

Load(env) ==
  [type |-> DatabaseType(env), dsn |-> DatabaseDSN(env), redis |-> Redis(env),
   token |-> env.AUTH_TOKEN]
=============================================================================
