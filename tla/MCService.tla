----------------------------- MODULE MCService ------------------------------
(* Small instances of Service.                                             *)
EXTENDS Service, TLC

CONSTANTS h1, v1, mdsn, pdsn, local, remote

\* The two options that differ most in a refresh: keywords, which keep their
\* value when they are gone, and a configuration, which keeps it when its text
\* does not parse.
TwoOptions == {"AutomaticDisableKeywords", "keypool.rotation"}
MCKind == [o \in Option |-> IF o = "AutomaticDisableKeywords" THEN "words" ELSE "config"]

OneHandler == {h1}
OneVal     == {v1}

MCDsn    == {mdsn, pdsn}
MCScheme == [d \in Dsn |-> IF d = mdsn THEN "mysql" ELSE "postgres"]
MCAddr   == {local, remote}
RemoteRedis == [addr |-> remote, pass |-> NoValue, db |-> 1]
MCUrl    == {RemoteRedis}
MCRedisAt == {RemoteRedis}

Nothing ==
  [SQL_DSN |-> NoValue, DATABASE_DSN |-> NoValue, DATABASE_TYPE |-> NoValue,
   REDIS_CONN_STRING |-> NoValue, REDIS_ADDR |-> NoValue, REDIS_PASS |-> NoValue,
   REDIS_DB |-> 0, AUTH_TOKEN |-> TRUE]

\* new-api's own variables; a data source whose type nobody gave and nobody
\* infers; a file that SQLite makes of any name, beside a Redis nobody named
\* and a token that is empty.
MCEnv ==
  {[Nothing EXCEPT !.SQL_DSN = pdsn, !.REDIS_CONN_STRING = RemoteRedis],
   [Nothing EXCEPT !.DATABASE_DSN = pdsn, !.REDIS_ADDR = remote],
   [Nothing EXCEPT !.DATABASE_TYPE = "sqlite", !.AUTH_TOKEN = FALSE]}
=============================================================================
