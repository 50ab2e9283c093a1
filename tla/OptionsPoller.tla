--------------------------- MODULE OptionsPoller ----------------------------
(***************************************************************************)
(* store.OptionsPoller: the snapshot of new-api's options table that every *)
(* request reads.  The loop rebuilds it once per interval; the endpoints   *)
(* that write an option or ask for a reload rebuild it on the spot.  A     *)
(* refresh takes three steps and no lock: the table is read, the snapshot  *)
(* of the moment is taken as the old one, the new one is installed.        *)
(*                                                                         *)
(* Only one option of each kind is kept apart, and of its text only        *)
(* whether it can be parsed.                                               *)
(***************************************************************************)
EXTENDS Integers, FiniteSets

CONSTANTS
  Handler,     \* requests PUT balance, PUT rotation, POST reload
  Option,      \* option keys
  Kind,        \* the kind of each option
  Val,         \* texts that parse
  Bad,         \* a text that does not
  Unset,       \* no such row
  Default,     \* what an option is when it is unset and never was set
  NoSnapshot,  \* before the first refresh
  MaxWrites,   \* bound: how often the table is written
  Faults       \* a subset of {"db"}

\* switch: AutomaticDisableChannelEnabled; codes: AutomaticDisableStatusCodes;
\* words: AutomaticDisableKeywords; config: keypool.balance and keypool.rotation.
Kinds == {"switch", "codes", "words", "config"}

Main == "main"   \* Start refreshes once before it launches the loop
Loop == "loop"

ASSUME PollerAssumption ==
  /\ {Main, Loop} \cap Handler = {}
  /\ Kind \in [Option -> Kinds]
  /\ {Bad, Unset, Default} \cap Val = {} /\ Bad # Unset /\ Bad # Default
  /\ MaxWrites \in Nat /\ Faults \subseteq {"db"}

Refresher == Handler \cup {Main, Loop}
Table == [Option -> Val \cup {Bad, Unset}]

VARIABLES
  pc,        \* what each refresher does next
  got,       \* the table as it read it
  old,       \* the snapshot it merges into
  put,       \* the version of the table a handler wrote, 0 when it wrote none
  resp,      \* a handler's answer
  table,     \* the options table
  snapshot,  \* the settings in force
  stopping,  \* main has called Stop
  \* history, read by properties only
  version,   \* how often the table was written
  gotVer,    \* the version each refresher read
  snapVer    \* the version the snapshot was built from

vars == <<pc, got, old, put, resp, table, snapshot, stopping, version, gotVer, snapVer>>

Snapshot == [Option -> Val \cup {Default}]

\* What the code declares of its variables.
PollerTypeOK ==
  /\ pc \in [Refresher -> {"idle", "write", "read", "merge", "install", "done", "exited"}]
  /\ got \in [Refresher -> Table]
  /\ old \in [Refresher -> Snapshot \cup {NoSnapshot}]
  /\ put \in [Handler -> 0 .. MaxWrites]
  /\ resp \in [Handler -> {"pending", "ok", "unavailable"}]
  /\ table \in Table
  /\ snapshot \in Snapshot \cup {NoSnapshot}
  /\ stopping \in BOOLEAN
  /\ version \in 0 .. MaxWrites
  /\ gotVer \in [Refresher -> 0 .. MaxWrites]
  /\ snapVer \in 0 .. MaxWrites

Goto(p, l) == pc' = [pc EXCEPT ![p] = l]

-----------------------------------------------------------------------------
(* parseSettings.                                                          *)

\* Where an option without a usable text keeps its old value: a text that
\* does not parse, and keywords that are gone.
KeepsOld(o, text) ==
  \/ Kind[o] \in {"codes", "config"} /\ text = Bad
  \/ Kind[o] = "words" /\ text = Unset

\* Mutant: what does not parse resets the option.
Parsed_Reset(texts, before) ==
  [o \in Option |-> IF texts[o] \in Val THEN texts[o] ELSE Default]

\* Mutant: what does not parse is taken as it stands.
Parsed_Raw(texts, before) ==
  [o \in Option |-> IF texts[o] = Unset THEN Default ELSE texts[o]]

Parsed(texts, before) ==
  [o \in Option |->
     CASE texts[o] \in Val -> texts[o]
       [] texts[o] \notin Val /\ KeepsOld(o, texts[o]) /\ before # NoSnapshot -> before[o]
       [] OTHER -> Default]

-----------------------------------------------------------------------------
(* A refresh.                                                              *)

Finish(p, answer) ==
  /\ Goto(p, IF p = Loop THEN "idle" ELSE "done")
  /\ resp' = IF p \in Handler THEN [resp EXCEPT ![p] = answer] ELSE resp

\* PollOptions: the whole table at once.
Read(p) ==
  /\ pc[p] = "read"
  /\ got' = [got EXCEPT ![p] = table]
  /\ gotVer' = [gotVer EXCEPT ![p] = version]
  /\ Goto(p, "merge")
  /\ UNCHANGED <<old, put, resp, table, snapshot, stopping, version, snapVer>>

\* Mutant: the loop ends with the first poll that fails.
ReadFails_EndsLoop(p) ==
  /\ pc[p] = "read"
  /\ "db" \in Faults
  /\ IF p = Loop THEN Goto(p, "exited") /\ UNCHANGED resp
     ELSE Finish(p, "unavailable")
  /\ UNCHANGED <<got, old, put, table, snapshot, stopping, version, gotVer, snapVer>>

\* The snapshot stays; the loop only logs the error.
ReadFails(p) ==
  /\ pc[p] = "read"
  /\ "db" \in Faults
  /\ Finish(p, "unavailable")
  /\ UNCHANGED <<got, old, put, table, snapshot, stopping, version, gotVer, snapVer>>

\* GetSettings.
Merge(p) ==
  /\ pc[p] = "merge"
  /\ old' = [old EXCEPT ![p] = snapshot]
  /\ Goto(p, "install")
  /\ UNCHANGED <<got, put, resp, table, snapshot, stopping, version, gotVer, snapVer>>

\* parseSettings and UpdateSettings.
Install(p) ==
  /\ pc[p] = "install"
  /\ snapshot' = Parsed(got[p], old[p])
  /\ snapVer' = gotVer[p]
  /\ Finish(p, "ok")
  /\ UNCHANGED <<got, old, put, table, stopping, version, gotVer>>

Refresh(p) == Read(p) \/ ReadFails(p) \/ Merge(p) \/ Install(p)

-----------------------------------------------------------------------------
(* The loop, the handlers and the writers of the table.                    *)

\* The ticker of the loop, launched by Start, fires.
Tick ==
  /\ pc[Main] = "done" /\ pc[Loop] = "idle"
  /\ Goto(Loop, "read")
  /\ UNCHANGED <<got, old, put, resp, table, snapshot, stopping, version, gotVer, snapVer>>

\* main has returned from Shutdown and calls Stop, which waits for the loop.
Stop ==
  /\ pc[Main] = "done"
  /\ ~ stopping
  /\ stopping' = TRUE
  /\ UNCHANGED <<pc, got, old, put, resp, table, snapshot, version, gotVer, snapVer>>

\* Mutant: break leaves the select, not the loop.
Exit_Break ==
  /\ stopping /\ pc[Loop] = "idle"
  /\ UNCHANGED vars

\* The loop finds its stop channel closed, between two refreshes.
Exit ==
  /\ stopping /\ pc[Loop] = "idle"
  /\ Goto(Loop, "exited")
  /\ UNCHANGED <<got, old, put, resp, table, snapshot, stopping, version, gotVer, snapVer>>

\* The server listens from Start's return, the first refresh done well or not,
\* to Shutdown, which does not wait for ever for what it has let in.
Arrive(p) ==
  /\ pc[p] = "idle"
  /\ pc[Main] = "done" /\ ~ stopping
  /\ Goto(p, "write") \/ Goto(p, "read")
  /\ UNCHANGED <<got, old, put, resp, table, snapshot, stopping, version, gotVer, snapVer>>

\* UpsertOption of a validated balance or rotation option; a write that fails
\* is the answer.
Upsert(p) ==
  /\ pc[p] = "write"
  /\ \/ /\ version < MaxWrites
        /\ \E o \in Option, v \in Val :
             /\ Kind[o] = "config"
             /\ table' = [table EXCEPT ![o] = v]
        /\ version' = version + 1
        /\ put' = [put EXCEPT ![p] = version + 1]
        /\ Goto(p, "read")
        /\ UNCHANGED resp
     \/ /\ "db" \in Faults \/ version = MaxWrites
        /\ Finish(p, "unavailable")
        /\ UNCHANGED <<table, version, put>>
  /\ UNCHANGED <<got, old, snapshot, stopping, gotVer, snapVer>>

\* new-api, or a hand, writes or removes an option; keywords always parse.
Edit ==
  /\ version < MaxWrites
  /\ \E o \in Option, t \in Val \cup {Bad, Unset} :
       /\ t # table[o]
       /\ Kind[o] = "words" => t # Bad
       /\ table' = [table EXCEPT ![o] = t]
  /\ version' = version + 1
  /\ UNCHANGED <<pc, got, old, put, resp, snapshot, stopping, gotVer, snapVer>>

\* The process is gone.
Ended ==
  /\ pc[Loop] = "exited" /\ \A p \in Handler : pc[p] \in {"idle", "done"}
  /\ UNCHANGED vars

Init ==
  /\ pc = [p \in Refresher |-> IF p = Main THEN "read" ELSE "idle"]
  /\ table \in {t \in Table : \A o \in Option : Kind[o] = "words" => t[o] # Bad}
  /\ got = [p \in Refresher |-> table]
  /\ old = [p \in Refresher |-> NoSnapshot]
  /\ put = [p \in Handler |-> 0]
  /\ resp = [p \in Handler |-> "pending"]
  /\ snapshot = NoSnapshot
  /\ stopping = FALSE
  /\ version = 0
  /\ gotVer = [p \in Refresher |-> 0]
  /\ snapVer = 0

Next ==
  \/ \E p \in Refresher : Refresh(p)
  \/ \E p \in Handler : Arrive(p) \/ Upsert(p)
  \/ Tick \/ Stop \/ Exit \/ Edit \/ Ended

Spec == Init /\ [][Next]_vars

-----------------------------------------------------------------------------
(* What the code must guarantee.                                           *)

\* An option whose text does not parse leaves the setting alone, however
\* often the table is polled and whatever else changes, until a handler
\* refreshes beside the loop (refresh: on parse failure the previous value is
\* kept).
BadTextKeepsSetting ==
  [][(\A p \in Handler : pc[p] = "idle") => \A o \in Option :
       /\ snapshot # NoSnapshot /\ Kind[o] \in {"codes", "config"}
       /\ snapshot'[o] # snapshot[o]
       => got[Loop][o] # Bad]_vars

\* An option that was put and acknowledged is in force (handlers: the
\* snapshot is rebuilt after the write, so that it takes effect at once).
PutInForce ==
  \A p \in Handler : resp[p] = "ok" => snapVer >= put[p]
=============================================================================
