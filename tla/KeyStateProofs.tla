--------------------------- MODULE KeyStateProofs ---------------------------
(***************************************************************************)
(* Theorems about KeyState, for every number of requests, every set of     *)
(* requests, key lists and snapshots.                                      *)
(***************************************************************************)
EXTENDS KeyState, TLAPS

-----------------------------------------------------------------------------
(* Channel rows.                                                           *)

\* The write-through of a key status maps rows to rows (ApplyKeyStatus).
LEMMA ApplyType ==
  ASSUME NEW c \in Channel, NEW i \in Idx, NEW s \in Status
  PROVE  ApplyKeyStatus(c, i, s) \in Channel
<1>1. SetKey(c, i, s) \in Channel
  BY DEF SetKey, Channel
<1>2. ApplyMulti(c, i, s) \in Channel
  BY <1>1 DEF ApplyMulti, Channel, Status, Enabled, AutoDisabled, ManuallyDisabled
<1>3. ApplySingle(c, s) \in Channel
  BY DEF ApplySingle, Channel
<1>. QED BY <1>2, <1>3 DEF ApplyKeyStatus

\* The status a report compares is one of the three (keyStatus, PrevStatus).
LEMMA StatusType ==
  ASSUME NEW c \in Channel, NEW i \in Idx
  PROVE  PrevStatus(c, i) \in Status /\ c.ks[i] \in Status
BY DEF PrevStatus, Channel

\* The statuses the code writes are members of Status (store/types.go).
LEMMA StatusValues == Enabled \in Status /\ AutoDisabled \in Status /\ ManuallyDisabled \in Status
BY DEF Status

-----------------------------------------------------------------------------
(* Types.                                                                  *)

ReportSteps == {"idem", "load", "metric", "lease", "incr", "decide", "release"}

\* What the place a request has reached says of it: only reports take the
\* steps of a report, only those with a key set and release one, only those
\* with usage are counted, and a decision has a channel to be made on.
ControlOK ==
  \A p \in Proc :
    /\ pc[p] \in ReportSteps => req[p].op = "report"
    /\ pc[p] \in {"idem", "release"} => HoldsIdem(p)
    /\ pc[p] = "metric" => req[p].usage # NoUsage
    /\ pc[p] \in {"decide", "apply", "publish"} => ch[p] \in Channel

TypeInv == TypeOK /\ ControlOK

\* A report's request as the assumption types it.
LEMMA RequestFields ==
  ASSUME NEW r \in Request
  PROVE  /\ r.op \in {"report", "set"}
         /\ r.usage # NoUsage => r.usage \in UsageType
         /\ r.idem # NoIdem => r.idem \in IdemKey
         /\ r.lease # NoLease => r.lease \in Lease
         /\ r.status \in {Enabled, ManuallyDisabled}
         /\ Target(r) \in Status
BY KeyStateAssumption, StatusValues DEF RequestType, Target

\* A replica starts with every variable of its type, and control in its place
\* (newManager holds no state of its own).
LEMMA InitType == Init => TypeInv
<1>. SUFFICES ASSUME Init PROVE TypeInv
  OBVIOUS
<1>1. (CHOOSE r \in Request : TRUE) \in Request
  BY KeyStateAssumption
<1>2. TypeOK
  <2>1. /\ pc \in [Proc -> PC]
        /\ req \in [Proc -> Request]
        /\ ctx \in [Proc -> {"live", "cancelled"}]
        /\ ch \in [Proc -> Channel \cup {NoChannel}]
        /\ took \in [Proc -> Lease \cup {NoLease}]
        /\ resp \in [Proc -> Answers]
    BY <1>1 DEF Init, PC, Answers
  <2>2. idx \in [Proc -> Idx] /\ delta \in [Proc -> Int]
    <3>1. 0 \in Idx
      BY RowAssumption DEF Idx
    <3>2. idx = [p \in Proc |-> 0] /\ delta = [p \in Proc |-> 0]
      BY DEF Init
    <3>. QED BY <3>1, <3>2
  <2>3. usage \in [Idx -> Int]
    <3>1. PreDebit \in [Idx -> Nat]
      BY KeyStateAssumption
    <3>2. usage = PreDebit
      BY DEF Init
    <3>. QED BY <3>1, <3>2
  <2>4. /\ row \in Channel \cup {NoChannel}
        /\ lock \in Proc \cup {Free}
        /\ idem \subseteq IdemKey
        /\ leases \subseteq Lease
        /\ settings \in Settings
        /\ charged \subseteq Proc
        /\ lists \in [Proc -> SUBSET KeyLists]
    BY KeyStateAssumption DEF Init
  <2>5. events \in Seq(Change) /\ commits \in Seq(Change)
    BY DEF Init
  <2>. QED BY <2>1, <2>2, <2>3, <2>4, <2>5 DEF TypeOK
<1>3. ControlOK
  BY DEF Init, ControlOK, ReportSteps
<1>. QED BY <1>2, <1>3 DEF TypeInv

Returned == Errors \cup Accepted \cup {"duplicate", "stale_epoch_ignored"}

\* Return keeps answers, places and channels what they are.
LEMMA ReturnType ==
  ASSUME TypeInv, NEW p \in Proc, NEW a \in Returned, Return(p, a)
  PROVE  /\ resp' \in [Proc -> Answers]
         /\ pc' \in [Proc -> PC]
         /\ ch' \in [Proc -> Channel \cup {NoChannel}]
         /\ \A q \in Proc \ {p} : pc'[q] = pc[q] /\ ch'[q] = ch[q] /\ resp'[q] = resp[q]
         /\ pc'[p] \in {"unlock", "release", "done"}
         /\ pc'[p] = "release" => HoldsIdem(p)
BY DEF TypeInv, TypeOK, Return, Returned, Goto, Answers, PC, Steps

\* So does a step that goes on to another place, answered or not.
LEMMA GotoType ==
  ASSUME TypeInv, NEW p \in Proc, NEW l \in PC, Goto(p, l),
         UNCHANGED resp \/ \E a \in Accepted : resp' = [resp EXCEPT ![p] = a],
         UNCHANGED ch \/ \E c \in Channel : ch' = [ch EXCEPT ![p] = c]
  PROVE  /\ resp' \in [Proc -> Answers]
         /\ pc' \in [Proc -> PC]
         /\ ch' \in [Proc -> Channel \cup {NoChannel}]
<1>1. pc' \in [Proc -> PC]
  BY DEF TypeInv, TypeOK, Goto
<1>2. resp' \in [Proc -> Answers]
  BY DEF TypeInv, TypeOK, Answers
<1>3. ch' \in [Proc -> Channel \cup {NoChannel}]
  BY DEF TypeInv, TypeOK
<1>. QED BY <1>1, <1>2, <1>3

\* The write-through, its answer and its history are of their types, and so is
\* an attempt that fails.
LEMMA ApplyStepType == ASSUME TypeInv, NEW p \in Proc, Apply(p) PROVE TypeInv'
<1>. USE DEF TypeInv
<1>1. idx[p] \in Idx /\ Target(req[p]) \in Status
  BY RequestFields DEF TypeOK
<1>2. ASSUME Commit(p, idx[p], Target(req[p]))
      PROVE  row' \in Channel /\ commits' \in Seq(Change)
  <2>1. row \in Channel
    BY <1>2 DEF Commit, CanApply, TypeOK
  <2>2. row' \in Channel
    BY <1>1, <1>2, <2>1, ApplyType DEF Commit
  <2>4. PrevStatus(row, idx[p]) \in Status
    BY <1>1, <2>1, StatusType
  <2>. DEFINE c == [proc |-> p, idx |-> idx[p], from |-> PrevStatus(row, idx[p]),
                    to |-> Target(req[p])]
  <2>5. c \in Change
    BY <1>1, <2>4 DEF Change
  <2>6. commits' = Append(commits, c)
    BY <1>2 DEF Commit
  <2>. HIDE DEF c
  <2>. QED BY <2>2, <2>5, <2>6 DEF TypeOK
<1>3. row' \in Channel \cup {NoChannel} /\ commits' \in Seq(Change)
  <2>1. UNCHANGED <<row, commits>> \/ Commit(p, idx[p], Target(req[p]))
    BY DEF Apply
  <2>. QED BY <1>2, <2>1 DEF TypeOK
<1>4. /\ pc' \in [Proc -> PC]
      /\ resp' \in [Proc -> Answers]
      /\ ch' \in [Proc -> Channel \cup {NoChannel}]
  <2>1. CASE Return(p, "internal")
    BY <2>1, ReturnType DEF Returned, Errors
  <2>2. CASE /\ resp' = [resp EXCEPT ![p] = ActionOf(Target(req[p]), row')]
             /\ Goto(p, "publish")
             /\ UNCHANGED ch
    <3>1. ActionOf(Target(req[p]), row') \in Accepted
      BY DEF ActionOf, Accepted
    <3>. QED BY <2>2, <3>1, GotoType DEF PC, Steps
  <2>. QED BY <2>1, <2>2 DEF Apply
<1>5. TypeOK'
  BY <1>3, <1>4 DEF Apply, TypeOK, redisVars
<1>6. ControlOK'
  BY DEF Apply, Return, Goto, TypeOK, ControlOK, HoldsIdem, ReportSteps, Errors, InCritical
<1>. QED BY <1>5, <1>6

\* Every step keeps the types.
LEMMA StepType == TypeInv /\ [Next]_vars => TypeInv'
<1>. SUFFICES ASSUME TypeInv, [Next]_vars PROVE TypeInv'
  OBVIOUS
<1>. USE DEF TypeInv
<1>1. ASSUME NEW p \in Proc, Arrive(p) PROVE TypeInv'
  <2>1. TypeOK'
    <3>1. pc' \in [Proc -> PC] /\ req' \in [Proc -> Request]
      BY <1>1 DEF Arrive, Goto, PC, Steps, TypeOK
    <3>2. lists' \in [Proc -> SUBSET KeyLists]
      BY <1>1 DEF Arrive, TypeOK, Channel
    <3>. QED BY <1>1, <3>1, <3>2 DEF Arrive, TypeOK, redisVars
  <2>2. ControlOK'
    BY <1>1, RequestFields DEF Arrive, Goto, TypeOK, ControlOK, HoldsIdem, ReportSteps,
       redisVars, history
  <2>. QED BY <2>1, <2>2
<1>2. ASSUME NEW p \in Proc, IdemSet(p) PROVE TypeInv'
  <2>1. /\ pc' \in [Proc -> PC]
        /\ resp' \in [Proc -> Answers]
        /\ ch' \in [Proc -> Channel \cup {NoChannel}]
    <3>1. CASE \E a \in {"duplicate", "internal"} : Return(p, a)
      BY <3>1, ReturnType DEF Returned, Errors, Accepted
    <3>2. CASE Goto(p, "load") /\ UNCHANGED <<resp, ch>>
      BY <3>2, GotoType DEF PC, Steps
    <3>. QED BY <1>2, <3>1, <3>2 DEF IdemSet
  <2>2. idem' \subseteq IdemKey
    BY <1>2, RequestFields DEF IdemSet, TypeOK, ControlOK, HoldsIdem
  <2>3. TypeOK'
    BY <1>2, <2>1, <2>2 DEF IdemSet, TypeOK, redisVars, history
  <2>4. ControlOK'
    BY <1>2 DEF IdemSet, Return, Errors, Goto, TypeOK, ControlOK, HoldsIdem,
       ReportSteps, redisVars, history
  <2>. QED BY <2>3, <2>4
<1>3. ASSUME NEW p \in Proc, Load(p) PROVE TypeInv'
  <2>1. /\ pc' \in [Proc -> PC]
        /\ resp' \in [Proc -> Answers]
        /\ ch' \in [Proc -> Channel \cup {NoChannel}]
    <3>1. CASE \E a \in {"dependency", "notfound", "stale_epoch_ignored", "invalid"} : Return(p, a)
      BY <3>1, ReturnType DEF Returned, Errors, Accepted
    <3>2. CASE /\ row # NoChannel
               /\ ch' = [ch EXCEPT ![p] = row]
               /\ \E l \in {"lock", "metric"} : Goto(p, l)
               /\ UNCHANGED resp
      BY <3>2, GotoType DEF TypeOK, PC, Steps
    <3>. QED BY <1>3, <3>1, <3>2 DEF Load
  <2>2. idx' \in [Proc -> Idx]
    BY <1>3 DEF Load, TypeOK
  <2>3. TypeOK'
    BY <1>3, <2>1, <2>2 DEF Load, TypeOK, redisVars, history
  <2>4. ControlOK'
    BY <1>3 DEF Load, Return, Errors, Goto, TypeOK, ControlOK, HoldsIdem, ReportSteps,
       redisVars, history
  <2>. QED BY <2>3, <2>4
<1>4. ASSUME NEW p \in Proc, Metric(p) PROVE TypeInv'
  <2>1. TypeOK'
    BY <1>4, RequestFields DEF Metric, UsageType, UsageValue, Goto, PC, Steps, Answers,
       TypeOK, ControlOK, HoldsIdem, ReportSteps, redisVars, history
  <2>2. ControlOK'
    BY <1>4, RequestFields DEF Metric, Goto, TypeOK, ControlOK, HoldsIdem, ReportSteps,
       redisVars, history
  <2>. QED BY <2>1, <2>2
<1>5. ASSUME NEW p \in Proc, LeaseTake(p) PROVE TypeInv'
  <2>1. /\ pc' \in [Proc -> PC]
        /\ resp' \in [Proc -> Answers]
        /\ ch' \in [Proc -> Channel \cup {NoChannel}]
    <3>1. CASE \E a \in {"internal"} : Return(p, a)
      BY <3>1, ReturnType DEF Returned, Errors, Accepted
    <3>2. CASE Goto(p, "incr") /\ UNCHANGED <<resp, ch>>
      BY <3>2, GotoType DEF PC, Steps
    <3>. QED BY <1>5, <3>1, <3>2 DEF LeaseTake
  <2>2. /\ delta' \in [Proc -> Int]
        /\ took' \in [Proc -> Lease \cup {NoLease}]
        /\ leases' \subseteq Lease
    <3>1. req[p].lease \in leases => req[p].lease \in Lease /\ Est[req[p].lease] \in Nat
      BY KeyStateAssumption DEF TypeOK
    <3>2. req[p].lease \in Lease => EstOf(req[p].lease) = Est[req[p].lease]
      BY KeyStateAssumption DEF EstOf
    <3>3. delta' \in [Proc -> Int]
      BY <1>5, <3>1, <3>2 DEF LeaseTake, TypeOK
    <3>4. took' \in [Proc -> Lease \cup {NoLease}] /\ leases' \subseteq Lease
      BY <1>5, <3>1 DEF LeaseTake, TypeOK
    <3>. QED BY <3>3, <3>4
  <2>3. TypeOK'
    BY <1>5, <2>1, <2>2 DEF LeaseTake, TypeOK, redisVars, history
  <2>4. ControlOK'
    BY <1>5 DEF LeaseTake, Return, Errors, Goto, TypeOK, ControlOK, HoldsIdem,
       ReportSteps, redisVars, history
  <2>. QED BY <2>3, <2>4
<1>6. ASSUME NEW p \in Proc, UsageIncr(p) PROVE TypeInv'
  <2>1. /\ pc' \in [Proc -> PC]
        /\ resp' \in [Proc -> Answers]
        /\ ch' \in [Proc -> Channel \cup {NoChannel}]
    <3>1. CASE \E a \in {"internal"} : Return(p, a)
      BY <3>1, ReturnType DEF Returned, Errors, Accepted
    <3>2. CASE Goto(p, "lock") /\ UNCHANGED <<resp, ch>>
      BY <3>2, GotoType DEF PC, Steps
    <3>. QED BY <1>6, <3>1, <3>2 DEF UsageIncr
  <2>2. usage' \in [Idx -> Int] /\ charged' \subseteq Proc
    BY <1>6 DEF UsageIncr, Charge, TypeOK
  <2>3. TypeOK'
    BY <1>6, <2>1, <2>2 DEF UsageIncr, TypeOK, redisVars, history
  <2>4. ControlOK'
    BY <1>6 DEF UsageIncr, Charge, Return, Errors, Goto, TypeOK, ControlOK, HoldsIdem,
       ReportSteps, redisVars, history
  <2>. QED BY <2>3, <2>4
<1>7. ASSUME NEW p \in Proc, Lock(p) PROVE TypeInv'
  <2>1. /\ pc' \in [Proc -> PC]
        /\ resp' \in [Proc -> Answers]
        /\ ch' \in [Proc -> Channel \cup {NoChannel}]
    <3>1. CASE \E a \in {"lock_failed"} : Return(p, a)
      BY <3>1, ReturnType DEF Returned, Errors, Accepted
    <3>2. CASE Goto(p, "reload") /\ UNCHANGED <<resp, ch>>
      BY <3>2, GotoType DEF PC, Steps
    <3>. QED BY <1>7, <3>1, <3>2 DEF Lock
  <2>2. TypeOK'
    BY <1>7, <2>1 DEF Lock, TypeOK, redisVars, history
  <2>3. ControlOK'
    BY <1>7 DEF Lock, Return, Errors, Goto, TypeOK, ControlOK, HoldsIdem, ReportSteps,
       redisVars, history
  <2>. QED BY <2>2, <2>3
<1>8. ASSUME NEW p \in Proc, Reload(p) PROVE TypeInv'
  <2>1. /\ pc' \in [Proc -> PC]
        /\ resp' \in [Proc -> Answers]
        /\ ch' \in [Proc -> Channel \cup {NoChannel}]
    <3>1. CASE \E a \in {"dependency", "notfound", "invalid"} : Return(p, a)
      BY <3>1, ReturnType DEF Returned, Errors, Accepted
    <3>2. CASE /\ row # NoChannel
               /\ ch' = [ch EXCEPT ![p] = row]
               /\ \E l \in {"apply", "decide"} : Goto(p, l)
               /\ UNCHANGED resp
      BY <3>2, GotoType DEF TypeOK, PC, Steps
    <3>. QED BY <1>8, <3>1, <3>2 DEF Reload
  <2>2. idx' \in [Proc -> Idx]
    BY <1>8 DEF Reload, TypeOK
  <2>3. TypeOK'
    BY <1>8, <2>1, <2>2 DEF Reload, TypeOK, redisVars, history
  <2>4. ControlOK'
    BY <1>8 DEF Reload, Return, Errors, Goto, TypeOK, ControlOK, HoldsIdem, ReportSteps,
       redisVars, history
  <2>. QED BY <2>3, <2>4
<1>9. ASSUME NEW p \in Proc, Decide(p) PROVE TypeInv'
  <2>1. /\ pc' \in [Proc -> PC]
        /\ resp' \in [Proc -> Answers]
        /\ ch' \in [Proc -> Channel \cup {NoChannel}]
    <3>1. CASE \E a \in {"none"} : Return(p, a)
      BY <3>1, ReturnType DEF Returned, Errors, Accepted
    <3>2. CASE Goto(p, "apply") /\ UNCHANGED <<resp, ch>>
      BY <3>2, GotoType DEF PC, Steps
    <3>. QED BY <1>9, <3>1, <3>2 DEF Decide
  <2>2. TypeOK'
    BY <1>9, <2>1 DEF Decide, TypeOK, redisVars, history
  <2>3. ControlOK'
    BY <1>9 DEF Decide, Accepted, InCritical, Return, Errors, Goto, TypeOK, ControlOK,
       HoldsIdem, ReportSteps, redisVars, history
  <2>. QED BY <2>2, <2>3
<1>10. ASSUME NEW p \in Proc, Apply(p) PROVE TypeInv'
  BY <1>10, ApplyStepType
<1>11. ASSUME NEW p \in Proc, Publish(p) PROVE TypeInv'
  <2>. DEFINE e == [proc |-> p, idx |-> idx[p],
                    from |-> From(req[p], ch[p], idx[p]), to |-> Target(req[p])]
  <2>1. e \in Change
    <3>1. idx[p] \in Idx /\ ch[p] \in Channel /\ Target(req[p]) \in Status
      BY <1>11, RequestFields DEF Publish, TypeOK, ControlOK
    <3>2. From(req[p], ch[p], idx[p]) \in Status
      BY <3>1, StatusType DEF From
    <3>. QED BY <3>1, <3>2 DEF Change
  <2>2. events' = Append(events, e) \/ events' = events
    BY <1>11 DEF Publish
  <2>. HIDE DEF e
  <2>3. events' \in Seq(Change)
    <3>1. events \in Seq(Change)
      BY DEF TypeOK
    <3>. QED BY <2>1, <2>2, <3>1
  <2>4. TypeOK'
    <3>1. pc' \in [Proc -> PC]
      BY <1>11 DEF Publish, Goto, TypeOK, PC, Steps
    <3>2. /\ UNCHANGED <<req, ctx, ch, idx, delta, took, resp, row, lock, idem, leases>>
          /\ UNCHANGED <<usage, settings, commits, charged, lists>>
      BY <1>11 DEF Publish, history
    <3>. QED BY <2>3, <3>1, <3>2 DEF TypeOK
  <2>5. ControlOK'
    BY <1>11 DEF Publish, Goto, TypeOK, ControlOK, HoldsIdem, ReportSteps
  <2>. QED BY <2>4, <2>5
<1>12. ASSUME NEW p \in Proc, Unlock(p) PROVE TypeInv'
  <2>1. TypeOK'
    BY <1>12 DEF Unlock, Goto, PC, Steps, Answers, TypeOK, ControlOK, HoldsIdem,
       ReportSteps, redisVars, history
  <2>2. ControlOK'
    BY <1>12 DEF Unlock, Errors, Goto, TypeOK, ControlOK, HoldsIdem, ReportSteps,
       redisVars, history
  <2>. QED BY <2>1, <2>2
<1>13. ASSUME NEW p \in Proc, Release(p) PROVE TypeInv'
  <2>1. TypeOK'
    BY <1>13 DEF Release, Goto, PC, Steps, Answers, TypeOK, ControlOK, HoldsIdem,
       ReportSteps, redisVars, history
  <2>2. ControlOK'
    BY <1>13 DEF Release, Goto, TypeOK, ControlOK, HoldsIdem, ReportSteps, redisVars,
       history
  <2>. QED BY <2>1, <2>2
<1>14. ASSUME NEW p \in Proc, Cancel(p) PROVE TypeInv'
  <2>1. TypeOK'
    BY <1>14 DEF Cancel, Goto, PC, Steps, Answers, TypeOK, ControlOK, HoldsIdem,
       ReportSteps, redisVars, history
  <2>2. ControlOK'
    BY <1>14 DEF Cancel, Goto, TypeOK, ControlOK, HoldsIdem, ReportSteps, redisVars,
       history
  <2>. QED BY <2>1, <2>2
<1>15. ASSUME NEW p \in Proc, Crash(p) PROVE TypeInv'
  <2>1. TypeOK'
    BY <1>15 DEF Crash, Goto, PC, Steps, Answers, TypeOK, ControlOK, HoldsIdem,
       ReportSteps, redisVars, history
  <2>2. ControlOK'
    BY <1>15 DEF Crash, Goto, TypeOK, ControlOK, HoldsIdem, ReportSteps, redisVars,
       history
  <2>. QED BY <2>1, <2>2
<1>16. CASE LockExpire
  <2>1. TypeOK'
    BY <1>16 DEF LockExpire, TypeOK, reqVars, redisVars, history
  <2>2. ControlOK'
    BY <1>16 DEF LockExpire, TypeOK, ControlOK, HoldsIdem, reqVars, redisVars, history
  <2>. QED BY <2>1, <2>2
<1>17. ASSUME NEW k \in IdemKey, IdemExpire(k) PROVE TypeInv'
  <2>1. TypeOK'
    BY <1>17 DEF IdemExpire, TypeOK, reqVars, redisVars, history
  <2>2. ControlOK'
    BY <1>17 DEF IdemExpire, TypeOK, ControlOK, HoldsIdem, reqVars, redisVars, history
  <2>. QED BY <2>1, <2>2
<1>18. ASSUME NEW l \in Lease, LeaseExpire(l) PROVE TypeInv'
  <2>1. TypeOK'
    BY <1>18 DEF LeaseExpire, TypeOK, reqVars, redisVars, history
  <2>2. ControlOK'
    BY <1>18 DEF LeaseExpire, TypeOK, ControlOK, HoldsIdem, reqVars, redisVars, history
  <2>. QED BY <2>1, <2>2
<1>19. CASE SettingsChange
  <2>1. TypeOK'
    BY <1>19 DEF SettingsChange, TypeOK, reqVars, redisVars, history
  <2>2. ControlOK'
    BY <1>19 DEF SettingsChange, TypeOK, ControlOK, HoldsIdem, reqVars, redisVars, history
  <2>. QED BY <2>1, <2>2
<1>20. CASE NewApiEditKeys
  <2>1. row' \in Channel
    <3>1. row \in Channel /\ [i \in Idx |-> Enabled] \in [Idx -> Status]
      BY <1>20, StatusValues DEF NewApiEditKeys, TypeOK
    <3>2. PICK l \in KeyLists, m \in [Idx -> Status] :
             row' = [row EXCEPT !.keys = l, !.ks = m]
      BY <1>20, <3>1 DEF NewApiEditKeys, Channel
    <3>. QED BY <3>1, <3>2 DEF Channel
  <2>2. TypeOK'
    BY <1>20, <2>1 DEF NewApiEditKeys, TypeOK, reqVars, redisVars, history
  <2>3. ControlOK'
    BY <1>20 DEF NewApiEditKeys, TypeOK, ControlOK, HoldsIdem, reqVars, redisVars, history
  <2>. QED BY <2>2, <2>3
<1>21. CASE NewApiSetStatus
  <2>1. TypeOK'
    BY <1>21 DEF NewApiSetStatus, Channel, TypeOK, reqVars, redisVars, history
  <2>2. ControlOK'
    BY <1>21 DEF NewApiSetStatus, Channel, TypeOK, ControlOK, HoldsIdem, reqVars,
       redisVars, history
  <2>. QED BY <2>1, <2>2
<1>22. CASE NewApiDelete
  <2>1. TypeOK'
    BY <1>22 DEF NewApiDelete, TypeOK, reqVars, redisVars, history
  <2>2. ControlOK'
    BY <1>22 DEF NewApiDelete, TypeOK, ControlOK, HoldsIdem, reqVars, redisVars, history
  <2>. QED BY <2>1, <2>2
<1>23. CASE UNCHANGED vars
  <2>1. TypeOK'
    BY <1>23 DEF vars, TypeOK, reqVars, redisVars, history
  <2>2. ControlOK'
    BY <1>23 DEF vars, ControlOK, HoldsIdem, reqVars, redisVars, history
  <2>. QED BY <2>1, <2>2
<1>. QED
  BY <1>1, <1>2, <1>3, <1>4, <1>5, <1>6, <1>7, <1>8, <1>9, <1>10, <1>11, <1>12, <1>13,
     <1>14, <1>15, <1>16, <1>17, <1>18, <1>19, <1>20, <1>21, <1>22, <1>23
  DEF Next, Step, Environment, Exhausted

\* Every variable keeps its type, whatever the requests, the faults and
\* new-api do.
THEOREM TypeCorrect == Spec => []TypeOK
<1>1. Init => TypeInv
  BY InitType
<1>2. TypeInv /\ [Next]_vars => TypeInv'
  BY StepType
<1>3. TypeInv => TypeOK
  BY DEF TypeInv
<1>. QED BY <1>1, <1>2, <1>3, PTL DEF Spec

-----------------------------------------------------------------------------
(* Mutual exclusion.                                                       *)

\* While no lock lapses under its holder, a step keeps the lock its holder's:
\* only Lock, of a free channel, and Unlock and LockExpire, of the holder's
\* own or of an abandoned lock, write it.
LEMMA StepHolder ==
  ASSUME "lockexpire" \notin Faults, TypeInv, HolderOwnsLock, [Next]_vars
  PROVE  HolderOwnsLock'
<1>. USE DEF HolderOwnsLock, InCritical, TypeInv, TypeOK
<1>1. ASSUME NEW p \in Proc, Arrive(p) PROVE HolderOwnsLock'
  BY <1>1 DEF Arrive, Goto, redisVars
<1>2. ASSUME NEW p \in Proc, IdemSet(p) PROVE HolderOwnsLock'
  BY <1>2 DEF IdemSet, Goto, Return, redisVars
<1>3. ASSUME NEW p \in Proc, Load(p) PROVE HolderOwnsLock'
  BY <1>3 DEF Load, Goto, Return, redisVars
<1>4. ASSUME NEW p \in Proc, Metric(p) PROVE HolderOwnsLock'
  BY <1>4 DEF Metric, Goto, redisVars
<1>5. ASSUME NEW p \in Proc, LeaseTake(p) PROVE HolderOwnsLock'
  BY <1>5 DEF LeaseTake, Goto, Return, redisVars
<1>6. ASSUME NEW p \in Proc, UsageIncr(p) PROVE HolderOwnsLock'
  BY <1>6 DEF UsageIncr, Goto, Return, redisVars
<1>7. ASSUME NEW p \in Proc, Lock(p) PROVE HolderOwnsLock'
  BY <1>7, KeyStateAssumption DEF Lock, Goto, Return, redisVars
<1>8. ASSUME NEW p \in Proc, Reload(p) PROVE HolderOwnsLock'
  BY <1>8 DEF Reload, Goto, Return, redisVars
<1>9. ASSUME NEW p \in Proc, Decide(p) PROVE HolderOwnsLock'
  BY <1>9 DEF Decide, Goto, Return, redisVars
<1>10. ASSUME NEW p \in Proc, Apply(p) PROVE HolderOwnsLock'
  BY <1>10 DEF Apply, Goto, Return, redisVars
<1>11. ASSUME NEW p \in Proc, Publish(p) PROVE HolderOwnsLock'
  BY <1>11 DEF Publish, Goto, redisVars
<1>12. ASSUME NEW p \in Proc, Unlock(p) PROVE HolderOwnsLock'
  BY <1>12, KeyStateAssumption DEF Unlock, Goto, redisVars
<1>13. ASSUME NEW p \in Proc, Release(p) PROVE HolderOwnsLock'
  BY <1>13 DEF Release, Goto, redisVars
<1>14. ASSUME NEW p \in Proc, Cancel(p) PROVE HolderOwnsLock'
  BY <1>14 DEF Cancel, Goto, redisVars
<1>15. ASSUME NEW p \in Proc, Crash(p) PROVE HolderOwnsLock'
  BY <1>15 DEF Crash, Goto, redisVars
<1>16. CASE LockExpire
  BY <1>16, KeyStateAssumption DEF LockExpire, reqVars, redisVars
<1>17. ASSUME NEW k \in IdemKey, IdemExpire(k) PROVE HolderOwnsLock'
  BY <1>17 DEF IdemExpire, reqVars, redisVars
<1>18. ASSUME NEW l \in Lease, LeaseExpire(l) PROVE HolderOwnsLock'
  BY <1>18 DEF LeaseExpire, reqVars, redisVars
<1>19. CASE SettingsChange
  BY <1>19 DEF SettingsChange, reqVars, redisVars
<1>20. CASE NewApiEditKeys
  BY <1>20 DEF NewApiEditKeys, reqVars, redisVars
<1>21. CASE NewApiSetStatus
  BY <1>21 DEF NewApiSetStatus, reqVars, redisVars
<1>22. CASE NewApiDelete
  BY <1>22 DEF NewApiDelete, reqVars, redisVars
<1>23. CASE UNCHANGED vars
  BY <1>23 DEF vars, reqVars, redisVars
<1>. QED
  BY <1>1, <1>2, <1>3, <1>4, <1>5, <1>6, <1>7, <1>8, <1>9, <1>10, <1>11, <1>12,
     <1>13, <1>14, <1>15, <1>16, <1>17, <1>18, <1>19, <1>20, <1>21, <1>22, <1>23
  DEF Next, Step, Environment, Exhausted

\* Whatever fails, short of a lock lapsing under its holder, one request at a
\* time reads, decides, writes and publishes.
THEOREM MutualExclusion ==
  ASSUME "lockexpire" \notin Faults PROVE Spec => []HolderOwnsLock
<1>1. Init => TypeInv /\ HolderOwnsLock
  BY InitType DEF Init, HolderOwnsLock, InCritical
<1>2. TypeInv /\ HolderOwnsLock /\ [Next]_vars => (TypeInv /\ HolderOwnsLock)'
  BY StepType, StepHolder
<1>. QED BY <1>1, <1>2, PTL DEF Spec

-----------------------------------------------------------------------------
(* What a report may write.  The property is not inductive: that a commit  *)
(* leaves automatic disablement behind follows from the verdict, which was *)
(* given on the channel read under the lock, which is the channel still.   *)

\* What Report and SetKeyStatus have read under the lock is what they write.
Fresh == \A p \in Proc : pc[p] \in {"decide", "apply"} => row = ch[p]

\* A report about to enable a key has found it automatically disabled.
Justified ==
  \A p \in Proc :
    /\ pc[p] = "apply" /\ req[p].op = "report" /\ req[p].success
    => PrevStatus(ch[p], idx[p]) = AutoDisabled

AfterCommit == {"publish", "unlock", "release", "done", "crashed"}

\* Only requests that are past their write have one in the history.
Committed ==
  \A n \in DOMAIN commits :
    commits[n].proc \in Proc /\ pc[commits[n].proc] \in AfterCommit

\* No other request writes the channel between p's read and p's write.
LEMMA StepFresh ==
  ASSUME NewApi = {}, TypeInv, HolderOwnsLock, Fresh, [Next]_vars
  PROVE  Fresh'
<1>. USE DEF Fresh, TypeInv, TypeOK
<1>1. ASSUME NEW p \in Proc, Arrive(p) PROVE Fresh'
  BY <1>1 DEF Arrive, Goto, redisVars, InCritical
<1>2. ASSUME NEW p \in Proc, IdemSet(p) PROVE Fresh'
  BY <1>2 DEF IdemSet, Goto, Return, redisVars, InCritical
<1>3. ASSUME NEW p \in Proc, Load(p) PROVE Fresh'
  BY <1>3, ZenonT(60) DEF Load, Goto, Return, redisVars, InCritical
<1>4. ASSUME NEW p \in Proc, Metric(p) PROVE Fresh'
  BY <1>4 DEF Metric, Goto, redisVars, InCritical
<1>5. ASSUME NEW p \in Proc, LeaseTake(p) PROVE Fresh'
  BY <1>5 DEF LeaseTake, Goto, Return, redisVars, InCritical
<1>6. ASSUME NEW p \in Proc, UsageIncr(p) PROVE Fresh'
  BY <1>6 DEF UsageIncr, Goto, Return, redisVars, InCritical
<1>7. ASSUME NEW p \in Proc, Lock(p) PROVE Fresh'
  BY <1>7 DEF Lock, Goto, Return, redisVars, InCritical
<1>8. ASSUME NEW p \in Proc, Reload(p) PROVE Fresh'
  BY <1>8 DEF Reload, Goto, Return, redisVars, InCritical
<1>9. ASSUME NEW p \in Proc, Decide(p) PROVE Fresh'
  BY <1>9 DEF Decide, Goto, Return, redisVars, InCritical
<1>10. ASSUME NEW p \in Proc, Apply(p) PROVE Fresh'
  BY <1>10 DEF Apply, Goto, Return, redisVars, InCritical, HolderOwnsLock, InCritical
<1>11. ASSUME NEW p \in Proc, Publish(p) PROVE Fresh'
  BY <1>11 DEF Publish, Goto, redisVars, InCritical
<1>12. ASSUME NEW p \in Proc, Unlock(p) PROVE Fresh'
  BY <1>12 DEF Unlock, Goto, redisVars, InCritical
<1>13. ASSUME NEW p \in Proc, Release(p) PROVE Fresh'
  BY <1>13 DEF Release, Goto, redisVars, InCritical
<1>14. ASSUME NEW p \in Proc, Cancel(p) PROVE Fresh'
  BY <1>14 DEF Cancel, Goto, redisVars, InCritical
<1>15. ASSUME NEW p \in Proc, Crash(p) PROVE Fresh'
  BY <1>15 DEF Crash, Goto, redisVars, InCritical
<1>16. CASE LockExpire
  BY <1>16 DEF LockExpire, reqVars, redisVars, history
<1>17. ASSUME NEW k \in IdemKey, IdemExpire(k) PROVE Fresh'
  BY <1>17 DEF IdemExpire, reqVars, redisVars, history
<1>18. ASSUME NEW l \in Lease, LeaseExpire(l) PROVE Fresh'
  BY <1>18 DEF LeaseExpire, reqVars, redisVars, history
<1>19. CASE SettingsChange
  BY <1>19 DEF SettingsChange, reqVars, redisVars, history
<1>20. CASE NewApiEditKeys
  BY <1>20 DEF NewApiEditKeys, reqVars, redisVars, history
<1>21. CASE NewApiSetStatus
  BY <1>21 DEF NewApiSetStatus, reqVars, redisVars, history
<1>22. CASE NewApiDelete
  BY <1>22 DEF NewApiDelete, reqVars, redisVars, history
<1>23. CASE UNCHANGED vars
  BY <1>23 DEF vars, reqVars, redisVars, history
<1>. QED
  BY <1>1, <1>2, <1>3, <1>4, <1>5, <1>6, <1>7, <1>8, <1>9, <1>10, <1>11, <1>12,
     <1>13, <1>14, <1>15, <1>16, <1>17, <1>18, <1>19, <1>20, <1>21, <1>22, <1>23
  DEF Next, Step, Environment, Exhausted

\* The verdict on a success is ShouldEnable of the status then compared.
LEMMA StepJustified ==
  ASSUME TypeInv, Justified, [Next]_vars
  PROVE  Justified'
<1>. USE DEF Justified, TypeInv, TypeOK
<1>1. ASSUME NEW p \in Proc, Arrive(p) PROVE Justified'
  BY <1>1 DEF Arrive, Goto, InCritical
<1>2. ASSUME NEW p \in Proc, IdemSet(p) PROVE Justified'
  BY <1>2 DEF IdemSet, Goto, Return, InCritical
<1>3. ASSUME NEW p \in Proc, Load(p) PROVE Justified'
  <2>1. /\ pc'[p] # "apply" /\ req' = req
        /\ \A q \in Proc \ {p} : pc'[q] = pc[q] /\ ch'[q] = ch[q] /\ idx'[q] = idx[q]
    <3>1. pc[p] = "load" /\ req' = req /\ \A q \in Proc \ {p} : idx'[q] = idx[q]
      BY <1>3 DEF Load
    <3>2. CASE \E a \in {"dependency", "notfound", "stale_epoch_ignored", "invalid"} : Return(p, a)
      BY <3>1, <3>2, ReturnType DEF Returned, Errors, Accepted
    <3>3. CASE (\E l \in {"lock", "metric"} : Goto(p, l)) /\ ch' = [ch EXCEPT ![p] = row]
      BY <3>1, <3>3 DEF Goto
    <3>. QED BY <1>3, <3>1, <3>2, <3>3 DEF Load
  <2>. QED BY <2>1
<1>4. ASSUME NEW p \in Proc, Metric(p) PROVE Justified'
  BY <1>4 DEF Metric, Goto, InCritical
<1>5. ASSUME NEW p \in Proc, LeaseTake(p) PROVE Justified'
  BY <1>5 DEF LeaseTake, Goto, Return, InCritical
<1>6. ASSUME NEW p \in Proc, UsageIncr(p) PROVE Justified'
  BY <1>6 DEF UsageIncr, Goto, Return, InCritical
<1>7. ASSUME NEW p \in Proc, Lock(p) PROVE Justified'
  BY <1>7 DEF Lock, Goto, Return, InCritical
<1>8. ASSUME NEW p \in Proc, Reload(p) PROVE Justified'
  BY <1>8 DEF Reload, Goto, Return, InCritical, ControlOK
<1>9. ASSUME NEW p \in Proc, Decide(p) PROVE Justified'
  BY <1>9 DEF Decide, Goto, Return, InCritical, Verdict, ShouldEnable
<1>10. ASSUME NEW p \in Proc, Apply(p) PROVE Justified'
  BY <1>10 DEF Apply, Goto, Return, InCritical
<1>11. ASSUME NEW p \in Proc, Publish(p) PROVE Justified'
  BY <1>11 DEF Publish, Goto, InCritical
<1>12. ASSUME NEW p \in Proc, Unlock(p) PROVE Justified'
  BY <1>12 DEF Unlock, Goto, InCritical
<1>13. ASSUME NEW p \in Proc, Release(p) PROVE Justified'
  BY <1>13 DEF Release, Goto, InCritical
<1>14. ASSUME NEW p \in Proc, Cancel(p) PROVE Justified'
  BY <1>14 DEF Cancel, Goto, InCritical
<1>15. ASSUME NEW p \in Proc, Crash(p) PROVE Justified'
  BY <1>15 DEF Crash, Goto, InCritical
<1>16. CASE LockExpire
  BY <1>16 DEF LockExpire, reqVars, redisVars, history
<1>17. ASSUME NEW k \in IdemKey, IdemExpire(k) PROVE Justified'
  BY <1>17 DEF IdemExpire, reqVars, redisVars, history
<1>18. ASSUME NEW l \in Lease, LeaseExpire(l) PROVE Justified'
  BY <1>18 DEF LeaseExpire, reqVars, redisVars, history
<1>19. CASE SettingsChange
  BY <1>19 DEF SettingsChange, reqVars, redisVars, history
<1>20. CASE NewApiEditKeys
  BY <1>20 DEF NewApiEditKeys, reqVars, redisVars, history
<1>21. CASE NewApiSetStatus
  BY <1>21 DEF NewApiSetStatus, reqVars, redisVars, history
<1>22. CASE NewApiDelete
  BY <1>22 DEF NewApiDelete, reqVars, redisVars, history
<1>23. CASE UNCHANGED vars
  BY <1>23 DEF vars, reqVars, redisVars, history
<1>. QED
  BY <1>1, <1>2, <1>3, <1>4, <1>5, <1>6, <1>7, <1>8, <1>9, <1>10, <1>11, <1>12,
     <1>13, <1>14, <1>15, <1>16, <1>17, <1>18, <1>19, <1>20, <1>21, <1>22, <1>23
  DEF Next, Step, Environment, Exhausted

\* What Apply does to the history: nothing, or one more change, of p, on the
\* channel as it was.
LEMMA ApplyHistory ==
  ASSUME TypeInv, NEW p \in Proc, Apply(p), commits' # commits
  PROVE  /\ row \in Channel
         /\ idx[p] \in Idx
         /\ row' = ApplyKeyStatus(row, idx[p], Target(req[p]))
         /\ Len(commits') = Len(commits) + 1
         /\ \A n \in DOMAIN commits : commits'[n] = commits[n]
         /\ \A n \in DOMAIN commits' :
              n \in DOMAIN commits \/ n = Len(commits) + 1
         /\ commits'[Len(commits) + 1].proc = p
         /\ commits'[Len(commits) + 1].idx = idx[p]
         /\ commits'[Len(commits) + 1].from = PrevStatus(row, idx[p])
         /\ commits'[Len(commits) + 1].to = Target(req[p])
<1>1. Commit(p, idx[p], Target(req[p]))
  BY DEF Apply
<1>2. row \in Channel /\ idx[p] \in Idx /\ commits \in Seq(Change)
  BY <1>1 DEF TypeInv, TypeOK, Commit, CanApply
<1>. DEFINE c == [proc |-> p, idx |-> idx[p], from |-> PrevStatus(row, idx[p]),
                  to |-> Target(req[p])]
<1>3. commits' = Append(commits, c) /\ row' = ApplyKeyStatus(row, idx[p], Target(req[p]))
  BY <1>1 DEF Commit
<1>4. /\ c.proc = p /\ c.idx = idx[p] /\ c.from = PrevStatus(row, idx[p])
      /\ c.to = Target(req[p])
  OBVIOUS
<1>. HIDE DEF c
<1>5. /\ Len(commits') = Len(commits) + 1
      /\ \A n \in DOMAIN commits : commits'[n] = commits[n]
      /\ \A n \in DOMAIN commits' : n \in DOMAIN commits \/ n = Len(commits) + 1
      /\ commits'[Len(commits) + 1] = c
  BY <1>2, <1>3
<1>. QED BY <1>2, <1>3, <1>4, <1>5

\* The entries of the history are changes.
LEMMA HistoryType ==
  ASSUME TypeInv, NEW n \in DOMAIN commits
  PROVE  /\ commits[n] \in Change
         /\ commits[n].proc \in Proc
<1>1. commits \in Seq(Change)
  BY DEF TypeInv, TypeOK
<1>2. commits[n] \in Change
  BY <1>1
<1>. QED BY <1>2 DEF Change

\* A request commits on its way to publish, and never comes back.
LEMMA StepCommitted ==
  ASSUME TypeInv, Committed, [Next]_vars
  PROVE  Committed'
<1>. USE DEF Committed, AfterCommit, TypeInv, TypeOK
<1>1. ASSUME NEW p \in Proc, Arrive(p) PROVE Committed'
  BY <1>1 DEF Arrive, Goto, redisVars, history, Steps
<1>2. ASSUME NEW p \in Proc, IdemSet(p) PROVE Committed'
  BY <1>2 DEF IdemSet, Goto, Return, redisVars, history, Steps
<1>3. ASSUME NEW p \in Proc, Load(p) PROVE Committed'
  BY <1>3, ZenonT(60) DEF Load, Goto, Return, redisVars, history, Steps
<1>4. ASSUME NEW p \in Proc, Metric(p) PROVE Committed'
  BY <1>4 DEF Metric, Goto, redisVars, history, Steps
<1>5. ASSUME NEW p \in Proc, LeaseTake(p) PROVE Committed'
  BY <1>5 DEF LeaseTake, Goto, Return, redisVars, history, Steps
<1>6. ASSUME NEW p \in Proc, UsageIncr(p) PROVE Committed'
  BY <1>6 DEF UsageIncr, Goto, Return, redisVars, history, Steps
<1>7. ASSUME NEW p \in Proc, Lock(p) PROVE Committed'
  BY <1>7 DEF Lock, Goto, Return, redisVars, history, Steps
<1>8. ASSUME NEW p \in Proc, Reload(p) PROVE Committed'
  BY <1>8, ZenonT(60) DEF Reload, Goto, Return, redisVars, history, Steps
<1>9. ASSUME NEW p \in Proc, Decide(p) PROVE Committed'
  BY <1>9 DEF Decide, Goto, Return, redisVars, history, Steps
<1>10. ASSUME NEW p \in Proc, Apply(p) PROVE Committed'
  <2>1. pc[p] = "apply" /\ \A q \in Proc \ {p} : pc'[q] = pc[q]
    BY <1>10 DEF Apply, Return, Goto
  <2>2. pc'[p] \in AfterCommit
    BY <1>10 DEF Apply, Return, Goto, InCritical
  <2>3. CASE commits' = commits
    BY <2>1, <2>2, <2>3
  <2>4. CASE commits' # commits
    <3>. SUFFICES ASSUME NEW n \in DOMAIN commits'
                  PROVE  /\ commits'[n].proc \in Proc
                         /\ pc'[commits'[n].proc] \in AfterCommit
      BY DEF Committed
    <3>1. \/ n \in DOMAIN commits /\ commits'[n] = commits[n]
          \/ commits'[n].proc = p
      BY <1>10, <2>4, ApplyHistory
    <3>. QED BY <2>1, <2>2, <3>1
  <2>. QED BY <2>3, <2>4
<1>11. ASSUME NEW p \in Proc, Publish(p) PROVE Committed'
  BY <1>11 DEF Publish, Goto, redisVars, history, Steps
<1>12. ASSUME NEW p \in Proc, Unlock(p) PROVE Committed'
  BY <1>12 DEF Unlock, Goto, redisVars, history, Steps
<1>13. ASSUME NEW p \in Proc, Release(p) PROVE Committed'
  BY <1>13 DEF Release, Goto, redisVars, history, Steps
<1>14. ASSUME NEW p \in Proc, Cancel(p) PROVE Committed'
  BY <1>14 DEF Cancel, Goto, redisVars, history, Steps
<1>15. ASSUME NEW p \in Proc, Crash(p) PROVE Committed'
  BY <1>15 DEF Crash, Goto, redisVars, history, Steps
<1>16. CASE LockExpire
  BY <1>16 DEF LockExpire, reqVars, redisVars, history
<1>17. ASSUME NEW k \in IdemKey, IdemExpire(k) PROVE Committed'
  BY <1>17 DEF IdemExpire, reqVars, redisVars, history
<1>18. ASSUME NEW l \in Lease, LeaseExpire(l) PROVE Committed'
  BY <1>18 DEF LeaseExpire, reqVars, redisVars, history
<1>19. CASE SettingsChange
  BY <1>19 DEF SettingsChange, reqVars, redisVars, history
<1>20. CASE NewApiEditKeys
  BY <1>20 DEF NewApiEditKeys, reqVars, redisVars, history
<1>21. CASE NewApiSetStatus
  BY <1>21 DEF NewApiSetStatus, reqVars, redisVars, history
<1>22. CASE NewApiDelete
  BY <1>22 DEF NewApiDelete, reqVars, redisVars, history
<1>23. CASE UNCHANGED vars
  BY <1>23 DEF vars, reqVars, redisVars, history
<1>. QED
  BY <1>1, <1>2, <1>3, <1>4, <1>5, <1>6, <1>7, <1>8, <1>9, <1>10, <1>11, <1>12,
     <1>13, <1>14, <1>15, <1>16, <1>17, <1>18, <1>19, <1>20, <1>21, <1>22, <1>23
  DEF Next, Step, Environment, Exhausted

\* What Apply adds to the history is justified; nothing else adds to it, and the
\* requests it names are past changing.
LEMMA StepAutoEnable ==
  ASSUME TypeInv, Fresh, Justified, Committed, AutoEnableOnlyAutoDisabled, [Next]_vars
  PROVE  AutoEnableOnlyAutoDisabled'
<1>. USE DEF AutoEnableOnlyAutoDisabled, TypeInv, TypeOK
<1>1. ASSUME NEW p \in Proc, Arrive(p) PROVE AutoEnableOnlyAutoDisabled'
  BY <1>1, HistoryType DEF Arrive, Goto, redisVars, history, Committed, AfterCommit
<1>2. ASSUME NEW p \in Proc, IdemSet(p) PROVE AutoEnableOnlyAutoDisabled'
  BY <1>2 DEF IdemSet, Goto, Return, redisVars, history
<1>3. ASSUME NEW p \in Proc, Load(p) PROVE AutoEnableOnlyAutoDisabled'
  BY <1>3 DEF Load, Goto, Return, redisVars, history
<1>4. ASSUME NEW p \in Proc, Metric(p) PROVE AutoEnableOnlyAutoDisabled'
  BY <1>4 DEF Metric, Goto, redisVars, history
<1>5. ASSUME NEW p \in Proc, LeaseTake(p) PROVE AutoEnableOnlyAutoDisabled'
  BY <1>5 DEF LeaseTake, Goto, Return, redisVars, history
<1>6. ASSUME NEW p \in Proc, UsageIncr(p) PROVE AutoEnableOnlyAutoDisabled'
  BY <1>6 DEF UsageIncr, Goto, Return, redisVars, history
<1>7. ASSUME NEW p \in Proc, Lock(p) PROVE AutoEnableOnlyAutoDisabled'
  BY <1>7 DEF Lock, Goto, Return, redisVars, history
<1>8. ASSUME NEW p \in Proc, Reload(p) PROVE AutoEnableOnlyAutoDisabled'
  BY <1>8 DEF Reload, Goto, Return, redisVars, history
<1>9. ASSUME NEW p \in Proc, Decide(p) PROVE AutoEnableOnlyAutoDisabled'
  BY <1>9 DEF Decide, Goto, Return, redisVars, history
<1>10. ASSUME NEW p \in Proc, Apply(p) PROVE AutoEnableOnlyAutoDisabled'
  <2>1. req' = req /\ pc[p] = "apply"
    BY <1>10 DEF Apply
  <2>2. CASE commits' = commits
    BY <2>1, <2>2
  <2>3. CASE commits' # commits
    <3>1. req[p].op = "report" /\ Target(req[p]) = Enabled => req[p].success
      BY DEF Target, Enabled, AutoDisabled
    <3>2. req[p].op = "report" /\ Target(req[p]) = Enabled
          => PrevStatus(row, idx[p]) = AutoDisabled
      BY <2>1, <3>1 DEF Fresh, Justified
    <3>. SUFFICES ASSUME NEW n \in DOMAIN commits',
                         req'[commits'[n].proc].op = "report", commits'[n].to = Enabled
                  PROVE  commits'[n].from = AutoDisabled
      BY DEF AutoEnableOnlyAutoDisabled
    <3>3. \/ n \in DOMAIN commits /\ commits'[n] = commits[n]
          \/ /\ commits'[n].proc = p
             /\ commits'[n].to = Target(req[p])
             /\ commits'[n].from = PrevStatus(row, idx[p])
      BY <1>10, <2>3, ApplyHistory
    <3>. QED BY <2>1, <3>2, <3>3
  <2>. QED BY <2>2, <2>3
<1>11. ASSUME NEW p \in Proc, Publish(p) PROVE AutoEnableOnlyAutoDisabled'
  BY <1>11 DEF Publish, Goto, redisVars, history
<1>12. ASSUME NEW p \in Proc, Unlock(p) PROVE AutoEnableOnlyAutoDisabled'
  BY <1>12 DEF Unlock, Goto, redisVars, history
<1>13. ASSUME NEW p \in Proc, Release(p) PROVE AutoEnableOnlyAutoDisabled'
  BY <1>13 DEF Release, Goto, redisVars, history
<1>14. ASSUME NEW p \in Proc, Cancel(p) PROVE AutoEnableOnlyAutoDisabled'
  BY <1>14 DEF Cancel, Goto, redisVars, history
<1>15. ASSUME NEW p \in Proc, Crash(p) PROVE AutoEnableOnlyAutoDisabled'
  BY <1>15 DEF Crash, Goto, redisVars, history
<1>16. CASE LockExpire
  BY <1>16 DEF LockExpire, reqVars, redisVars, history
<1>17. ASSUME NEW k \in IdemKey, IdemExpire(k) PROVE AutoEnableOnlyAutoDisabled'
  BY <1>17 DEF IdemExpire, reqVars, redisVars, history
<1>18. ASSUME NEW l \in Lease, LeaseExpire(l) PROVE AutoEnableOnlyAutoDisabled'
  BY <1>18 DEF LeaseExpire, reqVars, redisVars, history
<1>19. CASE SettingsChange
  BY <1>19 DEF SettingsChange, reqVars, redisVars, history
<1>20. CASE NewApiEditKeys
  BY <1>20 DEF NewApiEditKeys, reqVars, redisVars, history
<1>21. CASE NewApiSetStatus
  BY <1>21 DEF NewApiSetStatus, reqVars, redisVars, history
<1>22. CASE NewApiDelete
  BY <1>22 DEF NewApiDelete, reqVars, redisVars, history
<1>23. CASE UNCHANGED vars
  BY <1>23 DEF vars, reqVars, redisVars, history
<1>. QED
  BY <1>1, <1>2, <1>3, <1>4, <1>5, <1>6, <1>7, <1>8, <1>9, <1>10, <1>11, <1>12,
     <1>13, <1>14, <1>15, <1>16, <1>17, <1>18, <1>19, <1>20, <1>21, <1>22, <1>23
  DEF Next, Step, Environment, Exhausted

SafeInv ==
  /\ TypeInv
  /\ HolderOwnsLock
  /\ Fresh
  /\ Justified
  /\ Committed
  /\ AutoEnableOnlyAutoDisabled

\* Nobody holds a lock, has decided or has written when a replica starts.
LEMMA InitSafe == Init => SafeInv
<1>. SUFFICES ASSUME Init PROVE SafeInv
  OBVIOUS
<1>1. commits = <<>> /\ \A p \in Proc : pc[p] = "idle"
  BY DEF Init
<1>2. HolderOwnsLock /\ Fresh /\ Justified
  BY <1>1 DEF HolderOwnsLock, InCritical, Fresh, Justified
<1>3. Committed /\ AutoEnableOnlyAutoDisabled
  BY <1>1 DEF Committed, AutoEnableOnlyAutoDisabled
<1>. QED BY InitType, <1>2, <1>3 DEF SafeInv

\* A step of Report, SetKeyStatus or their surroundings keeps the invariant, as
\* long as no lock lapses under its holder and only keypool writes the channel.
LEMMA StepSafe ==
  ASSUME "lockexpire" \notin Faults, NewApi = {}
  PROVE  SafeInv /\ [Next]_vars => SafeInv'
BY StepType, StepHolder, StepFresh, StepJustified, StepCommitted, StepAutoEnable
DEF SafeInv

\* While no lock lapses under its holder and only keypool writes the channel, a
\* report enables nothing but what was automatically disabled, whatever the
\* interleaving and the failures.
THEOREM AutoEnableSafe ==
  ASSUME "lockexpire" \notin Faults, NewApi = {}
  PROVE  Spec => []AutoEnableOnlyAutoDisabled
<1>1. Init => SafeInv
  BY InitSafe
<1>2. SafeInv /\ [Next]_vars => SafeInv'
  BY StepSafe
<1>3. SafeInv => AutoEnableOnlyAutoDisabled
  BY DEF SafeInv
<1>. QED BY <1>1, <1>2, <1>3, PTL DEF Spec

-----------------------------------------------------------------------------
(* KeyState implements ChannelLifecycle: a write-through is one abstract   *)
(* step, every other step of a request is a stutter.                       *)

(* What a write-through does to the abstract channel.                      *)

Serving(c) == c.abil /\ c.status = Enabled

\* Key lists are no longer than the status map.
LEMMA KeyIndexRange ==
  ASSUME NEW c \in Channel PROVE KeyIndexes(c) \subseteq Idx
<1>1. PICK n \in 0 .. MaxKeys : c.keys \in [0 .. n - 1 -> Key]
  BY RowAssumption DEF Channel
<1>2. 0 .. n - 1 \subseteq 0 .. MaxKeys - 1
  BY RowAssumption
<1>. QED BY <1>1, <1>2 DEF KeyIndexes, Idx

\* ApplyKeyStatus sets one key, and the channel serves after it when it was
\* enabled, or served before and still has a key alive.
LEMMA WriteThrough ==
  ASSUME NEW c \in Channel, NEW i \in Idx, NEW s \in Status, CanApply(c, i),
         NEW n, n = ApplyKeyStatus(c, i, s)
  PROVE  /\ i \in DOMAIN KeyView(c)
         /\ KeyView(c)[i] = PrevStatus(c, i)
         /\ KeyView(n) = [KeyView(c) EXCEPT ![i] = s]
         /\ Serving(n) <=> \/ s = Enabled
                           \/ Serving(c) /\ \E k \in DOMAIN KeyView(n) : KeyView(n)[k] = Enabled
<1>1. CASE c.multi
  <2>. DEFINE m == SetKey(c, i, s)
  <2>1. i \in KeyIndexes(c) /\ KeyIndexes(c) \subseteq Idx
    BY <1>1, KeyIndexRange DEF CanApply
  <2>2. /\ m.keys = c.keys /\ m.multi = c.multi /\ m.status = c.status /\ m.abil = c.abil
        /\ m.ks = [c.ks EXCEPT ![i] = s]
        /\ m \in Channel
    BY DEF SetKey, Channel
  <2>. HIDE DEF m
  <2>3. n = ApplyMulti(c, i, s)
    BY <1>1 DEF ApplyKeyStatus
  <2>4. n.keys = c.keys /\ n.multi /\ n.ks = m.ks
    <3>1. n = [m EXCEPT !.status = AutoDisabled, !.abil = FALSE]
          \/ n = [m EXCEPT !.status = Enabled, !.abil = TRUE]
          \/ n = m
      BY <2>3 DEF ApplyMulti, m
    <3>. QED BY <1>1, <2>2, <3>1 DEF Channel
  <2>5. KeyView(n) = [k \in KeyIndexes(c) |-> m.ks[k]]
    BY <2>4 DEF KeyView, KeyIndexes
  <2>6. KeyView(c) = [k \in KeyIndexes(c) |-> c.ks[k]]
    BY <1>1 DEF KeyView
  <2>7. KeyView(n) = [KeyView(c) EXCEPT ![i] = s]
    <3>1. c.ks \in [Idx -> Status]
      BY DEF Channel
    <3>. QED BY <2>1, <2>2, <2>5, <2>6, <3>1
  <2>8. EnabledKeyIndexes(m) = {k \in DOMAIN KeyView(n) : KeyView(n)[k] = Enabled}
    BY <2>2, <2>5 DEF EnabledKeyIndexes, KeyIndexes
  <2>9. s = Enabled => EnabledKeyIndexes(m) # {}
    BY <2>1, <2>7, <2>6, <2>8
  <2>10. Serving(n) <=> s = Enabled \/ (Serving(c) /\ EnabledKeyIndexes(m) # {})
    <3>1. CASE EnabledKeyIndexes(m) = {}
      BY <2>2, <2>3, <2>9, <3>1 DEF ApplyMulti, m, Serving, Channel, Enabled, AutoDisabled
    <3>2. CASE EnabledKeyIndexes(m) # {} /\ s = Enabled
      BY <2>2, <2>3, <3>2 DEF ApplyMulti, m, Serving, Channel
    <3>3. CASE EnabledKeyIndexes(m) # {} /\ s # Enabled
      <4>1. n = m
        BY <2>3, <3>3 DEF ApplyMulti, m
      <4>. QED BY <2>2, <3>3, <4>1 DEF Serving
    <3>. QED BY <3>1, <3>2, <3>3
  <2>11. KeyView(c)[i] = PrevStatus(c, i) /\ i \in DOMAIN KeyView(c)
    BY <1>1, <2>1, <2>6 DEF PrevStatus
  <2>. QED BY <2>7, <2>8, <2>10, <2>11
<1>2. CASE ~ c.multi
  <2>1. i = 0 /\ n = ApplySingle(c, s)
    BY <1>2 DEF CanApply, ApplyKeyStatus
  <2>2. n.status = s /\ n.multi = c.multi /\ (n.abil <=> s = Enabled)
    BY <2>1 DEF ApplySingle, Channel
  <2>3. KeyView(c) = [k \in {0} |-> c.status] /\ KeyView(n) = [k \in {0} |-> s]
    BY <1>2, <2>2 DEF KeyView
  <2>4. KeyView(n) = [KeyView(c) EXCEPT ![i] = s]
    BY <2>1, <2>3
  <2>. QED BY <1>2, <2>1, <2>2, <2>3, <2>4 DEF PrevStatus, Serving
<1>. QED BY <1>1, <1>2

-----------------------------------------------------------------------------
(* Stutters.                                                               *)

\* Orders are done by requests that are past changing.
LEMMA OrdersKept ==
  ASSUME TypeInv, Committed, commits' = commits,
         \A q \in Proc : pc[q] \in AfterCommit => req'[q] = req[q]
  PROVE  OrdersDone' = OrdersDone
<1>1. \A q \in Proc : (\E n \in DOMAIN commits : commits[n].proc = q) => req'[q] = req[q]
  BY DEF Committed
<1>. QED BY <1>1 DEF OrdersDone

\* A step that keeps the row and the history is a stutter.
Quiet == row' = row /\ commits' = commits /\ \A q \in Proc : pc[q] \in AfterCommit => req'[q] = req[q]

\* A step that writes no channel is a stutter of ChannelLifecycle: orders done
\* stay done.
LEMMA QuietStutters ==
  ASSUME TypeInv, Committed, Quiet
  PROVE  UNCHANGED Lifecycle!vars
BY OrdersKept DEF Quiet, Lifecycle!vars

\* Every step but Apply is one, as long as only keypool writes the channel.
LEMMA OthersQuiet ==
  ASSUME NewApi = {}, TypeInv, [Next]_vars, \A p \in Proc : ~ Apply(p)
  PROVE  Quiet
<1>. USE DEF Quiet, AfterCommit
<1>1. ASSUME NEW p \in Proc, Arrive(p) PROVE Quiet
  BY <1>1 DEF Arrive, TypeInv, TypeOK, redisVars, history
<1>2. ASSUME NEW p \in Proc, IdemSet(p) PROVE Quiet
  BY <1>2 DEF IdemSet, redisVars, history
<1>3. ASSUME NEW p \in Proc, Load(p) PROVE Quiet
  BY <1>3 DEF Load, redisVars, history
<1>4. ASSUME NEW p \in Proc, Metric(p) PROVE Quiet
  BY <1>4 DEF Metric, redisVars, history
<1>5. ASSUME NEW p \in Proc, LeaseTake(p) PROVE Quiet
  BY <1>5 DEF LeaseTake, redisVars, history
<1>6. ASSUME NEW p \in Proc, UsageIncr(p) PROVE Quiet
  BY <1>6 DEF UsageIncr, redisVars, history
<1>7. ASSUME NEW p \in Proc, Lock(p) PROVE Quiet
  BY <1>7 DEF Lock, redisVars, history
<1>8. ASSUME NEW p \in Proc, Reload(p) PROVE Quiet
  BY <1>8 DEF Reload, redisVars, history
<1>9. ASSUME NEW p \in Proc, Decide(p) PROVE Quiet
  BY <1>9 DEF Decide, redisVars, history
<1>10. ASSUME NEW p \in Proc, Publish(p) PROVE Quiet
  BY <1>10 DEF Publish, redisVars, history
<1>11. ASSUME NEW p \in Proc, Unlock(p) PROVE Quiet
  BY <1>11 DEF Unlock, redisVars, history
<1>12. ASSUME NEW p \in Proc, Release(p) PROVE Quiet
  BY <1>12 DEF Release, redisVars, history
<1>13. ASSUME NEW p \in Proc, Cancel(p) PROVE Quiet
  BY <1>13 DEF Cancel, redisVars, history
<1>14. ASSUME NEW p \in Proc, Crash(p) PROVE Quiet
  BY <1>14 DEF Crash, redisVars, history
<1>15. CASE LockExpire
  BY <1>15 DEF LockExpire, reqVars, redisVars, history
<1>16. ASSUME NEW k \in IdemKey, IdemExpire(k) PROVE Quiet
  BY <1>16 DEF IdemExpire, reqVars, redisVars, history
<1>17. ASSUME NEW l \in Lease, LeaseExpire(l) PROVE Quiet
  BY <1>17 DEF LeaseExpire, reqVars, redisVars, history
<1>18. CASE SettingsChange
  BY <1>18 DEF SettingsChange, reqVars, redisVars, history
<1>19. CASE NewApiEditKeys
  BY <1>19 DEF NewApiEditKeys, reqVars, redisVars, history
<1>20. CASE NewApiSetStatus
  BY <1>20 DEF NewApiSetStatus, reqVars, redisVars, history
<1>21. CASE NewApiDelete
  BY <1>21 DEF NewApiDelete, reqVars, redisVars, history
<1>22. CASE UNCHANGED vars
  BY <1>22 DEF vars, reqVars, redisVars, history
<1>. QED
  BY <1>1, <1>2, <1>3, <1>4, <1>5, <1>6, <1>7, <1>8, <1>9, <1>10, <1>11, <1>12,
     <1>13, <1>14, <1>15, <1>16, <1>17, <1>18, <1>19, <1>20, <1>21, <1>22
  DEF Next, Step, Environment, Exhausted

-----------------------------------------------------------------------------
(* The steps that are not stutters.                                        *)

\* ApplyKeyStatus either leaves row and history alone (a refusal, an unchanged
\* verdict, a failed transaction) or commits one change.
LEMMA ApplyQuietOrCommit ==
  ASSUME TypeInv, NEW p \in Proc, Apply(p)
  PROVE  \/ Quiet
         \/ commits' # commits /\ CanApply(row, idx[p])
<1>1. UNCHANGED <<row, commits>> \/ Commit(p, idx[p], Target(req[p]))
  BY DEF Apply
<1>2. req' = req
  BY DEF Apply
<1>3. CASE UNCHANGED <<row, commits>>
  BY <1>2, <1>3 DEF Quiet
<1>4. CASE Commit(p, idx[p], Target(req[p]))
  <2>. DEFINE c == [proc |-> p, idx |-> idx[p], from |-> PrevStatus(row, idx[p]),
                    to |-> Target(req[p])]
  <2>1. commits' = Append(commits, c) /\ CanApply(row, idx[p])
    BY <1>4 DEF Commit
  <2>. HIDE DEF c
  <2>2. commits \in Seq(Change)
    BY DEF TypeInv, TypeOK
  <2>. QED BY <2>1, <2>2
<1>. QED BY <1>1, <1>3, <1>4

\* A commit carries out an order if it is an operator's, and none otherwise.
LEMMA OrdersStep ==
  ASSUME TypeInv, Committed, NEW p \in Proc, Apply(p), commits' # commits
  PROVE  /\ p \notin OrdersDone
         /\ OrdersDone' = IF req[p].op = "set" THEN OrdersDone \cup {p} ELSE OrdersDone
<1>1. req' = req /\ pc[p] = "apply"
  BY DEF Apply
<1>2. p \notin OrdersDone
  BY <1>1 DEF OrdersDone, Committed, AfterCommit
<1>3. \A q \in Proc : (\E n \in DOMAIN commits' : commits'[n].proc = q)
                      <=> q = p \/ \E n \in DOMAIN commits : commits[n].proc = q
  <2>1. commits \in Seq(Change) /\ commits' \in Seq(Change)
    BY StepType, ApplyStepType DEF TypeInv, TypeOK
  <2>2. \A n \in DOMAIN commits : n \in DOMAIN commits' /\ commits'[n] = commits[n]
    BY <2>1, ApplyHistory
  <2>3. Len(commits) + 1 \in DOMAIN commits' /\ commits'[Len(commits) + 1].proc = p
    BY <2>1, ApplyHistory
  <2>4. \A n \in DOMAIN commits' : n \in DOMAIN commits \/ n = Len(commits) + 1
    BY ApplyHistory
  <2>. QED BY <2>2, <2>3, <2>4
<1>. QED BY <1>1, <1>2, <1>3 DEF OrdersDone

\* A commit is the step of ChannelLifecycle that its request stands for.
LEMMA ApplyImplements ==
  ASSUME SafeInv, NEW p \in Proc, Apply(p), commits' # commits, CanApply(row, idx[p])
  PROVE  Lifecycle!Next
<1>. USE DEF SafeInv
<1>. DEFINE s == Target(req[p])
            i == idx[p]
<1>1. row \in Channel /\ i \in Idx /\ row' = ApplyKeyStatus(row, i, s)
  BY ApplyHistory
<1>2. s \in Status /\ req[p].op \in {"report", "set"} /\ req[p].status \in {Enabled, ManuallyDisabled}
  BY RequestFields DEF TypeInv, TypeOK
<1>3. /\ i \in DOMAIN KeyView(row)
      /\ KeyView(row)[i] = PrevStatus(row, i)
      /\ KeyView(row)' = [KeyView(row) EXCEPT ![i] = s]
      /\ Serving(row') <=> \/ s = Enabled
                           \/ Serving(row) /\ \E k \in DOMAIN KeyView(row') : KeyView(row')[k] = Enabled
  BY <1>1, <1>2, WriteThrough
<1>4. s = Enabled => Lifecycle!Unblock(i)
  BY <1>3 DEF Lifecycle!Unblock, Serving, Enabled
<1>5. s # Enabled => Lifecycle!Block(i, s)
  BY <1>3 DEF Lifecycle!Block, Lifecycle!Alive, Serving, Enabled
<1>6. CASE req[p].op = "set"
  <2>1. s \in {Enabled, ManuallyDisabled}
    BY <1>2, <1>6 DEF Target
  <2>2. p \notin OrdersDone /\ OrdersDone' = OrdersDone \cup {p}
    BY <1>6, OrdersStep
  <2>3. Lifecycle!Block(i, 2) \/ Lifecycle!Unblock(i)
    BY <1>4, <1>5, <2>1 DEF Enabled, ManuallyDisabled
  <2>4. Lifecycle!Obey(p)
    BY <1>3, <2>2, <2>3 DEF Lifecycle!Obey, Lifecycle!Keys
  <2>. QED BY <2>4 DEF Lifecycle!Next
<1>7. CASE req[p].op = "report"
  <2>1. UNCHANGED OrdersDone
    BY <1>7, OrdersStep
  <2>2. CASE s = Enabled
    <3>1. req[p].success /\ pc[p] = "apply"
      BY <1>7, <2>2 DEF Target, Enabled, AutoDisabled, Apply
    <3>2. KeyView(row)[i] = 3
      BY <1>3, <1>7, <3>1 DEF Fresh, Justified, AutoDisabled
    <3>3. Lifecycle!AutoEnable
      BY <1>3, <1>4, <2>1, <2>2, <3>2 DEF Lifecycle!AutoEnable, Lifecycle!Keys
    <3>. QED BY <3>3 DEF Lifecycle!Next
  <2>3. CASE s # Enabled
    <3>1. s = 3
      BY <1>7, <2>3 DEF Target, AutoDisabled
    <3>2. Lifecycle!AutoDisable
      BY <1>3, <1>5, <2>1, <2>3, <3>1 DEF Lifecycle!AutoDisable, Lifecycle!Keys
    <3>. QED BY <3>2 DEF Lifecycle!Next
  <2>. QED BY <2>2, <2>3
<1>. QED BY <1>2, <1>6, <1>7

-----------------------------------------------------------------------------

\* The row a channel starts with is one ChannelLifecycle starts with.
LEMMA InitImplements == Init => Lifecycle!Init
<1>. SUFFICES ASSUME Init PROVE Lifecycle!Init
  OBVIOUS
<1>1. row \in Channel /\ commits = <<>>
  BY KeyStateAssumption DEF Init
<1>2. KeyView(row) \in [DOMAIN KeyView(row) -> Status] /\ DOMAIN KeyView(row) \subseteq Idx
  <2>1. KeyIndexes(row) \subseteq Idx /\ 0 \in Idx
    BY <1>1, KeyIndexRange, RowAssumption DEF Idx
  <2>2. row.ks \in [Idx -> Status] /\ row.status \in Status
    BY <1>1 DEF Channel
  <2>. QED BY <2>1, <2>2 DEF KeyView
<1>3. OrdersDone = {}
  BY <1>1 DEF OrdersDone
<1>4. (row.abil /\ row.status = Enabled) \in BOOLEAN
  OBVIOUS
<1>5. Status = {1, 2, 3}
  BY DEF Status, Enabled, ManuallyDisabled, AutoDisabled
<1>. QED BY <1>2, <1>3, <1>4, <1>5 DEF Lifecycle!Init

\* Every step of Report, SetKeyStatus or their surroundings is a step of
\* ChannelLifecycle or a stutter.
LEMMA StepImplements ==
  ASSUME NewApi = {}, SafeInv, [Next]_vars
  PROVE  [Lifecycle!Next]_(Lifecycle!vars)
<1>. USE DEF SafeInv
<1>1. CASE \A p \in Proc : ~ Apply(p)
  BY <1>1, OthersQuiet, QuietStutters
<1>2. ASSUME NEW p \in Proc, Apply(p) PROVE Lifecycle!Next \/ UNCHANGED Lifecycle!vars
  BY <1>2, ApplyQuietOrCommit, QuietStutters, ApplyImplements
<1>. QED BY <1>1, <1>2

\* While no lock lapses under its holder and only keypool writes the channel,
\* the requests, their failures, crashes and interleavings do to the channel
\* nothing but what ChannelLifecycle allows.
THEOREM Refinement ==
  ASSUME "lockexpire" \notin Faults, NewApi = {}
  PROVE  Spec => ImplementsLifecycle
<1>1. Init => SafeInv /\ Lifecycle!Init
  BY InitSafe, InitImplements
<1>2. SafeInv /\ [Next]_vars => SafeInv'
  BY StepSafe
<1>3. SafeInv /\ [Next]_vars => [Lifecycle!Next]_(Lifecycle!vars)
  BY StepImplements
<1>. QED BY <1>1, <1>2, <1>3, PTL DEF Spec, ImplementsLifecycle, Lifecycle!Spec
=============================================================================
