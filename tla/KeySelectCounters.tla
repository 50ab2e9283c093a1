------------------------- MODULE KeySelectCounters -------------------------
(***************************************************************************)
(* Theorems about the usage counters of KeySelect: the estimates that are  *)
(* debited come back, and callers who estimate right keep the counters of  *)
(* a channel's keys level.                                                 *)
(***************************************************************************)
EXTENDS KeySelectProofs

-----------------------------------------------------------------------------
(* Totals.                                                                 *)

\* g gives the sum of w over every set of calls: nothing where w is zero, and
\* each call adds its own.
Sums(g, w) ==
  /\ g \in [SUBSET Proc -> Int]
  /\ \A S \in SUBSET Proc : (\A q \in S : w[q] = 0) => g[S] = 0
  /\ \A S \in SUBSET Proc : \A q \in S : g[S] = g[S \ {q}] + w[q]

Total(w, t) == \E g : Sums(g, w) /\ t = g[Proc]

\* Where nobody owes anything the total is nothing.
LEMMA TotalOfNone ==
  ASSUME NEW w, \A q \in Proc : w[q] = 0
  PROVE  Total(w, 0) /\ \A t : Total(w, t) => t = 0
<1>1. Sums([S \in SUBSET Proc |-> 0], w)
  BY DEF Sums
<1>2. Total(w, 0)
  BY <1>1 DEF Total
<1>3. \A t : Total(w, t) => t = 0
  BY DEF Total, Sums
<1>. QED BY <1>2, <1>3

\* Where one call comes to owe d more, so does the total.
LEMMA TotalMoves ==
  ASSUME NEW w \in [Proc -> Int], NEW p \in Proc, NEW d \in Int, NEW t \in Int, Total(w, t)
  PROVE  Total([w EXCEPT ![p] = @ + d], t + d)
<1>. DEFINE v == [w EXCEPT ![p] = @ + d]
<1>1. PICK g : Sums(g, w) /\ t = g[Proc]
  BY DEF Total
<1>. DEFINE h == [S \in SUBSET Proc |-> g[S] + IF p \in S THEN d ELSE 0]
<1>2. g \in [SUBSET Proc -> Int]
  BY <1>1 DEF Sums
<1>3. h \in [SUBSET Proc -> Int]
  BY <1>2
<1>4. \A S \in SUBSET Proc : h[S] = g[S] + IF p \in S THEN d ELSE 0
  OBVIOUS
<1>5. v \in [Proc -> Int] /\ v[p] = w[p] + d /\ \A q \in Proc \ {p} : v[q] = w[q]
  OBVIOUS
<1>. HIDE DEF v, h
<1>6. ASSUME NEW S \in SUBSET Proc, \A q \in S : v[q] = 0 PROVE h[S] = 0
  <2>1. CASE p \in S
    <3>1. \A q \in S \ {p} : w[q] = 0
      BY <1>5, <1>6
    <3>2. S \ {p} \in SUBSET Proc /\ g[S \ {p}] = 0
      BY <1>1, <3>1 DEF Sums
    <3>3. g[S] = g[S \ {p}] + w[p]
      BY <1>1, <2>1 DEF Sums
    <3>4. w[p] \in Int /\ w[p] + d = 0
      BY <1>5, <1>6, <2>1
    <3>. QED BY ONLY <1>4, <2>1, <3>2, <3>3, <3>4
  <2>2. CASE p \notin S
    <3>1. \A q \in S : w[q] = 0
      BY <1>5, <1>6, <2>2
    <3>2. g[S] = 0
      BY <1>1, <3>1 DEF Sums
    <3>. QED BY ONLY <1>4, <2>2, <3>2
  <2>. QED BY <2>1, <2>2
<1>7. ASSUME NEW S \in SUBSET Proc, NEW q \in S PROVE h[S] = h[S \ {q}] + v[q]
  <2>1. /\ S \ {q} \in SUBSET Proc /\ q \in Proc
        /\ g[S] \in Int /\ g[S \ {q}] \in Int /\ w[q] \in Int
        /\ g[S] = g[S \ {q}] + w[q]
    BY <1>1, <1>2 DEF Sums
  <2>2. h[S] = g[S] + IF p \in S THEN d ELSE 0
    BY ONLY <1>4
  <2>3. h[S \ {q}] = g[S \ {q}] + IF p \in S \ {q} THEN d ELSE 0
    BY ONLY <1>4, <2>1
  <2>4. CASE q = p
    BY ONLY <1>5, <2>1, <2>2, <2>3, <2>4
  <2>5. CASE q # p
    BY ONLY <1>5, <2>1, <2>2, <2>3, <2>5
  <2>. QED BY <2>4, <2>5
<1>8. Sums(h, v)
  BY ONLY <1>3, <1>6, <1>7 DEF Sums
<1>9. Proc \in SUBSET Proc /\ h[Proc] = t + d
  BY ONLY <1>1, <1>4
<1>. QED BY ONLY <1>8, <1>9 DEF Total, v

-----------------------------------------------------------------------------
(* Who owes an estimate.                                                   *)

\* No call of Redis fails or loses its reply.
RedisWorks == Faults \cap {"redis", "lostreply"} = {}

\* A call whose debit is made and not yet settled by a report.
Holds(p) == pc[p] = "lease" \/ p \in leases

\* What each call has debited key i of channel c and not settled.
Held(c, i) ==
  [p \in Proc |-> IF Holds(p) /\ cid[p] = c /\ resp[p].idx = i THEN req[p].est ELSE 0]

\* p owes what it owed.
SameDebt(p) ==
  /\ Holds(p)' <=> Holds(p)
  /\ Holds(p) => cid'[p] = cid[p] /\ resp'[p].idx = resp[p].idx /\ req'[p] = req[p]

\* Where every call owes what it owed, so does every key (lease.go).
LEMMA HeldSame ==
  ASSUME \A p \in Proc : SameDebt(p), NEW c, NEW i
  PROVE  Held(c, i)' = Held(c, i)
BY Zenon DEF SameDebt, Held

\* Debts are numbers: est_usage is one (validation in handlers.go).
LEMMA HeldType ==
  ASSUME TypeInv, NEW c, NEW i
  PROVE  Held(c, i) \in [Proc -> Int]
BY CallFields DEF Held

\* A step of one call leaves what the others hold alone.
LEMMA OthersDebt ==
  ASSUME TypeInv, NEW p \in Proc, Arrive(p) \/ Step(p), NEW q \in Proc \ {p}
  PROVE  SameDebt(q)
<1>1. /\ pc'[q] = pc[q] /\ cid'[q] = cid[q] /\ resp'[q] = resp[q]
  BY OwnStep
<1>2. req'[q] = req[q] /\ (q \in leases' <=> q \in leases)
  BY DEF Arrive, Step, Abilities, Load, Plan, Pick, LeaseSet, TypeInv, SelectTypeOK
<1>. QED BY ONLY <1>1, <1>2 DEF SameDebt, Holds

\* Before the script a call owes nothing, and the lease it is granted after it
\* keeps what it owes (Select, steps 1 to 4 and 6).
LEMMA QuietStep ==
  ASSUME TypeInv, RedisWorks, NEW p \in Proc,
         Arrive(p) \/ Abilities(p) \/ Load(p) \/ Plan(p) \/ LeaseSet(p)
  PROVE  SameDebt(p) /\ UNCHANGED <<usage, real, decays, lastDecay>>
<1>1. CASE Arrive(p) \/ Abilities(p) \/ Load(p) \/ Plan(p)
  <2>1. /\ pc[p] \in {"idle", "abilities", "load", "plan"} /\ UNCHANGED leases
        /\ UNCHANGED <<usage, real, decays, lastDecay>>
    BY <1>1 DEF Arrive, Abilities, Load, Plan, luaVars
  <2>2. p \notin leases
    BY <2>1 DEF TypeInv, ControlOK
  <2>3. pc'[p] # "lease"
    <3>1. pc \in [Proc -> {"idle", "abilities", "load", "plan", "pick", "lease", "done"}]
      BY DEF TypeInv, SelectTypeOK
    <3>2. \E l \in {"abilities", "load", "plan", "pick", "done"} : pc' = [pc EXCEPT ![p] = l]
      <4>1. CASE Arrive(p)
        BY <4>1 DEF Arrive, Goto
      <4>2. CASE Abilities(p)
        BY <4>2 DEF Abilities, Goto, Answer, End
      <4>3. CASE Load(p)
        BY <4>3 DEF Load, Goto, Answer, AnswerKey, End
      <4>4. CASE Plan(p)
        BY <4>4 DEF Plan, Goto, Answer, End
      <4>. QED BY <1>1, <4>1, <4>2, <4>3, <4>4
    <3>. QED BY ONLY <3>1, <3>2
  <2>. QED BY <2>1, <2>2, <2>3 DEF SameDebt, Holds
<1>2. CASE LeaseSet(p)
  <2>1. /\ pc[p] = "lease" /\ leases' = leases \cup {p} /\ AnswerKey(p, resp[p].idx, ch[p])
        /\ UNCHANGED <<req, cid, luaVars>>
    BY <1>2 DEF LeaseSet, RedisWorks
  <2>2. resp'[p].idx = resp[p].idx
    BY <2>1 DEF AnswerKey, TypeInv, SelectTypeOK
  <2>. QED BY <2>1, <2>2 DEF SameDebt, Holds, luaVars
<1>. QED BY <1>1, <1>2

\* What the script debits (select_key.lua: the estimate, in usage mode).
Debit(p) == IF plan[p].mode = "usage" THEN req[p].est ELSE 0

\* After the script a call owes its debit on the key picked, if any.
LEMMA PickDebt ==
  ASSUME TypeInv, RedisWorks, NEW p \in Proc, Pick(p)
  PROVE  /\ ~ Holds(p) /\ UNCHANGED <<req, cid>>
         /\ \/ ~ Holds(p)' /\ UNCHANGED <<usage, real, decays, lastDecay>>
            \/ \E i \in Idx : /\ Script(p, i)
                              /\ Holds(p)' <=> Debit(p) # 0
                              /\ Holds(p)' => resp'[p].idx = i
<1>1. pc[p] = "pick" /\ p \notin leases /\ UNCHANGED <<leases, req, cid>>
  BY DEF Pick, TypeInv, ControlOK
<1>2. req[p].est \in Nat
  BY CallFields
<1>3. CASE \E kind \in {"degraded", "internal"} : Answer(p, kind) /\ UNCHANGED luaVars
  BY <1>1, <1>3, AnswerKind DEF Holds, luaVars
<1>4. CASE \E i \in Idx :
             /\ Script(p, i)
             /\ IF plan[p].mode = "usage" /\ req[p].est > 0
                THEN /\ resp' = [resp EXCEPT ![p].idx = i]
                     /\ Goto(p, "lease")
                     /\ UNCHANGED <<at, ch, plan>>
                ELSE AnswerKey(p, i, ch[p])
  <2>1. PICK i \in Idx :
             /\ Script(p, i)
             /\ IF plan[p].mode = "usage" /\ req[p].est > 0
                THEN /\ resp' = [resp EXCEPT ![p].idx = i]
                     /\ Goto(p, "lease")
                     /\ UNCHANGED <<at, ch, plan>>
                ELSE AnswerKey(p, i, ch[p])
    BY <1>4
  <2>2. CASE Debit(p) # 0
    <3>1. resp' = [resp EXCEPT ![p].idx = i] /\ Goto(p, "lease")
      BY <1>2, <2>1, <2>2 DEF Debit
    <3>2. resp'[p].idx = i /\ pc'[p] = "lease"
      BY <3>1 DEF Goto, TypeInv, SelectTypeOK, AnswerType
    <3>3. ~ Holds(p) /\ Holds(p)'
      BY ONLY <1>1, <3>2 DEF Holds
    <3>. QED BY ONLY <1>1, <2>1, <2>2, <3>2, <3>3
  <2>3. CASE Debit(p) = 0
    <3>1. AnswerKey(p, i, ch[p])
      BY <1>2, <2>1, <2>3 DEF Debit
    <3>2. pc'[p] = "done"
      BY <3>1, AnswerKind
    <3>3. ~ Holds(p) /\ ~ Holds(p)'
      BY ONLY <1>1, <3>2 DEF Holds
    <3>. QED BY ONLY <1>1, <2>1, <2>3, <3>3
  <2>. QED BY <2>2, <2>3
<1>. QED BY <1>3, <1>4 DEF Pick, RedisWorks

-----------------------------------------------------------------------------
(* Estimates come back.                                                    *)

\* A call that has arrived took its time from the clock.
AtOK == \A p \in Proc : pc[p] \in {"abilities", "load", "plan", "pick"} => at[p] >= Start

\* Every step keeps it so (Select: now is taken on arrival).
LEMMA StepAt == ASSUME TypeInv, AtOK, [Next]_vars PROVE AtOK'
<1>. USE DEF AtOK
<1>1. /\ clock >= Start /\ at \in [Proc -> 0 .. MaxNow]
      /\ pc \in [Proc -> {"idle", "abilities", "load", "plan", "pick", "lease", "done"}]
  BY SelectAssumption DEF TypeInv, SelectTypeOK
<1>2. ASSUME NEW p \in Proc, Arrive(p) \/ Step(p) PROVE AtOK'
  <2>1. CASE Arrive(p)
    BY <1>1, <2>1 DEF Arrive, Goto
  <2>2. CASE Abilities(p)
    BY <1>1, <2>2 DEF Abilities, Goto, Answer, End
  <2>3. CASE Load(p)
    BY <1>1, <2>3 DEF Load, Goto, Answer, AnswerKey, End
  <2>4. CASE Plan(p)
    BY <1>1, <2>4 DEF Plan, Goto, Answer, End
  <2>5. CASE Pick(p)
    BY <1>1, <2>5 DEF Pick, Goto, Answer, AnswerKey, End
  <2>6. CASE LeaseSet(p)
    BY <1>1, <2>6 DEF LeaseSet, Answer, AnswerKey, Goto, End
  <2>. QED BY <1>2, <2>1, <2>2, <2>3, <2>4, <2>5, <2>6 DEF Step
<1>3. CASE Environment \/ UNCHANGED vars
  <2>1. UNCHANGED <<pc, at>>
    BY <1>3 DEF Environment, Tick, KeyStatus, EditKeys, Write, SettingsChange, Report,
                RedisComes, reqVars, vars
  <2>. QED BY <2>1
<1>. QED BY <1>2, <1>3 DEF Next, Exhausted

\* Before its first decay a channel's counters are zero and nobody owes it;
\* until the second they differ from what was really used by what is owed.
CountOK(c) ==
  /\ decays[c] = <<>> =>
       /\ lastDecay[c] = 0
       /\ \A i \in Idx : usage[c][i] = 0 /\ real[c][i] = 0
       /\ \A p \in Proc : Holds(p) => cid[p] # c
  /\ Len(decays[c]) <= 1 =>
       \A i \in Idx : Total(Held(c, i), usage[c][i] - real[c][i])

CountTypes == real \in [Chan -> [Idx -> Int]] /\ decays \in [Chan -> Seq(Nat)]

\* The first script in usage mode decays: the channel has no last_decay, and the
\* replicas start long after second 0 (select_key.lua).
LEMMA FirstIsDue ==
  ASSUME TypeInv, AtOK, NEW p \in Proc, pc[p] = "pick", plan[p].mode = "usage",
         lastDecay[cid[p]] = 0
  PROVE  Due(p)
<1>1. PICK s \in Snapshots : plan[p].interval = s.interval[cid[p]]
  BY DEF TypeInv, ControlOK
<1>2. cid[p] \in Chan /\ at[p] \in Nat /\ at[p] >= Start
  BY SelectAssumption DEF TypeInv, ControlOK, SelectTypeOK, AtOK
<1>3. s.interval[cid[p]] < Start /\ s.interval[cid[p]] \in Nat /\ Start \in Nat
  BY <1>2, SelectAssumption DEF SnapshotType
<1>. QED BY <1>1, <1>2, <1>3 DEF Due

\* What the script does to a channel's counters (select_key.lua).
LEMMA ScriptCounters ==
  ASSUME TypeInv, CountTypes, NEW p \in Proc, NEW i \in Idx, pc[p] = "pick", Script(p, i)
  PROVE  /\ CountTypes' /\ cid[p] \in Chan /\ Debit(p) \in Nat
         /\ \A c \in Chan \ {cid[p]} :
              /\ usage'[c] = usage[c] /\ real'[c] = real[c]
              /\ decays'[c] = decays[c] /\ lastDecay'[c] = lastDecay[c]
         /\ \A k \in Idx :
              /\ usage'[cid[p]][k] = Counters(p)[k] + IF k = i THEN Debit(p) ELSE 0
              /\ Counters(p)[k] = IF Due(p) THEN usage[cid[p]][k] \div 2 ELSE usage[cid[p]][k]
              /\ real'[cid[p]][k] = IF Due(p) THEN real[cid[p]][k] \div 2 ELSE real[cid[p]][k]
         /\ IF Due(p) THEN decays'[cid[p]] = Append(decays[cid[p]], at[p])
                      ELSE decays' = decays /\ lastDecay' = lastDecay
<1>1. /\ cid[p] \in Chan /\ at[p] \in Nat /\ req[p].est \in Nat
      /\ usage \in [Chan -> [Idx -> Int]] /\ lastDecay \in [Chan -> 0 .. MaxNow]
  <2>1. req[p].est \in Nat
    BY CallFields
  <2>2. cid[p] \in Chan
    BY DEF TypeInv, ControlOK
  <2>3. /\ at \in [Proc -> 0 .. MaxNow] /\ MaxNow \in Nat
        /\ usage \in [Chan -> [Idx -> Int]] /\ lastDecay \in [Chan -> 0 .. MaxNow]
    BY SelectAssumption DEF TypeInv, SelectTypeOK
  <2>. QED BY ONLY <2>1, <2>2, <2>3
<1>2. Debit(p) \in Nat
  BY <1>1 DEF Debit
<1>3. \A k \in Idx : Counters(p)[k] = IF Due(p) THEN usage[cid[p]][k] \div 2 ELSE usage[cid[p]][k]
  BY DEF Counters, Halved
<1>4. Counters(p) \in [Idx -> Int]
  <2>1. Halved(usage[cid[p]]) \in [Idx -> Int]
    BY ONLY <1>1 DEF Halved
  <2>. QED BY ONLY <1>1, <2>1 DEF Counters
<1>5. usage' = [usage EXCEPT ![cid[p]] = [Counters(p) EXCEPT ![i] = @ + Debit(p)]]
  BY DEF Script, Debit
<1>6. \A k \in Idx : usage'[cid[p]][k] = Counters(p)[k] + IF k = i THEN Debit(p) ELSE 0
  BY ONLY <1>1, <1>2, <1>4, <1>5
<1>7. /\ real' = IF Due(p) THEN [real EXCEPT ![cid[p]] = Halved(@)] ELSE real
      /\ decays' = IF Due(p) THEN [decays EXCEPT ![cid[p]] = Append(@, at[p])] ELSE decays
      /\ lastDecay' = IF Due(p) THEN [lastDecay EXCEPT ![cid[p]] = at[p]] ELSE lastDecay
  BY DEF Script, Decay
<1>8. /\ real' \in [Chan -> [Idx -> Int]]
      /\ \A k \in Idx : real'[cid[p]][k] =
            IF Due(p) THEN real[cid[p]][k] \div 2 ELSE real[cid[p]][k]
  <2>1. Halved(real[cid[p]]) \in [Idx -> Int]
    BY <1>1 DEF Halved, CountTypes
  <2>2. \A k \in Idx : Halved(real[cid[p]])[k] = real[cid[p]][k] \div 2
    BY DEF Halved
  <2>3. real \in [Chan -> [Idx -> Int]]
    BY DEF CountTypes
  <2>. QED BY ONLY <1>1, <1>7, <2>1, <2>2, <2>3
<1>9. /\ decays' \in [Chan -> Seq(Nat)]
      /\ Due(p) => decays'[cid[p]] = Append(decays[cid[p]], at[p])
  <2>1. decays \in [Chan -> Seq(Nat)]
    BY DEF CountTypes
  <2>2. Append(decays[cid[p]], at[p]) \in Seq(Nat)
    BY ONLY <1>1, <2>1
  <2>. QED BY ONLY <1>1, <1>7, <2>1, <2>2
<1>10. \A c \in Chan \ {cid[p]} :
         /\ usage'[c] = usage[c] /\ real'[c] = real[c]
         /\ decays'[c] = decays[c] /\ lastDecay'[c] = lastDecay[c]
  BY <1>1, <1>5, <1>7 DEF CountTypes
<1>11. Due(p) \/ (decays' = decays /\ lastDecay' = lastDecay)
  BY ONLY <1>7
<1>. QED BY ONLY <1>1, <1>2, <1>3, <1>6, <1>8, <1>9, <1>10, <1>11 DEF CountTypes

\* A pick settles into the counts of its own channel.
LEMMA PickCounts ==
  ASSUME TypeInv, CountTypes, AtOK, RedisWorks, NEW p \in Proc, NEW i \in Idx,
         pc[p] = "pick", Script(p, i), CountOK(cid[p]),
         ~ Holds(p), UNCHANGED <<req, cid>>,
         Holds(p)' <=> Debit(p) # 0, Holds(p)' => resp'[p].idx = i,
         \A q \in Proc \ {p} : SameDebt(q)
  PROVE  CountOK(cid[p])'
<1>. DEFINE c == cid[p]
            d(k) == IF k = i THEN Debit(p) ELSE 0
<1>1. /\ c \in Chan /\ Debit(p) \in Nat
      /\ \A k \in Idx :
           /\ usage'[c][k] = Counters(p)[k] + d(k)
           /\ Counters(p)[k] = IF Due(p) THEN usage[c][k] \div 2 ELSE usage[c][k]
           /\ real'[c][k] = IF Due(p) THEN real[c][k] \div 2 ELSE real[c][k]
      /\ IF Due(p) THEN decays'[c] = Append(decays[c], at[p])
                   ELSE decays' = decays /\ lastDecay' = lastDecay
  BY ScriptCounters
<1>2. /\ decays[c] \in Seq(Nat) /\ at[p] \in Nat /\ real[c] \in [Idx -> Int]
      /\ usage[c] \in [Idx -> Int] /\ c' = c
  BY <1>1, SelectAssumption DEF CountTypes, TypeInv, SelectTypeOK
<1>3. \A k \in Idx : Held(c, k) \in [Proc -> Int] /\ Held(c, k)[p] = 0
  BY HeldType DEF Held
<1>4. ASSUME NEW k \in Idx
      PROVE  Held(c, k)' = [Held(c, k) EXCEPT ![p] = @ + d(k)]
  <2>1. ASSUME NEW q \in Proc \ {p} PROVE Held(c, k)'[q] = Held(c, k)[q]
    BY <1>2 DEF SameDebt, Held
  <2>2. Held(c, k)'[p] = d(k)
    <3>1. Held(c, k)'[p] = IF Holds(p)' /\ k = i THEN req[p].est ELSE 0
      BY <1>2 DEF Held
    <3>2. Debit(p) # 0 => Debit(p) = req[p].est
      BY DEF Debit
    <3>. QED BY <3>1, <3>2
  <2>3. Held(c, k)' = [q \in Proc |-> Held(c, k)'[q]]
    BY <1>2 DEF Held
  <2>4. d(k) \in Int
    BY ONLY <1>1
  <2>. HIDE DEF d
  <2>. QED BY ONLY <1>3, <2>1, <2>2, <2>3, <2>4
<1>. HIDE DEF c
<1>5. ASSUME NEW k \in Idx, Total(Held(c, k), Counters(p)[k] - real'[c][k])
      PROVE  Total(Held(c, k)', usage'[c][k] - real'[c][k])
  <2>1. d(k) \in Int
    BY ONLY <1>1
  <2>2. usage'[c][k] = Counters(p)[k] + d(k)
    BY ONLY <1>1
  <2>3. Counters(p)[k] \in Int /\ real'[c][k] \in Int
    <3>1. usage[c][k] \in Int /\ real[c][k] \in Int
      BY ONLY <1>2
    <3>. QED BY ONLY <1>1, <3>1
  <2>. HIDE DEF d
  <2>4. /\ Counters(p)[k] - real'[c][k] \in Int
        /\ usage'[c][k] - real'[c][k] = (Counters(p)[k] - real'[c][k]) + d(k)
    BY ONLY <2>1, <2>2, <2>3
  <2>5. Held(c, k) \in [Proc -> Int]
    BY ONLY <1>3
  <2>6. Total([Held(c, k) EXCEPT ![p] = @ + d(k)], (Counters(p)[k] - real'[c][k]) + d(k))
    BY ONLY <1>5, <2>1, <2>4, <2>5, TotalMoves
  <2>7. Held(c, k)' = [Held(c, k) EXCEPT ![p] = @ + d(k)]
    BY ONLY <1>4
  <2>. QED BY ONLY <2>4, <2>6, <2>7
<1>6. CASE Due(p) /\ decays[c] = <<>>
  <2>1. decays'[c] # <<>>
    <3>1. \A s \in Seq(Nat), e \in Nat : Append(s, e) # <<>>
      <4>1. \A s \in Seq(Nat), e \in Nat : Len(Append(s, e)) = Len(s) + 1 /\ Len(s) \in Nat
        OBVIOUS
      <4>2. Len(<<>>) = 0
        OBVIOUS
      <4>. QED BY ONLY <4>1, <4>2
    <3>2. decays'[c] = Append(decays[c], at[p])
      BY ONLY <1>1, <1>6
    <3>. QED BY ONLY <1>2, <3>1, <3>2
  <2>2. ASSUME NEW k \in Idx PROVE Total(Held(c, k), Counters(p)[k] - real'[c][k])
    <3>1. usage[c][k] = 0 /\ real[c][k] = 0 /\ \A q \in Proc : Holds(q) => cid[q] # c
      BY <1>6 DEF CountOK, c
    <3>2. \A q \in Proc : Held(c, k)[q] = 0
      BY <3>1 DEF Held
    <3>3. Counters(p)[k] - real'[c][k] = 0
      BY ONLY <1>1, <1>6, <3>1
    <3>. QED BY ONLY <3>2, <3>3, TotalOfNone
  <2>. QED BY <1>2, <1>5, <2>1, <2>2 DEF CountOK, c
<1>7. CASE Due(p) /\ decays[c] # <<>>
  <2>1. Len(decays'[c]) > 1 /\ decays'[c] # <<>>
    BY ONLY <1>1, <1>2, <1>7
  <2>2. ~ Len(decays'[c]) <= 1
    BY ONLY <1>1, <1>2, <1>7
  <2>. QED BY ONLY <1>2, <2>1, <2>2 DEF CountOK, c
<1>8. CASE ~ Due(p)
  <2>1. decays' = decays /\ lastDecay' = lastDecay
    BY <1>1, <1>8
  <2>2. Len(decays[c]) <= 1 => \A k \in Idx : Total(Held(c, k)', usage'[c][k] - real'[c][k])
    <3>1. \A k \in Idx : Counters(p)[k] = usage[c][k] /\ real'[c][k] = real[c][k]
      BY ONLY <1>1, <1>8
    <3>2. Len(decays[c]) <= 1 =>
            \A k \in Idx : Total(Held(c, k), Counters(p)[k] - real'[c][k])
      BY <3>1 DEF CountOK, c
    <3>. QED BY ONLY <1>5, <3>2
  <2>3. ASSUME decays[c] = <<>>
        PROVE  /\ lastDecay[c] = 0
               /\ \A k \in Idx : usage'[c][k] = 0 /\ real'[c][k] = 0
               /\ \A q \in Proc : Holds(q)' => cid'[q] # c
    <3>1. /\ lastDecay[c] = 0
          /\ \A k \in Idx : usage[c][k] = 0 /\ real[c][k] = 0
          /\ \A q \in Proc : Holds(q) => cid[q] # c
      BY <2>3 DEF CountOK, c
    <3>2. Debit(p) = 0
      BY <1>8, <3>1, FirstIsDue DEF Debit, c
    <3>3. \A k \in Idx : usage'[c][k] = 0 /\ real'[c][k] = 0
      BY ONLY <1>1, <1>8, <3>1, <3>2
    <3>4. \A q \in Proc : Holds(q)' => cid'[q] # c
      BY <3>1, <3>2 DEF SameDebt
    <3>. QED BY <3>1, <3>3, <3>4
  <2>. QED BY <1>2, <2>1, <2>2, <2>3 DEF CountOK, c
<1>. QED BY <1>6, <1>7, <1>8 DEF c

\* What leaves a channel's counters and its debts alone keeps its counts.
LEMMA SameCounts ==
  ASSUME NEW c \in Chan, CountOK(c),
         \A q \in Proc : SameDebt(q) \/ (cid[q] # c /\ cid'[q] # c),
         usage'[c] = usage[c], real'[c] = real[c],
         decays'[c] = decays[c], lastDecay'[c] = lastDecay[c]
  PROVE  CountOK(c)'
<1>1. ASSUME NEW k \in Idx PROVE Held(c, k)' = Held(c, k)
  BY Zenon DEF SameDebt, Held
<1>2. ASSUME decays[c] = <<>>, NEW q \in Proc, Holds(q)' PROVE cid'[q] # c
  BY <1>2 DEF SameDebt, CountOK
<1>3. ASSUME Len(decays[c]) <= 1, NEW k \in Idx
      PROVE  Total(Held(c, k)', usage'[c][k] - real'[c][k])
  <2>1. Total(Held(c, k), usage[c][k] - real[c][k])
    BY <1>3 DEF CountOK
  <2>2. Held(c, k)' = Held(c, k)
    BY ONLY <1>1
  <2>. QED BY ONLY <2>1, <2>2, usage'[c] = usage[c], real'[c] = real[c]
<1>. QED BY <1>2, <1>3 DEF CountOK

\* A report takes off the counter what its call was debited, and from the debts
\* as much (KeyState: LeaseTake and UsageIncr).
LEMMA ReportCounts ==
  ASSUME TypeInv, CountTypes, NEW p \in Proc, Report(p), NEW c \in Chan, CountOK(c)
  PROVE  CountTypes' /\ CountOK(c)'
<1>. DEFINE i == resp[p].idx
            d(k) == IF k = i THEN 0 - req[p].est ELSE 0
<1>1. /\ p \in leases /\ pc[p] = "done" /\ leases' = leases \ {p} /\ cid[p] \in Chan /\ i \in Idx
      /\ UNCHANGED <<pc, req, cid, resp, decays, lastDecay>>
  BY DEF Report, reqVars, TypeInv, ControlOK, SelectTypeOK
<1>2. /\ usage \in [Chan -> [Idx -> Int]] /\ real \in [Chan -> [Idx -> Int]]
      /\ req[p].est \in Int /\ Actual \in Int
  BY CallFields, SelectAssumption DEF TypeInv, SelectTypeOK, CountTypes
<1>3. /\ usage' = [usage EXCEPT ![cid[p]][i] = @ + Actual - req[p].est]
      /\ real' = [real EXCEPT ![cid[p]][i] = @ + Actual]
  BY DEF Report
<1>4. CountTypes'
  BY <1>1, <1>2, <1>3 DEF CountTypes
<1>5. \A q \in Proc \ {p} : SameDebt(q)
  BY <1>1 DEF SameDebt, Holds
<1>6. CASE c # cid[p]
  <2>1. usage'[c] = usage[c] /\ real'[c] = real[c]
    BY ONLY <1>1, <1>2, <1>3, <1>6
  <2>2. \A q \in Proc : SameDebt(q) \/ (cid[q] # c /\ cid'[q] # c)
    BY <1>1, <1>5, <1>6
  <2>. QED BY <1>1, <1>4, <2>1, <2>2, SameCounts
<1>7. CASE c = cid[p]
  <2>1. Holds(p) /\ ~ Holds(p)'
    BY <1>1 DEF Holds
  <2>2. decays[c] # <<>>
    BY <1>7, <2>1 DEF CountOK
  <2>3. ASSUME NEW k \in Idx, Len(decays[c]) <= 1
        PROVE  Total(Held(c, k)', usage'[c][k] - real'[c][k])
    <3>1. d(k) \in Int
      BY ONLY <1>2
    <3>2. usage'[c][k] - real'[c][k] = (usage[c][k] - real[c][k]) + d(k)
      BY ONLY <1>1, <1>2, <1>3, <1>7
    <3>3. usage[c][k] - real[c][k] \in Int
      BY ONLY <1>2
    <3>4. Held(c, k) \in [Proc -> Int]
      BY HeldType
    <3>5. Held(c, k)' = [Held(c, k) EXCEPT ![p] = @ + d(k)]
      <4>1. Held(c, k)[p] = IF k = i THEN req[p].est ELSE 0
        BY <1>7, <2>1 DEF Held
      <4>2. Held(c, k)'[p] = 0
        BY <2>1 DEF Held
      <4>3. Held(c, k)[p] + d(k) = 0
        BY ONLY <1>2, <4>1
      <4>4. ASSUME NEW q \in Proc \ {p} PROVE Held(c, k)'[q] = Held(c, k)[q]
        BY <1>5 DEF SameDebt, Held
      <4>5. Held(c, k)' = [q \in Proc |-> Held(c, k)'[q]]
        BY DEF Held
      <4>. HIDE DEF d
      <4>. QED BY ONLY <3>4, <4>2, <4>3, <4>4, <4>5
    <3>. HIDE DEF d
    <3>6. Total(Held(c, k), usage[c][k] - real[c][k])
      BY <2>3 DEF CountOK
    <3>7. Total([Held(c, k) EXCEPT ![p] = @ + d(k)], (usage[c][k] - real[c][k]) + d(k))
      BY ONLY <3>1, <3>3, <3>4, <3>6, TotalMoves
    <3>. QED BY ONLY <3>2, <3>5, <3>7
  <2>. QED BY <1>1, <1>4, <2>2, <2>3 DEF CountOK
<1>. QED BY <1>6, <1>7

CountInv == TypeInv /\ AtOK /\ CountTypes /\ \A c \in Chan : CountOK(c)

\* So does every step (selector.go: Select; lease.go).
LEMMA StepCounts ==
  ASSUME RedisWorks, CountInv, [Next]_vars
  PROVE  CountInv'
<1>1. TypeInv /\ AtOK /\ CountTypes /\ \A c \in Chan : CountOK(c)
  BY DEF CountInv
<1>2. TypeInv' /\ AtOK'
  BY <1>1, StepType, StepAt
<1>3. ASSUME \A q \in Proc : SameDebt(q), UNCHANGED <<usage, real, decays, lastDecay>>
      PROVE  CountTypes' /\ \A c \in Chan : CountOK(c)'
  <2>1. ASSUME NEW c \in Chan PROVE CountOK(c)'
    <3>1. /\ usage'[c] = usage[c] /\ real'[c] = real[c]
          /\ decays'[c] = decays[c] /\ lastDecay'[c] = lastDecay[c]
      BY ONLY <1>3
    <3>. QED BY <1>1, <1>3, <3>1, SameCounts
  <2>. QED BY <1>1, <1>3, <2>1 DEF CountTypes
<1>4. ASSUME NEW p \in Proc,
             Arrive(p) \/ Abilities(p) \/ Load(p) \/ Plan(p) \/ LeaseSet(p)
      PROVE  CountTypes' /\ \A c \in Chan : CountOK(c)'
  <2>1. SameDebt(p) /\ UNCHANGED <<usage, real, decays, lastDecay>>
    BY <1>1, <1>4, QuietStep
  <2>2. \A q \in Proc \ {p} : SameDebt(q)
    BY <1>1, <1>4, OthersDebt DEF Step
  <2>. QED BY <1>3, <2>1, <2>2
<1>5. ASSUME NEW p \in Proc, Pick(p)
      PROVE  CountTypes' /\ \A c \in Chan : CountOK(c)'
  <2>1. \A q \in Proc \ {p} : SameDebt(q)
    BY <1>1, <1>5, OthersDebt DEF Step
  <2>2. pc[p] = "pick" /\ ~ Holds(p) /\ UNCHANGED <<req, cid>>
    BY <1>1, <1>5, PickDebt DEF Pick
  <2>3. CASE ~ Holds(p)' /\ UNCHANGED <<usage, real, decays, lastDecay>>
    <3>1. SameDebt(p)
      BY <2>2, <2>3 DEF SameDebt
    <3>. QED BY <1>3, <2>1, <2>3, <3>1
  <2>4. CASE \E i \in Idx : /\ Script(p, i)
                            /\ Holds(p)' <=> Debit(p) # 0
                            /\ Holds(p)' => resp'[p].idx = i
    <3>1. PICK i \in Idx : /\ Script(p, i)
                           /\ Holds(p)' <=> Debit(p) # 0
                           /\ Holds(p)' => resp'[p].idx = i
      BY <2>4
    <3>2. /\ CountTypes' /\ cid[p] \in Chan
          /\ \A c \in Chan \ {cid[p]} :
               /\ usage'[c] = usage[c] /\ real'[c] = real[c]
               /\ decays'[c] = decays[c] /\ lastDecay'[c] = lastDecay[c]
      BY <1>1, <2>2, <3>1, ScriptCounters
    <3>3. CountOK(cid[p])
      BY <1>1, <3>2
    <3>4. CountOK(cid[p])'
      BY <1>1, <2>1, <2>2, <3>1, <3>3, PickCounts
    <3>5. ASSUME NEW c \in Chan \ {cid[p]} PROVE CountOK(c)'
      <4>1. \A q \in Proc : SameDebt(q) \/ (cid[q] # c /\ cid'[q] # c)
        BY <2>1, <2>2, <3>5
      <4>. QED BY <1>1, <3>2, <4>1, SameCounts
    <3>6. cid'[p] = cid[p]
      BY <2>2
    <3>7. ASSUME NEW c \in Chan PROVE CountOK(c)'
      <4>1. CASE c = cid[p]
        BY <3>4, <3>6, <4>1 DEF CountOK, Held
      <4>2. CASE c # cid[p]
        BY <3>5, <4>2
      <4>. QED BY <4>1, <4>2
    <3>. QED BY <3>2, <3>7
  <2>. QED BY <1>1, <1>5, <2>3, <2>4, PickDebt
<1>6. ASSUME NEW p \in Proc, Report(p)
      PROVE  CountTypes' /\ \A c \in Chan : CountOK(c)'
  <2>1. cid[p] \in Chan
    BY <1>1, <1>6 DEF Report, TypeInv, ControlOK
  <2>. QED BY <1>1, <1>6, <2>1, ReportCounts
<1>7. ASSUME Tick \/ KeyStatus \/ EditKeys \/ SettingsChange \/ RedisComes \/ Exhausted
             \/ UNCHANGED vars
      PROVE  CountTypes' /\ \A c \in Chan : CountOK(c)'
  <2>1. UNCHANGED <<pc, req, cid, resp, leases, usage, real, decays, lastDecay>>
    BY <1>7 DEF Tick, KeyStatus, EditKeys, Write, SettingsChange, RedisComes, Exhausted,
                reqVars, luaVars, vars
  <2>2. \A q \in Proc : SameDebt(q)
    BY <2>1 DEF SameDebt, Holds
  <2>. QED BY <1>3, <2>1, <2>2
<1>8. CountTypes' /\ \A c \in Chan : CountOK(c)'
  <2>1. \/ \E p \in Proc : Arrive(p) \/ Abilities(p) \/ Load(p) \/ Plan(p) \/ LeaseSet(p)
        \/ \E p \in Proc : Pick(p)
        \/ \E p \in Proc : Report(p)
        \/ Tick \/ KeyStatus \/ EditKeys \/ SettingsChange \/ RedisComes \/ Exhausted
        \/ UNCHANGED vars
    BY DEF Next, Step, Environment
  <2>. QED BY ONLY <1>4, <1>5, <1>6, <1>7, <2>1
<1>. QED BY <1>2, <1>8, Zenon DEF CountInv

\* Once every lease is back the counters hold what was really used, whoever
\* selected in between, as long as no call of Redis fails half-way and the
\* counters did not decay a second time (lease.go, select_key.lua).
THEOREM EstimatesSettle == RedisWorks /\ Spec => []EstimatesComeBack
<1>. SUFFICES ASSUME RedisWorks PROVE Spec => []EstimatesComeBack
  OBVIOUS
<1>1. Init => CountInv
  <2>. SUFFICES ASSUME Init PROVE CountInv
    OBVIOUS
  <2>1. TypeInv
    BY InitType
  <2>2. AtOK /\ CountTypes
    BY DEF Init, AtOK, CountTypes
  <2>3. ASSUME NEW c \in Chan PROVE CountOK(c)
    <3>1. \A q \in Proc : ~ Holds(q)
      BY DEF Init, Holds
    <3>2. lastDecay[c] = 0 /\ \A i \in Idx : usage[c][i] = 0 /\ real[c][i] = 0
      BY DEF Init
    <3>3. ASSUME NEW i \in Idx PROVE Total(Held(c, i), usage[c][i] - real[c][i])
      <4>1. \A q \in Proc : Held(c, i)[q] = 0
        BY <3>1 DEF Held
      <4>2. usage[c][i] - real[c][i] = 0
        BY ONLY <3>2
      <4>. QED BY ONLY <4>1, <4>2, TotalOfNone
    <3>. QED BY <3>1, <3>2, <3>3 DEF CountOK
  <2>. QED BY <2>1, <2>2, <2>3 DEF CountInv
<1>2. CountInv /\ [Next]_vars => CountInv'
  BY StepCounts
<1>3. CountInv => EstimatesComeBack
  <2>. SUFFICES ASSUME CountInv, NEW c \in Chan, Len(decays[c]) <= 1,
                       leases = {}, \A p \in Proc : pc[p] # "lease"
                PROVE  usage[c] = real[c]
    BY DEF EstimatesComeBack
  <2>1. usage[c] \in [Idx -> Int] /\ real[c] \in [Idx -> Int]
    BY DEF CountInv, CountTypes, TypeInv, SelectTypeOK
  <2>2. ASSUME NEW i \in Idx PROVE usage[c][i] = real[c][i]
    <3>1. Total(Held(c, i), usage[c][i] - real[c][i])
      BY DEF CountInv, CountOK
    <3>2. \A q \in Proc : Held(c, i)[q] = 0
      BY DEF Held, Holds
    <3>3. usage[c][i] - real[c][i] = 0
      BY ONLY <3>1, <3>2, TotalOfNone
    <3>. QED BY ONLY <2>1, <3>3
  <2>. QED BY ONLY <2>1, <2>2
<1>. QED BY <1>1, <1>2, <1>3, PTL DEF Spec

-----------------------------------------------------------------------------
(* The counters stay level.                                                *)

\* Callers exclude nothing, no batch restricts them and the key lists stay: every
\* call chooses among all enabled keys.  Reports state what was estimated.
SteadyCalls ==
  /\ Changes \cap {"status", "keys"} = {}
  /\ \A r \in Call : r.exclude = {} /\ ("report" \in Changes => r.est \in {0, Actual})
  /\ \A s \in Snapshots, c \in Chan : ~ HasRotation(s.rotation[c])

\* A counter x is not ahead of a counter y by more than the jitter and an estimate.
Level(x, y) ==
  x = 0 \/ \E r \in Call : r.est >= 1 /\ 20 * x <= 21 * y + 20 * r.est

\* A decay keeps two counters level, though each is rounded down: an estimate is
\* at least 1 (select_key.lua: math.floor).
LEMMA LevelHalved ==
  ASSUME NEW x \in Nat, NEW y \in Nat, Level(x, y)
  PROVE  Level(x \div 2, y \div 2)
<1>1. CASE x = 0
  BY <1>1 DEF Level
<1>2. CASE \E r \in Call : r.est >= 1 /\ 20 * x <= 21 * y + 20 * r.est
  <2>1. PICK r \in Call : r.est >= 1 /\ 20 * x <= 21 * y + 20 * r.est
    BY <1>2
  <2>2. r.est \in Nat
    BY SelectAssumption DEF CallType
  <2>3. 20 * (x \div 2) <= 21 * (y \div 2) + 20 * r.est
    <3>. DEFINE a == x \div 2
                b == y \div 2
                e == r.est
    <3>1. a \in Nat /\ b \in Nat /\ 2 * a <= x /\ y <= 2 * b + 1
      OBVIOUS
    <3>2. e \in Nat /\ e >= 1 /\ 20 * x <= 21 * y + 20 * e
      BY <2>1, <2>2
    <3>. HIDE DEF a, b, e
    <3>3. 40 * a <= 42 * b + 21 + 20 * e
      BY ONLY <3>1, <3>2, x \in Nat, y \in Nat
    <3>4. 20 * a <= 21 * b + 20 * e
      BY ONLY <3>1, <3>2, <3>3
    <3>. QED BY <3>4 DEF a, b, e
  <2>. QED BY <2>1, <2>3 DEF Level
<1>. QED BY <1>1, <1>2 DEF Level

\* The key picked was level with every other before its debit (select_key.lua: the
\* least score).
LEMMA LeastIsLevel ==
  ASSUME NEW u \in [Idx -> Nat], NEW C \in SUBSET Idx, NEW i \in C, NEW j \in C,
         MayBeLeast(u, C, i)
  PROVE  20 * u[i] <= 21 * u[j]
<1>1. u[i] \in Nat /\ u[j] \in Nat
  OBVIOUS
<1>2. i # j => Low(u[i]) < High(u[j]) \/ (u[i] = 0 /\ u[j] = 0)
  BY DEF MayBeLeast
<1>3. Low(u[i]) = 20 * u[i]
  BY <1>1 DEF Low
<1>4. High(u[j]) <= 21 * u[j] /\ High(u[j]) \in Int
  BY <1>1 DEF High
<1>. HIDE DEF Low, High
<1>. QED BY ONLY <1>1, <1>2, <1>3, <1>4

\* A call has the channel as it is and all its enabled keys for candidates; who
\* holds a debit estimated something.
FixedOK(p) ==
  /\ pc[p] \in {"plan", "pick"} => ch[p] = row[cid[p]]
  /\ pc[p] = "pick" => plan[p].cands = EnabledKeyIndexes(row[cid[p]])
  /\ Holds(p) => req[p].est > 0

\* Every step keeps it so (Select, steps 1 to 6).
LEMMA StepFixed ==
  ASSUME TypeInv, SteadyCalls, \A p \in Proc : FixedOK(p), [Next]_vars
  PROVE  UNCHANGED row /\ \A p \in Proc : FixedOK(p)'
<1>1. ASSUME NEW p \in Proc, Arrive(p) \/ Step(p)
      PROVE  UNCHANGED row /\ \A q \in Proc : FixedOK(q)'
  <2>1. UNCHANGED row
    BY <1>1, OwnStep
  <2>2. ASSUME NEW q \in Proc \ {p} PROVE FixedOK(q)'
    <3>1. SameDebt(q)
      BY <1>1, <2>2, OthersDebt
    <3>2. pc'[q] = pc[q] /\ cid'[q] = cid[q] /\ ch'[q] = ch[q] /\ plan'[q] = plan[q]
      BY <1>1, <2>2, OwnStep
    <3>3. FixedOK(q)
      BY <2>2
    <3>. QED BY ONLY <2>1, <3>1, <3>2, <3>3 DEF FixedOK, SameDebt
  <2>3. FixedOK(p)'
    <3>. USE DEF TypeInv, SelectTypeOK, Goto
    <3>1. CASE Arrive(p)
      <4>1. pc'[p] \in {"load", "abilities"} /\ p \notin leases /\ leases' = leases
        BY <3>1 DEF Arrive, ControlOK
      <4>. QED BY ONLY <4>1 DEF FixedOK, Holds
    <3>2. CASE Abilities(p)
      <4>1. pc'[p] \in {"load", "done"} /\ p \notin leases /\ leases' = leases
        BY <3>2 DEF Abilities, Answer, End, ControlOK
      <4>. QED BY ONLY <4>1 DEF FixedOK, Holds
    <3>3. CASE Load(p)
      <4>1. /\ pc'[p] \in {"plan", "done"} /\ p \notin leases /\ leases' = leases
            /\ cid' = cid
            /\ pc'[p] = "plan" => ch'[p] = row[cid[p]]
        BY <3>3 DEF Load, Answer, AnswerKey, End, ControlOK
      <4>. QED BY ONLY <2>1, <4>1 DEF FixedOK, Holds
    <3>4. CASE Plan(p)
      <4>1. /\ pc'[p] \in {"pick", "done"} /\ p \notin leases /\ leases' = leases
            /\ cid' = cid /\ pc[p] = "plan"
            /\ pc'[p] = "pick" => /\ ch' = ch
                                 /\ plan'[p].cands = Allowed(p) \ Excluded(p)
        BY <3>4 DEF Plan, Answer, End, ControlOK
      <4>2. Excluded(p) = {}
        BY CallFields DEF SteadyCalls, Excluded
      <4>3. Allowed(p) = EnabledKeyIndexes(ch[p])
        <5>1. settings \in Snapshots /\ cid[p] \in Chan
          BY <4>1 DEF ControlOK
        <5>. QED BY <5>1 DEF Allowed, Candidates, SteadyCalls
      <4>4. ch[p] = row[cid[p]]
        BY <4>1 DEF FixedOK
      <4>. QED BY ONLY <2>1, <4>1, <4>2, <4>3, <4>4 DEF FixedOK, Holds
    <3>5. CASE Pick(p)
      <4>1. /\ pc'[p] \in {"lease", "done"} /\ p \notin leases /\ leases' = leases
            /\ req' = req
            /\ pc'[p] = "lease" => req[p].est > 0
        BY <3>5 DEF Pick, Answer, AnswerKey, End, ControlOK
      <4>. QED BY ONLY <4>1 DEF FixedOK, Holds
    <3>6. CASE LeaseSet(p)
      <4>1. pc'[p] = "done" /\ pc[p] = "lease" /\ req' = req
        BY <3>6 DEF LeaseSet, Answer, AnswerKey, End
      <4>2. req[p].est > 0
        BY <4>1 DEF FixedOK, Holds
      <4>. QED BY ONLY <4>1, <4>2 DEF FixedOK
    <3>. QED BY <1>1, <3>1, <3>2, <3>3, <3>4, <3>5, <3>6 DEF Step
  <2>. QED BY <2>1, <2>2, <2>3
<1>2. ASSUME Environment \/ UNCHANGED vars
      PROVE  UNCHANGED row /\ \A q \in Proc : FixedOK(q)'
  <2>1. /\ UNCHANGED <<pc, cid, ch, plan, req, row>>
        /\ leases' \subseteq leases
    BY <1>2 DEF Environment, Tick, KeyStatus, EditKeys, SettingsChange, Report, RedisComes,
                SteadyCalls, reqVars, dbVars, vars
  <2>. QED BY <2>1 DEF FixedOK, Holds
<1>. QED BY <1>1, <1>2 DEF Next, Exhausted

LevelOK(c) ==
  row[c] # NoChannel =>
    \A i, j \in EnabledKeyIndexes(row[c]) : Level(usage[c][i], usage[c][j])

\* A pick, with its decay and its debit, keeps the counters of its channel level.
LEMMA PickLevels ==
  ASSUME TypeInv, CountTypes, usage \in [Chan -> [Idx -> Nat]],
         NEW p \in Proc, NEW i \in Idx, pc[p] = "pick", Script(p, i), UNCHANGED row,
         FixedOK(p), NEW c \in Chan, c = cid[p], LevelOK(c)
  PROVE  usage'[c] \in [Idx -> Nat] /\ LevelOK(c)'
<1>. DEFINE E == EnabledKeyIndexes(row[c])
            u == Counters(p)
            v == usage'[c]
            e == Debit(p)
<1>1. /\ e \in Nat
      /\ \A k \in Idx : /\ v[k] = u[k] + IF k = i THEN e ELSE 0
                        /\ u[k] = IF Due(p) THEN usage[c][k] \div 2 ELSE usage[c][k]
  BY ScriptCounters
<1>2. /\ usage[c] \in [Idx -> Nat] /\ v \in [Idx -> Int]
  BY ScriptType
<1>3. row[c] \in Channel /\ ch[p] = row[c] /\ E \in SUBSET Idx /\ plan[p].cands = E
  BY RowKeys DEF FixedOK, TypeInv, ControlOK
<1>4. u \in [Idx -> Nat]
  <2>1. Halved(usage[c]) \in [Idx -> Nat]
    BY ONLY <1>2 DEF Halved
  <2>. QED BY <1>2, <2>1 DEF Counters
<1>5. e # 0 => e = req[p].est /\ \A j \in E : 20 * u[i] <= 21 * u[j]
  <2>1. SUFFICES ASSUME e # 0 PROVE e = req[p].est /\ \A j \in E : 20 * u[i] <= 21 * u[j]
    OBVIOUS
  <2>2. plan[p].mode = "usage" /\ e = req[p].est
    BY <2>1 DEF Debit
  <2>3. i \in E /\ MayBeLeast(u, E, i)
    BY <1>3, <2>2 DEF Script, MayPick
  <2>. HIDE DEF u, E, e
  <2>. QED BY <1>3, <1>4, <2>2, <2>3, LeastIsLevel
<1>6. row[c] # NoChannel
  BY <1>3, NoChannelAssumption
<1>7. \A a, b \in E : Level(usage[c][a], usage[c][b])
  BY <1>6 DEF LevelOK
<1>8. req[p] \in Call /\ \A r \in Call : r.est \in Nat
  BY CallFields, SelectAssumption DEF CallType
<1>9. c' = c /\ row'[c] = row[c]
  OBVIOUS
<1>. HIDE DEF E, u, v, e
<1>10. ASSUME NEW a \in E, NEW b \in E PROVE Level(u[a], u[b])
  <2>1. usage[c][a] \in Nat /\ usage[c][b] \in Nat /\ Level(usage[c][a], usage[c][b])
    BY ONLY <1>2, <1>3, <1>7
  <2>2. Level(usage[c][a] \div 2, usage[c][b] \div 2)
    BY <2>1, LevelHalved
  <2>. QED BY ONLY <1>1, <1>3, <2>1, <2>2
<1>11. ASSUME NEW a \in E, NEW b \in E PROVE Level(v[a], v[b])
  <2>1. /\ u[a] \in Nat /\ u[b] \in Nat /\ v[b] \in Nat /\ v[b] >= u[b]
        /\ v[a] = u[a] + IF a = i THEN e ELSE 0
    BY ONLY <1>1, <1>3, <1>4
  <2>2. CASE v[a] = u[a]
    <3>1. u[a] = 0 \/ \E r \in Call : r.est >= 1 /\ 20 * u[a] <= 21 * u[b] + 20 * r.est
      BY ONLY <1>10 DEF Level
    <3>2. ASSUME NEW r \in Call, r.est >= 1, 20 * u[a] <= 21 * u[b] + 20 * r.est
          PROVE  20 * v[a] <= 21 * v[b] + 20 * r.est
      BY ONLY <1>8, <2>1, <2>2, <3>2
    <3>. QED BY ONLY <2>2, <3>1, <3>2 DEF Level
  <2>3. CASE v[a] # u[a]
    <3>1. a = i /\ e # 0 /\ v[a] = u[a] + e
      BY ONLY <1>1, <2>1, <2>3
    <3>2. e = req[p].est /\ 20 * u[a] <= 21 * u[b]
      BY ONLY <1>5, <3>1
    <3>3. e >= 1 /\ 20 * v[a] <= 21 * v[b] + 20 * e
      BY ONLY <1>1, <2>1, <3>1, <3>2
    <3>. QED BY ONLY <1>8, <3>2, <3>3 DEF Level
  <2>. QED BY <2>2, <2>3
<1>12. v \in [Idx -> Nat]
  <2>1. \A k \in Idx : v[k] \in Nat
    BY ONLY <1>1, <1>4
  <2>. QED BY ONLY <1>2, <2>1
<1>13. LevelOK(c)'
  BY ONLY <1>9, <1>11 DEF LevelOK, E, v
<1>. QED BY ONLY <1>12, <1>13 DEF v

\* Who moves the counters.
LEMMA OnlyCounts ==
  ASSUME TypeInv, [Next]_vars
  PROVE  \/ UNCHANGED <<usage, real, decays>>
         \/ \E p \in Proc, i \in Idx : pc[p] = "pick" /\ Script(p, i)
         \/ \E p \in Proc : Report(p)
<1>. USE DEF luaVars
<1>1. ASSUME NEW p \in Proc, Arrive(p) \/ Step(p)
      PROVE  \/ UNCHANGED <<usage, real, decays>>
             \/ \E i \in Idx : pc[p] = "pick" /\ Script(p, i)
  <2>1. CASE Arrive(p)
    BY <2>1 DEF Arrive
  <2>2. CASE Abilities(p)
    BY <2>2 DEF Abilities
  <2>3. CASE Load(p)
    BY <2>3 DEF Load
  <2>4. CASE Plan(p)
    BY <2>4 DEF Plan
  <2>5. CASE Pick(p)
    BY <2>5 DEF Pick
  <2>6. CASE LeaseSet(p)
    BY <2>6 DEF LeaseSet
  <2>. QED BY <1>1, <2>1, <2>2, <2>3, <2>4, <2>5, <2>6 DEF Step
<1>2. CASE Tick \/ KeyStatus \/ EditKeys \/ SettingsChange \/ RedisComes
  BY <1>2 DEF Tick, KeyStatus, EditKeys, Write, SettingsChange, RedisComes
<1>3. CASE UNCHANGED vars
  BY <1>3 DEF vars
<1>. QED BY <1>1, <1>2, <1>3 DEF Next, Environment, Exhausted

\* Callers who exclude no key and report what they estimated keep the counters of
\* every channel's enabled keys level, for every jitter the script may draw
\* (select_key.lua, usage mode).
THEOREM CountersStayLevel == SteadyCalls /\ Spec => []CountersLevel
<1>. SUFFICES ASSUME SteadyCalls PROVE Spec => []CountersLevel
  OBVIOUS
<1>. DEFINE Inv == /\ CountTypes /\ usage \in [Chan -> [Idx -> Nat]]
                   /\ \A p \in Proc : FixedOK(p)
                   /\ \A c \in Chan : LevelOK(c)
<1>1. Init => Inv
  <2>. SUFFICES ASSUME Init PROVE Inv
    OBVIOUS
  <2>1. CountTypes /\ usage \in [Chan -> [Idx -> Nat]]
    BY DEF Init, CountTypes
  <2>2. \A p \in Proc : FixedOK(p)
    BY DEF Init, FixedOK, Holds
  <2>3. ASSUME NEW c \in Chan PROVE LevelOK(c)
    <3>1. row[c] # NoChannel => row[c] \in Channel
      BY SelectAssumption DEF Init
    <3>2. \A i \in Idx : usage[c][i] = 0
      BY DEF Init
    <3>. QED BY ONLY <3>1, <3>2, RowKeys DEF LevelOK, Level
  <2>. QED BY <2>1, <2>2, <2>3
<1>2. TypeInv /\ Inv /\ [Next]_vars => Inv'
  <2>. SUFFICES ASSUME TypeInv, Inv, [Next]_vars PROVE Inv'
    OBVIOUS
  <2>1. UNCHANGED row /\ \A p \in Proc : FixedOK(p)'
    BY StepFixed
  <2>2. CASE UNCHANGED <<usage, real, decays>>
    <3>1. \A c \in Chan : LevelOK(c)'
      BY <2>1, <2>2 DEF LevelOK
    <3>. QED BY <2>1, <2>2, <3>1 DEF CountTypes
  <2>3. ASSUME NEW p \in Proc, NEW i \in Idx, pc[p] = "pick", Script(p, i) PROVE Inv'
    <3>1. CountTypes' /\ cid[p] \in Chan /\ \A c \in Chan \ {cid[p]} : usage'[c] = usage[c]
      BY <2>3, ScriptCounters
    <3>2. ASSUME NEW c \in Chan PROVE usage'[c] \in [Idx -> Nat] /\ LevelOK(c)'
      <4>1. CASE c = cid[p]
        BY <2>1, <2>3, <4>1, PickLevels
      <4>2. CASE c # cid[p]
        <5>1. usage'[c] = usage[c] /\ row'[c] = row[c] /\ LevelOK(c)
          BY <2>1, <3>1, <4>2
        <5>. QED BY <5>1 DEF LevelOK
      <4>. QED BY <4>1, <4>2
    <3>3. usage' \in [Chan -> [Idx -> Nat]]
      <4>1. usage' \in [Chan -> [Idx -> Int]]
        BY <2>3, ScriptType
      <4>. QED BY ONLY <3>2, <4>1
    <3>. QED BY <2>1, <3>1, <3>2, <3>3
  <2>4. ASSUME NEW p \in Proc, Report(p) PROVE Inv'
    <3>1. /\ p \in leases /\ "report" \in Changes /\ cid[p] \in Chan /\ resp[p].idx \in Idx
      BY <2>4 DEF Report, TypeInv, ControlOK, SelectTypeOK
    <3>2. req[p].est > 0 /\ req[p] \in Call /\ req[p].est \in Nat
      BY <3>1, CallFields DEF FixedOK, Holds
    <3>3. Actual = req[p].est
      BY <3>1, <3>2 DEF SteadyCalls
    <3>4. usage' = usage
      <4>1. usage' = [usage EXCEPT ![cid[p]][resp[p].idx] = @ + Actual - req[p].est]
        BY <2>4 DEF Report
      <4>2. usage[cid[p]][resp[p].idx] + Actual - req[p].est = usage[cid[p]][resp[p].idx]
        <5>1. usage[cid[p]][resp[p].idx] \in Nat
          BY <3>1
        <5>. QED BY ONLY <3>2, <3>3, <5>1
      <4>3. usage \in [Chan -> [Idx -> Nat]]
        OBVIOUS
      <4>. QED BY ONLY <3>1, <4>1, <4>2, <4>3
    <3>5. CountTypes'
      <4>1. /\ Actual \in Int /\ real \in [Chan -> [Idx -> Int]]
            /\ decays' = decays /\ decays \in [Chan -> Seq(Nat)]
            /\ real' = [real EXCEPT ![cid[p]][resp[p].idx] = @ + Actual]
        BY <2>4, SelectAssumption DEF Report, CountTypes
      <4>. QED BY ONLY <3>1, <4>1 DEF CountTypes
    <3>6. \A c \in Chan : LevelOK(c)'
      BY <2>1, <3>4 DEF LevelOK
    <3>. QED BY <2>1, <3>4, <3>5, <3>6
  <2>. QED BY <2>2, <2>3, <2>4, OnlyCounts
<1>3. TypeInv /\ Inv => CountersLevel
  <2>. SUFFICES ASSUME TypeInv, Inv, NEW c \in Chan, row[c] # NoChannel,
                       NEW i \in EnabledKeyIndexes(row[c]), NEW j \in EnabledKeyIndexes(row[c])
                PROVE  \E r \in Call : 20 * usage[c][i] <= 21 * usage[c][j] + 20 * r.est
    BY DEF CountersLevel
  <2>1. i \in Idx /\ j \in Idx
    BY RowKeys DEF TypeInv, SelectTypeOK
  <2>2. usage[c][i] \in Nat /\ usage[c][j] \in Nat
    BY <2>1
  <2>3. Level(usage[c][i], usage[c][j])
    BY DEF LevelOK
  <2>4. PICK r \in Call : r.est \in Nat
    BY SelectAssumption DEF CallType
  <2>. QED BY ONLY <2>2, <2>3, <2>4 DEF Level
<1>. QED BY <1>1, <1>2, <1>3, TypesHold, PTL DEF Spec
=============================================================================
