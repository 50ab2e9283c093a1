--------------------------- MODULE KeySelectProofs ---------------------------
(***************************************************************************)
(* Theorems about KeySelect, for every set of calls, channels, rows,       *)
(* options and faults.                                                     *)
(***************************************************************************)
EXTENDS KeySelect, RotationLemmas

-----------------------------------------------------------------------------
(* The place of a key among the candidates (select_key.lua, polling).      *)

\* Indexes are finitely many naturals, and so are the candidates.
LEMMA FiniteIdx ==
  /\ Idx \subseteq Nat /\ 0 \in Idx
  /\ \A C \in SUBSET Idx : IsFiniteSet(C) /\ Cardinality(C) \in Nat
  /\ \A C \in SUBSET Idx : C # {} => Cardinality(C) \in Nat \ {0}
<1>1. MaxKeys \in Nat \ {0}
  BY RowAssumption
<1>2. IsFiniteSet(Idx)
  BY <1>1, FS_Interval DEF Idx
<1>3. \A C \in SUBSET Idx : IsFiniteSet(C)
  BY <1>2, FS_Subset
<1>. QED BY <1>1, <1>3, FS_CardinalityType, FS_EmptySet DEF Idx

Below(C, i) == {j \in C : j < i}

\* The candidates below one are fewer than all, and fewer than those below a
\* later one.
LEMMA BelowType ==
  ASSUME NEW C \in SUBSET Idx, NEW i \in C
  PROVE  /\ IsFiniteSet(Below(C, i))
         /\ Cardinality(Below(C, i)) \in 0 .. Cardinality(C) - 1
         /\ \A k \in C : i < k => Cardinality(Below(C, i)) < Cardinality(Below(C, k))
<1>1. IsFiniteSet(C) /\ Cardinality(C) \in Nat /\ C \subseteq Nat
  BY FiniteIdx
<1>2. Below(C, i) \subseteq C /\ i \notin Below(C, i)
  BY <1>1 DEF Below
<1>3. IsFiniteSet(Below(C, i)) /\ Cardinality(Below(C, i)) \in Nat
  BY <1>1, <1>2, FS_Subset, FS_CardinalityType
<1>4. Cardinality(Below(C, i)) < Cardinality(C)
  <2>1. Cardinality(Below(C, i)) <= Cardinality(C) /\ Cardinality(Below(C, i)) # Cardinality(C)
    BY <1>1, <1>2, FS_Subset
  <2>. QED BY <1>1, <1>3, <2>1
<1>5. ASSUME NEW k \in C, i < k
      PROVE  Cardinality(Below(C, i)) < Cardinality(Below(C, k))
  <2>a. /\ i \in Nat /\ k \in Nat /\ i < k
        /\ \A j \in C : j \in Nat /\ (j < i => j < k)
    BY <1>1, <1>5
  <2>1. Below(C, k) \subseteq C /\ Below(C, i) \subseteq Below(C, k)
        /\ i \in Below(C, k) /\ i \notin Below(C, i)
    BY <1>2, <1>5, <2>a DEF Below
  <2>2. IsFiniteSet(Below(C, k)) /\ Cardinality(Below(C, k)) \in Nat
    BY <1>1, <2>1, FS_Subset, FS_CardinalityType
  <2>3. Cardinality(Below(C, i)) <= Cardinality(Below(C, k))
        /\ Cardinality(Below(C, i)) # Cardinality(Below(C, k))
    BY <2>1, <2>2, FS_Subset
  <2>. QED BY <1>3, <2>2, <2>3
<1>. QED BY <1>1, <1>3, <1>4, <1>5

\* Every place below their number is taken by one of the candidates.
LEMMA PlaceTaken ==
  ASSUME NEW C \in SUBSET Idx, C # {}, NEW k \in Nat
  PROVE  /\ Place(C, k) \in C
         /\ Cardinality(Below(C, Place(C, k))) = k % Cardinality(C)
<1>. DEFINE N == Cardinality(C)
            rank == [i \in C |-> Cardinality(Below(C, i))]
<1>1. N \in Nat \ {0} /\ k % N \in 0 .. N - 1 /\ C \subseteq Nat /\ IsFiniteSet(C)
  BY FiniteIdx
<1>2. rank \in [C -> 0 .. N - 1]
  BY BelowType
<1>3. \A i, j \in C : i # j => rank[i] # rank[j]
  <2>. SUFFICES ASSUME NEW i \in C, NEW j \in C, i # j PROVE rank[i] # rank[j]
    OBVIOUS
  <2>1. i < j \/ j < i
    BY <1>1
  <2>2. /\ Cardinality(Below(C, i)) \in 0 .. N - 1 /\ Cardinality(Below(C, j)) \in 0 .. N - 1
        /\ i < j => Cardinality(Below(C, i)) < Cardinality(Below(C, j))
        /\ j < i => Cardinality(Below(C, j)) < Cardinality(Below(C, i))
    BY BelowType
  <2>. QED BY <1>1, <2>1, <2>2
<1>4. rank \in Injection(C, 0 .. N - 1)
  <2>. HIDE DEF rank
  <2>. QED BY <1>2, <1>3 DEF Injection, IsInjective
<1>5. IsFiniteSet(0 .. N - 1) /\ Cardinality(0 .. N - 1) = N
  <2>. HIDE DEF N
  <2>. QED BY <1>1, FS_Interval
<1>6. rank \in Surjection(C, 0 .. N - 1)
  <2>. HIDE DEF rank
  <2>. QED BY <1>4, <1>5, FS_Injection
<1>7. PICK i \in C : rank[i] = k % N
  <2>. HIDE DEF rank, N
  <2>. QED BY <1>1, <1>6 DEF Surjection
<1>8. Cardinality({j \in C : j < i}) = k % N
  BY <1>7 DEF Below
<1>9. Place(C, k) = CHOOSE j \in C : Cardinality({l \in C : l < j}) = k % N
  BY DEF Place
<1>. QED BY <1>8, <1>9 DEF Below

-----------------------------------------------------------------------------
(* Types.                                                                  *)

PlanType ==
  [cands : SUBSET Idx, mode : Modes \cup {"none"}, interval : Nat]

AnswerType == [kind : Kinds, idx : Idx, epoch : Epoch \cup {NoEpoch}]

Keys == SUBSET (Idx \X Epoch)

\* Who may be where: a call past step 1 has a channel, one that is planning has
\* loaded it, one before the script has candidates and a mode; leases belong
\* to calls that are over.
ControlOK ==
  \A p \in Proc :
    /\ pc[p] \in {"load", "plan", "pick", "lease"} => cid[p] \in Chan
    /\ pc[p] \in {"plan", "pick", "lease"} => ch[p] \in Channel /\ ch[p].status = Enabled
    /\ pc[p] \in {"pick", "lease"} =>
         /\ plan[p].mode \in Modes
         /\ plan[p].cands # {}
         /\ \E s \in Snapshots : plan[p].interval = s.interval[cid[p]]
    /\ pc[p] # "done" => resp[p].kind = "pending"
    /\ p \in leases => pc[p] = "done" /\ cid[p] \in Chan

TypeInv ==
  /\ SelectTypeOK
  /\ plan \in [Proc -> PlanType]
  /\ resp \in [Proc -> AnswerType]
  /\ seen \in [Proc -> [some : Keys, all : Keys]]
  /\ ControlOK

\* What the assumptions say of a call (validation in handlers.go).
LEMMA CallFields ==
  ASSUME TypeInv, NEW p \in Proc
  PROVE  /\ req[p] \in Call
         /\ req[p].chan \in Chan \cup {NoChan}
         /\ req[p].est \in Nat
         /\ req[p].mode \in {"default", "polling", "random", "usage"}
BY SelectAssumption DEF TypeInv, SelectTypeOK, CallType

\* The keys of a row are among the indexes considered (GetKeys).
LEMMA RowKeys ==
  ASSUME NEW c \in Channel
  PROVE  /\ KeyIndexes(c) \subseteq Idx
         /\ EnabledKeyIndexes(c) \subseteq KeyIndexes(c)
         /\ Fingerprint[c.keys] \in Epoch
         /\ Serviceable(c) \in Keys
<1>1. c.keys \in KeyLists
  BY DEF Channel
<1>2. PICK n \in 0 .. MaxKeys : c.keys \in [0 .. n - 1 -> Key]
  BY <1>1, RowAssumption
<1>3. KeyIndexes(c) \subseteq Idx
  BY <1>2, RowAssumption DEF KeyIndexes, Idx
<1>4. Fingerprint[c.keys] \in Epoch
  BY <1>1, RowAssumption
<1>5. EnabledKeyIndexes(c) \subseteq KeyIndexes(c)
  BY DEF EnabledKeyIndexes
<1>. QED BY <1>3, <1>4, <1>5 DEF Serviceable, Keys

\* What may be served of a row that is there or is not.
LEMMA ServiceableType ==
  ASSUME NEW c \in Channel \cup {NoChannel}
  PROVE  Serviceable(c) \in Keys
BY RowKeys DEF Serviceable, Keys

\* The write-through leaves a channel (ApplyKeyStatus).
LEMMA ApplyType ==
  ASSUME NEW c \in Channel, NEW i \in Idx, NEW s \in Status
  PROVE  ApplyKeyStatus(c, i, s) \in Channel
<1>1. SetKey(c, i, s) \in Channel
  BY DEF SetKey, Channel
<1>2. ApplyMulti(c, i, s) \in Channel
  BY <1>1 DEF ApplyMulti, Channel, Status, Enabled, AutoDisabled, ManuallyDisabled
<1>3. ApplySingle(c, s) \in Channel
  BY DEF ApplySingle, Channel
<1>. QED BY <1>2, <1>3 DEF ApplyKeyStatus

\* A call that ends keeps the types (the returns of Select).
LEMMA EndType ==
  ASSUME TypeInv, NEW p \in Proc, End(p), resp' \in [Proc -> AnswerType],
         \A q \in Proc \ {p} : resp'[q] = resp[q],
         UNCHANGED <<req, cid, row, settings, clock, up, client>>,
         leases' \subseteq leases \cup {p}, p \in leases' => cid[p] \in Chan,
         cursor' \in [Chan -> Nat], usage' \in [Chan -> [Idx -> Int]],
         lastDecay' \in [Chan -> 0 .. MaxNow], UNCHANGED seen
  PROVE  TypeInv'
<1>. USE DEF TypeInv
<1>1. NoPlan \in PlanType /\ 0 \in 0 .. MaxNow
  BY SelectAssumption DEF NoPlan, PlanType
<1>2. /\ pc' = [pc EXCEPT ![p] = "done"] /\ pc' \in [Proc -> {"idle", "abilities", "load", "plan", "pick", "lease", "done"}]
      /\ at' \in [Proc -> 0 .. MaxNow]
      /\ ch' \in [Proc -> Channel \cup {NoChannel}]
      /\ plan' \in [Proc -> PlanType]
      /\ \A q \in Proc \ {p} : pc'[q] = pc[q] /\ ch'[q] = ch[q] /\ plan'[q] = plan[q]
      /\ pc'[p] = "done"
  BY <1>1 DEF End, Goto, SelectTypeOK
<1>3. /\ \A q \in Proc : plan'[q].cands \subseteq Idx /\ plan'[q].mode \in Modes \cup {"none"}
      /\ \A q \in Proc : resp'[q].kind \in Kinds /\ resp'[q].idx \in Idx
  BY <1>2 DEF PlanType, AnswerType
<1>4. leases' \subseteq Proc
  BY DEF SelectTypeOK
<1>5. SelectTypeOK'
  BY <1>2, <1>3, <1>4 DEF SelectTypeOK
<1>6. ControlOK'
  <2>. SUFFICES ASSUME NEW q \in Proc
       PROVE  /\ pc'[q] \in {"load", "plan", "pick", "lease"} => cid[q] \in Chan
              /\ pc'[q] \in {"plan", "pick", "lease"} => ch'[q] \in Channel /\ ch'[q].status = Enabled
              /\ pc'[q] \in {"pick", "lease"} =>
                   /\ plan'[q].mode \in Modes
                   /\ plan'[q].cands # {}
                   /\ \E s \in Snapshots : plan'[q].interval = s.interval[cid[q]]
              /\ pc'[q] # "done" => resp'[q].kind = "pending"
              /\ q \in leases' => pc'[q] = "done" /\ cid[q] \in Chan
    BY DEF ControlOK
  <2>1. CASE q = p
    BY <2>1, <1>2
  <2>2. CASE q # p
    BY <2>2, <1>2 DEF ControlOK
  <2>. QED BY <2>1, <2>2
<1>. QED BY <1>2, <1>5, <1>6

\* The answers of the code are answers.
LEMMA AnswerTyped ==
  ASSUME TypeInv, NEW p \in Proc, NEW kind \in Kinds, Answer(p, kind)
  PROVE  /\ End(p)
         /\ resp' \in [Proc -> AnswerType]
         /\ \A q \in Proc \ {p} : resp'[q] = resp[q]
BY DEF TypeInv, Answer, AnswerType

\* So is the answer that names a key.
LEMMA AnswerKeyTyped ==
  ASSUME TypeInv, NEW p \in Proc, NEW i \in Idx, NEW c \in Channel, AnswerKey(p, i, c)
  PROVE  /\ End(p)
         /\ resp' \in [Proc -> AnswerType]
         /\ \A q \in Proc \ {p} : resp'[q] = resp[q]
<1>1. [kind |-> "key", idx |-> i, epoch |-> Fingerprint[c.keys]] \in AnswerType
  BY RowKeys DEF AnswerType, Kinds
<1>. QED BY <1>1 DEF TypeInv, AnswerKey

\* An arriving call keeps the types.
LEMMA ArriveType == ASSUME TypeInv, NEW p \in Proc, Arrive(p) PROVE TypeInv'
<1>. USE DEF TypeInv, SelectTypeOK
<1>1. PICK c \in Call :
        /\ req' = [req EXCEPT ![p] = c]
        /\ cid' = [cid EXCEPT ![p] = c.chan]
        /\ \/ c.chan = NoChan /\ Goto(p, "abilities") /\ UNCHANGED seen
           \/ c.chan # NoChan /\ Goto(p, "load") /\ Watch(p, row[c.chan])
  BY DEF Arrive
<1>2. c.chan \in Chan \cup {NoChan} /\ clock \in 0 .. MaxNow
  BY SelectAssumption DEF CallType
<1>3. /\ at' = [at EXCEPT ![p] = clock]
      /\ UNCHANGED <<ch, plan, resp, dbVars, luaVars, up, client, leases>>
      /\ pc[p] = "idle"
  BY DEF Arrive
<1>4. c.chan # NoChan => Serviceable(row[c.chan]) \in Keys
  BY <1>2, ServiceableType
<1>5. seen' \in [Proc -> [some : Keys, all : Keys]]
  <2>1. CASE UNCHANGED seen
    BY <2>1
  <2>2. CASE c.chan # NoChan /\ Watch(p, row[c.chan])
    <3>1. [some |-> Serviceable(row[c.chan]), all |-> Serviceable(row[c.chan])]
             \in [some : Keys, all : Keys]
      BY <1>4, <2>2
    <3>2. seen \in [Proc -> [some : Keys, all : Keys]]
      OBVIOUS
    <3>. QED BY ONLY <2>2, <3>1, <3>2 DEF Watch
  <2>. QED BY <1>1, <2>1, <2>2
<1>6. /\ pc' \in [Proc -> {"idle", "abilities", "load", "plan", "pick", "lease", "done"}]
      /\ \A q \in Proc \ {p} : pc'[q] = pc[q] /\ cid'[q] = cid[q]
      /\ pc'[p] \in {"abilities", "load"}
      /\ pc'[p] = "load" => cid'[p] \in Chan
      /\ cid' \in [Proc -> Chan \cup {NoChan}]
  BY <1>1, <1>2 DEF Goto
<1>7. SelectTypeOK'
  BY <1>1, <1>2, <1>3, <1>6 DEF dbVars, luaVars
<1>8. ControlOK'
  <2>1. UNCHANGED <<ch, plan, resp, leases>> /\ pc[p] = "idle" /\ ControlOK
    BY <1>3
  <2>2. /\ p \notin leases /\ resp[p].kind = "pending"
    BY <2>1 DEF ControlOK
  <2>. QED BY ONLY <1>6, <2>1, <2>2 DEF ControlOK
<1>. QED BY <1>3, <1>5, <1>7, <1>8

\* The choice of a channel keeps the types.
LEMMA AbilitiesType == ASSUME TypeInv, NEW p \in Proc, Abilities(p) PROVE TypeInv'
<1>. USE DEF TypeInv
<1>1. CASE \E kind \in {"dependency", "nochannel"} : Answer(p, kind) /\ UNCHANGED <<cid, seen>>
  <2>1. PICK kind \in Kinds : Answer(p, kind) /\ UNCHANGED <<cid, seen>>
    BY <1>1 DEF Kinds
  <2>2. UNCHANGED <<req, dbVars, luaVars, up, client, leases>>
    BY DEF Abilities
  <2>. QED BY <2>1, <2>2, AnswerTyped, EndType DEF SelectTypeOK, dbVars, luaVars, ControlOK
<1>2. CASE \E c \in Tier(Offered, req[p].retry) :
             /\ cid' = [cid EXCEPT ![p] = c]
             /\ Watch(p, row[c])
             /\ Goto(p, "load")
             /\ UNCHANGED <<at, ch, plan, resp>>
  <2>1. PICK c \in Chan : /\ cid' = [cid EXCEPT ![p] = c]
                          /\ Watch(p, row[c])
                          /\ Goto(p, "load")
                          /\ UNCHANGED <<at, ch, plan, resp>>
    BY <1>2 DEF Tier, Offered
  <2>2. UNCHANGED <<req, dbVars, luaVars, up, client, leases>> /\ pc[p] = "abilities"
    BY DEF Abilities
  <2>3. Serviceable(row[c]) \in Keys
    BY ServiceableType DEF SelectTypeOK
  <2>4. seen' \in [Proc -> [some : Keys, all : Keys]]
    BY <2>1, <2>3 DEF Watch
  <2>5. /\ pc' \in [Proc -> {"idle", "abilities", "load", "plan", "pick", "lease", "done"}]
        /\ \A q \in Proc \ {p} : pc'[q] = pc[q] /\ cid'[q] = cid[q]
        /\ pc'[p] = "load" /\ cid'[p] \in Chan
        /\ cid' \in [Proc -> Chan \cup {NoChan}]
    BY <2>1 DEF Goto, SelectTypeOK
  <2>6. SelectTypeOK'
    BY <2>1, <2>2, <2>5 DEF SelectTypeOK, dbVars, luaVars
  <2>7. ControlOK'
    BY <2>1, <2>2, <2>5 DEF ControlOK
  <2>. QED BY <2>1, <2>4, <2>6, <2>7
<1>. QED BY <1>1, <1>2 DEF Abilities

\* So does the read of the channel.
LEMMA LoadType == ASSUME TypeInv, NEW p \in Proc, Load(p) PROVE TypeInv'
<1>. USE DEF TypeInv
<1>. DEFINE c == row[cid[p]]
            i == req[p].direct
<1>1. /\ pc[p] = "load" /\ cid[p] \in Chan /\ c \in Channel \cup {NoChannel}
      /\ UNCHANGED <<req, cid, dbVars, luaVars, up, client, leases, seen>>
  BY DEF Load, ControlOK, SelectTypeOK
<1>. HIDE DEF c
<1>2. CASE \E kind \in {"dependency", "nochannel", "nokey", "invalid"} : Answer(p, kind)
  <2>1. PICK kind \in Kinds : Answer(p, kind)
    BY <1>2 DEF Kinds
  <2>. QED BY <1>1, <2>1, AnswerTyped, EndType DEF SelectTypeOK, dbVars, luaVars, ControlOK
<1>3. CASE c # NoChannel /\ i \in EnabledKeyIndexes(c) /\ AnswerKey(p, i, c)
  <2>1. c \in Channel /\ i \in Idx
    BY <1>1, <1>3, RowKeys
  <2>. QED BY <1>1, <1>3, <2>1, AnswerKeyTyped, EndType DEF SelectTypeOK, dbVars, luaVars, ControlOK
<1>4. CASE /\ c # NoChannel /\ c.status = Enabled
           /\ ch' = [ch EXCEPT ![p] = c]
           /\ Goto(p, "plan")
           /\ UNCHANGED <<at, plan, resp>>
  <2>1. /\ pc' \in [Proc -> {"idle", "abilities", "load", "plan", "pick", "lease", "done"}]
        /\ ch' \in [Proc -> Channel \cup {NoChannel}]
        /\ \A q \in Proc \ {p} : pc'[q] = pc[q] /\ ch'[q] = ch[q]
        /\ pc'[p] = "plan" /\ ch'[p] \in Channel /\ ch'[p].status = Enabled
    BY <1>1, <1>4 DEF Goto, SelectTypeOK
  <2>2. SelectTypeOK'
    BY <1>1, <1>4, <2>1 DEF SelectTypeOK, dbVars, luaVars
  <2>3. ControlOK'
    BY <1>1, <1>4, <2>1 DEF ControlOK
  <2>. QED BY <1>1, <1>4, <2>2, <2>3
<1>. QED BY <1>2, <1>3, <1>4 DEF Load, c

\* The candidates are enabled keys of the channel as loaded (candidates).
LEMMA Allowance == ASSUME NEW p \in Proc PROVE Allowed(p) \subseteq EnabledKeyIndexes(ch[p])
BY DEF Allowed, Candidates

\* So does the plan.
LEMMA PlanStepType == ASSUME TypeInv, NEW p \in Proc, Plan(p) PROVE TypeInv'
<1>. USE DEF TypeInv
<1>. DEFINE cands == Allowed(p) \ Excluded(p)
            pl == [cands |-> cands, mode |-> ModeOf(p), interval |-> settings.interval[cid[p]]]
<1>1. /\ pc[p] = "plan" /\ cid[p] \in Chan /\ ch[p] \in Channel
      /\ UNCHANGED <<req, cid, dbVars, luaVars, up, client, leases, seen>>
  BY DEF Plan, ControlOK
<1>2. CASE Answer(p, "nokey")
  <2>1. "nokey" \in Kinds
    BY DEF Kinds
  <2>. QED BY <1>1, <1>2, <2>1, AnswerTyped, EndType DEF SelectTypeOK, dbVars, luaVars, ControlOK
<1>3. CASE /\ cands # {}
           /\ plan' = [plan EXCEPT ![p] = pl]
           /\ Goto(p, "pick")
           /\ UNCHANGED <<at, ch, resp>>
  <2>1. cands \subseteq Idx
    BY <1>1, Allowance, RowKeys
  <2>2. ModeOf(p) \in Modes
    BY <1>1, CallFields, SelectAssumption DEF ModeOf, Modes
  <2>3. settings \in Snapshots /\ settings.interval[cid[p]] \in Nat
    BY <1>1, SelectAssumption DEF SelectTypeOK, SnapshotType
  <2>4. pl \in PlanType /\ pl.mode \in Modes /\ pl.cands # {} /\ pl.interval = settings.interval[cid[p]]
    BY <1>3, <2>1, <2>2, <2>3 DEF PlanType
  <2>. HIDE DEF pl, cands
  <2>5. /\ pc' \in [Proc -> {"idle", "abilities", "load", "plan", "pick", "lease", "done"}]
        /\ plan' \in [Proc -> PlanType]
        /\ \A q \in Proc \ {p} : pc'[q] = pc[q] /\ plan'[q] = plan[q]
        /\ pc'[p] = "pick" /\ plan'[p] = pl
    BY <1>1, <1>3, <2>4 DEF Goto, SelectTypeOK
  <2>6. \A q \in Proc : plan'[q].cands \subseteq Idx /\ plan'[q].mode \in Modes \cup {"none"}
    BY <2>5 DEF PlanType
  <2>7. SelectTypeOK'
    BY <1>1, <1>3, <2>5, <2>6 DEF SelectTypeOK, dbVars, luaVars
  <2>8. ControlOK'
    <3>1. \A q \in Proc \ {p} : pc'[q] = pc[q] /\ plan'[q] = plan[q]
      BY <2>5
    <3>2. UNCHANGED <<cid, ch, resp, leases>>
      BY <1>1, <1>3
    <3>3. /\ plan'[p].mode \in Modes /\ plan'[p].cands # {}
          /\ \E s \in Snapshots : plan'[p].interval = s.interval[cid[p]]
      BY <2>3, <2>4, <2>5
    <3>. QED BY <1>1, <2>5, <3>1, <3>2, <3>3 DEF ControlOK
  <2>. QED BY <1>1, <1>3, <2>5, <2>7, <2>8
<1>. QED BY <1>2, <1>3 DEF Plan

-----------------------------------------------------------------------------
(* The script.                                                             *)

\* The script answers one of the candidates (select_key.lua).
LEMMA PicksCandidate ==
  ASSUME TypeInv, NEW p \in Proc, pc[p] = "pick", NEW i \in MayPick(p)
  PROVE  i \in plan[p].cands /\ i \in Idx
<1>1. /\ plan[p].cands \subseteq Idx /\ plan[p].cands # {} /\ plan[p].mode \in Modes
      /\ cursor[cid[p]] \in Nat
  BY DEF TypeInv, SelectTypeOK, ControlOK
<1>2. \A k \in Nat : Place(plan[p].cands, k) \in plan[p].cands
  BY <1>1, PlaceTaken
<1>3. cursor[cid[p]] + 1 \in Nat
  BY <1>1
<1>. QED BY <1>1, <1>2, <1>3 DEF MayPick, Modes

\* The counters stay integers, the cursor a number and last_decay a moment.
LEMMA ScriptType ==
  ASSUME TypeInv, NEW p \in Proc, pc[p] = "pick", NEW i \in Idx, Script(p, i)
  PROVE  /\ cursor' \in [Chan -> Nat]
         /\ usage' \in [Chan -> [Idx -> Int]]
         /\ lastDecay' \in [Chan -> 0 .. MaxNow]
<1>1. /\ cid[p] \in Chan /\ cursor \in [Chan -> Nat] /\ usage \in [Chan -> [Idx -> Int]]
      /\ lastDecay \in [Chan -> 0 .. MaxNow] /\ at[p] \in 0 .. MaxNow
      /\ req[p].est \in Nat
  BY CallFields DEF TypeInv, SelectTypeOK, ControlOK
<1>2. Counters(p) \in [Idx -> Int]
  <2>1. \A u \in [Idx -> Int] : Halved(u) \in [Idx -> Int]
    BY DEF Halved
  <2>. QED BY <1>1, <2>1 DEF Counters
<1>3. usage' \in [Chan -> [Idx -> Int]]
  <2>. DEFINE debit == IF plan[p].mode = "usage" THEN req[p].est ELSE 0
              u == [Counters(p) EXCEPT ![i] = @ + debit]
  <2>1. debit \in Int
    BY <1>1
  <2>2. u \in [Idx -> Int]
    <3>. HIDE DEF debit
    <3>. QED BY <1>2, <2>1
  <2>3. usage' = [usage EXCEPT ![cid[p]] = u]
    BY DEF Script
  <2>. HIDE DEF u
  <2>. QED BY <1>1, <2>2, <2>3
<1>4. cursor' \in [Chan -> Nat]
  BY <1>1 DEF Script
<1>5. lastDecay' \in [Chan -> 0 .. MaxNow]
  BY <1>1 DEF Script, Decay
<1>. QED BY <1>3, <1>4, <1>5

\* So does the step that runs the script.
LEMMA PickType == ASSUME TypeInv, NEW p \in Proc, Pick(p) PROVE TypeInv'
<1>. USE DEF TypeInv
<1>1. /\ pc[p] = "pick" /\ cid[p] \in Chan /\ ch[p] \in Channel /\ p \notin leases
      /\ UNCHANGED <<req, cid, dbVars, up, client, leases, seen>>
  BY DEF Pick, ControlOK
<1>2. {"degraded", "internal"} \subseteq Kinds
  BY DEF Kinds
<1>3. \A i \in Idx : Script(p, i) =>
        /\ cursor' \in [Chan -> Nat]
        /\ usage' \in [Chan -> [Idx -> Int]]
        /\ lastDecay' \in [Chan -> 0 .. MaxNow]
  BY <1>1, ScriptType
<1>4. UNCHANGED luaVars =>
        /\ cursor' \in [Chan -> Nat]
        /\ usage' \in [Chan -> [Idx -> Int]]
        /\ lastDecay' \in [Chan -> 0 .. MaxNow]
  BY DEF luaVars, SelectTypeOK
<1>5. CASE /\ \E kind \in {"degraded", "internal"} : Answer(p, kind)
           /\ UNCHANGED luaVars \/ \E i \in Idx : Script(p, i)
  <2>1. PICK kind \in Kinds : Answer(p, kind)
    BY <1>2, <1>5
  <2>. QED BY <1>1, <1>3, <1>4, <1>5, <2>1, AnswerTyped, EndType DEF dbVars
<1>6. CASE \E i \in Idx : Script(p, i) /\ AnswerKey(p, i, ch[p])
  <2>1. PICK i \in Idx : Script(p, i) /\ AnswerKey(p, i, ch[p])
    BY <1>6
  <2>. QED BY <1>1, <1>3, <2>1, AnswerKeyTyped, EndType DEF dbVars
<1>7. CASE \E i \in Idx : /\ Script(p, i)
                          /\ resp' = [resp EXCEPT ![p].idx = i]
                          /\ Goto(p, "lease")
                          /\ UNCHANGED <<at, ch, plan>>
  <2>1. PICK i \in Idx : /\ Script(p, i)
                         /\ resp' = [resp EXCEPT ![p].idx = i]
                         /\ Goto(p, "lease")
                         /\ UNCHANGED <<at, ch, plan>>
    BY <1>7
  <2>6. /\ pc \in [Proc -> {"idle", "abilities", "load", "plan", "pick", "lease", "done"}]
        /\ resp \in [Proc -> AnswerType]
    BY DEF SelectTypeOK
  <2>7. /\ pc' \in [Proc -> {"idle", "abilities", "load", "plan", "pick", "lease", "done"}]
        /\ \A q \in Proc \ {p} : pc'[q] = pc[q]
        /\ pc'[p] = "lease"
    BY ONLY <2>1, <2>6 DEF Goto
  <2>8. resp' \in [Proc -> AnswerType]
    BY ONLY <2>1, <2>6 DEF AnswerType
  <2>9. \A q \in Proc : resp'[q].kind = resp[q].kind
    BY ONLY <2>1, <2>6 DEF AnswerType
  <2>2. /\ pc' \in [Proc -> {"idle", "abilities", "load", "plan", "pick", "lease", "done"}]
        /\ resp' \in [Proc -> AnswerType]
        /\ \A q \in Proc \ {p} : pc'[q] = pc[q]
        /\ \A q \in Proc : resp'[q].kind = resp[q].kind
        /\ pc'[p] = "lease"
    BY <2>7, <2>8, <2>9
  <2>3. \A q \in Proc : resp'[q].kind \in Kinds /\ resp'[q].idx \in Idx
    BY <2>2 DEF AnswerType
  <2>4. SelectTypeOK'
    BY <1>1, <1>3, <2>1, <2>2, <2>3 DEF SelectTypeOK, dbVars
  <2>5. ControlOK'
    BY <1>1, <2>1, <2>2 DEF ControlOK
  <2>. QED BY <1>1, <2>1, <2>2, <2>4, <2>5
<1>. QED BY <1>5, <1>6, <1>7 DEF Pick

\* So does the lease.
LEMMA LeaseType == ASSUME TypeInv, NEW p \in Proc, LeaseSet(p) PROVE TypeInv'
<1>. USE DEF TypeInv
<1>1. /\ pc[p] = "lease" /\ cid[p] \in Chan /\ ch[p] \in Channel /\ resp[p].idx \in Idx
      /\ UNCHANGED <<req, cid, dbVars, luaVars, up, client, seen>>
      /\ leases' \subseteq leases \cup {p}
  BY DEF LeaseSet, ControlOK, SelectTypeOK
<1>2. CASE Answer(p, "internal")
  <2>1. "internal" \in Kinds
    BY DEF Kinds
  <2>. QED BY <1>1, <1>2, <2>1, AnswerTyped, EndType DEF SelectTypeOK, dbVars, luaVars
<1>3. CASE AnswerKey(p, resp[p].idx, ch[p])
  BY <1>1, <1>3, AnswerKeyTyped, EndType DEF SelectTypeOK, dbVars, luaVars
<1>. QED BY <1>2, <1>3 DEF LeaseSet

\* Rows that stay rows keep the types, and what calls have seen too.
LEMMA WriteType ==
  ASSUME TypeInv, NEW rows \in [Chan -> Channel \cup {NoChannel}], Write(rows)
  PROVE  TypeInv'
<1>. USE DEF TypeInv
<1>1. UNCHANGED <<reqVars, settings, clock, luaVars, up, client, leases>> /\ row' = rows
  BY DEF Write
<1>2. \A p \in Proc : pc[p] \notin {"idle", "abilities", "done"} => Serviceable(rows[cid[p]]) \in Keys
  BY ServiceableType DEF SelectTypeOK, ControlOK
<1>3. \A p \in Proc : seen[p].some \in Keys /\ seen[p].all \in Keys
  OBVIOUS
<1>4. seen' \in [Proc -> [some : Keys, all : Keys]]
  BY <1>2, <1>3 DEF Write, Keys
<1>5. SelectTypeOK'
  BY <1>1 DEF SelectTypeOK, reqVars, luaVars
<1>6. ControlOK'
  BY <1>1 DEF ControlOK, reqVars
<1>. QED BY <1>1, <1>4, <1>5, <1>6 DEF reqVars

\* What reports and new-api write are rows.
LEMMA RowsType ==
  ASSUME TypeInv, KeyStatus \/ EditKeys
  PROVE  \E rows \in [Chan -> Channel \cup {NoChannel}] : Write(rows)
<1>. USE DEF TypeInv, SelectTypeOK
<1>1. CASE KeyStatus
  <2>1. PICK c \in Chan, i \in Idx, s \in Status :
          /\ CanApply(row[c], i)
          /\ Write([row EXCEPT ![c] = ApplyKeyStatus(@, i, s)])
    BY <1>1 DEF KeyStatus
  <2>2. ApplyKeyStatus(row[c], i, s) \in Channel
    BY <2>1, ApplyType DEF CanApply
  <2>. QED BY <2>1, <2>2
<1>2. CASE EditKeys
  <2>1. PICK c \in Chan, l \in KeyLists :
          /\ row[c] # NoChannel
          /\ Write([row EXCEPT ![c].keys = l, ![c].ks = [i \in Idx |-> Enabled]])
    BY <1>2 DEF EditKeys
  <2>2. row[c] \in Channel
    BY <2>1
  <2>3. [row[c] EXCEPT !.keys = l, !.ks = [i \in Idx |-> Enabled]] \in Channel
    BY <2>2 DEF Channel, Status, Enabled
  <2>4. [row EXCEPT ![c].keys = l, ![c].ks = [i \in Idx |-> Enabled]]
          \in [Chan -> Channel \cup {NoChannel}]
    BY <2>3
  <2>. QED BY <2>1, <2>4
<1>. QED BY <1>1, <1>2

\* Clock, options, reports and a Redis that comes keep the types.
LEMMA MeanwhileType ==
  ASSUME TypeInv, Tick \/ SettingsChange \/ RedisComes \/ \E p \in Proc : Report(p)
  PROVE  TypeInv'
<1>. USE DEF TypeInv
<1>1. CASE Tick
  <2>1. clock' \in Start .. MaxNow
    BY <1>1, SelectAssumption DEF Tick, SelectTypeOK
  <2>. QED BY <1>1, <2>1 DEF Tick, SelectTypeOK, ControlOK, reqVars, luaVars
<1>2. CASE SettingsChange
  BY <1>2 DEF SettingsChange, SelectTypeOK, ControlOK, reqVars, luaVars
<1>3. CASE RedisComes
  BY <1>3 DEF RedisComes, SelectTypeOK, ControlOK, reqVars, luaVars, dbVars
<1>4. ASSUME NEW p \in Proc, Report(p) PROVE TypeInv'
  <2>1. /\ UNCHANGED <<reqVars, dbVars, cursor, lastDecay, picks, decays, up, client, seen>>
        /\ leases' \subseteq leases /\ cid[p] \in Chan
    BY <1>4 DEF Report, ControlOK
  <2>2. /\ req[p].est \in Nat /\ Actual \in Nat /\ resp[p].idx \in Idx
        /\ usage[cid[p]] \in [Idx -> Int]
    BY <2>1, CallFields, SelectAssumption DEF SelectTypeOK
  <2>3. usage' \in [Chan -> [Idx -> Int]]
    BY <1>4, <2>1, <2>2 DEF Report, SelectTypeOK
  <2>4. SelectTypeOK'
    BY <2>1, <2>3 DEF SelectTypeOK, reqVars, dbVars
  <2>5. ControlOK'
    BY <2>1 DEF ControlOK, reqVars
  <2>. QED BY <2>1, <2>4, <2>5 DEF reqVars
<1>. QED BY <1>1, <1>2, <1>3, <1>4

\* Every step keeps the types (Next).
LEMMA StepType == ASSUME TypeInv, [Next]_vars PROVE TypeInv'
<1>1. CASE \E p \in Proc : Arrive(p) \/ Step(p)
  BY <1>1, ArriveType, AbilitiesType, LoadType, PlanStepType, PickType, LeaseType DEF Step
<1>2. CASE Environment
  BY <1>2, RowsType, WriteType, MeanwhileType DEF Environment
<1>3. CASE UNCHANGED vars
  BY <1>3 DEF TypeInv, SelectTypeOK, ControlOK, vars, reqVars, dbVars, luaVars
<1>. QED BY <1>1, <1>2, <1>3 DEF Next, Exhausted

\* The first states have the types (NewClient, and no call under way).
LEMMA InitType == ASSUME Init PROVE TypeInv
<1>1. 0 \in Idx /\ NoPlan \in PlanType /\ NoAnswer \in AnswerType
  BY FiniteIdx DEF NoPlan, PlanType, NoAnswer, AnswerType, Kinds
<1>2. req \in [Proc -> Call]
  BY SelectAssumption DEF Init
<1>3. /\ plan = [p \in Proc |-> NoPlan] /\ resp = [p \in Proc |-> NoAnswer]
      /\ seen \in [Proc -> [some : Keys, all : Keys]]
  BY DEF Init, Keys
<1>4. \A p \in Proc : /\ plan[p].cands \subseteq Idx /\ plan[p].mode \in Modes \cup {"none"}
                      /\ resp[p].kind \in Kinds /\ resp[p].idx \in Idx /\ resp[p].kind = "pending"
  BY <1>1, <1>3 DEF NoPlan, NoAnswer, Kinds
<1>5. /\ clock \in Start .. MaxNow
      /\ up \in BOOLEAN /\ client \in {"connected", "nil"}
  <2>1. clock \in Start .. MaxNow
    BY SelectAssumption DEF Init
  <2>2. up \in BOOLEAN
    BY Zenon DEF Init
  <2>3. client \in {"connected", "nil"}
    BY Zenon DEF Init
  <2>. QED BY <2>1, <2>2, <2>3
<1>6. /\ at \in [Proc -> 0 .. MaxNow] /\ lastDecay \in [Chan -> 0 .. MaxNow]
      /\ cursor \in [Chan -> Nat] /\ usage \in [Chan -> [Idx -> Int]]
  BY SelectAssumption DEF Init
<1>7. /\ pc = [p \in Proc |-> "idle"] /\ cid = [p \in Proc |-> NoChan]
      /\ ch = [p \in Proc |-> NoChannel] /\ leases = {} /\ settings \in Snapshots
      /\ row \in [Chan -> Channel \cup {NoChannel}]
  BY SelectAssumption DEF Init
<1>8. SelectTypeOK
  BY <1>2, <1>4, <1>5, <1>6, <1>7 DEF SelectTypeOK
<1>9. ControlOK
  BY <1>4, <1>7 DEF ControlOK
<1>. QED BY <1>1, <1>3, <1>8, <1>9 DEF TypeInv

\* The types with who may be where, always.
LEMMA TypesHold == Spec => []TypeInv
<1>1. Init => TypeInv
  BY InitType
<1>2. TypeInv /\ [Next]_vars => TypeInv'
  BY StepType
<1>. QED BY <1>1, <1>2, PTL DEF Spec

\* The variables of a call of select, of Redis and of the database keep their
\* types, in every mode and under every fault and change: the script is never
\* asked about no candidates, and answers one of them (selector.go:187,
\* select_key.lua).
THEOREM SelectTypeCorrect == Spec => []SelectTypeOK
<1>1. TypeInv => SelectTypeOK
  BY DEF TypeInv
<1>. QED BY <1>1, TypesHold, PTL

-----------------------------------------------------------------------------
(* What is answered.                                                       *)

\* What a call may answer at its step it has seen: the row in the database
\* before the load, its own copy after it, and of that only enabled keys.
SeenOK(p) ==
  /\ pc[p] = "load" => Serviceable(row[cid[p]]) \subseteq seen[p].some
  /\ pc[p] \in {"plan", "pick", "lease"} => Serviceable(ch[p]) \subseteq seen[p].some
  /\ pc[p] \in {"pick", "lease"} => plan[p].cands \subseteq EnabledKeyIndexes(ch[p])
  /\ pc[p] = "lease" => resp[p].idx \in EnabledKeyIndexes(ch[p])
  /\ Served(p) => <<resp[p].idx, resp[p].epoch>> \in seen[p].some

\* An enabled key of an enabled channel may be served, with its list's epoch.
LEMMA MayServe ==
  ASSUME NEW c \in Channel, c.status = Enabled, NEW i \in EnabledKeyIndexes(c)
  PROVE  <<i, Fingerprint[c.keys]>> \in Serviceable(c)
BY NoChannelAssumption DEF Serviceable

\* A step of one call leaves the others, and the rows, alone (no shared state
\* within a replica).
LEMMA OwnStep ==
  ASSUME TypeInv, NEW p \in Proc, Arrive(p) \/ Step(p)
  PROVE  /\ UNCHANGED row
         /\ \A q \in Proc \ {p} :
              /\ pc'[q] = pc[q] /\ cid'[q] = cid[q] /\ ch'[q] = ch[q]
              /\ plan'[q] = plan[q] /\ resp'[q] = resp[q] /\ seen'[q] = seen[q]
<1>. USE DEF TypeInv, SelectTypeOK, dbVars, Goto, Watch, Answer, AnswerKey, End
<1>1. CASE Arrive(p)
  BY <1>1 DEF Arrive
<1>2. CASE Abilities(p)
  BY <1>2 DEF Abilities
<1>3. CASE Load(p)
  BY <1>3 DEF Load
<1>4. CASE Plan(p)
  BY <1>4 DEF Plan
<1>5. CASE Pick(p)
  BY <1>5 DEF Pick
<1>6. CASE LeaseSet(p)
  BY <1>6 DEF LeaseSet
<1>. QED BY <1>1, <1>2, <1>3, <1>4, <1>5, <1>6 DEF Step

\* A call that is refused answers no key.
LEMMA Refused ==
  ASSUME TypeInv, NEW p \in Proc, NEW kind \in Kinds \ {"key"}, Answer(p, kind)
  PROVE  SeenOK(p)'
BY DEF TypeInv, SelectTypeOK, Answer, AnswerType, End, Goto, SeenOK, Served

\* One that answers a key it may serve has seen it.
LEMMA Answered ==
  ASSUME TypeInv, NEW p \in Proc, NEW c \in Channel, c.status = Enabled,
         NEW i \in EnabledKeyIndexes(c), AnswerKey(p, i, c),
         Serviceable(c) \subseteq seen[p].some, UNCHANGED seen
  PROVE  SeenOK(p)'
<1>1. <<i, Fingerprint[c.keys]>> \in seen'[p].some
  BY MayServe
<1>2. /\ resp'[p] = [kind |-> "key", idx |-> i, epoch |-> Fingerprint[c.keys]]
      /\ pc'[p] = "done"
  BY DEF TypeInv, SelectTypeOK, AnswerKey, End, Goto
<1>. QED BY <1>1, <1>2 DEF SeenOK, Served

\* A call sees what it may answer, step by step (Select).
LEMMA StepSees ==
  ASSUME TypeInv, NEW p \in Proc, SeenOK(p), Arrive(p) \/ Step(p)
  PROVE  SeenOK(p)'
<1>. USE DEF TypeInv
<1>0. UNCHANGED row
  BY OwnStep
<1>1. CASE Arrive(p)
  <2>1. resp[p].kind = "pending" /\ UNCHANGED resp
    BY <1>1 DEF Arrive, ControlOK
  <2>2. \/ pc'[p] = "abilities"
        \/ pc'[p] = "load" /\ Serviceable(row[cid'[p]]) = seen'[p].some
    BY <1>1 DEF Arrive, Watch, Goto, SelectTypeOK
  <2>. QED BY <1>0, <2>1, <2>2 DEF SeenOK, Served
<1>2. CASE Abilities(p)
  <2>1. CASE \E kind \in {"dependency", "nochannel"} : Answer(p, kind)
    BY <2>1, Refused DEF Kinds
  <2>2. CASE \E c \in Tier(Offered, req[p].retry) :
               /\ cid' = [cid EXCEPT ![p] = c]
               /\ Watch(p, row[c])
               /\ Goto(p, "load")
               /\ UNCHANGED <<at, ch, plan, resp>>
    <3>1. /\ pc'[p] = "load" /\ Serviceable(row[cid'[p]]) = seen'[p].some
          /\ UNCHANGED resp
      BY <2>2 DEF Watch, Goto, SelectTypeOK
    <3>2. resp[p].kind = "pending"
      BY <1>2 DEF Abilities, ControlOK
    <3>. QED BY <1>0, <3>1, <3>2 DEF SeenOK, Served
  <2>. QED BY <1>2, <2>1, <2>2 DEF Abilities
<1>3. CASE Load(p)
  <2>. DEFINE c == row[cid[p]]
              i == req[p].direct
  <2>1. /\ c \in Channel \cup {NoChannel} /\ Serviceable(c) \subseteq seen[p].some
        /\ UNCHANGED seen /\ resp[p].kind = "pending"
    BY <1>3 DEF Load, ControlOK, SelectTypeOK, SeenOK
  <2>. HIDE DEF c, i
  <2>2. CASE \E kind \in {"dependency", "nochannel", "nokey", "invalid"} : Answer(p, kind)
    BY <2>2, Refused DEF Kinds
  <2>3. CASE c # NoChannel /\ c.status = Enabled /\ i \in EnabledKeyIndexes(c) /\ AnswerKey(p, i, c)
    BY <2>1, <2>3, Answered
  <2>4. CASE ch' = [ch EXCEPT ![p] = c] /\ Goto(p, "plan") /\ UNCHANGED resp
    BY <2>1, <2>4 DEF SeenOK, Served, Goto, SelectTypeOK
  <2>. QED BY <1>3, <2>2, <2>3, <2>4 DEF Load, c, i
<1>4. CASE Plan(p)
  <2>1. /\ Serviceable(ch[p]) \subseteq seen[p].some /\ UNCHANGED seen
        /\ resp[p].kind = "pending"
    BY <1>4 DEF Plan, ControlOK, SeenOK
  <2>2. CASE Answer(p, "nokey")
    BY <2>2, Refused DEF Kinds
  <2>3. CASE /\ plan'[p].cands = Allowed(p) \ Excluded(p)
             /\ Goto(p, "pick")
             /\ UNCHANGED <<at, ch, resp>>
    BY <2>1, <2>3, Allowance DEF SeenOK, Served, Goto, SelectTypeOK
  <2>4. plan' = [plan EXCEPT ![p] =
             [cands |-> Allowed(p) \ Excluded(p), mode |-> ModeOf(p),
              interval |-> settings.interval[cid[p]]]]
        => plan'[p].cands = Allowed(p) \ Excluded(p)
    OBVIOUS
  <2>. QED BY <1>4, <2>2, <2>3, <2>4 DEF Plan
<1>5. CASE Pick(p)
  <2>1. /\ pc[p] = "pick" /\ ch[p] \in Channel /\ ch[p].status = Enabled
        /\ Serviceable(ch[p]) \subseteq seen[p].some /\ UNCHANGED seen
        /\ plan[p].cands \subseteq EnabledKeyIndexes(ch[p]) /\ resp[p].kind = "pending"
    BY <1>5 DEF Pick, ControlOK, SeenOK
  <2>2. \A i \in Idx : Script(p, i) => i \in EnabledKeyIndexes(ch[p])
    BY <2>1, PicksCandidate DEF Script
  <2>3. CASE \E kind \in {"degraded", "internal"} : Answer(p, kind)
    BY <2>3, Refused DEF Kinds
  <2>4. CASE \E i \in Idx : Script(p, i) /\ AnswerKey(p, i, ch[p])
    BY <2>1, <2>2, <2>4, Answered
  <2>5. CASE \E i \in Idx : /\ Script(p, i)
                            /\ resp' = [resp EXCEPT ![p].idx = i]
                            /\ Goto(p, "lease")
                            /\ UNCHANGED <<at, ch, plan>>
    BY <2>1, <2>2, <2>5 DEF SeenOK, Served, Goto, SelectTypeOK, AnswerType
  <2>. QED BY <1>5, <2>3, <2>4, <2>5 DEF Pick
<1>6. CASE LeaseSet(p)
  <2>1. /\ ch[p] \in Channel /\ ch[p].status = Enabled /\ UNCHANGED seen
        /\ Serviceable(ch[p]) \subseteq seen[p].some
        /\ resp[p].idx \in EnabledKeyIndexes(ch[p])
    BY <1>6 DEF LeaseSet, ControlOK, SeenOK
  <2>2. CASE Answer(p, "internal")
    BY <2>2, Refused DEF Kinds
  <2>3. CASE AnswerKey(p, resp[p].idx, ch[p])
    BY <2>1, <2>3, Answered
  <2>. QED BY <1>6, <2>2, <2>3 DEF LeaseSet
<1>. QED BY <1>1, <1>2, <1>3, <1>4, <1>5, <1>6 DEF Step

\* What changes meanwhile adds to what calls have seen (write-through, new-api).
LEMMA MeanwhileSees ==
  ASSUME TypeInv, NEW p \in Proc, SeenOK(p), Environment
  PROVE  SeenOK(p)'
<1>1. CASE Tick \/ SettingsChange \/ RedisComes \/ \E q \in Proc : Report(q)
  BY <1>1 DEF Tick, SettingsChange, RedisComes, Report, SeenOK, Served, reqVars, dbVars
<1>2. ASSUME NEW rows, Write(rows) PROVE SeenOK(p)'
  <2>1. /\ UNCHANGED reqVars /\ row' = rows
        /\ pc[p] \notin {"idle", "abilities", "done"} =>
             seen'[p].some = seen[p].some \cup Serviceable(rows[cid[p]])
        /\ pc[p] \in {"idle", "abilities", "done"} => seen'[p] = seen[p]
    BY <1>2 DEF Write
  <2>2. seen[p].some \subseteq seen'[p].some
    BY <2>1
  <2>. QED BY <2>1, <2>2 DEF SeenOK, Served, reqVars
<1>3. CASE KeyStatus \/ EditKeys
  BY <1>2, <1>3 DEF KeyStatus, EditKeys
<1>. QED BY <1>1, <1>3 DEF Environment

\* A key that is answered could be served while the call was under way: its
\* channel and it were enabled, in the list whose epoch is answered.  So a key
\* disabled before a call arrives is never answered, however the call's steps
\* interleave with write-throughs, edits and option changes (selector.go:224,
\* write-through without a cache).
THEOREM ServesTheServiceable == Spec => []ServedWasServiceable
<1>. DEFINE Inv == \A p \in Proc : SeenOK(p)
<1>1. Init => Inv
  BY DEF Init, SeenOK, Served, NoAnswer
<1>2. TypeInv /\ Inv /\ [Next]_vars => Inv'
  <2>. SUFFICES ASSUME TypeInv, Inv, [Next]_vars, NEW q \in Proc PROVE SeenOK(q)'
    OBVIOUS
  <2>1. ASSUME NEW p \in Proc, Arrive(p) \/ Step(p) PROVE SeenOK(q)'
    <3>1. CASE q = p
      BY <2>1, <3>1, StepSees
    <3>2. CASE q # p
      BY <2>1, <3>2, OwnStep DEF SeenOK, Served
    <3>. QED BY <3>1, <3>2
  <2>2. CASE Environment
    BY <2>2, MeanwhileSees
  <2>3. CASE UNCHANGED vars
    BY <2>3 DEF SeenOK, Served, vars, reqVars, dbVars
  <2>. QED BY <2>1, <2>2, <2>3 DEF Next, Exhausted
<1>3. Inv => ServedWasServiceable
  BY DEF SeenOK, ServedWasServiceable
<1>. QED BY <1>1, <1>2, <1>3, TypesHold, PTL DEF Spec

-----------------------------------------------------------------------------
(* Turns and decays.                                                       *)

\* Only the script moves cursors and decays counters (select_key.lua).
LEMMA OnlyScript ==
  ASSUME TypeInv, [Next]_vars
  PROVE  \/ UNCHANGED <<cursor, lastDecay, picks, decays>>
         \/ \E p \in Proc, i \in Idx : pc[p] = "pick" /\ Script(p, i)
<1>. USE DEF luaVars
<1>1. ASSUME NEW p \in Proc, Arrive(p) \/ Step(p)
      PROVE  \/ UNCHANGED <<cursor, lastDecay, picks, decays>>
             \/ \E i \in Idx : pc[p] = "pick" /\ Script(p, i)
  <2>1. CASE Arrive(p)
    BY <2>1 DEF Arrive
  <2>2. CASE Abilities(p)
    BY <2>2 DEF Abilities
  <2>3. CASE Load(p)
    BY <2>3 DEF Load
  <2>4. CASE Plan(p)
    BY <2>4 DEF Plan
  <2>5. CASE Pick(p)
    BY <2>5 DEF Pick
  <2>6. CASE LeaseSet(p)
    BY <2>6 DEF LeaseSet
  <2>. QED BY <1>1, <2>1, <2>2, <2>3, <2>4, <2>5, <2>6 DEF Step
<1>2. CASE Environment
  BY <1>2 DEF Environment, Tick, KeyStatus, EditKeys, Write, SettingsChange, Report, RedisComes
<1>3. CASE UNCHANGED vars
  BY <1>3 DEF vars
<1>. QED BY <1>1, <1>2, <1>3 DEF Next, Exhausted

Polled == [cands : SUBSET Idx, idx : Idx]

\* The k-th pick of a channel took the candidate at place k.
PicksOK(c) ==
  /\ picks[c] \in Seq(Polled)
  /\ cursor[c] = Len(picks[c])
  /\ \A k \in DOMAIN picks[c] :
       /\ picks[c][k].cands # {}
       /\ picks[c][k].idx = Place(picks[c][k].cands, k)

\* A polling pick takes the next place; any other leaves places alone (INCR).
LEMMA ScriptPicks ==
  ASSUME TypeInv, NEW p \in Proc, NEW i \in Idx, pc[p] = "pick", Script(p, i),
         NEW c \in Chan, PicksOK(c), picks \in [Chan -> Seq(Polled)]
  PROVE  PicksOK(c)' /\ picks' \in [Chan -> Seq(Polled)]
<1>1. /\ cid[p] \in Chan /\ plan[p].cands \in SUBSET Idx /\ plan[p].cands # {}
      /\ cursor \in [Chan -> Nat] /\ i \in MayPick(p)
  BY DEF TypeInv, SelectTypeOK, ControlOK, Script
<1>2. CASE plan[p].mode # "polling"
  BY <1>2 DEF Script, Advances, PicksOK
<1>3. CASE plan[p].mode = "polling"
  <2>. DEFINE rec == [cands |-> plan[p].cands, idx |-> i]
  <2>1. rec \in Polled
    BY <1>1 DEF Polled
  <2>2. i = Place(plan[p].cands, cursor[cid[p]] + 1)
    BY <1>1, <1>3 DEF MayPick
  <2>3. /\ picks' = [picks EXCEPT ![cid[p]] = Append(@, rec)]
        /\ cursor' = [cursor EXCEPT ![cid[p]] = @ + 1]
    BY <1>3 DEF Script, Advances
  <2>4. rec.cands # {} /\ rec.idx = Place(rec.cands, cursor[cid[p]] + 1)
    BY <1>1, <2>2
  <2>. HIDE DEF rec
  <2>5. picks' \in [Chan -> Seq(Polled)]
    BY <1>1, <2>1, <2>3
  <2>6. CASE c # cid[p]
    BY <2>3, <2>5, <2>6 DEF PicksOK
  <2>7. CASE c = cid[p]
    <3>1. /\ picks'[c] = Append(picks[c], rec) /\ cursor'[c] = cursor[c] + 1
          /\ picks[c] \in Seq(Polled)
      BY <1>1, <2>3, <2>7
    <3>2. /\ Len(picks'[c]) = Len(picks[c]) + 1
          /\ DOMAIN picks'[c] = 1 .. Len(picks[c]) + 1
          /\ \A k \in 1 .. Len(picks[c]) : picks'[c][k] = picks[c][k]
          /\ picks'[c][Len(picks[c]) + 1] = rec
      BY <2>1, <3>1
    <3>3. cursor[c] = Len(picks[c]) /\ DOMAIN picks[c] = 1 .. Len(picks[c]) /\ Len(picks[c]) \in Nat
      BY <3>1 DEF PicksOK
    <3>4. ASSUME NEW k \in DOMAIN picks'[c]
          PROVE  /\ picks'[c][k].cands # {}
                 /\ picks'[c][k].idx = Place(picks'[c][k].cands, k)
      <4>1. CASE k = Len(picks[c]) + 1
        BY <2>4, <2>7, <3>2, <3>3, <4>1
      <4>2. CASE k \in 1 .. Len(picks[c])
        BY <3>2, <3>3, <4>2 DEF PicksOK
      <4>. QED BY <3>2, <3>3, <4>1, <4>2
    <3>. QED BY <2>5, <3>1, <3>2, <3>3, <3>4 DEF PicksOK
  <2>. QED BY <2>5, <2>6, <2>7
<1>. QED BY <1>2, <1>3

\* Polling goes round: as many picks in a row as there are candidates take
\* each candidate once, whichever calls and replicas they come from and
\* whatever probes, other modes, decays and lost replies lie between
\* (select_key.lua:46, INCR and modulo in one script).
THEOREM PollingGoesRound == Spec => []RoundRobin
<1>. DEFINE Inv == picks \in [Chan -> Seq(Polled)] /\ \A c \in Chan : PicksOK(c)
<1>1. Init => Inv
  BY DEF Init, PicksOK
<1>2. TypeInv /\ Inv /\ [Next]_vars => Inv'
  <2>. SUFFICES ASSUME TypeInv, Inv, [Next]_vars PROVE Inv'
    OBVIOUS
  <2>1. CASE UNCHANGED <<cursor, lastDecay, picks, decays>>
    BY <2>1 DEF PicksOK
  <2>2. ASSUME NEW p \in Proc, NEW i \in Idx, pc[p] = "pick" /\ Script(p, i) PROVE Inv'
    <3>1. cid[p] \in Chan
      BY <2>2 DEF TypeInv, ControlOK
    <3>. QED BY <2>2, <3>1, ScriptPicks
  <2>. QED BY <2>1, <2>2, OnlyScript
<1>3. Inv => RoundRobin
  <2>. SUFFICES ASSUME Inv, NEW c \in Chan, NEW m \in DOMAIN picks[c], NEW n \in DOMAIN picks[c],
                       m < n, n - m < Cardinality(picks[c][m].cands),
                       \A k \in m .. n : picks[c][k].cands = picks[c][m].cands,
                       picks[c][m].idx = picks[c][n].idx
       PROVE  FALSE
    BY DEF RoundRobin
  <2>. DEFINE C == picks[c][m].cands
  <2>1. picks[c] \in Seq(Polled) /\ m \in Nat /\ n \in Nat /\ n \in m .. n
    BY DEF PicksOK
  <2>a. picks[c][m] \in Polled
    BY <2>1
  <2>b. C # {}
    BY DEF PicksOK
  <2>2. C \in SUBSET Idx /\ C # {} /\ picks[c][n].cands = C
    BY <2>1, <2>a, <2>b DEF Polled
  <2>3. Place(C, m) = Place(C, n)
    BY <2>2 DEF PicksOK
  <2>. HIDE DEF C
  <2>4. m % Cardinality(C) = n % Cardinality(C)
    BY <2>1, <2>2, <2>3, PlaceTaken
  <2>5. Cardinality(C) \in Nat \ {0}
    BY <2>2, FiniteIdx
  <2>. QED BY <2>1, <2>4, <2>5, Remainders DEF C
<1>. QED BY <1>1, <1>2, <1>3, TypesHold, PTL DEF Spec

\* last_decay is the last moment a channel's counters were decayed, and every
\* decay came more than an interval after the one before.
DecaysOK(c) ==
  /\ decays[c] \in Seq(Nat)
  /\ lastDecay[c] = IF decays[c] = <<>> THEN 0 ELSE decays[c][Len(decays[c])]
  /\ \A n \in DOMAIN decays[c] :
       \E s \in Snapshots :
         decays[c][n] - (IF n = 1 THEN 0 ELSE decays[c][n - 1]) > s.interval[c]

\* A script that decays does so after an interval (the comparison of now with
\* last_decay).
LEMMA ScriptDecays ==
  ASSUME TypeInv, NEW p \in Proc, NEW i \in Idx, pc[p] = "pick", Script(p, i),
         NEW c \in Chan, DecaysOK(c), decays \in [Chan -> Seq(Nat)]
  PROVE  DecaysOK(c)' /\ decays' \in [Chan -> Seq(Nat)]
<1>1. /\ cid[p] \in Chan /\ at[p] \in Nat /\ lastDecay \in [Chan -> 0 .. MaxNow]
      /\ Decay(p)
  BY SelectAssumption DEF TypeInv, SelectTypeOK, ControlOK, Script
<1>2. CASE ~ Due(p)
  BY <1>1, <1>2 DEF Decay, DecaysOK
<1>3. CASE Due(p)
  <2>1. PICK s \in Snapshots : plan[p].interval = s.interval[cid[p]]
    BY DEF TypeInv, ControlOK
  <2>2. at[p] - lastDecay[cid[p]] > s.interval[cid[p]]
    BY <1>3, <2>1 DEF Due
  <2>3. /\ decays' = [decays EXCEPT ![cid[p]] = Append(@, at[p])]
        /\ lastDecay' = [lastDecay EXCEPT ![cid[p]] = at[p]]
    BY <1>1, <1>3 DEF Decay
  <2>4. decays' \in [Chan -> Seq(Nat)]
    BY <1>1, <2>3
  <2>5. CASE c # cid[p]
    BY <1>1, <2>3, <2>4, <2>5 DEF DecaysOK
  <2>6. CASE c = cid[p]
    <3>1. /\ decays'[c] = Append(decays[c], at[p]) /\ lastDecay'[c] = at[p]
          /\ decays[c] \in Seq(Nat)
      BY <1>1, <2>3, <2>6
    <3>2. /\ Len(decays[c]) \in Nat /\ DOMAIN decays[c] = 1 .. Len(decays[c])
          /\ Len(decays'[c]) = Len(decays[c]) + 1
          /\ DOMAIN decays'[c] = 1 .. Len(decays[c]) + 1
          /\ \A k \in 1 .. Len(decays[c]) : decays'[c][k] = decays[c][k]
          /\ decays'[c][Len(decays[c]) + 1] = at[p]
          /\ decays'[c] # <<>>
          /\ decays[c] = <<>> <=> Len(decays[c]) = 0
      <4>1. at[p] \in Nat
        BY <1>1
      <4>2. decays[c] = <<>> <=> Len(decays[c]) = 0
        BY ONLY <3>1
      <4>3. decays'[c] # <<>>
        BY ONLY <3>1, <4>1
      <4>. QED BY ONLY <3>1, <4>1, <4>2, <4>3
    <3>3. lastDecay'[c] = IF decays'[c] = <<>> THEN 0 ELSE decays'[c][Len(decays'[c])]
      BY <3>1, <3>2
    <3>4. ASSUME NEW n \in DOMAIN decays'[c]
          PROVE  \E t \in Snapshots :
                   decays'[c][n] - (IF n = 1 THEN 0 ELSE decays'[c][n - 1]) > t.interval[c]
      <4>1. CASE n = Len(decays[c]) + 1
        <5>1. lastDecay[c] = IF n = 1 THEN 0 ELSE decays'[c][n - 1]
          BY <3>2, <4>1 DEF DecaysOK
        <5>2. decays'[c][n] = at[p]
          BY <3>2, <4>1
        <5>. QED BY <2>2, <2>6, <5>1, <5>2
      <4>2. CASE n \in 1 .. Len(decays[c])
        <5>1. PICK t \in Snapshots :
                decays[c][n] - (IF n = 1 THEN 0 ELSE decays[c][n - 1]) > t.interval[c]
          BY <3>2, <4>2 DEF DecaysOK
        <5>2. decays'[c][n] = decays[c][n] /\ (n # 1 => decays'[c][n - 1] = decays[c][n - 1])
          BY <3>2, <4>2
        <5>3. (IF n = 1 THEN 0 ELSE decays'[c][n - 1]) = IF n = 1 THEN 0 ELSE decays[c][n - 1]
          BY <5>2
        <5>. QED BY <5>1, <5>2, <5>3
      <4>. QED BY <3>2, <4>1, <4>2
    <3>. QED BY <2>4, <3>1, <3>3, <3>4 DEF DecaysOK
  <2>. QED BY <2>4, <2>5, <2>6
<1>. QED BY <1>2, <1>3

\* However many replicas call with clocks read long before, the counters of a
\* channel are decayed once per interval, in the order of the clocks, and
\* last_decay never goes back (select_key.lua:25).
THEOREM DecayIsPaced == Spec => []DecayedOncePerInterval
<1>. DEFINE Inv == decays \in [Chan -> Seq(Nat)] /\ \A c \in Chan : DecaysOK(c)
<1>1. Init => Inv
  BY DEF Init, DecaysOK
<1>2. TypeInv /\ Inv /\ [Next]_vars => Inv'
  <2>. SUFFICES ASSUME TypeInv, Inv, [Next]_vars PROVE Inv'
    OBVIOUS
  <2>1. CASE UNCHANGED <<cursor, lastDecay, picks, decays>>
    BY <2>1 DEF DecaysOK
  <2>2. ASSUME NEW p \in Proc, NEW i \in Idx, pc[p] = "pick" /\ Script(p, i) PROVE Inv'
    <3>1. cid[p] \in Chan
      BY <2>2 DEF TypeInv, ControlOK
    <3>. QED BY <2>2, <3>1, ScriptDecays
  <2>. QED BY <2>1, <2>2, OnlyScript
<1>3. Inv => DecayedOncePerInterval
  BY DEF DecaysOK, DecayedOncePerInterval
<1>. QED BY <1>1, <1>2, <1>3, TypesHold, PTL DEF Spec

-----------------------------------------------------------------------------
(* Refusals.                                                               *)

\* The indexes of a key list start at 0 and leave none out (GetKeys).
LEMMA KeyInterval ==
  ASSUME NEW c \in Channel
  PROVE  \E m \in 0 .. MaxKeys : KeyIndexes(c) = 0 .. m - 1 /\ Cardinality(KeyIndexes(c)) = m
<1>1. PICK m \in 0 .. MaxKeys : c.keys \in [0 .. m - 1 -> Key]
  BY RowAssumption DEF Channel
<1>2. KeyIndexes(c) = 0 .. m - 1 /\ m \in Nat
  BY <1>1 DEF KeyIndexes
<1>. QED BY ONLY <1>2, FS_Interval

\* Under the snapshot's rotation no key is left only if none is enabled
\* (selector.candidates).
LEMMA AllowedComplete ==
  ASSUME TypeInv, NEW p \in Proc, pc[p] = "plan", Allowed(p) = {}
  PROVE  EnabledKeyIndexes(ch[p]) = {}
<1>. DEFINE r == settings.rotation[cid[p]]
            E == EnabledKeyIndexes(ch[p])
<1>1. /\ ch[p] \in Channel /\ cid[p] \in Chan /\ settings \in Snapshots /\ at[p] \in Nat
  BY SelectAssumption DEF TypeInv, ControlOK, SelectTypeOK
<1>2. r \in CfgType \cup {NoCfg}
  BY <1>1, SelectAssumption DEF SnapshotType
<1>3. PICK m \in 0 .. MaxKeys : KeyIndexes(ch[p]) = 0 .. m - 1 /\ Cardinality(KeyIndexes(ch[p])) = m
  BY ONLY <1>1, KeyInterval
<1>4. E \subseteq 0 .. m - 1 /\ Candidates(r, m, E, at[p]) = {}
  BY <1>1, <1>3, RowKeys DEF Allowed
<1>. HIDE DEF r, E
<1>5. CASE ~ HasRotation(r) \/ m = 0
  BY ONLY <1>4, <1>5 DEF Candidates, E
<1>6. CASE HasRotation(r) /\ m # 0
  <2>1. r \in CfgType /\ m \in Nat \ {0} /\ m \in 1 .. MaxKeys
    BY ONLY <1>2, <1>6, RowAssumption DEF HasRotation
  <2>2. Turning(r, m, E)
    BY <1>4, <1>6, <2>1, SelectAssumption DEF Turning
  <2>. QED BY ONLY <1>1, <1>4, <2>2, CandidatesFound DEF E
<1>. QED BY <1>5, <1>6

\* What could be served throughout a call so far lies in the row before the
\* load, in the copy after it; and who was refused excluded all of it.
AllOK(p) ==
  /\ pc[p] = "load" => seen[p].all \subseteq Serviceable(row[cid[p]])
  /\ pc[p] = "plan" => seen[p].all \subseteq Serviceable(ch[p])
  /\ /\ resp[p].kind = "nokey" /\ req[p].direct = -1
     /\ Rotates(cid[p]) => Excluded(p) = {}
     => \A x \in seen[p].all : x[1] \in Excluded(p)

\* What a call excludes does not change while it is under way (Select).
LEMMA ExcludedKept ==
  ASSUME NEW p \in Proc, req'[p] = req[p], cid'[p] = cid[p]
  PROVE  Excluded(p)' = Excluded(p)
BY DEF Excluded

\* An answer other than "nokey" promises nothing.
LEMMA OtherAnswer ==
  ASSUME TypeInv, NEW p \in Proc, resp'[p].kind # "nokey",
         pc'[p] \notin {"load", "plan"}
  PROVE  AllOK(p)'
BY DEF AllOK

\* What Answer answers.
LEMMA AnswerKind ==
  ASSUME TypeInv, NEW p \in Proc
  PROVE  /\ \A kind : Answer(p, kind) => resp'[p].kind = kind /\ pc'[p] = "done"
         /\ \A i, c : AnswerKey(p, i, c) => resp'[p].kind = "key" /\ pc'[p] = "done"
BY DEF TypeInv, SelectTypeOK, Answer, AnswerKey, AnswerType, End, Goto

\* A call that finds its channel disabled, or no candidate, is refused rightly
\* (Select, steps 1 to 3).
LEMMA StepAll ==
  ASSUME TypeInv, NEW p \in Proc, AllOK(p), Arrive(p) \/ Step(p)
  PROVE  AllOK(p)'
<1>0. UNCHANGED row
  BY OwnStep
<1>1. CASE Arrive(p)
  <2>1. resp'[p].kind # "nokey"
    BY <1>1 DEF Arrive, TypeInv, ControlOK
  <2>2. \/ pc'[p] = "abilities"
        \/ pc'[p] = "load" /\ Serviceable(row[cid'[p]]) = seen'[p].all
    BY <1>1 DEF Arrive, Watch, Goto, TypeInv, SelectTypeOK
  <2>. QED BY <1>0, <2>1, <2>2 DEF AllOK
<1>2. CASE Abilities(p)
  <2>1. CASE \E kind \in {"dependency", "nochannel"} : Answer(p, kind)
    BY <2>1, AnswerKind, OtherAnswer
  <2>2. CASE \E c \in Tier(Offered, req[p].retry) :
               /\ cid' = [cid EXCEPT ![p] = c]
               /\ Watch(p, row[c])
               /\ Goto(p, "load")
               /\ UNCHANGED <<at, ch, plan, resp>>
    <3>1. /\ pc'[p] = "load" /\ Serviceable(row[cid'[p]]) = seen'[p].all
          /\ UNCHANGED resp
      BY <2>2 DEF Watch, Goto, TypeInv, SelectTypeOK
    <3>2. resp[p].kind = "pending"
      BY <1>2 DEF Abilities, TypeInv, ControlOK
    <3>. QED BY <1>0, <3>1, <3>2 DEF AllOK
  <2>. QED BY <1>2, <2>1, <2>2 DEF Abilities
<1>3. CASE Load(p)
  <2>. DEFINE c == row[cid[p]]
              i == req[p].direct
  <2>1. /\ seen[p].all \subseteq Serviceable(c) /\ UNCHANGED <<req, cid, seen>>
        /\ resp[p].kind = "pending"
    BY <1>3 DEF Load, TypeInv, ControlOK, AllOK
  <2>. HIDE DEF c
  <2>2. CASE \E kind \in {"dependency", "nochannel", "invalid"} : Answer(p, kind)
    BY <2>2, AnswerKind, OtherAnswer
  <2>3. CASE c.status # Enabled /\ Answer(p, "nokey")
    <3>1. seen'[p].all = {} /\ pc'[p] = "done"
      BY <2>1, <2>3, AnswerKind DEF Serviceable
    <3>. QED BY <3>1 DEF AllOK
  <2>4. CASE i >= 0 /\ Answer(p, "nokey")
    <3>1. req'[p].direct # -1 /\ pc'[p] = "done"
      BY <2>1, <2>4, AnswerKind
    <3>. QED BY <3>1 DEF AllOK
  <2>5. CASE AnswerKey(p, i, c)
    BY <2>5, AnswerKind, OtherAnswer
  <2>6. CASE ch' = [ch EXCEPT ![p] = c] /\ Goto(p, "plan") /\ UNCHANGED resp
    <3>1. pc'[p] = "plan" /\ ch'[p] = c /\ resp'[p].kind = "pending"
      BY <2>1, <2>6 DEF Goto, TypeInv, SelectTypeOK
    <3>. QED BY <2>1, <3>1 DEF AllOK
  <2>. QED BY <1>3, <2>2, <2>3, <2>4, <2>5, <2>6 DEF Load, c
<1>4. CASE Plan(p)
  <2>1. /\ seen[p].all \subseteq Serviceable(ch[p]) /\ UNCHANGED <<req, cid, seen>>
        /\ resp[p].kind = "pending" /\ pc[p] = "plan"
        /\ ch[p] \in Channel /\ cid[p] \in Chan /\ settings \in Snapshots
    BY <1>4 DEF Plan, TypeInv, ControlOK, SelectTypeOK, AllOK
  <2>2. CASE Answer(p, "nokey") /\ Allowed(p) \ Excluded(p) = {}
    <3>1. ASSUME Rotates(cid[p]) => Excluded(p) = {}
          PROVE  EnabledKeyIndexes(ch[p]) \subseteq Excluded(p)
      <4>1. CASE HasRotation(settings.rotation[cid[p]])
        <5>1. Allowed(p) = {}
          BY <2>1, <2>2, <3>1, <4>1 DEF Rotates
        <5>. QED BY <2>1, <5>1, AllowedComplete
      <4>2. CASE ~ HasRotation(settings.rotation[cid[p]])
        BY <2>2, <4>2 DEF Allowed, Candidates
      <4>. QED BY <4>1, <4>2
    <3>2. \A x \in Serviceable(ch[p]) : x[1] \in EnabledKeyIndexes(ch[p])
      BY DEF Serviceable
    <3>3. pc'[p] = "done" /\ Excluded(p)' = Excluded(p)
      BY <2>1, <2>2, AnswerKind, ExcludedKept
    <3>. QED BY <2>1, <3>1, <3>2, <3>3 DEF AllOK
  <2>3. CASE Goto(p, "pick") /\ UNCHANGED resp
    BY <2>1, <2>3, OtherAnswer DEF Goto, TypeInv, SelectTypeOK
  <2>. QED BY <1>4, <2>2, <2>3 DEF Plan
<1>5. CASE Pick(p)
  <2>1. resp[p].kind = "pending"
    BY <1>5 DEF Pick, TypeInv, ControlOK
  <2>2. CASE \E kind \in {"degraded", "internal"} : Answer(p, kind)
    BY <2>2, AnswerKind, OtherAnswer
  <2>3. CASE \E i \in Idx : AnswerKey(p, i, ch[p])
    BY <2>3, AnswerKind, OtherAnswer
  <2>4. CASE (\E i \in Idx : resp' = [resp EXCEPT ![p].idx = i]) /\ Goto(p, "lease")
    <3>1. resp'[p].kind = "pending" /\ pc'[p] = "lease"
      BY <2>1, <2>4 DEF Goto, TypeInv, SelectTypeOK, AnswerType
    <3>. QED BY <3>1, OtherAnswer
  <2>. QED BY <1>5, <2>2, <2>3, <2>4 DEF Pick
<1>6. CASE LeaseSet(p)
  BY <1>6, AnswerKind, OtherAnswer DEF LeaseSet
<1>. QED BY <1>1, <1>2, <1>3, <1>4, <1>5, <1>6 DEF Step

\* What changes meanwhile can only take keys from those served throughout.
LEMMA MeanwhileAll ==
  ASSUME TypeInv, NEW p \in Proc, AllOK(p), Environment
  PROVE  AllOK(p)'
<1>1. CASE Tick \/ SettingsChange \/ RedisComes \/ \E q \in Proc : Report(q)
  <2>1. UNCHANGED <<pc, req, cid, ch, resp, row, seen>>
    BY <1>1 DEF Tick, SettingsChange, RedisComes, Report, reqVars, dbVars
  <2>. QED BY <2>1, ExcludedKept DEF AllOK
<1>2. ASSUME NEW rows, Write(rows) PROVE AllOK(p)'
  <2>1. /\ UNCHANGED <<pc, req, cid, ch, resp>> /\ row' = rows
        /\ pc[p] \notin {"idle", "abilities", "done"} =>
             seen'[p].all = seen[p].all \cap Serviceable(rows[cid[p]])
        /\ pc[p] \in {"idle", "abilities", "done"} => seen'[p] = seen[p]
    BY <1>2 DEF Write, reqVars
  <2>2. pc[p] # "done" => resp'[p].kind = "pending"
    BY <2>1 DEF TypeInv, ControlOK
  <2>. QED BY <2>1, <2>2, ExcludedKept DEF AllOK
<1>3. CASE KeyStatus \/ EditKeys
  BY <1>2, <1>3 DEF KeyStatus, EditKeys
<1>. QED BY <1>1, <1>3 DEF Environment

\* A call that is told there is no key had none, among those it did not exclude,
\* that could be served from the choice of its channel to its answer: however
\* write-throughs, edits of the key list and new options fall between its
\* steps, and whatever rotation does, the answer is not an accident of the
\* batches (selector.candidates, SPEC 4).
THEOREM RefusedForWant == Spec => []NoKeyMeansNone
<1>. DEFINE Inv == \A p \in Proc : AllOK(p)
<1>1. Init => Inv
  BY DEF Init, AllOK, NoAnswer
<1>2. TypeInv /\ Inv /\ [Next]_vars => Inv'
  <2>. SUFFICES ASSUME TypeInv, Inv, [Next]_vars, NEW q \in Proc PROVE AllOK(q)'
    OBVIOUS
  <2>1. ASSUME NEW p \in Proc, Arrive(p) \/ Step(p) PROVE AllOK(q)'
    <3>1. CASE q = p
      BY <2>1, <3>1, StepAll
    <3>2. CASE q # p
      <4>1. req'[q] = req[q]
        BY <2>1, <3>2 DEF Arrive, Step, Abilities, Load, Plan, Pick, LeaseSet, TypeInv, SelectTypeOK
      <4>. QED BY <2>1, <3>2, <4>1, OwnStep, ExcludedKept DEF AllOK
    <3>. QED BY <3>1, <3>2
  <2>2. CASE Environment
    BY <2>2, MeanwhileAll
  <2>3. CASE UNCHANGED vars
    <3>1. UNCHANGED <<pc, req, cid, ch, resp, row, seen>>
      BY <2>3 DEF vars, reqVars, dbVars
    <3>. QED BY <3>1, ExcludedKept DEF AllOK
  <2>. QED BY <2>1, <2>2, <2>3 DEF Next, Exhausted
<1>3. Inv => NoKeyMeansNone
  BY DEF AllOK, NoKeyMeansNone
<1>. QED BY <1>1, <1>2, <1>3, TypesHold, PTL DEF Spec

-----------------------------------------------------------------------------
(* Retries.                                                                *)

\* The database sorts NULL beside zero: no offered priority lies between.
NullsBesideZeros ==
  \A c, d \in Chan : Priority[c] = Null /\ Priority[d] # Null =>
    IF NullsFirst THEN Priority[d] <= 0 ELSE Priority[d] >= 0

\* Pairing with zero keeps the size of a set.
LEMMA SameSize ==
  ASSUME NEW S, IsFiniteSet(S), NEW T, T = {<<q, 0>> : q \in S}
  PROVE  Cardinality(T) = Cardinality(S)
<1>. DEFINE f == [q \in S |-> <<q, 0>>]
<1>1. f \in [S -> T] /\ \A q \in S : f[q] = <<q, 0>>
  OBVIOUS
<1>2. \A q, r \in S : f[q] = f[r] => q = r
  BY <1>1
<1>3. \A t \in T : \E q \in S : f[q] = t
  BY <1>1
<1>. HIDE DEF f
<1>4. f \in Injection(S, T) /\ f \in Surjection(S, T)
  BY ONLY <1>1, <1>2, <1>3 DEF Injection, IsInjective, Surjection
<1>5. ExistsBijection(S, T)
  BY ONLY <1>4 DEF ExistsBijection, Bijection
<1>. QED BY <1>5, FS_Bijection

\* The priorities of finitely many channels are finitely many integers.
LEMMA PrioritiesFinite ==
  ASSUME NEW C \in SUBSET Chan
  PROVE  LET all == {PriorityOf(c) : c \in C}
         IN  /\ all \subseteq Int /\ IsFiniteSet(all)
             /\ \A q \in Int : IsFiniteSet({r \in all : r > q})
<1>. DEFINE all == {PriorityOf(c) : c \in C}
            f == [c \in C |-> PriorityOf(c)]
<1>1. IsFiniteSet(C)
  BY SelectAssumption, FS_Subset
<1>2. \A c \in Chan : PriorityOf(c) \in Int
  BY SelectAssumption DEF PriorityOf
<1>3. f \in Surjection(C, all)
  BY DEF Surjection
<1>4. all \subseteq Int
  BY <1>2
<1>. HIDE DEF f, all
<1>5. IsFiniteSet(all)
  BY ONLY <1>1, <1>3, FS_Surjection
<1>6. ASSUME NEW q \in Int PROVE IsFiniteSet({r \in all : r > q})
  <2>1. {r \in all : r > q} \in SUBSET all
    OBVIOUS
  <2>. QED BY ONLY <1>5, <2>1, FS_Subset
<1>. QED BY ONLY <1>4, <1>5, <1>6 DEF all

\* Then the tiers are the distinct priorities (priorityTiers).
LEMMA TiersArePriorities ==
  ASSUME NullsBesideZeros, NEW C \in SUBSET Chan, NEW c \in C
  PROVE  TierOf(C, c) = <<PriorityOf(c), 0>> /\ PriorityOf(c) \in Int
<1>1. PriorityOf(c) \in Int
  BY SelectAssumption DEF PriorityOf
<1>2. ~ (Priority[c] = Null /\ Apart(C))
  <2>1. SUFFICES ASSUME Priority[c] = Null, NEW d \in C, Priority[d] # Null,
                        IF NullsFirst THEN Priority[d] > 0 ELSE Priority[d] < 0
                 PROVE  FALSE
    BY DEF Apart
  <2>2. Priority[d] \in Int
    BY <2>1, SelectAssumption
  <2>3. IF NullsFirst THEN Priority[d] <= 0 ELSE Priority[d] >= 0
    BY <2>1 DEF NullsBesideZeros
  <2>. QED BY ONLY <2>1, <2>2, <2>3
<1>. QED BY ONLY <1>1, <1>2 DEF TierOf

\* The tier taken has as many priorities above it as the retry says
\* (tierForRetry).
LEMMA TierRank ==
  ASSUME NullsBesideZeros, NEW C \in SUBSET Chan, NEW retry \in Int, NEW c \in Tier(C, retry)
  PROVE  LET all    == {PriorityOf(d) : d \in C}
             higher == {q \in all : q > PriorityOf(c)}
         IN  Cardinality(higher) = CASE retry < 0 -> 0
                                     [] retry >= Cardinality(all) -> Cardinality(all) - 1
                                     [] OTHER -> retry
<1>. DEFINE all == {PriorityOf(d) : d \in C}
            higher == {q \in all : q > PriorityOf(c)}
            tiers == {TierOf(C, d) : d \in C}
            above == {s \in tiers : Above(s, TierOf(C, c))}
<1>1. c \in C /\ Cardinality(above) = CASE retry < 0 -> 0
                                         [] retry >= Cardinality(tiers) -> Cardinality(tiers) - 1
                                         [] OTHER -> retry
  BY DEF Tier
<1>2. \A d \in C : TierOf(C, d) = <<PriorityOf(d), 0>> /\ PriorityOf(d) \in Int
  BY TiersArePriorities
<1>3. tiers = {<<q, 0>> : q \in all}
  BY ONLY <1>2
<1>4. all \subseteq Int /\ IsFiniteSet(all) /\ IsFiniteSet(higher)
  BY ONLY <1>1, <1>2, PrioritiesFinite
<1>5. above = {<<q, 0>> : q \in higher}
  <2>1. TierOf(C, c) = <<PriorityOf(c), 0>> /\ PriorityOf(c) \in Int
    BY <1>1, <1>2
  <2>2. \A q \in all : Above(<<q, 0>>, TierOf(C, c)) <=> q > PriorityOf(c)
    BY ONLY <1>4, <2>1 DEF Above
  <2>. HIDE DEF all, tiers
  <2>. QED BY ONLY <1>3, <2>2
<1>. HIDE DEF all, higher, tiers, above
<1>6. Cardinality(tiers) = Cardinality(all) /\ Cardinality(above) = Cardinality(higher)
  BY ONLY <1>3, <1>4, <1>5, SameSize
<1>. QED BY ONLY <1>1, <1>6 DEF all, higher

\* Each retry of a call goes down to the next lower of the distinct priorities
\* the enabled channels have at that moment, and stays at the lowest; provided the
\* database sorts NULL beside zero, which it does unless some priority lies
\* between them (selector/batch.go, priorityTiers and tierForRetry).
THEOREM RetriesDescend == NullsBesideZeros /\ Spec => RetryGoesDown
<1>. DEFINE Down ==
       \A p \in Proc : pc[p] = "abilities" /\ pc'[p] = "load" =>
         LET all    == {PriorityOf(c) : c \in Offered}
             higher == {q \in all : q > PriorityOf(cid'[p])}
         IN  Cardinality(higher) =
               CASE req[p].retry < 0 -> 0
                 [] req[p].retry >= Cardinality(all) -> Cardinality(all) - 1
                 [] OTHER -> req[p].retry
<1>. SUFFICES ASSUME NullsBesideZeros PROVE Spec => RetryGoesDown
  OBVIOUS
<1>1. TypeInv /\ [Next]_vars => [Down]_vars
  <2>. SUFFICES ASSUME TypeInv, Next, NEW p \in Proc,
                       pc[p] = "abilities", pc'[p] = "load"
                PROVE  /\ req[p].retry \in Int
                       /\ \E c \in Tier(Offered, req[p].retry) : cid'[p] = c
    <3>1. Offered \in SUBSET Chan
      BY DEF Offered
    <3>. QED BY <3>1, TierRank
  <2>1. Abilities(p)
    <3>1. ASSUME NEW q \in Proc, Arrive(q) \/ Step(q) PROVE Abilities(p)
      <4>1. q = p
        BY <3>1, OwnStep
      <4>. QED BY <3>1, <4>1 DEF Arrive, Step, Load, Plan, Pick, LeaseSet
    <3>2. ~ UNCHANGED pc
      OBVIOUS
    <3>3. ~ Environment /\ ~ Exhausted
      BY <3>2 DEF Environment, Tick, KeyStatus, EditKeys, Write, SettingsChange, Report,
                  RedisComes, Exhausted, reqVars, vars
    <3>. QED BY <3>1, <3>3 DEF Next
  <2>2. ~ \E kind \in {"dependency", "nochannel"} : Answer(p, kind)
    BY AnswerKind
  <2>3. PICK c \in Tier(Offered, req[p].retry) : cid' = [cid EXCEPT ![p] = c]
    BY <2>1, <2>2 DEF Abilities
  <2>4. cid'[p] = c
    BY <2>3 DEF TypeInv, SelectTypeOK
  <2>5. req[p].retry \in Int
    BY SelectAssumption DEF TypeInv, SelectTypeOK, CallType
  <2>. QED BY <2>3, <2>4, <2>5
<1>. QED BY <1>1, TypesHold, PTL DEF Spec, RetryGoesDown
=============================================================================
