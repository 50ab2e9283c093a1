----------------------------- MODULE MCKeyState -----------------------------
(***************************************************************************)
(* Small instances of KeyState.  Each set of requests is one question: the *)
(* callers and the operator who compete for a channel, and what they send. *)
(***************************************************************************)
EXTENDS KeyState, TLC

CONSTANTS k1, k2, k3, e1, e2, e3, i1, i2, l1, l2, p1, p2, p3

MCKey   == {k1, k2, k3}
MCEpoch == {e1, e2, e3}
MCProc2 == {p1, p2}
MCProc3 == {p1, p2, p3}

\* Two keys, the same two in the other order, and one key.
ListAB == 0 :> k1 @@ 1 :> k2
ListBA == 0 :> k2 @@ 1 :> k1
ListA  == 0 :> k1
MCKeyLists    == {ListAB, ListBA, ListA}
MCTwoLists    == {ListAB, ListA}
MCFingerprint == ListAB :> e1 @@ ListBA :> e2 @@ ListA :> e3
MCTwoFingerprints == ListAB :> e1 @@ ListA :> e2

Words == {"quota"}
Codes == {200, 401}

\* The snapshot that disables on 401 and on "quota", and enables on success.
On  == [autoDisable |-> TRUE, autoEnable |-> TRUE, codes |-> {401},
        words |-> {"quota"}, metric |-> "tokens"]
\* The snapshot with both switches off, which charges by cost.
Off == [On EXCEPT !.autoDisable = FALSE, !.autoEnable = FALSE, !.metric = "cost"]
MCOn    == {On}
MCOnOff == {On, Off}

Row(multi, ks, s) ==
  [keys |-> ListAB, multi |-> multi, autoBan |-> TRUE, ks |-> ks,
   status |-> s, abil |-> s = Enabled]
BothOn   == 0 :> Enabled @@ 1 :> Enabled
FirstOff == 0 :> AutoDisabled @@ 1 :> Enabled
BothOff  == 0 :> AutoDisabled @@ 1 :> AutoDisabled

MCRows ==
  {Row(TRUE, BothOn, Enabled), Row(TRUE, FirstOff, Enabled),
   Row(TRUE, BothOff, AutoDisabled),
   Row(FALSE, BothOn, Enabled), Row(FALSE, BothOn, AutoDisabled)}
MCFirstOff  == {Row(TRUE, FirstOff, Enabled)}
MCBothOn    == {Row(TRUE, BothOn, Enabled)}

Report(i, success) ==
  [op |-> "report", ki |-> i, key |-> NoKey, epoch |-> NoEpoch,
   success |-> success, code |-> IF success THEN 200 ELSE 401, words |-> {},
   usage |-> NoUsage, lease |-> NoLease, idem |-> NoIdem, status |-> Enabled]
Set(i, s) ==
  [Report(i, TRUE) EXCEPT !.op = "set", !.status = s]
Use(n, c) == [tokens |-> n, cost |-> c]

\* Reports and orders on both keys: who writes last, on what evidence.
RaceRequests ==
  {Report(0, TRUE), Report(0, FALSE),
   [Report(1, FALSE) EXCEPT !.code = 200, !.words = Words],
   Set(0, ManuallyDisabled), Set(0, Enabled)}

\* Retries of a call with usage and a lease, callers who name their key by its
\* string or its index, with an epoch, and an operator.
RetryRequests ==
  {[Report(0, FALSE) EXCEPT !.idem = i1, !.epoch = e1, !.usage = Use(3, 0), !.lease = l1],
   [Report(-1, FALSE) EXCEPT !.key = k1, !.epoch = e2, !.idem = i1],
   [Report(1, TRUE) EXCEPT !.key = k2, !.usage = Use(2, 5)],
   Set(1, ManuallyDisabled)}

\* One call with everything, one order.
LiveRequests ==
  {[Report(0, FALSE) EXCEPT !.idem = i1, !.usage = Use(3, 0), !.lease = l1],
   Set(0, ManuallyDisabled)}

\* Two tries of one call that carries usage, no lease.
UsageRetries == {[Report(0, TRUE) EXCEPT !.idem = i1, !.usage = Use(3, 0)], Report(1, TRUE)}

\* One call whose lease may be gone.
LeasedReport == {[Report(0, TRUE) EXCEPT !.usage = Use(3, 0), !.lease = l1]}

MCLease    == {l1, l2}
MCNoLeases == {}
MCEst      == l1 :> 4 @@ l2 :> 1
NoEst      == <<>>
NoPreDebit == [i \in Idx |-> 0]
MCPreDebit == [i \in Idx |-> IF i = 0 THEN 5 ELSE 0]

SymmetricProcs2 == Permutations(MCProc2)
SymmetricProcs3 == Permutations(MCProc3)
=============================================================================
