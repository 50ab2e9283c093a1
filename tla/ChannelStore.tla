---------------------------- MODULE ChannelStore ----------------------------
(***************************************************************************)
(* What Store.ApplyKeyStatus promises its callers: a call changes the      *)
(* channel, its abilities and its other_info at one moment, on the row of  *)
(* that moment, and answers with what it left behind; a call that fails    *)
(* changed nothing, unless its connection was lost at the very end.        *)
(* new-api writes the same row at any moment.                              *)
(***************************************************************************)
EXTENDS ChannelWrite

CONSTANT LostAnswers  \* connections and replicas may be lost

VARIABLES
  row, info,
  call,    \* what each call asks for
  phase,   \* "open", "applied", "ok" or "failed"
  answer

vars == <<row, info, call, phase, answer>>

-----------------------------------------------------------------------------

Apply(t) ==
  /\ phase[t] = "open"
  /\ phase' = [phase EXCEPT ![t] = "applied"]
  /\ CanApply(row, call[t].idx)
  /\ row' = ApplyKeyStatus(row, call[t].idx, call[t].to)
  /\ info' = InfoAfter(row, info, call[t].idx, call[t].to)
  /\ answer' = [answer EXCEPT ![t] = AnswerFor(row', call[t].to)]
  /\ UNCHANGED call

Succeed(t) ==
  /\ phase[t] = "applied"
  /\ phase' = [phase EXCEPT ![t] = "ok"]
  /\ UNCHANGED <<row, info, call, answer>>

Fail(t) ==
  /\ phase[t] = "open" \/ (phase[t] = "applied" /\ LostAnswers)
  /\ phase' = [phase EXCEPT ![t] = "failed"]
  /\ answer' = [answer EXCEPT ![t] = NoAnswer]
  /\ UNCHANGED <<row, info, call>>

NewApi ==
  /\ row # NoChannel
  /\ row' \in Edits(row)
  /\ \E f \in SUBSET Field : info' = IF f = {} THEN info ELSE Fields(info) \cup f
  /\ UNCHANGED <<call, phase, answer>>

Init ==
  /\ row \in Channel
  /\ info \in Info
  /\ call \in [Tx -> Call]
  /\ phase = [t \in Tx |-> "open"]
  /\ answer = [t \in Tx |-> NoAnswer]

Next == NewApi \/ \E t \in Tx : Apply(t) \/ Succeed(t) \/ Fail(t)

Spec == Init /\ [][Next]_vars
=============================================================================
