---------------------------- MODULE ChannelWrite ----------------------------
(***************************************************************************)
(* The data of a write to a channel: other_info beside the row, what a     *)
(* call of ApplyKeyStatus asks for and answers, and what new-api may make  *)
(* of the row meanwhile.  No state.                                        *)
(***************************************************************************)
EXTENDS ChannelRow

CONSTANTS
  Tx,          \* calls of ApplyKeyStatus
  Field,       \* fields of other_info that keypool does not know
  NoObject,    \* marks an other_info that is empty or no JSON object
  NoAnswer

StatusField == "status_reason"  \* stands for status_time too

Info == (SUBSET (Field \cup {StatusField})) \cup {{NoObject}}

Call   == [idx : Idx, to : Status]
Answer == [status : Status, allDead : BOOLEAN]

ASSUME StoreAssumption ==
  /\ StatusField \notin Field
  /\ NoObject \notin Field \cup {StatusField}
  /\ NoAnswer \notin Answer

-----------------------------------------------------------------------------

\* The fields known and unknown are kept; what is no object counts as empty.
Fields(o) == o \ {NoObject}

\* Mutant: other_info is replaced.
MergeOtherInfo_Replace(o) == {StatusField}

MergeOtherInfo(o) == Fields(o) \cup {StatusField}

\* A channel that goes down with this call, or a plain one disabled, says why.
InfoAfter(c, o, i, s) ==
  IF AllDead(ApplyKeyStatus(c, i, s), s) THEN MergeOtherInfo(o) ELSE o

AnswerFor(n, s) == [status |-> n.status, allDead |-> AllDead(n, s)]

\* What new-api may make of the row and of its other_info.
Edits(c) ==
  {[c EXCEPT !.ks = m] : m \in [Idx -> Status]}
    \cup {[c EXCEPT !.keys = l] : l \in KeyLists}
    \cup {[c EXCEPT !.status = s, !.abil = s = Enabled] : s \in Status}
    \cup {NoChannel}
=============================================================================
