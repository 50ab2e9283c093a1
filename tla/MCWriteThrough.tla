--------------------------- MODULE MCWriteThrough ---------------------------
(***************************************************************************)
(* Small instances of WriteThrough: calls that compete for one channel.    *)
(***************************************************************************)
EXTENDS WriteThrough, TLC

CONSTANTS k1, k2, e1, e2, t1, t2, f1

MCKey   == {k1, k2}
MCEpoch == {e1, e2}
MCTx    == {t1, t2}
MCField == {f1}

ListAB == 0 :> k1 @@ 1 :> k2
ListA  == 0 :> k1
MCKeyLists    == {ListAB, ListA}
MCFingerprint == ListAB :> e1 @@ ListA :> e2

Row(multi, ks, s) ==
  [keys |-> ListAB, multi |-> multi, autoBan |-> TRUE, ks |-> ks,
   status |-> s, abil |-> s = Enabled]
\* One of two keys is alive, or none, and a plain channel.
MCRows ==
  {Row(TRUE, 0 :> AutoDisabled @@ 1 :> Enabled, Enabled),
   Row(TRUE, 0 :> AutoDisabled @@ 1 :> ManuallyDisabled, AutoDisabled),
   Row(FALSE, 0 :> Enabled @@ 1 :> Enabled, Enabled)}
MCInfos == {{NoObject}, {f1}}

\* Both keys can be the last to go, or the one to come back; index 1 is not
\* there on a plain channel, nor once new-api has shortened the list.
MCCalls ==
  {[idx |-> 0, to |-> Enabled], [idx |-> 0, to |-> AutoDisabled],
   [idx |-> 1, to |-> AutoDisabled]}

=============================================================================
