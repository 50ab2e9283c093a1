-------------------------- MODULE MCRotationClock ---------------------------
(* Small instances of RotationClock.                                       *)
EXTENDS RotationClock, TLC

\* A shuffle that splits neighbours: 0 1 2 3 4 becomes 2 4 1 3 0.
MCShuffle ==
  1 :> (0 :> 0) @@
  2 :> (0 :> 1 @@ 1 :> 0) @@
  3 :> (0 :> 2 @@ 1 :> 0 @@ 2 :> 1) @@
  4 :> (0 :> 2 @@ 1 :> 0 @@ 2 :> 3 @@ 3 :> 1) @@
  5 :> (0 :> 2 @@ 1 :> 4 @@ 2 :> 1 @@ 3 :> 3 @@ 4 :> 0)

Cfg(s, a, o, ord) == [seconds |-> s, active |-> a, overlap |-> o, order |-> ord]

\* Batches of one and two keys, with and without overlap, in both orders, an
\* overlap longer than a round, options written by hand that turn rotation
\* off or bear a negative overlap, and none.
MCCfgs ==
  {Cfg(2, a, o, ord) : a \in {1, 2}, o \in {0, 1}, ord \in {"index", "shuffle"}}
    \cup {Cfg(2, 2, 9, "index"), Cfg(3, 2, -1, "shuffle"), Cfg(2, 9, 1, "index"),
          Cfg(0, 1, 0, "index"), Cfg(2, 0, 0, "index"), NoCfg}
=============================================================================
