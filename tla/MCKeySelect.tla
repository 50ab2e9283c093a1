---------------------------- MODULE MCKeySelect -----------------------------
(* Small instances of KeySelect; each set of calls is one question.        *)
EXTENDS KeySelect, TLC

CONSTANTS k1, k2, k3, e1, e2, e3, c1, c2, p1, p2, p3, p4

MCKey   == {k1, k2, k3}
MCEpoch == {e1, e2, e3}
MCProc1 == {p1}
MCProc2 == {p1, p2}
MCProc4 == {p1, p2, p3, p4}

ListABC == 0 :> k1 @@ 1 :> k2 @@ 2 :> k3
ListAB  == 0 :> k1 @@ 1 :> k2
ListC   == 0 :> k3
MCKeyLists    == {ListABC, ListAB, ListC}
ShortLists    == {ListAB, ListC}
MCFingerprint == [l \in KeyLists |-> CASE l = ListABC -> e1 [] l = ListAB -> e2 [] l = ListC -> e3]

MCShuffle == [n \in 1 .. 3 |-> [i \in 0 .. n - 1 |-> n - 1 - i]]

On(list) ==
  [keys |-> list, multi |-> TRUE, autoBan |-> TRUE,
   ks |-> [i \in Idx |-> Enabled], status |-> Enabled, abil |-> TRUE]
LastOff(list) ==
  [On(list) EXCEPT !.ks[0] = AutoDisabled]

One == {c1}
Two == {c1, c2}

OneRow     == {c1 :> On(ListABC)}
TwoRows    == {c1 :> On(ListAB) @@ c2 :> On(ListC),
               c1 :> LastOff(ListAB) @@ c2 :> NoChannel}

Default ==
  [chan |-> c1, direct |-> -1, retry |-> 0, exclude |-> {}, mode |-> "default",
   est |-> 0, advance |-> TRUE]
ByModel == [Default EXCEPT !.chan = NoChan]

\* By channel, by model, at either end of the retries, by index, with exclusions
\* on either channel, and in every mode.
ServeCalls ==
  {[Default EXCEPT !.exclude = {<<c1, 0>>, <<c2, 1>>}],
   [ByModel EXCEPT !.retry = 1, !.mode = "random"],
   [ByModel EXCEPT !.retry = -1],
   [Default EXCEPT !.direct = 1],
   [Default EXCEPT !.mode = "usage", !.est = 1]}

\* Calls and probes with the same estimate, by polling or by the counters,
\* whichever the options say.
Estimated   == [Default EXCEPT !.est = 8]
SpreadCalls == {Estimated, [Estimated EXCEPT !.advance = FALSE]}

ProbeCalls  == {Default}

Plain(C)  == [usage |-> {}, rotation |-> [c \in C |-> NoCfg], interval |-> [c \in C |-> 1]]
ByUsage(C, i) == [Plain(C) EXCEPT !.usage = C, !.interval = [c \in C |-> i]]
Banded(C) == [c \in C |-> [seconds |-> 1, active |-> 1, overlap |-> 0, order |-> "index"]]
Switching == {Plain(Two), [ByUsage(Two, 1) EXCEPT !.rotation = Banded({c1}) @@ @]}

PlainOne  == {Plain(One)}
SpreadOne == {Plain(One), ByUsage(One, 1)}

PollingOne == c1 :> "polling"
MixedTwo == c1 :> "polling" @@ c2 :> "random"

ZeroOne  == c1 :> 0
HighLow  == c1 :> 5 @@ c2 :> 0

SymmetricProcs == Permutations(Proc)
=============================================================================
