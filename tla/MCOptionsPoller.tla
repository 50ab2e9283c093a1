-------------------------- MODULE MCOptionsPoller ---------------------------
(* Small instances of OptionsPoller.                                       *)
EXTENDS OptionsPoller, TLC

CONSTANTS h1, v1, v2

\* The two options that differ most in a refresh: keywords, which keep their
\* value when they are gone, and a configuration, which keeps it when its text
\* does not parse.
TwoOptions == {"AutomaticDisableKeywords", "keypool.rotation"}
MCKind == [o \in Option |-> IF o = "AutomaticDisableKeywords" THEN "words" ELSE "config"]

OneHandler  == {h1}
MCVal  == {v1, v2}
OneVal == {v1}
=============================================================================
