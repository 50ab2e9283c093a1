--------------------------- MODULE ChannelLifecycle ---------------------------
(***************************************************************************)
(* What state.Manager promises of a channel to those who route to it and   *)
(* to its operator, without requests, locks, transactions or messages:     *)
(* every key is in one of three states, the channel serves only while some *)
(* key does, and a key is enabled only on an operator's order, each order  *)
(* being carried out at most once, or out of automatic disablement.        *)
(***************************************************************************)
CONSTANTS
  KeyIndex,  \* the indexes a key list may have
  Order      \* the operator's orders

VARIABLES
  st,        \* the state of each key: 1 enabled, 2 by hand, 3 automatically
  serving,   \* the channel and its abilities are enabled
  orders     \* the orders carried out

vars == <<st, serving, orders>>

Keys == DOMAIN st

Alive(f) == \E k \in DOMAIN f : f[k] = 1

Init ==
  /\ \E D \in SUBSET KeyIndex : st \in [D -> {1, 2, 3}]
  /\ serving \in BOOLEAN
  /\ orders = {}

\* Disabling the last enabled key stops the channel, any other leaves it.
Block(k, s) ==
  /\ st' = [st EXCEPT ![k] = s]
  /\ serving' = (serving /\ Alive(st'))

Unblock(k) ==
  /\ st' = [st EXCEPT ![k] = 1]
  /\ serving' = TRUE

AutoDisable == \E k \in Keys : Block(k, 3) /\ UNCHANGED orders

AutoEnable == \E k \in Keys : st[k] = 3 /\ Unblock(k) /\ UNCHANGED orders

Obey(o) ==
  /\ o \notin orders
  /\ orders' = orders \cup {o}
  /\ \E k \in Keys : Block(k, 2) \/ Unblock(k)

Next == AutoDisable \/ AutoEnable \/ \E o \in Order : Obey(o)

Spec == Init /\ [][Next]_vars
=============================================================================
