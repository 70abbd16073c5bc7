------------------------------- MODULE MCDemo -------------------------------
(***************************************************************************)
(* An instance of Demo for TLC: the addresses of src/conf/netfilter.conf.  *)
(***************************************************************************)
EXTENDS Demo

A == <<10, 108, 166, 130>>
B == <<10, 108, 167, 101>>

AText == <<"1", "0", ".", "1", "0", "8", ".", "1", "6", "6", ".", "1", "3", "0">>
BText == <<"1", "0", ".", "1", "0", "8", ".", "1", "6", "7", ".", "1", "0", "1">>

MCRoutes == {[saddr |-> A, daddr |-> B]}

Loopback == <<127, 0, 0, 1>>
MCAddresses == {A, B, Loopback}

LoopbackText == <<"1", "2", "7", ".", "0", ".", "0", ".", "1">>

\* As configured, and as in src/conf/data.txt.
MCConfs == {[sourceip |-> AText, targetip |-> BText],
            [sourceip |-> LoopbackText, targetip |-> LoopbackText]}
=============================================================================
