---------------------------- MODULE MCClusterStart ----------------------------
(* Three servers, connected as the tests connect theirs and incompletely. *)
EXTENDS ClusterStart, TLC

Complete == [s \in Servers |-> Servers \ {s}]
Pair     == (1 :> {2}) @@ (2 :> {1})
Star     == 1 :> {2, 3}             \* servers that are only destinations
OneWay   == (1 :> {2}) @@ (2 :> {3}) @@ (3 :> {1})
Loops    == [s \in Servers |-> Servers]
Topologies == {Complete, Pair, Star, OneWay, Loops}
=============================================================================
