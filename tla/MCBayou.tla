------------------------------- MODULE MCBayou -------------------------------
(***************************************************************************)
(* Small instances of Bayou: as in tests/test_client.py two servers with a *)
(* client each, or three servers.                                          *)
(***************************************************************************)
EXTENDS Bayou, TLC

CONSTANTS k1, k2

TwoServers == (k1 :> 1) @@ (k2 :> 2)
AtSlaves   == (k1 :> 2) @@ (k2 :> 3)
=============================================================================
