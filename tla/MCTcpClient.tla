----------------------------- MODULE MCTcpClient -----------------------------
(* TLC instances of TcpClient. *)
EXTENDS TcpClient, TLC

Symmetry == Permutations(Threads)
=============================================================================
