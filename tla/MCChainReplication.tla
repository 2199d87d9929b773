------------------------- MODULE MCChainReplication -------------------------
(* TLC instances of ChainReplication. *)
EXTENDS ChainPools, TLC

Symmetry == Permutations(Setters) \cup Permutations(Values)
=============================================================================
