----------------------------- MODULE MCWordCount -----------------------------
(***************************************************************************)
(* A small instance of WordCount: one mapper with a file of two words and  *)
(* one whose stream is empty, for one reducer.                             *)
(***************************************************************************)
EXTENDS WordCount, TLC

MCHome   == [w \in {"a", "b"} |-> 3]
MCStream == <<<<<<"a", "b">>>>, <<>>>>
=============================================================================
