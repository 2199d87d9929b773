------------------------------- MODULE MCFraming -------------------------------
(***************************************************************************)
(* A small instance of Framing: headers of three bytes, bodies of one or   *)
(* two bytes, so that every cut of a message into pieces occurs.           *)
(***************************************************************************)
EXTENDS Framing
=============================================================================
