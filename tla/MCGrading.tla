------------------------------- MODULE MCGrading -------------------------------
(* Two submissions, so that a run of the first may reach into the second. *)
EXTENDS Grading
=============================================================================
