----------------------------- MODULE MessageQueue -----------------------------
(***************************************************************************)
(* What the framing of lab3 (core/message.py, core/socket_helpers.py)      *)
(* promises of one direction of a connection: whole messages arrive, in    *)
(* the order in which they were sent, none twice and none that was not     *)
(* sent.  The last ones may never arrive.                                  *)
(***************************************************************************)
EXTENDS Naturals, Sequences

CONSTANT Messages

VARIABLES sent, got

Init == sent = <<>> /\ got = <<>>

Send == /\ \E m \in Messages : sent' = Append(sent, m)
        /\ UNCHANGED got

Receive == /\ Len(got) < Len(sent)
           /\ got' = Append(got, sent[Len(got) + 1])
           /\ UNCHANGED sent

Next == Send \/ Receive

Spec == Init /\ [][Next]_<<sent, got>>
=============================================================================
