-------------------------------- MODULE Framing --------------------------------
(***************************************************************************)
(* One connection of lab3, byte by byte: the client end is a socket of a   *)
(* TcpClient (send), the server end the thread handle_client.  A message   *)
(* is sent as a header, its length, and that many bytes.  recv may return  *)
(* fewer bytes than were asked for, sendall may be cut short by the end of *)
(* its process, and either end may be closed at any time.                  *)
(*                                                                         *)
(* A byte is its place in a message.  Only what is local to a connection   *)
(* is modelled: that no two threads use one socket is TcpClient's concern. *)
(***************************************************************************)
EXTENDS Integers, Sequences, SequencesExt

CONSTANTS
  HeaderLen,   \* 8 in the program
  Sizes,       \* the lengths of bodies
  MaxCalls     \* bound on the calls of send

ASSUME FramingAssumption ==
  /\ HeaderLen \in Nat \ {0} /\ Sizes # {} /\ Sizes \subseteq Nat \ {0}
  /\ MaxCalls \in Nat

Ends    == {"client", "server"}
Peer(e) == IF e = "client" THEN "server" ELSE "client"

\* A request and its response carry the number of the call; what the server
\* answers to what is no request is numbered 0.
Messages == [call : 0 .. MaxCalls, len : Sizes]

VARIABLES
  open,   \* open[e]: has end e not been closed?
  reset,  \* reset[e]: has end e learnt that the connection is gone?
  out,    \* out[e]: bytes that sendall at e has not handed over yet
  wire,   \* wire[e]: bytes on their way to e
  part,   \* part[e]: the recvall that recv_message at e is in
  need,   \* need[e]: its n
  data,   \* data[e]: its data
  calls,  \* calls of send so far
  busy,   \* is the client in a call?
  sent,   \* sent[e]: the messages that were sent to e
  got     \* got[e]: the messages that recv_message returned at e

vars == <<open, reset, out, wire, part, need, data, calls, busy, sent, got>>

Init ==
  /\ open = [e \in Ends |-> TRUE]
  /\ reset = [e \in Ends |-> FALSE]
  /\ out = [e \in Ends |-> <<>>] /\ wire = [e \in Ends |-> <<>>]
  /\ part = [e \in Ends |-> "header"]
  /\ need = [e \in Ends |-> HeaderLen] /\ data = [e \in Ends |-> <<>>]
  /\ calls = 0 /\ busy = FALSE
  /\ sent = [e \in Ends |-> <<>>] /\ got = [e \in Ends |-> <<>>]

-----------------------------------------------------------------------------
(***************************************************************************)
(* JsonMessage.serialize, and what recv_message takes bytes for.           *)
(***************************************************************************)
HeaderOf(m)  == [i \in 1 .. HeaderLen |-> <<m, "header", i>>]
BodyOf(m)    == [i \in 1 .. m.len |-> <<m, "body", i>>]
Serialize(m) == HeaderOf(m) \o BodyOf(m)

\* Bytes that are no header or no body are taken for one that nobody sent.
Garbage    == [call |-> 0, len |-> 1]
LengthIn(d) == IF d = HeaderOf(d[1][1]) THEN d[1][1].len ELSE Garbage.len
MessageIn(d) == IF d = BodyOf(d[1][1]) THEN d[1][1] ELSE Garbage

\* Is the thread at e in recv_message?
Receiving(e) == open[e] /\ out[e] = <<>> /\ (e = "client" => busy)

\* e enters recv_message, or leaves it for good.
Fresh(e) ==
  /\ part' = [part EXCEPT ![e] = "header"]
  /\ need' = [need EXCEPT ![e] = HeaderLen]
  /\ data' = [data EXCEPT ![e] = <<>>]

\* sendall(m.serialize()) begins at e.
SendAll(e, m) ==
  /\ out' = [out EXCEPT ![e] = Serialize(m)]
  /\ sent' = [sent EXCEPT ![Peer(e)] = Append(@, m)]

-----------------------------------------------------------------------------
\* The client calls send.
Call ==
  /\ open["client"] /\ ~busy /\ calls < MaxCalls
  /\ calls' = calls + 1 /\ busy' = TRUE
  /\ \E n \in Sizes : SendAll("client", [call |-> calls + 1, len |-> n])
  /\ Fresh("client")
  /\ UNCHANGED <<open, reset, wire, got>>

\* The kernel takes the next bytes of a sendall.  Those sent to an end that is
\* closed are answered by a reset.
HandOver(e) ==
  /\ open[e] /\ out[e] # <<>> /\ ~reset[e]
  /\ \E n \in 1 .. Len(out[e]) :
       /\ out' = [out EXCEPT ![e] = SubSeq(@, n + 1, Len(@))]
       /\ IF open[Peer(e)]
          THEN /\ wire' = [wire EXCEPT ![Peer(e)] = @ \o SubSeq(out[e], 1, n)]
               /\ UNCHANGED reset
          ELSE /\ reset' = [reset EXCEPT ![e] = TRUE]
               /\ UNCHANGED wire
  /\ UNCHANGED <<open, part, need, data, calls, busy, sent, got>>

-----------------------------------------------------------------------------
(***************************************************************************)
(* One sock.recv(n - len(data)) in recvall, and what follows it up to the  *)
(* next recv: header complete, the body is read; body complete, the        *)
(* message is returned.                                                    *)
(***************************************************************************)

\* recvall is not done yet.
More(e, d) ==
  /\ Len(d) < need[e]
  /\ data' = [data EXCEPT ![e] = d]
  /\ UNCHANGED <<open, out, part, need, busy, sent, got>>

\* Mutant of ToBody: recvall reads once.
BugReadOnce(e, d) ==
  /\ part[e] = "header"
  /\ part' = [part EXCEPT ![e] = "body"]
  /\ need' = [need EXCEPT ![e] = LengthIn(d)]
  /\ data' = [data EXCEPT ![e] = <<>>]
  /\ UNCHANGED <<open, out, busy, sent, got>>

\* The header is complete.
ToBody(e, d) ==
  /\ Len(d) >= need[e] /\ part[e] = "header"
  /\ part' = [part EXCEPT ![e] = "body"]
  /\ need' = [need EXCEPT ![e] = LengthIn(d)]
  /\ data' = [data EXCEPT ![e] = <<>>]
  /\ UNCHANGED <<open, out, busy, sent, got>>

\* The client has its response: send returns it.
Return(d) ==
  /\ busy' = FALSE
  /\ UNCHANGED <<open, out, sent>>

\* Mutant of Process: an exception is answered with an error message.
BugProcess(d) ==
  /\ \E n \in Sizes : \E c \in {0, MessageIn(d).call} :
       SendAll("server", [call |-> c, len |-> n])
  /\ UNCHANGED <<open, busy>>

\* The server has a request: it answers, or _process_req returns None and the
\* handler reads on, or _process_req raises and the handler closes the socket.
Process(d) ==
  /\ \/ \E n \in Sizes : SendAll("server", [call |-> MessageIn(d).call, len |-> n])
        /\ UNCHANGED open
     \/ UNCHANGED <<open, out, sent>>
     \/ open' = [open EXCEPT !["server"] = FALSE] /\ UNCHANGED <<out, sent>>
  /\ UNCHANGED busy

\* The body is complete.
Message(e, d) ==
  /\ Len(d) >= need[e] /\ part[e] = "body"
  /\ got' = [got EXCEPT ![e] = Append(@, MessageIn(d))]
  /\ IF e = "client" THEN Return(d) ELSE Process(d)
  /\ Fresh(e)

Recv(e) ==
  /\ Receiving(e)
  /\ \E n \in 1 .. need[e] - Len(data[e]) :
       /\ n <= Len(wire[e])
       /\ wire' = [wire EXCEPT ![e] = SubSeq(@, n + 1, Len(@))]
       /\ LET d == data[e] \o SubSeq(wire[e], 1, n)
          IN More(e, d) \/ ToBody(e, d) \/ Message(e, d)
  /\ UNCHANGED <<reset, calls>>

-----------------------------------------------------------------------------
\* Mutant of Eof: recvall does not look whether the packet is empty.
BugEof(e) ==
  /\ Receiving(e) /\ wire[e] = <<>> /\ ~open[Peer(e)] /\ ~reset[e]
  /\ UNCHANGED vars

\* The client's call returns: the status, or None where recv_message raised.
NoResponse == busy' = FALSE /\ UNCHANGED <<open, out, sent>>

\* Instead of a header: the server answers with an error message and reads on.
HeaderMissing ==
  /\ part["server"] = "header"
  /\ \E n \in Sizes : SendAll("server", [call |-> 0, len |-> n])
  /\ UNCHANGED <<open, busy>>

\* Instead of (the rest of) a body: recv_message raises, since it logs data,
\* which is None, with an argument; the handler closes its socket.
BodyMissing ==
  /\ part["server"] = "body"
  /\ open' = [open EXCEPT !["server"] = FALSE]
  /\ UNCHANGED <<out, busy, sent>>

\* recv returns b"".
Eof(e) ==
  /\ Receiving(e) /\ wire[e] = <<>> /\ ~open[Peer(e)] /\ ~reset[e]
  /\ Fresh(e)
  /\ IF e = "client" THEN NoResponse ELSE HeaderMissing \/ BodyMissing
  /\ UNCHANGED <<reset, wire, calls, got>>

\* Mutant of Raises: the handler catches the exception inside its loop.
BugRaises(e) ==
  /\ reset[e] /\ open[e] /\ (Receiving(e) \/ out[e] # <<>>)
  /\ out' = [out EXCEPT ![e] = <<>>]
  /\ Fresh(e)
  /\ busy' = (busy /\ e = "server")
  /\ UNCHANGED <<open, reset, wire, calls, sent, got>>

\* recv or sendall raises: the client returns the socket to its pool, the
\* server's handler closes its own.
Raises(e) ==
  /\ reset[e] /\ open[e] /\ (Receiving(e) \/ out[e] # <<>>)
  /\ out' = [out EXCEPT ![e] = <<>>]
  /\ Fresh(e)
  /\ IF e = "client"
     THEN busy' = FALSE /\ UNCHANGED open
     ELSE open' = [open EXCEPT ![e] = FALSE] /\ UNCHANGED busy
  /\ UNCHANGED <<reset, wire, calls, sent, got>>

(***************************************************************************)
(* The process of e ends (stop_all kills the servers), or the client's     *)
(* pool is closed (__del__).  What was handed over still arrives, unless e *)
(* had not read all it received: then the peer gets a reset.               *)
(***************************************************************************)
End(e) ==
  /\ open[e]
  /\ open' = [open EXCEPT ![e] = FALSE]
  /\ out' = [out EXCEPT ![e] = <<>>]
  /\ reset' = [reset EXCEPT ![Peer(e)] = @ \/ wire[e] # <<>>]
  /\ busy' = (busy /\ e = "server")
  /\ UNCHANGED <<wire, part, need, data, calls, sent, got>>

EndStep(e) == HandOver(e) \/ Recv(e) \/ Eof(e) \/ Raises(e)

Next == Call \/ \E e \in Ends : EndStep(e) \/ End(e)

Spec == Init /\ [][Next]_vars

\* Both threads run and TCP delivers; nobody has to call or to end.
FairSpec == Spec /\ \A e \in Ends : WF_vars(EndStep(e))

-----------------------------------------------------------------------------

(***************************************************************************)
(* However the bytes are cut up by recv and sendall, and wherever the      *)
(* connection ends, each direction is a queue of whole messages.           *)
(***************************************************************************)
ToServer == INSTANCE MessageQueue WITH sent <- sent["server"], got <- got["server"]
ToClient == INSTANCE MessageQueue WITH sent <- sent["client"], got <- got["client"]

QueuesOfMessages == ToServer!Spec /\ ToClient!Spec

(***************************************************************************)
(* A call that returns a message returns the response to its own request:  *)
(* no byte of an earlier response is left when the socket goes back to the *)
(* pool, and no error message (number 0) is taken for a response.          *)
(***************************************************************************)
ReplyOfThisCall ==
  [][got'["client"] # got["client"] => Last(got'["client"]).call = calls]_vars

(***************************************************************************)
(* Every call returns, with a response or without, unless _process_req     *)
(* returned None for its request: then nothing is ever sent, and the       *)
(* client is left in recv for as long as the server lives.                 *)
(***************************************************************************)
Unanswered ==
  open["server"] /\ sent["server"] = got["server"] /\ sent["client"] = got["client"]

CallReturns == busy ~> (~busy \/ []Unanswered)

(***************************************************************************)
(* A handler whose client has gone ends too: at once where the stream ends *)
(* within a body, and where it ends between two messages by the reset that *)
(* its own error message draws, for it answers that end and reads on.      *)
(***************************************************************************)
HandlerEnds == ~open["client"] ~> ~open["server"]
=============================================================================
