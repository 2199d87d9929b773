------------------------------ MODULE ChainPools ------------------------------
(***************************************************************************)
(* The chain as a composition of connection pools: the steps that          *)
(* ChainReplication takes at hop i are steps of the TcpClient object of    *)
(* server i for server i+1, whose far end is the handler of server i+1.    *)
(***************************************************************************)
EXTENDS ChainReplication

(***************************************************************************)
(* The part of server i's state that is the pool of hop i, as a TcpClient. *)
(***************************************************************************)
PoolPC(c, i) ==
  IF sock[c][i] # None THEN IF at[c] = i THEN "send" ELSE "recv"
  ELSE IF at[c] = i /\ pc[c] \in {"check", "init", "build", "len", "pop"} THEN pc[c]
  ELSE "idle"

HopTodo(c, i) == IF at[c] = i THEN todo[c] ELSE 0

\* Server i+1 has done with the request of setter c.
Done(c, i) == at[c] = i + 1 /\ pc[c] \in {"answer", "raised", "hung"}

\* The request of c is still with server i+1 or beyond; its reply is on the way.
Pending(c, i) == at[c] > i /\ ~Done(c, i)
Replied(c, i) == at[c] = i + 1 /\ pc[c] = "answer"

\* Of the setters that use a socket never more than one is concerned.
Stream(S) == IF S = {} THEN <<>> ELSE <<CHOOSE c \in S : TRUE>>

Sent(i) == [s \in Socks |-> Stream({c \in Setters : sock[c][i] = s /\ Pending(c, i)})]
Back(i) == [s \in Socks |-> Stream({c \in Setters : sock[c][i] = s /\ Replied(c, i)})]

TC(i) == INSTANCE TcpClient
  WITH Threads  <- Setters, list <- list[i], state <- state[i],
       requests <- Sent(i), replies <- Back(i),
       pc       <- [c \in Setters |-> PoolPC(c, i)],
       todo     <- [c \in Setters |-> HopTodo(c, i)],
       sock     <- [c \in Setters |-> sock[c][i]]

(***************************************************************************)
(* Every hop of the chain behaves as a TcpClient, so what holds of every   *)
(* TcpClient (exclusive sockets, replies that match, no exhaustion after   *)
(* the build) holds between every two servers.                             *)
(***************************************************************************)
HopsAreTcpClients ==
  /\ \A i \in Hops : TC(i)!Init
  /\ [][\A i \in Hops : TC(i)!Next \/ UNCHANGED TC(i)!vars]_vars
=============================================================================
