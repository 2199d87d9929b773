--------------------------- MODULE ChainReplication ---------------------------
(***************************************************************************)
(* The chain-replicated key-value store of lab3: N servers in a chain      *)
(* (cr/cr_server.py), the connection pool between each server and the next *)
(* (core/network.py), one handler thread per connection (core/server.py)   *)
(* and clients that SET at the head and GET at the tail (cr/cr_cluster.py).*)
(*                                                                         *)
(* Everything blocks: a handler that forwards a SET waits for the answer   *)
(* of the next server.  A call of client c is therefore at one place, the  *)
(* server at[c] whose handler thread runs, and the handlers of the servers *)
(* before it wait in recv_message, each holding the socket sock[c][i] of   *)
(* the pool of its server i.  Hop i is the TcpClient object of server i    *)
(* for server i+1; its steps are those of module TcpClient.                *)
(***************************************************************************)
EXTENDS Naturals, Sequences, FiniteSets

CONSTANTS Setters, Getters,   \* client threads that call set / get
          Keys, Values, Unset,
          N,                  \* servers in the chain
          PoolSz,             \* sock_pool_sz of the pools between servers
          None

Clients == Setters \cup Getters
Servers == 1 .. N
Hops    == 1 .. (N - 1)
Socks   == Setters \X (1 .. PoolSz)

ASSUME UnsetAssumption   == Unset \notin Values
ASSUME NAssumption       == N \in Nat /\ N >= 2
ASSUME PoolSzAssumption  == PoolSz \in Nat \ {0}
ASSUME SettersAssumption == IsFiniteSet(Setters)
ASSUME NoneAssumption    == None \notin Socks /\ None \notin Seq(Socks)

VARIABLES
  d,       \* d[i]: the dict of server i
  list,    \* list[i]: _client_sockets of hop i, None or the free sockets
  state,   \* state[i][s]: connection of socket s of hop i
  conn,    \* conn[c][o]: the client's own connection for operation o
  req,     \* req[c]: the request of the pending call of c, or NoReq
  pc,      \* pc[c]: the step the running handler (or the client) is at
  at,      \* at[c]: the server whose handler runs, 0 for the client itself
  todo,    \* todo[c]: sockets the running handler still has to connect
  sock,    \* sock[c][i]: client_socket in the send of hop i, or None
  rep,     \* rep[c]: the answer on its way back
  res      \* res[c]: what the last completed call of c returned

vars == <<d, list, state, conn, req, pc, at, todo, sock, rep, res>>
hops == <<list, state, todo, sock>>

KV == INSTANCE KVRegister
        WITH store <- d[N], op <- req, res <- res,
             ans <- [c \in Clients |-> IF pc[c] = "answer" THEN rep[c]
                                       ELSE [status |-> "Pending", val |-> Unset]]

Requests(c) ==
  {r \in KV!Requests : c \in (IF r.op = "SET" THEN Setters ELSE Getters)}

States == {"new", "up", "eof", "reset"}
PCs == {"idle", "call", "handle", "check", "init", "build", "len", "pop", "send",
        "answer", "raised", "hung", "crashed"}

Init ==
  /\ d     = [i \in Servers |-> [k \in Keys |-> Unset]]
  /\ list  = [i \in Hops |-> None]
  /\ state = [i \in Hops |-> [s \in Socks |-> "new"]]
  /\ conn  = [c \in Clients |-> [o \in {"SET", "GET"} |-> "up"]]
  /\ req   = [c \in Clients |-> KV!NoReq]
  /\ pc    = [c \in Clients |-> "idle"]
  /\ at    = [c \in Clients |-> 0]
  /\ todo  = [c \in Setters |-> 0]
  /\ sock  = [c \in Setters |-> [i \in Hops |-> None]]
  /\ rep   = [c \in Clients |-> KV!Pending]
  /\ res   = [c \in Clients |-> KV!Pending]

Goto(c, from, to) == pc[c] = from /\ pc' = [pc EXCEPT ![c] = to]

\* Mutant of Entry: every request goes to conns[0].
BugEntry(c) == 1

\* The server a request enters the chain at: conns[0] or conns[-1].
Entry(c) == IF req[c].op = "SET" THEN 1 ELSE N

-----------------------------------------------------------------------------
(* The client: CrClient.set and CrClient.get. *)

Call(c, r) ==
  /\ Goto(c, "idle", "call")
  /\ req' = [req EXCEPT ![c] = r]
  /\ UNCHANGED <<d, hops, conn, at, rep, res>>

\* The client's TcpClient has one socket.  While it is live the request
\* reaches the handler thread of the entry server.
ClientSend(c) ==
  /\ Goto(c, "call", "handle")
  /\ conn[c][req[c].op] = "up"
  /\ at' = [at EXCEPT ![c] = Entry(c)]
  /\ UNCHANGED <<d, hops, conn, req, rep, res>>

\* The server closed the connection in an earlier call: the send meets the
\* end of the stream and returns a message whose status is not "OK".
ClientSendEof(c) ==
  /\ Goto(c, "call", "answer")
  /\ conn[c][req[c].op] = "eof"
  /\ conn' = [conn EXCEPT ![c][req[c].op] = "reset"]
  /\ rep'  = [rep EXCEPT ![c] = KV!Err]
  /\ UNCHANGED <<d, hops, req, at, res>>

\* sendall raises, send returns None and "assert response is not None" ends
\* the client thread.
ClientSendReset(c) ==
  /\ Goto(c, "call", "crashed")
  /\ conn[c][req[c].op] = "reset"
  /\ UNCHANGED <<d, hops, conn, req, at, rep, res>>

\* The answer has reached the client.
Return(c) ==
  /\ Goto(c, "answer", "idle")
  /\ at[c] \in {0, Entry(c)}
  /\ res' = [res EXCEPT ![c] = rep[c]]
  /\ rep' = [rep EXCEPT ![c] = KV!Pending]
  /\ req' = [req EXCEPT ![c] = KV!NoReq]
  /\ at'  = [at EXCEPT ![c] = 0]
  /\ UNCHANGED <<d, hops, conn>>

-----------------------------------------------------------------------------
(* The handler thread of server at[c]: handle_client and _process_req. *)

\* An exception ends handle_client, which closes the socket the request
\* came in on: a client's, or one of the previous server's pool.
CloseUpstream(c) ==
  IF at[c] = Entry(c)
    THEN /\ conn' = [conn EXCEPT ![c][req[c].op] = "eof"]
         /\ UNCHANGED state
    ELSE /\ state' = [state EXCEPT ![at[c] - 1][sock[c][at[c] - 1]] = "eof"]
         /\ UNCHANGED conn

\* Mutant of SetForward: a key that is there is not overwritten.
BugSetAbsent(c) ==
  /\ Goto(c, "handle", "check")
  /\ req[c].op = "SET" /\ at[c] < N
  /\ d' = IF d[at[c]][req[c].key] = Unset
            THEN [d EXCEPT ![at[c]][req[c].key] = req[c].val] ELSE d
  /\ UNCHANGED <<hops, conn, req, at, rep, res>>

\* _set at a server that is not the tail: apply, then forward.
SetForward(c) ==
  /\ Goto(c, "handle", "check")
  /\ req[c].op = "SET" /\ at[c] < N
  /\ d' = [d EXCEPT ![at[c]][req[c].key] = req[c].val]
  /\ UNCHANGED <<hops, conn, req, at, rep, res>>

\* Mutant of SetTail: _set has no return statement, so nothing is sent.
BugSetTail(c) ==
  /\ Goto(c, "handle", "hung")
  /\ req[c].op = "SET" /\ at[c] = N
  /\ d' = [d EXCEPT ![N][req[c].key] = req[c].val]
  /\ UNCHANGED <<hops, conn, req, at, rep, res>>

\* _set at the tail.
SetTail(c) ==
  /\ Goto(c, "handle", "answer")
  /\ req[c].op = "SET" /\ at[c] = N
  /\ d' = [d EXCEPT ![N][req[c].key] = req[c].val]
  /\ rep' = [rep EXCEPT ![c] = KV!OK(Unset)]
  /\ UNCHANGED <<hops, conn, req, at, res>>

\* _get of a key in the dict.
Get(c) ==
  /\ Goto(c, "handle", "answer")
  /\ req[c].op = "GET"
  /\ d[at[c]][req[c].key] # Unset
  /\ rep' = [rep EXCEPT ![c] = KV!OK(d[at[c]][req[c].key])]
  /\ UNCHANGED <<d, hops, conn, req, at, res>>

\* _get of a key that was never set: self.d[req.key] raises KeyError.
GetKeyError(c) ==
  /\ Goto(c, "handle", "raised")
  /\ req[c].op = "GET"
  /\ d[at[c]][req[c].key] = Unset
  /\ CloseUpstream(c)
  /\ UNCHANGED <<d, list, todo, sock, req, at, rep, res>>

-----------------------------------------------------------------------------
(* ConnectionStub.send, TcpClient.send and get_sock in the handler of      *)
(* server at[c]: hop at[c].                                                *)

CheckNone(c) ==
  /\ Goto(c, "check", IF list[at[c]] = None THEN "init" ELSE "len")
  /\ UNCHANGED <<d, hops, conn, req, at, rep, res>>

InitList(c) ==
  /\ Goto(c, "init", "build")
  /\ list' = [list EXCEPT ![at[c]] = <<>>]
  /\ todo' = [todo EXCEPT ![c] = PoolSz]
  /\ UNCHANGED <<d, state, sock, conn, req, at, rep, res>>

\* Mutant of ConnectAppend: the loop runs once too often.
BugConnectAppend(c) ==
  LET i == at[c]
      s == <<c, todo[c]>>
  IN /\ Goto(c, "build", IF todo[c] = 0 THEN "len" ELSE "build")
     /\ list'  = [list EXCEPT ![i] = Append(list[i], s)]
     /\ state' = [state EXCEPT ![i][s] = "up"]
     /\ todo'  = [todo EXCEPT ![c] = todo[c] - 1]
     /\ UNCHANGED <<d, sock, conn, req, at, rep, res>>

ConnectAppend(c) ==
  LET i == at[c]
      s == <<c, todo[c]>>
  IN /\ Goto(c, "build", IF todo[c] = 1 THEN "len" ELSE "build")
     /\ list'  = [list EXCEPT ![i] = Append(list[i], s)]
     /\ state' = [state EXCEPT ![i][s] = "up"]
     /\ todo'  = [todo EXCEPT ![c] = todo[c] - 1]
     /\ UNCHANGED <<d, sock, conn, req, at, rep, res>>

LenCheck(c) ==
  /\ Goto(c, "len", "pop")
  /\ list[at[c]] # <<>>
  /\ UNCHANGED <<d, hops, conn, req, at, rep, res>>

Pop(c) ==
  LET i == at[c]
      n == Len(list[i])
  IN /\ Goto(c, "pop", "send")
     /\ n > 0
     /\ sock' = [sock EXCEPT ![c][i] = list[i][n]]
     /\ list' = [list EXCEPT ![i] = SubSeq(list[i], 1, n - 1)]
     /\ UNCHANGED <<d, state, todo, conn, req, at, rep, res>>

\* get_sock raises: the assertion, or the pop of an empty list.  Nothing
\* catches it before handle_client.
Exhausted(c) ==
  /\ pc[c] \in {"len", "pop"}
  /\ list[at[c]] = <<>>
  /\ pc' = [pc EXCEPT ![c] = "raised"]
  /\ CloseUpstream(c)
  /\ UNCHANGED <<d, list, todo, sock, req, at, rep, res>>

\* Mutant of Release: the socket is not put back.
BugRelease(c, i) ==
  /\ sock' = [sock EXCEPT ![c][i] = None]
  /\ UNCHANGED <<list, todo>>

\* release_sock: the socket goes back to the end of the list, whatever its
\* state.
Release(c, i) ==
  /\ list' = [list EXCEPT ![i] = Append(list[i], sock[c][i])]
  /\ sock' = [sock EXCEPT ![c][i] = None]
  /\ UNCHANGED todo

\* The request reaches the handler thread of the next server.
SendUp(c) ==
  /\ Goto(c, "send", "handle")
  /\ state[at[c]][sock[c][at[c]]] = "up"
  /\ at' = [at EXCEPT ![c] = at[c] + 1]
  /\ UNCHANGED <<d, hops, conn, req, rep, res>>

\* The pooled socket is closed: send returns an error message, which _set
\* and handle_client pass on as the answer.
SendEof(c) ==
  LET i == at[c] IN
  /\ Goto(c, "send", "answer")
  /\ state[i][sock[c][i]] = "eof"
  /\ state' = [state EXCEPT ![i][sock[c][i]] = "reset"]
  /\ rep' = [rep EXCEPT ![c] = KV!Err]
  /\ Release(c, i)
  /\ UNCHANGED <<d, conn, req, at, res>>

\* The pooled socket is reset: send returns None, so does _set, and
\* handle_client sends nothing back.  Everyone before it waits forever.
SendReset(c) ==
  LET i == at[c] IN
  /\ Goto(c, "send", "hung")
  /\ state[i][sock[c][i]] = "reset"
  /\ Release(c, i)
  /\ UNCHANGED <<d, state, conn, req, at, rep, res>>

\* Server at[c] answers; the handler of the server before it receives the
\* answer, releases its socket and has the same answer to give.
RecvReply(c) ==
  /\ Goto(c, "answer", "answer")
  /\ at[c] > Entry(c)
  /\ Release(c, at[c] - 1)
  /\ at' = [at EXCEPT ![c] = at[c] - 1]
  /\ UNCHANGED <<d, state, conn, req, rep, res>>

\* The handler of server at[c] died; the one before it, or the client,
\* receives the end of the stream and makes an error message of it.
RecvEof(c) ==
  /\ Goto(c, "raised", "answer")
  /\ rep' = [rep EXCEPT ![c] = KV!Err]
  /\ IF at[c] = Entry(c)
       THEN at' = [at EXCEPT ![c] = 0] /\ UNCHANGED <<list, todo, sock>>
       ELSE at' = [at EXCEPT ![c] = at[c] - 1] /\ Release(c, at[c] - 1)
  /\ UNCHANGED <<d, state, conn, req, res>>

-----------------------------------------------------------------------------

ClientStep(c) == ClientSend(c) \/ ClientSendEof(c) \/ ClientSendReset(c) \/ Return(c)
GetStep(c)    == Get(c) \/ GetKeyError(c)
SetStep(c) ==
  \/ SetForward(c) \/ SetTail(c)
  \/ CheckNone(c) \/ InitList(c) \/ ConnectAppend(c) \/ LenCheck(c) \/ Pop(c)
  \/ Exhausted(c) \/ SendUp(c) \/ SendEof(c) \/ SendReset(c) \/ RecvReply(c)

\* What happens to a call once it is made.
Step(c) == ClientStep(c) \/ GetStep(c) \/ SetStep(c) \/ RecvEof(c)

Next == \E c \in Clients : Step(c) \/ \E r \in Requests(c) : Call(c, r)

Spec == Init /\ [][Next]_vars

\* Threads are scheduled and TCP delivers: a call that can advance does.
FairSpec == Spec /\ \A c \in Clients : WF_vars(Step(c))

-----------------------------------------------------------------------------

TypeOK ==
  /\ d     \in [Servers -> [Keys -> Values \cup {Unset}]]
  /\ list  \in [Hops -> Seq(Socks) \cup {None}]
  /\ state \in [Hops -> [Socks -> States]]
  /\ conn  \in [Clients -> [{"SET", "GET"} -> States \ {"new"}]]
  /\ req   \in [Clients -> KV!Requests \cup {KV!NoReq}]
  /\ pc    \in [Clients -> PCs]
  /\ at    \in [Clients -> 0 .. N]
  /\ todo  \in [Setters -> 0 .. PoolSz]
  /\ sock  \in [Setters -> [Hops -> Socks \cup {None}]]
  /\ rep   \in [Clients -> KV!Answers \cup {KV!Pending}]
  /\ res   \in [Clients -> KV!Answers \cup {KV!Pending}]

(***************************************************************************)
(* The store is linearizable with the tail's dict as the linearization     *)
(* point, although concurrent SETs overtake each other between servers: a  *)
(* SET answered "OK" took effect at the tail between its call and its      *)
(* return, one answered with an error never does, and a GET returns the    *)
(* value of that moment.                                                   *)
(***************************************************************************)
Linearizable == KV!Spec

\* At most one of the clients that set has made a call so far.
OneSetter ==
  \A c1, c2 \in {c \in Setters : req[c] # KV!NoReq \/ res[c] # KV!Pending} : c1 = c2

(***************************************************************************)
(* When no SET is under way all servers hold the same data ("If there are  *)
(* no other Wx in-flight, new tail is guaranteed to reply with Rx1",       *)
(* storage-craq.md).  True of one setter at a time.                        *)
(***************************************************************************)
ReplicasAgree ==
  (\A c \in Setters : req[c].op # "SET") => \A i \in Servers : d[i] = d[N]

(***************************************************************************)
(* No connection was ever closed: no handler has raised.                   *)
(***************************************************************************)
AllConnectionsUp ==
  /\ \A c \in Clients : conn[c]["SET"] = "up" /\ conn[c]["GET"] = "up"
  /\ \A i \in Hops, s \in Socks : state[i][s] \in {"new", "up"}

(***************************************************************************)
(* Even if no SET ever failed, the servers agree when none is under way:   *)
(* "each server applies transformations in the same order"                 *)
(* (storage-craq.md).                                                      *)
(***************************************************************************)
SameOrder == AllConnectionsUp => ReplicasAgree

(***************************************************************************)
(* A lone setter is never refused: as long as no other client has called   *)
(* set, no SET fails and no connection between servers is lost, however    *)
(* its SETs meet the lazy building of the pools.                           *)
(***************************************************************************)
LoneSetterNeverFails ==
  OneSetter =>
    /\ \A c \in Setters : conn[c]["SET"] = "up"
    /\ \A i \in Hops, s \in Socks : state[i][s] \in {"new", "up"}

(***************************************************************************)
(* With one setter (the situation of cr_test.py) all servers hold the same *)
(* data whenever no SET is under way.                                      *)
(***************************************************************************)
LoneReplicasAgree == OneSetter => ReplicasAgree

(***************************************************************************)
(* A request sent on a live connection is eventually answered ("all        *)
(* read/write requests are eventually serviced", storage-craq.md).         *)
(***************************************************************************)
EventuallyServiced ==
  \A c \in Clients :
    (pc[c] = "handle") ~> (pc[c] = "idle")

(***************************************************************************)
(* It is while only one client sets: a request that reached a server is    *)
(* answered, unless a second setter shows up.                              *)
(***************************************************************************)
LoneServiced ==
  \A c \in Clients :
    (pc[c] = "handle") ~> (pc[c] = "idle" \/ ~OneSetter)
=============================================================================
