------------------------------ MODULE TcpClient ------------------------------
(***************************************************************************)
(* One TcpClient object (lab3/core/network.py): the connection pool that   *)
(* the handler threads of a server share to talk to one other server.      *)
(*                                                                         *)
(* The list self._client_sockets is None until the first send and is built *)
(* lazily, without a lock, by whichever threads find it None.  Every step  *)
(* below is one access to that list; what a thread does to a socket only   *)
(* it holds is joined to the neighbouring access.  The property            *)
(* client_sockets and the list method applied to it are one step: a thread *)
(* that reads the attribute just before another one rebinds it acts as if  *)
(* it had run before the rebinding.                                        *)
(*                                                                         *)
(* The far end of a socket is a handle_client loop (lab3/core/server.py).  *)
(***************************************************************************)
EXTENDS Naturals, Sequences, FiniteSets

CONSTANTS Threads,   \* threads that may call send
          PoolSz,    \* sock_pool_sz
          None

ASSUME ThreadsAssumption == IsFiniteSet(Threads)
ASSUME PoolSzAssumption  == PoolSz \in Nat \ {0}

\* The n-th socket that thread t connects: a thread builds the pool at most once.
Socks == Threads \X (1 .. PoolSz)

ASSUME NoneAssumption == None \notin Socks /\ None \notin Seq(Socks)

VARIABLES list,      \* self._client_sockets: None, or the free sockets
          state,     \* state[s]: the connection of socket s
          requests,  \* requests[s]: sent on s, not yet processed by the far end
          replies,   \* replies[s]: sent back on s, not yet received
          pc,        \* pc[t]: where thread t is in send
          todo,      \* todo[t]: sockets t still has to connect
          sock       \* sock[t]: the local client_socket of send

vars == <<list, state, requests, replies, pc, todo, sock>>
channel == <<state, requests, replies>>

(***************************************************************************)
(* A connection is "up" until the far end closes it.  "eof": closed, and   *)
(* nothing was sent on it since; one more sendall succeeds and the recv    *)
(* after it returns the end of the stream.  "reset": that sendall was      *)
(* answered with a reset; every further sendall raises.                    *)
(***************************************************************************)
States == {"new", "up", "eof", "reset"}
PCs    == {"idle", "check", "init", "build", "len", "pop", "send", "recv"}

Init ==
  /\ list     = None
  /\ state    = [s \in Socks |-> "new"]
  /\ requests = [s \in Socks |-> <<>>]
  /\ replies  = [s \in Socks |-> <<>>]
  /\ pc       = [t \in Threads |-> "idle"]
  /\ todo     = [t \in Threads |-> 0]
  /\ sock     = [t \in Threads |-> None]

Goto(t, from, to) == pc[t] = from /\ pc' = [pc EXCEPT ![t] = to]

\* send is entered and calls get_sock.
Call(t) ==
  /\ Goto(t, "idle", "check")
  /\ UNCHANGED <<list, channel, todo, sock>>

\* if self._client_sockets is None
CheckNone(t) ==
  /\ Goto(t, "check", IF list = None THEN "init" ELSE "len")
  /\ UNCHANGED <<list, channel, todo, sock>>

\* self._client_sockets = []
InitList(t) ==
  /\ Goto(t, "init", "build")
  /\ list' = <<>>
  /\ todo' = [todo EXCEPT ![t] = PoolSz]
  /\ UNCHANGED <<channel, sock>>

\* Mutant of ConnectAppend: the loop runs once too often.
BugConnectAppend(t) ==
  LET s == <<t, todo[t]>> IN
  /\ Goto(t, "build", IF todo[t] = 0 THEN "len" ELSE "build")
  /\ list'  = Append(list, s)
  /\ state' = [state EXCEPT ![s] = "up"]
  /\ todo'  = [todo EXCEPT ![t] = todo[t] - 1]
  /\ UNCHANGED <<requests, replies, sock>>

\* One turn of the loop: connect a socket and append it to the current list.
ConnectAppend(t) ==
  LET s == <<t, todo[t]>> IN
  /\ Goto(t, "build", IF todo[t] = 1 THEN "len" ELSE "build")
  /\ list'  = Append(list, s)
  /\ state' = [state EXCEPT ![s] = "up"]
  /\ todo'  = [todo EXCEPT ![t] = todo[t] - 1]
  /\ UNCHANGED <<requests, replies, sock>>

\* assert len(self.client_sockets) > 0
LenCheck(t) ==
  /\ list # <<>>
  /\ Goto(t, "len", "pop")
  /\ UNCHANGED <<list, channel, todo, sock>>

\* Mutant of Pop: the last socket is used but stays in the list.
BugPop(t) ==
  /\ list # <<>>
  /\ Goto(t, "pop", "send")
  /\ sock' = [sock EXCEPT ![t] = list[Len(list)]]
  /\ UNCHANGED <<list, channel, todo>>

\* self.client_sockets.pop()
Pop(t) ==
  /\ list # <<>>
  /\ Goto(t, "pop", "send")
  /\ sock' = [sock EXCEPT ![t] = list[Len(list)]]
  /\ list' = SubSeq(list, 1, Len(list) - 1)
  /\ UNCHANGED <<channel, todo>>

(***************************************************************************)
(* The list is empty at the assertion ("Exhausted sockets") or at the pop  *)
(* (IndexError).  get_sock is called outside the try of send: the          *)
(* exception leaves send.                                                  *)
(***************************************************************************)
Exhausted(t) == pc[t] \in {"len", "pop"} /\ list = <<>>

Raise(t) ==
  /\ Exhausted(t)
  /\ pc' = [pc EXCEPT ![t] = "idle"]
  /\ UNCHANGED <<list, channel, todo, sock>>

\* Mutant of Release: send is left without release_sock.
BugRelease(t) ==
  /\ sock' = [sock EXCEPT ![t] = None]
  /\ pc'   = [pc EXCEPT ![t] = "idle"]
  /\ UNCHANGED <<list, todo>>

\* The finally clause: release_sock, and send is left.
Release(t) ==
  /\ list' = Append(list, sock[t])
  /\ sock' = [sock EXCEPT ![t] = None]
  /\ pc'   = [pc EXCEPT ![t] = "idle"]
  /\ UNCHANGED todo

\* sendall on a live connection; the thread then blocks in recv_message.
SendUp(t) ==
  /\ Goto(t, "send", "recv")
  /\ state[sock[t]] = "up"
  /\ requests' = [requests EXCEPT ![sock[t]] = Append(requests[sock[t]], t)]
  /\ UNCHANGED <<list, state, replies, todo, sock>>

\* sendall on a closed connection, then recv_message meets the end of stream.
SendEof(t) ==
  /\ pc[t] = "send"
  /\ state[sock[t]] = "eof"
  /\ state' = [state EXCEPT ![sock[t]] = "reset"]
  /\ Release(t)
  /\ UNCHANGED <<requests, replies>>

\* sendall raises; the exception is swallowed and send returns None.
SendReset(t) ==
  /\ pc[t] = "send"
  /\ state[sock[t]] = "reset"
  /\ Release(t)
  /\ UNCHANGED channel

\* recv_message returns the first reply on the stream.
RecvReply(t) ==
  /\ pc[t] = "recv"
  /\ replies[sock[t]] # <<>>
  /\ replies' = [replies EXCEPT ![sock[t]] = Tail(replies[sock[t]])]
  /\ Release(t)
  /\ UNCHANGED <<state, requests>>

\* Mutant of RecvEof: the thread gives up although the reply may still come.
BugRecvEof(t) ==
  /\ pc[t] = "recv"
  /\ replies[sock[t]] = <<>>
  /\ Release(t)
  /\ UNCHANGED channel

\* recv_message returns no message: the far end closed the connection.
RecvEof(t) ==
  /\ pc[t] = "recv"
  /\ replies[sock[t]] = <<>>
  /\ state[sock[t]] # "up"
  /\ Release(t)
  /\ UNCHANGED channel

(***************************************************************************)
(* The far end: handle_client has read the first request on socket s.      *)
(***************************************************************************)
Processed(s) ==
  /\ state[s] = "up"
  /\ requests[s] # <<>>
  /\ requests' = [requests EXCEPT ![s] = Tail(requests[s])]
  /\ UNCHANGED <<list, pc, todo, sock>>

\* _process_req returns a message.
PeerReply(s) ==
  /\ Processed(s)
  /\ replies' = [replies EXCEPT ![s] = Append(replies[s], Head(requests[s]))]
  /\ UNCHANGED state

\* _process_req returns None: nothing is sent.
PeerSilent(s) ==
  /\ Processed(s)
  /\ UNCHANGED <<state, replies>>

\* _process_req raises: the socket is closed.
PeerClose(s) ==
  /\ Processed(s)
  /\ state' = [state EXCEPT ![s] = "eof"]
  /\ UNCHANGED replies

ThreadStep(t) ==
  \/ CheckNone(t) \/ InitList(t) \/ ConnectAppend(t) \/ LenCheck(t) \/ Pop(t)
  \/ Raise(t) \/ SendUp(t) \/ SendEof(t) \/ SendReset(t)
  \/ RecvReply(t) \/ RecvEof(t)

Next ==
  \/ \E t \in Threads : Call(t) \/ ThreadStep(t)
  \/ \E s \in Socks : PeerReply(s) \/ PeerSilent(s) \/ PeerClose(s)

Spec == Init /\ [][Next]_vars

-----------------------------------------------------------------------------

TypeOK ==
  /\ list \in Seq(Socks) \cup {None}
  /\ state \in [Socks -> States]
  /\ requests \in [Socks -> Seq(Threads)]
  /\ replies \in [Socks -> Seq(Threads)]
  /\ pc \in [Threads -> PCs]
  /\ todo \in [Threads -> 0 .. PoolSz]
  /\ sock \in [Threads -> Socks \cup {None}]

Holding(t) == pc[t] \in {"send", "recv"}
Free       == IF list = None THEN {} ELSE {list[n] : n \in 1 .. Len(list)}

(***************************************************************************)
(* No two threads ever talk on the same socket, a socket in use is not in  *)
(* the free list, and the free list has no duplicates, however the         *)
(* unsynchronised builds, pops and releases of get_sock and release_sock   *)
(* interleave.                                                             *)
(***************************************************************************)
SocketExclusive ==
  /\ \A t, u \in Threads :
       t # u /\ Holding(t) /\ Holding(u) => sock[t] # sock[u]
  /\ \A t \in Threads : Holding(t) => sock[t] \notin Free
  /\ list # None =>
       \A m, n \in 1 .. Len(list) : list[m] = list[n] => m = n

(***************************************************************************)
(* send returns the reply to its own message: all that can be on the       *)
(* stream of the socket a thread waits on is that thread's own request or  *)
(* the reply to it, never what an earlier user of the socket left behind.  *)
(***************************************************************************)
ReplyMatchesRequest ==
  \A t \in Threads : pc[t] = "recv" =>
    requests[sock[t]] \o replies[sock[t]] \in {<<>>, <<t>>}

(***************************************************************************)
(* With no more threads than sockets, get_sock can find the list empty     *)
(* only while some thread is still filling it.                             *)
(***************************************************************************)
ExhaustedOnlyWhileBuilding ==
  (\E t \in Threads : Exhausted(t)) => \E u \in Threads : pc[u] = "build"
=============================================================================
