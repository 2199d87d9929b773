----------------------- MODULE ChainReplication_proofs -----------------------
(***************************************************************************)
(* Proofs about ChainReplication: type correctness and linearizability;    *)
(* with one setter, that no call fails and the replicas agree; and that    *)
(* every hop is a TcpClient.  For every set of clients, every chain length *)
(* and every pool size.                                                    *)
(***************************************************************************)
EXTENDS ChainPools, TLAPS

\* The steps of a handler between applying a SET and sending it on.
Forwarding == {"check", "init", "build", "len", "pop", "send"}

\* What is under way for client c, and where.
CallInv ==
  \A c \in Clients :
    /\ (pc[c] = "idle") <=> (req[c] = KV!NoReq)
    /\ req[c].op = "SET" => c \in Setters
    /\ pc[c] \in {"idle", "call", "crashed"} => at[c] = 0
    /\ pc[c] \in {"handle", "raised", "hung"} => at[c] \in Servers
    /\ pc[c] \in Forwarding \cup {"hung"} => req[c].op = "SET" /\ at[c] \in Hops
    /\ req[c].op = "GET" => at[c] \in {0, N}
    /\ pc[c] = "answer" => rep[c] \in KV!Answers
    /\ pc[c] = "build" => todo[c] # 0

\* Which sockets the handlers of a call hold.
HoldInv ==
  \A c \in Setters : \A i \in Hops :
    sock[c][i] # None <=>
      /\ req[c].op = "SET"
      /\ i < at[c] \/ (i = at[c] /\ pc[c] = "send")

\* A pool that is in use has been created.
ListInv ==
  \A c \in Setters : \A i \in Hops :
    \/ sock[c][i] # None
    \/ at[c] = i /\ pc[c] \in {"build", "len", "pop", "send"}
    => list[i] # None

IInv == TypeOK /\ CallInv /\ HoldInv /\ ListInv

(***************************************************************************)
(* The invariant holds before the first request.                           *)
(***************************************************************************)
LEMMA InitIInv == Init => IInv
<1> SUFFICES ASSUME Init PROVE IInv
  OBVIOUS
<1> USE NAssumption DEF Init
<1>1. TypeOK
  BY PoolSzAssumption DEF TypeOK, States, PCs
<1>2. CallInv
  BY DEF CallInv, KV!NoReq, Forwarding
<1>3. HoldInv
  BY DEF HoldInv, KV!NoReq, Clients
<1>4. ListInv
  BY DEF ListInv, Clients
<1> QED
  BY <1>1, <1>2, <1>3, <1>4 DEF IInv

(***************************************************************************)
(* A client library enters get or set.                                     *)
(***************************************************************************)
LEMMA CallStep == ASSUME IInv, NEW c \in Clients, NEW r \in Requests(c), Call(c, r) PROVE IInv'
<1> USE DEF Call, Goto, hops, Requests
<1>1. TypeOK'
  BY DEF IInv, TypeOK, PCs
<1>2. CallInv'
  BY DEF IInv, TypeOK, CallInv, Forwarding, KV!NoReq, KV!Requests
<1>3. HoldInv'
  BY DEF IInv, CallInv, HoldInv, Hops
<1>4. ListInv'
  BY DEF IInv, ListInv
<1> QED
  BY <1>1, <1>2, <1>3, <1>4 DEF IInv

(***************************************************************************)
(* The client sends its request to the head (SET) or to the tail (GET).    *)
(***************************************************************************)
LEMMA ClientSendStep == ASSUME IInv, NEW c \in Clients, ClientSend(c) PROVE IInv'
<1> USE DEF ClientSend, Goto, hops, Entry
<1>1. TypeOK'
  BY NAssumption DEF IInv, TypeOK, PCs
<1>2. CallInv'
  BY NAssumption DEF IInv, TypeOK, CallInv, Forwarding, Servers
<1>3. HoldInv'
  BY DEF IInv, CallInv, HoldInv, Hops
<1>4. ListInv'
  BY DEF IInv, ListInv
<1> QED
  BY <1>1, <1>2, <1>3, <1>4 DEF IInv

(***************************************************************************)
(* The client finds its own connection closed by a handler that raised.    *)
(***************************************************************************)
LEMMA ClientSendEofStep == ASSUME IInv, NEW c \in Clients, ClientSendEof(c) PROVE IInv'
<1> USE DEF ClientSendEof, Goto, hops
<1>1. TypeOK'
  BY DEF IInv, TypeOK, PCs, States, KV!Err, KV!Answers
<1>2. CallInv'
  BY DEF IInv, TypeOK, CallInv, Forwarding, KV!Err, KV!Answers
<1>3. HoldInv'
  BY DEF IInv, HoldInv
<1>4. ListInv'
  BY DEF IInv, ListInv
<1> QED
  BY <1>1, <1>2, <1>3, <1>4 DEF IInv

(***************************************************************************)
(* The client sends on a connection that was reset.                        *)
(***************************************************************************)
LEMMA ClientSendResetStep == ASSUME IInv, NEW c \in Clients, ClientSendReset(c) PROVE IInv'
<1> USE DEF ClientSendReset, Goto, hops
<1>1. TypeOK'
  BY DEF IInv, TypeOK, PCs
<1>2. CallInv'
  BY DEF IInv, CallInv, Forwarding
<1>3. HoldInv'
  BY DEF IInv, HoldInv
<1>4. ListInv'
  BY DEF IInv, ListInv
<1> QED
  BY <1>1, <1>2, <1>3, <1>4 DEF IInv

(***************************************************************************)
(* The client library returns the answer.                                  *)
(***************************************************************************)
LEMMA ReturnStep == ASSUME IInv, NEW c \in Clients, Return(c) PROVE IInv'
<1> USE DEF Return, Goto, hops, Entry
<1>1. TypeOK'
  BY NAssumption DEF IInv, TypeOK, PCs
<1>2. CallInv'
  BY DEF IInv, TypeOK, CallInv, Forwarding, KV!NoReq
<1>3. HoldInv'
  BY DEF IInv, HoldInv, Hops, KV!NoReq
<1>4. ListInv'
  BY DEF IInv, ListInv
<1> QED
  BY <1>1, <1>2, <1>3, <1>4 DEF IInv

(***************************************************************************)
(* _set at a server that has a successor applies the entry and goes on to  *)
(* send.                                                                   *)
(***************************************************************************)
LEMMA SetForwardStep == ASSUME IInv, NEW c \in Clients, SetForward(c) PROVE IInv'
<1> USE DEF SetForward, Goto, hops
<1>1. TypeOK'
  BY DEF IInv, TypeOK, CallInv, PCs, KV!Requests
<1>2. CallInv'
  BY NAssumption DEF IInv, CallInv, Servers, Hops
<1>3. HoldInv'
  BY DEF IInv, HoldInv
<1>4. ListInv'
  BY DEF IInv, ListInv
<1> QED
  BY <1>1, <1>2, <1>3, <1>4 DEF IInv

(***************************************************************************)
(* _set at the tail applies the entry and answers.                         *)
(***************************************************************************)
LEMMA SetTailStep == ASSUME IInv, NEW c \in Clients, SetTail(c) PROVE IInv'
<1> USE DEF SetTail, Goto, hops
<1>1. TypeOK'
  BY NAssumption DEF IInv, TypeOK, PCs, Servers, KV!OK, KV!Answers, KV!NoReq, KV!Requests
<1>2. CallInv'
  BY DEF IInv, TypeOK, CallInv, Forwarding, KV!OK, KV!Answers
<1>3. HoldInv'
  BY DEF IInv, HoldInv
<1>4. ListInv'
  BY DEF IInv, ListInv
<1> QED
  BY <1>1, <1>2, <1>3, <1>4 DEF IInv

(***************************************************************************)
(* _get at the tail returns the stored value.                              *)
(***************************************************************************)
LEMMA GetStepInv == ASSUME IInv, NEW c \in Clients, Get(c) PROVE IInv'
<1> USE DEF Get, Goto, hops
<1>1. TypeOK'
  BY DEF IInv, TypeOK, CallInv, PCs, Hops, KV!OK, KV!Answers, KV!Requests
<1>2. CallInv'
  BY DEF IInv, TypeOK, CallInv, Forwarding, KV!Requests, KV!OK, KV!Answers
<1>3. HoldInv'
  BY DEF IInv, HoldInv
<1>4. ListInv'
  BY DEF IInv, ListInv
<1> QED
  BY <1>1, <1>2, <1>3, <1>4 DEF IInv

(***************************************************************************)
(* get_sock tests whether the pool towards the next server exists.         *)
(***************************************************************************)
LEMMA CheckNoneStep == ASSUME IInv, NEW c \in Clients, CheckNone(c) PROVE IInv'
<1> USE DEF CheckNone, Goto, hops
<1>1. TypeOK'
  BY DEF IInv, TypeOK, PCs
<1>2. CallInv'
  BY DEF IInv, CallInv, Forwarding
<1>3. HoldInv'
  BY DEF IInv, HoldInv
<1>4. ListInv'
  BY DEF IInv, ListInv
<1> QED
  BY <1>1, <1>2, <1>3, <1>4 DEF IInv

(***************************************************************************)
(* get_sock finds the pool non-empty.                                      *)
(***************************************************************************)
LEMMA LenCheckStep == ASSUME IInv, NEW c \in Clients, LenCheck(c) PROVE IInv'
<1> USE DEF LenCheck, Goto, hops
<1>1. TypeOK'
  BY DEF IInv, TypeOK, PCs
<1>2. CallInv'
  BY DEF IInv, CallInv, Forwarding
<1>3. HoldInv'
  BY DEF IInv, HoldInv
<1>4. ListInv'
  BY DEF IInv, ListInv
<1> QED
  BY <1>1, <1>2, <1>3, <1>4 DEF IInv

(***************************************************************************)
(* get_sock rebinds the pool to an empty list: no handler loses the socket *)
(* it holds.                                                               *)
(***************************************************************************)
LEMMA InitListStep == ASSUME IInv, NEW c \in Clients, InitList(c) PROVE IInv'
<1> USE DEF InitList, Goto
<1>0. c \in Setters /\ at[c] \in Hops /\ req[c].op = "SET"
  BY DEF IInv, CallInv, Forwarding
<1>a. <<>> \in Seq(Socks)
  OBVIOUS
<1>b. <<>> # None
  BY <1>a, NoneAssumption
<1>1. TypeOK'
  BY <1>0, PoolSzAssumption DEF IInv, TypeOK, PCs
<1>2. CallInv'
  BY <1>0, PoolSzAssumption DEF IInv, TypeOK, CallInv
<1>3. HoldInv'
  BY DEF IInv, HoldInv
<1>4. ListInv'
  BY <1>b DEF IInv, TypeOK, ListInv
<1> QED
  BY <1>1, <1>2, <1>3, <1>4 DEF IInv

(***************************************************************************)
(* get_sock connects one more socket.                                      *)
(***************************************************************************)
LEMMA ConnectAppendStep == ASSUME IInv, NEW c \in Clients, ConnectAppend(c) PROVE IInv'
<1> USE DEF ConnectAppend, Goto
<1>0. c \in Setters /\ at[c] \in Hops /\ req[c].op = "SET" /\ list[at[c]] \in Seq(Socks)
  BY DEF IInv, CallInv, ListInv, TypeOK, Forwarding
<1>a. <<c, todo[c]>> \in Socks
  BY <1>0 DEF IInv, TypeOK, CallInv, Socks
<1>b. Append(list[at[c]], <<c, todo[c]>>) \in Seq(Socks)
  BY <1>0, <1>a
<1>c. Append(list[at[c]], <<c, todo[c]>>) # None
  BY <1>b, NoneAssumption
<1>d. todo[c] - 1 \in 0 .. PoolSz /\ (todo[c] # 1 => todo[c] - 1 # 0)
  BY <1>0, PoolSzAssumption DEF IInv, TypeOK, CallInv
<1>1. TypeOK'
  BY <1>b, <1>d DEF IInv, TypeOK, PCs, States
<1>2. CallInv'
  BY <1>0 DEF IInv, TypeOK, CallInv
<1>3. HoldInv'
  BY DEF IInv, HoldInv
<1>4. ListInv'
  BY <1>c DEF IInv, CallInv, ListInv
<1> QED
  BY <1>1, <1>2, <1>3, <1>4 DEF IInv

(***************************************************************************)
(* A handler takes a socket for the next hop: from now on it holds one on  *)
(* every hop up to it.                                                     *)
(***************************************************************************)
LEMMA PopStep == ASSUME IInv, NEW c \in Clients, Pop(c) PROVE IInv'
<1> USE DEF Pop, Goto
<1>0. c \in Setters /\ at[c] \in Hops /\ req[c].op = "SET" /\ list[at[c]] \in Seq(Socks)
  BY DEF IInv, CallInv, ListInv, TypeOK, Forwarding
<1> DEFINE i == at[c]
           n == Len(list[i])
<1>a. list[i][n] \in Socks /\ SubSeq(list[i], 1, n - 1) \in Seq(Socks)
  BY <1>0
<1>b. list[i][n] # None /\ SubSeq(list[i], 1, n - 1) # None
  BY <1>a, NoneAssumption
<1>1. TypeOK'
  BY <1>a DEF IInv, TypeOK, PCs
<1>2. CallInv'
  BY <1>0 DEF IInv, CallInv
<1>3. HoldInv'
  BY <1>0, <1>b DEF IInv, TypeOK, HoldInv
<1>4. ListInv'
  BY <1>b DEF IInv, ListInv
<1> QED
  BY <1>1, <1>2, <1>3, <1>4 DEF IInv

(***************************************************************************)
(* The handler forwards the SET, which the next server then handles.       *)
(***************************************************************************)
LEMMA SendUpStep == ASSUME IInv, NEW c \in Clients, SendUp(c) PROVE IInv'
<1> USE DEF SendUp, Goto, hops
<1>0. c \in Setters /\ at[c] \in Hops /\ req[c].op = "SET"
  BY DEF IInv, CallInv, Forwarding
<1>1. TypeOK'
  BY <1>0, NAssumption DEF IInv, TypeOK, PCs, Hops
<1>2. CallInv'
  BY NAssumption DEF IInv, TypeOK, CallInv, Forwarding, Servers, Hops
<1>3. HoldInv'
  BY DEF IInv, TypeOK, HoldInv, Hops
<1>4. ListInv'
  BY DEF IInv, TypeOK, ListInv
<1> QED
  BY <1>1, <1>2, <1>3, <1>4 DEF IInv

(***************************************************************************)
(* The handler meets the end of stream on a connection that the next       *)
(* server closed.                                                          *)
(***************************************************************************)
LEMMA SendEofStep == ASSUME IInv, NEW c \in Clients, SendEof(c) PROVE IInv'
<1> USE DEF SendEof, Goto, Release
<1>0. c \in Setters /\ at[c] \in Hops /\ req[c].op = "SET"
  BY DEF IInv, CallInv, Forwarding
<1>a. sock[c][at[c]] \in Socks /\ list[at[c]] \in Seq(Socks)
  BY <1>0 DEF IInv, HoldInv, ListInv, TypeOK
<1>b. Append(list[at[c]], sock[c][at[c]]) \in Seq(Socks)
  BY <1>a
<1>c. Append(list[at[c]], sock[c][at[c]]) # None
  BY <1>b, NoneAssumption
<1>1. TypeOK'
  BY <1>b DEF IInv, TypeOK, PCs, States, KV!Err, KV!Answers
<1>2. CallInv'
  BY <1>0 DEF IInv, TypeOK, CallInv, KV!Err, KV!Answers
<1>3. HoldInv'
  BY DEF IInv, TypeOK, HoldInv
<1>4. ListInv'
  BY <1>c DEF IInv, ListInv
<1> QED
  BY <1>1, <1>2, <1>3, <1>4 DEF IInv

(***************************************************************************)
(* The handler sends on a connection that was reset.                       *)
(***************************************************************************)
LEMMA SendResetStep == ASSUME IInv, NEW c \in Clients, SendReset(c) PROVE IInv'
<1> USE DEF SendReset, Goto, Release
<1>0. c \in Setters /\ at[c] \in Hops /\ req[c].op = "SET"
  BY DEF IInv, CallInv, Forwarding
<1>a. sock[c][at[c]] \in Socks /\ list[at[c]] \in Seq(Socks)
  BY <1>0 DEF IInv, HoldInv, ListInv, TypeOK
<1>b. Append(list[at[c]], sock[c][at[c]]) \in Seq(Socks)
  BY <1>a
<1>c. Append(list[at[c]], sock[c][at[c]]) # None
  BY <1>b, NoneAssumption
<1>1. TypeOK'
  BY <1>b DEF IInv, TypeOK, PCs
<1>2. CallInv'
  BY <1>0, NAssumption DEF IInv, CallInv, Servers, Hops
<1>3. HoldInv'
  BY DEF IInv, TypeOK, HoldInv
<1>4. ListInv'
  BY <1>c DEF IInv, ListInv
<1> QED
  BY <1>1, <1>2, <1>3, <1>4 DEF IInv

(***************************************************************************)
(* The reply of the next server comes back and is passed one hop upwards.  *)
(***************************************************************************)
LEMMA RecvReplyStep == ASSUME IInv, NEW c \in Clients, RecvReply(c) PROVE IInv'
<1> USE DEF RecvReply, Goto, Release, Entry
<1>0. c \in Setters /\ at[c] - 1 \in Hops /\ req[c].op = "SET"
  BY NAssumption DEF IInv, CallInv, TypeOK, Hops
<1>a. sock[c][at[c] - 1] \in Socks /\ list[at[c] - 1] \in Seq(Socks)
  BY <1>0 DEF IInv, HoldInv, ListInv, TypeOK
<1>b. Append(list[at[c] - 1], sock[c][at[c] - 1]) \in Seq(Socks)
  BY <1>a
<1>c. Append(list[at[c] - 1], sock[c][at[c] - 1]) # None
  BY <1>b, NoneAssumption
<1>1. TypeOK'
  BY <1>0, <1>a, <1>b, <1>c, NAssumption DEF IInv, TypeOK, CallInv, Forwarding, PCs, States, Servers, Hops, KV!NoReq, KV!Requests, KV!Err, KV!Answers
<1>2. CallInv'
  BY <1>0 DEF IInv, CallInv
<1>3. HoldInv'
  BY NAssumption DEF IInv, TypeOK, HoldInv, Hops
<1>4. ListInv'
  BY <1>c DEF IInv, ListInv
<1> QED
  BY <1>1, <1>2, <1>3, <1>4 DEF IInv

(***************************************************************************)
(* _get of a key that is not stored raises in the handler.                 *)
(***************************************************************************)
LEMMA GetKeyErrorStep == ASSUME IInv, NEW c \in Clients, GetKeyError(c) PROVE IInv'
<1> USE DEF GetKeyError, Goto, CloseUpstream, Entry
<1>0. at[c] = N
  BY DEF IInv, CallInv, Servers
<1>a. conn' = [conn EXCEPT ![c]["GET"] = "eof"] /\ state' = state
  BY <1>0
<1>1. TypeOK'
  BY <1>a DEF IInv, TypeOK, PCs, States
<1>2. CallInv'
  BY DEF IInv, CallInv, Forwarding
<1>3. HoldInv'
  BY DEF IInv, HoldInv
<1>4. ListInv'
  BY DEF IInv, ListInv
<1> QED
  BY <1>1, <1>2, <1>3, <1>4 DEF IInv

(***************************************************************************)
(* A handler finds the pool empty and raises out of _set.                  *)
(***************************************************************************)
LEMMA ExhaustedStep == ASSUME IInv, NEW c \in Clients, Exhausted(c) PROVE IInv'
<1> USE DEF Exhausted, Goto, CloseUpstream, Entry
<1>0. c \in Setters /\ at[c] \in Hops /\ req[c].op = "SET"
  BY DEF IInv, CallInv, Forwarding
<1>a. at[c] # 1 => at[c] - 1 \in Hops /\ sock[c][at[c] - 1] \in Socks
  BY <1>0, NAssumption DEF IInv, TypeOK, HoldInv, Hops
<1>b. /\ state' \in [Hops -> [Socks -> States]]
      /\ conn' \in [Clients -> [{"SET", "GET"} -> States \ {"new"}]]
  <2>1. CASE at[c] = 1
    <3>1. conn' = [conn EXCEPT ![c]["SET"] = "eof"] /\ state' = state
      BY <1>0, <2>1
    <3> QED
      BY <3>1 DEF IInv, TypeOK, States
  <2>2. CASE at[c] # 1
    <3>1. state' = [state EXCEPT ![at[c] - 1][sock[c][at[c] - 1]] = "eof"] /\ conn' = conn
      BY <1>0, <2>2
    <3> QED
      BY <3>1 DEF IInv, TypeOK, States
  <2> QED
    BY <2>1, <2>2
<1>1. TypeOK'
  BY <1>b DEF IInv, TypeOK, PCs
<1>2. CallInv'
  BY <1>0, NAssumption DEF IInv, CallInv, Servers, Hops
<1>3. HoldInv'
  BY DEF IInv, HoldInv
<1>4. ListInv'
  BY DEF IInv, ListInv
<1> QED
  BY <1>1, <1>2, <1>3, <1>4 DEF IInv

(***************************************************************************)
(* The next server closed the connection because its handler raised: the   *)
(* reply is None.                                                          *)
(***************************************************************************)
LEMMA RecvEofStep == ASSUME IInv, NEW c \in Clients, RecvEof(c) PROVE IInv'
<1> USE DEF RecvEof, Goto, Entry, Release
<1>1. CASE at[c] = Entry(c)
  <2>b. at' = [at EXCEPT ![c] = 0] /\ UNCHANGED <<list, todo, sock>>
    BY <1>1
  <2>a. at' \in [Clients -> 0 .. N] /\ UNCHANGED <<list, todo, sock>>
    BY <2>b, NAssumption DEF IInv, TypeOK
  <2>1. TypeOK'
    BY <2>a DEF IInv, TypeOK, PCs, KV!Err, KV!Answers
  <2>2. CallInv'
    BY <1>1 DEF IInv, TypeOK, CallInv, Forwarding, KV!Err, KV!Answers
  <2>3. HoldInv'
    BY NAssumption DEF IInv, TypeOK, HoldInv, Hops, Clients
  <2>4. ListInv'
    BY <1>1 DEF IInv, TypeOK, ListInv, Clients
  <2> QED
    BY <2>1, <2>2, <2>3, <2>4 DEF IInv
<1>2. CASE at[c] # Entry(c)
  <2>d. req[c] \in KV!Requests /\ at[c] \in Servers
    BY DEF IInv, CallInv, TypeOK
  <2>e. req[c].op = "SET"
    BY <1>2, <2>d DEF IInv, CallInv, Servers, KV!Requests
  <2>0. c \in Setters /\ at[c] - 1 \in Hops /\ req[c].op = "SET"
    BY <1>2, <2>e, NAssumption DEF IInv, CallInv, Hops, Servers
  <2>a. sock[c][at[c] - 1] \in Socks /\ list[at[c] - 1] \in Seq(Socks)
    BY <2>0 DEF IInv, HoldInv, ListInv, TypeOK
  <2>b. Append(list[at[c] - 1], sock[c][at[c] - 1]) \in Seq(Socks)
    BY <2>a
  <2>c. Append(list[at[c] - 1], sock[c][at[c] - 1]) # None
    BY <2>b, NoneAssumption
  <2>f. at' \in [Clients -> 0 .. N]
    BY <2>0, NAssumption DEF IInv, TypeOK, Hops
  <2>g. list' \in [Hops -> Seq(Socks) \cup {None}]
    BY <2>b DEF IInv, TypeOK
  <2>i. sock' = [sock EXCEPT ![c][at[c] - 1] = None]
    BY <1>2
  <2>h. sock' \in [Setters -> [Hops -> Socks \cup {None}]]
    BY <2>i DEF IInv, TypeOK
  <2>1. TypeOK'
    BY <2>f, <2>g, <2>h DEF IInv, TypeOK, PCs, KV!Err, KV!Answers
  <2>2. CallInv'
    BY <2>0 DEF IInv, TypeOK, CallInv, KV!Err, KV!Answers
  <2>3. HoldInv'
    BY <1>2, <2>0, <2>a, NAssumption DEF IInv, TypeOK, HoldInv, Hops, Clients
  <2>4. ListInv'
    BY <2>c DEF IInv, TypeOK, ListInv, Clients
  <2> QED
    BY <2>1, <2>2, <2>3, <2>4 DEF IInv
<1> QED
  BY <1>1, <1>2

(***************************************************************************)
(* Every step of every client and of every handler preserves the           *)
(* invariant.                                                              *)
(***************************************************************************)
LEMMA NextIInv == IInv /\ [Next]_vars => IInv'
<1> SUFFICES ASSUME IInv, [Next]_vars PROVE IInv'
  OBVIOUS
<1>1. CASE UNCHANGED vars
  BY <1>1 DEF vars, IInv, TypeOK, CallInv, HoldInv, ListInv
<1>2. ASSUME NEW c \in Clients, NEW r \in Requests(c), Call(c, r) PROVE IInv'
  BY <1>2, CallStep
<1>3. ASSUME NEW c \in Clients, Step(c) PROVE IInv'
  <2>1. CASE ClientSend(c)
    BY <2>1, ClientSendStep
  <2>2. CASE ClientSendEof(c)
    BY <2>2, ClientSendEofStep
  <2>3. CASE ClientSendReset(c)
    BY <2>3, ClientSendResetStep
  <2>4. CASE Return(c)
    BY <2>4, ReturnStep
  <2>5. CASE SetForward(c)
    BY <2>5, SetForwardStep
  <2>6. CASE SetTail(c)
    BY <2>6, SetTailStep
  <2>7. CASE Get(c)
    BY <2>7, GetStepInv
  <2>8. CASE GetKeyError(c)
    BY <2>8, GetKeyErrorStep
  <2>9. CASE CheckNone(c)
    BY <2>9, CheckNoneStep
  <2>10. CASE InitList(c)
    BY <2>10, InitListStep
  <2>11. CASE ConnectAppend(c)
    BY <2>11, ConnectAppendStep
  <2>12. CASE LenCheck(c)
    BY <2>12, LenCheckStep
  <2>13. CASE Pop(c)
    BY <2>13, PopStep
  <2>14. CASE Exhausted(c)
    BY <2>14, ExhaustedStep
  <2>15. CASE SendUp(c)
    BY <2>15, SendUpStep
  <2>16. CASE SendEof(c)
    BY <2>16, SendEofStep
  <2>17. CASE SendReset(c)
    BY <2>17, SendResetStep
  <2>18. CASE RecvReply(c)
    BY <2>18, RecvReplyStep
  <2>19. CASE RecvEof(c)
    BY <2>19, RecvEofStep
  <2> QED
    BY <1>3, <2>1, <2>2, <2>3, <2>4, <2>5, <2>6, <2>7, <2>8, <2>9, <2>10, <2>11, <2>12, <2>13, <2>14, <2>15, <2>16, <2>17, <2>18, <2>19 DEF Step, ClientStep, GetStep, SetStep
<1> QED
  BY <1>1, <1>2, <1>3 DEF Next

(***************************************************************************)
(* The inductive invariant of the chain holds in every reachable state.    *)
(***************************************************************************)
THEOREM InductiveInvariant == Spec => []IInv
  BY InitIInv, NextIInv, PTL DEF Spec

(***************************************************************************)
(* Type correctness of the whole chain: stores, calls, connections and     *)
(* pools of every server.                                                  *)
(***************************************************************************)
THEOREM TypeCorrect == Spec => []TypeOK
<1>1. IInv => TypeOK
  BY DEF IInv
<1> QED
  BY <1>1, InductiveInvariant, PTL

(***************************************************************************)
(* An empty chain is an empty store.                                       *)
(***************************************************************************)
LEMMA InitRefines == Init => KV!Init
  BY NAssumption DEF Init, KV!Init, KV!Pending, Servers

\* Steps that neither touch the tail nor decide, begin or end a call.
LEMMA InternalStep ==
  ASSUME IInv, NEW c \in Clients, d'[N] = d[N], UNCHANGED <<req, rep, res>>,
         NEW p \in PCs, pc' = [pc EXCEPT ![c] = p],
         pc[c] = "answer" <=> p = "answer"
  PROVE  UNCHANGED KV!vars
  BY DEF KV!vars

(***************************************************************************)
(* A call that raises at some server ends as a failed operation of the     *)
(* abstract store; a SET may still have taken effect.                      *)
(***************************************************************************)
LEMMA FailStep ==
  ASSUME IInv, NEW c \in Clients, UNCHANGED <<d, req, res>>,
         pc[c] \notin {"idle", "answer"},
         pc' = [pc EXCEPT ![c] = "answer"], rep' = [rep EXCEPT ![c] = KV!Err]
  PROVE  KV!Fail(c)
  BY DEF IInv, TypeOK, CallInv, KV!Fail, KV!Pending

(***************************************************************************)
(* Every step of a client or handler is a step of the abstract store or    *)
(* changes nothing of it: _set of the tail is the point where a SET takes  *)
(* effect, _get where a GET does.                                          *)
(***************************************************************************)
LEMMA StepRefines == ASSUME IInv, NEW c \in Clients, Step(c) PROVE [KV!Next]_(KV!vars)
<1> USE DEF Goto
<1>1. CASE ClientSend(c) \/ ClientSendReset(c)
  BY <1>1, InternalStep DEF ClientSend, ClientSendReset, PCs
<1>2. CASE ClientSendEof(c)
  BY <1>2, FailStep DEF ClientSendEof, KV!Next
<1>3. CASE Return(c)
  <2>1. req[c] # KV!NoReq /\ rep[c] # KV!Pending /\ pc[c] = "answer"
    BY <1>3 DEF Return, IInv, CallInv, KV!Pending, KV!Answers
  <2>2. pc' = [pc EXCEPT ![c] = "idle"] /\ UNCHANGED d
    BY <1>3 DEF Return
  <2>3. res' = [res EXCEPT ![c] = rep[c]] /\ req' = [req EXCEPT ![c] = KV!NoReq]
    BY <1>3 DEF Return
  <2>4. \A x \in Clients \ {c} : rep'[x] = rep[x]
    BY <1>3 DEF Return
  <2>5. KV!Return(c)
    BY <2>1, <2>2, <2>3, <2>4 DEF IInv, TypeOK, KV!Return, KV!Pending
  <2> QED
    BY <2>5 DEF KV!Next
<1>4. CASE SetForward(c)
  <2>1. d'[N] = d[N]
    BY <1>4, NAssumption DEF SetForward
  <2> QED
    BY <1>4, <2>1, InternalStep DEF SetForward, PCs
<1>5. CASE SetTail(c)
  <2>1. KV!LinearizeSet(c)
    BY <1>5 DEF SetTail, IInv, TypeOK, CallInv, KV!LinearizeSet, KV!Pending
  <2> QED
    BY <2>1 DEF KV!Next
<1>6. CASE Get(c)
  <2>1. at[c] = N
    BY <1>6 DEF Get, IInv, CallInv, Servers
  <2>2. KV!LinearizeGet(c)
    BY <1>6, <2>1 DEF Get, IInv, TypeOK, KV!LinearizeGet, KV!Pending
  <2> QED
    BY <2>2 DEF KV!Next
<1>7. CASE GetKeyError(c) \/ Exhausted(c)
  BY <1>7, InternalStep DEF GetKeyError, Exhausted, PCs
<1>8. CASE CheckNone(c) \/ InitList(c) \/ ConnectAppend(c) \/ LenCheck(c) \/ Pop(c)
  BY <1>8, InternalStep DEF CheckNone, InitList, ConnectAppend, LenCheck, Pop, PCs
<1>9. CASE SendUp(c) \/ SendReset(c) \/ RecvReply(c)
  BY <1>9, InternalStep DEF SendUp, SendReset, RecvReply, PCs
<1>10. CASE SendEof(c)
  BY <1>10, FailStep DEF SendEof, KV!Next
<1>11. CASE RecvEof(c)
  BY <1>11, FailStep DEF RecvEof, KV!Next
<1> QED
  BY <1>1, <1>2, <1>3, <1>4, <1>5, <1>6, <1>7, <1>8, <1>9, <1>10, <1>11
     DEF Step, ClientStep, GetStep, SetStep

(***************************************************************************)
(* Every step of the chain is a step or a stutter of the abstract store.   *)
(***************************************************************************)
LEMMA NextRefines == IInv /\ [Next]_vars => [KV!Next]_(KV!vars)
<1> SUFFICES ASSUME IInv, [Next]_vars PROVE [KV!Next]_(KV!vars)
  OBVIOUS
<1>1. CASE UNCHANGED vars
  BY <1>1 DEF vars, KV!vars
<1>2. ASSUME NEW c \in Clients, NEW r \in Requests(c), Call(c, r)
      PROVE  KV!Next
  <2>1. KV!Call(c, r)
    BY <1>2 DEF Call, Goto, IInv, CallInv, KV!Call
  <2> QED
    BY <2>1 DEF KV!Next, Requests
<1> QED
  BY <1>1, <1>2, StepRefines DEF Next

(***************************************************************************)
(* The clients of the chain see one atomic store, although every server    *)
(* applies a SET before it forwards it and a failing hop leaves the        *)
(* servers different: all reads are served by the tail.                    *)
(***************************************************************************)
THEOREM Linearizability == Spec => Linearizable
  BY InductiveInvariant, InitRefines, NextRefines, PTL DEF Spec, Linearizable, KV!Spec

-----------------------------------------------------------------------------
(***************************************************************************)
(* Proofs about ChainReplication with one setter, the situation of         *)
(* cr_test.py: its SETs never fail and leave the servers equal, for every  *)
(* number of getters, every chain length and every pool size.  Everything  *)
(* is stated under OneSetter, which no later step can make true again.     *)
(***************************************************************************)

\* The setter has made a call; so many sockets of hop i are not in its list.
Active(c)  == req[c] # KV!NoReq \/ res[c] # KV!Pending
Away(c, i) == (IF sock[c][i] # None THEN 1 ELSE 0)
                + (IF at[c] = i /\ pc[c] = "build" THEN todo[c] ELSE 0)

\* Every socket that can be used is connected.
UpInv ==
  /\ \A c \in Setters : conn[c]["SET"] = "up"
  /\ \A i \in Hops, s \in Socks : state[i][s] \in {"new", "up"}
  /\ \A i \in Hops : list[i] # None =>
       \A j \in 1 .. Len(list[i]) : state[i][list[i][j]] = "up"
  /\ \A c \in Setters, i \in Hops : sock[c][i] # None => state[i][sock[c][i]] = "up"

\* A pool is built once, and its sockets are free, held, or still to connect.
CountInv ==
  /\ \A c \in Setters : Active(c) =>
       \A i \in Hops : list[i] # None => Len(list[i]) + Away(c, i) = PoolSz
  /\ \A i \in Hops : list[i] # None => \E c \in Setters : Active(c)
  /\ \A c \in Setters : pc[c] = "init" => list[at[c]] = None

\* The SET of c is on its way to the tail; server i has applied it.
Spreading(c) == req[c].op = "SET" /\ pc[c] \in Forwarding \cup {"handle"}
Passed(c, i) == i < at[c] \/ (i = at[c] /\ pc[c] # "handle")

\* The servers differ by the SET under way, and no SET is stuck.
DataInv ==
  /\ \A c \in Setters :
       req[c].op = "SET" => pc[c] \notin {"raised", "hung", "crashed"}
  /\ (\A c \in Setters : ~Spreading(c)) => \A i \in Servers : d[i] = d[N]
  /\ \A c \in Setters : Spreading(c) =>
       \A i \in Servers :
         d[i] = IF Passed(c, i) THEN [d[N] EXCEPT ![req[c].key] = req[c].val] ELSE d[N]

Lone    == UpInv /\ CountInv /\ DataInv
LoneInv == OneSetter => Lone

(***************************************************************************)
(* A setter that has called stays active, so OneSetter, once lost, is lost *)
(* for good: what holds under OneSetter only needs to be kept under it.    *)
(***************************************************************************)
LEMMA ActiveStays ==
  ASSUME IInv, [Next]_vars, NEW x \in Setters, Active(x) PROVE Active(x)'
<1> USE DEF Active
<1>1. CASE UNCHANGED vars
  BY <1>1 DEF vars
<1>2. ASSUME NEW c \in Clients, NEW r \in Requests(c), Call(c, r) PROVE Active(x)'
  BY <1>2 DEF Call, Requests, KV!Requests, KV!NoReq, IInv, TypeOK
<1>3. ASSUME NEW c \in Clients, Return(c) PROVE Active(x)'
  BY <1>3 DEF Return, Goto, IInv, TypeOK, CallInv, KV!Answers, KV!Pending
<1>4. ASSUME NEW c \in Clients, Step(c), ~Return(c) PROVE UNCHANGED <<req, res>>
  BY <1>4 DEF Step, ClientStep, GetStep, SetStep, ClientSend, ClientSendEof, ClientSendReset,
     Get, GetKeyError, SetForward, SetTail, CheckNone, InitList, ConnectAppend, LenCheck, Pop,
     Exhausted, SendUp, SendEof, SendReset, RecvReply, RecvEof
<1> QED
  BY <1>1, <1>2, <1>3, <1>4 DEF Next

LEMMA OneSetterStays == ASSUME IInv, [Next]_vars, OneSetter' PROVE OneSetter
<1>1. \A x \in Setters : Active(x) => Active(x)'
  BY ActiveStays
<1> QED
  BY <1>1 DEF OneSetter, Active

(***************************************************************************)
(* Next to an active setter the others have done nothing.                  *)
(***************************************************************************)
LEMMA Alone ==
  ASSUME IInv, OneSetter, NEW c \in Setters, Active(c), NEW x \in Setters, x # c
  PROVE  /\ ~Active(x) /\ req[x].op # "SET" /\ pc[x] = "idle"
         /\ \A i \in Hops : sock[x][i] = None
<1>1. ~Active(x)
  BY DEF OneSetter, Active
<1>2. req[x] = KV!NoReq /\ req[x].op # "SET"
  BY <1>1 DEF Active, KV!NoReq
<1>3. pc[x] = "idle"
  BY <1>2 DEF IInv, CallInv, Clients
<1>4. \A i \in Hops : sock[x][i] = None
  BY <1>2 DEF IInv, HoldInv
<1> QED
  BY <1>1, <1>2, <1>3, <1>4

(***************************************************************************)
(* A step that applies nothing and moves no SET along keeps DataInv.       *)
(***************************************************************************)
LEMMA DataKept ==
  ASSUME DataInv, UNCHANGED d,
         \A x \in Setters : Spreading(x)' <=> Spreading(x),
         \A x \in Setters : Spreading(x) =>
           req'[x] = req[x] /\ \A i \in Servers : Passed(x, i)' <=> Passed(x, i),
         \A x \in Setters :
           req'[x].op = "SET" => pc'[x] \notin {"raised", "hung", "crashed"}
  PROVE  DataInv'
<1>1. \A x \in Setters : Spreading(x)' =>
        \A i \in Servers :
          d'[i] = IF Passed(x, i)' THEN [d'[N] EXCEPT ![req'[x].key] = req'[x].val] ELSE d'[N]
  BY DEF DataInv
<1>2. (\A x \in Setters : ~Spreading(x)') => \A i \in Servers : d'[i] = d'[N]
  BY DEF DataInv
<1> QED
  BY <1>1, <1>2 DEF DataInv

LEMMA InitLone == Init => LoneInv
<1> SUFFICES ASSUME Init PROVE Lone
  BY DEF LoneInv
<1> USE NAssumption DEF Init
<1>1. UpInv
  BY DEF UpInv, Clients
<1>2. CountInv
  BY DEF CountInv, Clients
<1>3. DataInv
  BY DEF DataInv, Spreading, Forwarding, Clients, KV!NoReq, Servers
<1> QED
  BY <1>1, <1>2, <1>3 DEF Lone

(***************************************************************************)
(* A setter enters set: the servers agree.                                 *)
(***************************************************************************)
LEMMA CallLone ==
  ASSUME IInv, IInv', OneSetter, Lone, NEW c \in Clients, NEW r \in Requests(c), Call(c, r), OneSetter'
  PROVE  Lone'
<1> USE DEF Call, Goto, hops
<1>1. UpInv'
  BY DEF Lone, UpInv
<1>2. CountInv'
  <2>1. \A x \in Setters \ {c} : Active(x)' <=> Active(x)
    BY DEF Active
  <2>2. c \in Setters => Active(c)'
    BY DEF Active, Requests, KV!Requests, KV!NoReq, IInv, TypeOK
  <2>3. c \in Setters /\ ~Active(c) => \A i \in Hops : list[i] = None
    BY <2>1, <2>2 DEF Lone, CountInv, OneSetter, Active
  <2>4. \A x \in Setters, i \in Hops : Away(x, i)' = Away(x, i)
    BY DEF Away, IInv, TypeOK, Clients
  <2>5. \A x \in Setters : pc'[x] = "init" => pc[x] = "init"
    BY DEF IInv, TypeOK, Clients
  <2> QED
    BY <2>1, <2>2, <2>3, <2>4, <2>5 DEF Lone, CountInv
<1>3. DataInv'
  <2>1. \A x \in Setters : Spreading(x)' <=> Spreading(x)
    BY DEF Spreading, Forwarding, IInv, TypeOK, CallInv, KV!NoReq, Clients
  <2>2. \A x \in Setters : Spreading(x) =>
          req'[x] = req[x] /\ \A i \in Servers : Passed(x, i)' <=> Passed(x, i)
    BY DEF Spreading, Forwarding, Passed, IInv, TypeOK, Clients
  <2>3. \A x \in Setters : req'[x].op = "SET" => pc'[x] \notin {"raised", "hung", "crashed"}
    BY DEF Lone, DataInv, IInv, TypeOK, Clients
  <2> QED
    BY <2>1, <2>2, <2>3, DataKept DEF Lone
<1> QED
  BY <1>1, <1>2, <1>3 DEF Lone

(***************************************************************************)
(* The client library returns the answer.                                  *)
(***************************************************************************)
LEMMA ReturnLone ==
  ASSUME IInv, IInv', OneSetter, Lone, NEW c \in Clients, Return(c)
  PROVE  Lone'
<1> USE DEF Return, Goto, hops
<1>1. UpInv'
  BY DEF Lone, UpInv
<1>2. CountInv'
  <2>1. \A x \in Setters : Active(x)' => Active(x)
    BY DEF Active, IInv, TypeOK, CallInv, Clients
  <2>2. \A x \in Setters, i \in Hops : Away(x, i)' = Away(x, i)
    BY DEF Away, IInv, TypeOK, Clients
  <2>3. \A x \in Setters : pc'[x] = "init" => pc[x] = "init" /\ at'[x] = at[x]
    BY DEF IInv, TypeOK, Clients
  <2>4. UNCHANGED list /\ \A x \in Setters : Active(x) => Active(x)'
    BY DEF Active, IInv, TypeOK, CallInv, KV!Answers, KV!Pending
  <2> QED
    BY <2>1, <2>2, <2>3, <2>4 DEF Lone, CountInv
<1>3. DataInv'
  <2>1. \A x \in Setters : Spreading(x)' <=> Spreading(x)
    BY DEF Spreading, Forwarding, IInv, TypeOK, CallInv, KV!NoReq, Clients
  <2>2. \A x \in Setters : Spreading(x) =>
          req'[x] = req[x] /\ \A i \in Servers : Passed(x, i)' <=> Passed(x, i)
    BY DEF Spreading, Forwarding, Passed, IInv, TypeOK, CallInv, Clients, KV!NoReq
  <2>3. \A x \in Setters : req'[x].op = "SET" => pc'[x] \notin {"raised", "hung", "crashed"}
    BY DEF Lone, UpInv, DataInv, IInv, TypeOK, CallInv, KV!NoReq, KV!Requests, Clients
  <2> QED
    BY <2>1, <2>2, <2>3, DataKept DEF Lone
<1> QED
  BY <1>1, <1>2, <1>3 DEF Lone

(***************************************************************************)
(* The tail answers a GET, or raises for a key it does not have; the       *)
(* connection that is closed is the one for GETs.                          *)
(***************************************************************************)
LEMMA GetLone ==
  ASSUME IInv, IInv', OneSetter, Lone, NEW c \in Clients, GetStep(c)
  PROVE  Lone'
<1> USE DEF GetStep, Get, GetKeyError, CloseUpstream, Entry, Goto, hops
<1>0. req[c].op = "GET" /\ at[c] = N
  BY NAssumption DEF IInv, CallInv, Servers
<1> USE <1>0
<1>1. UpInv'
  <2>1. UNCHANGED <<list, state, sock>>
    OBVIOUS
  <2>2. \A x \in Setters : conn'[x]["SET"] = conn[x]["SET"]
    BY DEF IInv, TypeOK, Clients
  <2>3. UpInv
    BY DEF Lone
  <2>4. /\ \A x \in Setters : conn'[x]["SET"] = "up"
        /\ \A i \in Hops, s \in Socks : state'[i][s] \in {"new", "up"}
    BY <2>1, <2>2, <2>3 DEF UpInv
  <2>5. /\ \A i \in Hops : list'[i] # None =>
             \A j \in 1 .. Len(list'[i]) : state'[i][list'[i][j]] = "up"
        /\ \A x \in Setters, i \in Hops : sock'[x][i] # None => state'[i][sock'[x][i]] = "up"
    BY <2>1, <2>3 DEF UpInv
  <2> QED
    BY <2>4, <2>5 DEF UpInv
<1>2. CountInv'
  <2>1. \A x \in Setters : Active(x)' => Active(x)
    BY DEF Active, IInv, TypeOK, CallInv, Clients
  <2>2. \A x \in Setters, i \in Hops : Away(x, i)' = Away(x, i)
    BY DEF Away, IInv, TypeOK, Clients
  <2>3. \A x \in Setters : pc'[x] = "init" => pc[x] = "init" /\ at'[x] = at[x]
    BY DEF IInv, TypeOK, Clients
  <2>4. UNCHANGED list /\ \A x \in Setters : Active(x) => Active(x)'
    BY DEF Active, IInv, TypeOK, CallInv, KV!Answers, KV!Pending
  <2> QED
    BY <2>1, <2>2, <2>3, <2>4 DEF Lone, CountInv
<1>3. DataInv'
  <2>1. \A x \in Setters : Spreading(x)' <=> Spreading(x)
    BY DEF Spreading, Forwarding, IInv, TypeOK, CallInv, KV!NoReq, Clients
  <2>2. \A x \in Setters : Spreading(x) =>
          req'[x] = req[x] /\ \A i \in Servers : Passed(x, i)' <=> Passed(x, i)
    BY DEF Spreading, Forwarding, Passed, IInv, TypeOK, CallInv, Clients, KV!NoReq
  <2>3. \A x \in Setters : req'[x].op = "SET" => pc'[x] \notin {"raised", "hung", "crashed"}
    BY DEF Lone, UpInv, DataInv, IInv, TypeOK, CallInv, KV!NoReq, KV!Requests, Clients
  <2> QED
    BY <2>1, <2>2, <2>3, DataKept DEF Lone
<1> QED
  BY <1>1, <1>2, <1>3 DEF Lone

(***************************************************************************)
(* Only the connection for GETs can have been closed.                      *)
(***************************************************************************)
LEMMA SendFailsLone ==
  ASSUME IInv, IInv', OneSetter, Lone, NEW c \in Clients, ClientSendEof(c) \/ ClientSendReset(c)
  PROVE  Lone'
<1> USE DEF ClientSendEof, ClientSendReset, Goto, hops
<1>0. req[c].op # "SET"
  BY DEF Lone, UpInv, IInv, CallInv
<1> USE <1>0
<1>1. UpInv'
  <2>1. UNCHANGED <<list, state, sock>>
    OBVIOUS
  <2>2. \A x \in Setters : conn'[x]["SET"] = conn[x]["SET"]
    BY DEF IInv, TypeOK, Clients
  <2> QED
    BY <2>1, <2>2 DEF Lone, UpInv
<1>2. CountInv'
  <2>1. \A x \in Setters : Active(x)' => Active(x)
    BY DEF Active, IInv, TypeOK, CallInv, Clients
  <2>2. \A x \in Setters, i \in Hops : Away(x, i)' = Away(x, i)
    BY DEF Away, IInv, TypeOK, Clients
  <2>3. \A x \in Setters : pc'[x] = "init" => pc[x] = "init" /\ at'[x] = at[x]
    BY DEF IInv, TypeOK, Clients
  <2>4. UNCHANGED list /\ \A x \in Setters : Active(x) => Active(x)'
    BY DEF Active, IInv, TypeOK, CallInv, KV!Answers, KV!Pending
  <2> QED
    BY <2>1, <2>2, <2>3, <2>4 DEF Lone, CountInv
<1>3. DataInv'
  <2>1. \A x \in Setters : Spreading(x)' <=> Spreading(x)
    BY DEF Spreading, Forwarding, IInv, TypeOK, CallInv, KV!NoReq, Clients
  <2>2. \A x \in Setters : Spreading(x) =>
          req'[x] = req[x] /\ \A i \in Servers : Passed(x, i)' <=> Passed(x, i)
    BY DEF Spreading, Forwarding, Passed, IInv, TypeOK, CallInv, Clients, KV!NoReq
  <2>3. \A x \in Setters : req'[x].op = "SET" => pc'[x] \notin {"raised", "hung", "crashed"}
    BY DEF Lone, UpInv, DataInv, IInv, TypeOK, CallInv, KV!NoReq, KV!Requests, Clients
  <2> QED
    BY <2>1, <2>2, <2>3, DataKept DEF Lone
<1> QED
  BY <1>1, <1>2, <1>3 DEF Lone

(***************************************************************************)
(* The only handler that dies is that of a GET, next to its client.        *)
(***************************************************************************)
LEMMA RecvEofLone ==
  ASSUME IInv, IInv', OneSetter, Lone, NEW c \in Clients, RecvEof(c)
  PROVE  Lone'
<1> USE DEF RecvEof, Entry, Goto
<1>0. req[c].op = "GET" /\ at[c] = N
  BY NAssumption DEF Lone, DataInv, IInv, TypeOK, CallInv, Servers, KV!Requests, KV!NoReq
<1>a. UNCHANGED hops /\ at' = [at EXCEPT ![c] = 0]
  BY <1>0 DEF hops
<1> USE <1>0, <1>a DEF hops
<1>1. UpInv'
  <2>1. UNCHANGED <<list, state, sock>>
    OBVIOUS
  <2>2. \A x \in Setters : conn'[x]["SET"] = conn[x]["SET"]
    BY DEF IInv, TypeOK, Clients
  <2> QED
    BY <2>1, <2>2 DEF Lone, UpInv
<1>2. CountInv'
  <2>1. \A x \in Setters : Active(x)' => Active(x)
    BY DEF Active, IInv, TypeOK, CallInv, Clients
  <2>2. \A x \in Setters, i \in Hops : Away(x, i)' = Away(x, i)
    BY DEF Away, IInv, TypeOK, Clients
  <2>3. \A x \in Setters : pc'[x] = "init" => pc[x] = "init" /\ at'[x] = at[x]
    BY DEF IInv, TypeOK, Clients
  <2>4. UNCHANGED list /\ \A x \in Setters : Active(x) => Active(x)'
    BY DEF Active, IInv, TypeOK, CallInv, KV!Answers, KV!Pending
  <2> QED
    BY <2>1, <2>2, <2>3, <2>4 DEF Lone, CountInv
<1>3. DataInv'
  <2>1. \A x \in Setters : Spreading(x)' <=> Spreading(x)
    BY DEF Spreading, Forwarding, IInv, TypeOK, CallInv, KV!NoReq, Clients
  <2>2. \A x \in Setters : Spreading(x) =>
          req'[x] = req[x] /\ \A i \in Servers : Passed(x, i)' <=> Passed(x, i)
    BY DEF Spreading, Forwarding, Passed, IInv, TypeOK, CallInv, Clients, KV!NoReq
  <2>3. \A x \in Setters : req'[x].op = "SET" => pc'[x] \notin {"raised", "hung", "crashed"}
    BY DEF Lone, UpInv, DataInv, IInv, TypeOK, CallInv, KV!NoReq, KV!Requests, Clients
  <2> QED
    BY <2>1, <2>2, <2>3, DataKept DEF Lone
<1> QED
  BY <1>1, <1>2, <1>3 DEF Lone

(***************************************************************************)
(* The request reaches the head, or the tail.                              *)
(***************************************************************************)
LEMMA ClientSendLone ==
  ASSUME IInv, IInv', OneSetter, Lone, NEW c \in Clients, ClientSend(c)
  PROVE  Lone'
<1> USE DEF ClientSend, Goto, hops, Entry
<1>1. UpInv'
  BY DEF Lone, UpInv
<1>2. CountInv'
  <2>1. \A x \in Setters : Active(x)' => Active(x)
    BY DEF Active, IInv, TypeOK, CallInv, Clients
  <2>2. \A x \in Setters, i \in Hops : Away(x, i)' = Away(x, i)
    BY DEF Away, IInv, TypeOK, Clients
  <2>3. \A x \in Setters : pc'[x] = "init" => pc[x] = "init" /\ at'[x] = at[x]
    BY DEF IInv, TypeOK, Clients
  <2>4. UNCHANGED list /\ \A x \in Setters : Active(x) => Active(x)'
    BY DEF Active
  <2> QED
    BY <2>1, <2>2, <2>3, <2>4 DEF Lone, CountInv
<1>3. DataInv'
  <2>1. CASE req[c].op # "SET"
    <3>1. \A x \in Setters : Spreading(x)' <=> Spreading(x)
      BY <2>1 DEF Spreading, IInv, TypeOK, Clients
    <3>2. \A x \in Setters : Spreading(x) =>
            req'[x] = req[x] /\ \A i \in Servers : Passed(x, i)' <=> Passed(x, i)
      BY <2>1 DEF Spreading, Forwarding, Passed, IInv, TypeOK, Clients
    <3>3. \A x \in Setters : req'[x].op = "SET" => pc'[x] \notin {"raised", "hung", "crashed"}
      BY <2>1 DEF Lone, DataInv, IInv, TypeOK, Clients
    <3> QED
      BY <3>1, <3>2, <3>3, DataKept DEF Lone
  <2>2. CASE req[c].op = "SET"
    <3>0. c \in Setters /\ Active(c)
      BY <2>2 DEF IInv, CallInv, Active, KV!NoReq
    <3>1. \A x \in Setters : ~Spreading(x)
      BY <3>0, Alone DEF Spreading, Forwarding
    <3>2. \A i \in Servers : ~Passed(c, i)'
      BY <2>2 DEF Passed, Servers, IInv, TypeOK
    <3>3. \A x \in Setters \ {c} : ~Spreading(x)'
      BY <3>0, Alone DEF Spreading
    <3>4. \A x \in Setters : req[x].op = "SET" => pc'[x] \notin {"raised", "hung", "crashed"}
      BY <2>2 DEF Lone, DataInv, IInv, TypeOK, Clients
    <3> QED
      BY <3>1, <3>2, <3>3, <3>4 DEF Lone, DataInv
  <2> QED
    BY <2>1, <2>2
<1> QED
  BY <1>1, <1>2, <1>3 DEF Lone

(***************************************************************************)
(* A server applies the SET before it forwards it.                         *)
(***************************************************************************)
LEMMA SetForwardLone ==
  ASSUME IInv, IInv', OneSetter, Lone, NEW c \in Clients, SetForward(c)
  PROVE  Lone'
<1> USE DEF SetForward, Goto, hops
<1>0. c \in Setters /\ Active(c) /\ at[c] \in Hops /\ req[c].op = "SET"
  BY NAssumption DEF IInv, CallInv, Forwarding, Active, KV!NoReq, Hops, Servers
<1>a. \A x \in Setters \ {c} : /\ ~Active(x) /\ req[x].op # "SET" /\ pc[x] = "idle"
                               /\ \A j \in Hops : sock[x][j] = None
  BY <1>0, Alone
<1>1. UpInv'
  BY DEF Lone, UpInv
<1>2. CountInv'
  <2>1. \A x \in Setters : Active(x)' => Active(x)
    BY DEF Active, IInv, TypeOK, CallInv, Clients
  <2>2. \A x \in Setters, i \in Hops : Away(x, i)' = Away(x, i)
    BY DEF Away, IInv, TypeOK, Clients
  <2>3. \A x \in Setters : pc'[x] = "init" => pc[x] = "init" /\ at'[x] = at[x]
    BY DEF IInv, TypeOK, Clients
  <2>4. UNCHANGED list /\ \A x \in Setters : Active(x) => Active(x)'
    BY DEF Active
  <2> QED
    BY <2>1, <2>2, <2>3, <2>4 DEF Lone, CountInv
<1>3. DataInv'
  <2>1. Spreading(c) /\ Spreading(c)'
    BY <1>0 DEF Spreading, Forwarding, IInv, TypeOK
  <2>2. \A x \in Setters \ {c} : ~Spreading(x) /\ ~Spreading(x)'
    BY <1>a DEF Spreading
  <2>3. \A i \in Servers : Passed(c, i)' <=> Passed(c, i) \/ i = at[c]
    BY <1>0 DEF Passed, IInv, TypeOK, Servers, Hops
  <2>4. ~Passed(c, at[c]) /\ ~Passed(c, N) /\ at[c] # N /\ {at[c], N} \subseteq Servers
    BY <1>0, NAssumption DEF Passed, Servers, Hops
  <2>5. d'[N] = d[N] /\ \A i \in Servers : i # at[c] => d'[i] = d[i]
    BY <2>4 DEF IInv, TypeOK
  <2>a. \A i \in Servers : d[i] = IF Passed(c, i) THEN [d[N] EXCEPT ![req[c].key] = req[c].val]
                                                  ELSE d[N]
    BY <1>0, <2>1 DEF Lone, DataInv
  <2>6. d'[at[c]] = [d[N] EXCEPT ![req[c].key] = req[c].val]
    <3>1. d[at[c]] = d[N]
      BY <2>4, <2>a
    <3>2. d'[at[c]] = [d[at[c]] EXCEPT ![req[c].key] = req[c].val]
      BY <2>4 DEF IInv, TypeOK
    <3> QED
      BY <3>1, <3>2
  <2>7. \A x \in Setters : req[x].op = "SET" => pc'[x] \notin {"raised", "hung", "crashed"}
    BY <1>0 DEF Lone, DataInv, IInv, TypeOK, Clients
  <2>8. \A i \in Servers : d'[i] = IF Passed(c, i)' THEN [d'[N] EXCEPT ![req[c].key] = req[c].val]
                                                    ELSE d'[N]
    <3> TAKE i \in Servers
    <3>1. CASE i = at[c]
      BY <3>1, <2>3, <2>5, <2>6
    <3>2. CASE i # at[c]
      BY <3>2, <2>3, <2>5, <2>a
    <3> QED
      BY <3>1, <3>2
  <2> QED
    BY <1>0, <2>1, <2>2, <2>7, <2>8 DEF DataInv
<1> QED
  BY <1>1, <1>2, <1>3 DEF Lone

(***************************************************************************)
(* The tail is the last server to apply it: now all agree.                 *)
(***************************************************************************)
LEMMA SetTailLone ==
  ASSUME IInv, IInv', OneSetter, Lone, NEW c \in Clients, SetTail(c)
  PROVE  Lone'
<1> USE DEF SetTail, Goto, hops
<1>0. c \in Setters /\ Active(c) /\ at[c] \in {N} /\ req[c].op = "SET"
  BY NAssumption DEF IInv, CallInv, Forwarding, Active, KV!NoReq
<1>a. \A x \in Setters \ {c} : /\ ~Active(x) /\ req[x].op # "SET" /\ pc[x] = "idle"
                               /\ \A j \in Hops : sock[x][j] = None
  BY <1>0, Alone
<1>1. UpInv'
  BY DEF Lone, UpInv
<1>2. CountInv'
  <2>1. \A x \in Setters : Active(x)' => Active(x)
    BY DEF Active, IInv, TypeOK, CallInv, Clients
  <2>2. \A x \in Setters, i \in Hops : Away(x, i)' = Away(x, i)
    BY DEF Away, IInv, TypeOK, Clients
  <2>3. \A x \in Setters : pc'[x] = "init" => pc[x] = "init" /\ at'[x] = at[x]
    BY DEF IInv, TypeOK, Clients
  <2>4. UNCHANGED list /\ \A x \in Setters : Active(x) => Active(x)'
    BY DEF Active
  <2> QED
    BY <2>1, <2>2, <2>3, <2>4 DEF Lone, CountInv
<1>3. DataInv'
  <2>1. Spreading(c)
    BY <1>0 DEF Spreading
  <2>2. \A x \in Setters : ~Spreading(x)'
    BY <1>0, <1>a DEF Spreading, Forwarding, IInv, TypeOK, Clients
  <2>3. \A i \in Servers : Passed(c, i) <=> i # N
    BY <1>0, NAssumption DEF Passed, Servers
  <2>4. N \in Servers
    BY NAssumption DEF Servers
  <2>5. \A i \in Servers : d'[i] = [d[N] EXCEPT ![req[c].key] = req[c].val]
    BY <1>0, <2>1, <2>3, <2>4 DEF Lone, DataInv, IInv, TypeOK
  <2>6. \A x \in Setters : req[x].op = "SET" => pc'[x] \notin {"raised", "hung", "crashed"}
    BY <1>0 DEF Lone, DataInv, IInv, TypeOK, Clients
  <2> QED
    BY <2>2, <2>4, <2>5, <2>6 DEF DataInv
<1> QED
  BY <1>1, <1>2, <1>3 DEF Lone

(***************************************************************************)
(* The pool exists, or is to be built.                                     *)
(***************************************************************************)
LEMMA CheckNoneLone ==
  ASSUME IInv, IInv', OneSetter, Lone, NEW c \in Clients, CheckNone(c)
  PROVE  Lone'
<1> USE DEF CheckNone, Goto, hops
<1>0. c \in Setters /\ Active(c) /\ at[c] \in Hops /\ req[c].op = "SET"
  BY NAssumption DEF IInv, CallInv, Forwarding, Active, KV!NoReq
<1>a. \A x \in Setters \ {c} : /\ ~Active(x) /\ req[x].op # "SET" /\ pc[x] = "idle"
                               /\ \A j \in Hops : sock[x][j] = None
  BY <1>0, Alone
<1>1. UpInv'
  BY DEF Lone, UpInv
<1>2. CountInv'
  <2>1. \A x \in Setters, i \in Hops : Away(x, i)' = Away(x, i)
    BY DEF Away, IInv, TypeOK, Clients
  <2>2. \A x \in Setters : pc'[x] = "init" => list[at[x]] = None
    BY <1>0, <1>a DEF IInv, TypeOK, Clients
  <2> QED
    BY <2>1, <2>2 DEF Lone, CountInv, Active
<1>3. DataInv'
  <2>1. \A x \in Setters : Spreading(x)' <=> Spreading(x)
    BY <1>0 DEF Spreading, Forwarding, IInv, TypeOK, Clients
  <2>2. \A x \in Setters : Spreading(x) =>
          req'[x] = req[x] /\ \A i \in Servers : Passed(x, i)' <=> Passed(x, i)
    BY <1>0, <1>a DEF Spreading, Passed, IInv, TypeOK, Clients, Servers, Hops
  <2>3. \A x \in Setters : req'[x].op = "SET" => pc'[x] \notin {"raised", "hung", "crashed"}
    BY <1>0 DEF Lone, DataInv, IInv, TypeOK, Clients
  <2> QED
    BY <2>1, <2>2, <2>3, DataKept DEF Lone
<1> QED
  BY <1>1, <1>2, <1>3 DEF Lone

(***************************************************************************)
(* The pool is not empty.                                                  *)
(***************************************************************************)
LEMMA LenCheckLone ==
  ASSUME IInv, IInv', OneSetter, Lone, NEW c \in Clients, LenCheck(c)
  PROVE  Lone'
<1> USE DEF LenCheck, Goto, hops
<1>0. c \in Setters /\ Active(c) /\ at[c] \in Hops /\ req[c].op = "SET"
  BY NAssumption DEF IInv, CallInv, Forwarding, Active, KV!NoReq
<1>a. \A x \in Setters \ {c} : /\ ~Active(x) /\ req[x].op # "SET" /\ pc[x] = "idle"
                               /\ \A j \in Hops : sock[x][j] = None
  BY <1>0, Alone
<1>1. UpInv'
  BY DEF Lone, UpInv
<1>2. CountInv'
  <2>1. \A x \in Setters, i \in Hops : Away(x, i)' = Away(x, i)
    BY DEF Away, IInv, TypeOK, Clients
  <2>2. \A x \in Setters : pc'[x] = "init" => pc[x] = "init"
    BY DEF IInv, TypeOK, Clients
  <2> QED
    BY <2>1, <2>2 DEF Lone, CountInv, Active
<1>3. DataInv'
  <2>1. \A x \in Setters : Spreading(x)' <=> Spreading(x)
    BY <1>0 DEF Spreading, Forwarding, IInv, TypeOK, Clients
  <2>2. \A x \in Setters : Spreading(x) =>
          req'[x] = req[x] /\ \A i \in Servers : Passed(x, i)' <=> Passed(x, i)
    BY <1>0, <1>a DEF Spreading, Passed, IInv, TypeOK, Clients, Servers, Hops
  <2>3. \A x \in Setters : req'[x].op = "SET" => pc'[x] \notin {"raised", "hung", "crashed"}
    BY <1>0 DEF Lone, DataInv, IInv, TypeOK, Clients
  <2> QED
    BY <2>1, <2>2, <2>3, DataKept DEF Lone
<1> QED
  BY <1>1, <1>2, <1>3 DEF Lone

(***************************************************************************)
(* The building of the pool begins: it is not rebound over another list.   *)
(***************************************************************************)
LEMMA InitListLone ==
  ASSUME IInv, IInv', OneSetter, Lone, NEW c \in Clients, InitList(c)
  PROVE  Lone'
<1> USE DEF InitList, Goto, hops
<1>0. c \in Setters /\ Active(c) /\ at[c] \in Hops /\ req[c].op = "SET"
  BY NAssumption DEF IInv, CallInv, Forwarding, Active, KV!NoReq
<1>a. \A x \in Setters \ {c} : /\ ~Active(x) /\ req[x].op # "SET" /\ pc[x] = "idle"
                               /\ \A j \in Hops : sock[x][j] = None
  BY <1>0, Alone
<1>1. UpInv'
  <2>1. \A i \in Hops : i # at[c] => list'[i] = list[i]
    BY DEF IInv, TypeOK
  <2>2. list'[at[c]] = <<>>
    BY <1>0 DEF IInv, TypeOK
  <2> QED
    BY <2>1, <2>2 DEF Lone, UpInv
<1>2. CountInv'
  <2>1. \A i \in Hops : i # at[c] => list'[i] = list[i] /\ Away(c, i)' = Away(c, i)
    BY <1>0 DEF Away, IInv, TypeOK
  <2>2. list'[at[c]] = <<>> /\ Away(c, at[c])' = PoolSz
    BY <1>0, PoolSzAssumption DEF Away, IInv, TypeOK, HoldInv
  <2>3. \A x \in Setters : pc'[x] # "init"
    BY <1>a DEF IInv, TypeOK, Clients
  <2>4. \A i \in Hops : list'[i] # None => Len(list'[i]) + Away(c, i)' = PoolSz
    BY <1>0, <2>1, <2>2, PoolSzAssumption DEF Lone, CountInv
  <2> QED
    BY <1>0, <1>a, <2>3, <2>4 DEF CountInv, Active
<1>3. DataInv'
  <2>1. \A x \in Setters : Spreading(x)' <=> Spreading(x)
    BY <1>0 DEF Spreading, Forwarding, IInv, TypeOK, Clients
  <2>2. \A x \in Setters : Spreading(x) =>
          req'[x] = req[x] /\ \A i \in Servers : Passed(x, i)' <=> Passed(x, i)
    BY <1>0, <1>a DEF Spreading, Passed, IInv, TypeOK, Clients, Servers, Hops
  <2>3. \A x \in Setters : req'[x].op = "SET" => pc'[x] \notin {"raised", "hung", "crashed"}
    BY <1>0 DEF Lone, DataInv, IInv, TypeOK, Clients
  <2> QED
    BY <2>1, <2>2, <2>3, DataKept DEF Lone
<1> QED
  BY <1>1, <1>2, <1>3 DEF Lone

(***************************************************************************)
(* One more socket is connected.                                           *)
(***************************************************************************)
LEMMA ConnectAppendLone ==
  ASSUME IInv, IInv', OneSetter, Lone, NEW c \in Clients, ConnectAppend(c)
  PROVE  Lone'
<1> USE DEF ConnectAppend, Goto, hops
<1>0. c \in Setters /\ Active(c) /\ at[c] \in Hops /\ req[c].op = "SET"
  BY NAssumption DEF IInv, CallInv, Forwarding, Active, KV!NoReq
<1>a. \A x \in Setters \ {c} : /\ ~Active(x) /\ req[x].op # "SET" /\ pc[x] = "idle"
                               /\ \A j \in Hops : sock[x][j] = None
  BY <1>0, Alone
<1>h. PICK h \in Hops : h = at[c]
  BY <1>0
<1> DEFINE s == <<c, todo[c]>>
<1>b. list[h] \in Seq(Socks) /\ s \in Socks /\ todo[c] \in 1 .. PoolSz
  BY <1>0, <1>h DEF IInv, TypeOK, CallInv, ListInv, Socks
<1>c. /\ list'[h] = Append(list[h], s) /\ state'[h][s] = "up"
      /\ \A i \in Hops : i # h => list'[i] = list[i] /\ state'[i] = state[i]
      /\ \A x \in Socks : x # s => state'[h][x] = state[h][x]
  BY <1>0, <1>b, <1>h DEF IInv, TypeOK
<1> HIDE DEF s
<1>1. UpInv'
  <2>1. \A i \in Hops, x \in Socks : state[i][x] = "up" => state'[i][x] = "up"
    BY <1>c
  <2>2. \A i \in Hops, x \in Socks : state'[i][x] \in {"new", "up"}
    BY <1>c DEF Lone, UpInv
  <2>3. \A j \in 1 .. Len(list'[h]) : state'[h][list'[h][j]] = "up"
    <3> TAKE j \in 1 .. Len(list'[h])
    <3>1. CASE j = Len(list[h]) + 1
      <4>1. list'[h][j] = s
        BY <3>1, <1>b, <1>c
      <4> QED
        BY <4>1, <1>c
    <3>2. CASE j \in 1 .. Len(list[h])
      <4>1. list'[h][j] = list[h][j] /\ list[h][j] \in Socks
        BY <3>2, <1>b, <1>c
      <4>2. list[h] # None
        BY <1>b, NoneAssumption
      <4> QED
        BY <1>0, <2>1, <3>2, <4>1, <4>2 DEF Lone, UpInv
    <3> QED
      BY <3>1, <3>2, <1>b, <1>c
  <2>4. \A i \in Hops : i # h /\ list[i] # None =>
          \A j \in 1 .. Len(list[i]) : state'[i][list'[i][j]] = "up"
    BY <1>c DEF Lone, UpInv
  <2>5. \A x \in Setters, i \in Hops : sock[x][i] # None => state'[i][sock[x][i]] = "up"
    BY <2>1 DEF Lone, UpInv, IInv, TypeOK
  <2>6. \A x \in Setters : conn[x]["SET"] = "up"
    BY DEF Lone, UpInv
  <2>7. \A i \in Hops : list'[i] # None =>
          \A j \in 1 .. Len(list'[i]) : state'[i][list'[i][j]] = "up"
    <3> TAKE i \in Hops
    <3>1. CASE i = h
      BY <3>1, <2>3
    <3>2. CASE i # h
      <4>1. list'[i] = list[i]
        BY <3>2, <1>c
      <4> QED
        BY <3>2, <4>1, <2>4
    <3> QED
      BY <3>1, <3>2
  <2> QED
    BY <2>2, <2>5, <2>6, <2>7 DEF UpInv
<1>2. CountInv'
  <2>1. \A i \in Hops : i # h => list'[i] = list[i] /\ Away(c, i)' = Away(c, i)
    BY <1>0, <1>c, <1>h, NAssumption DEF Hops, Away, IInv, TypeOK
  <2>2. Len(list'[h]) = Len(list[h]) + 1
    BY <1>b, <1>c
  <2>3. sock[c][h] = None
    BY <1>0, <1>h, NAssumption DEF IInv, HoldInv, Hops
  <2>4. Away(c, h) = todo[c] /\ Away(c, h)' = todo[c] - 1
    BY <1>0, <1>b, <1>h, <2>3 DEF Away, IInv, TypeOK
  <2>5. list[h] # None /\ Len(list[h]) \in Nat
    BY <1>b, NoneAssumption
  <2>6. \A i \in Hops : list'[i] # None => Len(list'[i]) + Away(c, i)' = PoolSz
    <3>1. Len(list[h]) + Away(c, h) = PoolSz
      BY <1>0, <2>5 DEF Lone, CountInv
    <3>2. Len(list'[h]) + Away(c, h)' = PoolSz
      BY <1>b, <2>2, <2>4, <2>5, <3>1, PoolSzAssumption
    <3> QED
      BY <1>0, <2>1, <3>2 DEF Lone, CountInv
  <2>7. \A x \in Setters : pc'[x] # "init"
    BY <1>a DEF IInv, TypeOK, Clients
  <2> QED
    BY <1>0, <1>a, <2>6, <2>7 DEF CountInv, Active
<1>3. DataInv'
  <2>1. \A x \in Setters : Spreading(x)' <=> Spreading(x)
    BY <1>0 DEF Spreading, Forwarding, IInv, TypeOK, Clients
  <2>2. \A x \in Setters : Spreading(x) =>
          req'[x] = req[x] /\ \A i \in Servers : Passed(x, i)' <=> Passed(x, i)
    BY <1>0, <1>a DEF Spreading, Passed, IInv, TypeOK, Clients, Servers, Hops
  <2>3. \A x \in Setters : req'[x].op = "SET" => pc'[x] \notin {"raised", "hung", "crashed"}
    BY <1>0 DEF Lone, DataInv, IInv, TypeOK, Clients
  <2> QED
    BY <2>1, <2>2, <2>3, DataKept DEF Lone
<1> QED
  BY <1>1, <1>2, <1>3 DEF Lone

(***************************************************************************)
(* A socket is taken.                                                      *)
(***************************************************************************)
LEMMA PopLone ==
  ASSUME IInv, IInv', OneSetter, Lone, NEW c \in Clients, Pop(c)
  PROVE  Lone'
<1> USE DEF Pop, Goto, hops
<1>0. c \in Setters /\ Active(c) /\ at[c] \in Hops /\ req[c].op = "SET"
  BY NAssumption DEF IInv, CallInv, Forwarding, Active, KV!NoReq
<1>a. \A x \in Setters \ {c} : /\ ~Active(x) /\ req[x].op # "SET" /\ pc[x] = "idle"
                               /\ \A j \in Hops : sock[x][j] = None
  BY <1>0, Alone
<1>h. PICK h \in Hops : h = at[c]
  BY <1>0
<1> DEFINE n == Len(list[h])
<1>b. list[h] \in Seq(Socks) /\ list[h] # None /\ n \in Nat \ {0}
  BY <1>0, <1>h, NoneAssumption DEF IInv, TypeOK, ListInv
<1>c. /\ list'[h] = SubSeq(list[h], 1, n - 1) /\ sock'[c][h] = list[h][n]
      /\ \A i \in Hops : i # h => list'[i] = list[i] /\ sock'[c][i] = sock[c][i]
      /\ \A x \in Setters : x # c => sock'[x] = sock[x]
  BY <1>0, <1>h DEF IInv, TypeOK
<1>d. /\ Len(list'[h]) = n - 1 /\ list[h][n] \in Socks
      /\ \A j \in 1 .. n - 1 : list'[h][j] = list[h][j]
  BY <1>b, <1>c
<1>1. UpInv'
  <2>1. \A j \in 1 .. n : state[h][list[h][j]] = "up"
    BY <1>0, <1>b DEF Lone, UpInv
  <2>2. \A i \in Hops : list'[i] # None =>
          \A j \in 1 .. Len(list'[i]) : state[i][list'[i][j]] = "up"
    <3> TAKE i \in Hops
    <3>1. CASE i = h
      BY <3>1, <1>b, <1>d, <2>1
    <3>2. CASE i # h
      <4>1. list'[i] = list[i]
        BY <3>2, <1>c
      <4> QED
        BY <4>1 DEF Lone, UpInv
    <3> QED
      BY <3>1, <3>2
  <2>3. state[h][sock'[c][h]] = "up"
    BY <1>b, <1>c, <2>1
  <2>4. \A x \in Setters, i \in Hops : sock'[x][i] # None => state[i][sock'[x][i]] = "up"
    BY <1>c, <2>3 DEF Lone, UpInv
  <2> QED
    BY <2>2, <2>4 DEF Lone, UpInv
<1>2. CountInv'
  <2>1. \A i \in Hops : i # h => list'[i] = list[i] /\ Away(c, i)' = Away(c, i)
    BY <1>0, <1>c, <1>h, NAssumption DEF Hops, Away, IInv, TypeOK
  <2>2. sock[c][h] = None /\ sock'[c][h] # None
    BY <1>0, <1>c, <1>d, <1>h, NAssumption, NoneAssumption DEF IInv, HoldInv, Hops
  <2>3. Away(c, h) = 0 /\ Away(c, h)' = 1
    BY <1>0, <1>h, <2>2 DEF Away, IInv, TypeOK
  <2>4. n + 0 = PoolSz
    BY <1>0, <1>b, <2>3 DEF Lone, CountInv
  <2>5. \A i \in Hops : list'[i] # None => Len(list'[i]) + Away(c, i)' = PoolSz
    BY <1>0, <1>b, <1>d, <2>1, <2>3, <2>4 DEF Lone, CountInv
  <2>6. \A x \in Setters : pc'[x] # "init"
    BY <1>a DEF IInv, TypeOK, Clients
  <2> QED
    BY <1>0, <1>a, <2>5, <2>6 DEF CountInv, Active
<1>3. DataInv'
  <2>1. \A x \in Setters : Spreading(x)' <=> Spreading(x)
    BY <1>0 DEF Spreading, Forwarding, IInv, TypeOK, Clients
  <2>2. \A x \in Setters : Spreading(x) =>
          req'[x] = req[x] /\ \A i \in Servers : Passed(x, i)' <=> Passed(x, i)
    BY <1>0, <1>a DEF Spreading, Passed, IInv, TypeOK, Clients, Servers, Hops
  <2>3. \A x \in Setters : req'[x].op = "SET" => pc'[x] \notin {"raised", "hung", "crashed"}
    BY <1>0 DEF Lone, DataInv, IInv, TypeOK, Clients
  <2> QED
    BY <2>1, <2>2, <2>3, DataKept DEF Lone
<1> QED
  BY <1>1, <1>2, <1>3 DEF Lone

(***************************************************************************)
(* The pool is never empty for the only thread that takes from it.         *)
(***************************************************************************)
LEMMA ExhaustedLone ==
  ASSUME IInv, IInv', OneSetter, Lone, NEW c \in Clients, Exhausted(c)
  PROVE  Lone'
<1> USE DEF Exhausted
<1>0. c \in Setters /\ Active(c) /\ at[c] \in Hops
  BY DEF IInv, CallInv, Forwarding, Active, KV!NoReq
<1>1. list[at[c]] # None /\ sock[c][at[c]] = None
  BY <1>0, NAssumption DEF IInv, ListInv, HoldInv, Hops
<1>2. Len(list[at[c]]) + Away(c, at[c]) = PoolSz
  BY <1>0, <1>1 DEF Lone, CountInv
<1>3. Away(c, at[c]) = 0 /\ Len(list[at[c]]) = 0
  BY <1>1 DEF Away
<1> QED
  BY <1>2, <1>3, PoolSzAssumption

(***************************************************************************)
(* The next server handles the SET.                                        *)
(***************************************************************************)
LEMMA SendUpLone ==
  ASSUME IInv, IInv', OneSetter, Lone, NEW c \in Clients, SendUp(c)
  PROVE  Lone'
<1> USE DEF SendUp, Goto, hops
<1>0. c \in Setters /\ Active(c) /\ at[c] \in Hops /\ req[c].op = "SET"
  BY NAssumption DEF IInv, CallInv, Forwarding, Active, KV!NoReq
<1>a. \A x \in Setters \ {c} : /\ ~Active(x) /\ req[x].op # "SET" /\ pc[x] = "idle"
                               /\ \A j \in Hops : sock[x][j] = None
  BY <1>0, Alone
<1>1. UpInv'
  BY DEF Lone, UpInv
<1>2. CountInv'
  <2>1. \A x \in Setters, i \in Hops : Away(x, i)' = Away(x, i)
    BY DEF Away, IInv, TypeOK, Clients
  <2>2. \A x \in Setters : pc'[x] # "init"
    BY <1>a DEF IInv, TypeOK, Clients
  <2> QED
    BY <2>1, <2>2 DEF Lone, CountInv, Active
<1>3. DataInv'
  <2>1. \A x \in Setters : Spreading(x)' <=> Spreading(x)
    BY <1>0 DEF Spreading, Forwarding, IInv, TypeOK, Clients
  <2>2. \A i \in Servers : Passed(c, i)' <=> Passed(c, i)
    BY <1>0 DEF Passed, IInv, TypeOK, Servers, Hops
  <2>3. \A x \in Setters : Spreading(x) => x = c
    BY <1>a DEF Spreading
  <2>4. \A x \in Setters : req'[x].op = "SET" => pc'[x] \notin {"raised", "hung", "crashed"}
    BY <1>0 DEF Lone, DataInv, IInv, TypeOK, Clients
  <2> QED
    BY <2>1, <2>2, <2>3, <2>4, DataKept DEF Lone
<1> QED
  BY <1>1, <1>2, <1>3 DEF Lone

(***************************************************************************)
(* No pooled socket was ever closed.                                       *)
(***************************************************************************)
LEMMA SendClosedLone ==
  ASSUME IInv, IInv', OneSetter, Lone, NEW c \in Clients, SendEof(c) \/ SendReset(c)
  PROVE  Lone'
<1>1. c \in Setters /\ at[c] \in Hops /\ req[c].op = "SET" /\ pc[c] = "send"
  BY DEF SendEof, SendReset, Goto, IInv, CallInv, Forwarding
<1>2. sock[c][at[c]] # None
  BY <1>1 DEF IInv, HoldInv
<1> QED
  BY <1>1, <1>2 DEF Lone, UpInv, SendEof, SendReset

(***************************************************************************)
(* The socket goes back to the pool of the server before.                  *)
(***************************************************************************)
LEMMA RecvReplyLone ==
  ASSUME IInv, IInv', OneSetter, Lone, NEW c \in Clients, RecvReply(c)
  PROVE  Lone'
<1> USE DEF RecvReply, Goto, Release, Entry
<1>0. c \in Setters /\ Active(c) /\ at[c] - 1 \in Hops /\ req[c].op = "SET"
  BY NAssumption DEF IInv, CallInv, TypeOK, Hops, Active, KV!NoReq
<1>a. \A x \in Setters \ {c} : /\ ~Active(x) /\ req[x].op # "SET" /\ pc[x] = "idle"
                               /\ \A j \in Hops : sock[x][j] = None
  BY <1>0, Alone
<1>h. PICK h \in Hops : h = at[c] - 1
  BY <1>0
<1> DEFINE s == sock[c][h]
<1>b. s \in Socks /\ list[h] \in Seq(Socks) /\ list[h] # None /\ s # None
  BY <1>0, <1>h, NAssumption, NoneAssumption DEF Hops, IInv, HoldInv, ListInv, TypeOK
<1>c. /\ list'[h] = Append(list[h], s) /\ sock'[c][h] = None
      /\ \A i \in Hops : i # h => list'[i] = list[i] /\ sock'[c][i] = sock[c][i]
      /\ \A x \in Setters : x # c => sock'[x] = sock[x]
  BY <1>0, <1>h DEF IInv, TypeOK
<1>d. /\ Len(list[h]) \in Nat /\ Len(list'[h]) = Len(list[h]) + 1
      /\ list'[h][Len(list[h]) + 1] = s
      /\ \A j \in 1 .. Len(list[h]) : list'[h][j] = list[h][j]
  BY <1>b, <1>c
<1>1. UpInv'
  <2>1. state[h][s] = "up" /\ \A j \in 1 .. Len(list[h]) : state[h][list[h][j]] = "up"
    BY <1>0, <1>b DEF Lone, UpInv
  <2>2. \A i \in Hops : list'[i] # None =>
          \A j \in 1 .. Len(list'[i]) : state[i][list'[i][j]] = "up"
    BY <1>c, <1>d, <2>1 DEF Lone, UpInv
  <2>3. \A x \in Setters, i \in Hops : sock'[x][i] # None => state[i][sock'[x][i]] = "up"
    BY <1>c DEF Lone, UpInv
  <2> QED
    BY <2>2, <2>3 DEF Lone, UpInv
<1>2. CountInv'
  <2>1. \A i \in Hops : i # h => list'[i] = list[i] /\ Away(c, i)' = Away(c, i)
    BY <1>0, <1>c, <1>h, NAssumption DEF Hops, Away, IInv, TypeOK
  <2>2. Away(c, h) = 1 /\ Away(c, h)' = 0
    BY <1>0, <1>b, <1>c, <1>h, NAssumption DEF Hops, Away, IInv, TypeOK
  <2>3. Len(list[h]) + Away(c, h) = PoolSz
    BY <1>0, <1>b DEF Lone, CountInv
  <2>4. \A i \in Hops : list'[i] # None => Len(list'[i]) + Away(c, i)' = PoolSz
    BY <1>0, <1>d, <2>1, <2>2, <2>3 DEF Lone, CountInv
  <2>5. \A x \in Setters : pc'[x] # "init"
    BY <1>a DEF IInv, TypeOK, Clients
  <2> QED
    BY <1>0, <1>a, <2>4, <2>5 DEF CountInv, Active
<1>3. DataInv'
  <2>1. \A x \in Setters : Spreading(x)' <=> Spreading(x)
    BY <1>0 DEF Spreading, Forwarding, IInv, TypeOK, Clients
  <2>2. \A x \in Setters : Spreading(x) =>
          req'[x] = req[x] /\ \A i \in Servers : Passed(x, i)' <=> Passed(x, i)
    BY <1>0, <1>a DEF Spreading, Forwarding, Passed, IInv, TypeOK, Clients, Servers, Hops
  <2>3. \A x \in Setters : req'[x].op = "SET" => pc'[x] \notin {"raised", "hung", "crashed"}
    BY <1>0 DEF Lone, DataInv, IInv, TypeOK, Clients
  <2> QED
    BY <2>1, <2>2, <2>3, DataKept DEF Lone
<1> QED
  BY <1>1, <1>2, <1>3 DEF Lone

(***************************************************************************)
(* Every step keeps what holds while one client sets.                      *)
(***************************************************************************)
LEMMA NextLone == IInv /\ IInv' /\ LoneInv /\ [Next]_vars => LoneInv'
<1> SUFFICES ASSUME IInv, IInv', LoneInv, [Next]_vars, OneSetter' PROVE Lone'
  BY DEF LoneInv
<1>0. OneSetter /\ Lone
  BY OneSetterStays DEF LoneInv
<1>1. CASE UNCHANGED vars
  BY <1>0, <1>1 DEF vars, Lone, UpInv, CountInv, DataInv, Active, Away, Spreading, Passed
<1>2. ASSUME NEW c \in Clients, NEW r \in Requests(c), Call(c, r) PROVE Lone'
  BY <1>0, <1>2, CallLone
<1>3. ASSUME NEW c \in Clients, ClientStep(c) \/ GetStep(c) \/ RecvEof(c) PROVE Lone'
  BY <1>0, <1>3, ClientSendLone, SendFailsLone, ReturnLone, GetLone, RecvEofLone DEF ClientStep
<1>4. ASSUME NEW c \in Clients, SetStep(c) PROVE Lone'
  BY <1>0, <1>4, SetForwardLone, SetTailLone, CheckNoneLone, InitListLone, ConnectAppendLone,
     LenCheckLone, PopLone, ExhaustedLone, SendUpLone, SendClosedLone, RecvReplyLone DEF SetStep
<1> QED
  BY <1>1, <1>2, <1>3, <1>4 DEF Next, Step

LEMMA LoneInvariant == Spec => []LoneInv
  BY InductiveInvariant, InitLone, NextLone, PTL DEF Spec

(***************************************************************************)
(* As long as one client sets, no SET fails and no connection between the  *)
(* servers is lost, whatever the getters do.                               *)
(***************************************************************************)
THEOREM NeverRefused == Spec => []LoneSetterNeverFails
<1>1. LoneInv => LoneSetterNeverFails
  BY DEF LoneInv, Lone, UpInv, LoneSetterNeverFails
<1> QED
  BY <1>1, LoneInvariant, PTL

(***************************************************************************)
(* As long as one client sets, all servers are equal between its SETs.     *)
(***************************************************************************)
THEOREM ReplicasEqual == Spec => []LoneReplicasAgree
<1>1. LoneInv => LoneReplicasAgree
  BY DEF LoneInv, Lone, DataInv, Spreading, LoneReplicasAgree, ReplicasAgree
<1> QED
  BY <1>1, LoneInvariant, PTL

-----------------------------------------------------------------------------
(***************************************************************************)
(* The pools: every hop of the chain is a TcpClient whose far end is the   *)
(* handler of the next server.  Their invariant is needed for the steps:   *)
(* what is on a socket belongs to the one setter that holds it.            *)
(***************************************************************************)

\* At every hop a socket has one holder.
HoldersInv ==
  \A i \in Hops : \A c, x \in Setters :
    sock[c][i] # None /\ sock[x][i] = sock[c][i] => x = c

\* The free list has connected sockets that nobody holds, each once.
FreeInv ==
  \A i \in Hops : list[i] # None =>
    /\ \A n \in 1 .. Len(list[i]) :
         state[i][list[i][n]] # "new" /\ \A c \in Setters : sock[c][i] # list[i][n]
    /\ \A m, n \in 1 .. Len(list[i]) : list[i][m] = list[i][n] => m = n

\* What a handler is going to connect does not exist yet.
NewInv ==
  /\ \A i \in Hops, c \in Setters : sock[c][i] # None => state[i][sock[c][i]] # "new"
  /\ \A i \in Hops : list[i] = None => \A s \in Socks : state[i][s] = "new"
  /\ \A c \in Setters :
       /\ pc[c] = "init" => \A n \in 1 .. PoolSz : state[at[c]][<<c, n>>] = "new"
       /\ pc[c] = "build" => \A n \in 1 .. todo[c] : state[at[c]][<<c, n>>] = "new"
       /\ pc[c] # "build" => todo[c] = 0

\* A connection is up until the handler at its far end has raised.
FarInv ==
  \A i \in Hops, c \in Setters : sock[c][i] # None =>
    /\ Pending(c, i) => state[i][sock[c][i]] = "up"
    /\ at[c] = i + 1 /\ pc[c] = "raised" => state[i][sock[c][i]] # "up"

PoolInv == HoldersInv /\ FreeInv /\ NewInv /\ FarInv

LEMMA InitPoolInv == Init => PoolInv
<1> SUFFICES ASSUME Init PROVE PoolInv
  OBVIOUS
<1> USE DEF Init
<1>1. HoldersInv
  BY DEF HoldersInv
<1>2. FreeInv
  BY DEF FreeInv
<1>3. NewInv
  BY DEF NewInv, Clients
<1>4. FarInv
  BY DEF FarInv
<1> QED
  BY <1>1, <1>2, <1>3, <1>4 DEF PoolInv

(***************************************************************************)
(* Steps that leave the lists and the sockets alone and close nothing.     *)
(***************************************************************************)
LEMMA QuietPool ==
  ASSUME IInv, IInv', PoolInv, NEW c \in Clients, UNCHANGED hops,
         \A x \in Setters \ {c} : pc'[x] = pc[x] /\ at'[x] = at[x],
         c \in Setters =>
           /\ pc[c] # "build" /\ pc'[c] # "build"
           /\ pc'[c] = "init" => at'[c] \in Hops /\ list[at'[c]] = None,
         \A i \in Hops : c \in Setters /\ sock[c][i] # None =>
           /\ Pending(c, i)' => Pending(c, i) \/ state[i][sock[c][i]] = "up"
           /\ at'[c] = i + 1 /\ pc'[c] = "raised" => at[c] = i + 1 /\ pc[c] = "raised"
  PROVE  PoolInv'
<1> USE DEF hops
<1>1. HoldersInv'
  BY DEF PoolInv, HoldersInv
<1>2. FreeInv'
  BY DEF PoolInv, FreeInv
<1>3. NewInv'
  <2>1. \A n \in 1 .. PoolSz : c \in Setters => <<c, n>> \in Socks
    BY DEF Socks
  <2> QED
    BY <2>1 DEF PoolInv, NewInv
<1>4. FarInv'
  <2>1. \A x \in Setters \ {c}, i \in Hops : Pending(x, i)' <=> Pending(x, i)
    BY DEF Pending, Done
  <2> QED
    BY <2>1 DEF PoolInv, FarInv
<1> QED
  BY <1>1, <1>2, <1>3, <1>4 DEF PoolInv

(***************************************************************************)
(* The steps of a client, of a GET, and of a SET on its way.               *)
(***************************************************************************)
LEMMA QuietSteps ==
  ASSUME IInv, IInv', PoolInv, NEW c \in Clients,
         \/ \E r \in Requests(c) : Call(c, r)
         \/ ClientStep(c) \/ Get(c) \/ SetForward(c) \/ SetTail(c)
         \/ CheckNone(c) \/ LenCheck(c) \/ SendUp(c)
  PROVE  PoolInv'
<1> USE DEF Goto
<1>1. UNCHANGED hops /\ \A x \in Setters \ {c} : pc'[x] = pc[x] /\ at'[x] = at[x]
  BY DEF Call, ClientStep, ClientSend, ClientSendEof, ClientSendReset, Return, Get,
     SetForward, SetTail, CheckNone, LenCheck, SendUp, hops, IInv, TypeOK, Clients
<1>2. /\ pc[c] # "build" /\ pc'[c] \notin {"build", "raised"}
      /\ pc'[c] = "init" => at'[c] \in Hops /\ list[at'[c]] = None
  BY DEF Call, ClientStep, ClientSend, ClientSendEof, ClientSendReset, Return, Get,
     SetForward, SetTail, CheckNone, LenCheck, SendUp, IInv, TypeOK, CallInv, Forwarding
<1>3. ASSUME NEW i \in Hops, c \in Setters, sock[c][i] # None, Pending(c, i)'
      PROVE  Pending(c, i) \/ state[i][sock[c][i]] = "up"
  <2>1. req[c].op = "SET" /\ (i < at[c] \/ (i = at[c] /\ pc[c] = "send"))
    BY <1>3 DEF IInv, HoldInv
  <2>2. CASE SendUp(c)
    BY <1>3, <2>1, <2>2, NAssumption DEF SendUp, Pending, Done, Hops, IInv, TypeOK
  <2>3. CASE SetForward(c) \/ SetTail(c) \/ CheckNone(c) \/ LenCheck(c)
    BY <1>3, <2>1, <2>3 DEF SetForward, SetTail, CheckNone, LenCheck, Pending, Done
  <2>4. CASE ClientStep(c) \/ Get(c) \/ \E r \in Requests(c) : Call(c, r)
    BY <1>3, <2>1, <2>4, NAssumption DEF ClientStep, ClientSend, ClientSendEof, ClientSendReset,
       Return, Get, Call, Pending, Done, Hops, IInv, TypeOK, CallInv, KV!NoReq
  <2> QED
    BY <2>2, <2>3, <2>4
<1> QED
  BY <1>1, <1>2, <1>3, QuietPool

(***************************************************************************)
(* A connection is closed by a handler: the one the request of c came in   *)
(* on, or that c meets closed at its own hop.                              *)
(***************************************************************************)
LEMMA ClosePool ==
  ASSUME IInv, IInv', PoolInv, NEW c \in Setters, UNCHANGED <<list, todo, sock>>,
         NEW i \in Hops, sock[c][i] # None,
         NEW v \in {"eof", "reset"}, state' = [state EXCEPT ![i][sock[c][i]] = v],
         pc[c] # "build" /\ pc'[c] \notin {"build", "init"},
         \A x \in Setters \ {c} : pc'[x] = pc[x] /\ at'[x] = at[x],
         ~Pending(c, i)',
         \A j \in Hops \ {i} : sock[c][j] # None =>
           /\ Pending(c, j)' => Pending(c, j)
           /\ ~(at'[c] = j + 1 /\ pc'[c] = "raised")
  PROVE  HoldersInv' /\ FreeInv' /\ NewInv' /\ FarInv'
<1>0. sock[c][i] \in Socks /\ \A j \in Hops, x \in Setters : sock[x][j] # None => sock[x][j] \in Socks
  BY DEF IInv, TypeOK
<1>a. /\ state'[i][sock[c][i]] = v
      /\ \A j \in Hops, s \in Socks : j # i \/ s # sock[c][i] => state'[j][s] = state[j][s]
  BY <1>0 DEF IInv, TypeOK
<1>b. \A j \in Hops, s \in Socks : state'[j][s] = "new" <=> state[j][s] = "new"
  BY <1>0, <1>a DEF PoolInv, NewInv
<1>c. \A j \in Hops : list[j] # None => \A n \in 1 .. Len(list[j]) : list[j][n] \in Socks
  BY DEF IInv, TypeOK
<1>1. HoldersInv'
  BY DEF PoolInv, HoldersInv
<1>2. FreeInv'
  BY <1>b, <1>c DEF PoolInv, FreeInv
<1>3. NewInv'
  <2>1. \A x \in Setters, n \in 1 .. PoolSz : <<x, n>> \in Socks
    BY DEF Socks
  <2>2. \A x \in Setters : pc[x] \in {"init", "build"} => at[x] \in Hops
    BY DEF IInv, CallInv, Forwarding, Clients
  <2>3. \A x \in Setters : \A n \in 1 .. todo[x] : n \in 1 .. PoolSz
    BY PoolSzAssumption DEF IInv, TypeOK
  <2>4. \A x \in Setters : pc'[x] \in {"init", "build"} => pc'[x] = pc[x] /\ at'[x] = at[x]
    OBVIOUS
  <2> QED
    BY <1>0, <1>b, <2>1, <2>2, <2>3, <2>4 DEF PoolInv, NewInv
<1>4. FarInv'
  <2>1. \A x \in Setters \ {c}, j \in Hops : Pending(x, j)' <=> Pending(x, j)
    BY DEF Pending, Done
  <2>2. \A x \in Setters \ {c}, j \in Hops :
          sock[x][j] # None => state'[j][sock[x][j]] = state[j][sock[x][j]]
    BY <1>0, <1>a DEF PoolInv, HoldersInv
  <2>3. \A j \in Hops \ {i} : sock[c][j] # None => state'[j][sock[c][j]] = state[j][sock[c][j]]
    BY <1>0, <1>a
  <2> QED
    BY <1>a, <2>1, <2>2, <2>3 DEF PoolInv, FarInv
<1> QED
  BY <1>1, <1>2, <1>3, <1>4

(***************************************************************************)
(* A SET that finds the pool empty ends its handler, and a GET of a key    *)
(* that is not there.                                                      *)
(***************************************************************************)
LEMMA RaiseSteps ==
  ASSUME IInv, IInv', PoolInv, NEW c \in Clients, GetKeyError(c) \/ Exhausted(c)
  PROVE  PoolInv'
<1>0. \A x \in Setters \ {c} : pc'[x] = pc[x] /\ at'[x] = at[x]
  BY DEF GetKeyError, Exhausted, Goto, IInv, TypeOK, Clients
<1>1. CASE at[c] = Entry(c)
  <2>1. UNCHANGED hops /\ pc[c] # "build" /\ pc'[c] = "raised" /\ at' = at
    BY <1>1 DEF GetKeyError, Exhausted, CloseUpstream, hops, Goto, IInv, TypeOK
  <2>2. \A i \in Hops : c \in Setters /\ sock[c][i] # None => at[c] # i + 1 /\ ~Pending(c, i)'
    BY <1>1, <2>1, NAssumption DEF Entry, Pending, Done, GetKeyError, Exhausted, Goto,
       IInv, TypeOK, HoldInv, CallInv, Hops, Forwarding
  <2> QED
    BY <1>0, <2>1, <2>2, QuietPool
<1>2. CASE at[c] # Entry(c)
  <2>1. Exhausted(c) /\ c \in Setters /\ at[c] \in Hops /\ req[c].op = "SET"
    BY <1>2 DEF GetKeyError, Exhausted, Goto, Entry, IInv, CallInv, Forwarding, Servers
  <2>2. at[c] - 1 \in Hops
    BY <1>2, <2>1, NAssumption DEF Entry, Hops
  <2>3. PICK i \in Hops : i = at[c] - 1
    BY <2>2
  <2>4. sock[c][i] # None
    BY <2>1, <2>3, NAssumption DEF IInv, HoldInv, Hops
  <2>5. state' = [state EXCEPT ![i][sock[c][i]] = "eof"] /\ at' = at /\ UNCHANGED <<list, todo, sock>>
    BY <1>2, <2>1, <2>3 DEF Exhausted, CloseUpstream
  <2>6. pc[c] # "build" /\ pc'[c] = "raised"
    BY <2>1 DEF Exhausted, IInv, TypeOK
  <2>7. ~Pending(c, i)'
    BY <2>1, <2>3, <2>5, <2>6, NAssumption DEF Pending, Done, Hops
  <2>8. \A j \in Hops \ {i} : (Pending(c, j)' => Pending(c, j)) /\ at'[c] # j + 1
    BY <2>1, <2>3, <2>5, <2>6, NAssumption DEF Pending, Done, Hops, Exhausted
  <2> QED
    <3>1. HoldersInv' /\ FreeInv' /\ NewInv' /\ FarInv'
      BY <1>0, <2>1, <2>4, <2>5, <2>6, <2>7, <2>8, ClosePool
    <3> QED
      BY <3>1 DEF PoolInv
<1> QED
  BY <1>1, <1>2

(***************************************************************************)
(* A socket goes back to the end of the list of its hop.                   *)
(***************************************************************************)
LEMMA ReleasePool ==
  ASSUME IInv, IInv', PoolInv, NEW c \in Setters, NEW i \in Hops, sock[c][i] # None,
         Release(c, i),
         \A j \in Hops, s \in Socks :
           /\ state'[j][s] = "new" <=> state[j][s] = "new"
           /\ j # i \/ s # sock[c][i] => state'[j][s] = state[j][s],
         pc[c] # "build" /\ pc'[c] \notin {"build", "init", "raised"},
         \A x \in Setters \ {c} : pc'[x] = pc[x] /\ at'[x] = at[x],
         \A j \in Hops \ {i} : sock[c][j] # None /\ Pending(c, j)' => Pending(c, j)
  PROVE  PoolInv'
<1>0. \A j \in Hops, x \in Setters : sock[x][j] # None => sock[x][j] \in Socks
  BY DEF IInv, TypeOK
<1>a. /\ sock'[c][i] = None
      /\ \A x \in Setters, j \in Hops : x # c \/ j # i => sock'[x][j] = sock[x][j]
      /\ UNCHANGED todo
  BY DEF Release, IInv, TypeOK
<1>b. list[i] \in Seq(Socks) /\ list[i] # None
  BY DEF IInv, TypeOK, ListInv
<1>c. /\ list'[i] = Append(list[i], sock[c][i])
      /\ \A j \in Hops : j # i => list'[j] = list[j]
  BY DEF Release, IInv, TypeOK
<1>d. /\ Len(list[i]) \in Nat /\ Len(list'[i]) = Len(list[i]) + 1
      /\ list'[i][Len(list[i]) + 1] = sock[c][i]
      /\ \A n \in 1 .. Len(list[i]) : list'[i][n] = list[i][n] /\ list[i][n] \in Socks
  BY <1>0, <1>b, <1>c
<1>1. HoldersInv'
  BY <1>a DEF PoolInv, HoldersInv
<1>2. FreeInv'
  <2>1. ASSUME NEW j \in Hops, j # i, list'[j] # None
        PROVE  /\ \A n \in 1 .. Len(list'[j]) :
                    state'[j][list'[j][n]] # "new" /\ \A x \in Setters : sock'[x][j] # list'[j][n]
               /\ \A m, n \in 1 .. Len(list'[j]) : list'[j][m] = list'[j][n] => m = n
    <3>1. \A n \in 1 .. Len(list[j]) : list[j][n] \in Socks
      BY <1>c, <2>1 DEF IInv, TypeOK
    <3> QED
      BY <1>a, <1>c, <2>1, <3>1 DEF PoolInv, FreeInv
  <2>2. \A n \in 1 .. Len(list'[i]) : n \in 1 .. Len(list[i]) \/ n = Len(list[i]) + 1
    BY <1>d
  <2>3. \A n \in 1 .. Len(list[i]) :
          state[i][list[i][n]] # "new" /\ \A x \in Setters : sock[x][i] # list[i][n]
    BY <1>b DEF PoolInv, FreeInv
  <2>4. \A n \in 1 .. Len(list'[i]) : state'[i][list'[i][n]] # "new"
    <3>1. state[i][sock[c][i]] # "new" /\ sock[c][i] \in Socks
      BY <1>0 DEF PoolInv, NewInv
    <3> QED
      BY <1>d, <2>2, <2>3, <3>1
  <2>5. \A n \in 1 .. Len(list'[i]), x \in Setters : sock'[x][i] # list'[i][n]
    <3> TAKE n \in 1 .. Len(list'[i]), x \in Setters
    <3>1. CASE x = c
      <4>1. list'[i][n] \in Socks
        BY <1>0, <1>d, <2>2
      <4> QED
        BY <1>a, <3>1, <4>1, NoneAssumption
    <3>2. CASE x # c /\ n \in 1 .. Len(list[i])
      BY <1>a, <1>d, <2>3, <3>2
    <3>3. CASE x # c /\ n = Len(list[i]) + 1
      BY <1>a, <1>d, <3>3 DEF PoolInv, HoldersInv
    <3> QED
      BY <2>2, <3>1, <3>2, <3>3
  <2>6. \A m, n \in 1 .. Len(list'[i]) : list'[i][m] = list'[i][n] => m = n
    <3>1. \A m, n \in 1 .. Len(list[i]) : list[i][m] = list[i][n] => m = n
      BY <1>b DEF PoolInv, FreeInv
    <3>2. \A n \in 1 .. Len(list[i]) : list'[i][n] # list'[i][Len(list[i]) + 1]
      BY <1>d, <2>3
    <3>3. \A m, n \in 1 .. Len(list[i]) : list'[i][m] = list'[i][n] => m = n
      BY <1>d, <3>1
    <3> QED
      BY <2>2, <3>2, <3>3
  <2> QED
    BY <2>1, <2>4, <2>5, <2>6 DEF FreeInv
<1>3. NewInv'
  <2>1. \A x \in Setters, n \in 1 .. PoolSz : <<x, n>> \in Socks
    BY DEF Socks
  <2>2. \A x \in Setters : pc[x] \in {"init", "build"} => at[x] \in Hops
    BY DEF IInv, CallInv, Forwarding, Clients
  <2>3. \A x \in Setters : \A n \in 1 .. todo[x] : n \in 1 .. PoolSz
    BY PoolSzAssumption DEF IInv, TypeOK
  <2>4. \A x \in Setters : pc'[x] \in {"init", "build"} => pc'[x] = pc[x] /\ at'[x] = at[x]
    OBVIOUS
  <2>5. \A j \in Hops : list'[j] = None => list[j] = None
    BY <1>b, <1>c, <1>0, NoneAssumption
  <2>6. \A j \in Hops, x \in Setters : sock'[x][j] # None => state'[j][sock'[x][j]] # "new"
    BY <1>0, <1>a DEF PoolInv, NewInv
  <2>7. \A x \in Setters : pc'[x] # "build" => todo'[x] = 0
    BY <1>a DEF PoolInv, NewInv
  <2> QED
    BY <1>a, <2>1, <2>2, <2>3, <2>4, <2>5, <2>6, <2>7 DEF PoolInv, NewInv
<1>4. FarInv'
  <2>1. \A x \in Setters \ {c}, j \in Hops : Pending(x, j)' <=> Pending(x, j)
    BY DEF Pending, Done
  <2>2. \A x \in Setters, j \in Hops :
          sock'[x][j] # None => /\ sock'[x][j] = sock[x][j] /\ (x # c \/ j # i)
                                /\ state'[j][sock[x][j]] = state[j][sock[x][j]]
    BY <1>0, <1>a DEF PoolInv, HoldersInv
  <2> QED
    BY <2>1, <2>2 DEF PoolInv, FarInv
<1> QED
  BY <1>1, <1>2, <1>3, <1>4 DEF PoolInv

(***************************************************************************)
(* An answer that goes back to a server is that of a SET.                  *)
(***************************************************************************)
LEMMA BackAtServer ==
  ASSUME IInv, NEW c \in Clients, RecvReply(c) \/ (RecvEof(c) /\ at[c] # Entry(c))
  PROVE  c \in Setters /\ at[c] \in 0 .. N /\ at[c] - 1 \in Hops /\ req[c].op = "SET"
<1>0. at[c] \in 0 .. N /\ at[c] # 0 /\ at[c] # Entry(c) /\ req[c] \in KV!Requests
  <2>1. CASE RecvReply(c)
    <3>1. at[c] > Entry(c) /\ at[c] \in 0 .. N /\ pc[c] = "answer"
      BY <2>1 DEF RecvReply, Goto, IInv, TypeOK
    <3>2. req[c] \in KV!Requests
      BY <3>1 DEF IInv, CallInv, TypeOK
    <3> QED
      BY <3>1, <3>2, NAssumption DEF Entry
  <2>2. CASE RecvEof(c) /\ at[c] # Entry(c)
    BY <2>2 DEF RecvEof, Goto, IInv, CallInv, TypeOK, Servers
  <2> QED
    BY <2>1, <2>2
<1>e. req[c].op = "SET"
  BY <1>0, NAssumption DEF IInv, CallInv, KV!Requests, Entry
<1>1. c \in Setters /\ at[c] - 1 \in Hops
  BY <1>0, <1>e, NAssumption DEF IInv, CallInv, Entry, Hops
<1> QED
  BY <1>0, <1>1, <1>e

(***************************************************************************)
(* The four ways in which send ends with release_sock.                     *)
(***************************************************************************)
LEMMA ReleaseSteps ==
  ASSUME IInv, IInv', PoolInv, NEW c \in Clients,
         SendEof(c) \/ SendReset(c) \/ RecvReply(c) \/ (RecvEof(c) /\ at[c] # Entry(c))
  PROVE  PoolInv'
<1>0. \A x \in Setters \ {c} : pc'[x] = pc[x] /\ at'[x] = at[x]
  BY DEF SendEof, SendReset, RecvReply, RecvEof, Goto, IInv, TypeOK, Clients
<1>a. pc[c] # "build" /\ pc'[c] \in {"answer", "hung"}
  BY DEF SendEof, SendReset, RecvReply, RecvEof, Goto, IInv, TypeOK, Clients
<1>1. CASE SendEof(c) \/ SendReset(c)
  <2>1. c \in Setters /\ at[c] \in Hops /\ req[c].op = "SET" /\ pc[c] = "send"
    BY <1>1 DEF SendEof, SendReset, Goto, IInv, CallInv, Forwarding
  <2>2. PICK i \in Hops : i = at[c]
    BY <2>1
  <2>3. sock[c][i] # None /\ sock[c][i] \in Socks
    BY <2>1, <2>2 DEF IInv, HoldInv, TypeOK
  <2>4. Release(c, i) /\ at' = at
    BY <1>1, <2>2 DEF SendEof, SendReset
  <2>5. \A j \in Hops, s \in Socks :
          /\ state'[j][s] = "new" <=> state[j][s] = "new"
          /\ j # i \/ s # sock[c][i] => state'[j][s] = state[j][s]
    BY <1>1, <2>2, <2>3 DEF SendEof, SendReset, IInv, TypeOK
  <2>6. \A j \in Hops : Pending(c, j)' => Pending(c, j)
    BY <2>1, <2>4 DEF Pending, Done
  <2> QED
    BY <1>0, <1>a, <2>1, <2>3, <2>4, <2>5, <2>6, ReleasePool
<1>2. CASE RecvReply(c) \/ (RecvEof(c) /\ at[c] # Entry(c))
  <2>1. c \in Setters /\ at[c] \in 0 .. N /\ at[c] - 1 \in Hops /\ req[c].op = "SET"
    BY <1>2, BackAtServer
  <2>2. PICK i \in Hops : i = at[c] - 1
    BY <2>1
  <2>3. sock[c][i] # None
    <3>1. i < at[c]
      BY <2>1, <2>2, NAssumption DEF Hops
    <3> QED
      BY <2>1, <3>1 DEF IInv, HoldInv
  <2>4. Release(c, i) /\ at' = [at EXCEPT ![c] = i] /\ UNCHANGED state /\ pc'[c] = "answer"
    BY <1>2, <2>2 DEF RecvReply, RecvEof, Goto, IInv, TypeOK
  <2>6. \A j \in Hops \ {i} : Pending(c, j)' => Pending(c, j)
    BY <2>1, <2>2, <2>4, NAssumption DEF Pending, Done, Hops, IInv, TypeOK
  <2> QED
    BY <1>0, <1>a, <2>1, <2>3, <2>4, <2>6, ReleasePool
<1> QED
  BY <1>1, <1>2

(***************************************************************************)
(* A GET that failed: only the client hears of it.                         *)
(***************************************************************************)
LEMMA RecvEofSteps == ASSUME IInv, IInv', PoolInv, NEW c \in Clients, RecvEof(c) PROVE PoolInv'
<1>1. CASE at[c] = Entry(c)
  <2>1. UNCHANGED hops /\ at' = [at EXCEPT ![c] = 0] /\ pc[c] # "build" /\ pc'[c] = "answer"
    BY <1>1 DEF RecvEof, Goto, hops, IInv, TypeOK
  <2>2. \A x \in Setters \ {c} : pc'[x] = pc[x] /\ at'[x] = at[x]
    BY DEF RecvEof, Goto, IInv, TypeOK, Clients
  <2>3. \A i \in Hops : ~Pending(c, i)'
    BY <2>1, NAssumption DEF Pending, Hops, IInv, TypeOK
  <2> QED
    BY <2>1, <2>2, <2>3, QuietPool
<1>2. CASE at[c] # Entry(c)
  BY <1>2, ReleaseSteps
<1> QED
  BY <1>1, <1>2

(***************************************************************************)
(* The unsynchronised build: a new list, whatever the old one was ...      *)
(***************************************************************************)
LEMMA InitListPool == ASSUME IInv, IInv', PoolInv, NEW c \in Clients, InitList(c) PROVE PoolInv'
<1>0. c \in Setters /\ at[c] \in Hops /\ pc[c] = "init"
  BY DEF InitList, Goto, IInv, CallInv, Forwarding
<1>1. PICK i \in Hops : i = at[c]
  BY <1>0
<1>a. /\ list'[i] = <<>> /\ \A j \in Hops : j # i => list'[j] = list[j]
      /\ todo'[c] = PoolSz /\ \A x \in Setters : x # c => todo'[x] = todo[x]
      /\ pc'[c] = "build" /\ \A x \in Setters : x # c => pc'[x] = pc[x]
      /\ UNCHANGED <<state, sock, at>>
  BY <1>0, <1>1 DEF InitList, Goto, IInv, TypeOK, Clients
<1>2. HoldersInv'
  BY <1>a DEF PoolInv, HoldersInv
<1>3. FreeInv'
  <2>1. Len(list'[i]) = 0
    BY <1>a
  <2>2. \A n \in 1 .. Len(list'[i]) : FALSE
    BY <2>1
  <2>3. \A j \in Hops : j # i => list'[j] = list[j]
    BY <1>a
  <2> QED
    BY <1>a, <2>2, <2>3 DEF PoolInv, FreeInv
<1>4. NewInv'
  <2>1. list'[i] # None
    <3>1. <<>> \in Seq(Socks)
      OBVIOUS
    <3> QED
      BY <1>a, <3>1, NoneAssumption
  <2>2. \A n \in 1 .. PoolSz : state[i][<<c, n>>] = "new"
    BY <1>0, <1>1 DEF PoolInv, NewInv
  <2> QED
    BY <1>1, <1>a, <2>1, <2>2 DEF PoolInv, NewInv
<1>5. FarInv'
  <2>1. \A x \in Setters, j \in Hops : Pending(x, j)' => Pending(x, j)
    BY <1>0, <1>a DEF Pending, Done
  <2> QED
    BY <1>0, <1>a, <2>1 DEF PoolInv, FarInv
<1> QED
  BY <1>2, <1>3, <1>4, <1>5 DEF PoolInv

(***************************************************************************)
(* ... that each builder fills with sockets that did not exist before.     *)
(***************************************************************************)
LEMMA ConnectAppendPool ==
  ASSUME IInv, IInv', PoolInv, NEW c \in Clients, ConnectAppend(c) PROVE PoolInv'
<1>0. c \in Setters /\ at[c] \in Hops /\ pc[c] = "build" /\ todo[c] \in 1 .. PoolSz
  BY PoolSzAssumption DEF ConnectAppend, Goto, IInv, CallInv, Forwarding, TypeOK
<1>1. PICK i \in Hops : i = at[c]
  BY <1>0
<1>s. PICK s \in Socks : s = <<c, todo[c]>>
  BY <1>0 DEF Socks
<1>b. list[i] \in Seq(Socks) /\ list[i] # None
  BY <1>0, <1>1 DEF IInv, TypeOK, ListInv
<1>a. /\ list'[i] = Append(list[i], s) /\ \A j \in Hops : j # i => list'[j] = list[j]
      /\ todo'[c] = todo[c] - 1 /\ \A x \in Setters : x # c => todo'[x] = todo[x]
      /\ pc'[c] = IF todo[c] = 1 THEN "len" ELSE "build"
      /\ \A x \in Setters : x # c => pc'[x] = pc[x]
      /\ UNCHANGED <<sock, at>>
  BY <1>0, <1>1, <1>s DEF ConnectAppend, Goto, IInv, TypeOK, Clients
<1>c. /\ state'[i][s] = "up"
      /\ \A j \in Hops, u \in Socks : j # i \/ u # s => state'[j][u] = state[j][u]
  BY <1>1, <1>s DEF ConnectAppend, IInv, TypeOK
<1>d. /\ Len(list[i]) \in Nat /\ Len(list'[i]) = Len(list[i]) + 1
      /\ list'[i][Len(list[i]) + 1] = s
      /\ \A n \in 1 .. Len(list[i]) : list'[i][n] = list[i][n] /\ list[i][n] \in Socks
  BY <1>a, <1>b
<1>e. \A n \in 1 .. Len(list'[i]) : n \in 1 .. Len(list[i]) \/ n = Len(list[i]) + 1
  BY <1>d
<1>f. state[i][s] = "new"
  <2>1. todo[c] \in 1 .. todo[c]
    BY <1>0
  <2> QED
    BY <1>0, <1>1, <1>s, <2>1 DEF PoolInv, NewInv
<1>g. \A x \in Setters : sock[x][i] # s
  BY <1>f, NoneAssumption DEF PoolInv, NewInv
<1>h. \A n \in 1 .. Len(list[i]) :
        /\ list[i][n] # s /\ state[i][list[i][n]] # "new"
        /\ \A x \in Setters : sock[x][i] # list[i][n]
  BY <1>b, <1>f DEF PoolInv, FreeInv
<1>k. \A j \in Hops, x \in Setters : sock[x][j] # None => sock[x][j] \in Socks
  BY DEF IInv, TypeOK
<1>2. HoldersInv'
  BY <1>a DEF PoolInv, HoldersInv
<1>3. FreeInv'
  <2>1. ASSUME NEW j \in Hops, j # i, list'[j] # None
        PROVE  /\ \A n \in 1 .. Len(list'[j]) :
                    state'[j][list'[j][n]] # "new" /\ \A x \in Setters : sock'[x][j] # list'[j][n]
               /\ \A m, n \in 1 .. Len(list'[j]) : list'[j][m] = list'[j][n] => m = n
    <3>1. \A n \in 1 .. Len(list[j]) : list[j][n] \in Socks
      BY <1>a, <2>1 DEF IInv, TypeOK
    <3> QED
      BY <1>a, <1>c, <2>1, <3>1 DEF PoolInv, FreeInv
  <2>2. \A n \in 1 .. Len(list'[i]) :
          state'[i][list'[i][n]] # "new" /\ \A x \in Setters : sock'[x][i] # list'[i][n]
    BY <1>a, <1>c, <1>d, <1>e, <1>g, <1>h
  <2>3. \A m, n \in 1 .. Len(list'[i]) : list'[i][m] = list'[i][n] => m = n
    <3>1. \A m, n \in 1 .. Len(list[i]) : list[i][m] = list[i][n] => m = n
      BY <1>b DEF PoolInv, FreeInv
    <3>2. \A n \in 1 .. Len(list[i]) : list'[i][n] # list'[i][Len(list[i]) + 1]
      BY <1>d, <1>h
    <3>3. \A m, n \in 1 .. Len(list[i]) : list'[i][m] = list'[i][n] => m = n
      BY <1>d, <3>1
    <3> QED
      BY <1>e, <3>2, <3>3
  <2> QED
    BY <2>1, <2>2, <2>3 DEF FreeInv
<1>4. NewInv'
  <2>0. \A x \in Setters, n \in 1 .. PoolSz : <<x, n>> \in Socks
    BY DEF Socks
  <2>1. \A j \in Hops, x \in Setters : sock'[x][j] # None => state'[j][sock'[x][j]] # "new"
    BY <1>a, <1>c, <1>g, <1>k DEF PoolInv, NewInv
  <2>2. \A j \in Hops : list'[j] = None => \A u \in Socks : state'[j][u] = "new"
    <3>1. list'[i] # None
      BY <1>a, <1>b, NoneAssumption
    <3> QED
      BY <3>1, <1>a, <1>c DEF PoolInv, NewInv
  <2>3. ASSUME NEW x \in Setters, x # c
        PROVE  /\ pc'[x] = "init" => \A n \in 1 .. PoolSz : state'[at'[x]][<<x, n>>] = "new"
               /\ pc'[x] = "build" => \A n \in 1 .. todo'[x] : state'[at'[x]][<<x, n>>] = "new"
               /\ pc'[x] # "build" => todo'[x] = 0
    <3>1. pc[x] \in {"init", "build"} => at[x] \in Hops
      BY DEF IInv, CallInv, Forwarding, Clients
    <3>2. \A n \in 1 .. todo[x] : n \in 1 .. PoolSz
      BY PoolSzAssumption DEF IInv, TypeOK
    <3>3. \A n \in 1 .. PoolSz : <<x, n>> # s
      BY <1>s, <2>3
    <3> QED
      BY <1>a, <1>c, <2>0, <2>3, <3>1, <3>2, <3>3 DEF PoolInv, NewInv
  <2>4. /\ pc'[c] # "init"
        /\ pc'[c] = "build" => \A n \in 1 .. todo'[c] : state'[i][<<c, n>>] = "new"
        /\ pc'[c] # "build" => todo'[c] = 0
    <3>1. \A n \in 1 .. todo'[c] : n \in 1 .. todo[c] /\ n \in 1 .. PoolSz /\ n # todo[c]
      BY <1>0, <1>a, PoolSzAssumption
    <3>2. \A n \in 1 .. todo'[c] : <<c, n>> # s /\ <<c, n>> \in Socks /\ state[i][<<c, n>>] = "new"
      BY <1>0, <1>1, <1>s, <2>0, <3>1 DEF PoolInv, NewInv
    <3> QED
      BY <1>0, <1>a, <1>c, <3>2
  <2> QED
    BY <1>1, <1>a, <2>1, <2>2, <2>3, <2>4 DEF NewInv
<1>5. FarInv'
  <2>1. \A x \in Setters, j \in Hops : Pending(x, j)' => Pending(x, j)
    BY <1>0, <1>a DEF Pending, Done
  <2>2. \A x \in Setters, j \in Hops : sock'[x][j] # None =>
          sock'[x][j] = sock[x][j] /\ state'[j][sock[x][j]] = state[j][sock[x][j]]
    BY <1>a, <1>c, <1>g, <1>k
  <2>3. \A x \in Setters : pc'[x] = "raised" => pc[x] = "raised" /\ at'[x] = at[x]
    BY <1>0, <1>a
  <2> QED
    BY <2>1, <2>2, <2>3, <1>a DEF PoolInv, FarInv
<1> QED
  BY <1>2, <1>3, <1>4, <1>5 DEF PoolInv

(***************************************************************************)
(* A handler takes the last socket of the list.                            *)
(***************************************************************************)
LEMMA PopPool == ASSUME IInv, IInv', PoolInv, NEW c \in Clients, Pop(c) PROVE PoolInv'
<1>0. c \in Setters /\ at[c] \in Hops /\ pc[c] = "pop"
  BY DEF Pop, Goto, IInv, CallInv, Forwarding
<1>1. PICK i \in Hops : i = at[c]
  BY <1>0
<1>b. list[i] \in Seq(Socks) /\ list[i] # None
  BY <1>0, <1>1 DEF IInv, TypeOK, ListInv
<1>n. PICK n \in Nat \ {0} : n = Len(list[i])
  BY <1>1, <1>b DEF Pop
<1>a. /\ list'[i] = SubSeq(list[i], 1, n - 1) /\ \A j \in Hops : j # i => list'[j] = list[j]
      /\ sock'[c][i] = list[i][n]
      /\ \A x \in Setters, j \in Hops : x # c \/ j # i => sock'[x][j] = sock[x][j]
      /\ pc'[c] = "send" /\ \A x \in Setters : x # c => pc'[x] = pc[x]
      /\ UNCHANGED <<state, todo, at>>
  BY <1>0, <1>1, <1>n DEF Pop, Goto, IInv, TypeOK, Clients
<1>d. /\ Len(list'[i]) = n - 1 /\ n \in 1 .. Len(list[i])
      /\ \A m \in 1 .. Len(list'[i]) : list'[i][m] = list[i][m] /\ m \in 1 .. Len(list[i]) /\ m # n
  BY <1>a, <1>b, <1>n
<1>h. /\ \A m \in 1 .. Len(list[i]) :
           state[i][list[i][m]] # "new" /\ \A x \in Setters : sock[x][i] # list[i][m]
      /\ \A k, m \in 1 .. Len(list[i]) : list[i][k] = list[i][m] => k = m
  BY <1>b DEF PoolInv, FreeInv
<1>2. HoldersInv'
  BY <1>a, <1>d, <1>h DEF PoolInv, HoldersInv
<1>3. FreeInv'
  <2>1. ASSUME NEW j \in Hops, j # i, list'[j] # None
        PROVE  /\ \A m \in 1 .. Len(list'[j]) :
                    state'[j][list'[j][m]] # "new" /\ \A x \in Setters : sock'[x][j] # list'[j][m]
               /\ \A k, m \in 1 .. Len(list'[j]) : list'[j][k] = list'[j][m] => k = m
    BY <1>a, <2>1 DEF PoolInv, FreeInv
  <2>2. \A m \in 1 .. Len(list'[i]) :
          state'[i][list'[i][m]] # "new" /\ \A x \in Setters : sock'[x][i] # list'[i][m]
    BY <1>a, <1>d, <1>h
  <2>3. \A k, m \in 1 .. Len(list'[i]) : list'[i][k] = list'[i][m] => k = m
    BY <1>d, <1>h
  <2> QED
    BY <2>1, <2>2, <2>3 DEF FreeInv
<1>4. NewInv'
  <2>1. \A j \in Hops, x \in Setters : sock'[x][j] # None => state'[j][sock'[x][j]] # "new"
    BY <1>a, <1>d, <1>h DEF PoolInv, NewInv
  <2>2. \A j \in Hops : list'[j] = None => list[j] = None
    <3>1. list'[i] \in Seq(Socks)
      BY <1>a, <1>b, <1>n
    <3> QED
      BY <3>1, <1>a, NoneAssumption
  <2> QED
    BY <1>0, <1>a, <2>1, <2>2 DEF PoolInv, NewInv
<1>5. FarInv'
  <2>1. \A x \in Setters, j \in Hops : Pending(x, j)' => Pending(x, j) /\ (x # c \/ j # i)
    BY <1>0, <1>1, <1>a, NAssumption DEF Pending, Done, Hops
  <2>2. at'[c] # i + 1 /\ \A x \in Setters : pc'[x] = "raised" => pc[x] = "raised" /\ x # c
    BY <1>1, <1>a, NAssumption DEF Hops
  <2> QED
    BY <1>a, <2>1, <2>2 DEF PoolInv, FarInv
<1> QED
  BY <1>2, <1>3, <1>4, <1>5 DEF PoolInv

(***************************************************************************)
(* The invariant of the pools is inductive.                                *)
(***************************************************************************)
LEMMA NextPoolInv == IInv /\ IInv' /\ PoolInv /\ [Next]_vars => PoolInv'
<1> SUFFICES ASSUME IInv, IInv', PoolInv, [Next]_vars PROVE PoolInv'
  OBVIOUS
<1>1. CASE UNCHANGED vars
  BY <1>1 DEF vars, PoolInv, HoldersInv, FreeInv, NewInv, FarInv, Pending, Done
<1>2. ASSUME NEW c \in Clients, Step(c) PROVE PoolInv'
  BY <1>2, QuietSteps, RaiseSteps, ReleaseSteps, RecvEofSteps, InitListPool, ConnectAppendPool,
     PopPool DEF Step, GetStep, SetStep
<1>3. ASSUME NEW c \in Clients, \E r \in Requests(c) : Call(c, r) PROVE PoolInv'
  BY <1>3, QuietSteps
<1> QED
  BY <1>1, <1>2, <1>3 DEF Next

-----------------------------------------------------------------------------
(***************************************************************************)
(* The steps of a hop.  Every step of the chain is the step of one call.   *)
(***************************************************************************)
Only(c) ==
  \A x \in Setters \ {c} :
    pc'[x] = pc[x] /\ at'[x] = at[x] /\ todo'[x] = todo[x] /\ sock'[x] = sock[x]

\* The step leaves hop i as the call of c has it ...
Kept(c, i) ==
  /\ sock'[c][i] = sock[c][i]
  /\ PoolPC(c, i)' = PoolPC(c, i)
  /\ HopTodo(c, i)' = HopTodo(c, i)

\* ... and what is on its way between the two servers.
Quiet(c, i) ==
  sock[c][i] # None => (Pending(c, i)' <=> Pending(c, i)) /\ (Replied(c, i)' <=> Replied(c, i))

LEMMA StreamFacts ==
  Stream({}) = <<>> /\ \A x : Stream({x}) = <<x>>
  BY DEF Stream

LEMMA OnlyOne ==
  ASSUME IInv, NEW c \in Clients, Step(c) \/ \E r \in Requests(c) : Call(c, r)
  PROVE  Only(c)
<1> USE DEF Only, IInv, TypeOK, Clients, Goto, hops
<1>1. CASE \E r \in Requests(c) : Call(c, r)
  BY <1>1 DEF Call
<1>2. CASE ClientStep(c)
  BY <1>2 DEF ClientStep, ClientSend, ClientSendEof, ClientSendReset, Return
<1>3. CASE GetStep(c)
  BY <1>3 DEF GetStep, Get, GetKeyError
<1>4. CASE SetForward(c) \/ SetTail(c) \/ CheckNone(c) \/ LenCheck(c) \/ SendUp(c)
  BY <1>4 DEF SetForward, SetTail, CheckNone, LenCheck, SendUp
<1>5. CASE InitList(c) \/ ConnectAppend(c) \/ Pop(c) \/ Exhausted(c)
  BY <1>5 DEF InitList, ConnectAppend, Pop, Exhausted
<1>6. CASE SendEof(c) \/ SendReset(c) \/ RecvReply(c)
  BY <1>6 DEF SendEof, SendReset, RecvReply, Release
<1>7. CASE RecvEof(c)
  BY <1>7 DEF RecvEof, Release
<1> QED
  BY <1>1, <1>2, <1>3, <1>4, <1>5, <1>6, <1>7 DEF Step, SetStep

(***************************************************************************)
(* What a step of the call of c does to the threads of hop i ...           *)
(***************************************************************************)
LEMMA ThreadsStep ==
  ASSUME IInv, NEW c \in Setters, Only(c), NEW i \in Hops
  PROVE  /\ [x \in Setters |-> PoolPC(x, i)'] = [[x \in Setters |-> PoolPC(x, i)] EXCEPT ![c] = PoolPC(c, i)']
         /\ [x \in Setters |-> HopTodo(x, i)'] = [[x \in Setters |-> HopTodo(x, i)] EXCEPT ![c] = HopTodo(c, i)']
         /\ [x \in Setters |-> sock'[x][i]] = [[x \in Setters |-> sock[x][i]] EXCEPT ![c] = sock'[c][i]]
<1>1. \A x \in Setters \ {c} :
        /\ PoolPC(x, i)' = PoolPC(x, i) /\ HopTodo(x, i)' = HopTodo(x, i) /\ sock'[x][i] = sock[x][i]
  BY DEF Only, PoolPC, HopTodo
<1> QED
  BY <1>1

(***************************************************************************)
(* ... and to the streams of the socket it uses there.                     *)
(***************************************************************************)
LEMMA StreamsStep ==
  ASSUME IInv, NEW c \in Setters, Only(c), NEW i \in Hops, NEW s \in Socks,
         \A x \in Setters \ {c} : sock[x][i] # s,
         sock[c][i] \in {s, None}, sock'[c][i] \in {s, None}
  PROVE  /\ Sent(i)' = [Sent(i) EXCEPT ![s] = IF sock'[c][i] = s /\ Pending(c, i)' THEN <<c>> ELSE <<>>]
         /\ Back(i)' = [Back(i) EXCEPT ![s] = IF sock'[c][i] = s /\ Replied(c, i)' THEN <<c>> ELSE <<>>]
         /\ Sent(i)[s] = IF sock[c][i] = s /\ Pending(c, i) THEN <<c>> ELSE <<>>
         /\ Back(i)[s] = IF sock[c][i] = s /\ Replied(c, i) THEN <<c>> ELSE <<>>
<1>1. \A x \in Setters \ {c} : /\ sock'[x][i] = sock[x][i]
                               /\ Pending(x, i)' <=> Pending(x, i)
                               /\ Replied(x, i)' <=> Replied(x, i)
  BY DEF Only, Pending, Replied, Done
<1>2. \A u \in Socks \ {s} :
        /\ {x \in Setters : sock'[x][i] = u /\ Pending(x, i)'} = {x \in Setters : sock[x][i] = u /\ Pending(x, i)}
        /\ {x \in Setters : sock'[x][i] = u /\ Replied(x, i)'} = {x \in Setters : sock[x][i] = u /\ Replied(x, i)}
  BY <1>1, NoneAssumption
<1>3. /\ {x \in Setters : sock'[x][i] = s /\ Pending(x, i)'} = IF sock'[c][i] = s /\ Pending(c, i)' THEN {c} ELSE {}
      /\ {x \in Setters : sock'[x][i] = s /\ Replied(x, i)'} = IF sock'[c][i] = s /\ Replied(c, i)' THEN {c} ELSE {}
  BY <1>1
<1>4. /\ {x \in Setters : sock[x][i] = s /\ Pending(x, i)} = IF sock[c][i] = s /\ Pending(c, i) THEN {c} ELSE {}
      /\ {x \in Setters : sock[x][i] = s /\ Replied(x, i)} = IF sock[c][i] = s /\ Replied(c, i) THEN {c} ELSE {}
  OBVIOUS
<1>5. Sent(i)' = [Sent(i) EXCEPT ![s] = IF sock'[c][i] = s /\ Pending(c, i)' THEN <<c>> ELSE <<>>]
  <2>1. \A u \in Socks \ {s} : Sent(i)'[u] = Sent(i)[u]
    BY <1>2 DEF Sent
  <2>2. Sent(i)'[s] = IF sock'[c][i] = s /\ Pending(c, i)' THEN <<c>> ELSE <<>>
    BY <1>3, StreamFacts DEF Sent
  <2>3. Sent(i)' = [u \in Socks |-> Sent(i)'[u]] /\ Sent(i) = [u \in Socks |-> Sent(i)[u]]
    BY DEF Sent
  <2> QED
    BY <2>1, <2>2, <2>3
<1>6. Back(i)' = [Back(i) EXCEPT ![s] = IF sock'[c][i] = s /\ Replied(c, i)' THEN <<c>> ELSE <<>>]
  <2>1. \A u \in Socks \ {s} : Back(i)'[u] = Back(i)[u]
    BY <1>2 DEF Back
  <2>2. Back(i)'[s] = IF sock'[c][i] = s /\ Replied(c, i)' THEN <<c>> ELSE <<>>
    BY <1>3, StreamFacts DEF Back
  <2>3. Back(i)' = [u \in Socks |-> Back(i)'[u]] /\ Back(i) = [u \in Socks |-> Back(i)[u]]
    BY DEF Back
  <2> QED
    BY <2>1, <2>2, <2>3
<1>7. Sent(i)[s] = IF sock[c][i] = s /\ Pending(c, i) THEN <<c>> ELSE <<>>
  BY <1>4, StreamFacts DEF Sent
<1>8. Back(i)[s] = IF sock[c][i] = s /\ Replied(c, i) THEN <<c>> ELSE <<>>
  BY <1>4, StreamFacts DEF Back
<1> QED
  BY <1>5, <1>6, <1>7, <1>8

(***************************************************************************)
(* A hop that the step does not concern.                                   *)
(***************************************************************************)
LEMMA HopUntouched ==
  ASSUME IInv, NEW c \in Clients, Only(c), NEW i \in Hops,
         list'[i] = list[i], state'[i] = state[i],
         c \in Setters => Kept(c, i) /\ Quiet(c, i)
  PROVE  UNCHANGED TC(i)!vars
<1>1. \A x \in Setters :
        /\ PoolPC(x, i)' = PoolPC(x, i) /\ HopTodo(x, i)' = HopTodo(x, i) /\ sock'[x][i] = sock[x][i]
        /\ sock[x][i] # None => (Pending(x, i)' <=> Pending(x, i)) /\ (Replied(x, i)' <=> Replied(x, i))
  BY DEF Only, Kept, Quiet, PoolPC, HopTodo, Pending, Replied, Done
<1>2. \A u \in Socks :
        /\ {x \in Setters : sock'[x][i] = u /\ Pending(x, i)'} = {x \in Setters : sock[x][i] = u /\ Pending(x, i)}
        /\ {x \in Setters : sock'[x][i] = u /\ Replied(x, i)'} = {x \in Setters : sock[x][i] = u /\ Replied(x, i)}
  BY <1>1, NoneAssumption
<1>3. Sent(i)' = Sent(i) /\ Back(i)' = Back(i)
  BY <1>2 DEF Sent, Back
<1>4. /\ [x \in Setters |-> PoolPC(x, i)'] = [x \in Setters |-> PoolPC(x, i)]
      /\ [x \in Setters |-> HopTodo(x, i)'] = [x \in Setters |-> HopTodo(x, i)]
      /\ [x \in Setters |-> sock'[x][i]] = [x \in Setters |-> sock[x][i]]
  BY <1>1
<1> QED
  BY <1>3, <1>4 DEF TC!vars

(***************************************************************************)
(* The handler of server i+1 has done with the request: it answers, sends  *)
(* nothing, or raises.                                                     *)
(***************************************************************************)
LEMMA HopServes ==
  ASSUME IInv, PoolInv, NEW c \in Setters, Only(c), NEW i \in Hops, sock[c][i] # None,
         Kept(c, i), list'[i] = list[i], Pending(c, i), ~Pending(c, i)',
         \/ state'[i] = state[i]
         \/ state'[i] = [state[i] EXCEPT ![sock[c][i]] = "eof"] /\ ~Replied(c, i)'
  PROVE  TC(i)!Next
<1>1. PICK s \in Socks : s = sock[c][i]
  BY DEF IInv, TypeOK
<1>2. \A x \in Setters \ {c} : sock[x][i] # s
  BY <1>1 DEF PoolInv, HoldersInv
<1>3. /\ Sent(i)' = [Sent(i) EXCEPT ![s] = <<>>] /\ Sent(i)[s] = <<c>>
      /\ Back(i)' = [Back(i) EXCEPT ![s] = IF Replied(c, i)' THEN <<c>> ELSE <<>>] /\ Back(i)[s] = <<>>
  <2>1. ~Replied(c, i) /\ sock'[c][i] = s
    BY <1>1 DEF Kept, Pending, Replied, Done
  <2> QED
    BY <1>1, <1>2, <2>1, StreamsStep
<1>4. /\ [x \in Setters |-> PoolPC(x, i)'] = [x \in Setters |-> PoolPC(x, i)]
      /\ [x \in Setters |-> HopTodo(x, i)'] = [x \in Setters |-> HopTodo(x, i)]
      /\ [x \in Setters |-> sock'[x][i]] = [x \in Setters |-> sock[x][i]]
  <2>1. \A x \in Setters :
          PoolPC(x, i)' = PoolPC(x, i) /\ HopTodo(x, i)' = HopTodo(x, i) /\ sock'[x][i] = sock[x][i]
    BY DEF Only, Kept, PoolPC, HopTodo
  <2> QED
    BY <2>1
<1>5. TC(i)!Processed(s)
  <2>1. state[i][s] = "up"
    BY <1>1 DEF PoolInv, FarInv
  <2>2. Tail(Sent(i)[s]) = <<>> /\ Sent(i)[s] # <<>>
    BY <1>3
  <2> QED
    BY <1>3, <1>4, <2>1, <2>2 DEF TC!Processed
<1>6. CASE Replied(c, i)'
  <2>1. Append(Back(i)[s], Head(Sent(i)[s])) = <<c>> /\ state'[i] = state[i]
    BY <1>3, <1>6
  <2>2. TC(i)!PeerReply(s)
    BY <1>3, <1>5, <1>6, <2>1 DEF TC!PeerReply
  <2> QED
    BY <1>1, <2>2 DEF TC!Next, TC!Socks, Socks
<1>7. CASE ~Replied(c, i)'
  <2>1. Back(i)' = Back(i)
    BY <1>3, <1>7 DEF Back
  <2>2. TC(i)!PeerSilent(s) \/ TC(i)!PeerClose(s)
    BY <1>1, <1>5, <2>1 DEF TC!PeerSilent, TC!PeerClose
  <2> QED
    BY <1>1, <2>2 DEF TC!Next, TC!Socks, Socks
<1> QED
  BY <1>6, <1>7

(***************************************************************************)
(* A step of a thread that is not waiting for the far end.                 *)
(***************************************************************************)
LEMMA StreamsIdle ==
  ASSUME IInv, NEW c \in Setters, Only(c), NEW i \in Hops,
         sock[c][i] # None => ~Pending(c, i) /\ ~Replied(c, i),
         sock'[c][i] # None => ~Pending(c, i)' /\ ~Replied(c, i)'
  PROVE  Sent(i)' = Sent(i) /\ Back(i)' = Back(i)
<1>1. \A x \in Setters \ {c} : /\ sock'[x][i] = sock[x][i]
                               /\ Pending(x, i)' <=> Pending(x, i)
                               /\ Replied(x, i)' <=> Replied(x, i)
  BY DEF Only, Pending, Replied, Done
<1>2. \A u \in Socks :
        /\ {x \in Setters : sock'[x][i] = u /\ Pending(x, i)'} = {x \in Setters : sock[x][i] = u /\ Pending(x, i)}
        /\ {x \in Setters : sock'[x][i] = u /\ Replied(x, i)'} = {x \in Setters : sock[x][i] = u /\ Replied(x, i)}
  BY <1>1, NoneAssumption
<1> QED
  BY <1>2 DEF Sent, Back

(***************************************************************************)
(* send and get_sock, up to the use of a socket.                           *)
(***************************************************************************)
LEMMA ForwardStep ==
  ASSUME IInv, PoolInv, NEW c \in Setters, Only(c), NEW i \in Hops, at[c] = i,
         \/ SetForward(c) \/ CheckNone(c) \/ InitList(c) \/ ConnectAppend(c) \/ LenCheck(c) \/ Pop(c)
  PROVE  TC(i)!Next
<1>0. pc[c] # "send" /\ sock[c][i] = None
  BY NAssumption DEF SetForward, CheckNone, InitList, ConnectAppend, LenCheck, Pop, Goto, IInv, HoldInv, Hops
<1>1. /\ at' = at
      /\ sock'[c][i] # None => pc'[c] = "send"
  BY <1>0 DEF SetForward, CheckNone, InitList, ConnectAppend, LenCheck, Pop, Goto, hops, IInv, TypeOK, Clients
<1>2. Sent(i)' = Sent(i) /\ Back(i)' = Back(i)
  BY <1>0, <1>1, StreamsIdle, NAssumption DEF Pending, Replied, Hops
<1>3. /\ [x \in Setters |-> PoolPC(x, i)'] = [[x \in Setters |-> PoolPC(x, i)] EXCEPT ![c] = PoolPC(c, i)']
      /\ [x \in Setters |-> HopTodo(x, i)'] = [[x \in Setters |-> HopTodo(x, i)] EXCEPT ![c] = HopTodo(c, i)']
      /\ [x \in Setters |-> sock'[x][i]] = [[x \in Setters |-> sock[x][i]] EXCEPT ![c] = sock'[c][i]]
  BY ThreadsStep
<1>4. todo'[c] = todo[c] =>
        [x \in Setters |-> HopTodo(x, i)'] = [x \in Setters |-> HopTodo(x, i)]
  BY <1>1 DEF HopTodo, Only
<1>5. sock'[c][i] = None => [x \in Setters |-> sock'[x][i]] = [x \in Setters |-> sock[x][i]]
  BY <1>0 DEF Only
<1>h. HopTodo(c, i) = todo[c] /\ HopTodo(c, i)' = todo'[c]
  BY <1>1 DEF HopTodo
<1>p. PoolPC(c, i) = IF pc[c] \in {"check", "init", "build", "len", "pop"} THEN pc[c] ELSE "idle"
  BY <1>0 DEF PoolPC
<1>q. /\ sock'[c][i] # None => PoolPC(c, i)' = "send"
      /\ sock'[c][i] = None /\ pc'[c] \in {"check", "init", "build", "len", "pop"} => PoolPC(c, i)' = pc'[c]
  BY <1>1 DEF PoolPC
<1>6. CASE SetForward(c)
  <2>1. /\ PoolPC(c, i) = "idle" /\ PoolPC(c, i)' = "check" /\ todo'[c] = todo[c] /\ sock'[c][i] = None
        /\ list'[i] = list[i] /\ state'[i] = state[i]
    BY <1>0, <1>6, <1>p, <1>q DEF SetForward, Goto, hops, IInv, TypeOK, Clients
  <2>2. TC(i)!Call(c)
    BY <1>2, <1>3, <1>4, <1>5, <2>1 DEF TC!Call, TC!Goto, TC!channel
  <2> QED
    BY <2>2 DEF TC!Next
<1>7. CASE CheckNone(c)
  <2>1. /\ PoolPC(c, i) = "check" /\ PoolPC(c, i)' = IF list[i] = None THEN "init" ELSE "len"
        /\ todo'[c] = todo[c] /\ sock'[c][i] = None
        /\ list'[i] = list[i] /\ state'[i] = state[i]
    BY <1>0, <1>7, <1>p, <1>q DEF CheckNone, Goto, hops, IInv, TypeOK, Clients
  <2>2. TC(i)!CheckNone(c)
    BY <1>2, <1>3, <1>4, <1>5, <2>1 DEF TC!CheckNone, TC!Goto, TC!channel
  <2> QED
    BY <2>2 DEF TC!Next, TC!ThreadStep
<1>8. CASE InitList(c)
  <2>1. /\ PoolPC(c, i) = "init" /\ PoolPC(c, i)' = "build"
        /\ todo'[c] = PoolSz /\ sock'[c][i] = None
        /\ list'[i] = <<>> /\ state'[i] = state[i]
    BY <1>0, <1>8, <1>p, <1>q DEF InitList, Goto, IInv, TypeOK, Clients
  <2>2. TC(i)!InitList(c)
    BY <1>2, <1>3, <1>5, <1>h, <2>1 DEF TC!InitList, TC!Goto, TC!channel
  <2> QED
    BY <2>2 DEF TC!Next, TC!ThreadStep
<1>9. CASE ConnectAppend(c)
  <2>1. /\ PoolPC(c, i) = "build" /\ PoolPC(c, i)' = IF todo[c] = 1 THEN "len" ELSE "build"
        /\ todo'[c] = todo[c] - 1 /\ sock'[c][i] = None
        /\ list'[i] = Append(list[i], <<c, todo[c]>>)
        /\ state'[i] = [state[i] EXCEPT ![<<c, todo[c]>>] = "up"]
    BY <1>0, <1>9, <1>p, <1>q DEF ConnectAppend, Goto, IInv, TypeOK, Clients
  <2>2. [x \in Setters |-> HopTodo(x, i)][c] = todo[c]
    BY <1>h
  <2>3. TC(i)!ConnectAppend(c)
    BY <1>2, <1>3, <1>5, <1>h, <2>1, <2>2 DEF TC!ConnectAppend, TC!Goto
  <2> QED
    BY <2>3 DEF TC!Next, TC!ThreadStep
<1>10. CASE LenCheck(c)
  <2>1. /\ PoolPC(c, i) = "len" /\ PoolPC(c, i)' = "pop" /\ list[i] # <<>>
        /\ todo'[c] = todo[c] /\ sock'[c][i] = None
        /\ list'[i] = list[i] /\ state'[i] = state[i]
    BY <1>0, <1>10, <1>p, <1>q DEF LenCheck, Goto, hops, IInv, TypeOK, Clients
  <2>2. TC(i)!LenCheck(c)
    BY <1>2, <1>3, <1>4, <1>5, <2>1 DEF TC!LenCheck, TC!Goto, TC!channel
  <2> QED
    BY <2>2 DEF TC!Next, TC!ThreadStep
<1>11. CASE Pop(c)
  <2>1. list[i] \in Seq(Socks) /\ Len(list[i]) > 0
    BY <1>11 DEF Pop, Goto, IInv, TypeOK, ListInv
  <2>2. list[i] # <<>> /\ list[i][Len(list[i])] \in Socks
    BY <2>1
  <2>3. /\ sock'[c][i] = list[i][Len(list[i])] /\ list'[i] = SubSeq(list[i], 1, Len(list[i]) - 1)
        /\ todo'[c] = todo[c] /\ state'[i] = state[i]
    BY <1>11 DEF Pop, Goto, IInv, TypeOK, Clients
  <2>4. PoolPC(c, i) = "pop" /\ PoolPC(c, i)' = "send"
    BY <1>0, <1>11, <1>p, <1>q, <2>2, <2>3, NoneAssumption DEF Pop, Goto
  <2>5. TC(i)!Pop(c)
    BY <1>2, <1>3, <1>4, <2>2, <2>3, <2>4 DEF TC!Pop, TC!Goto, TC!channel
  <2> QED
    BY <2>5 DEF TC!Next, TC!ThreadStep
<1> QED
  BY <1>6, <1>7, <1>8, <1>9, <1>10, <1>11

(***************************************************************************)
(* send is left by release_sock: with the answer that is there, or with    *)
(* none because the connection is lost.                                    *)
(***************************************************************************)
LEMMA ReleaseStep ==
  ASSUME IInv, PoolInv, NEW c \in Setters, Only(c), NEW i \in Hops, sock[c][i] # None,
         \/ (SendEof(c) \/ SendReset(c)) /\ at[c] = i
         \/ (RecvReply(c) \/ RecvEof(c)) /\ at[c] = i + 1,
         Release(c, i), at'[c] = i, pc'[c] \notin {"check", "init", "build", "len", "pop"}
  PROVE  TC(i)!Next
<1>1. PICK s \in Socks : s = sock[c][i]
  BY DEF IInv, TypeOK
<1>2. \A x \in Setters \ {c} : sock[x][i] # s
  BY <1>1 DEF PoolInv, HoldersInv
<1>3. /\ list'[i] = Append(list[i], s) /\ sock'[c][i] = None /\ todo' = todo
      /\ [x \in Setters |-> sock[x][i]][c] = s
  BY <1>1 DEF Release, IInv, TypeOK
<1>4. PoolPC(c, i) = (IF at[c] = i THEN "send" ELSE "recv") /\ PoolPC(c, i)' = "idle"
  BY <1>3 DEF PoolPC
<1>5. HopTodo(c, i)' = HopTodo(c, i)
  <2>1. at[c] # i => todo[c] = 0
    BY NAssumption DEF PoolInv, NewInv, RecvReply, RecvEof, Goto, SendEof, SendReset, Hops
  <2> QED
    BY <1>3, <2>1 DEF HopTodo
<1>6. /\ [x \in Setters |-> PoolPC(x, i)'] = [[x \in Setters |-> PoolPC(x, i)] EXCEPT ![c] = "idle"]
      /\ [x \in Setters |-> sock'[x][i]] = [[x \in Setters |-> sock[x][i]] EXCEPT ![c] = None]
  BY <1>3, <1>4, ThreadsStep
<1>7. [x \in Setters |-> HopTodo(x, i)'] = [x \in Setters |-> HopTodo(x, i)]
  BY <1>5 DEF HopTodo, Only
<1>8. TC(i)!Release(c)
  BY <1>3, <1>6, <1>7 DEF TC!Release
<1>9. [x \in Setters |-> PoolPC(x, i)][c] = IF at[c] = i THEN "send" ELSE "recv"
  BY <1>4
<1>10. CASE SendEof(c) /\ at[c] = i
  <2>1. Sent(i)' = Sent(i) /\ Back(i)' = Back(i)
    BY <1>3, <1>10, StreamsIdle, NAssumption DEF Pending, Replied, Hops
  <2>2. state[i][s] = "eof" /\ state'[i] = [state[i] EXCEPT ![s] = "reset"]
    BY <1>1, <1>10 DEF SendEof, IInv, TypeOK
  <2>3. TC(i)!SendEof(c)
    BY <1>3, <1>8, <1>9, <1>10, <2>1, <2>2 DEF TC!SendEof
  <2> QED
    BY <2>3 DEF TC!Next, TC!ThreadStep
<1>11. CASE SendReset(c) /\ at[c] = i
  <2>1. Sent(i)' = Sent(i) /\ Back(i)' = Back(i)
    BY <1>3, <1>11, StreamsIdle, NAssumption DEF Pending, Replied, Hops
  <2>2. state[i][s] = "reset" /\ state'[i] = state[i]
    BY <1>1, <1>11 DEF SendReset
  <2>3. TC(i)!SendReset(c)
    BY <1>3, <1>8, <1>9, <1>11, <2>1, <2>2 DEF TC!SendReset, TC!channel
  <2> QED
    BY <2>3 DEF TC!Next, TC!ThreadStep
<1>12. CASE RecvReply(c) /\ at[c] = i + 1
  <2>0. at[c] # i /\ pc[c] = "answer" /\ state' = state
    BY <1>12, NAssumption DEF RecvReply, Goto, Hops
  <2>1. Replied(c, i) /\ ~Pending(c, i)
    BY <1>12, <2>0 DEF Replied, Pending, Done
  <2>2. /\ Sent(i)' = [Sent(i) EXCEPT ![s] = <<>>] /\ Sent(i)[s] = <<>>
        /\ Back(i)' = [Back(i) EXCEPT ![s] = <<>>] /\ Back(i)[s] = <<c>>
    <3>1. s # None /\ sock[c][i] \in {s, None} /\ sock'[c][i] \in {s, None}
      BY <1>1, <1>3, NoneAssumption
    <3>2. /\ Sent(i)' = [Sent(i) EXCEPT ![s] = IF sock'[c][i] = s /\ Pending(c, i)' THEN <<c>> ELSE <<>>]
          /\ Back(i)' = [Back(i) EXCEPT ![s] = IF sock'[c][i] = s /\ Replied(c, i)' THEN <<c>> ELSE <<>>]
          /\ Sent(i)[s] = IF sock[c][i] = s /\ Pending(c, i) THEN <<c>> ELSE <<>>
          /\ Back(i)[s] = IF sock[c][i] = s /\ Replied(c, i) THEN <<c>> ELSE <<>>
      BY <1>2, <3>1, StreamsStep
    <3>3. sock'[c][i] # s /\ sock[c][i] = s
      BY <1>1, <1>3, <3>1
    <3> QED
      BY <2>1, <3>2, <3>3
  <2>3. Sent(i)' = Sent(i)
    BY <2>2 DEF Sent
  <2>4. Tail(Back(i)[s]) = <<>> /\ Back(i)[s] # <<>>
    BY <2>2
  <2>5. TC(i)!RecvReply(c)
    BY <1>3, <1>8, <1>9, <2>0, <2>2, <2>3, <2>4 DEF TC!RecvReply
  <2> QED
    BY <2>5 DEF TC!Next, TC!ThreadStep
<1>13. CASE RecvEof(c) /\ at[c] = i + 1
  <2>0. at[c] # i /\ pc[c] = "raised" /\ state' = state
    BY <1>13, NAssumption DEF RecvEof, Goto, Hops
  <2>1. ~Replied(c, i) /\ ~Pending(c, i)
    BY <1>13, <2>0 DEF Replied, Pending, Done
  <2>2. Sent(i)' = Sent(i) /\ Back(i)' = Back(i)
    BY <1>3, <2>1, StreamsIdle
  <2>3. Back(i)[s] = <<>>
    BY <1>1, <1>2, <1>3, <2>1, StreamsStep
  <2>4. state[i][s] # "up"
    BY <1>1, <1>13, <2>0 DEF PoolInv, FarInv
  <2>5. TC(i)!RecvEof(c)
    BY <1>3, <1>8, <1>9, <2>0, <2>2, <2>3, <2>4 DEF TC!RecvEof, TC!channel
  <2> QED
    BY <2>5 DEF TC!Next, TC!ThreadStep
<1> QED
  BY <1>10, <1>11, <1>12, <1>13

(***************************************************************************)
(* The request goes out, or the pool is found empty.                       *)
(***************************************************************************)
LEMMA SendUpTC ==
  ASSUME IInv, PoolInv, NEW c \in Setters, Only(c), NEW i \in Hops, at[c] = i, SendUp(c)
  PROVE  TC(i)!Next
<1>0. pc[c] = "send" /\ pc'[c] = "handle" /\ at'[c] = i + 1 /\ UNCHANGED hops
      /\ sock[c][i] # None /\ state[i][sock[c][i]] = "up"
  BY DEF SendUp, Goto, IInv, TypeOK, CallInv, HoldInv, Forwarding, Clients
<1>1. PICK s \in Socks : s = sock[c][i]
  BY <1>0 DEF IInv, TypeOK
<1>2. \A x \in Setters \ {c} : sock[x][i] # s
  BY <1>0, <1>1 DEF PoolInv, HoldersInv
<1>3. list' = list /\ state' = state /\ sock' = sock /\ todo'[c] = 0 /\ todo[c] = 0
  BY <1>0 DEF hops, PoolInv, NewInv
<1>4. PoolPC(c, i) = "send" /\ PoolPC(c, i)' = "recv"
  BY <1>0, <1>3, NAssumption DEF PoolPC, Hops
<1>5. [x \in Setters |-> PoolPC(x, i)'] = [[x \in Setters |-> PoolPC(x, i)] EXCEPT ![c] = "recv"]
  BY <1>4, ThreadsStep
<1>6. [x \in Setters |-> HopTodo(x, i)'] = [x \in Setters |-> HopTodo(x, i)]
  BY <1>3 DEF HopTodo, Only
<1>7. ~Pending(c, i) /\ Pending(c, i)' /\ ~Replied(c, i) /\ ~Replied(c, i)'
  BY <1>0, NAssumption DEF Pending, Replied, Done, Hops
<1>8. /\ Sent(i)' = [Sent(i) EXCEPT ![s] = <<c>>] /\ Sent(i)[s] = <<>>
      /\ Back(i)' = [Back(i) EXCEPT ![s] = <<>>] /\ Back(i)[s] = <<>>
  BY <1>1, <1>2, <1>3, <1>7, StreamsStep
<1>9. Back(i)' = Back(i)
  BY <1>8 DEF Back
<1>10. Append(Sent(i)[s], c) = <<c>>
  BY <1>8
<1>11. TC(i)!SendUp(c)
  BY <1>0, <1>1, <1>3, <1>4, <1>5, <1>6, <1>8, <1>9, <1>10 DEF TC!SendUp, TC!Goto
<1> QED
  BY <1>11 DEF TC!Next, TC!ThreadStep

LEMMA RaiseTC ==
  ASSUME IInv, PoolInv, NEW c \in Setters, Only(c), NEW i \in Hops, at[c] = i, Exhausted(c)
  PROVE  TC(i)!Next
<1>0. pc[c] \in {"len", "pop"} /\ list[i] = <<>> /\ pc'[c] = "raised"
      /\ at' = at /\ UNCHANGED <<list, todo, sock>>
  BY DEF Exhausted, IInv, TypeOK, Clients
<1>1. sock[c][i] = None
  BY <1>0, NAssumption DEF IInv, HoldInv, Hops
<1>2. PoolPC(c, i) = pc[c] /\ PoolPC(c, i)' = "idle"
  BY <1>0, <1>1 DEF PoolPC
<1>3. Sent(i)' = Sent(i) /\ Back(i)' = Back(i)
  BY <1>0, <1>1, StreamsIdle
<1>4. [x \in Setters |-> PoolPC(x, i)'] = [[x \in Setters |-> PoolPC(x, i)] EXCEPT ![c] = "idle"]
  <2>1. PoolPC(c, i)' = "idle"
    BY <1>2
  <2>2. [x \in Setters |-> PoolPC(x, i)'] = [[x \in Setters |-> PoolPC(x, i)] EXCEPT ![c] = PoolPC(c, i)']
    BY ThreadsStep
  <2> QED
    BY <2>1, <2>2
<1>5. /\ [x \in Setters |-> HopTodo(x, i)'] = [x \in Setters |-> HopTodo(x, i)]
      /\ [x \in Setters |-> sock'[x][i]] = [x \in Setters |-> sock[x][i]]
  BY <1>0 DEF HopTodo
<1>6. state'[i] = state[i]
  <2>1. CASE at[c] = Entry(c)
    BY <2>1 DEF Exhausted, CloseUpstream
  <2>2. CASE at[c] # Entry(c)
    <3>1. state' = [state EXCEPT ![i - 1][sock[c][i - 1]] = "eof"] /\ i # i - 1
      BY <2>2, NAssumption DEF Exhausted, CloseUpstream, Hops
    <3> QED
      BY <3>1 DEF IInv, TypeOK
  <2> QED
    BY <2>1, <2>2
<1>7. TC(i)!Raise(c)
  BY <1>0, <1>2, <1>3, <1>4, <1>5, <1>6 DEF TC!Raise, TC!Exhausted, TC!channel
<1> QED
  BY <1>7 DEF TC!Next, TC!ThreadStep

(***************************************************************************)
(* Steps of a call that no handler has forwarded: no hop is concerned.     *)
(***************************************************************************)
LEMMA OutsideHops ==
  ASSUME IInv, PoolInv, NEW c \in Clients, NEW i \in Hops, Only(c),
         \/ \E r \in Requests(c) : Call(c, r)
         \/ ClientStep(c) \/ GetStep(c)
         \/ RecvEof(c) /\ at[c] = Entry(c)
  PROVE  UNCHANGED TC(i)!vars
<1>1. UNCHANGED hops
  <2>1. CASE GetKeyError(c)
    <3>1. at[c] = N /\ req[c].op = "GET"
      BY <2>1 DEF GetKeyError, Goto, IInv, CallInv, Servers
    <3> QED
      BY <2>1, <3>1 DEF GetKeyError, CloseUpstream, Entry, hops
  <2> QED
    BY <2>1 DEF Call, ClientStep, ClientSend, ClientSendEof, ClientSendReset, Return, GetStep, Get,
       RecvEof, hops
<1>2. c \in Setters => sock[c][i] = None
  <2>1. at[c] \in {0, Entry(c)} /\ pc[c] # "send"
    BY DEF Call, ClientStep, ClientSend, ClientSendEof, ClientSendReset, Return, GetStep, Get,
       GetKeyError, RecvEof, Goto, IInv, CallInv, Servers, Entry
  <2>2. req[c].op = "SET" => Entry(c) = 1
    BY DEF Entry
  <2>3. ~(i < 0) /\ ~(i < 1)
    BY NAssumption DEF Hops
  <2> QED
    BY <2>1, <2>2, <2>3 DEF IInv, HoldInv
<1>3. /\ pc[c] \notin {"check", "init", "build", "len", "pop"}
      /\ pc'[c] \notin {"check", "init", "build", "len", "pop"}
  BY DEF Call, ClientStep, ClientSend, ClientSendEof, ClientSendReset, Return, GetStep, Get,
     GetKeyError, RecvEof, Goto, IInv, TypeOK
<1>4. c \in Setters => todo[c] = 0 /\ todo'[c] = 0
  BY <1>1, <1>3 DEF hops, PoolInv, NewInv
<1>5. c \in Setters => Kept(c, i) /\ Quiet(c, i)
  BY <1>1, <1>2, <1>3, <1>4 DEF hops, Kept, Quiet, PoolPC, HopTodo
<1> QED
  BY <1>1, <1>5, HopUntouched DEF hops

(***************************************************************************)
(* get_sock concerns the hop it is called for.                             *)
(***************************************************************************)
LEMMA ForwardHops ==
  ASSUME IInv, PoolInv, NEW c \in Clients, NEW i \in Hops, Only(c),
         SetForward(c) \/ CheckNone(c) \/ InitList(c) \/ ConnectAppend(c) \/ LenCheck(c) \/ Pop(c)
  PROVE  TC(i)!Next \/ UNCHANGED TC(i)!vars
<1>1. c \in Setters /\ at[c] \in Hops
  BY NAssumption DEF SetForward, CheckNone, InitList, ConnectAppend, LenCheck, Pop, Goto, IInv, TypeOK,
     CallInv, Forwarding, Servers, Hops
<1>2. CASE at[c] = i
  BY <1>1, <1>2, ForwardStep
<1>3. CASE at[c] # i
  <2>1. list'[i] = list[i] /\ state'[i] = state[i] /\ sock'[c][i] = sock[c][i] /\ at' = at
    BY <1>1, <1>3 DEF SetForward, CheckNone, InitList, ConnectAppend, LenCheck, Pop, hops, IInv, TypeOK
  <2>2. /\ pc[c] \notin {"answer", "raised", "hung"}
        /\ pc'[c] \notin {"answer", "raised", "hung"}
    BY DEF SetForward, CheckNone, InitList, ConnectAppend, LenCheck, Pop, Goto, IInv, TypeOK
  <2>3. Kept(c, i) /\ Quiet(c, i)
    BY <1>3, <2>1, <2>2 DEF Kept, Quiet, PoolPC, HopTodo, Pending, Replied, Done
  <2> QED
    BY <2>1, <2>3, HopUntouched
<1> QED
  BY <1>2, <1>3

(***************************************************************************)
(* A handler that has got its answer gives it to the server before it.     *)
(* The call of c is at server k and will be done with there.               *)
(***************************************************************************)
LEMMA AnswerHops ==
  ASSUME IInv, PoolInv, NEW c \in Setters, NEW i \in Hops, Only(c),
         req[c].op = "SET", NEW k \in Servers, i < k, at'[c] = k,
         at[c] \in {k, k + 1}, at[c] = k => pc[c] \notin {"answer", "raised", "hung"},
         pc'[c] \in {"answer", "raised", "hung"}, todo'[c] = todo[c],
         list'[i] = list[i], sock'[c][i] = sock[c][i],
         \/ state'[i] = state[i]
         \/ i = k - 1 /\ state'[i] = [state[i] EXCEPT ![sock[c][i]] = "eof"] /\ pc'[c] = "raised"
  PROVE  TC(i)!Next \/ UNCHANGED TC(i)!vars
<1>0. i \in Nat /\ k \in Nat /\ at[c] # i /\ at'[c] # i
  BY NAssumption DEF Hops, Servers
<1>1. sock[c][i] # None
  <2>1. i < at[c]
    BY <1>0
  <2> QED
    BY <2>1 DEF IInv, HoldInv
<1>2. Kept(c, i)
  BY <1>0 DEF Kept, PoolPC, HopTodo
<1>3. CASE i = k - 1
  <2>1. Pending(c, i) /\ ~Pending(c, i)'
    BY <1>0, <1>3 DEF Pending, Done
  <2>2. pc'[c] = "raised" => ~Replied(c, i)'
    BY DEF Replied
  <2> QED
    BY <1>1, <1>2, <2>1, <2>2, HopServes
<1>4. CASE i # k - 1
  <2>1. Quiet(c, i)
    BY <1>0, <1>4 DEF Quiet, Pending, Replied, Done
  <2>2. state'[i] = state[i] /\ c \in Clients
    BY <1>4 DEF Clients
  <2> QED
    BY <1>2, <2>1, <2>2, HopUntouched
<1> QED
  BY <1>3, <1>4

(***************************************************************************)
(* A hop the request has not come to.                                      *)
(***************************************************************************)
LEMMA BeyondHops ==
  ASSUME IInv, PoolInv, NEW c \in Setters, NEW i \in Hops, Only(c),
         sock[c][i] = None, sock'[c][i] = None, todo[c] = 0, todo'[c] = 0,
         at[c] = i => pc[c] \notin {"check", "init", "build", "len", "pop"},
         at'[c] = i => pc'[c] \notin {"check", "init", "build", "len", "pop"},
         list'[i] = list[i], state'[i] = state[i]
  PROVE  UNCHANGED TC(i)!vars
<1>1. Kept(c, i) /\ Quiet(c, i)
  BY DEF Kept, Quiet, PoolPC, HopTodo
<1> QED
  BY <1>1, HopUntouched DEF Clients

(***************************************************************************)
(* The other steps of a SET, hop by hop.                                   *)
(***************************************************************************)
LEMMA TailHops ==
  ASSUME IInv, PoolInv, NEW c \in Clients, NEW i \in Hops, Only(c), SetTail(c)
  PROVE  TC(i)!Next \/ UNCHANGED TC(i)!vars
<1>1. c \in Setters /\ at[c] = N /\ at'[c] = N /\ pc[c] = "handle" /\ pc'[c] = "answer" /\ UNCHANGED hops
  BY DEF SetTail, Goto, IInv, TypeOK, CallInv
<1>2. N \in Servers /\ i < N /\ at'[c] = N /\ at[c] \in {N, N + 1}
  BY <1>1, NAssumption DEF Hops, Servers
<1>3. req[c].op = "SET"
  BY DEF SetTail
<1> QED
  BY <1>1, <1>2, <1>3, AnswerHops DEF hops

LEMMA ExhaustedHops ==
  ASSUME IInv, PoolInv, NEW c \in Clients, NEW i \in Hops, Only(c), Exhausted(c)
  PROVE  TC(i)!Next \/ UNCHANGED TC(i)!vars
<1>1. /\ c \in Setters /\ req[c].op = "SET" /\ at[c] \in Hops
      /\ pc[c] \in {"len", "pop"} /\ pc'[c] = "raised" /\ at'[c] = at[c]
      /\ UNCHANGED <<list, todo, sock>>
  BY DEF Exhausted, IInv, TypeOK, CallInv, Forwarding
<1>2. CASE i = at[c]
  BY <1>1, <1>2, RaiseTC
<1>3. state'[i] = state[i] \/ (i = at[c] - 1 /\ state'[i] = [state[i] EXCEPT ![sock[c][i]] = "eof"])
  BY <1>1, NAssumption DEF Exhausted, CloseUpstream, Entry, Hops, IInv, TypeOK
<1>4. CASE i < at[c]
  <2>1. at[c] \in Servers /\ at[c] \in {at[c], at[c] + 1}
    BY <1>1, NAssumption DEF Hops, Servers
  <2> QED
    BY <1>1, <1>3, <1>4, <2>1, AnswerHops
<1>5. CASE i > at[c]
  <2>1. sock[c][i] = None /\ todo[c] = 0 /\ at[c] # i /\ state'[i] = state[i]
    BY <1>1, <1>3, <1>5, NAssumption DEF IInv, HoldInv, PoolInv, NewInv, Hops
  <2> QED
    BY <1>1, <2>1, BeyondHops
<1> QED
  BY <1>1, <1>2, <1>4, <1>5, NAssumption DEF Hops

LEMMA SendUpHops ==
  ASSUME IInv, PoolInv, NEW c \in Clients, NEW i \in Hops, Only(c), SendUp(c)
  PROVE  TC(i)!Next \/ UNCHANGED TC(i)!vars
<1>1. /\ c \in Setters /\ at[c] \in Hops /\ pc[c] = "send" /\ pc'[c] = "handle"
      /\ at'[c] = at[c] + 1 /\ UNCHANGED hops
  BY DEF SendUp, Goto, IInv, TypeOK, CallInv, Forwarding
<1>2. CASE i = at[c]
  BY <1>1, <1>2, SendUpTC
<1>3. CASE i < at[c]
  <2>1. at[c] # i /\ at'[c] # i /\ at[c] > i /\ at'[c] > i
    BY <1>1, <1>3, NAssumption DEF Hops
  <2>2. Kept(c, i)
    BY <1>1, <2>1 DEF Kept, PoolPC, HopTodo, hops
  <2>3. Quiet(c, i)
    BY <1>1, <2>1 DEF Quiet, Pending, Replied, Done
  <2> QED
    BY <1>1, <2>2, <2>3, HopUntouched DEF hops
<1>4. CASE i > at[c]
  <2>1. sock[c][i] = None /\ todo[c] = 0 /\ at[c] # i
    BY <1>1, <1>4, NAssumption DEF IInv, HoldInv, PoolInv, NewInv, Hops
  <2> QED
    BY <1>1, <2>1, BeyondHops DEF hops
<1> QED
  BY <1>1, <1>2, <1>3, <1>4, NAssumption DEF Hops

LEMMA SendLostHops ==
  ASSUME IInv, PoolInv, NEW c \in Clients, NEW i \in Hops, Only(c), SendEof(c) \/ SendReset(c)
  PROVE  TC(i)!Next \/ UNCHANGED TC(i)!vars
<1>1. /\ c \in Setters /\ req[c].op = "SET" /\ at[c] \in Hops
      /\ pc[c] = "send" /\ pc'[c] \in {"answer", "hung"} /\ at'[c] = at[c]
  BY DEF SendEof, SendReset, Goto, IInv, TypeOK, CallInv, Forwarding
<1>2. Release(c, at[c]) /\ UNCHANGED todo
  BY DEF SendEof, SendReset, Release
<1>3. CASE i = at[c]
  <2>1. sock[c][i] # None
    BY <1>1, <1>3 DEF IInv, HoldInv
  <2> QED
    BY <1>1, <1>2, <1>3, <2>1, ReleaseStep
<1>4. i # at[c] => list'[i] = list[i] /\ sock'[c][i] = sock[c][i] /\ state'[i] = state[i]
  BY <1>1, <1>2 DEF Release, SendEof, SendReset, IInv, TypeOK
<1>5. CASE i < at[c]
  <2>1. at[c] \in Servers /\ at[c] \in {at[c], at[c] + 1} /\ i # at[c]
    BY <1>1, <1>5, NAssumption DEF Hops, Servers
  <2> QED
    BY <1>1, <1>2, <1>4, <1>5, <2>1, AnswerHops
<1>6. CASE i > at[c]
  <2>1. sock[c][i] = None /\ todo[c] = 0 /\ at[c] # i
    BY <1>1, <1>6, NAssumption DEF IInv, HoldInv, PoolInv, NewInv, Hops
  <2> QED
    BY <1>1, <1>2, <1>4, <2>1, BeyondHops
<1> QED
  BY <1>1, <1>3, <1>5, <1>6, NAssumption DEF Hops

LEMMA RecvHops ==
  ASSUME IInv, PoolInv, NEW c \in Clients, NEW i \in Hops, Only(c),
         RecvReply(c) \/ (RecvEof(c) /\ at[c] # Entry(c))
  PROVE  TC(i)!Next \/ UNCHANGED TC(i)!vars
<1>1. c \in Setters /\ at[c] \in 0 .. N /\ at[c] - 1 \in Hops /\ req[c].op = "SET"
  BY BackAtServer
<1>2. PICK k \in Hops : k = at[c] - 1
  BY <1>1
<1>3. k \in Servers /\ at[c] = k + 1 /\ i \in Nat /\ k \in Nat
  BY <1>1, <1>2, NAssumption DEF Hops, Servers
<1>4. /\ pc[c] \in {"answer", "raised"} /\ pc'[c] = "answer" /\ at'[c] = k
      /\ Release(c, k) /\ UNCHANGED <<todo, state>>
  BY <1>2 DEF RecvReply, RecvEof, Release, Goto, IInv, TypeOK
<1>5. i # k => list'[i] = list[i] /\ sock'[c][i] = sock[c][i]
  BY <1>4 DEF Release, IInv, TypeOK
<1>6. CASE i = k
  <2>1. sock[c][i] # None
    <3>1. i < at[c]
      BY <1>3, <1>6
    <3> QED
      BY <1>1, <3>1 DEF IInv, HoldInv
  <2> QED
    BY <1>1, <1>3, <1>4, <1>6, <2>1, ReleaseStep
<1>7. CASE i < k
  <2>1. i # k /\ at[c] # k
    BY <1>3, <1>7
  <2> QED
    BY <1>1, <1>3, <1>4, <1>5, <1>7, <2>1, AnswerHops
<1>8. CASE i > k
  <2>1. i # k /\ ~(i < at[c]) /\ pc[c] # "send"
    BY <1>3, <1>4, <1>8
  <2>2. sock[c][i] = None /\ todo[c] = 0
    BY <1>1, <1>4, <2>1 DEF IInv, HoldInv, PoolInv, NewInv
  <2> QED
    BY <1>1, <1>4, <1>5, <2>1, <2>2, BeyondHops
<1> QED
  BY <1>3, <1>6, <1>7, <1>8

(***************************************************************************)
(* Every step of the chain is, at every hop, a step of its TcpClient or    *)
(* none.                                                                   *)
(***************************************************************************)
LEMMA StepHops ==
  IInv /\ PoolInv /\ [Next]_vars => \A i \in Hops : TC(i)!Next \/ UNCHANGED TC(i)!vars
<1> SUFFICES ASSUME IInv, PoolInv, [Next]_vars, NEW i \in Hops
             PROVE  TC(i)!Next \/ UNCHANGED TC(i)!vars
  OBVIOUS
<1>1. CASE UNCHANGED vars
  BY <1>1 DEF vars, TC!vars, PoolPC, HopTodo, Sent, Back, Pending, Replied, Done
<1>2. ASSUME NEW c \in Clients, \E r \in Requests(c) : Call(c, r)
      PROVE  TC(i)!Next \/ UNCHANGED TC(i)!vars
  BY <1>2, OnlyOne, OutsideHops
<1>3. ASSUME NEW c \in Clients, Step(c) PROVE TC(i)!Next \/ UNCHANGED TC(i)!vars
  <2>0. Only(c)
    BY <1>3, OnlyOne
  <2>1. CASE ClientStep(c) \/ GetStep(c) \/ (RecvEof(c) /\ at[c] = Entry(c))
    BY <2>0, <2>1, OutsideHops
  <2>2. CASE SetForward(c) \/ CheckNone(c) \/ InitList(c) \/ ConnectAppend(c) \/ LenCheck(c) \/ Pop(c)
    BY <2>0, <2>2, ForwardHops
  <2>3. CASE SetTail(c)
    BY <2>0, <2>3, TailHops
  <2>4. CASE Exhausted(c)
    BY <2>0, <2>4, ExhaustedHops
  <2>5. CASE SendUp(c)
    BY <2>0, <2>5, SendUpHops
  <2>6. CASE SendEof(c) \/ SendReset(c)
    BY <2>0, <2>6, SendLostHops
  <2>7. CASE RecvReply(c) \/ (RecvEof(c) /\ at[c] # Entry(c))
    BY <2>0, <2>7, RecvHops
  <2> QED
    BY <1>3, <2>1, <2>2, <2>3, <2>4, <2>5, <2>6, <2>7 DEF Step, SetStep
<1> QED
  BY <1>1, <1>2, <1>3 DEF Next

LEMMA InitHops == Init => \A i \in Hops : TC(i)!Init
<1> SUFFICES ASSUME Init, NEW i \in Hops PROVE TC(i)!Init
  OBVIOUS
<1>1. \A c \in Setters :
        /\ PoolPC(c, i) = "idle" /\ HopTodo(c, i) = 0 /\ sock[c][i] = None
        /\ ~Pending(c, i) /\ ~Replied(c, i)
  BY NAssumption DEF Init, PoolPC, HopTodo, Pending, Replied, Done, Hops, Clients
<1>2. \A s \in Socks : /\ {c \in Setters : sock[c][i] = s /\ Pending(c, i)} = {}
                       /\ {c \in Setters : sock[c][i] = s /\ Replied(c, i)} = {}
  BY <1>1
<1> QED
  BY <1>1, <1>2, StreamFacts DEF Init, TC!Init, TC!Socks, Socks, Sent, Back

(***************************************************************************)
(* Between every two servers of the chain runs a TcpClient, whatever the   *)
(* clients do: TcpClient's pool, with its unsynchronised build and its     *)
(* lost connections, is all there is to a hop, and what is proved of every *)
(* TcpClient is what a hop can rely on.                                    *)
(***************************************************************************)
THEOREM Hopwise == Spec => HopsAreTcpClients
<1>1. Init => IInv /\ PoolInv /\ \A i \in Hops : TC(i)!Init
  BY InitIInv, InitPoolInv, InitHops
<1>2. IInv /\ PoolInv /\ [Next]_vars => IInv' /\ PoolInv'
  BY NextIInv, NextPoolInv
<1>3. IInv /\ PoolInv /\ [Next]_vars => [\A i \in Hops : TC(i)!Next \/ UNCHANGED TC(i)!vars]_vars
  BY StepHops
<1> QED
  BY <1>1, <1>2, <1>3, PTL DEF Spec, HopsAreTcpClients
=============================================================================
