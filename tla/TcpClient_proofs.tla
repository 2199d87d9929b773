--------------------------- MODULE TcpClient_proofs ---------------------------
(***************************************************************************)
(* Proofs about TcpClient, for every number of threads and every pool      *)
(* size: its sockets have one user at a time, replies match requests, and  *)
(* a pool no smaller than the number of threads is exhausted only while it *)
(* is being built.                                                         *)
(***************************************************************************)
EXTENDS TcpClient, SequenceTheorems, FiniteSetTheorems, TLAPS

\* A thread holds a socket exactly from the pop to the release.
HoldInv ==
  \A t \in Threads :
    /\ Holding(t) <=> sock[t] # None
    /\ Holding(t) => state[sock[t]] # "new"
    /\ \A u \in Threads : Holding(t) /\ Holding(u) /\ sock[t] = sock[u] => t = u

\* The list holds connected sockets that nobody uses, each once.
FreeInv ==
  list # None =>
    \A n \in 1 .. Len(list) :
      /\ state[list[n]] # "new"
      /\ \A t \in Threads : Holding(t) => sock[t] # list[n]
      /\ \A m \in 1 .. Len(list) : list[m] = list[n] => m = n

\* The sockets a thread is going to connect do not exist yet.
NewInv ==
  /\ list = None => /\ \A s \in Socks : state[s] = "new"
                    /\ \A t \in Threads : pc[t] \in {"idle", "check", "init"}
  /\ \A t \in Threads :
       /\ pc[t] = "init" => \A n \in 1 .. PoolSz : state[<<t, n>>] = "new"
       /\ pc[t] = "build" => /\ todo[t] # 0
                             /\ \A n \in 1 .. todo[t] : state[<<t, n>>] = "new"

\* What is on a stream belongs to the one thread that waits on it, and a
\* closed connection has no request left to be processed.
StreamInv ==
  /\ \A s \in Socks : state[s] # "up" => requests[s] = <<>>
  /\ \A s \in Socks :
       \/ requests[s] = <<>> /\ replies[s] = <<>>
       \/ \E t \in Threads : pc[t] = "recv" /\ sock[t] = s
  /\ \A t \in Threads : pc[t] = "recv" =>
       \/ requests[sock[t]] = <<>> /\ replies[sock[t]] \in {<<>>, <<t>>}
       \/ requests[sock[t]] = <<t>> /\ replies[sock[t]] = <<>>

IInv == TypeOK /\ HoldInv /\ FreeInv /\ NewInv /\ StreamInv


(***************************************************************************)
(* What list.append leaves in the free list.                               *)
(***************************************************************************)
LEMMA AppendFacts ==
  ASSUME NEW q \in Seq(Socks), NEW s \in Socks
  PROVE  LET a == Append(q, s) IN
         /\ a \in Seq(Socks) /\ a # None /\ Len(a) = Len(q) + 1
         /\ \A n \in 1 .. Len(q) : a[n] = q[n] /\ a[n] \in Socks
         /\ a[Len(q) + 1] = s
<1>1. Append(q, s) \in Seq(Socks)
  BY AppendProperties
<1>2. Append(q, s) # None
  BY <1>1, NoneAssumption
<1>3. \A n \in 1 .. Len(q) : q[n] \in Socks
  OBVIOUS
<1> QED
  BY <1>1, <1>2, <1>3, AppendProperties

(***************************************************************************)
(* What list.pop returns and leaves in the free list.                      *)
(***************************************************************************)
LEMMA FrontFacts ==
  ASSUME NEW q \in Seq(Socks), q # <<>>
  PROVE  LET f == SubSeq(q, 1, Len(q) - 1) IN
         /\ Len(q) \in Nat \ {0}
         /\ q[Len(q)] \in Socks /\ q[Len(q)] # None
         /\ f \in Seq(Socks) /\ f # None /\ Len(f) = Len(q) - 1
         /\ \A n \in 1 .. Len(q) - 1 : f[n] = q[n]
<1>1. Len(q) \in Nat \ {0}
  BY EmptySeq
<1>2. \A n \in 1 .. Len(q) : q[n] \in Socks
  OBVIOUS
<1>3. /\ SubSeq(q, 1, Len(q) - 1) \in Seq(Socks)
      /\ Len(SubSeq(q, 1, Len(q) - 1)) = Len(q) - 1
  <2> DEFINE k == Len(q) - 1
  <2>1. 1 \in Int /\ k \in Nat /\ k <= Len(q) /\ \A n \in 1 .. k : q[n] \in Socks
    BY <1>1, <1>2
  <2> HIDE DEF k
  <2>2. /\ SubSeq(q, 1, k) \in Seq(Socks)
        /\ Len(SubSeq(q, 1, k)) = IF 1 <= k THEN k - 1 + 1 ELSE 0
    BY <2>1, SubSeqProperties
  <2>3. Len(SubSeq(q, 1, k)) = k
    BY <2>1, <2>2
  <2> QED
    BY <2>2, <2>3 DEF k
<1>5. \A n \in 1 .. Len(q) - 1 : SubSeq(q, 1, Len(q) - 1)[n] = q[n]
  BY <1>1, <1>2
<1>4. q[Len(q)] \in Socks
  BY <1>1, <1>2
<1> QED
  BY <1>1, <1>3, <1>4, <1>5, NoneAssumption

(***************************************************************************)
(* The finally clause of send: the socket goes from its user back to the   *)
(* list, whatever state the connection is in.                              *)
(***************************************************************************)
LEMMA ReleaseStep ==
  ASSUME IInv, NEW t \in Threads, Holding(t), Release(t),
         \A s \in Socks : state'[s] = "new" <=> state[s] = "new"
  PROVE  HoldInv' /\ FreeInv' /\ NewInv'
<1> USE DEF Release, Holding
<1>a. sock[t] \in Socks /\ state[sock[t]] # "new" /\ list \in Seq(Socks)
  BY DEF IInv, TypeOK, HoldInv, NewInv
<1>b. /\ list' \in Seq(Socks) /\ list' # None /\ Len(list') = Len(list) + 1
      /\ \A n \in 1 .. Len(list) : list'[n] = list[n] /\ list'[n] \in Socks
      /\ list'[Len(list) + 1] = sock[t]
  BY <1>a, AppendFacts
<1>c. list # None
  BY DEF IInv, NewInv
<1>d. \A u \in Threads : u # t => (pc'[u] = pc[u] /\ sock'[u] = sock[u])
  BY DEF IInv, TypeOK
<1>e. pc'[t] = "idle" /\ sock'[t] = None
  BY DEF IInv, TypeOK
<1>1. HoldInv'
  BY <1>d, <1>e DEF IInv, TypeOK, HoldInv
<1>2. FreeInv'
  <2> SUFFICES ASSUME NEW n \in 1 .. Len(list')
               PROVE  /\ state'[list'[n]] # "new"
                      /\ \A u \in Threads : Holding(u)' => sock'[u] # list'[n]
                      /\ \A m \in 1 .. Len(list') : list'[m] = list'[n] => m = n
    BY DEF FreeInv
  <2>0. Len(list) \in Nat
    BY <1>a
  <2>1. \A m \in 1 .. Len(list) : list[m] # sock[t]
    BY <1>c DEF IInv, FreeInv
  <2>2. CASE n \in 1 .. Len(list)
    <3>1. list[n] \in Socks /\ list'[n] = list[n] /\ state'[list[n]] # "new"
      BY <1>a, <1>b, <1>c, <2>2 DEF IInv, FreeInv
    <3>2. \A u \in Threads : Holding(u)' => sock'[u] # list[n]
      BY <1>c, <1>d, <1>e, <2>2 DEF IInv, FreeInv
    <3>3. \A m \in 1 .. Len(list') : list'[m] = list[n] => m = n
      BY <1>b, <1>c, <2>0, <2>1, <2>2 DEF IInv, FreeInv
    <3> QED
      BY <3>1, <3>2, <3>3
  <2>3. CASE n = Len(list) + 1
    BY <1>a, <1>b, <1>d, <1>e, <2>0, <2>1, <2>3 DEF IInv, HoldInv
  <2> QED
    BY <1>b, <2>0, <2>2, <2>3
<1>3. NewInv'
  <2>1. \A u \in Threads : pc'[u] = "init" => \A n \in 1 .. PoolSz : state'[<<u, n>>] = "new"
    BY <1>d, <1>e DEF IInv, NewInv, Socks
  <2>2. \A u \in Threads : pc'[u] = "build" =>
           todo'[u] # 0 /\ \A n \in 1 .. todo'[u] : state'[<<u, n>>] = "new"
    <3> SUFFICES ASSUME NEW u \in Threads, pc'[u] = "build"
                 PROVE  todo[u] # 0 /\ \A n \in 1 .. todo[u] : state'[<<u, n>>] = "new"
      OBVIOUS
    <3>1. pc[u] = "build"
      BY <1>d, <1>e
    <3>2. \A n \in 1 .. todo[u] : <<u, n>> \in Socks
      BY PoolSzAssumption DEF IInv, TypeOK, Socks
    <3> QED
      BY <3>1, <3>2 DEF IInv, NewInv
  <2> QED
    BY <1>b, <2>1, <2>2 DEF NewInv
<1> QED
  BY <1>1, <1>2, <1>3

(***************************************************************************)
(* The invariant holds before the first send.                              *)
(***************************************************************************)
LEMMA InitIInv == Init => IInv
<1> SUFFICES ASSUME Init PROVE IInv
  OBVIOUS
<1>1. TypeOK
  BY PoolSzAssumption DEF Init, TypeOK, PCs, States
<1>2. HoldInv
  BY DEF Init, HoldInv, Holding
<1>3. FreeInv
  BY DEF Init, FreeInv
<1>4. NewInv
  BY DEF Init, NewInv, Socks
<1>5. StreamInv
  BY DEF Init, StreamInv
<1> QED
  BY <1>1, <1>2, <1>3, <1>4, <1>5 DEF IInv

(***************************************************************************)
(* A step of get_sock that only moves its thread on (entering send, the    *)
(* None test, the assertion, the exception) preserves the invariant.       *)
(***************************************************************************)
LEMMA LocalStep ==
  ASSUME IInv, NEW t \in Threads, NEW q \in {"idle", "check", "init", "len", "pop"},
         pc[t] \in {"idle", "check", "len", "pop"}, pc' = [pc EXCEPT ![t] = q],
         UNCHANGED <<list, channel, todo, sock>>,
         q \in {"len", "pop"} => list # None,
         q = "init" => list = None
  PROVE  IInv'
<1> USE DEF channel
<1>1. TypeOK'
  BY DEF IInv, TypeOK, PCs, States
<1>2. HoldInv'
  BY DEF IInv, TypeOK, Holding, HoldInv
<1>3. FreeInv'
  BY DEF IInv, TypeOK, Holding, HoldInv, FreeInv, NewInv
<1>4. NewInv'
  BY DEF IInv, TypeOK, NewInv, Socks
<1>5. StreamInv'
  BY DEF IInv, TypeOK, Holding, HoldInv, StreamInv
<1> QED
  BY <1>1, <1>2, <1>3, <1>4, <1>5 DEF IInv

(***************************************************************************)
(* Rebinding self._client_sockets to an empty list loses sockets but       *)
(* shares none.                                                            *)
(***************************************************************************)
LEMMA InitListStep == ASSUME IInv, NEW t \in Threads, InitList(t) PROVE IInv'
<1> USE DEF InitList, Goto, channel
<1>a. <<>> \in Seq(Socks)
  OBVIOUS
<1>b. <<>> # None
  BY <1>a, NoneAssumption
<1>1. TypeOK'
  BY <1>a, <1>b, PoolSzAssumption DEF IInv, TypeOK, PCs, States
<1>2. HoldInv'
  BY <1>a, <1>b, PoolSzAssumption DEF IInv, TypeOK, Holding, HoldInv
<1>3. FreeInv'
  BY <1>a, <1>b, PoolSzAssumption DEF IInv, TypeOK, Holding, HoldInv, FreeInv, NewInv
<1>4. NewInv'
  BY <1>a, <1>b, PoolSzAssumption DEF IInv, TypeOK, NewInv
<1>5. StreamInv'
  BY <1>a, <1>b, PoolSzAssumption DEF IInv, TypeOK, Holding, HoldInv, StreamInv
<1> QED
  BY <1>1, <1>2, <1>3, <1>4, <1>5 DEF IInv

(***************************************************************************)
(* A freshly connected socket is a new one, so appending it adds no        *)
(* duplicate.                                                              *)
(***************************************************************************)
LEMMA ConnectAppendStep == ASSUME IInv, NEW t \in Threads, ConnectAppend(t) PROVE IInv'
<1> USE DEF ConnectAppend, Goto
<1> DEFINE s == <<t, todo[t]>>
<1>d. todo[t] \in 1 .. PoolSz
  BY PoolSzAssumption DEF IInv, TypeOK, NewInv
<1>e. list \in Seq(Socks)
  BY DEF IInv, TypeOK, NewInv
<1>a. s \in Socks /\ state[s] = "new" /\ list \in Seq(Socks)
  BY <1>d, <1>e DEF IInv, NewInv, Socks
<1>b. /\ list' \in Seq(Socks) /\ list' # None /\ Len(list') = Len(list) + 1
      /\ \A n \in 1 .. Len(list) : list'[n] = list[n]
      /\ list'[Len(list) + 1] = s
  BY <1>a, AppendFacts
<1>c. todo[t] - 1 \in 0 .. PoolSz /\ (todo[t] # 1 => todo[t] - 1 # 0)
  BY PoolSzAssumption DEF IInv, TypeOK, NewInv
<1> HIDE DEF s
<1>1. TypeOK'
  BY <1>a, <1>b, <1>c DEF IInv, TypeOK, PCs, States
<1>2. HoldInv'
  BY <1>a, <1>b, <1>c DEF IInv, TypeOK, Holding, HoldInv
<1>3. FreeInv'
  <2> SUFFICES ASSUME NEW n \in 1 .. Len(list')
               PROVE  /\ state'[list'[n]] # "new"
                      /\ \A u \in Threads : Holding(u)' => sock'[u] # list'[n]
                      /\ \A m \in 1 .. Len(list') : list'[m] = list'[n] => m = n
    BY DEF FreeInv
  <2>0. Len(list) \in Nat /\ list # None
    BY <1>a DEF IInv, NewInv
  <2>1. \A m \in 1 .. Len(list) : list[m] # s /\ list[m] \in Socks
    BY <1>a, <2>0 DEF IInv, FreeInv
  <2>2. \A u \in Threads : Holding(u)' => Holding(u) /\ sock'[u] = sock[u] /\ sock[u] # s
    BY <1>a DEF IInv, TypeOK, Holding, HoldInv
  <2>3. CASE n \in 1 .. Len(list)
    <3>1. list'[n] = list[n] /\ state'[list[n]] # "new"
      BY <1>b, <2>0, <2>1, <2>3 DEF IInv, TypeOK, FreeInv
    <3>2. \A u \in Threads : Holding(u)' => sock'[u] # list[n]
      BY <2>0, <2>2, <2>3 DEF IInv, FreeInv
    <3>3. \A m \in 1 .. Len(list') : list'[m] = list[n] => m = n
      BY <1>b, <2>0, <2>1, <2>3 DEF IInv, FreeInv
    <3> QED
      BY <3>1, <3>2, <3>3
  <2>4. CASE n = Len(list) + 1
    <3>1. list'[n] = s /\ state'[s] = "up"
      BY <1>a, <1>b, <2>4 DEF IInv, TypeOK
    <3>2. \A m \in 1 .. Len(list') : list'[m] = s => m = n
      BY <1>b, <2>0, <2>1, <2>4
    <3> QED
      BY <2>2, <3>1, <3>2
  <2>5. n \in 1 .. Len(list) + 1
    BY <1>b
  <2>6. n \in 1 .. Len(list) \/ n = Len(list) + 1
    BY <2>0, <2>5
  <2> QED
    BY <2>3, <2>4, <2>6
<1>4. NewInv'
  <2>1. list' # None
    BY <1>b
  <2>2. ASSUME NEW u \in Threads, pc'[u] = "init", NEW n \in 1 .. PoolSz
        PROVE  state'[<<u, n>>] = "new"
    <3>1. u # t /\ pc[u] = "init" /\ <<u, n>> \in Socks
      BY <2>2 DEF IInv, TypeOK, Socks
    <3> QED
      BY <3>1 DEF IInv, TypeOK, NewInv, s
  <2>3. ASSUME NEW u \in Threads, pc'[u] = "build"
        PROVE  todo'[u] # 0 /\ \A n \in 1 .. todo'[u] : state'[<<u, n>>] = "new"
    <3>1. pc[u] = "build" /\ \A n \in 1 .. todo[u] : <<u, n>> \in Socks /\ state[<<u, n>>] = "new"
      BY <2>3, PoolSzAssumption DEF IInv, TypeOK, NewInv, Socks
    <3>2. CASE u = t
      BY <1>c, <1>d, <2>3, <3>1, <3>2 DEF IInv, TypeOK, s
    <3>3. CASE u # t
      BY <2>3, <3>1, <3>3 DEF IInv, TypeOK, NewInv, s
    <3> QED
      BY <3>2, <3>3
  <2> QED
    BY <2>1, <2>2, <2>3 DEF NewInv
<1>5. StreamInv'
  <2>1. requests' = requests /\ replies' = replies /\ sock' = sock /\ StreamInv
    BY DEF IInv
  <2>2. \A x \in Socks : state'[x] # "up" => state[x] # "up"
    BY <1>a DEF IInv, TypeOK, s
  <2>3. \A u \in Threads : pc'[u] = "recv" <=> pc[u] = "recv"
    BY DEF IInv, TypeOK
  <2> QED
    BY <2>1, <2>2, <2>3 DEF StreamInv
<1> QED
  BY <1>1, <1>2, <1>3, <1>4, <1>5 DEF IInv

(***************************************************************************)
(* pop hands its caller a socket that nobody uses and takes it out of the  *)
(* list.                                                                   *)
(***************************************************************************)
LEMMA PopStep == ASSUME IInv, NEW t \in Threads, Pop(t) PROVE IInv'
<1> USE DEF Pop, Goto, channel
<1>a. list \in Seq(Socks) /\ list # None /\ list # <<>>
  BY DEF IInv, TypeOK, NewInv
<1>b. /\ Len(list) \in Nat \ {0}
      /\ list' \in Seq(Socks) /\ list' # None /\ Len(list') = Len(list) - 1
      /\ \A n \in 1 .. Len(list) - 1 : list'[n] = list[n]
  BY <1>a, FrontFacts
<1>c. list[Len(list)] \in Socks /\ list[Len(list)] # None
  BY <1>a, FrontFacts
<1>d. state[list[Len(list)]] # "new" /\ \A x \in Threads : Holding(x) => sock[x] # list[Len(list)]
  BY <1>a, <1>b DEF IInv, FreeInv
<1>1. TypeOK'
  BY <1>a, <1>b, <1>c, <1>d DEF IInv, TypeOK, PCs, States
<1>2. HoldInv'
  BY <1>a, <1>b, <1>c, <1>d DEF IInv, TypeOK, Holding, HoldInv
<1>3. FreeInv'
  <2> SUFFICES ASSUME NEW n \in 1 .. Len(list')
               PROVE  /\ state'[list'[n]] # "new"
                      /\ \A u \in Threads : Holding(u)' => sock'[u] # list'[n]
                      /\ \A m \in 1 .. Len(list') : list'[m] = list'[n] => m = n
    BY DEF FreeInv
  <2>1. n \in 1 .. Len(list) /\ n # Len(list) /\ list'[n] = list[n] /\ state'[list[n]] # "new"
    BY <1>a, <1>b DEF IInv, FreeInv
  <2>2. \A u \in Threads : u # t => (Holding(u)' => Holding(u) /\ sock'[u] = sock[u])
    BY DEF IInv, TypeOK, Holding
  <2>3. sock'[t] = list[Len(list)] /\ list[Len(list)] # list[n]
    <3>1. sock'[t] = list[Len(list)]
      BY DEF IInv, TypeOK
    <3>2. Len(list) \in 1 .. Len(list)
      BY <1>b
    <3>3. \A k, m \in 1 .. Len(list) : list[m] = list[k] => m = k
      BY <1>a DEF IInv, FreeInv
    <3> QED
      BY <2>1, <3>1, <3>2, <3>3
  <2>4. \A m \in 1 .. Len(list') : list'[m] = list'[n] => m = n
    BY <1>a, <1>b, <2>1 DEF IInv, FreeInv
  <2> QED
    BY <1>a, <2>1, <2>2, <2>3, <2>4 DEF IInv, FreeInv
<1>4. NewInv'
  BY <1>a, <1>b, <1>c, <1>d DEF IInv, TypeOK, NewInv
<1>5. StreamInv'
  BY <1>a, <1>b, <1>c, <1>d DEF IInv, TypeOK, Holding, HoldInv, StreamInv
<1> QED
  BY <1>1, <1>2, <1>3, <1>4, <1>5 DEF IInv

(***************************************************************************)
(* sendall puts the request on a stream that was empty: the previous user  *)
(* took its reply.                                                         *)
(***************************************************************************)
LEMMA SendUpStep == ASSUME IInv, NEW t \in Threads, SendUp(t) PROVE IInv'
<1> USE DEF SendUp, Goto
<1>a. sock[t] \in Socks /\ requests[sock[t]] = <<>> /\ replies[sock[t]] = <<>>
  BY DEF IInv, TypeOK, HoldInv, Holding, StreamInv
<1>1. TypeOK'
  BY <1>a DEF IInv, TypeOK, PCs, States
<1>2. HoldInv'
  BY <1>a DEF IInv, TypeOK, Holding, HoldInv
<1>3. FreeInv'
  BY <1>a DEF IInv, TypeOK, Holding, HoldInv, FreeInv, NewInv
<1>4. NewInv'
  BY <1>a DEF IInv, TypeOK, NewInv
<1>5. StreamInv'
  BY <1>a DEF IInv, TypeOK, Holding, HoldInv, StreamInv
<1> QED
  BY <1>1, <1>2, <1>3, <1>4, <1>5 DEF IInv

(***************************************************************************)
(* A send on a connection that the far end closed returns the socket with  *)
(* an empty stream.                                                        *)
(***************************************************************************)
LEMMA SendEofStep == ASSUME IInv, NEW t \in Threads, SendEof(t) PROVE IInv'
<1> USE DEF SendEof
<1>a. sock[t] \in Socks /\ list \in Seq(Socks)
  BY DEF IInv, TypeOK, HoldInv, NewInv, Holding
<1>b. Append(list, sock[t]) \in Seq(Socks)
  BY <1>a
<1>c. \A s \in Socks : state'[s] = "new" <=> state[s] = "new"
  BY DEF IInv, TypeOK
<1>1. TypeOK'
  BY <1>a, <1>b DEF Release, IInv, TypeOK, PCs, States
<1>2. HoldInv' /\ FreeInv' /\ NewInv'
  BY <1>c, ReleaseStep DEF Holding
<1>3. StreamInv'
  BY <1>a DEF Release, IInv, TypeOK, HoldInv, Holding, StreamInv
<1> QED
  BY <1>1, <1>2, <1>3 DEF IInv

(***************************************************************************)
(* A send that raises returns the socket with an empty stream.             *)
(***************************************************************************)
LEMMA SendResetStep == ASSUME IInv, NEW t \in Threads, SendReset(t) PROVE IInv'
<1> USE DEF SendReset, channel
<1>a. sock[t] \in Socks /\ list \in Seq(Socks)
  BY DEF IInv, TypeOK, HoldInv, NewInv, Holding
<1>b. Append(list, sock[t]) \in Seq(Socks)
  BY <1>a
<1>c. \A s \in Socks : state'[s] = "new" <=> state[s] = "new"
  BY DEF IInv, TypeOK
<1>1. TypeOK'
  BY <1>a, <1>b DEF Release, IInv, TypeOK, PCs, States
<1>2. HoldInv' /\ FreeInv' /\ NewInv'
  BY <1>c, ReleaseStep DEF Holding
<1>3. StreamInv'
  BY <1>a DEF Release, IInv, TypeOK, HoldInv, Holding, StreamInv
<1> QED
  BY <1>1, <1>2, <1>3 DEF IInv

(***************************************************************************)
(* The reply that recv_message returns was the only thing on the stream.   *)
(***************************************************************************)
LEMMA RecvReplyStep == ASSUME IInv, NEW t \in Threads, RecvReply(t) PROVE IInv'
<1> USE DEF RecvReply
<1>a. sock[t] \in Socks /\ list \in Seq(Socks)
  BY DEF IInv, TypeOK, HoldInv, NewInv, Holding
<1>b. Append(list, sock[t]) \in Seq(Socks)
  BY <1>a
<1>c. \A s \in Socks : state'[s] = "new" <=> state[s] = "new"
  BY DEF IInv, TypeOK
<1>d. requests[sock[t]] = <<>> /\ replies[sock[t]] = <<t>>
  BY DEF IInv, StreamInv
<1>e. replies'[sock[t]] = <<>>
  BY <1>a, <1>d DEF IInv, TypeOK
<1>1. TypeOK'
  BY <1>a, <1>b DEF Release, IInv, TypeOK, PCs, States
<1>2. HoldInv' /\ FreeInv' /\ NewInv'
  BY <1>c, ReleaseStep DEF Holding
<1>3. StreamInv'
  BY <1>a, <1>d, <1>e DEF Release, IInv, TypeOK, HoldInv, Holding, StreamInv
<1> QED
  BY <1>1, <1>2, <1>3 DEF IInv

(***************************************************************************)
(* The end of the stream is met only when nothing is left on it.           *)
(***************************************************************************)
LEMMA RecvEofStep == ASSUME IInv, NEW t \in Threads, RecvEof(t) PROVE IInv'
<1> USE DEF RecvEof, channel
<1>a. sock[t] \in Socks /\ list \in Seq(Socks)
  BY DEF IInv, TypeOK, HoldInv, NewInv, Holding
<1>b. Append(list, sock[t]) \in Seq(Socks)
  BY <1>a
<1>c. \A s \in Socks : state'[s] = "new" <=> state[s] = "new"
  BY DEF IInv, TypeOK
<1>d. requests[sock[t]] = <<>>
  BY <1>a DEF IInv, StreamInv
<1>1. TypeOK'
  BY <1>a, <1>b DEF Release, IInv, TypeOK, PCs, States
<1>2. HoldInv' /\ FreeInv' /\ NewInv'
  BY <1>c, ReleaseStep DEF Holding
<1>3. StreamInv'
  BY <1>a, <1>d DEF Release, IInv, TypeOK, HoldInv, Holding, StreamInv
<1> QED
  BY <1>1, <1>2, <1>3 DEF IInv

(***************************************************************************)
(* handle_client answers the one request on the stream.                    *)
(***************************************************************************)
LEMMA PeerReplyStep == ASSUME IInv, NEW s \in Socks, PeerReply(s) PROVE IInv'
<1> USE DEF PeerReply, Processed
<1>c. PICK t \in Threads : pc[t] = "recv" /\ sock[t] = s
  BY DEF IInv, StreamInv
<1>a. pc[t] = "recv" /\ sock[t] = s /\ requests[s] = <<t>> /\ replies[s] = <<>>
  BY <1>c DEF IInv, StreamInv
<1>b. requests'[s] = <<>>
  BY <1>a DEF IInv, TypeOK
<1>d. replies'[s] = <<t>>
  BY <1>a DEF IInv, TypeOK
<1>1. TypeOK'
  BY <1>a, <1>b, <1>d DEF IInv, TypeOK, PCs, States
<1>2. HoldInv'
  BY <1>a, <1>b, <1>d DEF IInv, TypeOK, Holding, HoldInv
<1>3. FreeInv'
  BY <1>a, <1>b, <1>d DEF IInv, TypeOK, Holding, HoldInv, FreeInv, NewInv
<1>4. NewInv'
  BY <1>a, <1>b, <1>d DEF IInv, TypeOK, NewInv
<1>5. StreamInv'
  BY <1>a, <1>b, <1>d DEF IInv, TypeOK, Holding, HoldInv, StreamInv
<1> QED
  BY <1>1, <1>2, <1>3, <1>4, <1>5 DEF IInv

(***************************************************************************)
(* A handler that returns None takes the request and leaves the waiting    *)
(* thread with an empty stream.                                            *)
(***************************************************************************)
LEMMA PeerSilentStep == ASSUME IInv, NEW s \in Socks, PeerSilent(s) PROVE IInv'
<1> USE DEF PeerSilent, Processed
<1>c. PICK t \in Threads : pc[t] = "recv" /\ sock[t] = s
  BY DEF IInv, StreamInv
<1>a. pc[t] = "recv" /\ sock[t] = s /\ requests[s] = <<t>> /\ replies[s] = <<>>
  BY <1>c DEF IInv, StreamInv
<1>b. requests'[s] = <<>>
  BY <1>a DEF IInv, TypeOK
<1>1. TypeOK'
  BY <1>a, <1>b DEF IInv, TypeOK, PCs, States
<1>2. HoldInv'
  BY <1>a, <1>b DEF IInv, TypeOK, Holding, HoldInv
<1>3. FreeInv'
  BY <1>a, <1>b DEF IInv, TypeOK, Holding, HoldInv, FreeInv, NewInv
<1>4. NewInv'
  BY <1>a, <1>b DEF IInv, TypeOK, NewInv
<1>5. StreamInv'
  BY <1>a, <1>b DEF IInv, TypeOK, Holding, HoldInv, StreamInv
<1> QED
  BY <1>1, <1>2, <1>3, <1>4, <1>5 DEF IInv

(***************************************************************************)
(* A handler that raises closes the connection with nothing left to        *)
(* process.                                                                *)
(***************************************************************************)
LEMMA PeerCloseStep == ASSUME IInv, NEW s \in Socks, PeerClose(s) PROVE IInv'
<1> USE DEF PeerClose, Processed
<1>c. PICK t \in Threads : pc[t] = "recv" /\ sock[t] = s
  BY DEF IInv, StreamInv
<1>a. pc[t] = "recv" /\ sock[t] = s /\ requests[s] = <<t>> /\ replies[s] = <<>>
  BY <1>c DEF IInv, StreamInv
<1>b. requests'[s] = <<>>
  BY <1>a DEF IInv, TypeOK
<1>1. TypeOK'
  BY <1>a, <1>b DEF IInv, TypeOK, PCs, States
<1>2. HoldInv'
  BY <1>a, <1>b DEF IInv, TypeOK, Holding, HoldInv
<1>3. FreeInv'
  BY <1>a, <1>b DEF IInv, TypeOK, Holding, HoldInv, FreeInv, NewInv
<1>4. NewInv'
  BY <1>a, <1>b DEF IInv, TypeOK, NewInv
<1>5. StreamInv'
  BY <1>a, <1>b DEF IInv, TypeOK, Holding, HoldInv, StreamInv
<1> QED
  BY <1>1, <1>2, <1>3, <1>4, <1>5 DEF IInv

(***************************************************************************)
(* Every step of every handler thread and of the far ends preserves the    *)
(* invariant.                                                              *)
(***************************************************************************)
LEMMA NextIInv == IInv /\ [Next]_vars => IInv'
<1> SUFFICES ASSUME IInv, [Next]_vars PROVE IInv'
  OBVIOUS
<1>1. ASSUME NEW t \in Threads, Call(t) PROVE IInv'
  BY <1>1, LocalStep DEF Call, Goto
<1>2. ASSUME NEW t \in Threads, CheckNone(t) PROVE IInv'
  <2>1. CASE list = None
    BY <1>2, <2>1, LocalStep DEF CheckNone, Goto
  <2>2. CASE list # None
    BY <1>2, <2>2, LocalStep DEF CheckNone, Goto
  <2> QED
    BY <2>1, <2>2
<1>3. ASSUME NEW t \in Threads, LenCheck(t) PROVE IInv'
  BY <1>3, LocalStep DEF LenCheck, Goto, IInv, NewInv
<1>4. ASSUME NEW t \in Threads, Raise(t) PROVE IInv'
  BY <1>4, LocalStep DEF Raise, Exhausted
<1>5. ASSUME NEW t \in Threads, ThreadStep(t) PROVE IInv'
  BY <1>2, <1>3, <1>4, <1>5, InitListStep, ConnectAppendStep, PopStep, SendUpStep,
     SendEofStep, SendResetStep, RecvReplyStep, RecvEofStep DEF ThreadStep
<1>6. CASE UNCHANGED vars
  BY <1>6 DEF vars, IInv, TypeOK, HoldInv, Holding, FreeInv, NewInv, StreamInv
<1> QED
  BY <1>1, <1>5, <1>6, PeerReplyStep, PeerSilentStep, PeerCloseStep DEF Next

\* The inductive invariant of the pool holds in every reachable state.
THEOREM InductiveInvariant == Spec => []IInv
  BY InitIInv, NextIInv, PTL DEF Spec

\* Type correctness of the pool and of its connections.
THEOREM TypeCorrect == Spec => []TypeOK
<1>1. IInv => TypeOK
  BY DEF IInv
<1> QED
  BY <1>1, InductiveInvariant, PTL

(***************************************************************************)
(* Although get_sock builds, pops and releases without a lock, a socket    *)
(* has one user at a time, for every number of threads and every pool      *)
(* size.                                                                   *)
(***************************************************************************)
THEOREM SocketExclusion == Spec => []SocketExclusive
<1>1. IInv => SocketExclusive
  <2> SUFFICES ASSUME IInv PROVE SocketExclusive
    OBVIOUS
  <2>1. \A t, u \in Threads : t # u /\ Holding(t) /\ Holding(u) => sock[t] # sock[u]
    BY DEF IInv, HoldInv
  <2>2. \A t \in Threads : Holding(t) => sock[t] \notin Free
    BY DEF IInv, FreeInv, Free
  <2>3. list # None => \A m, n \in 1 .. Len(list) : list[m] = list[n] => m = n
    BY DEF IInv, FreeInv
  <2> QED
    BY <2>1, <2>2, <2>3 DEF SocketExclusive
<1> QED
  BY <1>1, InductiveInvariant, PTL

(***************************************************************************)
(* recv_message never returns the reply to another thread's message, nor   *)
(* one that an earlier send on the same pooled socket did not collect.     *)
(***************************************************************************)
THEOREM ReplyMatching == Spec => []ReplyMatchesRequest
<1>1. IInv => ReplyMatchesRequest
  <2> SUFFICES ASSUME IInv, NEW t \in Threads, pc[t] = "recv"
               PROVE  requests[sock[t]] \o replies[sock[t]] \in {<<>>, <<t>>}
    BY DEF ReplyMatchesRequest
  <2>1. \/ requests[sock[t]] = <<>> /\ replies[sock[t]] \in {<<>>, <<t>>}
        \/ requests[sock[t]] = <<t>> /\ replies[sock[t]] = <<>>
    BY DEF IInv, StreamInv
  <2>2. <<>> \o <<>> = <<>> /\ <<>> \o <<t>> = <<t>> /\ <<t>> \o <<>> = <<t>>
    OBVIOUS
  <2> QED
    BY <2>1, <2>2
<1> QED
  BY <1>1, InductiveInvariant, PTL

-----------------------------------------------------------------------------

Holders == {t \in Threads : Holding(t)}

\* Sockets are not lost: those in the list, those in use and those that some
\* thread is about to connect are never fewer than PoolSz.
CountInv ==
  list # None =>
    \/ Len(list) + Cardinality(Holders) >= PoolSz
    \/ \E u \in Threads : /\ pc[u] = "build"
                          /\ Len(list) + Cardinality(Holders) + todo[u] >= PoolSz

(***************************************************************************)
(* The number of sockets in use, when a thread takes one or gives it back. *)
(***************************************************************************)
LEMMA HoldersFacts ==
  ASSUME NEW t \in Threads
  PROVE  /\ IsFiniteSet(Holders) /\ Cardinality(Holders) \in Nat
         /\ t \notin Holders => Cardinality(Holders \cup {t}) = Cardinality(Holders) + 1
         /\ t \in Holders => Cardinality(Holders \ {t}) = Cardinality(Holders) - 1
         /\ t \notin Holders => Cardinality(Holders) < Cardinality(Threads)
         /\ Cardinality(Threads) \in Nat
<1>1. IsFiniteSet(Holders) /\ Cardinality(Holders) \in Nat
  BY ThreadsAssumption, FS_Subset, FS_CardinalityType DEF Holders
<1>2. t \notin Holders => Cardinality(Holders \cup {t}) = Cardinality(Holders) + 1
  BY <1>1, FS_AddElement
<1>3. t \in Holders => Cardinality(Holders \ {t}) = Cardinality(Holders) - 1
  BY <1>1, FS_RemoveElement
<1>4. /\ IsFiniteSet(Threads \ {t}) /\ Cardinality(Threads) \in Nat
      /\ Cardinality(Threads \ {t}) = Cardinality(Threads) - 1
  BY ThreadsAssumption, FS_RemoveElement, FS_CardinalityType
<1>5. t \notin Holders => Cardinality(Holders) <= Cardinality(Threads \ {t})
  BY <1>4, FS_Subset DEF Holders
<1> QED
  BY <1>1, <1>2, <1>3, <1>4, <1>5

(***************************************************************************)
(* A step that neither takes nor returns nor connects a socket.            *)
(***************************************************************************)
LEMMA CountFrame ==
  ASSUME CountInv, UNCHANGED <<list, todo>>,
         \A t \in Threads : /\ Holding(t)' <=> Holding(t)
                            /\ pc[t] = "build" => pc'[t] = "build"
  PROVE  CountInv'
<1>1. Holders' = Holders
  BY DEF Holders
<1> QED
  BY <1>1 DEF CountInv

(***************************************************************************)
(* release_sock gives back what pop took: the sum is unchanged.            *)
(***************************************************************************)
LEMMA CountRelease ==
  ASSUME IInv, CountInv, NEW t \in Threads, Holding(t), Release(t)
  PROVE  CountInv'
<1>1. list \in Seq(Socks) /\ sock[t] \in Socks /\ list # None
  BY DEF IInv, TypeOK, HoldInv, NewInv, Holding
<1>2. Len(list') = Len(list) + 1 /\ Len(list) \in Nat
  BY <1>1, AppendFacts DEF Release
<1>3. Holders' = Holders \ {t} /\ t \in Holders
  BY DEF IInv, TypeOK, Release, Holders, Holding
<1>4. Cardinality(Holders') = Cardinality(Holders) - 1 /\ Cardinality(Holders) \in Nat
  BY <1>3, HoldersFacts
<1>5. Len(list') + Cardinality(Holders') = Len(list) + Cardinality(Holders)
  BY <1>2, <1>4
<1>6. \A u \in Threads : pc[u] = "build" => pc'[u] = "build" /\ todo'[u] = todo[u]
  BY DEF IInv, TypeOK, Release, Holding
<1> QED
  BY <1>1, <1>5, <1>6 DEF CountInv

(***************************************************************************)
(* pop moves a socket from the list to its caller.                         *)
(***************************************************************************)
LEMMA CountPop ==
  ASSUME IInv, CountInv, NEW t \in Threads, Pop(t)
  PROVE  CountInv'
<1>1. list \in Seq(Socks) /\ list # <<>> /\ list # None
  BY DEF IInv, TypeOK, NewInv, Pop, Goto
<1>2. Len(list') = Len(list) - 1 /\ Len(list) \in Nat
  BY <1>1, FrontFacts DEF Pop
<1>3. Holders' = Holders \cup {t} /\ t \notin Holders
  BY DEF IInv, TypeOK, Pop, Goto, Holders, Holding
<1>4. Cardinality(Holders') = Cardinality(Holders) + 1 /\ Cardinality(Holders) \in Nat
  BY <1>3, HoldersFacts
<1>5. Len(list') + Cardinality(Holders') = Len(list) + Cardinality(Holders)
  BY <1>2, <1>4
<1>6. \A u \in Threads : pc[u] = "build" => pc'[u] = "build" /\ todo'[u] = todo[u]
  BY DEF IInv, TypeOK, Pop, Goto
<1> QED
  BY <1>1, <1>5, <1>6 DEF CountInv

(***************************************************************************)
(* Rebinding the list to [] starts a whole new pool.                       *)
(***************************************************************************)
LEMMA CountInitList ==
  ASSUME IInv, CountInv, NEW t \in Threads, InitList(t)
  PROVE  CountInv'
<1>1. pc'[t] = "build" /\ todo'[t] = PoolSz /\ list' = <<>>
  BY DEF IInv, TypeOK, InitList, Goto
<1>2. Holders' = Holders
  BY DEF IInv, TypeOK, InitList, Goto, Holders, Holding
<1>3. Cardinality(Holders) \in Nat
  BY HoldersFacts
<1>4. Len(list') + Cardinality(Holders') + todo'[t] >= PoolSz
  BY <1>1, <1>2, <1>3, PoolSzAssumption
<1> QED
  BY <1>1, <1>4 DEF CountInv

(***************************************************************************)
(* Connecting a socket replaces one that was still to be connected.        *)
(***************************************************************************)
LEMMA CountConnectAppend ==
  ASSUME IInv, CountInv, NEW t \in Threads, ConnectAppend(t)
  PROVE  CountInv'
<1> DEFINE n == Len(list) + Cardinality(Holders)
<1>0. todo[t] \in 1 .. PoolSz /\ \A u \in Threads : todo[u] \in Nat
  BY PoolSzAssumption DEF IInv, TypeOK, NewInv, ConnectAppend, Goto
<1>1. list \in Seq(Socks) /\ list # None /\ <<t, todo[t]>> \in Socks
  BY <1>0 DEF IInv, TypeOK, NewInv, ConnectAppend, Goto, Socks
<1>2. Len(list') = Len(list) + 1 /\ Len(list) \in Nat
  BY <1>1, AppendFacts DEF ConnectAppend
<1>3. Holders' = Holders
  BY DEF IInv, TypeOK, ConnectAppend, Goto, Holders, Holding
<1>4. Cardinality(Holders) \in Nat
  BY HoldersFacts
<1>5. Len(list') + Cardinality(Holders') = n + 1 /\ n \in Nat
  BY <1>2, <1>3, <1>4
<1>6. \A u \in Threads : u # t => pc'[u] = pc[u] /\ todo'[u] = todo[u]
  BY DEF IInv, TypeOK, ConnectAppend, Goto
<1>7. todo'[t] = todo[t] - 1 /\ (todo[t] # 1 => pc'[t] = "build")
  BY DEF IInv, TypeOK, ConnectAppend, Goto
<1> HIDE DEF n
<1>8. CASE n >= PoolSz
  BY <1>5, <1>8, PoolSzAssumption DEF CountInv
<1>9. ASSUME NEW u \in Threads, pc[u] = "build", n + todo[u] >= PoolSz
      PROVE  CountInv'
  <2>1. CASE u # t
    <3>1. n + 1 + todo'[u] >= PoolSz /\ pc'[u] = "build"
      BY <1>0, <1>5, <1>6, <1>9, <2>1, PoolSzAssumption
    <3> QED
      BY <1>5, <3>1 DEF CountInv
  <2>2. CASE u = t /\ todo[t] # 1
    <3>1. n + 1 + todo'[t] >= PoolSz /\ pc'[t] = "build"
      BY <1>0, <1>5, <1>7, <1>9, <2>2, PoolSzAssumption
    <3> QED
      BY <1>5, <3>1 DEF CountInv
  <2>3. CASE u = t /\ todo[t] = 1
    BY <1>5, <1>9, <2>3, PoolSzAssumption DEF CountInv
  <2> QED
    BY <2>1, <2>2, <2>3
<1> QED
  BY <1>1, <1>8, <1>9 DEF CountInv, n

(***************************************************************************)
(* No step of get_sock, send or the far ends loses a socket.               *)
(***************************************************************************)
LEMMA CountStep == IInv /\ CountInv /\ [Next]_vars => CountInv'
<1> SUFFICES ASSUME IInv, CountInv, [Next]_vars PROVE CountInv'
  OBVIOUS
<1>1. ASSUME NEW t \in Threads, Call(t) \/ CheckNone(t) \/ LenCheck(t) \/ Raise(t) \/ SendUp(t)
      PROVE  CountInv'
  <2>1. UNCHANGED <<list, todo>>
    BY <1>1 DEF Call, CheckNone, LenCheck, Raise, SendUp
  <2>2. \A u \in Threads : /\ Holding(u)' <=> Holding(u)
                           /\ pc[u] = "build" => pc'[u] = "build"
    BY <1>1 DEF Call, CheckNone, LenCheck, Raise, SendUp, Goto, Exhausted, Holding, IInv, TypeOK
  <2> QED
    BY <2>1, <2>2, CountFrame
<1>2. ASSUME NEW t \in Threads, SendEof(t) \/ SendReset(t) \/ RecvReply(t) \/ RecvEof(t)
      PROVE  CountInv'
  BY <1>2, CountRelease DEF SendEof, SendReset, RecvReply, RecvEof, Holding
<1>3. ASSUME NEW s \in Socks, PeerReply(s) \/ PeerSilent(s) \/ PeerClose(s)
      PROVE  CountInv'
  <2>1. UNCHANGED <<list, todo, pc>>
    BY <1>3 DEF PeerReply, PeerSilent, PeerClose, Processed
  <2> QED
    BY <2>1, CountFrame DEF Holding
<1>4. CASE UNCHANGED vars
  BY <1>4, CountFrame DEF vars, Holding
<1> QED
  BY <1>1, <1>2, <1>3, <1>4, CountPop, CountInitList, CountConnectAppend DEF Next, ThreadStep

\* Before the first send there is no list.
LEMMA InitCount == Init => CountInv
  BY DEF Init, CountInv

(***************************************************************************)
(* If no more threads use a pool than it has sockets, the assertion        *)
(* "Exhausted sockets" of get_sock, or the pop after it, fails only while  *)
(* some thread is still filling the list: the lazy, unlocked construction  *)
(* of the pool is the only reason for an exhausted one.                    *)
(***************************************************************************)
THEOREM Exhaustion ==
  ASSUME Cardinality(Threads) <= PoolSz
  PROVE  Spec => []ExhaustedOnlyWhileBuilding
<1>1. IInv /\ CountInv => ExhaustedOnlyWhileBuilding
  <2> SUFFICES ASSUME IInv, CountInv, NEW t \in Threads, Exhausted(t)
               PROVE  \E u \in Threads : pc[u] = "build"
    BY DEF ExhaustedOnlyWhileBuilding
  <2>1. t \notin Holders /\ list = <<>> /\ list # None
    BY DEF Exhausted, Holders, Holding, IInv, NewInv
  <2>2. /\ Cardinality(Holders) < Cardinality(Threads)
        /\ Cardinality(Holders) \in Nat /\ Cardinality(Threads) \in Nat
    BY <2>1, HoldersFacts
  <2>3. ~(Len(list) + Cardinality(Holders) >= PoolSz)
    BY <2>1, <2>2, PoolSzAssumption
  <2> QED
    BY <2>1, <2>3 DEF CountInv
<1> QED
  BY <1>1, InductiveInvariant, InitCount, CountStep, PTL DEF Spec
=============================================================================
