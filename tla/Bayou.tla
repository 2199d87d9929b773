-------------------------------- MODULE Bayou --------------------------------
(***************************************************************************)
(* The Bayou servers of lab4: clients append to any server; the master     *)
(* commits, the others write tentatively; every server runs a thread that  *)
(* asks its peers in turn for the writes it lacks (anti-entropy); a test   *)
(* severs and restores connections.                                        *)
(*                                                                         *)
(* Two parts of the program are left to be supplied (they raise in the     *)
(* repository): the body of Storage.apply and Storage.anti_entropy, and    *)
(* what the master does with the tentative writes it receives.  They are   *)
(* modelled by the contract that their callers, their docstrings and       *)
(* tests/test_storage.py and tests/test_client.py rely on: Apply,          *)
(* AntiEntropy and Accept below, marked external.  All else is the code.   *)
(*                                                                         *)
(* A write is its LogicalTime (the character is left out: logs are         *)
(* compared by their writes); between servers it is a dict.                *)
(***************************************************************************)
EXTENDS VectorTime, Sequences, FiniteSets, FiniteSetsExt, SequencesExt

CONSTANTS
  None,        \* Python's None
  Clients,     \* each sends its appends one after the other
  Readers,     \* those that also read
  ServerOf,    \* ServerOf[k]: the server that client k talks to
  Warm,        \* does every server have its Storage when the run begins?
  MaxEach,     \* bound on the appends and reads of a client
  MaxRequests, \* bound on those of all clients
  MaxSevers    \* bound on the requests that sever a connection

Master == 1
Peers(s) == Servers \ {s}

\* The threads: the handler of each client's request, and at every server the
\* anti-entropy thread (with, at the peer, the handler of its request).
AE      == {<<"ae", s>> : s \in Servers}
Threads == Clients \cup AE
Home(t) == IF t \in AE THEN t[2] ELSE ServerOf[t]

\* A Storage object: the vectors C and F, and the two logs.
Storages == [c : Vectors, f : Vectors, clog : Seq(LogicalTime), tlog : SUBSET LogicalTime]

ASSUME ClientAssumption ==
  /\ NumServers > 1 /\ None \notin Storages
  /\ Clients \cap AE = {} /\ Readers \subseteq Clients /\ ServerOf \in [Clients -> Servers]
  /\ Warm \in BOOLEAN /\ {MaxEach, MaxRequests} \subseteq Nat /\ MaxSevers \in Nat

EmptyStorage == [c |-> NewVtime, f |-> NewVtime, clog |-> <<>>, tlog |-> {}]
NoReq        == [ts |-> 0, name |-> Master]
NoVectors    == None
NoAnswer     == [committed |-> <<>>, tentative |-> {}]

VARIABLES
  storage,  \* storage[s]: the Storage object of s, or None (not yet created)
  replaced, \* was a Storage assigned where there was one already?
  pc,       \* pc[t]: where thread t is
  at,       \* at[t]: the server on which it runs
  peer,     \* peer[s]: the peer that the anti-entropy thread of s is at
  write,    \* write[k]: the write in the hands of the handler of client k
  vectors,  \* vectors[s]: the request of the thread of s, as far as it is made
  answer,   \* answer[s]: the logs that its peer answered with
  dc,       \* dc[s]: _dc_servers of the connection stub of s
  now,      \* time.monotonic_ns(): all servers are on one host
  acked,    \* the writes acknowledged to clients
  sent, severs   \* counted for the bounds

threadVars == <<pc, at, peer, write, vectors, answer>>
vars == <<storage, replaced, threadVars, dc, now, acked, sent, severs>>

\* The loop over the peers passes over the server itself.
After(s, p) ==
  LET q == (p % NumServers) + 1 IN IF q = s THEN (q % NumServers) + 1 ELSE q

Init ==
  /\ storage = [s \in Servers |-> IF Warm THEN EmptyStorage ELSE None]
  /\ pc = [t \in Threads |-> IF t \in AE THEN "check" ELSE "idle"]
  /\ at = [t \in Threads |-> Home(t)]
  /\ peer = [s \in Servers |-> After(s, 0)]
  /\ write = [k \in Clients |-> NoReq]
  /\ vectors = [s \in Servers |-> NoVectors]
  /\ answer = [s \in Servers |-> NoAnswer]
  /\ dc = [s \in Servers |-> {}]
  /\ now = 0
  /\ acked = {} /\ replaced = FALSE
  /\ sent = [k \in Clients |-> 0] /\ severs = 0

-----------------------------------------------------------------------------
(***************************************************************************)
(* What the supplied parts promise.                                        *)
(***************************************************************************)
IsNew(v, w)   == ~IsLtimeEarlier(v, w)
Cover(v, W)   == [s \in Servers |-> Max({v[s]} \cup {w.ts : w \in {x \in W : x.name = s}})]

\* The writes of a set in the order of their times.
InOrder(W) ==
  [j \in 1 .. Cardinality(W) |->
     CHOOSE w \in W : Cardinality({x \in W : Less(x, w)}) = j - 1]

\* The entries of a log that vector v does not cover.
Uncovered(v, log) ==
  LET I == {i \in DOMAIN log : IsNew(v, log[i])} IN
  [j \in 1 .. Cardinality(I) |->
     log[CHOOSE i \in I : Cardinality({h \in I : h < i}) = j - 1]]

BugApplyF(st, commits, tentatives) ==
  LET cs == {w \in ToSet(commits) : IsNew(st.c, w)}
      ts == {w \in tentatives : IsNew(st.f, w)}
  IN [c    |-> Cover(st.c, cs),
      f    |-> Cover(st.f, ts),
      clog |-> st.clog \o Uncovered(st.c, commits),
      tlog |-> (st.tlog \cup ts) \ cs]

BugApplyKeep(st, commits, tentatives) ==
  LET cs == {w \in ToSet(commits) : IsNew(st.c, w)}
      ts == {w \in tentatives : IsNew(st.f, w)}
  IN [c    |-> Cover(st.c, cs),
      f    |-> Cover(st.f, cs \cup ts),
      clog |-> st.clog \o Uncovered(st.c, commits),
      tlog |-> st.tlog \cup ts]

(***************************************************************************)
(* Storage.apply: writes that are already covered are skipped ("Commits    *)
(* are idempotent", "Tentatives are idempotent"); a commit leaves the      *)
(* tentative log; commits advance C and F, tentative writes only F.        *)
(***************************************************************************)
Apply(st, commits, tentatives) ==
  LET cs == {w \in ToSet(commits) : IsNew(st.c, w)}
      ts == {w \in tentatives : IsNew(st.f, w)}
  IN [c    |-> Cover(st.c, cs),
      f    |-> Cover(st.f, cs \cup ts),
      clog |-> st.clog \o Uncovered(st.c, commits),
      tlog |-> (st.tlog \cup ts) \ cs]

\* Storage.anti_entropy: the writes that the vectors of the other do not cover.
AntiEntropy(st, c, f) ==
  [committed |-> Uncovered(c, st.clog),
   tentative |-> {w \in st.tlog : IsNew(f, w)}]

\* It asserts that one of the two has committed all that the other has.
Comparable(st, c) == IsVtimeEarlier(st.c, c) \/ IsVtimeEarlier(c, st.c)

\* The master commits, in order, the tentative writes it receives.
Accept(ans) == ans.committed \o InOrder(ans.tentative)

\* Storage.commit and Storage.tentative.
Commit(st, writes)    == Apply(st, writes, {})
Tentative(st, writes) == Apply(st, <<>>, writes)

-----------------------------------------------------------------------------
(***************************************************************************)
(* Writes and vectors as JSON.                                             *)
(***************************************************************************)

\* A message of an entry holds its time as [ts, name] ...
LogEntry(msg)  == [ts |-> msg.ltime[1], name |-> msg.ltime[2]]
AppLogEntry(l) == LogEntry([ltime |-> <<l.ts, l.name>>])

\* ... but what is sent holds it as (name, ts).
Serialize(l) == <<l.name, l.ts>>
ToDict(w)    == [req_type |-> "APPEND_CHAR", ltime |-> Serialize(w)]

\* Mutant of Deserialize: a new write gets the name of the master.
BugDeserialize(msg, s, t) ==
  AppLogEntry(IF "ltime" \in DOMAIN msg
                THEN [name |-> msg.ltime[1], ts |-> msg.ltime[2]]
                ELSE [name |-> Master, ts |-> t])

\* deserialize at server s, at time t: a client's message has no time yet.
Deserialize(msg, s, t) ==
  AppLogEntry(IF "ltime" \in DOMAIN msg
                THEN [name |-> msg.ltime[1], ts |-> msg.ltime[2]]
                ELSE [name |-> s, ts |-> t])

\* Mutant of ToMsg: the arguments of AntiEntropyReq swapped.
BugToMsg(c, f) == [type |-> "ANTI_ENTROPY", c |-> f, f |-> c]

\* The vectors as {server: ts}, and the handler's check of the request.
ToMsg(c, f)  == [type |-> "ANTI_ENTROPY", c |-> c, f |-> f]
FromMsg(msg) == IF {"c", "f"} \subseteq DOMAIN msg THEN [c |-> msg.c, f |-> msg.f]
                ELSE None

-----------------------------------------------------------------------------
(***************************************************************************)
(* The property storage creates the Storage at its first use, without a    *)
(* lock: threads that find None at the same time each assign a new one.    *)
(* What follows "return self._storage" is joined to the use of the object, *)
(* and so is a check that does not find None (it finds none later either). *)
(***************************************************************************)
CheckNone(t) ==
  /\ pc[t] = "check" /\ storage[at[t]] = None
  /\ pc' = [pc EXCEPT ![t] = "create"]
  /\ UNCHANGED <<replaced, storage, at, peer, write, vectors, answer>>
  /\ UNCHANGED <<dc, now, acked, sent, severs>>

HasStorage(t) == pc[t] \in {"check", "use"} /\ storage[at[t]] # None

Create(t) ==
  /\ pc[t] = "create"
  /\ pc' = [pc EXCEPT ![t] = "use"]
  /\ storage' = [storage EXCEPT ![at[t]] = EmptyStorage]
  /\ replaced' = (replaced \/ storage[at[t]] # None)
  /\ UNCHANGED <<at, peer, write, vectors, answer, dc, now, acked, sent, severs>>

(***************************************************************************)
(* A client's append.                                                      *)
(***************************************************************************)

\* The request of the client.
Request(k) ==
  /\ pc[k] = "idle" /\ sent[k] < MaxEach /\ FoldFunction(+, 0, sent) < MaxRequests
  /\ pc' = [pc EXCEPT ![k] = "check"]
  /\ sent' = [sent EXCEPT ![k] = @ + 1]

\* Mutant of AppendChar: stamped by a clock that may go back.
BugAppendChar(k) ==
  /\ Request(k)
  /\ now' \in {n \in {now - 1, now + 1} : n > 0}
  /\ write' = [write EXCEPT ![k] = Deserialize([char |-> "a"], ServerOf[k], now')]
  /\ UNCHANGED <<replaced, storage, at, peer, vectors, answer, dc, acked, severs>>

\* _process_app_req: an append is stamped by deserialize.
AppendChar(k) ==
  /\ Request(k)
  /\ now' = now + 1
  /\ write' = [write EXCEPT ![k] = Deserialize([char |-> "a"], ServerOf[k], now')]
  /\ UNCHANGED <<replaced, storage, at, peer, vectors, answer, dc, acked, severs>>

\* Mutant of Write: every server commits.
BugWrite(k) ==
  /\ HasStorage(k) /\ write[k] # NoReq
  /\ pc' = [pc EXCEPT ![k] = "idle"]
  /\ storage' = [storage EXCEPT ![ServerOf[k]] = Commit(@, <<write[k]>>)]
  /\ acked' = acked \cup {write[k]}
  /\ write' = [write EXCEPT ![k] = NoReq]
  /\ UNCHANGED <<replaced, at, peer, vectors, answer, dc, now, sent, severs>>

\* storage.commit at the master, storage.tentative elsewhere, and the answer.
Write(k) ==
  LET s == ServerOf[k] IN
  /\ HasStorage(k) /\ write[k] # NoReq
  /\ pc' = [pc EXCEPT ![k] = "idle"]
  /\ storage' = [storage EXCEPT ![s] =
       IF s = Master THEN Commit(@, <<write[k]>>) ELSE Tentative(@, {write[k]})]
  /\ acked' = acked \cup {write[k]}
  /\ write' = [write EXCEPT ![k] = NoReq]
  /\ UNCHANGED <<replaced, at, peer, vectors, answer, dc, now, sent, severs>>

(***************************************************************************)
(* A client's read.  The handler takes no lock: it may read the two        *)
(* strings while a log is being applied, and what it shows then depends on *)
(* the body of apply, which is to be supplied.  Of its answer nothing is   *)
(* said; it counts as a thread that may create the Storage.                *)
(***************************************************************************)
GetString(k) ==
  /\ k \in Readers /\ Request(k)
  /\ UNCHANGED <<replaced, storage, at, peer, write, vectors, answer>>
  /\ UNCHANGED <<dc, now, acked, severs>>

Read(k) ==
  /\ HasStorage(k) /\ write[k] = NoReq
  /\ pc' = [pc EXCEPT ![k] = "idle"]
  /\ UNCHANGED <<replaced, storage, at, peer, write, vectors, answer>>
  /\ UNCHANGED <<dc, now, acked, sent, severs>>

-----------------------------------------------------------------------------
(***************************************************************************)
(* The anti-entropy thread t = <<"ae", s>> of server s.                    *)
(***************************************************************************)

\* The loop stays at a peer, or does not pass over the server itself.
BugNextPeer(s) == UNCHANGED peer
BugSelfPeer(s) == peer' = [peer EXCEPT ![s] = (@ % NumServers) + 1]

NextPeer(s) == peer' = [peer EXCEPT ![s] = After(s, @)]

\* The vector C of the request is read, without the lock ...
ReadC(t) ==
  LET s == t[2] IN
  /\ HasStorage(t) /\ at[t] = s
  /\ vectors' = [vectors EXCEPT ![s] = [c |-> storage[s].c]]
  /\ pc' = [pc EXCEPT ![t] = "ask"]
  /\ UNCHANGED <<replaced, storage, at, peer, write, answer, dc, now, acked, sent, severs>>

\* ... then F, and ConnectionStub.send takes both to the peer.
Send(t) ==
  LET s == t[2] IN
  /\ pc[t] = "ask" /\ peer[s] \notin dc[s]
  /\ vectors' = [vectors EXCEPT ![s] = ToMsg(vectors[s].c, storage[s].f)]
  /\ at' = [at EXCEPT ![t] = peer[s]]
  /\ pc' = [pc EXCEPT ![t] = "check"]
  /\ UNCHANGED <<replaced, storage, peer, write, answer, dc, now, acked, sent, severs>>

\* SimulatedConnectionError: on to the next peer.
SendFails(t) ==
  LET s == t[2] IN
  /\ pc[t] = "ask" /\ peer[s] \in dc[s]
  /\ vectors' = [vectors EXCEPT ![s] = NoVectors]
  /\ pc' = [pc EXCEPT ![t] = "check"]
  /\ NextPeer(s)
  /\ UNCHANGED <<replaced, storage, at, write, answer, dc, now, acked, sent, severs>>

\* The peer's handler answers the request.
PeerAnswers(t) ==
  LET s   == t[2]
      req == FromMsg(vectors[s])
      ans == AntiEntropy(storage[at[t]], req.c, req.f)
  IN /\ HasStorage(t) /\ at[t] # s
     /\ Comparable(storage[at[t]], req.c)
     /\ answer' = [answer EXCEPT ![s] =
          [committed |-> [i \in DOMAIN ans.committed |-> ToDict(ans.committed[i])],
           tentative |-> {ToDict(w) : w \in ans.tentative}]]
     /\ vectors' = [vectors EXCEPT ![s] = NoVectors]
     /\ at' = [at EXCEPT ![t] = s]
     /\ pc' = [pc EXCEPT ![t] = "apply"]
     /\ UNCHANGED <<replaced, storage, peer, write, dc, now, acked, sent, severs>>

(***************************************************************************)
(* The assertion of anti_entropy fails: the answer is an error without     *)
(* logs, response["committed"] raises, and the thread, which only catches  *)
(* SimulatedConnectionError, ends.                                         *)
(***************************************************************************)
PeerRefuses(t) ==
  /\ HasStorage(t) /\ at[t] # t[2]
  /\ ~Comparable(storage[at[t]], FromMsg(vectors[t[2]]).c)
  /\ pc' = [pc EXCEPT ![t] = "dead"]
  /\ UNCHANGED <<replaced, storage, at, peer, write, vectors, answer>>
  /\ UNCHANGED <<dc, now, acked, sent, severs>>

\* What __send_anti_entropy makes of the answer.
Received(s) ==
  [committed |-> [i \in DOMAIN answer[s].committed |->
                    Deserialize(answer[s].committed[i], s, now)],
   tentative |-> {Deserialize(msg, s, now) : msg \in answer[s].tentative}]

\* Every server commits the tentative writes it receives.
BugApplyAnswer(t) ==
  LET s == t[2] IN
  /\ pc[t] = "apply"
  /\ storage' = [storage EXCEPT ![s] = Commit(@, Accept(Received(s)))]
  /\ answer' = [answer EXCEPT ![s] = NoAnswer]
  /\ pc' = [pc EXCEPT ![t] = "check"]
  /\ NextPeer(s)
  /\ UNCHANGED <<replaced, at, write, vectors, dc, now, acked, sent, severs>>

\* The logs received are applied.
ApplyAnswer(t) ==
  LET s == t[2] IN
  /\ pc[t] = "apply"
  /\ storage' = [storage EXCEPT ![s] =
       IF s = Master THEN Commit(@, Accept(Received(s)))
       ELSE Apply(@, Received(s).committed, Received(s).tentative)]
  /\ answer' = [answer EXCEPT ![s] = NoAnswer]
  /\ pc' = [pc EXCEPT ![t] = "check"]
  /\ NextPeer(s)
  /\ UNCHANGED <<replaced, at, write, vectors, dc, now, acked, sent, severs>>

-----------------------------------------------------------------------------
(***************************************************************************)
(* The requests that sever and restore a connection of s (ConnectionStub). *)
(***************************************************************************)
Sever(s, p) ==
  /\ severs < MaxSevers /\ p \notin dc[s]
  /\ dc' = [dc EXCEPT ![s] = @ \cup {p}]
  /\ severs' = severs + 1
  /\ UNCHANGED <<replaced, storage, threadVars, now, acked, sent>>

Unsever(s, p) ==
  /\ p \in dc[s]
  /\ dc' = [dc EXCEPT ![s] = @ \ {p}]
  /\ UNCHANGED <<replaced, storage, threadVars, now, acked, sent, severs>>

AEStep(t) ==
  \/ ReadC(t) \/ Send(t) \/ SendFails(t)
  \/ PeerAnswers(t) \/ PeerRefuses(t) \/ ApplyAnswer(t)

Handle(k) == CheckNone(k) \/ Create(k) \/ Write(k) \/ Read(k)

Restore == \E s \in Servers : \E p \in Peers(s) : Unsever(s, p)

Next ==
  \/ \E k \in Clients : AppendChar(k) \/ GetString(k) \/ Handle(k)
  \/ \E t \in AE : CheckNone(t) \/ Create(t) \/ AEStep(t)
  \/ \E s \in Servers : \E p \in Peers(s) : Sever(s, p)
  \/ Restore

Spec == Init /\ [][Next]_vars

\* Requests are handled, every anti-entropy thread runs, and severed
\* connections are restored.  (The first and the last are finitely many.)
FairSpec ==
  /\ Spec
  /\ WF_vars(\E k \in Clients : Handle(k))
  /\ \A t \in AE : WF_vars(CheckNone(t) \/ Create(t) \/ AEStep(t))
  /\ WF_vars(Restore)

-----------------------------------------------------------------------------

TypeOK ==
  /\ storage \in [Servers -> Storages \cup {None}]
  /\ replaced \in BOOLEAN
  /\ pc \in [Threads -> {"idle", "check", "create", "use", "ask", "apply", "dead"}]
  /\ at \in [Threads -> Servers]
  /\ \A s \in Servers : peer[s] \in Peers(s)
  /\ write \in [Clients -> LogicalTime \cup {NoReq}]
  /\ \A s \in Servers : /\ Received(s).committed \in Seq(LogicalTime)
                         /\ Received(s).tentative \subseteq LogicalTime
  /\ dc \in [Servers -> SUBSET Servers]
  /\ now \in Nat /\ acked \subseteq LogicalTime
  /\ sent \in [Clients -> 0 .. MaxEach] /\ severs \in 0 .. MaxSevers

Made       == {s \in Servers : storage[s] # None}
Committed(s) == ToSet(storage[s].clog)
Known(s)     == Committed(s) \cup storage[s].tlog

(***************************************************************************)
(* What Storage.chk_invariants asserts, in every state rather than where a *)
(* test calls it: F covers C, and they are equal if nothing is tentative.  *)
(***************************************************************************)
ChkInvariants ==
  \A s \in Made : /\ IsVtimeEarlier(storage[s].f, storage[s].c)
                  /\ storage[s].tlog = {} => storage[s].f = storage[s].c

(***************************************************************************)
(* All servers commit the same writes in the same order: of any two        *)
(* committed logs one is a prefix of the other, whatever the order of      *)
(* appends, anti-entropy sessions and severed connections, as long as the  *)
(* race on the property storage replaced no Storage.                       *)
(***************************************************************************)
CommittedAgree ==
  ~replaced =>
    \A s, u \in Made : \/ IsPrefix(storage[s].clog, storage[u].clog)
                       \/ IsPrefix(storage[u].clog, storage[s].clog)

\* No write is committed twice, or both committed and tentative, however often
\* and from however many peers it is delivered ("Commits are idempotent").
CommittedOnce ==
  \A s \in Made : /\ IsInjective(storage[s].clog)
                  /\ Committed(s) \cap storage[s].tlog = {}

(***************************************************************************)
(* A server that knows a write of some server knows all that server's      *)
(* earlier writes: what makes it enough to exchange one time per server.   *)
(***************************************************************************)
NoGaps ==
  ~replaced =>
    \A s \in Made : \A w \in UNION {Known(u) : u \in Made} :
      (w \in Known(s)) <=> IsLtimeEarlier(storage[s].f, w)

\* No anti-entropy thread dies of an answer without logs.
AntiEntropyGoesOn == ~replaced => \A t \in AE : pc[t] # "dead"

(***************************************************************************)
(* A write that was answered with "OK" is never lost again by the server   *)
(* that took it: tests/test_client.py reads it back.                       *)
(***************************************************************************)
AckedSurvives == \A w \in acked : w \in Known(w.name)

\* It is not as long as no Storage was replaced.
AckedKept == ~replaced => AckedSurvives

(***************************************************************************)
(* Eventual consistency: once the clients stop and connections are         *)
(* restored all servers have committed all acknowledged writes, in the     *)
(* same order, and none is tentative.                                      *)
(***************************************************************************)
Converges ==
  <>[](~replaced =>
         \A s \in Servers :
           /\ storage[s] # None /\ storage[Master] # None
           /\ storage[s].clog = storage[Master].clog
           /\ storage[s].tlog = {} /\ Committed(s) = acked)
=============================================================================
