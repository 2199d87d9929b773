------------------------------ MODULE Bayou_proofs ------------------------------
(***************************************************************************)
(* The Bayou servers of lab4 for any number of servers and clients and any *)
(* number of appends, reads and severed connections: what a Storage holds, *)
(* that servers agree on what is committed as long as the race on the      *)
(* property storage replaced no Storage, and what rests on it.             *)
(***************************************************************************)
EXTENDS BayouStorage_proofs

-----------------------------------------------------------------------------
(***************************************************************************)
(* The storages of all servers, st = storage.                              *)
(***************************************************************************)
Has(st)      == {s \in Servers : st[s] # None}
Holds(st, s) == ToSet(st[s].clog) \cup st[s].tlog
LogOf(st)    == IF st[Master] = None THEN <<>> ELSE st[Master].clog

\* Each is sound, and holds nothing that is not stamped yet.
Sound(st, n) ==
  /\ st \in [Servers -> Storages \cup {None}]
  /\ \A s \in Has(st) : StorageInv(st[s]) /\ Holds(st, s) \subseteq Stamps(n)

\* v covers the first n entries of a log, no other, and nothing else.
Cut(log, v, n) ==
  /\ v \in Vectors /\ n \in 0 .. Len(log)
  /\ \A i \in 1 .. Len(log) : log[i].ts <= v[log[i].name] <=> i <= n
  /\ \A p \in Servers : v[p] = 0 \/ \E i \in 1 .. n : log[i].name = p /\ log[i].ts = v[p]

(***************************************************************************)
(* What the servers agree on: the master alone decides the committed log,  *)
(* every committed log is a part of its own that C describes; a write is   *)
(* known where it was taken; F says which writes a server knows.           *)
(***************************************************************************)
PartOfLog(st) ==
  \A s \in Has(st) : IsPrefix(st[s].clog, LogOf(st)) /\ Cut(LogOf(st), st[s].c, Len(st[s].clog))
MasterCommits(st) ==
  \A s \in Has(st) : /\ s = Master => st[s].tlog = {}
                     /\ \A w \in st[s].tlog : w.name # Master
KnownAtHome(st, w) == w.name \in Has(st) /\ w \in Holds(st, w.name)
Homes(st) == \A s \in Has(st) : \A w \in Holds(st, s) : KnownAtHome(st, w)
Gapless(st) ==
  \A s, u \in Has(st) : \A w \in Holds(st, u) : w.ts <= st[s].f[w.name] => w \in Holds(st, s)

Agree(st) == PartOfLog(st) /\ MasterCommits(st) /\ Homes(st) /\ Gapless(st)

\* A request of s: its vectors as they were when it was sent.
Asked(st, s, req) ==
  /\ s \in Has(st) /\ \E n \in Nat : Cut(LogOf(st), req.c, n)
  /\ s # Master => req.c = st[s].c
  /\ \A p \in Servers : req.c[p] <= req.f[p] /\ req.f[p] <= st[s].f[p]

\* Writes W leave no gap at s.
Fills(st, s, W) ==
  \A x \in W : \A u \in Has(st) : \A w \in Holds(st, u) :
    w.name = x.name /\ st[s].f[w.name] < w.ts /\ w.ts <= x.ts => w \in W

\* Commits that extend the log of s, or that the master has.
Extends(st, s, commits) ==
  IF s = Master THEN ToSet(commits) \subseteq ToSet(LogOf(st))
  ELSE /\ IsPrefix(st[s].clog \o commits, LogOf(st))
       /\ \E v \in Vectors : Cut(LogOf(st), v, Len(st[s].clog) + Len(commits))

\* An answer to s.
Answered(st, s, commits, tentatives) ==
  /\ s \in Has(st) /\ Extends(st, s, commits)
  /\ \A x \in tentatives : x.name # Master
  /\ \A x \in ToSet(commits) \cup tentatives : KnownAtHome(st, x)
  /\ Fills(st, s, ToSet(commits) \cup tentatives)

-----------------------------------------------------------------------------
(***************************************************************************)
(* The invariant.                                                          *)
(***************************************************************************)
Dicts    == [req_type : {"APPEND_CHAR"}, ltime : Servers \X Nat]
Answers  == [committed : Seq(Dicts), tentative : SUBSET Dicts]
Requests == [type : {"ANTI_ENTROPY"}, c : Vectors, f : Vectors]
Halves   == [c : Vectors]       \* a request of which only C was read

\* The writes that an answer is made of.
Undict(msg)     == [ts |-> msg.ltime[2], name |-> msg.ltime[1]]
Commits(ans)    == [i \in DOMAIN ans.committed |-> Undict(ans.committed[i])]
Tentatives(ans) == {Undict(msg) : msg \in ans.tentative}

ae(s) == <<"ae", s>>

\* Threads and what they hold, whatever happens.
ThreadInv ==
  /\ pc \in [Threads -> {"idle", "check", "create", "use", "ask", "apply", "dead"}]
  /\ \A k \in Clients : pc[k] \notin {"ask", "apply", "dead"}
  /\ at \in [Threads -> Servers] /\ \A k \in Clients : at[k] = ServerOf[k]
  /\ peer \in [Servers -> Servers] /\ \A s \in Servers : peer[s] # s
  /\ vectors \in [Servers -> Requests \cup Halves \cup {None}]
  /\ \A s \in Servers :
       /\ at[ae(s)] # s => vectors[s] \in Requests /\ pc[ae(s)] \notin {"ask", "apply"}
       /\ pc[ae(s)] = "ask" => vectors[s] \in Halves

WriteInv ==
  /\ write \in [Clients -> LogicalTime]
  /\ \A k \in Clients : write[k] # NoReq => write[k].name = ServerOf[k] /\ write[k] \in Stamps(now)
  /\ acked \subseteq LogicalTime

AnswerInv ==
  /\ answer \in [Servers -> Answers]
  /\ \A s \in Servers :
       /\ ToSet(Commits(answer[s])) \cup Tentatives(answer[s]) \subseteq Stamps(now)
       /\ IsInjective(Commits(answer[s]))
       /\ ToSet(Commits(answer[s])) \cap Tentatives(answer[s]) = {}

RestInv ==
  /\ replaced \in BOOLEAN /\ now \in Nat /\ dc \in [Servers -> SUBSET Servers]
  /\ sent \in [Clients -> 0 .. MaxEach] /\ severs \in 0 .. MaxSevers

SoundInv == ThreadInv /\ WriteInv /\ AnswerInv /\ RestInv /\ Sound(storage, now)

\* A server that asks has a Storage.
OutInv ==
  \A s \in Servers : at[ae(s)] # s \/ pc[ae(s)] \in {"ask", "apply"} => s \in Has(storage)

\* As long as no Storage was replaced.  A request of which only C was read
\* would also do with this vector for F.
SessionInv ==
  \A s \in Servers :
    /\ pc[ae(s)] = "ask" => Asked(storage, s, ToMsg(vectors[s].c, vectors[s].c))
    /\ at[ae(s)] # s => Asked(storage, s, vectors[s])
    /\ pc[ae(s)] = "apply" =>
         Answered(storage, s, Commits(answer[s]), Tentatives(answer[s]))
    /\ pc[ae(s)] # "dead"

AgreeInv == ~replaced => Agree(storage) /\ SessionInv

\* No server has two clients: a write is stamped later than what its server has.
OneClientEach == \A k, l \in Clients : ServerOf[k] = ServerOf[l] => k = l

AckInv ==
  ~replaced =>
    /\ \A w \in acked : KnownAtHome(storage, w)
    /\ \A k \in Clients : write[k] # NoReq /\ ServerOf[k] \in Has(storage) =>
         storage[ServerOf[k]].f[ServerOf[k]] < write[k].ts

-----------------------------------------------------------------------------
(***************************************************************************)
(* Cuts.                                                                   *)
(***************************************************************************)
LEMMA Entries ==
  ASSUME NEW log \in Seq(LogicalTime)
  PROVE  /\ Len(log) \in Nat /\ DOMAIN log = 1 .. Len(log)
         /\ ToSet(log) = {log[i] : i \in 1 .. Len(log)} /\ ToSet(log) \subseteq LogicalTime
         /\ \A i \in 1 .. Len(log) : log[i].ts \in Nat /\ log[i].name \in Servers
<1>1. \A i \in 1 .. Len(log) : log[i] \in LogicalTime
  OBVIOUS
<1> QED BY <1>1, SeqElements DEF LogicalTime

\* A cut of a log is one of the longer log, if what is added is not covered.
LEMMA CutGrows ==
  ASSUME NEW log \in Seq(LogicalTime), NEW more \in Seq(LogicalTime), NEW c \in Vectors,
         \A i \in 1 .. Len(log) : log[i].ts <= c[log[i].name],
         \A w \in ToSet(more) : ~(w.ts <= c[w.name]),
         NEW v, NEW n, Cut(log, v, n)
  PROVE  Cut(log \o more, v, n)
<1> DEFINE long == log \o more
<1>1. /\ long \in Seq(LogicalTime) /\ Len(long) = Len(log) + Len(more)
      /\ \A i \in 1 .. Len(log) : long[i] = log[i]
      /\ \A i \in 1 .. Len(more) : long[Len(log) + i] = more[i]
  BY ConcatElements
<1>2. Len(log) \in Nat /\ Len(more) \in Nat /\ \A i \in 1 .. Len(more) : more[i] \in ToSet(more)
  BY Entries
<1> HIDE DEF long
<1>3. v \in Vectors /\ n \in 0 .. Len(log) /\ n \in 0 .. Len(long)
  BY <1>1, <1>2 DEF Cut
<1>4. \A i \in 1 .. Len(log) : log[i].ts \in Nat /\ log[i].name \in Servers
  BY Entries
<1>5. \A p \in Servers : v[p] \in Nat /\ c[p] \in Nat
  BY <1>3 DEF Vectors
<1>6. ASSUME NEW p \in Servers PROVE v[p] <= c[p]
  <2>1. CASE v[p] = 0
    BY <2>1, <1>5
  <2>2. ASSUME NEW i \in 1 .. n, log[i].name = p, log[i].ts = v[p] PROVE v[p] <= c[p]
    <3>1. i \in 1 .. Len(log)
      BY <1>2, <1>3
    <3> QED BY <2>2, <3>1
  <2> QED BY <2>1, <2>2 DEF Cut
<1>7. ASSUME NEW i \in 1 .. Len(long) PROVE long[i].ts <= v[long[i].name] <=> i <= n
  <2>1. CASE i <= Len(log)
    <3>1. i \in 1 .. Len(log)
      BY <2>1, <1>2
    <3> QED BY <3>1, <1>1 DEF Cut
  <2>2. CASE i > Len(log)
    <3>1. i - Len(log) \in 1 .. Len(more) /\ i = Len(log) + (i - Len(log)) /\ ~(i <= n)
      BY <2>2, <1>1, <1>2, <1>3
    <3>2. long[i] \in ToSet(more)
      BY <3>1, <1>1, <1>2
    <3>3. long[i].ts \in Nat /\ long[i].name \in Servers /\ ~(long[i].ts <= c[long[i].name])
      BY <3>2, <1>1, Entries
    <3> QED BY <3>1, <3>3, <1>5, <1>6
  <2> QED BY <2>1, <2>2, <1>1, <1>2
<1>8. \A i \in 1 .. n : long[i] = log[i]
  BY <1>1, <1>2, <1>3
<1> QED BY <1>3, <1>7, <1>8 DEF Cut, long

\* Of two cuts of one log the longer covers the shorter.
LEMMA CutsCompare ==
  ASSUME NEW log \in Seq(LogicalTime), NEW v, NEW n, Cut(log, v, n),
         NEW u, NEW m, Cut(log, u, m), n <= m
  PROVE  \A p \in Servers : v[p] <= u[p]
<1> SUFFICES ASSUME NEW p \in Servers PROVE v[p] <= u[p]
  OBVIOUS
<1>1. v[p] \in Nat /\ u[p] \in Nat /\ n \in 0 .. Len(log) /\ m \in 0 .. Len(log) /\ Len(log) \in Nat
  BY Entries DEF Cut, Vectors
<1>2. CASE v[p] = 0
  BY <1>1, <1>2
<1>3. ASSUME NEW i \in 1 .. n, log[i].name = p, log[i].ts = v[p] PROVE v[p] <= u[p]
  <2>1. i \in 1 .. Len(log) /\ i <= m
    BY <1>1
  <2> QED BY <2>1, <1>3 DEF Cut
<1> QED BY <1>2, <1>3 DEF Cut

\* What covers the first n entries, and nothing else, is their cut, if they have one.
LEMMA CutMade ==
  ASSUME NEW log \in Seq(LogicalTime), \A i \in 1 .. Len(log) : 0 < log[i].ts,
         NEW v, NEW n, Cut(log, v, n), NEW W, W = {log[i] : i \in 1 .. n},
         NEW u, IsCover(u, NewVtime, W)
  PROVE  Cut(log, u, n)
<1>1. n \in 0 .. Len(log) /\ Len(log) \in Nat /\ v \in Vectors /\ u \in Vectors
  BY Entries DEF Cut, IsCover
<1>2. \A i \in 1 .. Len(log) : log[i].ts \in Nat /\ log[i].name \in Servers
  BY Entries
<1>3. \A p \in Servers : v[p] \in Nat /\ u[p] \in Nat /\ NewVtime[p] = 0
  BY <1>1 DEF Vectors, NewVtime
<1>4. ASSUME NEW p \in Servers
      PROVE  u[p] = 0 \/ \E i \in 1 .. n : log[i].name = p /\ log[i].ts = u[p]
  BY <1>3 DEF IsCover
<1>5. ASSUME NEW p \in Servers PROVE u[p] <= v[p]
  <2>1. ASSUME NEW i \in 1 .. n, log[i].name = p, log[i].ts = u[p] PROVE u[p] <= v[p]
    <3>1. i \in 1 .. Len(log) /\ i <= n
      BY <1>1
    <3> QED BY <3>1, <2>1 DEF Cut
  <2> QED BY <2>1, <1>3, <1>4
<1>6. ASSUME NEW i \in 1 .. Len(log) PROVE log[i].ts <= u[log[i].name] <=> i <= n
  <2>1. CASE i <= n
    <3>1. log[i] \in W
      BY <2>1, <1>1
    <3> QED BY <2>1, <3>1 DEF IsCover
  <2>2. CASE ~(i <= n)
    <3>1. ~(log[i].ts <= v[log[i].name])
      BY <2>2 DEF Cut
    <3> QED BY <3>1, <2>2, <1>2, <1>3, <1>5
  <2> QED BY <2>1, <2>2
<1> QED BY <1>1, <1>4, <1>6 DEF Cut

LEMMA EmptyCut ==
  ASSUME NEW log \in Seq(LogicalTime), \A i \in 1 .. Len(log) : 0 < log[i].ts
  PROVE  Cut(log, NewVtime, 0)
<1>1. NewVtime \in Vectors /\ \A p \in Servers : NewVtime[p] = 0
  BY DEF NewVtime, Vectors
<1>2. 0 \in 0 .. Len(log)
  BY Entries
<1>3. \A i \in 1 .. Len(log) : log[i].ts <= NewVtime[log[i].name] <=> i <= 0
  BY <1>1, Entries
<1> QED BY <1>1, <1>2, <1>3 DEF Cut

LEMMA WholeCut ==
  ASSUME NEW st, StorageInv(st)
  PROVE  Cut(st.clog, st.c, Len(st.clog))
<1> DEFINE log == st.clog
<1>1. log \in Seq(LogicalTime) /\ IsCover(st.c, NewVtime, ToSet(log))
  BY DEF StorageInv, Storages
<1>2. Len(log) \in Nat /\ ToSet(log) = {log[i] : i \in 1 .. Len(log)}
  BY <1>1, Entries
<1> HIDE DEF log
<1>3. \A i \in 1 .. Len(log) : log[i].ts <= st.c[log[i].name]
  BY <1>1, <1>2 DEF IsCover
<1>4. \A p \in Servers : NewVtime[p] = 0
  BY DEF NewVtime
<1>5. \A p \in Servers : st.c[p] = 0 \/ \E i \in 1 .. Len(log) : log[i].name = p /\ log[i].ts = st.c[p]
  BY <1>1, <1>2, <1>4 DEF IsCover
<1>6. Len(log) \in 0 .. Len(log) /\ \A i \in 1 .. Len(log) : i <= Len(log)
  BY <1>2
<1> QED BY <1>1, <1>3, <1>5, <1>6 DEF Cut, IsCover, log

-----------------------------------------------------------------------------
(***************************************************************************)
(* What sound storages hold.                                               *)
(***************************************************************************)
LEMMA MasterServes == Master \in Servers
BY ClientAssumption, NumServersAssumption DEF Master, Servers

LEMMA Held ==
  ASSUME NEW n \in Nat, NEW st, Sound(st, n), NEW s \in Has(st)
  PROVE  /\ s \in Servers /\ st[s] \in Storages /\ StorageInv(st[s])
         /\ st[s].clog \in Seq(LogicalTime) /\ st[s].c \in Vectors /\ st[s].f \in Vectors
         /\ \A p \in Servers : st[s].c[p] \in Nat /\ st[s].f[p] \in Nat /\ st[s].c[p] <= st[s].f[p]
         /\ \A w \in Holds(st, s) : /\ w \in LogicalTime /\ w.name \in Servers
                                    /\ w.ts \in Nat /\ 0 < w.ts /\ w.ts <= n
                                    /\ w.ts <= st[s].f[w.name]
         /\ \A w \in ToSet(st[s].clog) : w.ts <= st[s].c[w.name]
<1>1. s \in Servers /\ StorageInv(st[s]) /\ Holds(st, s) \subseteq Stamps(n)
  BY DEF Sound, Has
<1>2. st[s] \in Storages
  BY <1>1 DEF StorageInv
<1>3. st[s].clog \in Seq(LogicalTime) /\ st[s].c \in Vectors /\ st[s].f \in Vectors
  BY <1>2 DEF Storages
<1>4. \A w \in Holds(st, s) : /\ w \in LogicalTime /\ w.name \in Servers
                              /\ w.ts \in Nat /\ 0 < w.ts /\ w.ts <= n
  BY <1>1 DEF Stamps, LogicalTime
<1>5. /\ \A w \in Holds(st, s) : w.ts <= st[s].f[w.name]
      /\ \A w \in ToSet(st[s].clog) : w.ts <= st[s].c[w.name]
      /\ \A p \in Servers : st[s].c[p] \in Nat /\ st[s].f[p] \in Nat /\ st[s].c[p] <= st[s].f[p]
  BY <1>1, CoveredByF DEF Holds
<1> QED BY <1>1, <1>2, <1>3, <1>4, <1>5

\* F holds no more than the times of the writes.
LEMMA FIsHeld ==
  ASSUME NEW n \in Nat, NEW st, Sound(st, n), NEW s \in Has(st), NEW p \in Servers,
         st[s].f[p] # 0
  PROVE  \E w \in Holds(st, s) : w.name = p /\ w.ts = st[s].f[p]
<1>1. StorageInv(st[s])
  BY Held
<1>2. NewVtime[p] = 0
  BY DEF NewVtime
<1>3. st[s].f[p] = st[s].c[p] \/ \E w \in st[s].tlog : w.name = p /\ w.ts = st[s].f[p]
  BY <1>1 DEF StorageInv, IsCover
<1>4. st[s].c[p] = 0 \/ \E w \in ToSet(st[s].clog) : w.name = p /\ w.ts = st[s].c[p]
  BY <1>1, <1>2 DEF StorageInv, IsCover
<1> QED BY <1>3, <1>4 DEF Holds

LEMMA LogHeld ==
  ASSUME NEW n \in Nat, NEW st, Sound(st, n)
  PROVE  /\ LogOf(st) \in Seq(LogicalTime) /\ \A i \in 1 .. Len(LogOf(st)) : 0 < LogOf(st)[i].ts
         /\ Master \in Has(st) => LogOf(st) = st[Master].clog
         /\ Master \notin Has(st) => LogOf(st) = <<>>
<1>1. Master \in Has(st) <=> st[Master] # None
  BY MasterServes DEF Has
<1>2. CASE Master \in Has(st)
  <2>1. LogOf(st) = st[Master].clog
    BY <1>1, <1>2 DEF LogOf
  <2>2. LogOf(st) \in Seq(LogicalTime)
    BY <2>1, <1>2, Held
  <2>3. \A i \in 1 .. Len(LogOf(st)) : LogOf(st)[i] \in Holds(st, Master)
    BY <2>1, <2>2, Entries DEF Holds
  <2> QED BY <2>1, <2>2, <2>3, <1>2, Held
<1>3. CASE Master \notin Has(st)
  BY <1>1, <1>3 DEF LogOf
<1> QED BY <1>2, <1>3

\* Nobody covers more of a server's writes than the server itself.
LEMMA HomeCovers ==
  ASSUME NEW n \in Nat, NEW st, Sound(st, n), Homes(st), NEW s \in Has(st), NEW u \in Has(st)
  PROVE  st[s].f[u] <= st[u].f[u]
<1>1. u \in Servers /\ st[u].f[u] \in Nat /\ st[s].f[u] \in Nat
  BY Held
<1>2. CASE st[s].f[u] = 0
  BY <1>1, <1>2
<1>3. CASE st[s].f[u] # 0
  <2>1. PICK w \in Holds(st, s) : w.name = u /\ w.ts = st[s].f[u]
    BY <1>1, <1>3, FIsHeld
  <2>2. w \in Holds(st, u)
    BY <2>1 DEF Homes, KnownAtHome
  <2> QED BY <2>1, <2>2, Held
<1> QED BY <1>2, <1>3

-----------------------------------------------------------------------------
(***************************************************************************)
(* What a step may do to the storages.                                     *)
(***************************************************************************)
Grows(st, to) ==
  /\ Has(st) \subseteq Has(to)
  /\ \A s \in Has(st) : /\ IsPrefix(st[s].clog, to[s].clog) /\ Holds(st, s) \subseteq Holds(to, s)
                        /\ \A p \in Servers : st[s].f[p] <= to[s].f[p]
  /\ IsPrefix(LogOf(st), LogOf(to))
  /\ \A v, n : Cut(LogOf(st), v, n) => Cut(LogOf(to), v, n)
  /\ \A u \in Has(to) : \A w \in Holds(to, u) :
       KnownAtHome(st, w) \/ \A s \in Has(st) : st[s].f[w.name] < w.ts

LEMMA PrefixTransitive ==
  ASSUME NEW S, NEW a \in Seq(S), NEW b \in Seq(S), NEW d \in Seq(S),
         IsPrefix(a, b), IsPrefix(b, d)
  PROVE  IsPrefix(a, d)
<1>1. Len(a) \in Nat /\ Len(b) \in Nat /\ Len(d) \in Nat
  BY SeqElements
<1>2. Len(a) <= Len(b) /\ Len(b) <= Len(d)
  BY PrefixEntries
<1>3. \A i \in 1 .. Len(a) : i \in 1 .. Len(b) /\ a[i] = b[i]
  BY <1>1, <1>2, PrefixEntries
<1>4. \A i \in 1 .. Len(b) : b[i] = d[i]
  BY PrefixEntries
<1>5. Len(a) <= Len(d) /\ \A i \in 1 .. Len(a) : a[i] = d[i]
  BY <1>1, <1>2, <1>3, <1>4
<1> QED BY <1>5, PrefixEntries

LEMMA PrefixConcat ==
  ASSUME NEW S, NEW a \in Seq(S), NEW b \in Seq(S)
  PROVE  IsPrefix(a, a \o b) /\ IsPrefix(a, a) /\ a \o <<>> = a /\ IsPrefix(<<>>, a)
<1>1. a \o b \in Seq(S) /\ Len(a) <= Len(a \o b) /\ \A i \in 1 .. Len(a) : a[i] = (a \o b)[i]
  BY ConcatElements, SeqElements
<1>2. Len(a) <= Len(a) /\ a \o <<>> = a
  BY SeqElements
<1>3. IsPrefix(a, a \o b) /\ IsPrefix(a, a)
  BY <1>1, <1>2, PrefixEntries
<1>4. <<>> \in Seq(S) /\ Len(<<>>) = 0
  OBVIOUS
<1>5. IsPrefix(<<>>, a)
  <2>1. 0 <= Len(a) /\ \A i \in 1 .. 0 : <<>>[i] = a[i]
    BY SeqElements
  <2> QED BY <1>4, <2>1, PrefixEntries
<1> QED BY <1>2, <1>3, <1>5

\* Sessions of which the step changed nothing go on.
LEMMA AskedKept ==
  ASSUME NEW n \in Nat, NEW st, NEW to, Sound(st, n), Sound(to, n), Grows(st, to),
         NEW s \in Servers, NEW req \in Requests, Asked(st, s, req),
         s # Master => to[s].c = st[s].c
  PROVE  Asked(to, s, req)
<1>1. s \in Has(st) /\ s \in Has(to)
  BY DEF Asked, Grows
<1>2. \E m \in Nat : Cut(LogOf(to), req.c, m)
  BY DEF Asked, Grows
<1>3. s # Master => req.c = to[s].c
  BY DEF Asked
<1>4. ASSUME NEW p \in Servers PROVE req.c[p] <= req.f[p] /\ req.f[p] <= to[s].f[p]
  <2>1. st[s].f[p] \in Nat /\ to[s].f[p] \in Nat /\ req.f[p] \in Nat
    BY <1>1, Held DEF Requests, Vectors
  <2>2. req.c[p] <= req.f[p] /\ req.f[p] <= st[s].f[p] /\ st[s].f[p] <= to[s].f[p]
    BY <1>1 DEF Asked, Grows
  <2> QED BY <2>1, <2>2
<1> QED BY <1>1, <1>2, <1>3, <1>4 DEF Asked

LEMMA PrefixSubset ==
  ASSUME NEW S, NEW a \in Seq(S), NEW b \in Seq(S), IsPrefix(a, b)
  PROVE  ToSet(a) \subseteq ToSet(b)
<1>1. Len(a) <= Len(b) /\ Len(a) \in Nat /\ Len(b) \in Nat /\ \A i \in 1 .. Len(a) : a[i] = b[i]
  BY PrefixEntries, SeqElements
<1>2. ToSet(a) = {a[i] : i \in 1 .. Len(a)} /\ ToSet(b) = {b[i] : i \in 1 .. Len(b)}
  BY SeqElements
<1>3. \A i \in 1 .. Len(a) : i \in 1 .. Len(b)
  BY <1>1
<1> QED BY <1>1, <1>2, <1>3

LEMMA AnsweredKept ==
  ASSUME NEW n \in Nat, NEW st, NEW to, Sound(st, n), Sound(to, n), Grows(st, to),
         NEW s \in Servers, NEW commits \in Seq(LogicalTime), NEW tentatives,
         tentatives \subseteq LogicalTime, Answered(st, s, commits, tentatives),
         s # Master => to[s].clog = st[s].clog
  PROVE  Answered(to, s, commits, tentatives)
<1> DEFINE W == ToSet(commits) \cup tentatives
<1>1. s \in Has(st) /\ s \in Has(to)
  BY DEF Answered, Grows
<1>2. \A x \in W : KnownAtHome(st, x)
  BY DEF Answered
<1>3. \A w : KnownAtHome(st, w) => KnownAtHome(to, w)
  BY DEF KnownAtHome, Grows
<1>4. Extends(to, s, commits)
  <2>1. LogOf(st) \in Seq(LogicalTime) /\ LogOf(to) \in Seq(LogicalTime)
    BY LogHeld
  <2>2. IsPrefix(LogOf(st), LogOf(to))
    BY DEF Grows
  <2>3. CASE s = Master
    BY <2>1, <2>2, <2>3, PrefixSubset DEF Extends, Answered
  <2>4. CASE s # Master
    <3>1. st[s].clog \in Seq(LogicalTime) /\ st[s].clog \o commits \in Seq(LogicalTime)
      BY <1>1, Held, ConcatElements
    <3>2. IsPrefix(st[s].clog \o commits, LogOf(to))
      BY <3>1, <2>1, <2>2, <2>4, PrefixTransitive DEF Extends, Answered
    <3>3. \E v \in Vectors : Cut(LogOf(to), v, Len(st[s].clog) + Len(commits))
      BY <2>4 DEF Extends, Answered, Grows
    <3> QED BY <2>4, <3>2, <3>3 DEF Extends
  <2> QED BY <2>3, <2>4
<1>5. ASSUME NEW x \in W, NEW u \in Has(to), NEW w \in Holds(to, u),
             w.name = x.name, to[s].f[w.name] < w.ts, w.ts <= x.ts
      PROVE  w \in W
  <2>1. x.name \in Has(st) /\ x \in Holds(st, x.name)
    BY <1>2 DEF KnownAtHome
  <2>2. /\ w.ts \in Nat /\ w.name \in Servers /\ x.ts \in Nat /\ x.ts <= st[x.name].f[x.name]
        /\ st[x.name].f[x.name] \in Nat /\ st[s].f[w.name] \in Nat /\ to[s].f[w.name] \in Nat
    BY <2>1, <1>1, <1>5, Held
  <2>3. CASE KnownAtHome(st, w)
    <3>1. w.name \in Has(st) /\ w \in Holds(st, w.name)
      BY <2>3 DEF KnownAtHome
    <3>2. st[s].f[w.name] <= to[s].f[w.name]
      BY <1>1, <2>2 DEF Grows
    <3>3. st[s].f[w.name] < w.ts
      BY <3>2, <2>2, <1>5
    <3> QED BY <3>1, <3>3, <1>5 DEF Answered, Fills
  <2>4. CASE \A v \in Has(st) : st[v].f[w.name] < w.ts
    BY <2>1, <2>2, <2>4, <1>5
  <2> QED BY <2>3, <2>4 DEF Grows
<1>6. Fills(to, s, W)
  BY <1>5 DEF Fills
<1> QED BY <1>1, <1>2, <1>3, <1>4, <1>6 DEF Answered

(***************************************************************************)
(* The first Storage of a server.                                          *)
(***************************************************************************)
LEMMA CreateSound ==
  ASSUME NEW n \in Nat, NEW st, Sound(st, n), NEW s \in Servers,
         NEW to, to = [st EXCEPT ![s] = EmptyStorage]
  PROVE  Sound(to, n)
<1>1. st \in [Servers -> Storages \cup {None}]
  BY DEF Sound
<1>2. StorageInv(EmptyStorage) /\ EmptyStorage \in Storages
  BY EmptyGood DEF StorageInv
<1>3. to \in [Servers -> Storages \cup {None}]
  BY <1>1, <1>2
<1>4. to[s] = EmptyStorage /\ \A p \in Servers : p # s => to[p] = st[p]
  BY <1>1
<1>5. EmptyStorage.clog = <<>> /\ EmptyStorage.tlog = {}
  BY DEF EmptyStorage
<1>6. ToSet(EmptyStorage.clog) \cup EmptyStorage.tlog = {}
  BY <1>5 DEF ToSet
<1>7. ASSUME NEW p \in Has(to) PROVE StorageInv(to[p]) /\ Holds(to, p) \subseteq Stamps(n)
  <2>1. CASE p = s
    BY <2>1, <1>2, <1>4, <1>6 DEF Holds
  <2>2. CASE p # s
    <3>1. to[p] = st[p] /\ p \in Has(st)
      BY <2>2, <1>4 DEF Has
    <3>2. StorageInv(st[p]) /\ Holds(st, p) \subseteq Stamps(n)
      BY <3>1 DEF Sound
    <3> QED BY <3>1, <3>2 DEF Holds
  <2> QED BY <2>1, <2>2
<1> QED BY <1>3, <1>7 DEF Sound

LEMMA CreateAgrees ==
  ASSUME NEW n \in Nat, NEW st, Sound(st, n), Agree(st), NEW s \in Servers, st[s] = None,
         NEW to, to = [st EXCEPT ![s] = EmptyStorage]
  PROVE  Agree(to) /\ Grows(st, to)
<1> DEFINE log == LogOf(st)
<1>1. Sound(to, n) /\ st \in [Servers -> Storages \cup {None}] /\ s \notin Has(st)
  BY CreateSound DEF Sound, Has
<1>2. to[s] = EmptyStorage /\ \A p \in Servers : p # s => to[p] = st[p]
  BY <1>1
<1>3. /\ to[s].clog = <<>> /\ to[s].tlog = {} /\ to[s].c = NewVtime /\ to[s].f = NewVtime
      /\ Holds(to, s) = {}
  BY <1>2 DEF EmptyStorage, Holds, ToSet
<1>4. EmptyStorage \in Storages /\ None \notin Storages
  BY EmptyGood, ClientAssumption DEF StorageInv
<1>5. Has(to) = Has(st) \cup {s}
  BY <1>2, <1>4 DEF Has
<1>6. \A p \in Has(st) : p # s /\ p \in Servers /\ to[p] = st[p] /\ Holds(to, p) = Holds(st, p)
  BY <1>1, <1>2 DEF Has, Holds
<1>7. LogOf(to) = log
  <2>1. CASE s = Master
    BY <2>1, <1>2, <1>3, <1>4 DEF LogOf
  <2>2. CASE s # Master
    BY <2>2, <1>2, MasterServes DEF LogOf
  <2> QED BY <2>1, <2>2
<1>8. log \in Seq(LogicalTime) /\ \A i \in 1 .. Len(log) : 0 < log[i].ts
  BY LogHeld
<1> HIDE DEF log
<1>9. PartOfLog(to)
  <2>1. ASSUME NEW p \in Has(st)
        PROVE  IsPrefix(to[p].clog, LogOf(to)) /\ Cut(LogOf(to), to[p].c, Len(to[p].clog))
    BY <1>6, <1>7 DEF log, Agree, PartOfLog
  <2>2. IsPrefix(to[s].clog, LogOf(to))
    BY <1>3, <1>7, <1>8, PrefixConcat
  <2>3. Cut(LogOf(to), to[s].c, Len(to[s].clog))
    <3>1. Cut(log, NewVtime, 0)
      BY <1>8, EmptyCut
    <3> QED BY <3>1, <1>3, <1>7
  <2> QED BY <2>1, <2>2, <2>3, <1>5 DEF PartOfLog
<1>10. MasterCommits(to)
  BY <1>3, <1>5, <1>6 DEF Agree, MasterCommits
<1>11. \A w : KnownAtHome(st, w) => KnownAtHome(to, w)
  BY <1>5, <1>6 DEF KnownAtHome
<1>12. \A p \in Has(to) : \A w \in Holds(to, p) : p \in Has(st) /\ w \in Holds(st, p) /\ KnownAtHome(st, w)
  BY <1>3, <1>5, <1>6 DEF Agree, Homes
<1>13. Homes(to)
  BY <1>11, <1>12 DEF Homes
<1>14. Gapless(to)
  <2> SUFFICES ASSUME NEW p \in Has(to), NEW u \in Has(to), NEW w \in Holds(to, u),
                      w.ts <= to[p].f[w.name]
               PROVE  w \in Holds(to, p)
    BY DEF Gapless
  <2>1. u \in Has(st) /\ w \in Holds(st, u)
    BY <1>12
  <2>2. CASE p \in Has(st)
    BY <2>1, <2>2, <1>6 DEF Agree, Gapless
  <2>3. CASE p = s
    <3>1. w.name \in Servers /\ w.ts \in Nat /\ 0 < w.ts
      BY <2>1, Held
    <3>2. to[p].f[w.name] = 0
      BY <2>3, <3>1, <1>3 DEF NewVtime
    <3> QED BY <3>1, <3>2
  <2> QED BY <2>2, <2>3, <1>5
<1>15. Grows(st, to)
  <2>1. ASSUME NEW p \in Has(st) PROVE IsPrefix(st[p].clog, to[p].clog)
    <3>1. st[p].clog \in Seq(LogicalTime)
      BY Held
    <3> QED BY <3>1, <1>6, PrefixConcat
  <2>2. ASSUME NEW p \in Has(st), NEW q \in Servers PROVE st[p].f[q] <= to[p].f[q]
    <3>1. st[p].f[q] \in Nat
      BY Held
    <3> QED BY <3>1, <1>6
  <2>3. IsPrefix(log, LogOf(to))
    BY <1>7, <1>8, PrefixConcat
  <2> QED BY <2>1, <2>2, <2>3, <1>5, <1>6, <1>7, <1>12 DEF Grows, log
<1> QED BY <1>9, <1>10, <1>13, <1>14, <1>15 DEF Agree

(***************************************************************************)
(* A Storage to which writes are applied.  Supplied: those that the code   *)
(* applies while the servers agree; received ones are known at home, those *)
(* of a client are new at their home s.                                    *)
(***************************************************************************)
Applied(st, s, commits, tentatives) == [st EXCEPT ![s] = Apply(@, commits, tentatives)]

Supplied(st, s, commits, tentatives) ==
  /\ s = Master => tentatives = {}
  /\ s # Master => Extends(st, s, commits)
  /\ \A x \in tentatives : x.name # Master
  /\ \A x \in ToSet(commits) \cup tentatives :
       KnownAtHome(st, x) \/ (x.name = s /\ (s # Master => commits = <<>>))
  /\ Fills(st, s, ToSet(commits) \cup tentatives)

LEMMA ApplySound ==
  ASSUME NEW n \in Nat, NEW st, Sound(st, n), NEW s \in Has(st),
         NEW commits \in Seq(LogicalTime), IsInjective(commits), ToSet(commits) \subseteq Stamps(n),
         NEW tentatives, tentatives \subseteq Stamps(n),
         NEW to, to = Applied(st, s, commits, tentatives)
  PROVE  /\ Sound(to, n) /\ Has(to) = Has(st) /\ \A p \in Servers : p # s => to[p] = st[p]
         /\ Holds(to, s) = Holds(st, s) \cup Fresh(st[s].c, ToSet(commits))
                                        \cup Fresh(st[s].f, tentatives)
         /\ Adds(to[s], st[s], commits, tentatives)
<1> DEFINE r == Apply(st[s], commits, tentatives)
           cs == Fresh(st[s].c, ToSet(commits))
           ts == Fresh(st[s].f, tentatives)
<1>1. st \in [Servers -> Storages \cup {None}] /\ s \in Servers /\ StorageInv(st[s])
  BY Held DEF Sound
<1>0. r = Apply(st[s], commits, tentatives)
  OBVIOUS
<1> HIDE DEF r
<1>2. StorageInv(r) /\ Adds(r, st[s], commits, tentatives)
  BY <1>0, <1>1, ApplyKeeps
<1>3. to = [st EXCEPT ![s] = r]
  BY <1>0 DEF Applied
<1>4. r \in Storages /\ None \notin Storages
  BY <1>2, ClientAssumption DEF StorageInv
<1>5. /\ to \in [Servers -> Storages \cup {None}] /\ to[s] = r
      /\ \A p \in Servers : p # s => to[p] = st[p]
  BY <1>1, <1>3, <1>4
<1>6. Has(to) = Has(st)
  BY <1>4, <1>5 DEF Has
<1>7. Holds(to, s) = Holds(st, s) \cup cs \cup ts
  BY <1>2, <1>5 DEF Holds, Adds
<1>8. cs \subseteq Stamps(n) /\ ts \subseteq Stamps(n)
  BY DEF Fresh
<1>9. ASSUME NEW p \in Has(to) PROVE StorageInv(to[p]) /\ Holds(to, p) \subseteq Stamps(n)
  <2>1. CASE p = s
    BY <2>1, <1>2, <1>5, <1>7, <1>8 DEF Sound
  <2>2. CASE p # s
    <3>1. to[p] = st[p] /\ p \in Has(st)
      BY <2>2, <1>5, <1>6 DEF Has
    <3>2. StorageInv(st[p]) /\ Holds(st, p) \subseteq Stamps(n)
      BY <3>1 DEF Sound
    <3> QED BY <3>1, <3>2 DEF Holds
  <2> QED BY <2>1, <2>2
<1>10. Sound(to, n)
  BY <1>5, <1>9 DEF Sound
<1> QED BY <1>2, <1>5, <1>6, <1>7, <1>10

\* The log of the master grows by what its C does not cover, the others' along it.
LEMMA ApplyLogs ==
  ASSUME NEW n \in Nat, NEW st, Sound(st, n), Agree(st), NEW s \in Has(st),
         NEW commits \in Seq(LogicalTime), IsInjective(commits), ToSet(commits) \subseteq Stamps(n),
         NEW tentatives, tentatives \subseteq Stamps(n), Supplied(st, s, commits, tentatives),
         NEW to, to = Applied(st, s, commits, tentatives)
  PROVE  /\ PartOfLog(to) /\ IsPrefix(LogOf(st), LogOf(to))
         /\ \A v, m : Cut(LogOf(st), v, m) => Cut(LogOf(to), v, m)
         /\ IsPrefix(st[s].clog, to[s].clog)
<1> DEFINE log == LogOf(st)
           u == Uncovered(st[s].c, commits)
           cs == Fresh(st[s].c, ToSet(commits))
<1>0. cs = Fresh(st[s].c, ToSet(commits))
  OBVIOUS
<1> HIDE DEF cs
<1>1. /\ Sound(to, n) /\ Has(to) = Has(st) /\ \A p \in Servers : p # s => to[p] = st[p]
      /\ to[s].clog = st[s].clog \o u
  <2>1. /\ Sound(to, n) /\ Has(to) = Has(st) /\ \A p \in Servers : p # s => to[p] = st[p]
        /\ Adds(to[s], st[s], commits, tentatives)
    BY ApplySound
  <2> QED BY <2>1 DEF Adds
<1>2. /\ s \in Servers /\ st[s].clog \in Seq(LogicalTime) /\ st[s].c \in Vectors
      /\ s \in Has(to) /\ StorageInv(to[s]) /\ to[s].clog \in Seq(LogicalTime)
  BY <1>1, Held
<1>3. u \in Seq(LogicalTime) /\ ToSet(u) = cs
  BY <1>0, UncoveredLists DEF Fresh
<1>4. IsPrefix(st[s].clog, to[s].clog)
  BY <1>1, <1>2, <1>3, PrefixConcat
<1>5. log \in Seq(LogicalTime) /\ \A i \in 1 .. Len(log) : 0 < log[i].ts
  BY LogHeld
<1>6. \A p \in Has(st) : IsPrefix(st[p].clog, log) /\ Cut(log, st[p].c, Len(st[p].clog))
  BY DEF Agree, PartOfLog
<1> HIDE DEF log, u
<1>7. CASE s = Master
  <2>1. log = st[s].clog /\ LogOf(to) = to[s].clog
    BY <1>1, <1>2, <1>7, LogHeld DEF log
  <2>2. \A i \in 1 .. Len(log) : log[i].ts <= st[s].c[log[i].name]
    <3>1. \A w \in ToSet(st[s].clog) : w.ts <= st[s].c[w.name]
      BY Held
    <3>2. \A i \in 1 .. Len(log) : log[i] \in ToSet(log)
      BY <1>5, Entries
    <3> QED BY <3>1, <3>2, <2>1
  <2>3. \A w \in ToSet(u) : ~(w.ts <= st[s].c[w.name])
    BY <1>0, <1>3 DEF Fresh, IsNew, IsLtimeEarlier
  <2>4. ASSUME NEW v, NEW m, Cut(log, v, m) PROVE Cut(LogOf(to), v, m)
    <3>1. Cut(log \o u, v, m)
      BY <2>2, <2>3, <2>4, <1>2, <1>3, <1>5, CutGrows
    <3> QED BY <3>1, <2>1, <1>1
  <2>5. ASSUME NEW p \in Has(to), p # s
        PROVE  IsPrefix(to[p].clog, LogOf(to)) /\ Cut(LogOf(to), to[p].c, Len(to[p].clog))
    <3>1. p \in Has(st) /\ to[p] = st[p] /\ st[p].clog \in Seq(LogicalTime)
      BY <2>5, <1>1, Held
    <3> QED BY <3>1, <2>1, <2>4, <1>2, <1>4, <1>5, <1>6, PrefixTransitive
  <2>6. IsPrefix(to[s].clog, LogOf(to)) /\ Cut(LogOf(to), to[s].c, Len(to[s].clog))
    BY <2>1, <1>2, PrefixConcat, WholeCut
  <2>7. PartOfLog(to)
    BY <2>5, <2>6 DEF PartOfLog
  <2> QED BY <2>1, <2>4, <2>7, <1>4 DEF log
<1>8. CASE s # Master
  <2>1. LogOf(to) = log
    BY <1>1, <1>8, MasterServes DEF LogOf, log
  <2> DEFINE len == Len(st[s].clog)
  <2>2. PICK v \in Vectors : Cut(log, v, len + Len(commits))
    BY <1>8 DEF Supplied, Extends, log
  <2>3. IsPrefix(st[s].clog \o commits, log)
    BY <1>8 DEF Supplied, Extends, log
  <2>4. /\ st[s].clog \o commits \in Seq(LogicalTime)
        /\ Len(st[s].clog \o commits) = len + Len(commits)
        /\ len \in Nat /\ Len(commits) \in Nat /\ Len(log) \in Nat
        /\ \A i \in 1 .. Len(commits) : (st[s].clog \o commits)[len + i] = commits[i]
    BY <1>2, <1>5, ConcatElements, Entries
  <2>5. /\ len + Len(commits) <= Len(log)
        /\ \A i \in 1 .. len + Len(commits) : (st[s].clog \o commits)[i] = log[i]
    <3> DEFINE q == st[s].clog \o commits
    <3>1. q \in Seq(LogicalTime) /\ Len(q) = len + Len(commits) /\ IsPrefix(q, log)
      BY <2>3, <2>4
    <3> HIDE DEF q, len
    <3>2. Len(q) <= Len(log) /\ \A i \in 1 .. Len(q) : q[i] = log[i]
      BY <3>1, <1>5, PrefixEntries
    <3> QED BY <3>1, <3>2 DEF q
  <2>6. ASSUME NEW i \in 1 .. Len(commits) PROVE IsNew(st[s].c, commits[i])
    <3>1. len + i \in 1 .. len + Len(commits) /\ len + i \in 1 .. Len(log) /\ ~(len + i <= len)
      BY <2>4, <2>5
    <3>2. commits[i] = log[len + i]
      BY <3>1, <2>4, <2>5
    <3>3. ~(log[len + i].ts <= st[s].c[log[len + i].name])
      BY <3>1, <1>6 DEF Cut
    <3> QED BY <3>2, <3>3 DEF IsNew, IsLtimeEarlier
  <2>7. u = commits
    <3>1. \A i \in 1 .. Len(commits) : IsNew(st[s].c, commits[i]) <=> i > 0
      BY <2>4, <2>6
    <3>2. 0 \in 0 .. Len(commits)
      BY <2>4
    <3>3. Len(u) = Len(commits) - 0 /\ \A j \in 1 .. Len(commits) - 0 : u[j] = commits[0 + j]
      BY <3>1, <3>2, UncoveredSuffix DEF u
    <3>4. Len(u) = Len(commits) /\ \A j \in 1 .. Len(commits) : u[j] = commits[j]
      BY <3>3, <2>4
    <3> QED BY <3>4, <1>3
  <2>8. IsPrefix(to[s].clog, log) /\ Len(to[s].clog) = len + Len(commits)
    BY <2>3, <2>4, <2>7, <1>1
  <2>9. ToSet(to[s].clog) = {log[i] : i \in 1 .. len + Len(commits)}
    <3> DEFINE q == st[s].clog \o commits
    <3>1. /\ q \in Seq(LogicalTime) /\ Len(q) = len + Len(commits) /\ q = to[s].clog
          /\ \A i \in 1 .. len + Len(commits) : q[i] = log[i]
      BY <2>4, <2>5, <2>7, <1>1
    <3> HIDE DEF q, len
    <3>2. ToSet(q) = {q[i] : i \in 1 .. Len(q)}
      BY <3>1, Entries
    <3> QED BY <3>1, <3>2
  <2>10. Cut(log, to[s].c, len + Len(commits))
    <3>1. IsCover(to[s].c, NewVtime, ToSet(to[s].clog))
      BY <1>2 DEF StorageInv
    <3> QED BY <3>1, <2>2, <2>9, <1>5, CutMade
  <2>11. ASSUME NEW p \in Has(to), p # s
         PROVE  IsPrefix(to[p].clog, log) /\ Cut(log, to[p].c, Len(to[p].clog))
    <3>1. p \in Has(st) /\ to[p] = st[p]
      BY <2>11, <1>1, Held
    <3> QED BY <3>1, <1>6
  <2>12. PartOfLog(to)
    BY <2>1, <2>8, <2>10, <2>11 DEF PartOfLog
  <2> QED BY <2>1, <2>12, <1>4, <1>5, PrefixConcat DEF log
<1> QED BY <1>7, <1>8

\* What is new at s is known at home, or was written there and nobody has it.
LEMMA ApplyNews ==
  ASSUME NEW n \in Nat, NEW st, Sound(st, n), Agree(st), NEW s \in Has(st),
         NEW commits \in Seq(LogicalTime), IsInjective(commits), ToSet(commits) \subseteq Stamps(n),
         NEW tentatives, tentatives \subseteq Stamps(n), Supplied(st, s, commits, tentatives),
         NEW w \in Fresh(st[s].c, ToSet(commits)) \cup Fresh(st[s].f, tentatives)
  PROVE  \/ KnownAtHome(st, w)
         \/ w.name = s /\ \A v \in Has(st) : st[v].f[w.name] < w.ts
<1>1. w \in ToSet(commits) \cup tentatives
  BY DEF Fresh
<1>2. w.ts \in Nat /\ w.name \in Servers
  BY <1>1 DEF Stamps, LogicalTime
<1>3. CASE KnownAtHome(st, w)
  BY <1>3
<1>4. CASE w.name = s /\ (s # Master => commits = <<>>)
  <2>1. st[s].f[s] < w.ts
    <3>1. st[s].f[s] \in Nat /\ st[s].c[s] \in Nat /\ StorageInv(st[s])
      BY <1>2, <1>4, Held
    <3>2. CASE w \in Fresh(st[s].f, tentatives)
      <4>1. ~(w.ts <= st[s].f[s])
        BY <3>2, <1>4 DEF Fresh, IsNew, IsLtimeEarlier
      <4> QED BY <4>1, <3>1, <1>2
    <3>3. CASE w \in Fresh(st[s].c, ToSet(commits)) /\ s = Master
      <4>1. st[s].tlog = {}
        BY <3>3 DEF Agree, MasterCommits
      <4>2. st[s].f[s] = st[s].c[s]
        BY <4>1, <3>1, <1>2, <1>4 DEF StorageInv, IsCover
      <4>3. ~(w.ts <= st[s].c[s])
        BY <3>3, <1>4 DEF Fresh, IsNew, IsLtimeEarlier
      <4> QED BY <4>2, <4>3, <3>1, <1>2
    <3>4. ToSet(<<>>) = {}
      BY DEF ToSet
    <3> QED BY <3>2, <3>3, <3>4, <1>4 DEF Fresh
  <2>2. ASSUME NEW v \in Has(st) PROVE st[v].f[s] < w.ts
    <3>1. st[v].f[s] <= st[s].f[s]
      BY HomeCovers DEF Agree
    <3>2. st[v].f[s] \in Nat /\ st[s].f[s] \in Nat
      BY <1>2, <1>4, Held
    <3> QED BY <3>1, <3>2, <2>1, <1>2
  <2> QED BY <2>2, <1>4
<1> QED BY <1>1, <1>3, <1>4 DEF Supplied

LEMMA ApplyAgrees ==
  ASSUME NEW n \in Nat, NEW st, Sound(st, n), Agree(st), NEW s \in Has(st),
         NEW commits \in Seq(LogicalTime), IsInjective(commits), ToSet(commits) \subseteq Stamps(n),
         NEW tentatives, tentatives \subseteq Stamps(n), Supplied(st, s, commits, tentatives),
         NEW to, to = Applied(st, s, commits, tentatives)
  PROVE  Agree(to) /\ Grows(st, to)
<1> DEFINE cs == Fresh(st[s].c, ToSet(commits))
           ts == Fresh(st[s].f, tentatives)
           W == ToSet(commits) \cup tentatives
<1>1. /\ Sound(to, n) /\ Has(to) = Has(st) /\ \A p \in Servers : p # s => to[p] = st[p]
      /\ Holds(to, s) = Holds(st, s) \cup cs \cup ts
      /\ Adds(to[s], st[s], commits, tentatives)
  BY ApplySound
<1>2. /\ to[s].tlog = (st[s].tlog \cup ts) \ cs /\ IsCover(to[s].f, st[s].f, cs \cup ts)
  BY <1>1 DEF Adds
<1>3. /\ PartOfLog(to) /\ IsPrefix(LogOf(st), LogOf(to))
      /\ \A v, m : Cut(LogOf(st), v, m) => Cut(LogOf(to), v, m)
      /\ IsPrefix(st[s].clog, to[s].clog)
  BY ApplyLogs
<1>4. \A w \in cs \cup ts :
        \/ KnownAtHome(st, w)
        \/ w.name = s /\ \A v \in Has(st) : st[v].f[w.name] < w.ts
  BY ApplyNews
<1>5. \A w \in cs \cup ts : w \in W /\ w.ts \in Nat /\ w.name \in Servers
  BY DEF Fresh, Stamps, LogicalTime
<1>6. ts \subseteq tentatives
  BY DEF Fresh
<1>7. \A w \in W : w \in LogicalTime /\ w.ts \in Nat /\ w.name \in Servers
  BY DEF Stamps, LogicalTime
<1>8. ASSUME NEW w \in W, ~(w.ts <= st[s].f[w.name]) PROVE w \in cs \cup ts
  <2>1. st[s].c[w.name] \in Nat /\ st[s].f[w.name] \in Nat /\ st[s].c[w.name] <= st[s].f[w.name]
    BY <1>7, Held
  <2>2. ~(w.ts <= st[s].c[w.name])
    BY <2>1, <1>7, <1>8
  <2> QED BY <2>2, <1>8 DEF Fresh, IsNew, IsLtimeEarlier
<1> HIDE DEF cs, ts, W
<1>9. \A p \in Has(st) : p # s => to[p] = st[p] /\ Holds(to, p) = Holds(st, p)
  BY <1>1 DEF Has, Holds
<1>10. \A p \in Has(st) : Holds(st, p) \subseteq Holds(to, p)
  BY <1>1, <1>9
<1>11. \A w : KnownAtHome(st, w) => KnownAtHome(to, w)
  BY <1>1, <1>10 DEF KnownAtHome
<1>12. \A p \in Has(to) : \A w \in Holds(to, p) :
         w \in Holds(st, p) \/ (p = s /\ w \in cs \cup ts)
  BY <1>1, <1>9
<1>13. MasterCommits(to)
  <2>1. s = Master => to[s].tlog = {}
    BY <1>2, <1>6 DEF Agree, MasterCommits, Supplied
  <2>2. \A w \in to[s].tlog : w.name # Master
    BY <1>2, <1>6 DEF Agree, MasterCommits, Supplied
  <2> QED BY <2>1, <2>2, <1>1, <1>9 DEF Agree, MasterCommits
<1>14. Homes(to)
  <2> SUFFICES ASSUME NEW p \in Has(to), NEW w \in Holds(to, p) PROVE KnownAtHome(to, w)
    BY DEF Homes
  <2>1. CASE w \in Holds(st, p)
    BY <2>1, <1>1, <1>11 DEF Agree, Homes
  <2>2. CASE p = s /\ w \in cs \cup ts
    BY <2>2, <1>1, <1>4, <1>11 DEF KnownAtHome
  <2> QED BY <2>1, <2>2, <1>12
<1>15. ASSUME NEW p \in Servers PROVE st[s].f[p] <= to[s].f[p]
  BY <1>2, <1>15 DEF IsCover
<1>16. ASSUME NEW u \in Has(to), NEW w \in Holds(to, u)
       PROVE  KnownAtHome(st, w) \/ (w \in Holds(to, s) /\ \A v \in Has(st) : st[v].f[w.name] < w.ts)
  <2>1. CASE w \in Holds(st, u)
    BY <2>1, <1>1 DEF Agree, Homes
  <2>2. CASE u = s /\ w \in cs \cup ts
    BY <2>2, <1>4
  <2> QED BY <2>1, <2>2, <1>12
<1>17. Gapless(to)
  <2> SUFFICES ASSUME NEW p \in Has(to), NEW u \in Has(to), NEW w \in Holds(to, u),
                      w.ts <= to[p].f[w.name]
               PROVE  w \in Holds(to, p)
    BY DEF Gapless
  <2>1. p \in Has(st) /\ w.ts \in Nat /\ w.name \in Servers
    BY <1>1, Held
  <2>2. st[p].f[w.name] \in Nat /\ to[p].f[w.name] \in Nat
    BY <2>1, <1>1, Held
  <2>3. CASE ~KnownAtHome(st, w)
    <3>1. w \in Holds(to, s) /\ st[p].f[w.name] < w.ts
      BY <2>1, <2>3, <1>16
    <3>2. p = s
      BY <2>1, <2>2, <3>1, <1>9
    <3> QED BY <3>1, <3>2
  <2>4. CASE KnownAtHome(st, w)
    <3>1. w.name \in Has(st) /\ w \in Holds(st, w.name)
      BY <2>4 DEF KnownAtHome
    <3>2. CASE w.ts <= st[p].f[w.name]
      BY <3>1, <3>2, <2>1, <1>10 DEF Agree, Gapless
    <3>3. CASE ~(w.ts <= st[p].f[w.name])
      <4>1. p = s /\ to[s].f[w.name] # st[s].f[w.name]
        BY <3>3, <2>1, <1>9
      <4>2. PICK x \in cs \cup ts : x.name = w.name /\ x.ts = to[s].f[w.name]
        BY <4>1, <2>1, <1>2 DEF IsCover
      <4>3. x \in W /\ st[s].f[w.name] < w.ts /\ w.ts <= x.ts
        BY <4>1, <4>2, <3>3, <2>1, <2>2, <1>5
      <4>4. w \in W
        BY <4>2, <4>3, <3>1 DEF Supplied, Fills, W
      <4>5. w \in cs \cup ts
        BY <4>1, <4>4, <3>3, <1>8
      <4> QED BY <4>1, <4>5, <1>1
    <3> QED BY <3>2, <3>3
  <2> QED BY <2>3, <2>4
<1>18. Agree(to)
  BY <1>3, <1>13, <1>14, <1>17 DEF Agree
<1>19. Grows(st, to)
  <2>1. ASSUME NEW p \in Has(st)
        PROVE  IsPrefix(st[p].clog, to[p].clog) /\ \A q \in Servers : st[p].f[q] <= to[p].f[q]
    <3>1. CASE p = s
      BY <3>1, <1>3, <1>15
    <3>2. CASE p # s
      <4>1. to[p] = st[p] /\ st[p].clog \in Seq(LogicalTime) /\ \A q \in Servers : st[p].f[q] \in Nat
        BY <3>2, <1>9, Held
      <4>2. IsPrefix(st[p].clog, to[p].clog)
        BY <4>1, PrefixConcat
      <4> QED BY <4>1, <4>2
    <3> QED BY <3>1, <3>2
  <2> QED BY <2>1, <1>1, <1>3, <1>10, <1>16 DEF Grows
<1> QED BY <1>18, <1>19

-----------------------------------------------------------------------------
(***************************************************************************)
(* Messages, and what the actions apply.                                   *)
(***************************************************************************)

\* The loop over the peers ends up at another server.
LEMMA AfterIsPeer ==
  ASSUME NEW s \in Servers, NEW p \in Servers \cup {0}
  PROVE  After(s, p) \in Servers /\ After(s, p) # s
<1> DEFINE N == NumServers
           q == (p % N) + 1
<1>1. N \in Nat /\ N > 1 /\ s \in 1 .. N /\ p \in Nat /\ Servers = 1 .. N
  BY NumServersAssumption, ClientAssumption DEF Servers
<1>2. \A a \in Nat : a % N \in 0 .. N - 1
  BY <1>1
<1>3. \A a \in 0 .. N - 1 : a % N = a
  BY <1>1
<1>4. N % N = 0
  BY <1>1
<1>5. q \in 1 .. N /\ (q % N) + 1 \in 1 .. N
  <2>1. \A a \in 0 .. N - 1 : a + 1 \in 1 .. N
    BY <1>1
  <2>2. q \in 1 .. N
    BY <1>1, <1>2, <2>1
  <2> HIDE DEF q
  <2>3. q \in Nat
    BY <2>2, <1>1
  <2> QED BY <1>2, <2>1, <2>2, <2>3
<1>6. (q % N) + 1 # q
  BY <1>1, <1>3, <1>4, <1>5
<1> QED BY <1>1, <1>5, <1>6 DEF After

LEMMA ThreadsAre ==
  /\ \A t \in AE : t[2] \in Servers /\ t = ae(t[2])
  /\ \A s \in Servers : ae(s) \in AE /\ ae(s)[2] = s /\ ae(s) \in Threads /\ ae(s) \notin Clients
  /\ \A k \in Clients : k \in Threads /\ k \notin AE /\ ServerOf[k] \in Servers
  /\ \A t \in Threads : t \in Clients \/ t \in AE
BY ClientAssumption DEF AE, ae, Threads

\* What an anti-entropy step writes at its own thread and server, and nowhere else.
LEMMA AEStepWrites ==
  ASSUME NEW s \in Servers, AEStep(ae(s))
  PROVE  /\ \E x : pc' = [pc EXCEPT ![ae(s)] = x]
         /\ at' = at \/ \E x : at' = [at EXCEPT ![ae(s)] = x]
         /\ vectors' = vectors \/ \E x : vectors' = [vectors EXCEPT ![s] = x]
         /\ answer' = answer \/ \E x : answer' = [answer EXCEPT ![s] = x]
<1>1. ae(s)[2] = s
  BY ThreadsAre
<1>0. CASE ReadC(ae(s))
  BY <1>0, <1>1 DEF ReadC
<1>2. CASE Send(ae(s))
  BY <1>1, <1>2 DEF Send
<1>3. CASE SendFails(ae(s))
  BY <1>1, <1>3 DEF SendFails
<1>4. CASE PeerAnswers(ae(s))
  BY <1>1, <1>4 DEF PeerAnswers
<1>5. CASE PeerRefuses(ae(s))
  BY <1>5 DEF PeerRefuses
<1>6. CASE ApplyAnswer(ae(s))
  BY <1>1, <1>6 DEF ApplyAnswer
<1> QED BY <1>0, <1>2, <1>3, <1>4, <1>5, <1>6 DEF AEStep

LEMMA DictsAre ==
  /\ \A w \in LogicalTime : ToDict(w) \in Dicts /\ Undict(ToDict(w)) = w
  /\ \A m \in Dicts : Undict(m) \in LogicalTime
  /\ \A m \in Dicts : \A s, t : Deserialize(m, s, t) = Undict(m)
  /\ \A s, t : Deserialize([char |-> "a"], s, t) = [ts |-> t, name |-> s]
<1>1. ASSUME NEW w \in LogicalTime PROVE ToDict(w) \in Dicts /\ Undict(ToDict(w)) = w
  <2>1. w.name \in Servers /\ w.ts \in Nat /\ w = [ts |-> w.ts, name |-> w.name]
    BY DEF LogicalTime
  <2> QED BY <2>1 DEF ToDict, Serialize, Dicts, Undict
<1>2. ASSUME NEW m \in Dicts PROVE Undict(m) \in LogicalTime
  <2>1. m.ltime[1] \in Servers /\ m.ltime[2] \in Nat
    BY DEF Dicts
  <2> QED BY <2>1 DEF Undict, LogicalTime
<1>3. ASSUME NEW m \in Dicts, NEW s, NEW t PROVE Deserialize(m, s, t) = Undict(m)
  <2>1. "ltime" \in DOMAIN m
    BY DEF Dicts
  <2> QED BY <2>1 DEF Deserialize, AppLogEntry, LogEntry, Undict
<1>4. ASSUME NEW s, NEW t PROVE Deserialize([char |-> "a"], s, t) = [ts |-> t, name |-> s]
  <2>1. "ltime" \notin DOMAIN [char |-> "a"]
    OBVIOUS
  <2> QED BY <2>1 DEF Deserialize, AppLogEntry, LogEntry
<1> QED BY <1>1, <1>2, <1>3, <1>4

\* An answer says what its writes are, whenever it is read.
LEMMA AnswersAre ==
  ASSUME NEW ans \in Answers
  PROVE  Commits(ans) \in Seq(LogicalTime) /\ Tentatives(ans) \subseteq LogicalTime
<1>1. ans.committed \in Seq(Dicts) /\ ans.tentative \subseteq Dicts
  BY DEF Answers
<1>2. \A i \in 1 .. Len(ans.committed) : ans.committed[i] \in Dicts
  BY <1>1
<1>3. DOMAIN ans.committed = 1 .. Len(ans.committed) /\ Len(ans.committed) \in Nat
  BY <1>1
<1>4. \A i \in 1 .. Len(ans.committed) : Undict(ans.committed[i]) \in LogicalTime
  BY <1>2, DictsAre
<1>5. Commits(ans) \in Seq(LogicalTime)
  BY <1>3, <1>4 DEF Commits
<1> QED BY <1>1, <1>5, DictsAre DEF Tentatives

LEMMA ReceivedIs ==
  ASSUME answer \in [Servers -> Answers], NEW s \in Servers
  PROVE  /\ Received(s).committed = Commits(answer[s])
         /\ Received(s).tentative = Tentatives(answer[s])
<1>1. answer[s].committed \in Seq(Dicts) /\ answer[s].tentative \subseteq Dicts
  BY DEF Answers
<1>2. \A i \in DOMAIN answer[s].committed : answer[s].committed[i] \in Dicts
  BY <1>1
<1>3. \A i \in DOMAIN answer[s].committed :
        Deserialize(answer[s].committed[i], s, now) = Undict(answer[s].committed[i])
  BY <1>2, DictsAre
<1>4. \A m \in answer[s].tentative : Deserialize(m, s, now) = Undict(m)
  BY <1>1, DictsAre
<1> QED BY <1>3, <1>4 DEF Received, Commits, Tentatives

LEMMA RoundTrip ==
  ASSUME NEW log \in Seq(LogicalTime), NEW W, W \subseteq LogicalTime,
         NEW ans, ans = [committed |-> [i \in DOMAIN log |-> ToDict(log[i])],
                         tentative |-> {ToDict(w) : w \in W}]
  PROVE  ans \in Answers /\ Commits(ans) = log /\ Tentatives(ans) = W
<1>1. DOMAIN log = 1 .. Len(log) /\ Len(log) \in Nat /\ \A i \in 1 .. Len(log) : log[i] \in LogicalTime
  OBVIOUS
<1>2. \A i \in 1 .. Len(log) : ToDict(log[i]) \in Dicts /\ Undict(ToDict(log[i])) = log[i]
  BY <1>1, DictsAre
<1>3. \A w \in W : ToDict(w) \in Dicts /\ Undict(ToDict(w)) = w
  BY DictsAre
<1>4. /\ ans.committed = [i \in 1 .. Len(log) |-> ToDict(log[i])]
      /\ ans.tentative = {ToDict(w) : w \in W}
  BY <1>1
<1>5. ans.committed \in Seq(Dicts) /\ DOMAIN ans.committed = 1 .. Len(log)
  BY <1>1, <1>2, <1>4
<1>6. ans.tentative \in SUBSET Dicts
  BY <1>3, <1>4
<1>7. ans \in Answers
  BY <1>5, <1>6 DEF Answers
<1>8. Commits(ans) = [i \in 1 .. Len(log) |-> Undict(ToDict(log[i]))]
  BY <1>4, <1>5 DEF Commits
<1>9. Commits(ans) = log
  <2>1. Commits(ans) = [i \in 1 .. Len(log) |-> log[i]]
    BY <1>2, <1>8
  <2> QED BY <2>1, <1>1
<1>10. Tentatives(ans) = W
  BY <1>3, <1>4 DEF Tentatives
<1> QED BY <1>7, <1>9, <1>10

LEMMA NoAnswerIs ==
  /\ NoAnswer \in Answers
  /\ ToSet(Commits(NoAnswer)) \cup Tentatives(NoAnswer) = {} /\ IsInjective(Commits(NoAnswer))
<1>1. NoAnswer \in Answers /\ DOMAIN NoAnswer.committed = {} /\ NoAnswer.tentative = {}
  BY DEF NoAnswer, Answers
<1>2. DOMAIN Commits(NoAnswer) = {} /\ Tentatives(NoAnswer) = {}
  BY <1>1 DEF Commits, Tentatives
<1> QED BY <1>1, <1>2 DEF ToSet, IsInjective

LEMMA RequestsAre ==
  /\ \A c, f \in Vectors : ToMsg(c, f) \in Requests /\ ToMsg(c, f).c = c /\ ToMsg(c, f).f = f
  /\ \A req \in Requests : FromMsg(req).c = req.c /\ FromMsg(req).f = req.f
  /\ \A req \in Requests : req.c \in Vectors /\ req.f \in Vectors
BY DEF ToMsg, FromMsg, Requests

\* What a client's write is to the storage of its server.
WriteCommits(k)    == IF ServerOf[k] = Master THEN <<write[k]>> ELSE <<>>
WriteTentatives(k) == IF ServerOf[k] = Master THEN {} ELSE {write[k]}

LEMMA WriteApplies ==
  ASSUME SoundInv, NEW k \in Clients, write[k] # NoReq
  PROVE  /\ WriteCommits(k) \in Seq(LogicalTime) /\ IsInjective(WriteCommits(k))
         /\ ToSet(WriteCommits(k)) \cup WriteTentatives(k) = {write[k]}
         /\ ToSet(WriteCommits(k)) \subseteq Stamps(now) /\ WriteTentatives(k) \subseteq Stamps(now)
         /\ write[k] \in Stamps(now) /\ write[k].name = ServerOf[k]
         /\ Write(k) => storage' = Applied(storage, ServerOf[k], WriteCommits(k), WriteTentatives(k))
<1>1. write[k] \in Stamps(now) /\ write[k] \in LogicalTime /\ write[k].name = ServerOf[k]
  BY DEF SoundInv, WriteInv, Stamps
<1>2. /\ <<write[k]>> \in Seq(LogicalTime) /\ ToSet(<<write[k]>>) = {write[k]}
      /\ IsInjective(<<write[k]>>)
  BY <1>1 DEF ToSet, IsInjective
<1>3. <<>> \in Seq(LogicalTime) /\ ToSet(<<>>) = {} /\ IsInjective(<<>>)
  BY DEF ToSet, IsInjective
<1>4. Write(k) => storage' = Applied(storage, ServerOf[k], WriteCommits(k), WriteTentatives(k))
  <2>1. CASE ServerOf[k] = Master
    BY <2>1 DEF Write, Commit, Applied, WriteCommits, WriteTentatives
  <2>2. CASE ServerOf[k] # Master
    BY <2>2 DEF Write, Tentative, Applied, WriteCommits, WriteTentatives
  <2> QED BY <2>1, <2>2
<1> QED BY <1>1, <1>2, <1>3, <1>4 DEF WriteCommits, WriteTentatives

\* What an answer is to the storage of the server that asked.
AnsCommits(s)    == IF s = Master THEN Commits(answer[s]) \o InOrder(Tentatives(answer[s]))
                     ELSE Commits(answer[s])
AnsTentatives(s) == IF s = Master THEN {} ELSE Tentatives(answer[s])

LEMMA AnswerApplies ==
  ASSUME SoundInv, NEW s \in Servers
  PROVE  /\ AnsCommits(s) \in Seq(LogicalTime) /\ IsInjective(AnsCommits(s))
         /\ ToSet(AnsCommits(s)) \cup AnsTentatives(s)
              = ToSet(Commits(answer[s])) \cup Tentatives(answer[s])
         /\ ToSet(AnsCommits(s)) \subseteq Stamps(now) /\ AnsTentatives(s) \subseteq Stamps(now)
         /\ ApplyAnswer(ae(s)) => storage' = Applied(storage, s, AnsCommits(s), AnsTentatives(s))
<1> DEFINE C == Commits(answer[s])
           T == Tentatives(answer[s])
<1>1. /\ answer \in [Servers -> Answers] /\ answer[s] \in Answers /\ now \in Nat
      /\ ToSet(C) \cup T \subseteq Stamps(now) /\ IsInjective(C) /\ ToSet(C) \cap T = {}
  BY DEF SoundInv, AnswerInv, RestInv
<1>2. C \in Seq(LogicalTime) /\ T \subseteq LogicalTime
  BY <1>1, AnswersAre
<1>3. Received(s).committed = C /\ Received(s).tentative = T
  BY <1>1, ReceivedIs
<1> HIDE DEF C, T
<1>4. IsFiniteSet(T)
  BY <1>1, StampsFinite
<1>5. InOrder(T) \in Seq(T) /\ ToSet(InOrder(T)) = T /\ IsInjective(InOrder(T))
  BY <1>2, <1>4, InOrderLists
<1>6. InOrder(T) \in Seq(LogicalTime)
  BY <1>2, <1>5
<1>7. /\ C \o InOrder(T) \in Seq(LogicalTime) /\ IsInjective(C \o InOrder(T))
      /\ ToSet(C \o InOrder(T)) = ToSet(C) \cup T
  BY <1>1, <1>2, <1>5, <1>6, ConcatElements, ConcatInjective
<1>8. /\ AnsCommits(s) = IF s = Master THEN C \o InOrder(T) ELSE C
      /\ AnsTentatives(s) = IF s = Master THEN {} ELSE T
  BY DEF AnsCommits, AnsTentatives, C, T
<1>9. ASSUME ApplyAnswer(ae(s)) PROVE storage' = Applied(storage, s, AnsCommits(s), AnsTentatives(s))
  <2>1. ae(s)[2] = s
    BY DEF ae
  <2>2. storage' = [storage EXCEPT ![s] =
          IF s = Master THEN Commit(@, Accept(Received(s)))
          ELSE Apply(@, Received(s).committed, Received(s).tentative)]
    BY <1>9, <2>1 DEF ApplyAnswer
  <2>3. CASE s = Master
    <3>1. Accept(Received(s)) = AnsCommits(s)
      BY <2>3, <1>3, <1>8 DEF Accept
    <3> QED BY <2>2, <2>3, <3>1, <1>8 DEF Commit, Applied
  <2>4. CASE s # Master
    BY <2>2, <2>4, <1>3, <1>8 DEF Applied
  <2> QED BY <2>3, <2>4
<1>10. /\ AnsCommits(s) \in Seq(LogicalTime) /\ IsInjective(AnsCommits(s))
       /\ ToSet(AnsCommits(s)) \cup AnsTentatives(s) = ToSet(C) \cup T
       /\ ToSet(AnsCommits(s)) \subseteq Stamps(now) /\ AnsTentatives(s) \subseteq Stamps(now)
  <2>1. CASE s = Master
    BY <2>1, <1>1, <1>7, <1>8
  <2>2. CASE s # Master
    BY <2>2, <1>1, <1>2, <1>8
  <2> QED BY <2>1, <2>2
<1> QED BY <1>9, <1>10 DEF C, T

-----------------------------------------------------------------------------
(***************************************************************************)
(* SoundInv is inductive.                                                  *)
(***************************************************************************)
LEMMA LaterStamps ==
  ASSUME NEW n \in Nat
  PROVE  /\ Stamps(n) \subseteq Stamps(n + 1)
         /\ \A st : Sound(st, n) => Sound(st, n + 1)
<1>1. Stamps(n) \subseteq Stamps(n + 1)
  <2> SUFFICES ASSUME NEW w \in Stamps(n) PROVE w \in Stamps(n + 1)
    OBVIOUS
  <2>1. w \in LogicalTime /\ w.ts \in Nat /\ 0 < w.ts /\ w.ts <= n
    BY DEF Stamps, LogicalTime
  <2> QED BY <2>1 DEF Stamps
<1>2. ASSUME NEW st, Sound(st, n) PROVE Sound(st, n + 1)
  <2>1. \A s \in Has(st) : Holds(st, s) \subseteq Stamps(n + 1)
    BY <1>1, <1>2 DEF Sound
  <2> QED BY <2>1, <1>2 DEF Sound
<1> QED BY <1>1, <1>2

LEMMA SoundInit == Init => SoundInv
<1> SUFFICES ASSUME Init PROVE SoundInv
  OBVIOUS
<1>1. ThreadInv
  <2>1. \A t \in Threads : Home(t) \in Servers
    BY ThreadsAre DEF Home
  <2>2. \A s \in Servers : at[ae(s)] = s
    BY ThreadsAre DEF Init, Home
  <2>3. \A k \in Clients : at[k] = ServerOf[k] /\ pc[k] = "idle"
    BY ThreadsAre DEF Init, Home
  <2>4. \A s \in Servers : peer[s] \in Servers /\ peer[s] # s
    BY AfterIsPeer DEF Init
  <2>5. \A s \in Servers : pc[ae(s)] = "check"
    BY ThreadsAre DEF Init
  <2>6. pc \in [Threads -> {"idle", "check", "create", "use", "ask", "apply", "dead"}]
    BY DEF Init
  <2>7. at \in [Threads -> Servers] /\ peer \in [Servers -> Servers]
    BY <2>1, <2>4 DEF Init
  <2>8. vectors \in [Servers -> Requests \cup Halves \cup {None}]
    BY DEF Init, NoVectors
  <2> QED BY <2>2, <2>3, <2>4, <2>5, <2>6, <2>7, <2>8 DEF ThreadInv
<1>2. WriteInv
  <2>1. NoReq \in LogicalTime
    BY MasterServes DEF NoReq, LogicalTime
  <2> QED BY <2>1 DEF Init, WriteInv
<1>3. AnswerInv
  BY NoAnswerIs DEF Init, AnswerInv
<1>4. RestInv
  <2>1. MaxEach \in Nat /\ MaxSevers \in Nat
    BY ClientAssumption
  <2>2. 0 \in 0 .. MaxEach /\ 0 \in 0 .. MaxSevers
    BY <2>1
  <2> QED BY <2>2 DEF Init, RestInv
<1>5. Sound(storage, now)
  <2>1. StorageInv(EmptyStorage) /\ EmptyStorage \in Storages
    BY EmptyGood DEF StorageInv
  <2>2. storage \in [Servers -> Storages \cup {None}]
    BY <2>1 DEF Init
  <2>3. ToSet(EmptyStorage.clog) \cup EmptyStorage.tlog = {}
    BY DEF EmptyStorage, ToSet
  <2>4. \A s \in Has(storage) : storage[s] = EmptyStorage
    BY DEF Init, Has
  <2> QED BY <2>1, <2>2, <2>3, <2>4 DEF Sound, Holds
<1> QED BY <1>1, <1>2, <1>3, <1>4, <1>5 DEF SoundInv

\* The storage at which a thread is.
LEMMA AtStorage ==
  ASSUME SoundInv
  PROVE  /\ storage \in [Servers -> Storages \cup {None}] /\ now \in Nat /\ at \in [Threads -> Servers]
         /\ \A t \in Threads : HasStorage(t) => at[t] \in Has(storage)
         /\ \A k \in Clients : at[k] = ServerOf[k]
BY DEF SoundInv, Sound, ThreadInv, RestInv, HasStorage, Has

LEMMA SoundCheckNone ==
  ASSUME SoundInv, NEW t \in Threads, CheckNone(t)
  PROVE  SoundInv'
<1>1. t \in Clients => pc'[t] \notin {"ask", "apply", "dead"}
  BY ThreadsAre DEF CheckNone, SoundInv, ThreadInv
<1>2. ThreadInv'
  BY <1>1, ThreadsAre DEF CheckNone, SoundInv, ThreadInv
<1>3. (WriteInv /\ AnswerInv /\ RestInv)'
  BY DEF CheckNone, SoundInv, WriteInv, AnswerInv, RestInv
<1>4. Sound(storage', now')
  BY DEF CheckNone, SoundInv
<1> QED BY <1>2, <1>3, <1>4 DEF SoundInv

LEMMA SoundCreate ==
  ASSUME SoundInv, NEW t \in Threads, Create(t)
  PROVE  SoundInv'
<1>1. ThreadInv'
  BY ThreadsAre DEF Create, SoundInv, ThreadInv
<1>2. (WriteInv /\ AnswerInv)'
  BY DEF Create, SoundInv, WriteInv, AnswerInv
<1>3. RestInv'
  BY DEF Create, SoundInv, RestInv
<1>4. Sound(storage', now')
  <2>1. at[t] \in Servers /\ now \in Nat /\ Sound(storage, now)
    BY AtStorage DEF SoundInv
  <2>2. storage' = [storage EXCEPT ![at[t]] = EmptyStorage] /\ now' = now
    BY DEF Create
  <2> QED BY <2>1, <2>2, CreateSound
<1> QED BY <1>1, <1>2, <1>3, <1>4 DEF SoundInv

LEMMA SoundRequest ==
  ASSUME SoundInv, NEW k \in Clients, Request(k)
  PROVE  /\ pc' \in [Threads -> {"idle", "check", "create", "use", "ask", "apply", "dead"}]
         /\ \A j \in Clients : pc'[j] \notin {"ask", "apply", "dead"}
         /\ \A s \in Servers : pc'[ae(s)] = pc[ae(s)]
         /\ sent' \in [Clients -> 0 .. MaxEach]
<1>1. k \in Threads /\ \A s \in Servers : ae(s) # k
  BY ThreadsAre
<1>2. sent[k] + 1 \in 0 .. MaxEach
  <2>1. MaxEach \in Nat
    BY ClientAssumption
  <2>2. sent[k] \in 0 .. MaxEach /\ sent[k] < MaxEach
    BY DEF Request, SoundInv, RestInv
  <2> QED BY <2>1, <2>2
<1>3. sent' \in [Clients -> 0 .. MaxEach]
  BY <1>2 DEF Request, SoundInv, RestInv
<1>4. pc' = [pc EXCEPT ![k] = "check"]
  BY DEF Request
<1>5. /\ pc \in [Threads -> {"idle", "check", "create", "use", "ask", "apply", "dead"}]
      /\ \A j \in Clients : pc[j] \notin {"ask", "apply", "dead"} /\ j \in Threads
  BY ThreadsAre DEF SoundInv, ThreadInv
<1>6. pc'[k] = "check" /\ \A j \in Threads : j # k => pc'[j] = pc[j]
  BY <1>1, <1>4, <1>5
<1> QED BY <1>1, <1>3, <1>4, <1>5, <1>6, ThreadsAre

LEMMA SoundClient ==
  ASSUME SoundInv, NEW k \in Clients,
         AppendChar(k) \/ GetString(k) \/ Write(k) \/ Read(k)
  PROVE  SoundInv'
<1>1. CASE AppendChar(k)
  <2>1. /\ pc' \in [Threads -> {"idle", "check", "create", "use", "ask", "apply", "dead"}]
        /\ \A j \in Clients : pc'[j] \notin {"ask", "apply", "dead"}
        /\ \A s \in Servers : pc'[ae(s)] = pc[ae(s)]
        /\ sent' \in [Clients -> 0 .. MaxEach]
    BY <1>1, SoundRequest DEF AppendChar
  <2>2. now \in Nat /\ now' = now + 1
    BY <1>1 DEF AppendChar, SoundInv, RestInv
  <2>3. ThreadInv'
    BY <1>1, <2>1 DEF AppendChar, SoundInv, ThreadInv
  <2>4. WriteInv'
    <3> DEFINE w == [ts |-> now + 1, name |-> ServerOf[k]]
    <3>1. w \in LogicalTime /\ w \in Stamps(now') /\ w.name = ServerOf[k]
      BY <2>2, ThreadsAre DEF LogicalTime, Stamps
    <3>2. write' = [write EXCEPT ![k] = w] /\ acked' = acked
      BY <1>1, <2>2, DictsAre DEF AppendChar
    <3> HIDE DEF w
    <3>3. \A j \in Clients : j # k => write'[j] = write[j]
      BY <3>2 DEF SoundInv, WriteInv
    <3>4. write' \in [Clients -> LogicalTime] /\ write'[k] = w
      BY <3>1, <3>2 DEF SoundInv, WriteInv
    <3>5. Stamps(now) \subseteq Stamps(now')
      BY <2>2, LaterStamps
    <3>6. \A j \in Clients : write'[j] # NoReq =>
            write'[j].name = ServerOf[j] /\ write'[j] \in Stamps(now')
      BY <3>1, <3>3, <3>4, <3>5 DEF SoundInv, WriteInv
    <3> QED BY <3>2, <3>4, <3>6 DEF SoundInv, WriteInv
  <2>5. AnswerInv'
    <3>1. answer' = answer /\ Stamps(now) \subseteq Stamps(now')
      BY <1>1, <2>2, LaterStamps DEF AppendChar
    <3> QED BY <3>1 DEF SoundInv, AnswerInv
  <2>6. RestInv'
    BY <1>1, <2>1, <2>2 DEF AppendChar, SoundInv, RestInv
  <2>7. Sound(storage', now')
    BY <1>1, <2>2, LaterStamps DEF AppendChar, SoundInv
  <2> QED BY <2>3, <2>4, <2>5, <2>6, <2>7 DEF SoundInv
<1>2. CASE GetString(k)
  <2>1. /\ pc' \in [Threads -> {"idle", "check", "create", "use", "ask", "apply", "dead"}]
        /\ \A j \in Clients : pc'[j] \notin {"ask", "apply", "dead"}
        /\ \A s \in Servers : pc'[ae(s)] = pc[ae(s)]
        /\ sent' \in [Clients -> 0 .. MaxEach]
    BY <1>2, SoundRequest DEF GetString
  <2>2. ThreadInv'
    BY <1>2, <2>1 DEF GetString, SoundInv, ThreadInv
  <2>3. (WriteInv /\ AnswerInv)' /\ Sound(storage', now')
    BY <1>2 DEF GetString, SoundInv, WriteInv, AnswerInv
  <2>4. RestInv'
    BY <1>2, <2>1 DEF GetString, SoundInv, RestInv
  <2> QED BY <2>2, <2>3, <2>4 DEF SoundInv
<1>3. CASE Write(k)
  <2>1. ThreadInv'
    BY <1>3, ThreadsAre DEF Write, SoundInv, ThreadInv
  <2>2. NoReq \in LogicalTime
    BY MasterServes DEF NoReq, LogicalTime
  <2>3. write[k] \in LogicalTime /\ write[k] # NoReq
    BY <1>3 DEF Write, SoundInv, WriteInv
  <2>4. WriteInv'
    BY <1>3, <2>2, <2>3 DEF Write, SoundInv, WriteInv
  <2>5. (AnswerInv /\ RestInv)'
    BY <1>3 DEF Write, SoundInv, AnswerInv, RestInv
  <2>6. Sound(storage', now')
    <3>1. ServerOf[k] \in Has(storage) /\ now \in Nat /\ Sound(storage, now) /\ now' = now
      BY <1>3, AtStorage, ThreadsAre DEF Write, SoundInv
    <3>2. /\ storage' = Applied(storage, ServerOf[k], WriteCommits(k), WriteTentatives(k))
          /\ WriteCommits(k) \in Seq(LogicalTime) /\ IsInjective(WriteCommits(k))
          /\ ToSet(WriteCommits(k)) \subseteq Stamps(now) /\ WriteTentatives(k) \subseteq Stamps(now)
      BY <1>3, <2>3, WriteApplies
    <3> QED BY <3>1, <3>2, ApplySound
  <2> QED BY <2>1, <2>4, <2>5, <2>6 DEF SoundInv
<1>4. CASE Read(k)
  <2>1. ThreadInv'
    BY <1>4, ThreadsAre DEF Read, SoundInv, ThreadInv
  <2>2. (WriteInv /\ AnswerInv /\ RestInv)' /\ Sound(storage', now')
    BY <1>4 DEF Read, SoundInv, WriteInv, AnswerInv, RestInv
  <2> QED BY <2>1, <2>2 DEF SoundInv
<1> QED BY <1>1, <1>2, <1>3, <1>4

\* What the handler at the peer answers.
LEMMA PeerGives ==
  ASSUME SoundInv, NEW s \in Servers, PeerAnswers(ae(s)),
         NEW p, p = at[ae(s)], NEW req, req = vectors[s]
  PROVE  /\ p # s /\ p \in Has(storage) /\ req \in Requests
         /\ answer' \in [Servers -> Answers] /\ \A u \in Servers : u # s => answer'[u] = answer[u]
         /\ Commits(answer'[s]) = Uncovered(req.c, storage[p].clog)
         /\ Tentatives(answer'[s]) = {w \in storage[p].tlog : IsNew(req.f, w)}
<1> DEFINE ans == AntiEntropy(storage[p], req.c, req.f)
           made == [committed |-> [i \in DOMAIN ans.committed |-> ToDict(ans.committed[i])],
                    tentative |-> {ToDict(w) : w \in ans.tentative}]
<1>1. ae(s)[2] = s /\ ae(s) \in Threads
  BY ThreadsAre
<1>2. p # s /\ p \in Has(storage)
  BY <1>1, AtStorage DEF PeerAnswers
<1>3. req \in Requests /\ answer \in [Servers -> Answers]
  BY <1>2 DEF SoundInv, ThreadInv, AnswerInv
<1>4. FromMsg(req).c = req.c /\ FromMsg(req).f = req.f
  BY <1>3, RequestsAre
<1>5. answer' = [answer EXCEPT ![s] = made]
  BY <1>1, <1>4 DEF PeerAnswers
<1>6. storage[p].clog \in Seq(LogicalTime) /\ storage[p].tlog \subseteq LogicalTime
  <2>1. Sound(storage, now) /\ now \in Nat
    BY DEF SoundInv, RestInv
  <2>2. storage[p] \in Storages
    BY <2>1, <1>2, Held
  <2> QED BY <2>2 DEF Storages
<1>7. /\ ans.committed = Uncovered(req.c, storage[p].clog)
      /\ ans.tentative = {w \in storage[p].tlog : IsNew(req.f, w)}
  BY DEF AntiEntropy
<1>8. ans.committed \in Seq(LogicalTime) /\ ans.tentative \subseteq LogicalTime
  BY <1>6, <1>7, UncoveredLists
<1>9. made \in Answers /\ Commits(made) = ans.committed /\ Tentatives(made) = ans.tentative
  <2> DEFINE log == ans.committed
             W == ans.tentative
  <2>1. made = [committed |-> [i \in DOMAIN log |-> ToDict(log[i])],
                tentative |-> {ToDict(w) : w \in W}]
    OBVIOUS
  <2>2. log \in Seq(LogicalTime) /\ W \subseteq LogicalTime
    BY <1>8
  <2> HIDE DEF log, W, made
  <2>3. made \in Answers /\ Commits(made) = log /\ Tentatives(made) = W
    BY <2>1, <2>2, RoundTrip
  <2> QED BY <2>3 DEF log, W
<1> HIDE DEF made, ans
<1>10. answer' \in [Servers -> Answers] /\ answer'[s] = made
  BY <1>3, <1>5, <1>9
<1> QED BY <1>2, <1>3, <1>5, <1>7, <1>9, <1>10

LEMMA SoundAE ==
  ASSUME SoundInv, OutInv, NEW s \in Servers, AEStep(ae(s))
  PROVE  SoundInv'
<1> DEFINE t == ae(s)
<1>1. t[2] = s /\ t \in Threads /\ t \notin Clients /\ \A u \in Servers : ae(u) = t => u = s
  BY ThreadsAre DEF ae
<1>2. Sound(storage, now) /\ now \in Nat
  BY DEF SoundInv, RestInv
<1>3. \A k \in Clients : k \in Threads /\ k # t
  BY <1>1, ThreadsAre
<1>4. \A u \in Servers : ae(u) \in Threads
  BY ThreadsAre
<1> HIDE DEF t
<1>0. ASSUME vectors' = [vectors EXCEPT ![s] = vectors'[s]],
             pc' = [pc EXCEPT ![t] = pc'[t]], at' = [at EXCEPT ![t] = at'[t]],
             peer' = [peer EXCEPT ![s] = peer'[s]],
             vectors'[s] \in Requests \cup Halves \cup {None}, at'[t] \in Servers,
             pc'[t] \in {"idle", "check", "create", "use", "ask", "apply", "dead"},
             at'[t] # s => vectors'[s] \in Requests /\ pc'[t] \notin {"ask", "apply"},
             pc'[t] = "ask" => vectors'[s] \in Halves,
             peer'[s] \in Servers, peer'[s] # s
      PROVE  ThreadInv'
  <2>1. /\ pc' \in [Threads -> {"idle", "check", "create", "use", "ask", "apply", "dead"}]
        /\ at' \in [Threads -> Servers] /\ peer' \in [Servers -> Servers]
        /\ vectors' \in [Servers -> Requests \cup Halves \cup {None}]
    BY <1>0 DEF SoundInv, ThreadInv
  <2>2. \A k \in Clients : pc'[k] = pc[k] /\ at'[k] = at[k]
    BY <1>0, <1>1, <1>3 DEF SoundInv, ThreadInv
  <2>3. \A u \in Servers : u # s =>
          /\ pc'[ae(u)] = pc[ae(u)] /\ at'[ae(u)] = at[ae(u)]
          /\ vectors'[u] = vectors[u] /\ peer'[u] = peer[u]
    BY <1>0, <1>1, <1>4 DEF SoundInv, ThreadInv
  <2>4. ASSUME NEW u \in Servers
        PROVE  /\ at'[ae(u)] # u => vectors'[u] \in Requests /\ pc'[ae(u)] \notin {"ask", "apply"}
               /\ pc'[ae(u)] = "ask" => vectors'[u] \in Halves
               /\ peer'[u] # u
    <3>1. CASE u = s
      BY <3>1, <1>0 DEF t
    <3>2. CASE u # s
      BY <3>2, <2>3 DEF SoundInv, ThreadInv
    <3> QED BY <3>1, <3>2
  <2> QED BY <2>1, <2>2, <2>4 DEF SoundInv, ThreadInv
<1>5. /\ pc[t] \in {"idle", "check", "create", "use", "ask", "apply", "dead"} /\ at[t] \in Servers
      /\ peer[s] \in Servers /\ peer[s] # s /\ pc \in [Threads -> {"idle", "check", "create", "use", "ask", "apply", "dead"}]
      /\ at \in [Threads -> Servers] /\ peer \in [Servers -> Servers]
      /\ vectors \in [Servers -> Requests \cup Halves \cup {None}]
      /\ at[t] # s => vectors[s] \in Requests /\ pc[t] \notin {"ask", "apply"}
      /\ pc[t] = "ask" => vectors[s] \in Halves /\ at[t] = s
  BY <1>1 DEF t, SoundInv, ThreadInv
<1>10. CASE ReadC(t)
  <2>1. s \in Has(storage)
    BY <1>1, <1>10, AtStorage DEF ReadC
  <2>2. [c |-> storage[s].c] \in Halves
    BY <2>1, <1>2, Held DEF Halves
  <2>3. /\ vectors' = [vectors EXCEPT ![s] = [c |-> storage[s].c]]
        /\ pc' = [pc EXCEPT ![t] = "ask"] /\ UNCHANGED <<at, peer>> /\ at[t] = s
    BY <1>1, <1>10 DEF ReadC
  <2>4. ThreadInv'
    BY <1>0, <1>1, <1>5, <2>2, <2>3
  <2>5. (WriteInv /\ AnswerInv /\ RestInv)' /\ Sound(storage', now')
    BY <1>10 DEF ReadC, SoundInv, WriteInv, AnswerInv, RestInv
  <2> QED BY <2>4, <2>5 DEF SoundInv
<1>11. CASE Send(t)
  <2>1. s \in Has(storage) /\ vectors[s] \in Halves
    BY <1>5, <1>11 DEF Send, OutInv, t
  <2>2. ToMsg(vectors[s].c, storage[s].f) \in Requests
    <3>1. storage[s].f \in Vectors /\ vectors[s].c \in Vectors
      BY <2>1, <1>2, Held DEF Halves
    <3> QED BY <3>1, RequestsAre
  <2>3. /\ vectors' = [vectors EXCEPT ![s] = ToMsg(vectors[s].c, storage[s].f)]
        /\ at' = [at EXCEPT ![t] = peer[s]] /\ pc' = [pc EXCEPT ![t] = "check"] /\ peer' = peer
    BY <1>1, <1>11 DEF Send
  <2>4. ThreadInv'
    BY <1>0, <1>1, <1>5, <2>2, <2>3
  <2>5. (WriteInv /\ AnswerInv /\ RestInv)' /\ Sound(storage', now')
    BY <1>11 DEF Send, SoundInv, WriteInv, AnswerInv, RestInv
  <2> QED BY <2>4, <2>5 DEF SoundInv
<1>6. CASE SendFails(t)
  <2>1. /\ pc[t] = "ask" /\ peer' = [peer EXCEPT ![s] = After(s, peer[s])]
        /\ pc' = [pc EXCEPT ![t] = "check"] /\ vectors' = [vectors EXCEPT ![s] = None]
        /\ at' = at
    BY <1>1, <1>6 DEF SendFails, NextPeer, NoVectors
  <2>2. After(s, peer[s]) \in Servers /\ After(s, peer[s]) # s
    BY AfterIsPeer DEF SoundInv, ThreadInv
  <2>3. ThreadInv'
    BY <1>0, <1>1, <1>5, <2>1, <2>2
  <2>4. (WriteInv /\ AnswerInv /\ RestInv)' /\ Sound(storage', now')
    BY <1>6 DEF SendFails, SoundInv, WriteInv, AnswerInv, RestInv
  <2> QED BY <2>3, <2>4 DEF SoundInv
<1>7. CASE PeerAnswers(t)
  <2> DEFINE p == at[t]
             req == vectors[s]
  <2>1. /\ p \in Has(storage) /\ req \in Requests /\ answer' \in [Servers -> Answers]
        /\ \A u \in Servers : u # s => answer'[u] = answer[u]
        /\ Commits(answer'[s]) = Uncovered(req.c, storage[p].clog)
        /\ Tentatives(answer'[s]) = {w \in storage[p].tlog : IsNew(req.f, w)}
    BY <1>7, PeerGives DEF t
  <2>2. /\ at' = [at EXCEPT ![t] = s] /\ pc' = [pc EXCEPT ![t] = "apply"]
        /\ vectors' = [vectors EXCEPT ![s] = None]
    BY <1>1, <1>7 DEF PeerAnswers, NoVectors
  <2>3. UNCHANGED <<peer, write, dc, now, acked, sent, severs, replaced, storage>>
    BY <1>7 DEF PeerAnswers
  <2>5. ThreadInv'
    BY <1>0, <1>1, <1>5, <2>2, <2>3
  <2>6. AnswerInv'
    <3>1. /\ StorageInv(storage[p]) /\ Holds(storage, p) \subseteq Stamps(now)
          /\ storage[p].clog \in Seq(LogicalTime)
      BY <2>1, <1>2, Held DEF Sound
    <3>2. /\ ToSet(Commits(answer'[s])) \subseteq ToSet(storage[p].clog)
          /\ IsInjective(Commits(answer'[s]))
      BY <2>1, <3>1, UncoveredLists DEF StorageInv
    <3>3. Tentatives(answer'[s]) \subseteq storage[p].tlog
      BY <2>1
    <3>4. /\ ToSet(Commits(answer'[s])) \cup Tentatives(answer'[s]) \subseteq Stamps(now)
          /\ ToSet(Commits(answer'[s])) \cap Tentatives(answer'[s]) = {}
      BY <3>1, <3>2, <3>3 DEF Holds, StorageInv
    <3> QED BY <3>2, <3>4, <2>1, <2>3 DEF SoundInv, AnswerInv
  <2>7. (WriteInv /\ RestInv)' /\ Sound(storage', now')
    BY <2>3 DEF SoundInv, WriteInv, RestInv
  <2> QED BY <2>5, <2>6, <2>7 DEF SoundInv
<1>8. CASE PeerRefuses(t)
  <2>1. pc' = [pc EXCEPT ![t] = "dead"] /\ UNCHANGED <<at, vectors, peer>>
    BY <1>8 DEF PeerRefuses
  <2>2. ThreadInv'
    BY <1>0, <1>1, <1>5, <2>1
  <2>3. (WriteInv /\ AnswerInv /\ RestInv)' /\ Sound(storage', now')
    BY <1>8 DEF PeerRefuses, SoundInv, WriteInv, AnswerInv, RestInv
  <2> QED BY <2>2, <2>3 DEF SoundInv
<1>9. CASE ApplyAnswer(t)
  <2>1. /\ pc[t] = "apply" /\ answer' = [answer EXCEPT ![s] = NoAnswer]
        /\ pc' = [pc EXCEPT ![t] = "check"]
        /\ peer' = [peer EXCEPT ![s] = After(s, peer[s])]
        /\ UNCHANGED <<replaced, at, write, vectors, dc, now, acked, sent, severs>>
    BY <1>1, <1>9 DEF ApplyAnswer, NextPeer
  <2>2. After(s, peer[s]) \in Servers /\ After(s, peer[s]) # s
    BY AfterIsPeer DEF SoundInv, ThreadInv
  <2>5. ThreadInv'
    BY <1>0, <1>1, <1>5, <2>1, <2>2
  <2>6. AnswerInv'
    <3>1. answer' \in [Servers -> Answers] /\ answer'[s] = NoAnswer
      BY <2>1, NoAnswerIs DEF SoundInv, AnswerInv
    <3>2. \A u \in Servers : u # s => answer'[u] = answer[u]
      BY <2>1 DEF SoundInv, AnswerInv
    <3> QED BY <3>1, <3>2, <2>1, NoAnswerIs DEF SoundInv, AnswerInv
  <2>7. (WriteInv /\ RestInv)'
    BY <2>1 DEF SoundInv, WriteInv, RestInv
  <2>8. Sound(storage', now')
    <3>1. /\ storage' = Applied(storage, s, AnsCommits(s), AnsTentatives(s))
          /\ AnsCommits(s) \in Seq(LogicalTime) /\ IsInjective(AnsCommits(s))
          /\ ToSet(AnsCommits(s)) \subseteq Stamps(now) /\ AnsTentatives(s) \subseteq Stamps(now)
      BY <1>9, AnswerApplies DEF t
    <3>2. s \in Has(storage) /\ now' = now
      BY <2>1 DEF t, OutInv
    <3> QED BY <3>1, <3>2, <1>2, ApplySound
  <2> QED BY <2>5, <2>6, <2>7, <2>8 DEF SoundInv
<1> QED BY <1>6, <1>7, <1>8, <1>9, <1>10, <1>11 DEF AEStep, t

\* The steps, by what runs: any thread, a client, an anti-entropy thread, a test.
LEMMA Steps ==
  ASSUME [Next]_vars
  PROVE  \/ UNCHANGED vars
         \/ \E t \in Threads : CheckNone(t) \/ Create(t)
         \/ \E k \in Clients : \/ AppendChar(k) \/ GetString(k) \/ Write(k)
                               \/ Read(k)
         \/ \E s \in Servers : AEStep(ae(s))
         \/ \E s \in Servers : \E p \in Peers(s) : Sever(s, p) \/ Unsever(s, p)
<1>1. CASE \E k \in Clients : AppendChar(k) \/ GetString(k) \/ Handle(k)
  BY <1>1, ThreadsAre DEF Handle
<1>2. CASE \E t \in AE : CheckNone(t) \/ Create(t) \/ AEStep(t)
  <2>1. PICK t \in AE : CheckNone(t) \/ Create(t) \/ AEStep(t)
    BY <1>2
  <2>2. t \in Threads /\ t[2] \in Servers /\ t = ae(t[2])
    BY ThreadsAre DEF Threads
  <2> QED BY <2>1, <2>2
<1> QED BY <1>1, <1>2 DEF Next, Restore

LEMMA SoundStep == SoundInv /\ OutInv /\ [Next]_vars => SoundInv'
<1> SUFFICES ASSUME SoundInv, OutInv, [Next]_vars PROVE SoundInv'
  OBVIOUS
<1>1. CASE UNCHANGED vars
  BY <1>1 DEF vars, threadVars, SoundInv, ThreadInv, WriteInv, AnswerInv, RestInv
<1>2. ASSUME NEW s \in Servers, NEW p \in Peers(s), Sever(s, p) \/ Unsever(s, p) PROVE SoundInv'
  <2>1. UNCHANGED <<replaced, storage, threadVars, now, acked, sent>>
    BY <1>2 DEF Sever, Unsever
  <2>2. (ThreadInv /\ WriteInv /\ AnswerInv)' /\ Sound(storage', now')
    BY <2>1 DEF threadVars, SoundInv, ThreadInv, WriteInv, AnswerInv
  <2>3. p \in Servers /\ MaxSevers \in Nat
    BY ClientAssumption DEF Peers
  <2>4. CASE Sever(s, p)
    <3>1. severs' \in 0 .. MaxSevers
      BY <2>3, <2>4 DEF Sever, SoundInv, RestInv
    <3>2. dc' \in [Servers -> SUBSET Servers]
      BY <2>3, <2>4 DEF Sever, SoundInv, RestInv
    <3> QED BY <2>1, <2>2, <3>1, <3>2 DEF SoundInv, RestInv
  <2>5. CASE Unsever(s, p)
    <3>1. dc' \in [Servers -> SUBSET Servers] /\ severs' = severs
      BY <2>5 DEF Unsever, SoundInv, RestInv
    <3> QED BY <2>1, <2>2, <3>1 DEF SoundInv, RestInv
  <2> QED BY <1>2, <2>4, <2>5
<1> QED BY <1>1, <1>2, Steps, SoundCheckNone, SoundCreate, SoundClient, SoundAE

\* A step that changes the storages creates one, or applies to one.
LEMMA StorageSteps ==
  ASSUME SoundInv, OutInv, [Next]_vars
  PROVE  \/ storage' = storage
         \/ \E t \in Threads : Create(t) /\ storage' = [storage EXCEPT ![at[t]] = EmptyStorage]
         \/ \E k \in Clients :
              /\ Write(k) /\ ServerOf[k] \in Has(storage) /\ write[k] # NoReq
              /\ storage' = Applied(storage, ServerOf[k], WriteCommits(k), WriteTentatives(k))
         \/ \E s \in Servers :
              /\ ApplyAnswer(ae(s)) /\ s \in Has(storage)
              /\ storage' = Applied(storage, s, AnsCommits(s), AnsTentatives(s))
<1>1. CASE UNCHANGED vars
  BY <1>1 DEF vars
<1>2. ASSUME NEW t \in Threads, CheckNone(t) \/ Create(t)
      PROVE  storage' = storage \/ (Create(t) /\ storage' = [storage EXCEPT ![at[t]] = EmptyStorage])
  BY <1>2 DEF CheckNone, Create
<1>3. ASSUME NEW k \in Clients, AppendChar(k) \/ GetString(k) \/ Read(k)
      PROVE  storage' = storage
  BY <1>3 DEF AppendChar, GetString, Read
<1>4. ASSUME NEW k \in Clients, Write(k)
      PROVE  /\ ServerOf[k] \in Has(storage) /\ write[k] # NoReq
             /\ storage' = Applied(storage, ServerOf[k], WriteCommits(k), WriteTentatives(k))
  <2>1. HasStorage(k) /\ write[k] # NoReq
    BY <1>4 DEF Write
  <2>2. ServerOf[k] \in Has(storage)
    BY <2>1, AtStorage, ThreadsAre
  <2> QED BY <1>4, <2>1, <2>2, WriteApplies
<1>5. ASSUME NEW s \in Servers, AEStep(ae(s)), ~ApplyAnswer(ae(s)) PROVE storage' = storage
  BY <1>5 DEF AEStep, ReadC, Send, SendFails, PeerAnswers, PeerRefuses
<1>6. ASSUME NEW s \in Servers, ApplyAnswer(ae(s))
      PROVE  s \in Has(storage) /\ storage' = Applied(storage, s, AnsCommits(s), AnsTentatives(s))
  BY <1>6, AnswerApplies DEF ApplyAnswer, OutInv
<1>7. ASSUME NEW s \in Servers, NEW p \in Peers(s), Sever(s, p) \/ Unsever(s, p)
      PROVE  storage' = storage
  BY <1>7 DEF Sever, Unsever
<1> QED BY <1>1, <1>2, <1>3, <1>4, <1>5, <1>6, <1>7, Steps

LEMMA HasGrows ==
  ASSUME SoundInv, OutInv, [Next]_vars
  PROVE  Has(storage) \subseteq Has(storage')
<1>1. Sound(storage, now) /\ now \in Nat /\ storage \in [Servers -> Storages \cup {None}]
  BY DEF SoundInv, RestInv, Sound
<1>2. ASSUME NEW s \in Servers, storage' = [storage EXCEPT ![s] = EmptyStorage]
      PROVE  Has(storage) \subseteq Has(storage')
  <2>1. EmptyStorage # None
    BY EmptyGood, ClientAssumption DEF StorageInv
  <2> QED BY <1>1, <1>2, <2>1 DEF Has
<1>3. ASSUME NEW k \in Clients, write[k] # NoReq, ServerOf[k] \in Has(storage),
             storage' = Applied(storage, ServerOf[k], WriteCommits(k), WriteTentatives(k))
      PROVE  Has(storage) \subseteq Has(storage')
  <2>1. /\ WriteCommits(k) \in Seq(LogicalTime) /\ IsInjective(WriteCommits(k))
        /\ ToSet(WriteCommits(k)) \subseteq Stamps(now) /\ WriteTentatives(k) \subseteq Stamps(now)
    BY <1>3, WriteApplies
  <2> QED BY <1>1, <1>3, <2>1, ApplySound
<1>4. ASSUME NEW s \in Has(storage),
             storage' = Applied(storage, s, AnsCommits(s), AnsTentatives(s))
      PROVE  Has(storage) \subseteq Has(storage')
  <2>1. /\ AnsCommits(s) \in Seq(LogicalTime) /\ IsInjective(AnsCommits(s))
        /\ ToSet(AnsCommits(s)) \subseteq Stamps(now) /\ AnsTentatives(s) \subseteq Stamps(now)
    BY AnswerApplies DEF Has
  <2> QED BY <1>1, <1>4, <2>1, ApplySound
<1>5. \A t \in Threads : at[t] \in Servers
  BY AtStorage
<1> QED BY <1>2, <1>3, <1>4, <1>5, StorageSteps

LEMMA OutStep == SoundInv /\ OutInv /\ [Next]_vars => OutInv'
<1> SUFFICES ASSUME SoundInv, OutInv, [Next]_vars, NEW u \in Servers,
                    at'[ae(u)] # u \/ pc'[ae(u)] \in {"ask", "apply"}
             PROVE  u \in Has(storage')
  BY DEF OutInv
<1>1. Has(storage) \subseteq Has(storage')
  BY HasGrows
<1> SUFFICES u \in Has(storage)
  BY <1>1
<1>2. ae(u) \in Threads /\ ae(u) \notin Clients /\ \A s \in Servers : ae(s) = ae(u) => s = u
  BY ThreadsAre DEF ae
<1>3. /\ at \in [Threads -> Servers]
      /\ pc \in [Threads -> {"idle", "check", "create", "use", "ask", "apply", "dead"}]
  BY DEF SoundInv, ThreadInv
<1>4. CASE /\ at'[ae(u)] = at[ae(u)]
           /\ pc'[ae(u)] \in {"ask", "apply"} => pc[ae(u)] \in {"ask", "apply"}
  BY <1>4 DEF OutInv
<1>5. CASE UNCHANGED vars
  BY <1>4, <1>5 DEF vars, threadVars
<1>6. ASSUME NEW t \in Threads, CheckNone(t) \/ Create(t) PROVE u \in Has(storage)
  BY <1>2, <1>3, <1>4, <1>6 DEF CheckNone, Create
<1>7. ASSUME NEW k \in Clients,
             AppendChar(k) \/ GetString(k) \/ Write(k) \/ Read(k)
      PROVE  u \in Has(storage)
  <2>1. k # ae(u) /\ k \in Threads
    BY <1>2, ThreadsAre
  <2>2. at' = at /\ \E x : pc' = [pc EXCEPT ![k] = x]
    BY <1>7 DEF AppendChar, GetString, Request, Write, Read
  <2>3. pc'[ae(u)] = pc[ae(u)]
    BY <1>2, <1>3, <2>1, <2>2
  <2> QED BY <2>2, <2>3, <1>4
<1>8. ASSUME NEW s \in Servers, AEStep(ae(s)) PROVE u \in Has(storage)
  <2>1. CASE s # u
    <3>1. ae(s) \in Threads /\ ae(s) # ae(u)
      BY <1>2, <2>1, ThreadsAre
    <3>2. /\ \E x : pc' = [pc EXCEPT ![ae(s)] = x]
          /\ at' = at \/ \E x : at' = [at EXCEPT ![ae(s)] = x]
      BY <1>8, AEStepWrites
    <3>3. at'[ae(u)] = at[ae(u)] /\ pc'[ae(u)] = pc[ae(u)]
      BY <3>1, <3>2, <1>2, <1>3
    <3> QED BY <3>3, <1>4
  <2>0. CASE s = u /\ ReadC(ae(u))
    BY <2>0, AtStorage, ThreadsAre DEF ReadC
  <2>2. CASE s = u /\ Send(ae(u))
    BY <2>2 DEF Send, OutInv
  <2>3. CASE s = u /\ PeerAnswers(ae(u))
    BY <2>3, ThreadsAre DEF PeerAnswers, OutInv
  <2>4. CASE s = u /\ (SendFails(ae(u)) \/ PeerRefuses(ae(u)) \/ ApplyAnswer(ae(u)))
    BY <1>2, <1>3, <1>4, <2>4 DEF SendFails, PeerRefuses, ApplyAnswer
  <2> QED BY <1>8, <2>0, <2>1, <2>2, <2>3, <2>4 DEF AEStep
<1>9. ASSUME NEW s \in Servers, NEW p \in Peers(s), Sever(s, p) \/ Unsever(s, p)
      PROVE  u \in Has(storage)
  BY <1>4, <1>9 DEF Sever, Unsever, threadVars
<1> QED BY <1>5, <1>6, <1>7, <1>8, <1>9, Steps

LEMMA OutInit == Init => OutInv
BY ThreadsAre DEF Init, OutInv, Home

LEMMA SoundAlways == Spec => [](SoundInv /\ OutInv)
<1>1. Init => SoundInv /\ OutInv
  BY SoundInit, OutInit
<1>2. SoundInv /\ OutInv /\ [Next]_vars => (SoundInv /\ OutInv)'
  BY SoundStep, OutStep
<1> QED BY <1>1, <1>2, PTL DEF Spec

(***************************************************************************)
(* Every thread, message and storage is of its type, and the anti-entropy  *)
(* loop never asks the server itself, in every reachable state.            *)
(***************************************************************************)
THEOREM TypesKept == Spec => []TypeOK
<1>1. SoundInv => TypeOK
  <2> SUFFICES ASSUME SoundInv PROVE TypeOK
    OBVIOUS
  <2>1. /\ storage \in [Servers -> Storages \cup {None}]
        /\ replaced \in BOOLEAN /\ dc \in [Servers -> SUBSET Servers] /\ now \in Nat
        /\ pc \in [Threads -> {"idle", "check", "create", "use", "ask", "apply", "dead"}]
        /\ at \in [Threads -> Servers] /\ acked \subseteq LogicalTime
        /\ sent \in [Clients -> 0 .. MaxEach] /\ severs \in 0 .. MaxSevers
    BY DEF SoundInv, Sound, RestInv, ThreadInv, WriteInv
  <2>2. \A s \in Servers : peer[s] \in Peers(s)
    BY DEF SoundInv, ThreadInv, Peers
  <2>3. write \in [Clients -> LogicalTime \cup {NoReq}]
    BY DEF SoundInv, WriteInv
  <2>5. ASSUME NEW s \in Servers
        PROVE  Received(s).committed \in Seq(LogicalTime) /\ Received(s).tentative \subseteq LogicalTime
    BY ReceivedIs, AnswersAre DEF SoundInv, AnswerInv
  <2> QED BY <2>1, <2>2, <2>3, <2>5 DEF TypeOK
<1> QED BY <1>1, SoundAlways, PTL

(***************************************************************************)
(* What Storage.chk_invariants asserts holds in every state, whether or    *)
(* not the race on the property storage replaced a Storage: F covers C,    *)
(* and a Storage without tentative writes has the two equal.               *)
(***************************************************************************)
THEOREM InvariantsKept == Spec => []ChkInvariants
<1>1. SoundInv => ChkInvariants
  <2> SUFFICES ASSUME SoundInv, NEW s \in Made
               PROVE  /\ IsVtimeEarlier(storage[s].f, storage[s].c)
                      /\ storage[s].tlog = {} => storage[s].f = storage[s].c
    BY DEF ChkInvariants
  <2>1. StorageInv(storage[s])
    BY DEF SoundInv, Sound, Made, Has
  <2>2. /\ storage[s].c \in Vectors /\ storage[s].f \in Vectors
        /\ IsCover(storage[s].f, storage[s].c, storage[s].tlog)
    BY <2>1 DEF StorageInv, Storages
  <2>3. IsVtimeEarlier(storage[s].f, storage[s].c)
    BY <2>2, EarlierIsPointwise DEF IsCover
  <2>4. ASSUME storage[s].tlog = {} PROVE storage[s].f = storage[s].c
    <3>1. \A p \in Servers : storage[s].f[p] = storage[s].c[p]
      BY <2>2, <2>4 DEF IsCover
    <3> QED BY <3>1, <2>2 DEF Vectors
  <2> QED BY <2>3, <2>4
<1> QED BY <1>1, SoundAlways, PTL

(***************************************************************************)
(* No server commits a write twice, or holds it both as committed and as   *)
(* tentative, however often and from however many peers it is delivered:   *)
(* "Commits are idempotent".  This too needs no hypothesis on the race.    *)
(***************************************************************************)
THEOREM NothingTwice == Spec => []CommittedOnce
<1>1. SoundInv => CommittedOnce
  BY DEF SoundInv, Sound, StorageInv, CommittedOnce, Committed, Made, Has
<1> QED BY <1>1, SoundAlways, PTL

-----------------------------------------------------------------------------
(***************************************************************************)
(* Anti-entropy sessions.                                                  *)
(***************************************************************************)

\* What p answers to a request of s, of which only part need be true any more.
LEMMA PeerAnswersWell ==
  ASSUME NEW n \in Nat, NEW st, Sound(st, n), Agree(st), NEW s \in Has(st), NEW p \in Has(st),
         NEW req \in Requests, Asked(st, s, req)
  PROVE  Answered(st, s, Uncovered(req.c, st[p].clog), {w \in st[p].tlog : IsNew(req.f, w)})
<1> DEFINE log == LogOf(st)
           clog == st[p].clog
           commits == Uncovered(req.c, clog)
           tentatives == {w \in st[p].tlog : IsNew(req.f, w)}
           W == ToSet(commits) \cup tentatives
<1>1. /\ clog \in Seq(LogicalTime) /\ st[s].clog \in Seq(LogicalTime) /\ log \in Seq(LogicalTime)
      /\ Len(clog) \in Nat /\ Len(st[s].clog) \in Nat /\ Len(log) \in Nat
  BY Held, LogHeld, Entries
<1>2. /\ commits \in Seq(LogicalTime)
      /\ ToSet(commits) = {w \in ToSet(clog) : IsNew(req.c, w)}
  BY <1>1, UncoveredLists
<1>3. W \subseteq Holds(st, p)
  BY <1>2 DEF Holds
<1>4. \A x \in W : KnownAtHome(st, x)
  BY <1>3 DEF Agree, Homes
<1>5. \A x \in tentatives : x.name # Master
  BY DEF Agree, MasterCommits
<1>6. /\ IsPrefix(clog, log) /\ Cut(log, st[p].c, Len(clog))
      /\ IsPrefix(st[s].clog, log) /\ Cut(log, st[s].c, Len(st[s].clog))
  BY DEF Agree, PartOfLog
<1>7. ASSUME NEW x \in W, NEW u \in Has(st), NEW w \in Holds(st, u),
             w.name = x.name, st[s].f[w.name] < w.ts, w.ts <= x.ts
      PROVE  w \in W
  <2>1. x.ts \in Nat /\ x.ts <= st[p].f[x.name] /\ st[p].f[x.name] \in Nat
    BY <1>3, Held
  <2>2. w.ts \in Nat /\ w.name \in Servers
    BY Held
  <2>3. w \in Holds(st, p)
    <3>1. w.ts <= st[p].f[w.name]
      BY <2>1, <2>2, <1>7
    <3> QED BY <3>1 DEF Agree, Gapless
  <2>4. /\ req.c[w.name] <= req.f[w.name] /\ req.f[w.name] <= st[s].f[w.name]
        /\ req.c[w.name] \in Nat /\ req.f[w.name] \in Nat /\ st[s].f[w.name] \in Nat
    BY <2>2, Held DEF Asked, Requests, Vectors
  <2>5. IsNew(req.c, w) /\ IsNew(req.f, w)
    BY <2>2, <2>4, <1>7 DEF IsNew, IsLtimeEarlier
  <2> QED BY <2>3, <2>5, <1>2 DEF Holds
<1>8. Extends(st, s, commits)
  <2>1. CASE s = Master
    <3>1. ToSet(commits) \subseteq ToSet(log)
      BY <1>1, <1>2, <1>6, PrefixSubset
    <3> QED BY <2>1, <3>1 DEF Extends
  <2>2. CASE s # Master
    <3> DEFINE len == Len(st[s].clog)
    <3>1. req.c = st[s].c /\ Cut(log, req.c, len)
      BY <2>2, <1>6 DEF Asked
    <3> HIDE DEF log, clog
    <3>2. Len(clog) <= Len(log) /\ \A i \in 1 .. Len(clog) : clog[i] = log[i]
      BY <1>1, <1>6, PrefixEntries
    <3>3. ASSUME NEW i \in 1 .. Len(clog) PROVE IsNew(req.c, clog[i]) <=> i > len
      <4>1. i \in 1 .. Len(log) /\ clog[i] = log[i] /\ i \in Nat /\ len \in Nat
        BY <3>2, <1>1
      <4>2. log[i].ts <= req.c[log[i].name] <=> i <= len
        BY <3>1, <4>1 DEF Cut
      <4> QED BY <4>1, <4>2 DEF IsNew, IsLtimeEarlier
    <3>4. CASE len <= Len(clog)
      <4>1. len \in 0 .. Len(clog)
        BY <3>4, <1>1
      <4>2. /\ Len(commits) = Len(clog) - len
            /\ \A j \in 1 .. Len(clog) - len : commits[j] = clog[len + j]
        <5> DEFINE n0 == len
        <5>1. /\ clog \in Seq(LogicalTime) /\ n0 \in 0 .. Len(clog)
              /\ \A i \in 1 .. Len(clog) : IsNew(req.c, clog[i]) <=> i > n0
          BY <3>3, <4>1, <1>1
        <5> HIDE DEF n0, clog
        <5>2. /\ Len(Uncovered(req.c, clog)) = Len(clog) - n0
              /\ \A j \in 1 .. Len(clog) - n0 : Uncovered(req.c, clog)[j] = clog[n0 + j]
          BY <5>1, UncoveredSuffix
        <5> QED BY <5>2 DEF n0
      <4> DEFINE q == st[s].clog \o commits
      <4> HIDE DEF commits, len
      <4>3. /\ q \in Seq(LogicalTime) /\ Len(q) = len + Len(commits)
            /\ \A i \in 1 .. len : q[i] = st[s].clog[i]
            /\ \A i \in 1 .. Len(commits) : q[len + i] = commits[i]
        BY <1>1, <1>2, ConcatElements DEF len
      <4>4. \A i \in 1 .. len : st[s].clog[i] = log[i]
        BY <1>1, <1>6, PrefixEntries DEF len
      <4>5. len \in Nat /\ Len(commits) \in Nat /\ len + Len(commits) = Len(clog)
        BY <1>1, <4>1, <4>2 DEF len
      <4> HIDE DEF q
      <4>6. ASSUME NEW i \in 1 .. Len(q) PROVE q[i] = log[i]
        <5>1. CASE i <= len
          BY <5>1, <4>3, <4>4, <4>5
        <5>2. CASE i > len
          <6>1. i - len \in 1 .. Len(commits) /\ i = len + (i - len) /\ i \in 1 .. Len(clog)
            BY <5>2, <4>3, <4>5
          <6>2. q[i] = commits[i - len] /\ commits[i - len] = clog[i]
            BY <6>1, <4>2, <4>3, <4>5
          <6> QED BY <6>1, <6>2, <3>2
        <5> QED BY <5>1, <5>2, <4>3, <4>5
      <4>7. IsPrefix(q, log)
        BY <4>3, <4>5, <4>6, <3>2, <1>1, PrefixEntries
      <4>8. st[p].c \in Vectors /\ Cut(log, st[p].c, len + Len(commits))
        BY <4>5, <1>6 DEF Cut
      <4> QED BY <2>2, <4>7, <4>8 DEF Extends, q, log, len
    <3>5. CASE len > Len(clog)
      <4>1. \A i \in 1 .. Len(clog) : IsNew(req.c, clog[i]) <=> i > Len(clog)
        BY <3>3, <3>5, <1>1
      <4>2. Len(clog) \in 0 .. Len(clog)
        BY <1>1
      <4>3. Len(commits) = Len(clog) - Len(clog)
        BY <4>1, <4>2, <1>1, UncoveredSuffix
      <4>4. Len(commits) = 0
        BY <4>3, <1>1
      <4> HIDE DEF commits
      <4>5. commits = <<>>
        BY <4>4, <1>2
      <4>6. st[s].clog \o commits = st[s].clog /\ len + Len(commits) = len
        BY <4>4, <4>5, <1>1, PrefixConcat
      <4>7. st[s].c \in Vectors
        BY Held
      <4> QED BY <2>2, <4>6, <4>7, <1>6 DEF Extends, log
    <3> QED BY <3>4, <3>5, <1>1
  <2> QED BY <2>1, <2>2
<1>9. Fills(st, s, W)
  BY <1>7 DEF Fills
<1> QED BY <1>4, <1>5, <1>8, <1>9 DEF Answered

\* The peer's assertion holds: the two are cuts of one log.
LEMMA PeerComparable ==
  ASSUME NEW n \in Nat, NEW st, Sound(st, n), Agree(st), NEW s \in Has(st), NEW p \in Has(st),
         NEW req \in Requests, Asked(st, s, req)
  PROVE  Comparable(st[p], req.c)
<1>1. PICK m \in Nat : Cut(LogOf(st), req.c, m)
  BY DEF Asked
<1>2. Cut(LogOf(st), st[p].c, Len(st[p].clog)) /\ LogOf(st) \in Seq(LogicalTime)
  BY LogHeld DEF Agree, PartOfLog
<1>3. Len(st[p].clog) \in Nat /\ st[p].c \in Vectors /\ req.c \in Vectors
  BY Held, Entries, RequestsAre
<1>4. CASE m <= Len(st[p].clog)
  <2>1. \A q \in Servers : req.c[q] <= st[p].c[q]
    BY <1>1, <1>2, <1>4, CutsCompare
  <2> QED BY <2>1, <1>3, EarlierIsPointwise DEF Comparable
<1>5. CASE Len(st[p].clog) <= m
  <2>1. \A q \in Servers : st[p].c[q] <= req.c[q]
    BY <1>1, <1>2, <1>5, CutsCompare
  <2> QED BY <2>1, <1>3, EarlierIsPointwise DEF Comparable
<1> QED BY <1>3, <1>4, <1>5

\* C is read now.
LEMMA AsksC ==
  ASSUME NEW n \in Nat, NEW st, Sound(st, n), Agree(st), NEW s \in Has(st)
  PROVE  Asked(st, s, ToMsg(st[s].c, st[s].c))
<1> DEFINE req == ToMsg(st[s].c, st[s].c)
<1>1. req.c = st[s].c /\ req.f = st[s].c
  BY DEF ToMsg
<1>2. \A p \in Servers : st[s].c[p] \in Nat /\ st[s].f[p] \in Nat /\ st[s].c[p] <= st[s].f[p]
  BY Held
<1>3. Cut(LogOf(st), st[s].c, Len(st[s].clog)) /\ Len(st[s].clog) \in Nat
  BY Held, Entries DEF Agree, PartOfLog
<1> HIDE DEF req
<1>4. \A p \in Servers : req.c[p] <= req.f[p] /\ req.f[p] <= st[s].f[p]
  BY <1>1, <1>2
<1> QED BY <1>1, <1>3, <1>4 DEF Asked, req

\* F is read now, C was read earlier.
LEMMA AsksWell ==
  ASSUME NEW n \in Nat, NEW st, Sound(st, n), Agree(st), NEW s \in Servers, NEW c,
         Asked(st, s, ToMsg(c, c))
  PROVE  Asked(st, s, ToMsg(c, st[s].f))
<1>1. /\ ToMsg(c, c).c = c /\ ToMsg(c, c).f = c
      /\ ToMsg(c, st[s].f).c = c /\ ToMsg(c, st[s].f).f = st[s].f
  BY DEF ToMsg
<1>2. s \in Has(st) /\ \A p \in Servers : c[p] <= st[s].f[p] /\ st[s].f[p] \in Nat
  BY <1>1, Held DEF Asked
<1>3. \A p \in Servers : st[s].f[p] <= st[s].f[p]
  BY <1>2
<1> QED BY <1>1, <1>2, <1>3 DEF Asked

-----------------------------------------------------------------------------
(***************************************************************************)
(* AgreeInv is inductive.                                                  *)
(***************************************************************************)
LEMMA GrowsSelf ==
  ASSUME NEW n \in Nat, NEW st, Sound(st, n), Agree(st)
  PROVE  Grows(st, st)
<1>1. LogOf(st) \in Seq(LogicalTime) /\ IsPrefix(LogOf(st), LogOf(st))
  BY LogHeld, PrefixConcat
<1>2. ASSUME NEW s \in Has(st)
      PROVE  IsPrefix(st[s].clog, st[s].clog) /\ \A p \in Servers : st[s].f[p] <= st[s].f[p]
  <2>1. st[s].clog \in Seq(LogicalTime) /\ \A p \in Servers : st[s].f[p] \in Nat
    BY Held
  <2> QED BY <2>1, PrefixConcat
<1> QED BY <1>1, <1>2 DEF Grows, Agree, Homes

LEMMA WriteSupplied ==
  ASSUME SoundInv, Agree(storage), NEW k \in Clients, write[k] # NoReq,
         ServerOf[k] \in Has(storage)
  PROVE  Supplied(storage, ServerOf[k], WriteCommits(k), WriteTentatives(k))
<1> DEFINE s == ServerOf[k]
           w == write[k]
           len == Len(storage[s].clog)
<1>1. Sound(storage, now) /\ now \in Nat
  BY DEF SoundInv, RestInv
<1>2. /\ ToSet(WriteCommits(k)) \cup WriteTentatives(k) = {w} /\ w.name = s
      /\ WriteCommits(k) \in Seq(LogicalTime)
  BY WriteApplies
<1>3. /\ s = Master => WriteTentatives(k) = {}
      /\ s # Master => WriteCommits(k) = <<>> /\ WriteTentatives(k) = {w}
  BY DEF WriteCommits, WriteTentatives
<1>4. /\ storage[s].clog \in Seq(LogicalTime) /\ storage[s].c \in Vectors
      /\ IsPrefix(storage[s].clog, LogOf(storage)) /\ Cut(LogOf(storage), storage[s].c, len)
      /\ len \in Nat
  BY <1>1, Held, Entries DEF Agree, PartOfLog
<1>5. ASSUME s # Master PROVE Extends(storage, s, <<>>)
  <2>1. storage[s].clog \o <<>> = storage[s].clog /\ len + Len(<<>>) = len
    BY <1>4, PrefixConcat
  <2> QED BY <2>1, <1>4, <1>5 DEF Extends
<1>6. Fills(storage, s, {w})
  <2> SUFFICES ASSUME NEW u \in Has(storage), NEW y \in Holds(storage, u),
                      y.name = s, storage[s].f[y.name] < y.ts
               PROVE  FALSE
    BY <1>2 DEF Fills
  <2>1. y \in Holds(storage, s)
    BY DEF Agree, Homes, KnownAtHome
  <2>2. y.ts \in Nat /\ y.ts <= storage[s].f[y.name] /\ storage[s].f[y.name] \in Nat
    BY <2>1, <1>1, Held
  <2> QED BY <2>2
<1> QED BY <1>2, <1>3, <1>5, <1>6 DEF Supplied

LEMMA AnswerSupplied ==
  ASSUME SoundInv, NEW s \in Servers,
         Answered(storage, s, Commits(answer[s]), Tentatives(answer[s]))
  PROVE  Supplied(storage, s, AnsCommits(s), AnsTentatives(s))
<1>1. ToSet(AnsCommits(s)) \cup AnsTentatives(s)
        = ToSet(Commits(answer[s])) \cup Tentatives(answer[s])
  BY AnswerApplies
<1>2. s = Master => AnsTentatives(s) = {}
  BY DEF AnsTentatives
<1>3. s # Master => AnsCommits(s) = Commits(answer[s]) /\ AnsTentatives(s) = Tentatives(answer[s])
  BY DEF AnsTentatives, AnsCommits
<1> QED BY <1>1, <1>2, <1>3 DEF Supplied, Answered

\* The times move on.
LEMMA TimeMoves ==
  ASSUME SoundInv, OutInv, [Next]_vars
  PROVE  now' \in Nat /\ Sound(storage, now') /\ Sound(storage', now')
<1>1. SoundInv'
  BY SoundStep
<1>2. now' = now \/ now' = now + 1
  <2>1. CASE UNCHANGED vars
    BY <2>1 DEF vars
  <2> QED BY <2>1, Steps DEF CheckNone, Create, AppendChar, GetString, Write, Read,
             AEStep, ReadC, Send, SendFails, PeerAnswers, PeerRefuses, ApplyAnswer,
             Sever, Unsever
<1>3. Sound(storage, now) /\ now \in Nat
  BY DEF SoundInv, RestInv
<1>4. Sound(storage, now')
  BY <1>2, <1>3, LaterStamps
<1> QED BY <1>1, <1>4 DEF SoundInv, RestInv

\* A step that replaces no Storage.
LEMMA NoneReplaced ==
  ASSUME SoundInv, [Next]_vars, ~replaced'
  PROVE  ~replaced /\ \A t \in Threads : Create(t) => storage[at[t]] = None
<1>1. replaced \in BOOLEAN
  BY DEF SoundInv, RestInv
<1>2. ASSUME NEW t \in Threads, Create(t) PROVE ~replaced /\ storage[at[t]] = None
  BY <1>2 DEF Create
<1>3. ASSUME ~ \E t \in Threads : Create(t) PROVE ~replaced
  <2>1. replaced' = replaced
    <3>1. CASE UNCHANGED vars
      BY <3>1 DEF vars
    <3> QED BY <3>1, <1>3, Steps DEF CheckNone, AppendChar, GetString, Write, Read,
               AEStep, ReadC, Send, SendFails, PeerAnswers, PeerRefuses, ApplyAnswer,
               Sever, Unsever, threadVars
  <2> QED BY <2>1
<1> QED BY <1>2, <1>3

LEMMA StoresStep ==
  ASSUME SoundInv, OutInv, AgreeInv, [Next]_vars, ~replaced'
  PROVE  /\ Agree(storage') /\ Grows(storage, storage')
         /\ \A s \in Has(storage) : s # Master /\ ~ApplyAnswer(ae(s)) =>
              storage'[s].c = storage[s].c /\ storage'[s].clog = storage[s].clog
<1>1. ~replaced /\ \A t \in Threads : Create(t) => storage[at[t]] = None
  BY NoneReplaced
<1>2. Sound(storage, now) /\ now \in Nat /\ Agree(storage) /\ SessionInv
  BY <1>1 DEF SoundInv, RestInv, AgreeInv
<1>3. CASE storage' = storage
  BY <1>2, <1>3, GrowsSelf
<1>4. ASSUME NEW t \in Threads, Create(t), storage' = [storage EXCEPT ![at[t]] = EmptyStorage]
      PROVE  /\ Agree(storage') /\ Grows(storage, storage')
             /\ \A s \in Has(storage) : storage'[s] = storage[s]
  <2>1. at[t] \in Servers /\ storage[at[t]] = None /\ storage \in [Servers -> Storages \cup {None}]
    BY <1>1, <1>4, AtStorage
  <2>2. Agree(storage') /\ Grows(storage, storage')
    BY <2>1, <1>2, <1>4, CreateAgrees
  <2>3. \A s \in Has(storage) : s # at[t] /\ s \in Servers
    BY <2>1 DEF Has
  <2> QED BY <2>1, <2>2, <2>3, <1>4
<1>5. ASSUME NEW k \in Clients, write[k] # NoReq, ServerOf[k] \in Has(storage),
             storage' = Applied(storage, ServerOf[k], WriteCommits(k), WriteTentatives(k))
      PROVE  /\ Agree(storage') /\ Grows(storage, storage')
             /\ \A s \in Has(storage) : s # Master =>
                  storage'[s].c = storage[s].c /\ storage'[s].clog = storage[s].clog
  <2>1. /\ WriteCommits(k) \in Seq(LogicalTime) /\ IsInjective(WriteCommits(k))
        /\ ToSet(WriteCommits(k)) \subseteq Stamps(now) /\ WriteTentatives(k) \subseteq Stamps(now)
    BY <1>5, WriteApplies
  <2>2. Supplied(storage, ServerOf[k], WriteCommits(k), WriteTentatives(k))
    BY <1>2, <1>5, WriteSupplied
  <2>3. Agree(storage') /\ Grows(storage, storage')
    BY <2>1, <2>2, <1>2, <1>5, ApplyAgrees
  <2>4. /\ Sound(storage', now)
        /\ \A p \in Servers : p # ServerOf[k] => storage'[p] = storage[p]
        /\ Adds(storage'[ServerOf[k]], storage[ServerOf[k]], WriteCommits(k), WriteTentatives(k))
    BY <2>1, <1>2, <1>5, ApplySound
  <2>5. ASSUME NEW s \in Has(storage), s # Master, s = ServerOf[k]
        PROVE  storage'[s].c = storage[s].c /\ storage'[s].clog = storage[s].clog
    <3>1. WriteCommits(k) = <<>> /\ ToSet(<<>>) = {}
      BY <2>5 DEF WriteCommits, ToSet
    <3>2. /\ storage'[s].clog = storage[s].clog \o Uncovered(storage[s].c, <<>>)
          /\ IsCover(storage'[s].c, storage[s].c, Fresh(storage[s].c, {}))
      BY <2>4, <2>5, <3>1 DEF Adds
    <3>3. /\ storage[s].clog \in Seq(LogicalTime) /\ storage[s].c \in Vectors
          /\ storage'[s].c \in Vectors
      BY <3>2, <1>2, Held DEF IsCover
    <3>4. \A p \in Servers : storage'[s].c[p] = storage[s].c[p]
      BY <3>2 DEF IsCover, Fresh
    <3>5. storage'[s].c = storage[s].c
      BY <3>3, <3>4 DEF Vectors
    <3>6. Uncovered(storage[s].c, <<>>) = <<>>
      <4>0. <<>> \in Seq(LogicalTime)
        OBVIOUS
      <4>1. Uncovered(storage[s].c, <<>>) \in Seq(LogicalTime)
        BY <4>0, UncoveredLists
      <4>2. ToSet(Uncovered(storage[s].c, <<>>)) = {}
        BY <4>0, <3>1, UncoveredLists
      <4> DEFINE q == Uncovered(storage[s].c, <<>>)
      <4> HIDE DEF q
      <4>3. q \in Seq(LogicalTime) /\ ToSet(q) = {q[i] : i \in 1 .. Len(q)} /\ Len(q) \in Nat
        BY <4>1, Entries DEF q
      <4>4. \A i \in 1 .. Len(q) : FALSE
        BY <4>2, <4>3 DEF q
      <4>5. ~(1 \in 1 .. Len(q))
        BY <4>4
      <4>6. Len(q) = 0
        BY <4>3, <4>5
      <4>7. q = <<>>
        BY <4>3, <4>6
      <4> QED BY <4>7 DEF q
    <3>7. storage[s].clog \o <<>> = storage[s].clog
      BY <3>3, PrefixConcat
    <3> QED BY <3>2, <3>5, <3>6, <3>7
  <2>6. \A s \in Has(storage) : s # Master => storage'[s].c = storage[s].c /\ storage'[s].clog = storage[s].clog
    BY <2>4, <2>5 DEF Has
  <2> QED BY <2>3, <2>6
<1>6. ASSUME NEW s \in Servers, ApplyAnswer(ae(s)), s \in Has(storage),
             storage' = Applied(storage, s, AnsCommits(s), AnsTentatives(s))
      PROVE  /\ Agree(storage') /\ Grows(storage, storage')
             /\ \A u \in Has(storage) : ~ApplyAnswer(ae(u)) => storage'[u] = storage[u]
  <2>1. /\ AnsCommits(s) \in Seq(LogicalTime) /\ IsInjective(AnsCommits(s))
        /\ ToSet(AnsCommits(s)) \subseteq Stamps(now) /\ AnsTentatives(s) \subseteq Stamps(now)
    BY AnswerApplies
  <2>2. Supplied(storage, s, AnsCommits(s), AnsTentatives(s))
    <3>1. Answered(storage, s, Commits(answer[s]), Tentatives(answer[s]))
      BY <1>2, <1>6 DEF SessionInv, ApplyAnswer
    <3> QED BY <3>1, AnswerSupplied
  <2>3. Agree(storage') /\ Grows(storage, storage')
    BY <2>1, <2>2, <1>2, <1>6, ApplyAgrees
  <2>4. \A p \in Servers : p # s => storage'[p] = storage[p]
    BY <2>1, <1>2, <1>6, ApplySound
  <2> QED BY <2>3, <2>4, <1>6 DEF Has
<1> QED BY <1>3, <1>4, <1>5, <1>6, StorageSteps

\* The session of s, as it is now.
Session(s) ==
  /\ pc[ae(s)] = "ask" => Asked(storage, s, ToMsg(vectors[s].c, vectors[s].c))
  /\ at[ae(s)] # s => Asked(storage, s, vectors[s])
  /\ pc[ae(s)] = "apply" => Answered(storage, s, Commits(answer[s]), Tentatives(answer[s]))
  /\ pc[ae(s)] # "dead"

\* The step does nothing in it.
Still(s) ==
  /\ at'[ae(s)] = at[ae(s)] /\ vectors'[s] = vectors[s] /\ answer'[s] = answer[s]
  /\ pc'[ae(s)] \in {"ask", "apply", "dead"} => pc'[ae(s)] = pc[ae(s)]
  /\ ~ApplyAnswer(ae(s))

LEMMA StillSession ==
  ASSUME SoundInv, OutInv, AgreeInv, [Next]_vars, ~replaced', NEW s \in Servers,
         Session(s), Still(s)
  PROVE  Session(s)'
<1>1. now' \in Nat /\ Sound(storage, now') /\ Sound(storage', now')
  BY TimeMoves
<1>2. /\ Grows(storage, storage')
      /\ s \in Has(storage) /\ s # Master =>
           storage'[s].c = storage[s].c /\ storage'[s].clog = storage[s].clog
  BY StoresStep DEF Still
<1>3. ASSUME at[ae(s)] # s PROVE Asked(storage', s, vectors[s])
  <2>1. Asked(storage, s, vectors[s]) /\ vectors[s] \in Requests /\ s \in Has(storage)
    BY <1>3 DEF Session, SoundInv, ThreadInv, Asked
  <2> QED BY <2>1, <1>1, <1>2, AskedKept
<1>4. ASSUME pc[ae(s)] = "apply"
      PROVE  Answered(storage', s, Commits(answer[s]), Tentatives(answer[s]))
  <2>1. Answered(storage, s, Commits(answer[s]), Tentatives(answer[s]))
    BY <1>4 DEF Session
  <2>2. /\ answer[s] \in Answers /\ s \in Has(storage)
        /\ Commits(answer[s]) \in Seq(LogicalTime) /\ Tentatives(answer[s]) \subseteq LogicalTime
    BY <2>1, AnswersAre DEF SoundInv, AnswerInv, Answered
  <2> QED BY <2>1, <2>2, <1>1, <1>2, AnsweredKept
<1>5. ASSUME pc[ae(s)] = "ask" PROVE Asked(storage', s, ToMsg(vectors[s].c, vectors[s].c))
  <2> DEFINE req == ToMsg(vectors[s].c, vectors[s].c)
  <2>1. Asked(storage, s, req) /\ s \in Has(storage)
    BY <1>5 DEF Session, Asked
  <2>2. req \in Requests
    BY <1>5, RequestsAre DEF SoundInv, ThreadInv, Halves
  <2> HIDE DEF req
  <2>3. Asked(storage', s, req)
    BY <2>1, <2>2, <1>1, <1>2, AskedKept
  <2> QED BY <2>3 DEF req
<1> QED BY <1>3, <1>4, <1>5 DEF Session, Still

LEMMA SessionStep ==
  ASSUME SoundInv, OutInv, AgreeInv, [Next]_vars, ~replaced'
  PROVE  SessionInv'
<1>1. ~replaced /\ Sound(storage, now) /\ now \in Nat /\ Agree(storage)
  BY NoneReplaced DEF SoundInv, RestInv, AgreeInv
<1>2. \A s \in Servers : Session(s)
  BY <1>1 DEF AgreeInv, SessionInv, Session
<1> SUFFICES ASSUME NEW u \in Servers PROVE Session(u)'
  BY DEF SessionInv, Session
<1>3. CASE Still(u)
  BY <1>2, <1>3, StillSession
<1>4. /\ at \in [Threads -> Servers] /\ vectors \in [Servers -> Requests \cup Halves \cup {None}]
      /\ pc \in [Threads -> {"idle", "check", "create", "use", "ask", "apply", "dead"}]
      /\ peer[u] # u /\ (at[ae(u)] # u => vectors[u] \in Requests /\ pc[ae(u)] # "apply")
      /\ pc[ae(u)] = "ask" => vectors[u] \in Halves
  BY DEF SoundInv, ThreadInv
<1>5. ae(u) \in Threads /\ ae(u) \notin Clients /\ ae(u)[2] = u /\ \A s \in Servers : ae(s) = ae(u) => s = u
  BY ThreadsAre DEF ae
<1>6. CASE UNCHANGED vars
  <2>1. UNCHANGED <<pc, at, vectors, answer, replaced, storage>>
    BY <1>6 DEF vars, threadVars
  <2> QED BY <2>1, <1>2 DEF Session
<1>7. ASSUME NEW t \in Threads, CheckNone(t) \/ Create(t) PROVE Session(u)'
  <2>1. /\ at' = at /\ vectors' = vectors /\ answer' = answer
        /\ \E x \in {"create", "use"} : pc' = [pc EXCEPT ![t] = x]
        /\ pc[t] # "apply"
    BY <1>7 DEF CheckNone, Create
  <2>2. pc'[ae(u)] \in {"ask", "apply", "dead"} => pc'[ae(u)] = pc[ae(u)]
    BY <2>1, <1>4, <1>5
  <2>3. CASE ApplyAnswer(ae(u))
    <3>1. pc[ae(u)] = "apply" /\ pc' = [pc EXCEPT ![ae(u)] = "check"]
      BY <2>3 DEF ApplyAnswer
    <3>2. t # ae(u) /\ pc'[ae(u)] = "check"
      BY <2>1, <3>1, <1>4, <1>5
    <3> QED BY <3>1, <3>2, <2>1, <1>4, <1>5
  <2> QED BY <2>1, <2>2, <2>3, <1>3 DEF Still
<1>8. ASSUME NEW k \in Clients,
             AppendChar(k) \/ GetString(k) \/ Write(k) \/ Read(k)
      PROVE  Session(u)'
  <2>1. k # ae(u) /\ k \in Threads
    BY <1>5, ThreadsAre
  <2>2. UNCHANGED <<at, vectors, answer>> /\ \E x : pc' = [pc EXCEPT ![k] = x]
    BY <1>8 DEF AppendChar, GetString, Request, Write, Read
  <2>3. pc'[ae(u)] = pc[ae(u)]
    BY <2>1, <2>2, <1>4, <1>5
  <2>4. ~ApplyAnswer(ae(u))
    <3> SUFFICES ASSUME ApplyAnswer(ae(u)) PROVE FALSE
      OBVIOUS
    <3>1. pc[ae(u)] = "apply" /\ pc' = [pc EXCEPT ![ae(u)] = "check"]
      BY DEF ApplyAnswer
    <3> QED BY <3>1, <2>3, <1>4, <1>5
  <2> QED BY <2>2, <2>3, <2>4, <1>3 DEF Still
<1>9. ASSUME NEW s \in Servers, AEStep(ae(s)), s # u PROVE Session(u)'
  <2>1. /\ \E x : pc' = [pc EXCEPT ![ae(s)] = x]
        /\ at' = at \/ \E x : at' = [at EXCEPT ![ae(s)] = x]
        /\ vectors' = vectors \/ \E x : vectors' = [vectors EXCEPT ![s] = x]
        /\ answer' = answer \/ \E x : answer' = [answer EXCEPT ![s] = x]
    BY <1>9, AEStepWrites
  <2>2. ae(s) \in Threads /\ ae(s) # ae(u)
    BY <1>5, <1>9, ThreadsAre
  <2>3. answer \in [Servers -> Answers]
    BY DEF SoundInv, AnswerInv
  <2>4. /\ pc'[ae(u)] = pc[ae(u)] /\ at'[ae(u)] = at[ae(u)]
        /\ vectors'[u] = vectors[u] /\ answer'[u] = answer[u]
    BY <2>1, <2>2, <2>3, <1>4, <1>5, <1>9
  <2>5. ~ApplyAnswer(ae(u))
    <3> SUFFICES ASSUME ApplyAnswer(ae(u)) PROVE FALSE
      OBVIOUS
    <3>1. pc[ae(u)] = "apply" /\ pc' = [pc EXCEPT ![ae(u)] = "check"]
      BY DEF ApplyAnswer
    <3> QED BY <3>1, <2>4, <1>4, <1>5
  <2> QED BY <2>4, <2>5, <1>3 DEF Still
<1>10. CASE ReadC(ae(u))
  <2>1. /\ pc' = [pc EXCEPT ![ae(u)] = "ask"] /\ storage' = storage /\ at' = at
        /\ vectors' = [vectors EXCEPT ![u] = [c |-> storage[u].c]]
        /\ HasStorage(ae(u)) /\ at[ae(u)] = u
    BY <1>5, <1>10 DEF ReadC
  <2>2. u \in Has(storage)
    BY <2>1, <1>5, AtStorage
  <2>3. pc'[ae(u)] = "ask" /\ vectors'[u].c = storage[u].c /\ at'[ae(u)] = u
    BY <2>1, <1>4, <1>5
  <2>4. Asked(storage, u, ToMsg(storage[u].c, storage[u].c))
    BY <2>2, <1>1, AsksC
  <2> QED BY <2>1, <2>3, <2>4 DEF Session
<1>11. CASE SendFails(ae(u)) \/ Send(ae(u))
  <2>1. CASE SendFails(ae(u))
    <3>1. pc'[ae(u)] = "check" /\ at'[ae(u)] = at[ae(u)] /\ pc[ae(u)] = "ask"
      BY <1>4, <1>5, <2>1 DEF SendFails
    <3>2. at'[ae(u)] = u
      BY <3>1 DEF SoundInv, ThreadInv
    <3> QED BY <3>1, <3>2 DEF Session
  <2>2. CASE Send(ae(u))
    <3>1. /\ pc[ae(u)] = "ask" /\ pc' = [pc EXCEPT ![ae(u)] = "check"] /\ storage' = storage
          /\ vectors' = [vectors EXCEPT ![u] = ToMsg(vectors[u].c, storage[u].f)]
      BY <1>5, <2>2 DEF Send
    <3>2. pc'[ae(u)] = "check" /\ vectors'[u] = ToMsg(vectors[u].c, storage[u].f)
      BY <3>1, <1>4, <1>5
    <3>3. Asked(storage, u, ToMsg(vectors[u].c, storage[u].f))
      BY <3>1, <1>1, <1>2, AsksWell DEF Session
    <3> QED BY <3>1, <3>2, <3>3 DEF Session
  <2> QED BY <1>11, <2>1, <2>2
<1>12. CASE PeerAnswers(ae(u))
  <2> DEFINE p == at[ae(u)]
             req == vectors[u]
  <2>1. /\ p # u /\ p \in Has(storage) /\ req \in Requests
        /\ Commits(answer'[u]) = Uncovered(req.c, storage[p].clog)
        /\ Tentatives(answer'[u]) = {w \in storage[p].tlog : IsNew(req.f, w)}
    BY <1>12, PeerGives
  <2>2. Asked(storage, u, req) /\ u \in Has(storage)
    BY <2>1, <1>2 DEF Session, Asked
  <2>3. Answered(storage, u, Commits(answer'[u]), Tentatives(answer'[u]))
    BY <2>1, <2>2, <1>1, PeerAnswersWell
  <2>4. storage' = storage /\ at'[ae(u)] = u /\ pc'[ae(u)] = "apply"
    BY <1>4, <1>5, <1>12 DEF PeerAnswers
  <2> QED BY <2>3, <2>4 DEF Session
<1>13. CASE PeerRefuses(ae(u))
  <2> DEFINE p == at[ae(u)]
             req == vectors[u]
  <2>1. p # u /\ p \in Has(storage) /\ ~Comparable(storage[p], FromMsg(req).c)
    BY <1>5, <1>13, AtStorage DEF PeerRefuses
  <2>2. req \in Requests /\ Asked(storage, u, req) /\ u \in Has(storage)
    BY <2>1, <1>2, <1>4 DEF Session, Asked
  <2>3. Comparable(storage[p], req.c)
    BY <2>1, <2>2, <1>1, PeerComparable
  <2> QED BY <2>1, <2>2, <2>3, RequestsAre
<1>14. CASE ApplyAnswer(ae(u))
  <2>1. pc[ae(u)] = "apply" /\ at' = at /\ pc' = [pc EXCEPT ![ae(u)] = "check"]
    BY <1>14 DEF ApplyAnswer
  <2>2. at'[ae(u)] = u /\ pc'[ae(u)] = "check"
    BY <2>1, <1>4, <1>5
  <2> QED BY <2>2 DEF Session
<1>15. ASSUME NEW s \in Servers, NEW p \in Peers(s), Sever(s, p) \/ Unsever(s, p)
       PROVE  Session(u)'
  <2>1. UNCHANGED <<pc, at, vectors, answer, storage>>
    BY <1>15 DEF Sever, Unsever, threadVars
  <2> QED BY <2>1, <1>2 DEF Session
<1> QED BY <1>6, <1>7, <1>8, <1>9, <1>10, <1>11, <1>12, <1>13, <1>14, <1>15, Steps DEF AEStep

LEMMA AgreeInit == Init => AgreeInv
<1> SUFFICES ASSUME Init PROVE Agree(storage) /\ SessionInv
  BY DEF AgreeInv
<1>1. SoundInv /\ Sound(storage, now) /\ now \in Nat
  BY SoundInit DEF SoundInv, RestInv
<1>2. /\ \A s \in Servers : at[ae(s)] = s /\ pc[ae(s)] = "check"
      /\ \A k \in Clients : pc[k] = "idle"
  BY ThreadsAre DEF Init, Home
<1>3. SessionInv
  BY <1>2 DEF SessionInv
<1>4. \A s \in Has(storage) : s \in Servers /\ storage[s] = EmptyStorage
  BY DEF Init, Has
<1>5. /\ EmptyStorage.clog = <<>> /\ EmptyStorage.tlog = {} /\ EmptyStorage.c = NewVtime
      /\ ToSet(<<>>) = {} /\ Len(<<>>) = 0
  BY DEF EmptyStorage, ToSet
<1>6. \A s \in Has(storage) : Holds(storage, s) = {}
  BY <1>4, <1>5 DEF Holds
<1>7. LogOf(storage) \in Seq(LogicalTime) /\ \A i \in 1 .. Len(LogOf(storage)) : 0 < LogOf(storage)[i].ts
  BY <1>1, LogHeld
<1>8. PartOfLog(storage)
  BY <1>4, <1>5, <1>7, EmptyCut, PrefixConcat DEF PartOfLog
<1>9. MasterCommits(storage) /\ Homes(storage) /\ Gapless(storage)
  BY <1>4, <1>5, <1>6 DEF MasterCommits, Homes, Gapless
<1> QED BY <1>3, <1>8, <1>9 DEF Agree

LEMMA AgreeAlways == Spec => [](SoundInv /\ OutInv /\ AgreeInv)
<1>1. Init => SoundInv /\ OutInv /\ AgreeInv
  BY SoundInit, OutInit, AgreeInit
<1>2. SoundInv /\ OutInv /\ AgreeInv /\ [Next]_vars => AgreeInv'
  BY StoresStep, SessionStep DEF AgreeInv
<1>3. SoundInv /\ OutInv /\ AgreeInv /\ [Next]_vars => (SoundInv /\ OutInv /\ AgreeInv)'
  BY <1>2, SoundStep, OutStep
<1> QED BY <1>1, <1>3, PTL DEF Spec

(***************************************************************************)
(* All servers commit the same writes in the same order: of any two        *)
(* committed logs one is a prefix of the other, for any number of servers, *)
(* clients and severed connections, as long as the race on the property    *)
(* storage replaced no Storage.                                            *)
(***************************************************************************)
THEOREM Agreement == Spec => []CommittedAgree
<1>1. SoundInv /\ AgreeInv => CommittedAgree
  <2> SUFFICES ASSUME SoundInv, AgreeInv, ~replaced, NEW s \in Made, NEW u \in Made
               PROVE  \/ IsPrefix(storage[s].clog, storage[u].clog)
                      \/ IsPrefix(storage[u].clog, storage[s].clog)
    BY DEF CommittedAgree
  <2> DEFINE log == LogOf(storage)
             a == storage[s].clog
             b == storage[u].clog
  <2>1. s \in Has(storage) /\ u \in Has(storage) /\ Sound(storage, now) /\ now \in Nat
    BY DEF Made, Has, SoundInv, RestInv
  <2>2. IsPrefix(a, log) /\ IsPrefix(b, log)
    BY <2>1 DEF AgreeInv, Agree, PartOfLog
  <2>3. a \in Seq(LogicalTime) /\ b \in Seq(LogicalTime) /\ log \in Seq(LogicalTime)
    BY <2>1, Held, LogHeld
  <2> HIDE DEF a, b, log
  <2>4. /\ \A i \in 1 .. Len(a) : a[i] = log[i]
        /\ \A i \in 1 .. Len(b) : b[i] = log[i]
        /\ Len(a) \in Nat /\ Len(b) \in Nat
    BY <2>2, <2>3, PrefixEntries, Entries
  <2>5. CASE Len(a) <= Len(b)
    <3>1. \A i \in 1 .. Len(a) : a[i] = b[i]
      BY <2>4, <2>5
    <3> QED BY <3>1, <2>3, <2>5, PrefixEntries DEF a, b
  <2>6. CASE Len(b) <= Len(a)
    <3>1. \A i \in 1 .. Len(b) : b[i] = a[i]
      BY <2>4, <2>6
    <3> QED BY <3>1, <2>3, <2>6, PrefixEntries DEF a, b
  <2> QED BY <2>4, <2>5, <2>6
<1> QED BY <1>1, AgreeAlways, PTL

(***************************************************************************)
(* Of all the writes that the servers hold each knows exactly those that   *)
(* its F covers: one time per server says what an anti-entropy session has *)
(* to send, also when a write overtakes another on its way over a peer.    *)
(***************************************************************************)
THEOREM VectorsTell == Spec => []NoGaps
<1>1. SoundInv /\ AgreeInv => NoGaps
  <2> SUFFICES ASSUME SoundInv, AgreeInv, ~replaced, NEW s \in Made, NEW u \in Made,
                      NEW w \in Known(u)
               PROVE  (w \in Known(s)) <=> IsLtimeEarlier(storage[s].f, w)
    BY DEF NoGaps
  <2>1. s \in Has(storage) /\ u \in Has(storage) /\ Sound(storage, now) /\ now \in Nat
    BY DEF Made, Has, SoundInv, RestInv
  <2>2. Known(s) = Holds(storage, s) /\ Known(u) = Holds(storage, u)
    BY DEF Known, Committed, Holds
  <2>3. w \in Known(s) => IsLtimeEarlier(storage[s].f, w)
    BY <2>1, <2>2, Held DEF IsLtimeEarlier
  <2>4. IsLtimeEarlier(storage[s].f, w) => w \in Known(s)
    BY <2>1, <2>2 DEF IsLtimeEarlier, AgreeInv, Agree, Gapless
  <2> QED BY <2>3, <2>4
<1> QED BY <1>1, AgreeAlways, PTL

(***************************************************************************)
(* The assertion of anti_entropy never fails while no Storage is replaced, *)
(* although the vectors of a request may be old when the peer reads them:  *)
(* so no anti-entropy thread dies of an answer without logs.               *)
(***************************************************************************)
THEOREM ThreadsGoOn == Spec => []AntiEntropyGoesOn
<1>1. AgreeInv => AntiEntropyGoesOn
  BY ThreadsAre DEF AgreeInv, SessionInv, AntiEntropyGoesOn
<1> QED BY <1>1, AgreeAlways, PTL

-----------------------------------------------------------------------------
(***************************************************************************)
(* Acknowledged writes.                                                    *)
(***************************************************************************)

\* A write that is later than all its server has is not skipped there.
LEMMA WriteKept ==
  ASSUME SoundInv, NEW k \in Clients, write[k] # NoReq, ServerOf[k] \in Has(storage),
         storage[ServerOf[k]].f[ServerOf[k]] < write[k].ts,
         storage' = Applied(storage, ServerOf[k], WriteCommits(k), WriteTentatives(k))
  PROVE  KnownAtHome(storage', write[k])
<1> DEFINE s == ServerOf[k]
           w == write[k]
<1>1. Sound(storage, now) /\ now \in Nat
  BY DEF SoundInv, RestInv
<1>2. /\ WriteCommits(k) \in Seq(LogicalTime) /\ IsInjective(WriteCommits(k))
      /\ ToSet(WriteCommits(k)) \cup WriteTentatives(k) = {w}
      /\ ToSet(WriteCommits(k)) \subseteq Stamps(now) /\ WriteTentatives(k) \subseteq Stamps(now)
      /\ w \in Stamps(now) /\ w.name = s
  BY WriteApplies
<1>3. /\ Has(storage') = Has(storage)
      /\ Holds(storage', s) = Holds(storage, s) \cup Fresh(storage[s].c, ToSet(WriteCommits(k)))
                                                \cup Fresh(storage[s].f, WriteTentatives(k))
  BY <1>1, <1>2, ApplySound
<1>4. s \in Servers /\ w.ts \in Nat
  BY <1>2 DEF Stamps, LogicalTime
<1>5. storage[s].c[s] \in Nat /\ storage[s].f[s] \in Nat /\ storage[s].c[s] <= storage[s].f[s]
  BY <1>1, <1>4, Held
<1>6. IsNew(storage[s].c, w) /\ IsNew(storage[s].f, w)
  <2>1. ~(w.ts <= storage[s].c[s]) /\ ~(w.ts <= storage[s].f[s])
    BY <1>4, <1>5
  <2> QED BY <2>1, <1>2 DEF IsNew, IsLtimeEarlier
<1>7. w \in Holds(storage', s)
  BY <1>2, <1>3, <1>6 DEF Fresh
<1> QED BY <1>2, <1>3, <1>7 DEF KnownAtHome

\* An answer brings a server nothing of its own that it does not have.
LEMMA AnswerOwn ==
  ASSUME SoundInv, NEW s \in Has(storage), Agree(storage),
         Answered(storage, s, Commits(answer[s]), Tentatives(answer[s])),
         storage' = Applied(storage, s, AnsCommits(s), AnsTentatives(s))
  PROVE  storage'[s].f[s] = storage[s].f[s]
<1> DEFINE W == ToSet(AnsCommits(s)) \cup AnsTentatives(s)
           cs == Fresh(storage[s].c, ToSet(AnsCommits(s)))
           ts == Fresh(storage[s].f, AnsTentatives(s))
<1>1. Sound(storage, now) /\ now \in Nat /\ s \in Servers
  BY DEF SoundInv, RestInv, Has
<1>2. /\ AnsCommits(s) \in Seq(LogicalTime) /\ IsInjective(AnsCommits(s))
      /\ ToSet(AnsCommits(s)) \subseteq Stamps(now) /\ AnsTentatives(s) \subseteq Stamps(now)
      /\ W = ToSet(Commits(answer[s])) \cup Tentatives(answer[s])
  BY <1>1, AnswerApplies
<1>3. Sound(storage', now) /\ Adds(storage'[s], storage[s], AnsCommits(s), AnsTentatives(s))
  BY <1>1, <1>2, ApplySound
<1>4. IsCover(storage'[s].f, storage[s].f, cs \cup ts)
  BY <1>3 DEF Adds
<1>5. cs \cup ts \subseteq W
  BY DEF Fresh
<1>6. \A x \in W : KnownAtHome(storage, x)
  BY <1>2 DEF Answered
<1> HIDE DEF cs, ts, W
<1>7. storage[s].f[s] \in Nat /\ storage'[s].f[s] \in Nat /\ storage[s].f[s] <= storage'[s].f[s]
  BY <1>1, <1>4, Held DEF IsCover, Vectors
<1>8. ASSUME NEW x \in cs \cup ts, x.name = s, x.ts = storage'[s].f[s]
      PROVE  storage'[s].f[s] <= storage[s].f[s]
  <2>1. x \in Holds(storage, s)
    BY <1>5, <1>6, <1>8 DEF KnownAtHome
  <2> QED BY <2>1, <1>1, <1>8, Held
<1>9. storage'[s].f[s] = storage[s].f[s] \/ \E x \in cs \cup ts : x.name = s /\ x.ts = storage'[s].f[s]
  BY <1>1, <1>4 DEF IsCover
<1> QED BY <1>7, <1>8, <1>9

LEMMA AckStep ==
  ASSUME OneClientEach, SoundInv, OutInv, AgreeInv, AckInv, [Next]_vars, ~replaced'
  PROVE  /\ \A w \in acked' : KnownAtHome(storage', w)
         /\ \A k \in Clients : write'[k] # NoReq /\ ServerOf[k] \in Has(storage') =>
              storage'[ServerOf[k]].f[ServerOf[k]] < write'[k].ts
<1>1. /\ ~replaced /\ Sound(storage, now) /\ now \in Nat /\ Agree(storage) /\ SessionInv
      /\ \A t \in Threads : Create(t) => storage[at[t]] = None
  BY NoneReplaced DEF SoundInv, RestInv, AgreeInv
<1>2. /\ \A w \in acked : KnownAtHome(storage, w)
      /\ \A k \in Clients : write[k] # NoReq /\ ServerOf[k] \in Has(storage) =>
           storage[ServerOf[k]].f[ServerOf[k]] < write[k].ts
  BY <1>1 DEF AckInv
<1>3. Grows(storage, storage')
  BY StoresStep
<1>4. \A w \in acked : KnownAtHome(storage', w)
  BY <1>2, <1>3 DEF KnownAtHome, Grows
<1>5. /\ write \in [Clients -> LogicalTime] /\ storage \in [Servers -> Storages \cup {None}]
      /\ \A k \in Clients : ServerOf[k] \in Servers
      /\ \A k \in Clients : write[k] # NoReq => write[k].ts \in Nat /\ 0 < write[k].ts
  BY <1>1, ThreadsAre DEF SoundInv, WriteInv, Sound, Stamps, LogicalTime
<1>6. CASE UNCHANGED <<acked, write, storage>>
  BY <1>2, <1>6
<1>7. CASE UNCHANGED vars
  BY <1>6, <1>7 DEF vars, threadVars
<1>8. ASSUME NEW t \in Threads, CheckNone(t)
      PROVE  UNCHANGED <<acked, write, storage>>
  BY <1>8 DEF CheckNone
<1>9. ASSUME NEW k \in Clients, GetString(k) \/ Read(k)
      PROVE  UNCHANGED <<acked, write, storage>>
  BY <1>9 DEF GetString, Read
<1>10. ASSUME NEW s \in Servers, AEStep(ae(s)), ~ApplyAnswer(ae(s))
       PROVE  UNCHANGED <<acked, write, storage>>
  BY <1>10 DEF AEStep, ReadC, Send, SendFails, PeerAnswers, PeerRefuses
<1>11. ASSUME NEW s \in Servers, NEW p \in Peers(s), Sever(s, p) \/ Unsever(s, p)
       PROVE  UNCHANGED <<acked, write, storage>>
  BY <1>11 DEF Sever, Unsever, threadVars
<1>12. ASSUME NEW t \in Threads, Create(t), NEW k \in Clients, write'[k] # NoReq,
              ServerOf[k] \in Has(storage')
       PROVE  acked' = acked /\ storage'[ServerOf[k]].f[ServerOf[k]] < write'[k].ts
  <2> DEFINE h == ServerOf[k]
  <2>1. /\ acked' = acked /\ write' = write /\ at[t] \in Servers
        /\ storage' = [storage EXCEPT ![at[t]] = EmptyStorage]
    BY <1>12, AtStorage DEF Create
  <2>2. CASE at[t] = h
    <3>1. storage'[h].f[h] = 0
      BY <2>1, <2>2, <1>5 DEF EmptyStorage, NewVtime
    <3> QED BY <3>1, <2>1, <1>5, <1>12
  <2>3. CASE at[t] # h
    <3>1. storage'[h] = storage[h] /\ h \in Has(storage)
      BY <2>1, <2>3, <1>5, <1>12 DEF Has
    <3> QED BY <3>1, <2>1, <1>2, <1>12
  <2> QED BY <2>1, <2>2, <2>3
<1>13. ASSUME NEW j \in Clients, AppendChar(j), NEW k \in Clients, write'[k] # NoReq,
              ServerOf[k] \in Has(storage')
       PROVE  acked' = acked /\ storage'[ServerOf[k]].f[ServerOf[k]] < write'[k].ts
  <2> DEFINE h == ServerOf[k]
  <2>1. /\ acked' = acked /\ storage' = storage
        /\ write' = [write EXCEPT ![j] = [ts |-> now + 1, name |-> ServerOf[j]]]
    BY <1>13, DictsAre DEF AppendChar
  <2>2. CASE j = k
    <3>1. write'[k].ts = now + 1 /\ h \in Has(storage) /\ h \in Servers
      BY <2>1, <2>2, <1>5, <1>13
    <3>2. storage[h].f[h] <= now
      <4>1. storage[h].f[h] \in Nat
        BY <3>1, <1>1, Held
      <4>2. CASE storage[h].f[h] = 0
        BY <4>2, <1>1
      <4>3. CASE storage[h].f[h] # 0
        <5>1. PICK w \in Holds(storage, h) : w.name = h /\ w.ts = storage[h].f[h]
          BY <4>3, <3>1, <1>1, FIsHeld
        <5> QED BY <5>1, <3>1, <1>1, Held
      <4> QED BY <4>2, <4>3
    <3>3. storage[h].f[h] \in Nat
      BY <3>1, <1>1, Held
    <3> QED BY <3>1, <3>2, <3>3, <2>1, <1>1
  <2>3. CASE j # k
    BY <2>1, <2>3, <1>2, <1>5, <1>13
  <2> QED BY <2>2, <2>3
<1>14. ASSUME NEW j \in Clients, Write(j)
       PROVE  /\ \A w \in acked' : KnownAtHome(storage', w)
              /\ \A k \in Clients : write'[k] # NoReq /\ ServerOf[k] \in Has(storage') =>
                   storage'[ServerOf[k]].f[ServerOf[k]] < write'[k].ts
  <2>1. /\ write[j] # NoReq /\ HasStorage(j) /\ acked' = acked \cup {write[j]}
        /\ write' = [write EXCEPT ![j] = NoReq]
    BY <1>14 DEF Write
  <2>2. ServerOf[j] \in Has(storage)
    BY <2>1, AtStorage, ThreadsAre
  <2>3. /\ storage' = Applied(storage, ServerOf[j], WriteCommits(j), WriteTentatives(j))
        /\ WriteCommits(j) \in Seq(LogicalTime) /\ IsInjective(WriteCommits(j))
        /\ ToSet(WriteCommits(j)) \subseteq Stamps(now) /\ WriteTentatives(j) \subseteq Stamps(now)
    BY <1>14, <2>1, WriteApplies
  <2>4. KnownAtHome(storage', write[j])
    BY <2>1, <2>2, <2>3, <1>2, WriteKept
  <2>5. /\ Has(storage') = Has(storage)
        /\ \A p \in Servers : p # ServerOf[j] => storage'[p] = storage[p]
    BY <2>2, <2>3, <1>1, ApplySound
  <2>6. ASSUME NEW k \in Clients, write'[k] # NoReq, ServerOf[k] \in Has(storage')
        PROVE  storage'[ServerOf[k]].f[ServerOf[k]] < write'[k].ts
    <3>1. k # j
      BY <2>1, <2>6, <1>5
    <3>2. ServerOf[k] # ServerOf[j]
      BY <3>1 DEF OneClientEach
    <3>3. write'[k] = write[k] /\ storage'[ServerOf[k]] = storage[ServerOf[k]]
      BY <2>1, <2>5, <3>1, <3>2, <1>5
    <3> QED BY <3>3, <2>5, <2>6, <1>2
  <2> QED BY <2>1, <2>4, <2>6, <1>4
<1>15. ASSUME NEW s \in Servers, ApplyAnswer(ae(s)), NEW k \in Clients, write'[k] # NoReq,
              ServerOf[k] \in Has(storage')
       PROVE  acked' = acked /\ storage'[ServerOf[k]].f[ServerOf[k]] < write'[k].ts
  <2>1. acked' = acked /\ write' = write /\ pc[ae(s)] = "apply"
    BY <1>15 DEF ApplyAnswer
  <2>2. /\ storage' = Applied(storage, s, AnsCommits(s), AnsTentatives(s)) /\ s \in Has(storage)
        /\ AnsCommits(s) \in Seq(LogicalTime) /\ IsInjective(AnsCommits(s))
        /\ ToSet(AnsCommits(s)) \subseteq Stamps(now) /\ AnsTentatives(s) \subseteq Stamps(now)
    BY <2>1, <1>15, AnswerApplies DEF OutInv
  <2>3. /\ Has(storage') = Has(storage)
        /\ \A p \in Servers : p # s => storage'[p] = storage[p]
    BY <2>2, <1>1, ApplySound
  <2>4. CASE ServerOf[k] = s
    <3>1. Answered(storage, s, Commits(answer[s]), Tentatives(answer[s]))
      BY <2>1, <1>1 DEF SessionInv
    <3>2. storage'[s].f[s] = storage[s].f[s]
      BY <3>1, <2>2, <1>1, AnswerOwn
    <3> QED BY <3>2, <2>1, <2>3, <2>4, <1>2, <1>15
  <2>5. CASE ServerOf[k] # s
    BY <2>1, <2>3, <2>5, <1>2, <1>5, <1>15
  <2> QED BY <2>1, <2>4, <2>5
<1>16. ASSUME NEW t \in Threads, Create(t) PROVE acked' = acked
  BY <1>16 DEF Create
<1>17. ASSUME NEW j \in Clients, AppendChar(j) PROVE acked' = acked
  BY <1>17 DEF AppendChar
<1>18. ASSUME NEW s \in Servers, ApplyAnswer(ae(s)) PROVE acked' = acked
  BY <1>18 DEF ApplyAnswer
<1> QED
  BY <1>4, <1>6, <1>7, <1>8, <1>9, <1>10, <1>11, <1>12, <1>13, <1>14, <1>15, <1>16, <1>17, <1>18, Steps

(***************************************************************************)
(* A write that was answered with "OK" is never lost by the server that    *)
(* took it, as long as each server has one client and no Storage was       *)
(* replaced.  With two clients the later stamp may be applied first, and   *)
(* the other write is then taken for one that the server already has.      *)
(***************************************************************************)
THEOREM AcksKept ==
  ASSUME OneClientEach
  PROVE  Spec => []AckedKept
<1>1. Init => AckInv
  BY DEF Init, AckInv
<1>2. SoundInv /\ OutInv /\ AgreeInv /\ AckInv /\ [Next]_vars => AckInv'
  BY AckStep DEF AckInv
<1>3. AckInv => AckedKept
  <2> SUFFICES ASSUME AckInv, ~replaced, NEW w \in acked PROVE w \in Known(w.name)
    BY DEF AckedKept, AckedSurvives
  <2>1. KnownAtHome(storage, w)
    BY DEF AckInv
  <2> QED BY <2>1 DEF KnownAtHome, Known, Committed, Holds
<1> QED BY <1>1, <1>2, <1>3, AgreeAlways, PTL DEF Spec
=============================================================================
