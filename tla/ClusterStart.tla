----------------------------- MODULE ClusterStart -----------------------------
(***************************************************************************)
(* How a cluster comes up, in lab3 and in lab4 (core/cluster.py and        *)
(* Server.run of both).  The manager starts one process per server and     *)
(* sleeps; a server binds its port, sleeps "to let all servers start       *)
(* listening", fills its ConnectionStub and accepts; in lab4 its           *)
(* anti-entropy thread, started before all that, sleeps and then contacts  *)
(* one peer after the other.  Nothing but these sleeps keeps anyone from   *)
(* contacting a server that does not listen yet.                           *)
(*                                                                         *)
(* Time is counted in thirds of a second.  Whoever is due takes its step   *)
(* at most Slack later.  Servers are numbered in the order of their names. *)
(***************************************************************************)
EXTENDS Naturals, FiniteSets

CONSTANTS
  NumServers,
  Givens,       \* the topologies passed to the managers of lab4
  ListenSleep,  \* Server.run
  AESleep,      \* BayouServer._anti_entropy
  StartSleep,   \* ClusterManager.start_all
  Slack

Servers == 1 .. NumServers
Labs    == {"lab3", "lab4"}

\* The chain of lab3 (CrCluster).
Chain == [s \in Servers |-> {s + 1} \cap Servers]

\* Servers that appear in a topology only as a destination.
Infos(given)    == DOMAIN given \cup UNION {given[s] : s \in DOMAIN given}

\* The manager gives these no connections.
Topology(given) == [s \in Infos(given) |-> IF s \in DOMAIN given THEN given[s] ELSE {}]

\* What BayouClusterManager tells every server of the others.
PeersIn(given)  == UNION {given[s] : s \in DOMAIN given}

ASSUME TopologyAssumption ==
  /\ NumServers \in Nat \ {0}
  /\ \A g \in Givens : DOMAIN g \subseteq Servers /\ PeersIn(g) \subseteq Servers
ASSUME SleepAssumption ==
  /\ {ListenSleep, AESleep, StartSleep, Slack} \subseteq Nat
  /\ ListenSleep + 2 * Slack < AESleep
  /\ Slack < ListenSleep /\ Slack < StartSleep

VARIABLES
  lab, topology, peers,  \* what the manager was made with
  now,
  main, mdue,    \* mdue[s]: when the main thread of s is due to go on
  ae, adue,      \* the anti-entropy thread of s
  nxt,           \* nxt[s]: the peer it is at
  stub,          \* stub[s]: the servers that s has a TcpClient for
  met,           \* met[s]: the peers that answered it
  manager,       \* "asleep" in start_all, or "up"
  set,           \* lab3: the server that the client's SET has reached, or 0
  refused        \* lab3: has a connection been refused (the pool stays empty)?

fixed == <<lab, topology, peers>>
vars  == <<fixed, now, main, mdue, ae, adue, nxt, stub, met, manager, set, refused>>

Up == DOMAIN topology

Init ==
  /\ lab \in Labs
  /\ \E g \in IF lab = "lab3" THEN {Chain} ELSE Givens :
       /\ topology = Topology(g)
       /\ peers = PeersIn(g)
  /\ now = 0 /\ manager = "asleep"
  /\ main = [s \in Up |-> "spawned"] /\ mdue = [s \in Up |-> 0]
  /\ ae = [s \in Up |-> "off"] /\ adue = [s \in Up |-> 0]
  /\ nxt = [s \in Up |-> 1]
  /\ stub = [s \in Up |-> {}] /\ met = [s \in Up |-> {}]
  /\ set = 0 /\ refused = FALSE

-----------------------------------------------------------------------------

\* Mutant of PreRun: the anti-entropy thread begins at once.
BugPreRun(s) ==
  /\ lab = "lab4" /\ main[s] = "spawned" /\ ae[s] = "off"
  /\ ae' = [ae EXCEPT ![s] = "asleep"]
  /\ adue' = [adue EXCEPT ![s] = now]
  /\ UNCHANGED <<fixed, now, main, mdue, nxt, stub, met, manager, set, refused>>

\* pre_run, which only lab4 has, starts the anti-entropy thread.
PreRun(s) ==
  /\ lab = "lab4" /\ main[s] = "spawned" /\ ae[s] = "off"
  /\ ae' = [ae EXCEPT ![s] = "asleep"]
  /\ adue' = [adue EXCEPT ![s] = now + AESleep]
  /\ UNCHANGED <<fixed, now, main, mdue, nxt, stub, met, manager, set, refused>>

\* bind and listen.
Boot(s) ==
  /\ main[s] = "spawned"
  /\ lab = "lab4" => ae[s] # "off"
  /\ main' = [main EXCEPT ![s] = "listening"]
  /\ mdue' = [mdue EXCEPT ![s] = now + ListenSleep]
  /\ UNCHANGED <<fixed, now, ae, adue, nxt, stub, met, manager, set, refused>>

\* initalize_connections: a client for each server that the stub was made with.
Clients(s) == topology[s]

\* The stub is filled; from here on the server accepts.
Ready(s) ==
  /\ main[s] = "listening" /\ now >= mdue[s]
  /\ main' = [main EXCEPT ![s] = "serving"]
  /\ stub' = [stub EXCEPT ![s] = Clients(s)]
  /\ UNCHANGED <<fixed, now, mdue, ae, adue, nxt, met, manager, set, refused>>

\* Mutant of StartAll: start_all does not sleep.
BugStartAll ==
  /\ manager = "asleep" /\ manager' = "up"
  /\ UNCHANGED <<fixed, now, main, mdue, ae, adue, nxt, stub, met, set, refused>>

StartAll ==
  /\ manager = "asleep" /\ now >= StartSleep
  /\ manager' = "up"
  /\ UNCHANGED <<fixed, now, main, mdue, ae, adue, nxt, stub, met, set, refused>>

-----------------------------------------------------------------------------
(* The anti-entropy thread of server s, in lab4. *)

Wake(s) ==
  /\ ae[s] = "asleep" /\ now >= adue[s]
  /\ ae' = [ae EXCEPT ![s] = "loop"]
  /\ UNCHANGED <<fixed, now, main, mdue, adue, nxt, stub, met, manager, set, refused>>

\* Mutants of NextPeer: always the same peer, or past the last one.
BugSamePeer(s) == UNCHANGED nxt
BugNextPeer(s) == nxt' = [nxt EXCEPT ![s] = @ + 1]

NextPeer(s) == nxt' = [nxt EXCEPT ![s] = (@ % NumServers) + 1]

Skip(s) ==
  /\ ae[s] = "loop" /\ nxt[s] \notin peers \ {s}
  /\ NextPeer(s)
  /\ UNCHANGED <<fixed, now, main, mdue, ae, adue, stub, met, manager, set, refused>>

\* A message to a server that listens waits in its backlog until it accepts,
\* and is then answered by a thread of its own (handle_client).
Answers(p) == main[p] = "serving"

Meet(s) ==
  /\ ae[s] = "loop" /\ nxt[s] \in stub[s] \cap (peers \ {s})
  /\ Answers(nxt[s])
  /\ met' = [met EXCEPT ![s] = @ \cup {nxt[s]}]
  /\ NextPeer(s)
  /\ UNCHANGED <<fixed, now, main, mdue, ae, adue, stub, manager, set, refused>>

\* ConnectionStub.send asserts that there is a connection; a refused one makes
\* TcpClient.send return None, and the caller asserts that it did not.
Die(s) ==
  /\ ae[s] = "loop" /\ nxt[s] \in peers \ {s}
  /\ nxt[s] \in stub[s] => main[nxt[s]] = "spawned"
  /\ ae' = [ae EXCEPT ![s] = "dead"]
  /\ UNCHANGED <<fixed, now, main, mdue, adue, nxt, stub, met, manager, set, refused>>

-----------------------------------------------------------------------------
(***************************************************************************)
(* The first SET of lab3 goes from server to server as soon as each serves *)
(* requests.  Its sender, the client or the server before, then connects   *)
(* its pool; if that is refused the list of sockets stays empty for ever.  *)
(***************************************************************************)
Forward ==
  /\ lab = "lab3" /\ ~refused /\ set < NumServers
  /\ IF set = 0 THEN manager = "up" ELSE main[set] = "serving"
  /\ IF main[set + 1] = "spawned"
       THEN refused' = TRUE /\ UNCHANGED set
       ELSE set' = set + 1 /\ UNCHANGED refused
  /\ UNCHANGED <<fixed, now, main, mdue, ae, adue, nxt, stub, met, manager>>

-----------------------------------------------------------------------------

\* Time passes while somebody sleeps and nobody is late.
Tick ==
  /\ manager = "asleep" \/ \E s \in Up : main[s] # "serving" \/ ae[s] = "asleep"
  /\ \A s \in Up : /\ main[s] # "serving" => now < mdue[s] + Slack
                   /\ ae[s] = "asleep" => now < adue[s] + Slack
  /\ manager = "asleep" => now < StartSleep + Slack
  /\ now' = now + 1
  /\ UNCHANGED <<fixed, main, mdue, ae, adue, nxt, stub, met, manager, set, refused>>

MainStep(s) == PreRun(s) \/ Boot(s) \/ Ready(s)
AEStep(s)   == Wake(s) \/ Skip(s) \/ Meet(s) \/ Die(s)

Next == \/ Tick \/ StartAll \/ Forward
        \/ \E s \in Up : MainStep(s) \/ AEStep(s)

Spec == Init /\ [][Next]_vars

\* Time passes and all threads run.
FairSpec ==
  /\ Spec /\ WF_vars(Tick) /\ WF_vars(StartAll) /\ WF_vars(Forward)
  /\ \A s \in Servers : WF_vars(s \in Up /\ MainStep(s)) /\ WF_vars(s \in Up /\ AEStep(s))

-----------------------------------------------------------------------------

TypeOK ==
  /\ lab \in Labs /\ peers \subseteq Up /\ Up \subseteq Servers
  /\ topology \in [Up -> SUBSET Up] /\ stub \in [Up -> SUBSET Up]
  /\ now \in Nat /\ mdue \in [Up -> Nat] /\ adue \in [Up -> Nat]
  /\ main \in [Up -> {"spawned", "listening", "serving"}]
  /\ ae \in [Up -> {"off", "asleep", "loop", "dead"}]
  /\ nxt \in [Up -> Servers] /\ met \in [Up -> SUBSET Up]
  /\ manager \in {"asleep", "up"}
  /\ set \in 0 .. NumServers /\ refused \in BOOLEAN

(***************************************************************************)
(* The sleeps suffice: an anti-entropy thread dies only where the topology *)
(* lacks a connection to some peer (_peers are all destinations of the     *)
(* topology, not those of the server), never because somebody was slow.    *)
(***************************************************************************)
ThreadsSurvive ==
  \A s \in Up : ae[s] = "dead" => \E p \in peers \ {s} : p \notin topology[s]

\* No pool is left empty by a server that did not listen yet.
PoolsBuilt == ~refused

(***************************************************************************)
(* The cluster comes up: a SET gets to the tail of the chain, and with a   *)
(* complete topology every server has met all others.                      *)
(***************************************************************************)
ComesUp ==
  <>( /\ lab = "lab3" => set = NumServers
      /\ lab = "lab4" /\ (\A s \in Up : peers \ {s} \subseteq topology[s])
           => \A s \in Up : met[s] = peers \ {s})
=============================================================================
