-------------------------- MODULE ClusterStart_proofs --------------------------
(***************************************************************************)
(* The sleeps of the start-up suffice, for any servers, topologies and     *)
(* lengths of the sleeps that satisfy SleepAssumption.                     *)
(***************************************************************************)
EXTENDS ClusterStart, TLAPS

Types ==
  /\ peers \subseteq Up /\ now \in Nat
  /\ lab = "lab3" => Up = Servers
  /\ main \in [Up -> {"spawned", "listening", "serving"}]
  /\ ae \in [Up -> {"off", "asleep", "loop", "dead"}]
  /\ mdue \in [Up -> Nat] /\ adue \in [Up -> Nat]
  /\ DOMAIN stub = Up
  /\ set \in 0 .. NumServers

(***************************************************************************)
(* What the time says of a server: one that is not listening yet is at     *)
(* most Slack late, one that sleeps then began its sleep no later, one     *)
(* that serves has slept for ListenSleep, one whose anti-entropy thread    *)
(* contacts others started that thread AESleep ago.                        *)
(***************************************************************************)
OnTime(s) ==
  /\ main[s] = "spawned" => mdue[s] = 0 /\ now <= Slack
  /\ main[s] = "listening" => /\ ListenSleep <= mdue[s] /\ mdue[s] <= ListenSleep + Slack
                              /\ now <= mdue[s] + Slack
  /\ main[s] = "serving" => ListenSleep <= now /\ stub[s] = topology[s]
  /\ ae[s] \in {"asleep", "loop"} => AESleep <= adue[s]
  /\ ae[s] = "loop" => adue[s] <= now

Inv ==
  /\ Types
  /\ \A s \in Up : OnTime(s)
  /\ manager = "up" => StartSleep <= now
  /\ ThreadsSurvive /\ PoolsBuilt

LEMMA TopologyFacts ==
  ASSUME NEW g
  PROVE  DOMAIN Topology(g) = Infos(g) /\ PeersIn(g) \subseteq Infos(g)
BY DEF Topology, Infos, PeersIn

LEMMA ChainInfos == Infos(Chain) = Servers
<1>1. DOMAIN Chain = Servers /\ \A s \in Servers : Chain[s] \subseteq Servers
  BY DEF Chain
<1> QED BY <1>1 DEF Infos

LEMMA InitInv == Init => Inv
<1> SUFFICES ASSUME Init PROVE Inv
  OBVIOUS
<1>1. PICK g \in IF lab = "lab3" THEN {Chain} ELSE Givens :
        topology = Topology(g) /\ peers = PeersIn(g)
  BY DEF Init
<1>2. peers \subseteq Up /\ (lab = "lab3" => Up = Servers)
  BY <1>1, TopologyFacts, ChainInfos DEF Up
<1>3. Types
  BY <1>2, TopologyAssumption DEF Init, Types
<1>4. \A s \in Up : OnTime(s)
  BY SleepAssumption DEF Init, OnTime
<1> QED BY <1>3, <1>4 DEF Init, Inv, ThreadsSurvive, PoolsBuilt

\* While a server is only spawned nobody is far enough to contact it.
LEMMA NobodyTooEarly ==
  ASSUME Inv, NEW p \in Up, main[p] = "spawned"
  PROVE  /\ manager # "up"
         /\ \A s \in Up : main[s] # "serving" /\ ae[s] # "loop"
BY SleepAssumption DEF Inv, Types, OnTime

\* By the time an anti-entropy thread contacts others its stub is filled.
LEMMA StubFilled ==
  ASSUME Inv, NEW s \in Up, ae[s] = "loop"
  PROVE  stub[s] = topology[s]
BY SleepAssumption DEF Inv, Types, OnTime

LEMMA TickStep == ASSUME Inv, Tick PROVE Inv'
<1>1. Types'
  BY DEF Inv, Types, Tick, fixed, Up
<1>2. ASSUME NEW s \in Up PROVE OnTime(s)'
  BY <1>2, SleepAssumption DEF Inv, Types, OnTime, Tick, fixed
<1>3. StartSleep <= now => StartSleep <= now'
  BY SleepAssumption DEF Inv, Types, Tick
<1> QED BY <1>1, <1>2, <1>3 DEF Inv, Tick, fixed, Up, ThreadsSurvive, PoolsBuilt

LEMMA MainPreserves == ASSUME Inv, NEW s \in Up, MainStep(s) PROVE Inv'
<1>1. CASE Boot(s)
  <2>1. Types'
    BY <1>1, SleepAssumption DEF Inv, Types, Boot, fixed, Up
  <2>2. ASSUME NEW u \in Up PROVE OnTime(u)'
    BY <1>1, SleepAssumption DEF Inv, Types, OnTime, Boot, fixed
  <2> QED BY <1>1, <2>1, <2>2 DEF Inv, Boot, fixed, Up, ThreadsSurvive, PoolsBuilt
<1>2. CASE Ready(s)
  <2>1. Types'
    BY <1>2 DEF Inv, Types, Ready, Clients, fixed, Up
  <2>2. ASSUME NEW u \in Up PROVE OnTime(u)'
    BY <1>2, SleepAssumption DEF Inv, Types, OnTime, Ready, Clients, fixed
  <2> QED BY <1>2, <2>1, <2>2 DEF Inv, Ready, fixed, Up, ThreadsSurvive, PoolsBuilt
<1>3. CASE PreRun(s)
  <2>1. Types'
    BY <1>3, SleepAssumption DEF Inv, Types, PreRun, fixed, Up
  <2>2. ASSUME NEW u \in Up PROVE OnTime(u)'
    BY <1>3, SleepAssumption DEF Inv, Types, OnTime, PreRun, fixed
  <2>3. ThreadsSurvive'
    BY <1>3 DEF Inv, Types, ThreadsSurvive, PreRun, fixed, Up
  <2> QED BY <1>3, <2>1, <2>2, <2>3 DEF Inv, PreRun, fixed, Up, PoolsBuilt
<1> QED BY <1>1, <1>2, <1>3 DEF MainStep

LEMMA AEPreserves == ASSUME Inv, NEW s \in Up, AEStep(s) PROVE Inv'
<1>1. CASE Wake(s)
  <2>1. Types'
    BY <1>1 DEF Inv, Types, Wake, fixed, Up
  <2>2. ASSUME NEW u \in Up PROVE OnTime(u)'
    BY <1>1 DEF Inv, Types, OnTime, Wake, fixed
  <2>3. ThreadsSurvive'
    BY <1>1 DEF Inv, Types, ThreadsSurvive, Wake, fixed, Up
  <2> QED BY <1>1, <2>1, <2>2, <2>3 DEF Inv, Wake, fixed, Up, PoolsBuilt
<1>2. CASE Skip(s)
  BY <1>2 DEF Inv, Types, OnTime, Skip, fixed, Up, ThreadsSurvive, PoolsBuilt
<1>3. CASE Meet(s)
  BY <1>3 DEF Inv, Types, OnTime, Meet, fixed, Up, ThreadsSurvive, PoolsBuilt
<1>4. CASE Die(s)
  <2>1. nxt[s] \in Up /\ ae[s] = "loop" /\ nxt[s] \in peers \ {s}
    BY <1>4 DEF Inv, Types, Die
  <2>2. nxt[s] \notin topology[s]
    BY <1>4, <2>1, NobodyTooEarly, StubFilled DEF Die
  <2>3. Types'
    BY <1>4 DEF Inv, Types, Die, fixed, Up
  <2>4. ASSUME NEW u \in Up PROVE OnTime(u)'
    BY <1>4, <2>1 DEF Inv, Types, OnTime, Die, fixed
  <2>5. ThreadsSurvive'
    BY <1>4, <2>1, <2>2 DEF Inv, Types, ThreadsSurvive, Die, fixed, Up
  <2> QED BY <1>4, <2>3, <2>4, <2>5 DEF Inv, Die, fixed, Up, PoolsBuilt
<1> QED BY <1>1, <1>2, <1>3, <1>4 DEF AEStep

\* The SET finds the next server listening.
LEMMA ForwardPreserves == ASSUME Inv, Forward PROVE Inv'
<1>1. set \in 0 .. NumServers /\ set < NumServers /\ Up = Servers
  BY DEF Inv, Types, Forward
<1>2. set + 1 \in Up /\ (set # 0 => set \in Up)
  BY <1>1, TopologyAssumption DEF Servers
<1>3. main[set + 1] # "spawned"
  BY <1>2, NobodyTooEarly DEF Forward
<1>4. set' = set + 1 /\ UNCHANGED refused
  BY <1>3 DEF Forward
<1>5. Types'
  BY <1>1, <1>4, TopologyAssumption DEF Inv, Types, Forward, fixed, Up
<1> QED BY <1>4, <1>5 DEF Inv, OnTime, Forward, fixed, Up, ThreadsSurvive, PoolsBuilt

LEMMA NextInv == Inv /\ [Next]_vars => Inv'
<1>1. ASSUME Inv, Next PROVE Inv'
  <2>1. CASE StartAll
    BY <1>1, <2>1 DEF Inv, Types, OnTime, StartAll, fixed, Up, ThreadsSurvive, PoolsBuilt
  <2> QED BY <1>1, <2>1, TickStep, ForwardPreserves, MainPreserves, AEPreserves
          DEF Next
<1>2. ASSUME Inv, UNCHANGED vars PROVE Inv'
  BY <1>2 DEF Inv, Types, OnTime, vars, fixed, Up, ThreadsSurvive, PoolsBuilt
<1> QED BY <1>1, <1>2

(***************************************************************************)
(* An anti-entropy thread dies only of a topology that lacks a connection  *)
(* (_anti_entropy), never because the peer does not listen yet.            *)
(***************************************************************************)
THEOREM StartUp == Spec => []ThreadsSurvive
<1>1. Inv => ThreadsSurvive
  BY DEF Inv
<1> QED BY InitInv, NextInv, <1>1, PTL DEF Spec

(***************************************************************************)
(* No pool of lab3 is built against a server that does not listen yet,     *)
(* which would leave it empty for ever (start_all, Server.run).            *)
(***************************************************************************)
THEOREM PoolsFilled == Spec => []PoolsBuilt
<1>1. Inv => PoolsBuilt
  BY DEF Inv
<1> QED BY InitInv, NextInv, <1>1, PTL DEF Spec

-----------------------------------------------------------------------------
\* The rest of the types.
LEMMA InitTypes == Init => TypeOK
<1> SUFFICES ASSUME Init PROVE TypeOK
  OBVIOUS
<1>1. PICK g \in IF lab = "lab3" THEN {Chain} ELSE Givens :
        topology = Topology(g) /\ peers = PeersIn(g)
  BY DEF Init
<1>2. Infos(g) \subseteq Servers
  <2>1. CASE lab = "lab3"
    BY <1>1, <2>1, ChainInfos
  <2>2. CASE lab # "lab3"
    BY <1>1, <2>2, TopologyAssumption DEF Infos, PeersIn
  <2> QED BY <2>1, <2>2
<1>3. Up = Infos(g) /\ peers \subseteq Up
  BY <1>1, TopologyFacts DEF Up
<1>4. topology \in [Up -> SUBSET Up]
  <2>1. topology = [s \in Infos(g) |-> IF s \in DOMAIN g THEN g[s] ELSE {}]
    BY <1>1 DEF Topology
  <2>2. \A s \in Infos(g) : (IF s \in DOMAIN g THEN g[s] ELSE {}) \subseteq Infos(g)
    BY DEF Infos
  <2> QED BY <1>3, <2>1, <2>2
<1>5. 1 \in Servers /\ 0 \in 0 .. NumServers
  BY TopologyAssumption DEF Servers
<1> QED BY <1>2, <1>3, <1>4, <1>5 DEF Init, TypeOK

LEMMA PeerTypes ==
  ASSUME TypeOK, NEW s \in Up, NextPeer(s)
  PROVE  nxt' \in [Up -> Servers]
<1>1. (nxt[s] % NumServers) + 1 \in Servers
  <2>1. nxt[s] \in Nat /\ NumServers \in Nat \ {0}
    BY TopologyAssumption DEF TypeOK, Servers
  <2>2. nxt[s] % NumServers \in 0 .. NumServers - 1
    BY <2>1
  <2> QED BY <2>1, <2>2 DEF Servers
<1> QED BY <1>1 DEF TypeOK, NextPeer

LEMMA NextTypes == TypeOK /\ [Next]_vars => TypeOK'
<1> SUFFICES ASSUME TypeOK, [Next]_vars PROVE TypeOK'
  OBVIOUS
<1>1. CASE UNCHANGED vars
  BY <1>1 DEF vars, fixed, Up, TypeOK
<1>2. CASE Tick \/ StartAll
  BY <1>2 DEF Tick, StartAll, fixed, Up, TypeOK
<1>3. CASE Forward
  <2>1. set' \in 0 .. NumServers
    <3>1. /\ set \in Nat /\ set < NumServers /\ NumServers \in Nat
          /\ set' = set + 1 \/ set' = set
      BY <1>3, TopologyAssumption DEF Forward, TypeOK
    <3> QED BY <3>1
  <2>2. refused' \in BOOLEAN
    BY <1>3 DEF Forward, TypeOK
  <2> QED BY <1>3, <2>1, <2>2 DEF Forward, fixed, Up, TypeOK
<1>4. ASSUME NEW s \in Up, Boot(s) PROVE TypeOK'
  <2>1. mdue' \in [Up -> Nat]
    BY <1>4, SleepAssumption DEF Boot, TypeOK
  <2> QED BY <1>4, <2>1 DEF Boot, fixed, Up, TypeOK
<1>5. ASSUME NEW s \in Up, Ready(s) PROVE TypeOK'
  BY <1>5 DEF Ready, Clients, fixed, Up, TypeOK
<1>6. ASSUME NEW s \in Up, Wake(s) \/ Die(s) PROVE TypeOK'
  BY <1>6 DEF Wake, Die, fixed, Up, TypeOK
<1>7. ASSUME NEW s \in Up, Skip(s) \/ Meet(s) PROVE TypeOK'
  <2>1. nxt' \in [Up -> Servers]
    BY <1>7, PeerTypes DEF Skip, Meet
  <2>2. met' \in [Up -> SUBSET Up]
    BY <1>7 DEF Skip, Meet, TypeOK
  <2> QED BY <1>7, <2>1, <2>2 DEF Skip, Meet, fixed, Up, TypeOK
<1>8. ASSUME NEW s \in Up, PreRun(s) PROVE TypeOK'
  <2>1. adue' \in [Up -> Nat]
    BY <1>8, SleepAssumption DEF PreRun, TypeOK
  <2> QED BY <1>8, <2>1 DEF PreRun, fixed, Up, TypeOK
<1> QED
  BY <1>1, <1>2, <1>3, <1>4, <1>5, <1>6, <1>7, <1>8 DEF Next, MainStep, AEStep

(***************************************************************************)
(* Every reachable state of the start-up is well typed: no server is told  *)
(* of, connects to or meets one that the topology does not know.           *)
(***************************************************************************)
THEOREM WellTyped == Spec => []TypeOK
  BY InitTypes, NextTypes, PTL DEF Spec
=============================================================================
