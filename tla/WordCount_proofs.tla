--------------------------- MODULE WordCount_proofs ---------------------------
(***************************************************************************)
(* The end of the job, for any number of workers, any streams and any      *)
(* failures within the bounds.                                             *)
(***************************************************************************)
EXTENDS WordCount, FiniteSetTheorems, TLAPS

\* The part of the state that the end of the job depends on.
EndTypes ==
  /\ isDone \in [Mappers -> BOOLEAN]
  /\ exitMsg \in [Workers -> BOOLEAN]
  /\ life \in [Workers -> Lives]
  /\ cmdq \in [Reducers -> Seq(Words \cup {Exit})]
  /\ phaseQueue \in Seq({"CP", "EXITING"})
  /\ exits \in Nat /\ (exits # Idle => exits <= NumMappers + NumReducers)

\* The signs that the job is being ended.
PhaseSign  == \E i \in 1 .. Len(phaseQueue) : phaseQueue[i] = "EXITING"
ExitsSign  == exits # Idle
WorkerSign == \E w \in Workers : exitMsg[w] \/ life[w] = "exited"
QueueSign  == \E r \in Reducers : \E i \in 1 .. Len(cmdq[r]) : cmdq[r][i] = Exit

AllDone == \A m \in Mappers : isDone[m]

EndInv ==
  /\ EndTypes
  /\ PhaseSign \/ ExitsSign \/ WorkerSign \/ QueueSign => AllDone

\* Steps that do not concern the end of the job.
LEMMA Unconcerned ==
  ASSUME EndInv, UNCHANGED <<isDone, exitMsg, life, cmdq, phaseQueue, exits>>
  PROVE  EndInv'
BY DEF EndInv, EndTypes, PhaseSign, ExitsSign, WorkerSign, QueueSign, AllDone

\* What Append and Tail do to the elements of a sequence.
LEMMA AppendElements ==
  ASSUME NEW S, NEW q \in Seq(S), NEW x \in S
  PROVE  /\ Append(q, x) \in Seq(S)
         /\ \A i \in 1 .. Len(Append(q, x)) : 
              Append(q, x)[i] = x \/ (i \in 1 .. Len(q) /\ Append(q, x)[i] = q[i])
OBVIOUS

LEMMA TailElements ==
  ASSUME NEW S, NEW q \in Seq(S), q # <<>>
  PROVE  /\ Tail(q) \in Seq(S) /\ Head(q) = q[1] /\ 1 \in 1 .. Len(q)
         /\ \A i \in 1 .. Len(Tail(q)) : i + 1 \in 1 .. Len(q) /\ Tail(q)[i] = q[i + 1]
OBVIOUS

\* The workers that come and go: kill_worker and the restarts.
LEMMA Failures ==
  ASSUME EndInv, NEW w \in Workers, Kill(w) \/ Restart(w)
  PROVE  EndInv'
<1>1. UNCHANGED <<isDone, phaseQueue, exits>>
  BY DEF Kill, Restart, coordVars
<1>2. exitMsg' = [exitMsg EXCEPT ![w] = FALSE]
  BY DEF Kill, Restart, Gone
<1>3. /\ life' \in [Workers -> Lives]
      /\ \A v \in Workers : life'[v] = "exited" => life[v] = "exited"
  BY DEF Kill, Restart, EndInv, EndTypes, Lives
<1>4. \/ cmdq' = cmdq
      \/ w \in Reducers /\ cmdq' = [cmdq EXCEPT ![w] = <<>>]
  BY DEF Kill, Restart, Gone, MapperGone, ReducerGone, reducerVars, Workers
<1>5. cmdq' \in [Reducers -> Seq(Words \cup {Exit})] /\ (QueueSign' => QueueSign)
  <2>1. cmdq \in [Reducers -> Seq(Words \cup {Exit})]
    BY DEF EndInv, EndTypes
  <2>2. CASE cmdq' = cmdq
    BY <2>1, <2>2 DEF QueueSign
  <2>3. CASE w \in Reducers /\ cmdq' = [cmdq EXCEPT ![w] = <<>>]
    <3>1. <<>> \in Seq(Words \cup {Exit})
      OBVIOUS
    <3>2. cmdq' \in [Reducers -> Seq(Words \cup {Exit})]
      BY <2>1, <2>3, <3>1
    <3>3. \A r \in Reducers : cmdq'[r] = IF r = w THEN <<>> ELSE cmdq[r]
      BY <2>1, <2>3
    <3> QED
      BY <3>2, <3>3 DEF QueueSign
  <2> QED
    BY <1>4, <2>2, <2>3
<1>6. WorkerSign' => WorkerSign
  BY <1>2, <1>3 DEF WorkerSign, EndInv, EndTypes
<1>7. EndTypes'
  BY <1>1, <1>2, <1>3, <1>5 DEF EndInv, EndTypes
<1> QED
  BY <1>1, <1>5, <1>6, <1>7 DEF EndInv, PhaseSign, ExitsSign, AllDone

\* The coordinator.
LEMMA Coordinator ==
  ASSUME EndInv, CoordStep
  PROVE  EndInv'
<1>1. ASSUME NEW m \in Mappers, RecvDone(m) PROVE EndInv'
  <2> USE <1>1
  <2>1. UNCHANGED <<exits, life, exitMsg, cmdq>> 
    BY DEF RecvDone, reducerVars
  <2>2. /\ isDone' \in [Mappers -> BOOLEAN]
        /\ AllDone => AllDone'
    BY DEF RecvDone, EndInv, EndTypes, AllDone
  <2>3. /\ phaseQueue' \in Seq({"CP", "EXITING"})
        /\ PhaseSign' => PhaseSign \/ AllDone'
    <3>1. phaseQueue \in Seq({"CP", "EXITING"})
      BY DEF EndInv, EndTypes
    <3>2. \/ phaseQueue' = phaseQueue
          \/ AllDone' /\ phaseQueue' = Append(phaseQueue, "EXITING")
      BY DEF RecvDone, AllDone
    <3>3. phaseQueue' \in Seq({"CP", "EXITING"})
      BY <3>1, <3>2, AppendElements
    <3> QED
      BY <3>2, <3>3 DEF PhaseSign
  <2> QED
    BY <2>1, <2>2, <2>3 DEF EndInv, EndTypes, ExitsSign, WorkerSign, QueueSign
<1>2. ASSUME TakePhase PROVE EndInv'
  <2>1. UNCHANGED <<isDone, life, exitMsg, cmdq>> /\ phaseQueue # <<>>
    BY <1>2 DEF TakePhase, reducerVars
  <2>2. phaseQueue' = Tail(phaseQueue) /\ exits' = IF Head(phaseQueue) = "EXITING" THEN 0 ELSE Idle
    BY <1>2 DEF TakePhase
  <2>3. phaseQueue' \in Seq({"CP", "EXITING"}) /\ (PhaseSign' \/ ExitsSign' => PhaseSign)
    BY <2>1, <2>2, TailElements DEF EndInv, EndTypes, PhaseSign, ExitsSign, Idle
  <2>4. exits' \in Nat /\ (exits' # Idle => exits' <= NumMappers + NumReducers)
    BY <2>2, NumAssumption DEF Idle
  <2> QED
    BY <2>1, <2>3, <2>4 DEF EndInv, EndTypes, WorkerSign, QueueSign, AllDone, Idle
<1>3. ASSUME SendExit PROVE EndInv'
  <2>1. UNCHANGED <<isDone, life, cmdq, phaseQueue>>
    BY <1>3 DEF SendExit, reducerVars
  <2>2. exits + 1 \in Workers /\ exits' = exits + 1
    BY <1>3 DEF SendExit
  <2>3. exits # Idle /\ exits' \in Nat /\ exits' <= NumMappers + NumReducers
    BY <2>2, NumAssumption DEF EndInv, EndTypes, Workers, Mappers, Reducers, Idle
  <2>4. exitMsg' \in [Workers -> BOOLEAN]
    BY <1>3, <2>2 DEF SendExit, EndInv, EndTypes
  <2>5. AllDone
    BY <2>3 DEF EndInv, ExitsSign
  <2> QED
    BY <2>1, <2>3, <2>4, <2>5 DEF EndInv, EndTypes, AllDone
<1>4. ASSUME CoordExit PROVE EndInv'
  BY <1>4, Unconcerned DEF CoordExit, reducerVars
<1> QED
  BY <1>1, <1>2, <1>3, <1>4 DEF CoordStep

\* The mappers.
LEMMA Mapping ==
  ASSUME EndInv, NEW m \in Mappers, MapperStep(m)
  PROVE  EndInv'
<1>1. ASSUME MapperExit(m) PROVE EndInv'
  <2>1. UNCHANGED <<isDone, cmdq, phaseQueue, exits>> /\ exitMsg[m]
    BY <1>1 DEF MapperExit, coordVars, reducerVars
  <2>2. m \in Workers
    BY DEF Workers
  <2>3. AllDone
    BY <2>1, <2>2 DEF EndInv, WorkerSign
  <2>4. life' \in [Workers -> Lives] /\ exitMsg' \in [Workers -> BOOLEAN]
    BY <1>1, <2>2 DEF MapperExit, EndInv, EndTypes, Lives
  <2> QED
    BY <2>1, <2>3, <2>4 DEF EndInv, EndTypes, AllDone
<1>2. ASSUME MapperUp(m) PROVE EndInv'
  <2>1. UNCHANGED <<isDone, cmdq, phaseQueue, exits, exitMsg>>
    BY <1>2 DEF MapperUp, coordVars, reducerVars
  <2>2. life' \in [Workers -> Lives] /\ (WorkerSign' => WorkerSign)
    BY <1>2 DEF MapperUp, EndInv, EndTypes, Lives, WorkerSign
  <2> QED
    BY <2>1, <2>2 DEF EndInv, EndTypes, PhaseSign, ExitsSign, QueueSign, AllDone
<1>3. ASSUME \/ \E r \in Reducers : MapperConnect(m, r)
             \/ SendWord(m) \/ SendLost(m) \/ SendRaises(m)
             \/ FileDone(m) \/ StreamDone(m)
      PROVE  EndInv'
  BY <1>3, Unconcerned
     DEF MapperConnect, SendWord, SendLost, SendRaises, FileDone, StreamDone,
         coordVars, reducerVars
<1> QED
  BY <1>1, <1>2, <1>3 DEF MapperStep

\* The reducers.
LEMMA Reducing ==
  ASSUME EndInv, NEW r \in Reducers, ReducerStep(r)
  PROVE  EndInv'
<1>0. r \in Workers
  BY DEF Workers
<1>1. ASSUME ReducerUp(r) PROVE EndInv'
  <2>1. UNCHANGED <<isDone, cmdq, phaseQueue, exits, exitMsg>>
    BY <1>1 DEF ReducerUp, coordVars, reducerVars
  <2>2. life' \in [Workers -> Lives] /\ (WorkerSign' => WorkerSign)
    BY <1>1 DEF ReducerUp, EndInv, EndTypes, Lives, WorkerSign
  <2> QED
    BY <2>1, <2>2 DEF EndInv, EndTypes, PhaseSign, ExitsSign, QueueSign, AllDone
<1>2. ASSUME RecvExit(r) PROVE EndInv'
  <2>1. UNCHANGED <<isDone, life, phaseQueue, exits>> /\ exitMsg[r]
    BY <1>2 DEF RecvExit, coordVars
  <2>2. AllDone
    BY <1>0, <2>1 DEF EndInv, WorkerSign
  <2>3. exitMsg' \in [Workers -> BOOLEAN]
    BY <1>2 DEF RecvExit, EndInv, EndTypes
  <2>4. cmdq' \in [Reducers -> Seq(Words \cup {Exit})]
    BY <1>2, AppendElements DEF RecvExit, EndInv, EndTypes
  <2> QED
    BY <2>1, <2>2, <2>3, <2>4 DEF EndInv, EndTypes, AllDone
<1>3. ASSUME HandleWC(r) PROVE EndInv'
  <2>1. UNCHANGED <<isDone, life, phaseQueue, exits, exitMsg>>
    BY <1>3 DEF HandleWC, coordVars
  <2>2. cmdq' = [cmdq EXCEPT ![r] = Tail(@)] /\ cmdq[r] # <<>>
    BY <1>3 DEF HandleWC
  <2>3. cmdq' \in [Reducers -> Seq(Words \cup {Exit})] /\ (QueueSign' => QueueSign)
    BY <2>2, TailElements DEF EndInv, EndTypes, QueueSign
  <2> QED
    BY <2>1, <2>3 DEF EndInv, EndTypes, PhaseSign, ExitsSign, WorkerSign, AllDone
<1>4. ASSUME ReducerExit(r) PROVE EndInv'
  <2>1. UNCHANGED <<isDone, phaseQueue, exits>>
    BY <1>4 DEF ReducerExit, coordVars
  <2>2. cmdq[r] # <<>> /\ Head(cmdq[r]) = Exit
    BY <1>4 DEF ReducerExit
  <2>3. AllDone
    BY <2>2, TailElements DEF EndInv, EndTypes, QueueSign
  <2>4. life' \in [Workers -> Lives] /\ exitMsg' \in [Workers -> BOOLEAN]
    BY <1>4 DEF ReducerExit, EndInv, EndTypes, Lives
  <2>5. cmdq' \in [Reducers -> Seq(Words \cup {Exit})]
    <3>1. <<>> \in Seq(Words \cup {Exit})
      OBVIOUS
    <3> QED BY <1>4, <3>1 DEF ReducerExit, EndInv, EndTypes
  <2> QED
    BY <2>1, <2>3, <2>4, <2>5 DEF EndInv, EndTypes, AllDone
<1>5. ASSUME NEW w \in Words, Read(r, w) PROVE EndInv'
  <2>1. UNCHANGED <<isDone, life, phaseQueue, exits, exitMsg>>
    BY <1>5 DEF Read, coordVars
  <2>2. cmdq' = [cmdq EXCEPT ![r] = Append(@, w)] /\ w # Exit
    BY <1>5, DataAssumption DEF Read, Exit
  <2>3. cmdq' \in [Reducers -> Seq(Words \cup {Exit})] /\ (QueueSign' => QueueSign)
    BY <2>2, AppendElements DEF EndInv, EndTypes, QueueSign
  <2> QED
    BY <2>1, <2>3 DEF EndInv, EndTypes, PhaseSign, ExitsSign, WorkerSign, AllDone
<1> QED
  BY <1>1, <1>2, <1>3, <1>4, <1>5 DEF ReducerStep

LEMMA InitEnd == Init => EndInv
BY NumAssumption DEF Init, EndInv, EndTypes, PhaseSign, ExitsSign, WorkerSign,
   QueueSign, Workers, Lives, Idle

LEMMA NextEnd == EndInv /\ [Next]_vars => EndInv'
<1> SUFFICES ASSUME EndInv, [Next]_vars PROVE EndInv'
  OBVIOUS
<1>1. CASE UNCHANGED vars
  BY <1>1, Unconcerned DEF vars, coordVars, reducerVars
<1>2. CASE Tick
  BY <1>2, Unconcerned DEF Tick, reducerVars
<1>3. ASSUME NEW w \in Workers, Heartbeat(w) PROVE EndInv'
  BY <1>3, Unconcerned DEF Heartbeat, reducerVars
<1> QED
  BY <1>1, <1>2, <1>3, Failures, Coordinator, Mapping, Reducing DEF Next

(***************************************************************************)
(* Whatever workers are killed or restarted, and whenever, no worker is    *)
(* told to exit, and none has exited, before every mapper has announced    *)
(* the end of its stream (DoneRecvMsg.update and exit_phase).  The         *)
(* invariant follows the decision on its way: the phase EXITING in         *)
(* phase_queue, exit_phase, EXIT in a worker's socket, the Exit command in *)
(* a reducer's queue.                                                      *)
(***************************************************************************)
THEOREM NoEarlyExit == Spec => []ExitOnlyAfterAllDone
<1>1. EndInv => ExitOnlyAfterAllDone
  BY DEF EndInv, WorkerSign, AllDone, ExitOnlyAfterAllDone
<1> QED
  BY InitEnd, NextEnd, <1>1, PTL DEF Spec

-----------------------------------------------------------------------------
\* How a mapper's stream, its DONE and is_done hang together.
Announced(m) == m \in inbox \/ isDone[m]

ReadInv ==
  /\ isDone \in [Mappers -> BOOLEAN] /\ inbox \subseteq Mappers
  /\ wcDone \in [Mappers -> BOOLEAN] /\ file \in [Mappers -> Nat]
  /\ phase = "EXITING" => AllDone
  /\ failed = {} => \A m \in Mappers : /\ Announced(m) => wcDone[m]
                                       /\ wcDone[m] => file[m] = Len(Stream[m])

\* Steps that concern neither the streams nor what is known of them.
LEMMA UnconcernedRead ==
  ASSUME ReadInv, UNCHANGED <<isDone, inbox, wcDone, file, phase, failed>>
  PROVE  ReadInv'
BY DEF ReadInv, Announced, AllDone

\* After a failure nothing is claimed of the streams.
LEMMA FailuresRead ==
  ASSUME ReadInv, NEW w \in Workers, Kill(w) \/ Restart(w)
  PROVE  ReadInv'
<1>1. UNCHANGED <<isDone, inbox, phase>> /\ failed' = failed \cup {w}
  BY DEF Kill, Restart, coordVars
<1>2. Gone(w)
  BY DEF Kill, Restart
<1>3. CASE w \in Mappers
  <2>1. file' = [file EXCEPT ![w] = 0] /\ wcDone' = [wcDone EXCEPT ![w] = FALSE]
    BY <1>2, <1>3 DEF Gone, MapperGone
  <2> QED
    BY <1>1, <2>1 DEF ReadInv, AllDone
<1>4. CASE w \notin Mappers
  <2>1. UNCHANGED <<file, wcDone>>
    BY <1>2, <1>4 DEF Gone, ReducerGone
  <2> QED
    BY <1>1, <2>1 DEF ReadInv, AllDone
<1> QED
  BY <1>3, <1>4

\* The mapper's own steps.
LEMMA MappingRead ==
  ASSUME ReadInv, NEW m \in Mappers, MapperStep(m)
  PROVE  ReadInv'
<1>1. ASSUME FileDone(m) PROVE ReadInv'
  <2>1. UNCHANGED <<isDone, inbox, wcDone, phase, failed>>
    BY <1>1 DEF FileDone, coordVars, bounds
  <2>2. ~wcDone[m] /\ file' = [file EXCEPT ![m] = @ + 1]
    BY <1>1 DEF FileDone, Reading
  <2> QED
    BY <2>1, <2>2 DEF ReadInv, Announced, AllDone
<1>2. ASSUME StreamDone(m) PROVE ReadInv'
  <2>1. UNCHANGED <<isDone, file, phase, failed>> /\ inbox' \subseteq inbox \cup {m}
    BY <1>2 DEF StreamDone, bounds
  <2>2. file[m] = Len(Stream[m]) /\ wcDone' = [wcDone EXCEPT ![m] = TRUE]
    BY <1>2 DEF StreamDone
  <2> QED
    BY <2>1, <2>2 DEF ReadInv, Announced, AllDone
<1>3. ASSUME \/ \E r \in Reducers : MapperConnect(m, r)
             \/ MapperUp(m) \/ SendWord(m) \/ SendLost(m) \/ SendRaises(m)
             \/ MapperExit(m)
      PROVE  ReadInv'
  BY <1>3, UnconcernedRead
     DEF MapperConnect, MapperUp, SendWord, SendLost, SendRaises, MapperExit,
         coordVars, mapperVars, bounds
<1> QED
  BY <1>1, <1>2, <1>3 DEF MapperStep

\* DoneRecvMsg.update and the other steps of the coordinator.
LEMMA CoordinatorRead ==
  ASSUME ReadInv, CoordStep
  PROVE  ReadInv'
<1>1. ASSUME NEW m \in Mappers, RecvDone(m) PROVE ReadInv'
  <2>1. UNCHANGED <<file, wcDone, failed>> /\ m \in inbox /\ inbox' = inbox \ {m}
    BY <1>1 DEF RecvDone, mapperVars, bounds
  <2>2. isDone' = [isDone EXCEPT ![m] = TRUE]
    BY <1>1 DEF RecvDone
  <2>3. phase' = "EXITING" => AllDone'
    BY <1>1, <2>2 DEF RecvDone, ReadInv, AllDone
  <2> QED
    BY <2>1, <2>2, <2>3 DEF ReadInv, Announced
<1>2. ASSUME TakePhase \/ SendExit \/ CoordExit PROVE ReadInv'
  BY <1>2, UnconcernedRead DEF TakePhase, SendExit, CoordExit, mapperVars, bounds
<1> QED
  BY <1>1, <1>2 DEF CoordStep

LEMMA InitRead == Init => ReadInv
BY DEF Init, ReadInv, Announced

LEMMA NextRead == ReadInv /\ [Next]_vars => ReadInv'
<1> SUFFICES ASSUME ReadInv, [Next]_vars PROVE ReadInv'
  OBVIOUS
<1>1. CASE UNCHANGED vars
  BY <1>1, UnconcernedRead DEF vars, coordVars, mapperVars, bounds
<1>2. CASE Tick
  BY <1>2, UnconcernedRead DEF Tick, mapperVars, bounds
<1>3. ASSUME NEW w \in Workers, Heartbeat(w) PROVE ReadInv'
  BY <1>3, UnconcernedRead DEF Heartbeat, mapperVars, bounds
<1>4. ASSUME NEW r \in Reducers, ReducerStep(r) PROVE ReadInv'
  BY <1>4, UnconcernedRead
     DEF ReducerStep, ReducerUp, RecvExit, HandleWC, ReducerExit, Read,
         coordVars, mapperVars, bounds
<1> QED
  BY <1>1, <1>2, <1>3, <1>4, FailuresRead, MappingRead, CoordinatorRead DEF Next

(***************************************************************************)
(* As long as nothing fails the coordinator decides to end the job only    *)
(* when every mapper has read its stream to the end: is_done, DONE and     *)
(* is_wc_done are set in this order, by three threads of two processes.    *)
(***************************************************************************)
THEOREM ReadingComplete == Spec => []ExitAfterReading
<1>1. ReadInv => ExitAfterReading
  BY DEF ReadInv, Announced, AllDone, ExitAfterReading
<1> QED
  BY InitRead, NextRead, <1>1, PTL DEF Spec

-----------------------------------------------------------------------------
(***************************************************************************)
(* Types.                                                                  *)
(***************************************************************************)
Statuses == {"none", "up", "eof", "reset"}

\* A value is written at one place, or at a place of a row.
LEMMA WriteOne ==
  ASSUME NEW S, NEW T, NEW f \in [S -> T], NEW x \in S, NEW v \in T
  PROVE  [f EXCEPT ![x] = v] \in [S -> T]
OBVIOUS

LEMMA WriteTwo ==
  ASSUME NEW S, NEW R, NEW T, NEW f \in [S -> [R -> T]],
         NEW x \in S, NEW y \in R, NEW v \in T
  PROVE  [f EXCEPT ![x][y] = v] \in [S -> [R -> T]]
OBVIOUS

LEMMA WorkersOf ==
  /\ \A m \in Mappers : m \in Workers /\ m \notin Reducers
  /\ \A r \in Reducers : r \in Workers /\ r \notin Mappers
  /\ Idle \in Nat /\ \A w \in Workers : w \in Nat /\ w \in 0 .. Idle /\ w < Idle
BY NumAssumption DEF Workers, Mappers, Reducers, Idle

LEMMA InitTypes == Init => TypeOK
<1> SUFFICES ASSUME Init PROVE TypeOK
  OBVIOUS
<1>1. Idle \in 0 .. Idle
  BY WorkersOf
<1>2. <<"CP">> \in Seq({"CP", "EXITING"}) /\ NoWords \in [Words -> Nat]
  BY DEF NoWords
<1>3. \A m \in Mappers : Len(Stream[m]) \in Nat
  BY DataAssumption
<1>4. /\ coord \in BOOLEAN /\ phase \in {"CP", "EXITING"}
      /\ phaseQueue \in Seq({"CP", "EXITING"}) /\ exits \in 0 .. Idle
      /\ isDone \in [Mappers -> BOOLEAN] /\ age \in [Workers -> 0 .. Timeout + 1]
      /\ inbox \subseteq Mappers /\ exitMsg \in [Workers -> BOOLEAN]
  BY <1>1, <1>2, BoundAssumption DEF Init
<1>5. /\ life \in [Workers -> Lives] /\ conn \in [Mappers -> [Reducers -> Statuses]]
      /\ failed \subseteq Workers /\ kills \in 0 .. MaxKills /\ restarts \in 0 .. MaxRestarts
  BY BoundAssumption DEF Init, Lives, Statuses
<1>6. /\ file \in [Mappers -> Nat] /\ \A m \in Mappers : file[m] <= Len(Stream[m])
      /\ word \in [Mappers -> Nat] /\ wcDone \in [Mappers -> BOOLEAN]
  BY <1>3 DEF Init
<1>7. /\ wire \in [Reducers -> [Words -> Nat]] /\ wc \in [Reducers -> [Words -> Nat]]
      /\ cmdq \in [Reducers -> Seq(Words \cup {Exit})]
  BY <1>2 DEF Init
<1> QED BY <1>4, <1>5, <1>6, <1>7 DEF TypeOK, Statuses

\* What the end of a process leaves.
LEMMA GoneTypes ==
  ASSUME TypeOK, NEW w \in Workers, Gone(w)
  PROVE  /\ exitMsg' \in [Workers -> BOOLEAN]
         /\ conn' \in [Mappers -> [Reducers -> Statuses]]
         /\ file' \in [Mappers -> Nat] /\ \A m \in Mappers : file'[m] <= Len(Stream[m])
         /\ word' \in [Mappers -> Nat] /\ wcDone' \in [Mappers -> BOOLEAN]
         /\ wire' \in [Reducers -> [Words -> Nat]] /\ wc' \in [Reducers -> [Words -> Nat]]
         /\ cmdq' \in [Reducers -> Seq(Words \cup {Exit})]
<1>1. exitMsg' \in [Workers -> BOOLEAN]
  BY DEF Gone, TypeOK
<1>2. CASE w \in Mappers
  <2>1. MapperGone(w)
    BY <1>2 DEF Gone
  <2>2. conn' \in [Mappers -> [Reducers -> Statuses]]
    BY <2>1 DEF MapperGone, TypeOK, Statuses
  <2>3. file' \in [Mappers -> Nat] /\ \A m \in Mappers : file'[m] <= Len(Stream[m])
    <3>1. \A m \in Mappers : Len(Stream[m]) \in Nat
      BY DataAssumption
    <3>2. file' = [file EXCEPT ![w] = 0] /\ file \in [Mappers -> Nat]
      BY <2>1 DEF MapperGone, TypeOK
    <3>3. \A m \in Mappers : file'[m] = IF m = w THEN 0 ELSE file[m]
      BY <3>2
    <3>4. \A m \in Mappers : file[m] <= Len(Stream[m])
      BY DEF TypeOK
    <3>5. file' \in [Mappers -> Nat]
      BY <3>2
    <3>6. \A m \in Mappers : 0 <= Len(Stream[m])
      BY <3>1
    <3> QED BY <3>3, <3>4, <3>5, <3>6, Zenon
  <2>4. word' \in [Mappers -> Nat] /\ wcDone' \in [Mappers -> BOOLEAN]
    BY <2>1 DEF MapperGone, TypeOK
  <2> QED BY <1>1, <2>1, <2>2, <2>3, <2>4 DEF MapperGone, TypeOK, reducerVars
<1>3. CASE w \notin Mappers
  <2>1. ReducerGone(w) /\ w \in Reducers
    BY <1>3 DEF Gone, Workers
  <2>2. conn' \in [Mappers -> [Reducers -> Statuses]]
    BY <2>1 DEF ReducerGone, Broken, TypeOK, Statuses
  <2>3. /\ wire' \in [Reducers -> [Words -> Nat]] /\ wc' \in [Reducers -> [Words -> Nat]]
        /\ cmdq' \in [Reducers -> Seq(Words \cup {Exit})]
    <3>1. NoWords \in [Words -> Nat] /\ <<>> \in Seq(Words \cup {Exit})
      BY DEF NoWords
    <3>2. /\ wire' = [wire EXCEPT ![w] = NoWords] /\ wc' = [wc EXCEPT ![w] = NoWords]
          /\ cmdq' = [cmdq EXCEPT ![w] = <<>>]
      BY <2>1 DEF ReducerGone
    <3> QED BY <2>1, <3>1, <3>2, WriteOne DEF TypeOK
  <2> QED BY <1>1, <2>1, <2>2, <2>3 DEF ReducerGone, TypeOK
<1> QED BY <1>2, <1>3

LEMMA FailureTypes ==
  ASSUME TypeOK, NEW w \in Workers, Kill(w) \/ Restart(w)
  PROVE  TypeOK'
<1>1. UNCHANGED <<coord, phase, phaseQueue, exits, isDone, age, inbox>> /\ Gone(w)
  BY DEF Kill, Restart, coordVars
<1>2. life' \in [Workers -> Lives] /\ failed' \subseteq Workers
  BY DEF Kill, Restart, TypeOK, Lives
<1>3. kills' \in 0 .. MaxKills /\ restarts' \in 0 .. MaxRestarts
  BY BoundAssumption DEF Kill, Restart, TypeOK
<1> QED BY <1>1, <1>2, <1>3, GoneTypes DEF TypeOK, Statuses

LEMMA CoordinatorTypes ==
  ASSUME TypeOK, CoordStep \/ Tick \/ \E w \in Workers : Heartbeat(w)
  PROVE  TypeOK'
<1>1. ASSUME NEW m \in Mappers, RecvDone(m) PROVE TypeOK'
  <2>1. /\ isDone' \in [Mappers -> BOOLEAN] /\ inbox' \subseteq Mappers
        /\ phase' \in {"CP", "EXITING"}
    BY <1>1 DEF RecvDone, TypeOK
  <2>2. phaseQueue' \in Seq({"CP", "EXITING"})
    <3>1. phaseQueue \in Seq({"CP", "EXITING"})
      BY DEF TypeOK
    <3>2. phaseQueue' = phaseQueue \/ phaseQueue' = Append(phaseQueue, "EXITING")
      BY <1>1 DEF RecvDone
    <3> QED BY <3>1, <3>2, AppendElements
  <2> QED BY <1>1, <2>1, <2>2 DEF RecvDone, mapperVars, reducerVars, bounds, TypeOK
<1>2. ASSUME TakePhase PROVE TypeOK'
  <2>1. phaseQueue' \in Seq({"CP", "EXITING"})
    BY <1>2, TailElements DEF TakePhase, TypeOK
  <2>2. exits' \in 0 .. Idle
    BY <1>2, WorkersOf DEF TakePhase, TypeOK
  <2> QED BY <1>2, <2>1, <2>2 DEF TakePhase, mapperVars, reducerVars, bounds, TypeOK
<1>3. ASSUME SendExit PROVE TypeOK'
  <2>1. exits' \in 0 .. Idle
    BY <1>3, WorkersOf DEF SendExit
  <2>2. exitMsg' \in [Workers -> BOOLEAN]
    BY <1>3 DEF SendExit, TypeOK
  <2> QED BY <1>3, <2>1, <2>2 DEF SendExit, mapperVars, reducerVars, bounds, TypeOK
<1>4. ASSUME CoordExit PROVE TypeOK'
  BY <1>4 DEF CoordExit, mapperVars, reducerVars, bounds, TypeOK
<1>5. ASSUME Tick \/ \E w \in Workers : Heartbeat(w) PROVE TypeOK'
  <2>1. age' \in [Workers -> 0 .. Timeout + 1]
    <3>1. Timeout \in Nat /\ age \in [Workers -> 0 .. Timeout + 1]
      BY BoundAssumption DEF TypeOK
    <3>2. CASE Tick
      <4>1. age' = [w \in Workers |-> IF age[w] > Timeout THEN age[w] ELSE age[w] + 1]
        BY <3>2 DEF Tick
      <4>2. \A w \in Workers : age[w] \in 0 .. Timeout + 1
        BY <3>1
      <4> QED BY <3>1, <4>1, <4>2
    <3>3. ASSUME NEW w \in Workers, Heartbeat(w)
          PROVE  age' \in [Workers -> 0 .. Timeout + 1]
      BY <3>1, <3>3 DEF Heartbeat
    <3> QED BY <1>5, <3>2, <3>3
  <2>2. UNCHANGED <<coord, phase, phaseQueue, exits, isDone, inbox, life, exitMsg,
                    conn, file, word, wcDone, wire, cmdq, wc, failed, kills, restarts>>
    BY <1>5 DEF Tick, Heartbeat, mapperVars, reducerVars, bounds
  <2> QED BY <2>1, <2>2 DEF TypeOK
<1> QED BY <1>1, <1>2, <1>3, <1>4, <1>5 DEF CoordStep

\* The word that a mapper sends next, and where it is.
LEMMA NextPlace ==
  ASSUME TypeOK, NEW m \in Mappers, HasWord(m)
  PROVE  /\ file[m] + 1 \in 1 .. Len(Stream[m]) /\ Current(m) \in Seq(Words)
         /\ word[m] + 1 \in 1 .. Len(Current(m))
         /\ NextWord(m) \in Words /\ Target(m) \in Reducers
<1>1. file[m] \in Nat /\ word[m] \in Nat /\ Stream[m] \in Seq(Seq(Words))
  BY DataAssumption DEF TypeOK
<1>2. file[m] < Len(Stream[m]) /\ word[m] < Len(Current(m))
  BY DEF HasWord, Reading
<1>3. file[m] + 1 \in 1 .. Len(Stream[m])
  BY <1>1, <1>2
<1>4. Current(m) \in Seq(Words)
  BY <1>1, <1>3 DEF Current
<1>5. word[m] + 1 \in 1 .. Len(Current(m))
  BY <1>1, <1>2, <1>4
<1>6. NextWord(m) \in Words
  BY <1>4, <1>5 DEF NextWord
<1> QED BY <1>3, <1>4, <1>5, <1>6, DataAssumption DEF Target

LEMMA MapperTypes ==
  ASSUME TypeOK, NEW m \in Mappers, MapperStep(m)
  PROVE  TypeOK'
<1>1. ASSUME NEW r \in Reducers, MapperConnect(m, r) PROVE TypeOK'
  <2>1. conn' \in [Mappers -> [Reducers -> Statuses]]
    BY <1>1, WriteTwo DEF MapperConnect, TypeOK, Statuses
  <2> QED BY <1>1, <2>1 DEF MapperConnect, coordVars, reducerVars, bounds, TypeOK, Statuses
<1>2. ASSUME MapperUp(m) \/ MapperExit(m) PROVE TypeOK'
  <2>1. life' \in [Workers -> Lives] /\ exitMsg' \in [Workers -> BOOLEAN]
    BY <1>2, WorkersOf DEF MapperUp, MapperExit, TypeOK, Lives
  <2> QED BY <1>2, <2>1
          DEF MapperUp, MapperExit, coordVars, mapperVars, reducerVars, bounds, TypeOK
<1>3. ASSUME SendWord(m) PROVE TypeOK'
  <2>1. HasWord(m)
    BY <1>3 DEF SendWord
  <2>2. /\ wire' = [wire EXCEPT ![Target(m)][NextWord(m)] = wire[Target(m)][NextWord(m)] + 1]
        /\ word' = [word EXCEPT ![m] = word[m] + 1]
    BY <1>3 DEF SendWord
  <2>3. wire[Target(m)][NextWord(m)] \in Nat
    BY <2>1, NextPlace DEF TypeOK
  <2>4. wire' \in [Reducers -> [Words -> Nat]]
    <3>1. wire \in [Reducers -> [Words -> Nat]]
      BY DEF TypeOK
    <3>2. Target(m) \in Reducers /\ NextWord(m) \in Words
      BY <2>1, NextPlace
    <3>3. wire[Target(m)][NextWord(m)] + 1 \in Nat
      BY <2>3
    <3> QED BY <2>2, <3>1, <3>2, <3>3, WriteTwo
  <2>5. word' \in [Mappers -> Nat]
    BY <2>2 DEF TypeOK
  <2> QED BY <1>3, <2>4, <2>5 DEF SendWord, coordVars, bounds, TypeOK
<1>4. ASSUME SendLost(m) PROVE TypeOK'
  <2>1. HasWord(m)
    BY <1>4 DEF SendLost
  <2>2. conn' \in [Mappers -> [Reducers -> Statuses]]
    BY <1>4, <2>1, NextPlace, WriteTwo DEF SendLost, TypeOK, Statuses
  <2>3. word' \in [Mappers -> Nat]
    BY <1>4 DEF SendLost, TypeOK
  <2> QED BY <1>4, <2>2, <2>3 DEF SendLost, coordVars, reducerVars, bounds, TypeOK, Statuses
<1>5. ASSUME SendRaises(m) PROVE TypeOK'
  <2>1. word' \in [Mappers -> Nat]
    BY <1>5 DEF SendRaises, TypeOK
  <2> QED BY <1>5, <2>1 DEF SendRaises, coordVars, reducerVars, bounds, TypeOK
<1>6. ASSUME FileDone(m) PROVE TypeOK'
  <2>1. word' \in [Mappers -> Nat]
    BY <1>6 DEF FileDone, TypeOK
  <2>2. file' \in [Mappers -> Nat] /\ \A n \in Mappers : file'[n] <= Len(Stream[n])
    <3>1. /\ file' = [file EXCEPT ![m] = file[m] + 1] /\ file[m] < Len(Stream[m])
          /\ file \in [Mappers -> Nat] /\ \A n \in Mappers : file[n] <= Len(Stream[n])
      BY <1>6 DEF FileDone, Reading, TypeOK
    <3>2. \A n \in Mappers : file'[n] = IF n = m THEN file[m] + 1 ELSE file[n]
      BY <3>1
    <3>3. Len(Stream[m]) \in Nat
      BY DataAssumption
    <3> QED BY <3>1, <3>2, <3>3
  <2> QED BY <1>6, <2>1, <2>2 DEF FileDone, coordVars, reducerVars, bounds, TypeOK
<1>7. ASSUME StreamDone(m) PROVE TypeOK'
  <2>1. wcDone' \in [Mappers -> BOOLEAN] /\ inbox' \subseteq Mappers
    BY <1>7 DEF StreamDone, TypeOK
  <2> QED BY <1>7, <2>1 DEF StreamDone, reducerVars, bounds, TypeOK
<1> QED BY <1>1, <1>2, <1>3, <1>4, <1>5, <1>6, <1>7 DEF MapperStep

LEMMA ReducerTypes ==
  ASSUME TypeOK, NEW r \in Reducers, ReducerStep(r)
  PROVE  TypeOK'
<1>0. /\ wire \in [Reducers -> [Words -> Nat]] /\ wc \in [Reducers -> [Words -> Nat]]
      /\ cmdq \in [Reducers -> Seq(Words \cup {Exit})] /\ cmdq[r] \in Seq(Words \cup {Exit})
  BY DEF TypeOK
<1>1. ASSUME ReducerUp(r) PROVE TypeOK'
  <2>1. life' \in [Workers -> Lives]
    BY <1>1 DEF ReducerUp, TypeOK, Lives
  <2> QED BY <1>1, <2>1 DEF ReducerUp, coordVars, mapperVars, reducerVars, bounds, TypeOK
<1>2. ASSUME RecvExit(r) PROVE TypeOK'
  <2>1. exitMsg' \in [Workers -> BOOLEAN]
    BY <1>2 DEF RecvExit, TypeOK
  <2>2. cmdq' \in [Reducers -> Seq(Words \cup {Exit})]
    BY <1>0, <1>2, AppendElements, WriteOne DEF RecvExit
  <2> QED BY <1>2, <2>1, <2>2 DEF RecvExit, coordVars, mapperVars, bounds, TypeOK
<1>3. ASSUME HandleWC(r) PROVE TypeOK'
  <2>1. cmdq' = [cmdq EXCEPT ![r] = Tail(cmdq[r])] /\ cmdq[r] # <<>> /\ Head(cmdq[r]) # Exit
    BY <1>3 DEF HandleWC
  <2>2. cmdq' \in [Reducers -> Seq(Words \cup {Exit})] /\ Head(cmdq[r]) \in Words
    BY <1>0, <2>1, TailElements, WriteOne
  <2>3. wc' = [wc EXCEPT ![r][Head(cmdq[r])] = wc[r][Head(cmdq[r])] + 1]
    BY <1>3 DEF HandleWC
  <2>4. wc[r][Head(cmdq[r])] \in Nat
    BY <1>0, <2>2
  <2>5. wc' \in [Reducers -> [Words -> Nat]]
    BY <1>0, <2>2, <2>3, <2>4, WriteTwo
  <2> QED BY <1>3, <2>2, <2>5 DEF HandleWC, coordVars, mapperVars, bounds, TypeOK
<1>4. ASSUME ReducerExit(r) PROVE TypeOK'
  <2>1. life' \in [Workers -> Lives] /\ exitMsg' \in [Workers -> BOOLEAN]
    BY <1>4 DEF ReducerExit, TypeOK, Lives
  <2>2. conn' \in [Mappers -> [Reducers -> Statuses]]
    BY <1>4 DEF ReducerExit, Broken, TypeOK, Statuses
  <2>3. wire' \in [Reducers -> [Words -> Nat]] /\ cmdq' \in [Reducers -> Seq(Words \cup {Exit})]
    <3>1. NoWords \in [Words -> Nat] /\ <<>> \in Seq(Words \cup {Exit})
      BY DEF NoWords
    <3>2. wire' = [wire EXCEPT ![r] = NoWords] /\ cmdq' = [cmdq EXCEPT ![r] = <<>>]
      BY <1>4 DEF ReducerExit
    <3> QED BY <1>0, <3>1, <3>2, WriteOne
  <2> QED BY <1>4, <2>1, <2>2, <2>3 DEF ReducerExit, coordVars, bounds, TypeOK, Statuses
<1>5. ASSUME NEW w \in Words, Read(r, w) PROVE TypeOK'
  <2>1. /\ wire' = [wire EXCEPT ![r][w] = wire[r][w] - 1] /\ wire[r][w] > 0
        /\ cmdq' = [cmdq EXCEPT ![r] = Append(cmdq[r], w)]
    BY <1>5 DEF Read
  <2>2. wire[r][w] - 1 \in Nat
    BY <1>0, <2>1
  <2>3. wire' \in [Reducers -> [Words -> Nat]]
    BY <1>0, <2>1, <2>2, WriteTwo
  <2>4. cmdq' \in [Reducers -> Seq(Words \cup {Exit})]
    BY <1>0, <2>1, AppendElements, WriteOne
  <2> QED BY <1>5, <2>3, <2>4 DEF Read, coordVars, mapperVars, bounds, TypeOK
<1> QED BY <1>1, <1>2, <1>3, <1>4, <1>5 DEF ReducerStep

LEMMA NextTypes == TypeOK /\ [Next]_vars => TypeOK'
<1> SUFFICES ASSUME TypeOK, [Next]_vars PROVE TypeOK'
  OBVIOUS
<1>1. CASE UNCHANGED vars
  BY <1>1 DEF vars, coordVars, mapperVars, reducerVars, bounds, TypeOK
<1> QED
  BY <1>1, FailureTypes, CoordinatorTypes, MapperTypes, ReducerTypes DEF Next

(***************************************************************************)
(* Every reachable state is well typed, whatever fails: in particular no   *)
(* mapper reads past the end of its stream and no word goes to a worker    *)
(* that is not a reducer (Mapper.word_count, word_2_socket).               *)
(***************************************************************************)
THEOREM WellTyped == Spec => []TypeOK
  BY InitTypes, NextTypes, PTL DEF Spec

-----------------------------------------------------------------------------
(***************************************************************************)
(* The counts.                                                             *)
(***************************************************************************)

\* Where w stands in a queue; what reducer r has received of it.
At(q, w)      == {n \in 1 .. Len(q) : q[n] = w}
Counted(r, w) == wc[r][w] + wire[r][w] + Cardinality(At(cmdq[r], w))

\* The places that have been sent, or belong to a mapper that announced its end.
Seen(w) == {p \in Places(w) : p \in SentPlaces(w) \/ Announced(p[1])}

\* A connection that a mapper finds broken.
Broke == \E m \in Mappers, r \in Reducers : conn[m][r] \in {"eof", "reset"}

\* Has the reducer of w not exited?
Serves(w) == life[Home[w]] # "exited"

(***************************************************************************)
(* Without a failed reducer connections break only when the job is being   *)
(* ended.  By then a mapper that was restarted after its DONE may still be *)
(* reading, and its words no longer reach the reducers that have exited;   *)
(* at the others all of them were received before, so the places of those  *)
(* who announced their end stay covered.                                   *)
(***************************************************************************)
CountInv ==
  /\ failed \subseteq Mappers /\ Broke => AllDone
  /\ failed = {} =>
       \A w \in Words : /\ Received(w) <= Cardinality(SentPlaces(w))
                        /\ Serves(w) => Received(w) = Cardinality(SentPlaces(w))
  /\ failed \subseteq Mappers =>
       \A w \in Words : Serves(w) => Received(w) >= Cardinality(Seen(w))

LEMMA AtFinite ==
  ASSUME NEW S, NEW q \in Seq(S), NEW w
  PROVE  IsFiniteSet(At(q, w)) /\ Cardinality(At(q, w)) \in Nat
<1>1. Len(q) \in Nat /\ 1 \in Int /\ Len(q) \in Int
  OBVIOUS
<1>2. IsFiniteSet(1 .. Len(q))
  BY <1>1, FS_Interval
<1> QED BY <1>2, FS_Subset, FS_CardinalityType DEF At

LEMMA AtAppend ==
  ASSUME NEW S, NEW q \in Seq(S), NEW x \in S, NEW w
  PROVE  Cardinality(At(Append(q, x), w))
           = Cardinality(At(q, w)) + (IF x = w THEN 1 ELSE 0)
<1>1. /\ Len(Append(q, x)) = Len(q) + 1 /\ Len(q) \in Nat
      /\ Append(q, x)[Len(q) + 1] = x
      /\ \A n \in 1 .. Len(q) : Append(q, x)[n] = q[n]
  OBVIOUS
<1>2. Len(q) + 1 \notin At(q, w)
  BY <1>1 DEF At
<1>3. CASE x = w
  <2>1. At(Append(q, x), w) = At(q, w) \cup {Len(q) + 1}
    BY <1>1, <1>3 DEF At
  <2> QED BY <1>2, <1>3, <2>1, AtFinite, FS_AddElement
<1>4. CASE x # w
  <2>1. At(Append(q, x), w) = At(q, w)
    BY <1>1, <1>4 DEF At
  <2> QED BY <1>4, <2>1, AtFinite
<1> QED BY <1>3, <1>4

LEMMA AtTail ==
  ASSUME NEW S, NEW q \in Seq(S), q # <<>>, NEW w
  PROVE  Cardinality(At(q, w))
           = Cardinality(At(Tail(q), w)) + (IF Head(q) = w THEN 1 ELSE 0)
<1> DEFINE f == [n \in At(Tail(q), w) |-> n + 1]
<1>1. /\ Len(Tail(q)) = Len(q) - 1 /\ Len(q) \in Nat /\ Len(q) > 0
      /\ Tail(q) \in Seq(S) /\ Head(q) = q[1]
      /\ \A n \in 1 .. Len(Tail(q)) : Tail(q)[n] = q[n + 1]
  OBVIOUS
<1>2. f \in [At(Tail(q), w) -> At(q, w) \ {1}]
  BY <1>1 DEF At
<1>3. \A a, b \in At(Tail(q), w) : f[a] = f[b] => a = b
  BY DEF At
<1>4. \A k \in At(q, w) \ {1} : \E n \in At(Tail(q), w) : f[n] = k
  <2> TAKE k \in At(q, w) \ {1}
  <2>1. k \in 1 .. Len(q) /\ k # 1 /\ q[k] = w
    BY DEF At
  <2>2. k - 1 \in 1 .. Len(Tail(q)) /\ Tail(q)[k - 1] = q[k]
    BY <1>1, <2>1
  <2>3. k - 1 \in At(Tail(q), w) /\ f[k - 1] = k
    BY <2>1, <2>2 DEF At
  <2> QED BY <2>3
<1>5. ExistsBijection(At(Tail(q), w), At(q, w) \ {1})
  BY <1>2, <1>3, <1>4 DEF ExistsBijection, Bijection, Injection, Surjection, IsInjective
<1>6. Cardinality(At(q, w) \ {1}) = Cardinality(At(Tail(q), w))
  BY <1>1, <1>5, AtFinite, FS_Bijection
<1>7. 1 \in At(q, w) <=> Head(q) = w
  BY <1>1 DEF At
<1>8. Cardinality(At(q, w) \ {1}) = IF 1 \in At(q, w) THEN Cardinality(At(q, w)) - 1
                                                       ELSE Cardinality(At(q, w))
  BY AtFinite, FS_RemoveElement
<1> QED BY <1>1, <1>6, <1>7, <1>8, AtFinite

LEMMA FiniteRange ==
  ASSUME NEW f, IsFiniteSet(DOMAIN f)
  PROVE  IsFiniteSet({f[x] : x \in DOMAIN f})
<1> DEFINE g == [x \in DOMAIN f |-> f[x]]
<1>1. g \in Surjection(DOMAIN f, {f[x] : x \in DOMAIN f})
  BY DEF Surjection
<1> QED BY <1>1, FS_Surjection

\* The streams are finite, and a place is a mapper, a file and a position.
LEMMA PlacesOf ==
  ASSUME NEW w \in Words
  PROVE  /\ IsFiniteSet(Places(w))
         /\ \A p \in Places(w) :
              /\ p = <<p[1], p[2], p[3]>> /\ p[1] \in Mappers
              /\ p[2] \in 1 .. Len(Stream[p[1]])
              /\ p[3] \in 1 .. Len(Stream[p[1]][p[2]])
              /\ Stream[p[1]][p[2]][p[3]] = w
         /\ \A m \in Mappers : \A f \in 1 .. Len(Stream[m]) :
              \A n \in 1 .. Len(Stream[m][f]) :
                Stream[m][f][n] = w => <<m, f, n>> \in Places(w)
<1> DEFINE In(m, f) == {<<m, f, n>> : n \in 1 .. Len(Stream[m][f])}
           Of(m)    == UNION {In(m, f) : f \in 1 .. Len(Stream[m])}
           All      == UNION {Of(m) : m \in Mappers}
<1>1. Places(w) = {p \in All : Stream[p[1]][p[2]][p[3]] = w}
  BY DEF Places
<1>2. \A m \in Mappers : /\ Len(Stream[m]) \in Nat
                         /\ \A f \in 1 .. Len(Stream[m]) : Len(Stream[m][f]) \in Nat
  BY DataAssumption
<1>3. ASSUME NEW a \in Nat PROVE IsFiniteSet(1 .. a)
  BY <1>3, FS_Interval
<1>4. ASSUME NEW m \in Mappers, NEW f \in 1 .. Len(Stream[m])
      PROVE  IsFiniteSet(In(m, f))
  <2> DEFINE g == [n \in 1 .. Len(Stream[m][f]) |-> <<m, f, n>>]
  <2>1. IsFiniteSet(DOMAIN g)
    BY <1>2, <1>3
  <2>2. IsFiniteSet({g[n] : n \in DOMAIN g})
    BY <2>1, FiniteRange
  <2>3. {g[n] : n \in DOMAIN g} = In(m, f)
    OBVIOUS
  <2> QED BY <2>2, <2>3
<1>5. ASSUME NEW m \in Mappers
      PROVE  IsFiniteSet(Of(m))
  <2> DEFINE g == [f \in 1 .. Len(Stream[m]) |-> In(m, f)]
  <2>1. IsFiniteSet(DOMAIN g)
    BY <1>2, <1>3
  <2>2. IsFiniteSet({g[f] : f \in DOMAIN g})
    BY <2>1, FiniteRange
  <2>3. {g[f] : f \in DOMAIN g} = {In(m, f) : f \in 1 .. Len(Stream[m])}
    OBVIOUS
  <2>4. \A T \in {In(m, f) : f \in 1 .. Len(Stream[m])} : IsFiniteSet(T)
    BY <1>4
  <2> HIDE DEF In, g
  <2> QED BY <2>2, <2>3, <2>4, FS_UNION
<1>6. IsFiniteSet(All)
  <2> DEFINE g == [m \in Mappers |-> Of(m)]
  <2>1. IsFiniteSet(DOMAIN g)
    BY NumAssumption, <1>3 DEF Mappers
  <2>2. IsFiniteSet({g[m] : m \in DOMAIN g})
    BY <2>1, FiniteRange
  <2>3. {g[m] : m \in DOMAIN g} = {Of(m) : m \in Mappers}
    OBVIOUS
  <2>4. \A T \in {Of(m) : m \in Mappers} : IsFiniteSet(T)
    BY <1>5
  <2> HIDE DEF Of, g
  <2> QED BY <2>2, <2>3, <2>4, FS_UNION
<1>7. IsFiniteSet(Places(w))
  <2>1. Places(w) \in SUBSET All
    BY <1>1
  <2> HIDE DEF All
  <2> QED BY <1>6, <2>1, FS_Subset
<1>8. ASSUME NEW p \in Places(w)
      PROVE  \E m \in Mappers : \E f \in 1 .. Len(Stream[m]) :
               \E n \in 1 .. Len(Stream[m][f]) :
                 p = <<m, f, n>> /\ Stream[m][f][n] = w
  <2>1. p \in All /\ Stream[p[1]][p[2]][p[3]] = w
    BY <1>1
  <2>2. PICK m \in Mappers : p \in Of(m)
    BY <2>1
  <2>3. PICK f \in 1 .. Len(Stream[m]) : p \in In(m, f)
    BY <2>2
  <2>4. PICK n \in 1 .. Len(Stream[m][f]) : p = <<m, f, n>>
    BY <2>3
  <2> QED BY <2>1, <2>4
<1>9. ASSUME NEW m \in Mappers, NEW f \in 1 .. Len(Stream[m]),
             NEW n \in 1 .. Len(Stream[m][f]), Stream[m][f][n] = w
      PROVE  <<m, f, n>> \in Places(w)
  <2>1. <<m, f, n>> \in In(m, f)
    OBVIOUS
  <2>2. <<m, f, n>> \in All
    BY <2>1
  <2> HIDE DEF All
  <2> QED BY <1>1, <1>9, <2>2
<1>10. ASSUME NEW p \in Places(w)
       PROVE  /\ p = <<p[1], p[2], p[3]>> /\ p[1] \in Mappers
              /\ p[2] \in 1 .. Len(Stream[p[1]])
              /\ p[3] \in 1 .. Len(Stream[p[1]][p[2]])
              /\ Stream[p[1]][p[2]][p[3]] = w
  <2>1. PICK m \in Mappers : \E f \in 1 .. Len(Stream[m]) :
               \E n \in 1 .. Len(Stream[m][f]) :
                 p = <<m, f, n>> /\ Stream[m][f][n] = w
    BY <1>8
  <2>2. PICK f \in 1 .. Len(Stream[m]) : \E n \in 1 .. Len(Stream[m][f]) :
                 p = <<m, f, n>> /\ Stream[m][f][n] = w
    BY <2>1
  <2>3. PICK n \in 1 .. Len(Stream[m][f]) : p = <<m, f, n>> /\ Stream[m][f][n] = w
    BY <2>2
  <2>4. p[1] = m /\ p[2] = f /\ p[3] = n
    BY <2>3
  <2> QED BY <2>3, <2>4
<1> QED BY <1>7, <1>9, <1>10

LEMMA ReceivedIs ==
  ASSUME TypeOK, NEW w \in Words
  PROVE  /\ Home[w] \in Reducers /\ Received(w) = Counted(Home[w], w)
         /\ Received(w) \in Nat
<1>1. Home[w] \in Reducers
  BY DataAssumption
<1>2. cmdq[Home[w]] \in Seq(Words \cup {Exit}) /\ wc[Home[w]][w] \in Nat /\ wire[Home[w]][w] \in Nat
  BY <1>1 DEF TypeOK
<1>3. Received(w) = Counted(Home[w], w)
  BY DEF Received, Counted, At
<1> QED BY <1>1, <1>2, <1>3, AtFinite DEF Counted

LEMMA SentFinite ==
  ASSUME NEW w \in Words
  PROVE  /\ IsFiniteSet(SentPlaces(w)) /\ IsFiniteSet(Seen(w))
         /\ Cardinality(SentPlaces(w)) \in Nat /\ Cardinality(Seen(w)) \in Nat
<1>1. SentPlaces(w) \in SUBSET Places(w) /\ Seen(w) \in SUBSET Places(w)
  BY DEF SentPlaces, Seen
<1> QED BY <1>1, PlacesOf, FS_Subset, FS_CardinalityType

\* What depends on neither the reducers' data nor the mappers' positions.
LEMMA SamePlaces ==
  ASSUME NEW w, UNCHANGED <<file, word>>
  PROVE  SentPlaces(w)' = SentPlaces(w)
BY DEF SentPlaces, Places

LEMMA SameSeen ==
  ASSUME NEW w, SentPlaces(w)' = SentPlaces(w),
         \A m \in Mappers : Announced(m)' = Announced(m), w \in Words
  PROVE  Seen(w)' = Seen(w)
<1>1. Places(w)' = Places(w)
  BY DEF Places
<1>2. \A p \in Places(w) : p[1] \in Mappers
  BY PlacesOf
<1> QED BY <1>1, <1>2 DEF Seen

\* Once all have announced their end there is nothing more to see.
LEMMA AllSeen ==
  ASSUME NEW w \in Words, AllDone
  PROVE  Seen(w) = Places(w)
<1>1. \A p \in Places(w) : p[1] \in Mappers
  BY PlacesOf
<1> QED BY <1>1 DEF Seen, Announced, AllDone

\* Steps that leave data and positions alone.
LEMMA UnconcernedCount ==
  ASSUME CountInv, UNCHANGED <<file, word, wire, cmdq, wc, failed>>,
         \A m \in Mappers : Announced(m)' = Announced(m),
         \A r \in Reducers : life[r] = "exited" => life'[r] = "exited",
         AllDone => AllDone', Broke' => Broke \/ AllDone'
  PROVE  CountInv'
<1>1. \A w \in Words : Received(w)' = Received(w)
  BY DEF Received
<1>2. \A w \in Words : SentPlaces(w)' = SentPlaces(w) /\ Seen(w)' = Seen(w)
  BY SamePlaces, SameSeen
<1>3. \A w \in Words : Serves(w)' => Serves(w)
  BY DataAssumption DEF Serves
<1> QED BY <1>1, <1>2, <1>3 DEF CountInv

LEMMA CoordinatorCount ==
  ASSUME TypeOK, CountInv, CoordStep \/ Tick \/ \E w \in Workers : Heartbeat(w)
  PROVE  CountInv'
<1>1. ASSUME NEW m \in Mappers, RecvDone(m) PROVE CountInv'
  <2>1. /\ UNCHANGED <<file, word, wire, cmdq, wc, failed, conn, life>>
        /\ m \in inbox /\ inbox' = inbox \ {m} /\ isDone' = [isDone EXCEPT ![m] = TRUE]
    BY <1>1 DEF RecvDone, mapperVars, reducerVars, bounds
  <2>2. \A n \in Mappers : isDone'[n] = IF n = m THEN TRUE ELSE isDone[n]
    BY <2>1 DEF TypeOK
  <2>3. \A n \in Mappers : Announced(n)' = Announced(n)
    BY <2>1, <2>2 DEF Announced
  <2>4. (AllDone => AllDone') /\ Broke' = Broke
    BY <2>1, <2>2 DEF AllDone, Broke
  <2> QED BY <2>1, <2>3, <2>4, UnconcernedCount
<1>2. ASSUME TakePhase \/ SendExit \/ CoordExit \/ Tick \/ \E w \in Workers : Heartbeat(w)
      PROVE  CountInv'
  <2>1. UNCHANGED <<file, word, wire, cmdq, wc, failed, conn, inbox, isDone, life>>
    BY <1>2 DEF TakePhase, SendExit, CoordExit, Tick, Heartbeat, mapperVars, reducerVars, bounds
  <2>2. /\ \A n \in Mappers : Announced(n)' = Announced(n)
        /\ AllDone' = AllDone /\ Broke' = Broke
    BY <2>1 DEF Announced, AllDone, Broke
  <2> QED BY <2>1, <2>2, UnconcernedCount
<1> QED BY <1>1, <1>2 DEF CoordStep

\* A restarted mapper has sent nothing; after a reducer's end nothing is claimed.
LEMMA FailureCount ==
  ASSUME TypeOK, CountInv, NEW v \in Workers, Kill(v) \/ Restart(v)
  PROVE  CountInv'
<1>1. UNCHANGED <<inbox, isDone>> /\ Gone(v) /\ failed' = failed \cup {v}
  BY DEF Kill, Restart, coordVars
<1>2. CASE v \notin Mappers
  <2>1. ~(failed' \subseteq Mappers) /\ failed' # {}
    BY <1>1, <1>2
  <2> QED BY <2>1 DEF CountInv
<1>3. CASE v \in Mappers
  <2>1. /\ conn' = [conn EXCEPT ![v] = [r \in Reducers |-> "none"]]
        /\ file' = [file EXCEPT ![v] = 0] /\ word' = [word EXCEPT ![v] = 0]
        /\ UNCHANGED <<wire, cmdq, wc>>
    BY <1>1, <1>3 DEF Gone, MapperGone, reducerVars
  <2>2. failed' # {} /\ (failed' \subseteq Mappers => failed \subseteq Mappers)
    BY <1>1
  <2>3. Broke' => Broke
    BY <2>1 DEF Broke, TypeOK
  <2>4. AllDone' = AllDone /\ \A m \in Mappers : Announced(m)' = Announced(m)
    BY <1>1 DEF AllDone, Announced
  <2>5. ASSUME NEW w \in Words
        PROVE  Received(w)' = Received(w) /\ Cardinality(Seen(w)') <= Cardinality(Seen(w))
    <3>1. Received(w)' = Received(w)
      BY <2>1 DEF Received
    <3>2. /\ Places(w)' = Places(w) /\ \A p \in Places(w) : /\ p[1] \in Mappers
                                                            /\ p[2] \in Nat \ {0}
                                                            /\ p[3] \in Nat \ {0}
      <4>1. \A m \in Mappers : /\ Len(Stream[m]) \in Nat
                               /\ \A f \in 1 .. Len(Stream[m]) : Len(Stream[m][f]) \in Nat
        BY DataAssumption
      <4> QED BY <4>1, PlacesOf DEF Places
    <3>3. \A p \in Places(w) : p \in SentPlaces(w)' => p \in SentPlaces(w)
      <4> SUFFICES ASSUME NEW p \in Places(w), p \in SentPlaces(w)'
                   PROVE  p \in SentPlaces(w)
        OBVIOUS
      <4>1. \/ p[2] <= file'[p[1]]
            \/ p[2] = file'[p[1]] + 1 /\ p[3] <= word'[p[1]]
        BY DEF SentPlaces
      <4>2. p[1] # v
        BY <2>1, <3>2, <4>1, <1>3 DEF TypeOK
      <4>3. file'[p[1]] = file[p[1]] /\ word'[p[1]] = word[p[1]]
        BY <2>1, <3>2, <4>2 DEF TypeOK
      <4> QED BY <4>1, <4>3 DEF SentPlaces
    <3>4. Seen(w)' \in SUBSET Seen(w)
      BY <2>4, <3>2, <3>3 DEF Seen
    <3> QED BY <3>1, <3>4, SentFinite, FS_Subset
  <2>6. ASSUME NEW w \in Words, failed' \subseteq Mappers, Serves(w)'
        PROVE  Received(w)' >= Cardinality(Seen(w)')
    <3>0. Serves(w)
      <4>1. \A r \in Reducers : life'[r] = life[r]
        BY <1>3, WorkersOf DEF Kill, Restart, TypeOK
      <4> QED BY <2>6, <4>1, DataAssumption DEF Serves
    <3>1. Received(w) >= Cardinality(Seen(w)) /\ Received(w) \in Nat
      BY <2>2, <2>6, <3>0, ReceivedIs DEF CountInv
    <3>2. Cardinality(Seen(w)') \in Nat
      <4>1. Seen(w)' \in SUBSET Places(w)
        BY DEF Seen, Places
      <4> QED BY <4>1, PlacesOf, FS_Subset, FS_CardinalityType
    <3> QED BY <2>5, <3>1, <3>2, SentFinite
  <2> QED BY <2>2, <2>3, <2>4, <2>6 DEF CountInv
<1> QED BY <1>2, <1>3

\* sendall of a word: one more place, and one more word on the wire.
LEMMA SendCount ==
  ASSUME TypeOK, CountInv, NEW m \in Mappers, SendWord(m)
  PROVE  CountInv'
<1> DEFINE x == NextWord(m)
           q == <<m, file[m] + 1, word[m] + 1>>
<1>1. /\ HasWord(m) /\ UNCHANGED <<file, conn, cmdq, wc, failed, inbox, isDone, life>>
      /\ wire' = [wire EXCEPT ![Target(m)][x] = wire[Target(m)][x] + 1]
      /\ word' = [word EXCEPT ![m] = word[m] + 1]
  BY DEF SendWord, coordVars, bounds
<1>2. /\ file[m] + 1 \in 1 .. Len(Stream[m]) /\ word[m] + 1 \in 1 .. Len(Stream[m][file[m] + 1])
      /\ x \in Words /\ Target(m) = Home[x] /\ x = Stream[m][file[m] + 1][word[m] + 1]
      /\ Target(m) \in Reducers
  BY <1>1, NextPlace DEF Current, NextWord, Target
<1>3. /\ wire \in [Reducers -> [Words -> Nat]] /\ file \in [Mappers -> Nat]
      /\ word \in [Mappers -> Nat] /\ file[m] \in Nat /\ word[m] \in Nat
  BY DEF TypeOK
<1>4. q[1] = m /\ q[2] = file[m] + 1 /\ q[3] = word[m] + 1
  OBVIOUS
<1>5. q \in Places(x)
  BY <1>2, PlacesOf
<1>6. \A w \in Words : q \in Places(w) => w = x
  BY <1>2, <1>4, PlacesOf
<1>7. \A w \in Words : q \notin SentPlaces(w)
  BY <1>3, <1>4 DEF SentPlaces
<1>8. \A n \in Mappers : word'[n] = IF n = m THEN word[m] + 1 ELSE word[n]
  BY <1>1, <1>3
<1> HIDE DEF x, q
<1>9. ASSUME NEW w \in Words
      PROVE  SentPlaces(w)' = IF w = x THEN SentPlaces(w) \cup {q} ELSE SentPlaces(w)
  <2>1. Places(w)' = Places(w)
    BY DEF Places
  <2>2. ASSUME NEW p \in Places(w)
        PROVE  p \in SentPlaces(w)' <=> p \in SentPlaces(w) \/ p = q
    <3>1. /\ p = <<p[1], p[2], p[3]>> /\ p[1] \in Mappers
          /\ p[2] \in 1 .. Len(Stream[p[1]]) /\ p[3] \in 1 .. Len(Stream[p[1]][p[2]])
      BY PlacesOf
    <3>2. p[2] \in Nat /\ p[3] \in Nat
      <4>1. Len(Stream[p[1]]) \in Nat /\ Len(Stream[p[1]][p[2]]) \in Nat
        BY <3>1, DataAssumption
      <4> QED BY <3>1, <4>1
    <3>3. p = q <=> p[1] = m /\ p[2] = file[m] + 1 /\ p[3] = word[m] + 1
      BY <3>1, <1>4 DEF q
    <3>4. p \in SentPlaces(w) <=> \/ p[2] <= file[p[1]]
                                  \/ p[2] = file[p[1]] + 1 /\ p[3] <= word[p[1]]
      BY DEF SentPlaces
    <3>5. p \in SentPlaces(w)' <=> \/ p[2] <= file[p[1]]
                                   \/ p[2] = file[p[1]] + 1 /\ p[3] <= word'[p[1]]
      BY <1>1, <2>1 DEF SentPlaces
    <3> QED BY <1>3, <1>8, <3>1, <3>2, <3>3, <3>4, <3>5
  <2>3. SentPlaces(w)' \subseteq Places(w) /\ SentPlaces(w) \subseteq Places(w)
    BY <2>1 DEF SentPlaces
  <2>4. w = x => q \in Places(w)
    BY <1>5
  <2>5. w # x => q \notin Places(w)
    BY <1>6
  <2> QED BY <2>2, <2>3, <2>4, <2>5
<1>10. ASSUME NEW w \in Words
       PROVE  Seen(w)' = IF w = x THEN Seen(w) \cup {q} ELSE Seen(w)
  <2>1. Places(w)' = Places(w) /\ \A n : Announced(n)' = Announced(n)
    BY <1>1 DEF Places, Announced
  <2>2. w = x => q \in Places(w)
    BY <1>5
  <2> QED BY <1>9, <2>1, <2>2 DEF Seen
<1>11. ASSUME NEW w \in Words
       PROVE  Received(w)' = Received(w) + (IF w = x THEN 1 ELSE 0)
  <2>1. Home[w] \in Reducers
    BY DataAssumption
  <2>2. wire'[Home[w]][w] = wire[Home[w]][w] + (IF w = x THEN 1 ELSE 0)
    <3>1. wire' = [r \in Reducers |-> [v \in Words |->
                     IF r = Target(m) /\ v = x THEN wire[r][v] + 1 ELSE wire[r][v]]]
      BY <1>1, <1>2, <1>3
    <3>2. wire'[Home[w]][w] = IF Home[w] = Target(m) /\ w = x
                              THEN wire[Home[w]][w] + 1 ELSE wire[Home[w]][w]
      BY <2>1, <3>1
    <3>3. wire[Home[w]][w] \in Nat
      BY <1>3, <2>1
    <3> QED BY <1>2, <3>2, <3>3
  <2>3. wire[Home[w]][w] \in Nat /\ wc[Home[w]][w] \in Nat
    BY <2>1 DEF TypeOK
  <2>4. Cardinality(At(cmdq[Home[w]], w)) \in Nat
    BY <2>1, AtFinite DEF TypeOK
  <2>5. /\ Received(w) = wc[Home[w]][w] + wire[Home[w]][w] + Cardinality(At(cmdq[Home[w]], w))
        /\ Received(w)' = wc[Home[w]][w] + wire'[Home[w]][w] + Cardinality(At(cmdq[Home[w]], w))
    BY <1>1 DEF Received, At
  <2> QED BY <2>2, <2>3, <2>4, <2>5
<1>12. ASSUME NEW w \in Words
       PROVE  /\ Cardinality(SentPlaces(w)') =
                   Cardinality(SentPlaces(w)) + (IF w = x THEN 1 ELSE 0)
              /\ Cardinality(Seen(w)') <= Cardinality(Seen(w)) + (IF w = x THEN 1 ELSE 0)
              /\ Cardinality(Seen(w)') \in Nat
  <2>1. CASE w = x
    <3>1. Cardinality(SentPlaces(w)') = Cardinality(SentPlaces(w)) + 1
      BY <1>7, <1>9, <2>1, SentFinite, FS_AddElement
    <3>2. Cardinality(Seen(w)') \in {Cardinality(Seen(w)), Cardinality(Seen(w)) + 1}
      <4>1. Seen(w)' = Seen(w) \cup {q}
        BY <1>10, <2>1
      <4>2. Cardinality(Seen(w) \cup {q}) =
              IF q \in Seen(w) THEN Cardinality(Seen(w)) ELSE Cardinality(Seen(w)) + 1
        BY SentFinite, FS_AddElement
      <4> QED BY <4>1, <4>2
    <3> QED BY <2>1, <3>1, <3>2, SentFinite
  <2>2. CASE w # x
    BY <1>9, <1>10, <2>2, SentFinite
  <2> QED BY <2>1, <2>2
<1>13. AllDone' = AllDone /\ Broke' = Broke /\ failed' = failed
  BY <1>1 DEF AllDone, Broke
<1>14. ASSUME NEW w \in Words, failed' = {}
       PROVE  /\ Received(w)' <= Cardinality(SentPlaces(w)')
              /\ Serves(w) => Received(w)' = Cardinality(SentPlaces(w)')
  <2>1. /\ Received(w) <= Cardinality(SentPlaces(w))
        /\ Serves(w) => Received(w) = Cardinality(SentPlaces(w))
    BY <1>13, <1>14 DEF CountInv
  <2>2. Received(w) \in Nat /\ Cardinality(SentPlaces(w)) \in Nat
    BY ReceivedIs, SentFinite
  <2> QED BY <1>11, <1>12, <2>1, <2>2
<1>15. ASSUME NEW w \in Words, failed' \subseteq Mappers, Serves(w)
       PROVE  Received(w)' >= Cardinality(Seen(w)')
  <2>1. Received(w) >= Cardinality(Seen(w)) /\ Received(w) \in Nat /\ Cardinality(Seen(w)) \in Nat
    BY <1>13, <1>15, ReceivedIs, SentFinite DEF CountInv
  <2> QED BY <1>11, <1>12, <2>1
<1>16. \A w : Serves(w)' = Serves(w)
  BY <1>1 DEF Serves
<1> QED BY <1>13, <1>14, <1>15, <1>16 DEF CountInv

\* sendall on a broken connection: only while the job is being ended.
LEMMA BrokenCount ==
  ASSUME TypeOK, ReadInv, CountInv, NEW m \in Mappers, SendLost(m) \/ SendRaises(m)
  PROVE  CountInv'
<1>1. /\ HasWord(m) /\ conn[m][Target(m)] \in {"eof", "reset"}
      /\ UNCHANGED <<wire, cmdq, wc, failed, inbox, isDone, life>>
  BY DEF SendLost, SendRaises, coordVars, reducerVars, bounds
<1>2. Broke
  BY <1>1, NextPlace DEF Broke
<1>3. failed \subseteq Mappers => AllDone /\ AllDone'
  BY <1>1, <1>2 DEF CountInv, AllDone
<1>4. failed # {}
  BY <1>1, <1>3 DEF ReadInv, AllDone, Announced, HasWord, Reading
<1>5. ASSUME NEW w \in Words, failed \subseteq Mappers, Serves(w)
      PROVE  Received(w)' >= Cardinality(Seen(w)')
  <2>1. Seen(w) = Places(w)
    BY <1>3, <1>5, AllSeen
  <2>2. Seen(w)' = Places(w)
    <3>1. Places(w)' = Places(w) /\ \A p \in Places(w) : p[1] \in Mappers
      BY PlacesOf DEF Places
    <3> QED BY <1>3, <1>5, <3>1 DEF Seen, Announced, AllDone
  <2>3. Received(w)' = Received(w)
    BY <1>1 DEF Received
  <2> QED BY <1>5, <2>1, <2>2, <2>3 DEF CountInv
<1>6. \A w : Serves(w)' = Serves(w)
  BY <1>1 DEF Serves
<1> QED BY <1>1, <1>3, <1>4, <1>5, <1>6 DEF CountInv

\* last_stream_id moves on, and the end of the stream is announced.
LEMMA PassCount ==
  ASSUME TypeOK, CountInv, NEW m \in Mappers, FileDone(m) \/ StreamDone(m)
  PROVE  CountInv'
<1>1. UNCHANGED <<wire, cmdq, wc, failed, isDone, conn, life>>
  BY DEF FileDone, StreamDone, coordVars, reducerVars, bounds
<1>2. \A w \in Words : Received(w)' = Received(w) /\ Serves(w)' = Serves(w)
  BY <1>1 DEF Received, Serves
<1>3. AllDone' = AllDone /\ Broke' = Broke
  BY <1>1 DEF AllDone, Broke
<1>4. ASSUME NEW w \in Words
      PROVE  SentPlaces(w)' = SentPlaces(w) /\ Seen(w)' = Seen(w)
  <2>1. CASE FileDone(m)
    <3>1. /\ inbox' = inbox /\ word[m] = Len(Stream[m][file[m] + 1])
          /\ file' = [file EXCEPT ![m] = file[m] + 1] /\ word' = [word EXCEPT ![m] = 0]
      BY <2>1 DEF FileDone, Current, coordVars
    <3>2. file \in [Mappers -> Nat] /\ word \in [Mappers -> Nat]
      BY DEF TypeOK
    <3>3. Places(w)' = Places(w)
      BY DEF Places
    <3>4. ASSUME NEW p \in Places(w)
          PROVE  p \in SentPlaces(w)' <=> p \in SentPlaces(w)
      <4>1. /\ p[1] \in Mappers /\ p[2] \in 1 .. Len(Stream[p[1]])
            /\ p[3] \in 1 .. Len(Stream[p[1]][p[2]])
        BY PlacesOf
      <4>2. Len(Stream[p[1]]) \in Nat /\ Len(Stream[p[1]][p[2]]) \in Nat
        BY <4>1, DataAssumption
      <4>3. p \in SentPlaces(w)' <=> \/ p[2] <= file'[p[1]]
                                     \/ p[2] = file'[p[1]] + 1 /\ p[3] <= word'[p[1]]
        BY <3>3 DEF SentPlaces
      <4>4. p \in SentPlaces(w) <=> \/ p[2] <= file[p[1]]
                                    \/ p[2] = file[p[1]] + 1 /\ p[3] <= word[p[1]]
        BY DEF SentPlaces
      <4>5. /\ file'[p[1]] = IF p[1] = m THEN file[m] + 1 ELSE file[p[1]]
            /\ word'[p[1]] = IF p[1] = m THEN 0 ELSE word[p[1]]
        BY <3>1, <3>2, <4>1
      <4>6. file[m] \in Nat /\ file[p[1]] \in Nat /\ p[2] \in Nat /\ p[3] \in Nat \ {0}
        BY <3>2, <4>1, <4>2
      <4>7. CASE p[1] = m
        <5>1. p[2] = file[m] + 1 => p[3] <= word[m]
          BY <3>1, <4>1, <4>7
        <5> QED BY <4>3, <4>4, <4>5, <4>6, <4>7, <5>1
      <4>8. CASE p[1] # m
        BY <4>3, <4>4, <4>5, <4>8
      <4> QED BY <4>7, <4>8
    <3>5. SentPlaces(w)' = SentPlaces(w)
      BY <3>3, <3>4 DEF SentPlaces
    <3>6. \A n \in Mappers : Announced(n)' = Announced(n)
      BY <1>1, <3>1 DEF Announced
    <3> QED BY <3>5, <3>6, SameSeen
  <2>2. CASE StreamDone(m)
    <3>1. /\ UNCHANGED <<file, word>> /\ file[m] = Len(Stream[m])
          /\ inbox \subseteq inbox' /\ inbox' \subseteq inbox \cup {m}
      BY <2>2 DEF StreamDone
    <3>2. SentPlaces(w)' = SentPlaces(w) /\ Places(w)' = Places(w)
      BY <3>1, SamePlaces DEF Places
    <3>3. \A p \in Places(w) : p[1] = m => p \in SentPlaces(w)
      <4>1. Len(Stream[m]) \in Nat
        BY DataAssumption
      <4> QED BY <3>1, <4>1, PlacesOf DEF SentPlaces
    <3>4. \A n : n # m => Announced(n)' = Announced(n)
      BY <1>1, <3>1 DEF Announced
    <3> QED BY <3>2, <3>3, <3>4 DEF Seen
  <2> QED BY <2>1, <2>2
<1> QED BY <1>1, <1>2, <1>3, <1>4 DEF CountInv

LEMMA MapperCount ==
  ASSUME TypeOK, ReadInv, CountInv, NEW m \in Mappers, MapperStep(m)
  PROVE  CountInv'
<1>1. ASSUME MapperUp(m) \/ MapperExit(m) \/ \E r \in Reducers : MapperConnect(m, r)
      PROVE  CountInv'
  <2>1. UNCHANGED <<file, word, wire, cmdq, wc, failed, inbox, isDone>>
    BY <1>1 DEF MapperUp, MapperExit, MapperConnect, coordVars, mapperVars, reducerVars, bounds
  <2>2. Broke' => Broke
    <3>1. CASE MapperUp(m) \/ MapperExit(m)
      BY <3>1 DEF MapperUp, MapperExit, mapperVars, Broke
    <3>2. ASSUME NEW r \in Reducers, MapperConnect(m, r) PROVE Broke' => Broke
      BY <3>2 DEF MapperConnect, Broke, TypeOK
    <3> QED BY <1>1, <3>1, <3>2
  <2>3. AllDone' = AllDone /\ \A n \in Mappers : Announced(n)' = Announced(n)
    BY <2>1 DEF AllDone, Announced
  <2>4. \A r \in Reducers : life'[r] = life[r]
    BY <1>1, WorkersOf DEF MapperUp, MapperExit, MapperConnect, TypeOK
  <2> QED BY <2>1, <2>2, <2>3, <2>4, UnconcernedCount
<1> QED BY <1>1, SendCount, BrokenCount, PassCount DEF MapperStep

\* handle_mappers, handle_coordinator and WC.handle lose and repeat nothing.
LEMMA ReducerReceived ==
  ASSUME TypeOK, NEW r \in Reducers, NEW w \in Words,
         HandleWC(r) \/ RecvExit(r) \/ \E v \in Words : Read(r, v)
  PROVE  Received(w)' = Received(w)
<1> DEFINE h == Home[w]
<1>1. /\ wire \in [Reducers -> [Words -> Nat]] /\ wc \in [Reducers -> [Words -> Nat]]
      /\ cmdq \in [Reducers -> Seq(Words \cup {Exit})] /\ h \in Reducers
  BY DataAssumption DEF TypeOK
<1>2. /\ Received(w) = wc[h][w] + wire[h][w] + Cardinality(At(cmdq[h], w))
      /\ Received(w)' = wc'[h][w] + wire'[h][w] + Cardinality(At(cmdq'[h], w))
  BY DEF Received, At
<1>3. /\ wc[h][w] \in Nat /\ wire[h][w] \in Nat /\ cmdq[h] \in Seq(Words \cup {Exit})
      /\ Cardinality(At(cmdq[h], w)) \in Nat
  BY <1>1, AtFinite
<1> HIDE DEF h
<1>4. ASSUME HandleWC(r) PROVE Received(w)' = Received(w)
  <2> DEFINE x == Head(cmdq[r])
  <2>1. /\ cmdq[r] # <<>> /\ x # Exit /\ wire' = wire
        /\ cmdq' = [cmdq EXCEPT ![r] = Tail(cmdq[r])]
        /\ wc' = [wc EXCEPT ![r][x] = wc[r][x] + 1]
    BY <1>4 DEF HandleWC
  <2>2. CASE h = r
    <3>1. x \in Words
      BY <1>3, <2>1, <2>2, TailElements
    <3>2. cmdq'[h] = Tail(cmdq[h])
      BY <1>1, <2>1, <2>2
    <3>3. Cardinality(At(cmdq[h], w)) =
            Cardinality(At(Tail(cmdq[h]), w)) + (IF x = w THEN 1 ELSE 0)
      BY <1>3, <2>1, <2>2, AtTail
    <3>4. Cardinality(At(Tail(cmdq[h]), w)) \in Nat
      BY <1>3, <2>1, <2>2, TailElements, AtFinite
    <3>5. wc'[h][w] = wc[h][w] + (IF x = w THEN 1 ELSE 0)
      <4> HIDE DEF x
      <4>1. wc' = [s \in Reducers |-> [v \in Words |->
                     IF s = r /\ v = x THEN wc[s][v] + 1 ELSE wc[s][v]]]
        BY <1>1, <2>1, <3>1
      <4>2. wc'[h][w] = IF w = x THEN wc[h][w] + 1 ELSE wc[h][w]
        BY <1>1, <2>2, <4>1
      <4> QED BY <1>3, <4>2
    <3> HIDE DEF x
    <3> QED BY <1>2, <1>3, <2>1, <3>2, <3>3, <3>4, <3>5
  <2>3. CASE h # r
    <3>1. cmdq'[h] = cmdq[h] /\ wc'[h] = wc[h]
      BY <1>1, <2>1, <2>3
    <3> QED BY <1>2, <2>1, <3>1
  <2> QED BY <2>2, <2>3
<1>5. ASSUME RecvExit(r) PROVE Received(w)' = Received(w)
  <2>1. UNCHANGED <<wire, wc>> /\ cmdq' = [cmdq EXCEPT ![r] = Append(cmdq[r], Exit)]
    BY <1>5 DEF RecvExit
  <2>2. Exit # w /\ Exit \in Words \cup {Exit}
    BY DataAssumption DEF Exit
  <2>3. Cardinality(At(Append(cmdq[h], Exit), w)) = Cardinality(At(cmdq[h], w))
    BY <1>3, <2>2, AtAppend
  <2>4. cmdq'[h] = IF h = r THEN Append(cmdq[h], Exit) ELSE cmdq[h]
    BY <1>1, <2>1
  <2> QED BY <1>2, <2>1, <2>3, <2>4
<1>6. ASSUME NEW v \in Words, Read(r, v) PROVE Received(w)' = Received(w)
  <2>1. /\ wc' = wc /\ wire[r][v] > 0 /\ cmdq' = [cmdq EXCEPT ![r] = Append(cmdq[r], v)]
        /\ wire' = [wire EXCEPT ![r][v] = wire[r][v] - 1]
    BY <1>6 DEF Read
  <2>2. CASE h = r
    <3>1. cmdq'[h] = Append(cmdq[h], v)
      BY <1>1, <2>1, <2>2
    <3>2. Cardinality(At(Append(cmdq[h], v), w)) =
            Cardinality(At(cmdq[h], w)) + (IF v = w THEN 1 ELSE 0)
      BY <1>3, AtAppend
    <3>3. wire'[h][w] = IF v = w THEN wire[h][w] - 1 ELSE wire[h][w]
      <4>1. wire' = [s \in Reducers |-> [u \in Words |->
                       IF s = r /\ u = v THEN wire[s][u] - 1 ELSE wire[s][u]]]
        BY <1>1, <2>1
      <4>2. wire'[h][w] = IF h = r /\ w = v THEN wire[h][w] - 1 ELSE wire[h][w]
        BY <1>1, <4>1
      <4> QED BY <2>2, <4>2
    <3> QED BY <1>2, <1>3, <2>1, <2>2, <3>1, <3>2, <3>3
  <2>3. CASE h # r
    <3>1. cmdq'[h] = cmdq[h] /\ wire'[h] = wire[h]
      BY <1>1, <2>1, <2>3
    <3> QED BY <1>2, <2>1, <3>1
  <2> QED BY <2>2, <2>3
<1> QED BY <1>4, <1>5, <1>6

\* A reducer exits: the words it has not counted are gone, and it counts no more.
LEMMA ExitCount ==
  ASSUME TypeOK, EndInv, CountInv, NEW r \in Reducers, ReducerExit(r)
  PROVE  CountInv'
<1>1. /\ UNCHANGED <<file, word, wc, failed, inbox, isDone>>
      /\ wire' = [wire EXCEPT ![r] = NoWords] /\ cmdq' = [cmdq EXCEPT ![r] = <<>>]
      /\ life' = [life EXCEPT ![r] = "exited"]
  BY DEF ReducerExit, coordVars, bounds
<1>2. AllDone /\ AllDone'
  <2>1. cmdq[r] # <<>> /\ Head(cmdq[r]) = Exit /\ cmdq[r] \in Seq(Words \cup {Exit})
    BY DEF ReducerExit, TypeOK
  <2>2. cmdq[r][1] = Exit /\ 1 \in 1 .. Len(cmdq[r])
    BY <2>1, TailElements
  <2> QED BY <1>1, <2>2 DEF EndInv, QueueSign, AllDone
<1>3. \A m \in Mappers : Announced(m)' = Announced(m)
  BY <1>1 DEF Announced
<1>4. \A w \in Words : SentPlaces(w)' = SentPlaces(w) /\ Seen(w)' = Seen(w)
  BY <1>1, <1>3, SamePlaces, SameSeen
<1>5. ASSUME NEW w \in Words, Home[w] # r
      PROVE  Received(w)' = Received(w) /\ Serves(w)' = Serves(w)
  <2>1. /\ wire'[Home[w]] = wire[Home[w]] /\ cmdq'[Home[w]] = cmdq[Home[w]]
        /\ life'[Home[w]] = life[Home[w]]
    BY <1>1, <1>5, DataAssumption, WorkersOf DEF TypeOK
  <2> QED BY <1>1, <2>1 DEF Received, Serves
<1>6. ASSUME NEW w \in Words, Home[w] = r
      PROVE  Received(w)' <= Received(w) /\ Received(w)' \in Nat /\ ~Serves(w)'
  <2>1. wire'[r][w] = 0 /\ cmdq'[r] = <<>> /\ life'[r] = "exited"
    BY <1>1, WorkersOf DEF TypeOK, NoWords
  <2>2. At(cmdq'[r], w) = {}
    BY <2>1 DEF At
  <2>3. Received(w)' = wc[r][w] + 0 + 0
    BY <1>1, <1>6, <2>1, <2>2, FS_EmptySet DEF Received, At
  <2>4. /\ Received(w) = wc[r][w] + wire[r][w] + Cardinality(At(cmdq[r], w))
        /\ wc[r][w] \in Nat /\ wire[r][w] \in Nat /\ Cardinality(At(cmdq[r], w)) \in Nat
    <3>1. cmdq[r] \in Seq(Words \cup {Exit}) /\ wc[r][w] \in Nat /\ wire[r][w] \in Nat
      BY DEF TypeOK
    <3> QED BY <1>6, <3>1, ReceivedIs, AtFinite DEF Counted
  <2>5. ~Serves(w)'
    BY <1>6, <2>1 DEF Serves
  <2> QED BY <2>3, <2>4, <2>5
<1>7. ASSUME NEW w \in Words, failed' = {}
      PROVE  /\ Received(w)' <= Cardinality(SentPlaces(w)')
             /\ Serves(w)' => Received(w)' = Cardinality(SentPlaces(w)')
  <2>1. /\ Received(w) <= Cardinality(SentPlaces(w))
        /\ Serves(w) => Received(w) = Cardinality(SentPlaces(w))
    BY <1>1, <1>7 DEF CountInv
  <2>2. CASE Home[w] = r
    BY <1>4, <1>6, <2>1, <2>2, ReceivedIs, SentFinite
  <2>3. CASE Home[w] # r
    BY <1>4, <1>5, <2>1, <2>3
  <2> QED BY <2>2, <2>3
<1>8. ASSUME NEW w \in Words, failed' \subseteq Mappers, Serves(w)'
      PROVE  Received(w)' >= Cardinality(Seen(w)')
  BY <1>1, <1>4, <1>5, <1>6, <1>8 DEF CountInv
<1> QED BY <1>2, <1>7, <1>8 DEF CountInv

LEMMA ReducerCount ==
  ASSUME TypeOK, EndInv, CountInv, NEW r \in Reducers, ReducerStep(r)
  PROVE  CountInv'
<1>1. ASSUME HandleWC(r) \/ RecvExit(r) \/ \E v \in Words : Read(r, v)
      PROVE  CountInv'
  <2>1. UNCHANGED <<file, word, failed, inbox, isDone, conn, life>>
    BY <1>1 DEF HandleWC, RecvExit, Read, coordVars, mapperVars, bounds
  <2>2. \A w \in Words : Received(w)' = Received(w) /\ Serves(w)' = Serves(w)
    BY <1>1, <2>1, ReducerReceived DEF Serves
  <2>3. /\ AllDone' = AllDone /\ Broke' = Broke
        /\ \A m \in Mappers : Announced(m)' = Announced(m)
    BY <2>1 DEF AllDone, Broke, Announced
  <2>4. \A w \in Words : SentPlaces(w)' = SentPlaces(w) /\ Seen(w)' = Seen(w)
    BY <2>1, <2>3, SamePlaces, SameSeen
  <2> QED BY <2>1, <2>2, <2>3, <2>4 DEF CountInv
<1>2. ASSUME ReducerUp(r) PROVE CountInv'
  <2>1. UNCHANGED <<file, word, wire, cmdq, wc, failed, inbox, isDone, conn>>
    BY <1>2 DEF ReducerUp, coordVars, mapperVars, reducerVars, bounds
  <2>2. /\ AllDone' = AllDone /\ Broke' = Broke
        /\ \A m \in Mappers : Announced(m)' = Announced(m)
    BY <2>1 DEF AllDone, Broke, Announced
  <2>3. \A q \in Reducers : life[q] = "exited" => life'[q] = "exited"
    BY <1>2 DEF ReducerUp, TypeOK
  <2> QED BY <2>1, <2>2, <2>3, UnconcernedCount
<1>3. CASE ReducerExit(r)
  BY <1>3, ExitCount
<1> QED BY <1>1, <1>2, <1>3 DEF ReducerStep

LEMMA InitCount == Init => CountInv
<1> SUFFICES ASSUME Init PROVE CountInv
  OBVIOUS
<1>1. ASSUME NEW w \in Words PROVE Seen(w) = {} /\ SentPlaces(w) = {}
  <2>1. \A p \in Places(w) : p \notin SentPlaces(w) /\ ~Announced(p[1])
    <3> TAKE p \in Places(w)
    <3>1. /\ p[1] \in Mappers /\ p[2] \in 1 .. Len(Stream[p[1]])
          /\ p[3] \in 1 .. Len(Stream[p[1]][p[2]])
      BY PlacesOf
    <3>2. Len(Stream[p[1]]) \in Nat /\ Len(Stream[p[1]][p[2]]) \in Nat
      BY <3>1, DataAssumption
    <3>3. file[p[1]] = 0 /\ word[p[1]] = 0 /\ ~Announced(p[1])
      BY <3>1 DEF Init, Announced
    <3> QED BY <3>1, <3>2, <3>3 DEF SentPlaces
  <2> QED BY <2>1 DEF Seen, SentPlaces
<1>2. ASSUME NEW w \in Words PROVE Received(w) = 0
  <2>1. Home[w] \in Reducers
    BY DataAssumption
  <2>2. wc[Home[w]][w] = 0 /\ wire[Home[w]][w] = 0 /\ cmdq[Home[w]] = <<>>
    BY <2>1 DEF Init, NoWords
  <2>3. At(cmdq[Home[w]], w) = {}
    BY <2>2 DEF At
  <2> QED BY <2>2, <2>3, FS_EmptySet DEF Received, At
<1>3. ~Broke
  BY DEF Init, Broke
<1> QED BY <1>1, <1>2, <1>3, FS_EmptySet DEF CountInv

LEMMA NextCount == TypeOK /\ EndInv /\ ReadInv /\ CountInv /\ [Next]_vars => CountInv'
<1> SUFFICES ASSUME TypeOK, EndInv, ReadInv, CountInv, [Next]_vars PROVE CountInv'
  OBVIOUS
<1>1. CASE UNCHANGED vars
  <2>1. UNCHANGED <<file, word, wire, cmdq, wc, failed, inbox, isDone, conn, life>>
    BY <1>1 DEF vars, coordVars, mapperVars, reducerVars, bounds
  <2>2. /\ AllDone' = AllDone /\ Broke' = Broke
        /\ \A m \in Mappers : Announced(m)' = Announced(m)
    BY <2>1 DEF AllDone, Broke, Announced
  <2> QED BY <2>1, <2>2, UnconcernedCount
<1> QED
  BY <1>1, CoordinatorCount, FailureCount, MapperCount, ReducerCount DEF Next

LEMMA CountHolds == Spec => []CountInv
<1> QED
  BY InitTypes, NextTypes, InitEnd, NextEnd, InitRead, NextRead, InitCount, NextCount,
     PTL DEF Spec

(***************************************************************************)
(* As long as no worker fails, each word of each file that a mapper has    *)
(* gone past is counted exactly once or on its way, at the reducer of its  *)
(* hash, until that reducer exits, although it passes through a socket,    *)
(* two threads and a queue; and none is counted twice even then            *)
(* (word_count, handle_mappers, WC.handle, ReducerState.exit).             *)
(***************************************************************************)
THEOREM CountedOnce == Spec => []ExactlyOnce
<1>1. CountInv => ExactlyOnce
  BY DEF CountInv, ExactlyOnce, Serves
<1> QED
  BY CountHolds, <1>1, PTL

(***************************************************************************)
(* Whatever mappers are killed or restarted, and whenever, a reducer that  *)
(* runs has every word sent to it, counted or on its way, as long as no    *)
(* reducer is killed: also when a mapper that was restarted after its DONE *)
(* meets other reducers that have exited (word_count, start_worker).       *)
(***************************************************************************)
THEOREM MapperLossless == Spec => []NothingLost
<1>1. TypeOK /\ CountInv => NothingLost
  <2> SUFFICES ASSUME TypeOK, CountInv, failed \subseteq Mappers, NEW w \in Words,
                      life[Home[w]] # "exited"
               PROVE  Received(w) >= Cardinality(SentPlaces(w))
    BY DEF NothingLost
  <2>1. SentPlaces(w) \in SUBSET Seen(w)
    BY DEF Seen, SentPlaces
  <2>2. Cardinality(SentPlaces(w)) <= Cardinality(Seen(w))
    BY <2>1, SentFinite, FS_Subset
  <2>3. Received(w) >= Cardinality(Seen(w))
    BY DEF CountInv, Serves
  <2> QED BY <2>2, <2>3, SentFinite, ReceivedIs
<1> QED
  BY WellTyped, CountHolds, <1>1, PTL
=============================================================================
