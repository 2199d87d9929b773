------------------------------ MODULE WordCount ------------------------------
(***************************************************************************)
(* The streaming word count of lab2: mappers read the files of their       *)
(* stream and send the words to reducers; a coordinator restarts workers   *)
(* that miss heartbeats and ends the job when the mappers are done.        *)
(*                                                                         *)
(* The program has the skeleton of checkpointing and recovery with the     *)
(* handlers left empty (Checkpoint, Recover, CPMarker, cp_phase,           *)
(* recover_phase, last_cp_phase and the three acknowledgements do nothing  *)
(* and nothing sends these messages); it is modelled as it stands.  So all *)
(* recovery ids stay 0 and no word is rejected as an old one.              *)
(*                                                                         *)
(* A file is the sequence of its distinct words in the order in which they *)
(* are sent; its count of each word is taken to be 1, so that wc counts    *)
(* the files in which a word was seen.  Counts add up in any order, so the *)
(* words that travel to a reducer are kept as a bag.  All processes are on *)
(* one host: a datagram is in the receiver's socket as soon as it is sent, *)
(* or lost if that socket is not bound.                                    *)
(***************************************************************************)
EXTENDS Naturals, Sequences, FiniteSets

CONSTANTS
  NumMappers, NumReducers,
  Words,
  Home,         \* Home[w]: the reducer that word_2_socket picks for w
  Stream,       \* Stream[m]: the files of mapper m's Redis stream
  Timeout,      \* HEARTBEAT_TIMEOUT, in whole seconds
  Killable,     \* the workers that the test mode kills
  Suspected,    \* the lives in which a worker's heartbeats may be overdue
  MaxKills,     \* bound on kill_worker
  MaxRestarts   \* bound on the restarts of workers that had not failed

\* Workers are numbered in the order of the dictionary state.workers.
Mappers  == 1 .. NumMappers
Reducers == NumMappers + 1 .. NumMappers + NumReducers
Workers  == Mappers \cup Reducers
Lives    == {"starting", "up", "down", "exited"}

ASSUME NumAssumption == NumMappers \in Nat \ {0} /\ NumReducers \in Nat \ {0}
ASSUME DataAssumption ==
  /\ Home \in [Words -> Reducers] /\ "EXIT" \notin Words
  /\ Stream \in [Mappers -> Seq(Seq(Words))]
ASSUME BoundAssumption ==
  /\ Timeout \in Nat /\ MaxKills \in Nat /\ MaxRestarts \in Nat
  /\ Killable \subseteq Workers /\ Suspected \subseteq Lives

VARIABLES
  \* The coordinator.
  coord,      \* is the process running?
  phase,      \* state.phase
  phaseQueue, \* phase_queue, from the receiving to the sending thread
  exits,      \* exit_phase: how many workers were sent EXIT, or Idle
  isDone,     \* isDone[m]: state.workers[m].is_done
  age,        \* age[w]: whole seconds since last_hb_recvd, up to Timeout + 1
  inbox,      \* mappers whose DONE is in the coordinator's socket
  \* Every worker.
  life,       \* life[w]
  exitMsg,    \* exitMsg[w]: is EXIT in w's socket (or a mapper's queue)?
  \* The mappers.
  conn,       \* conn[m][r]: the connection in reducer_sockets
  file,       \* file[m]: files read so far, last_stream_id
  word,       \* word[m]: words of the current file sent so far
  wcDone,     \* wcDone[m]: is_wc_done
  \* The reducers.
  wire,       \* wire[r][w]: sent to r and not yet read by handle_mappers
  cmdq,       \* cmdq[r]: the command queue
  wc,         \* wc[r][w]: the count of w
  failed,     \* the workers that were killed or restarted so far
  kills, restarts   \* counted for the bounds

coordVars   == <<coord, phase, phaseQueue, exits, isDone, age, inbox>>
mapperVars  == <<conn, file, word, wcDone>>
reducerVars == <<wire, cmdq, wc>>
bounds      == <<failed, kills, restarts>>
vars == <<coordVars, life, exitMsg, mapperVars, reducerVars, bounds>>

Idle    == NumMappers + NumReducers + 1  \* exit_phase has not been entered
NoWords == [w \in Words |-> 0]
Exit    == "EXIT"

Init ==
  /\ coord = TRUE /\ phase = "CP" /\ phaseQueue = <<"CP">> /\ exits = Idle
  /\ isDone = [m \in Mappers |-> FALSE]
  /\ age = [w \in Workers |-> Timeout + 1]  \* last_hb_recvd is 0, the epoch
  /\ inbox = {}
  /\ life = [w \in Workers |-> "starting"]
  /\ exitMsg = [w \in Workers |-> FALSE]
  /\ conn = [m \in Mappers |-> [r \in Reducers |-> "none"]]
  /\ file = [m \in Mappers |-> 0] /\ word = [m \in Mappers |-> 0]
  /\ wcDone = [m \in Mappers |-> FALSE]
  /\ wire = [r \in Reducers |-> NoWords]
  /\ cmdq = [r \in Reducers |-> <<>>]
  /\ wc = [r \in Reducers |-> NoWords]
  /\ failed = {} /\ kills = 0 /\ restarts = 0

-----------------------------------------------------------------------------
(***************************************************************************)
(* The life of a worker.                                                   *)
(***************************************************************************)

\* The reducer's sockets are bound and it listens.
ReducerUp(r) ==
  /\ life[r] = "starting"
  /\ life' = [life EXCEPT ![r] = "up"]
  /\ UNCHANGED <<coordVars, exitMsg, mapperVars, reducerVars, bounds>>

\* MapperState.__post_init__: connect to the reducers in turn, waiting for each.
MapperConnect(m, r) ==
  /\ life[m] = "starting" /\ conn[m][r] = "none" /\ life[r] = "up"
  /\ \A q \in Reducers : q < r => conn[m][q] # "none"
  /\ conn' = [conn EXCEPT ![m][r] = "up"]
  /\ UNCHANGED <<coordVars, life, exitMsg, file, word, wcDone, reducerVars, bounds>>

\* Mapper.run: the socket for the coordinator is bound, the threads start.
MapperUp(m) ==
  /\ life[m] = "starting"
  /\ \A r \in Reducers : conn[m][r] # "none"
  /\ life' = [life EXCEPT ![m] = "up"]
  /\ UNCHANGED <<coordVars, exitMsg, mapperVars, reducerVars, bounds>>

(***************************************************************************)
(* What the end of process w leaves: the datagrams in its socket are gone, *)
(* so is all that a reducer had not processed.  A mapper's words already   *)
(* sent still arrive.  The mappers find their connections to a reducer at  *)
(* their end (one more sendall is accepted and lost) or reset.             *)
(***************************************************************************)
Broken(r, how) ==
  [m \in Mappers |-> [conn[m] EXCEPT ![r] = IF @ = "up" THEN how ELSE @]]

\* Mutant of MapperGone: a restarted mapper resumes after the file it was in.
BugMapperGone(m) ==
  /\ conn' = [conn EXCEPT ![m] = [r \in Reducers |-> "none"]]
  /\ file' = [file EXCEPT ![m] = IF @ < Len(Stream[m]) THEN @ + 1 ELSE @]
  /\ word' = [word EXCEPT ![m] = 0]
  /\ wcDone' = [wcDone EXCEPT ![m] = FALSE]
  /\ UNCHANGED reducerVars

MapperGone(m) ==
  /\ conn' = [conn EXCEPT ![m] = [r \in Reducers |-> "none"]]
  /\ file' = [file EXCEPT ![m] = 0]
  /\ word' = [word EXCEPT ![m] = 0]
  /\ wcDone' = [wcDone EXCEPT ![m] = FALSE]
  /\ UNCHANGED reducerVars

ReducerGone(r) ==
  /\ \E how \in {"eof", "reset"} : conn' = Broken(r, how)
  /\ wire' = [wire EXCEPT ![r] = NoWords]
  /\ cmdq' = [cmdq EXCEPT ![r] = <<>>]
  /\ wc' = [wc EXCEPT ![r] = NoWords]
  /\ UNCHANGED <<file, word, wcDone>>

Gone(w) ==
  /\ exitMsg' = [exitMsg EXCEPT ![w] = FALSE]
  /\ IF w \in Mappers THEN MapperGone(w) ELSE ReducerGone(w)

\* kill_worker
Kill(w) ==
  /\ coord /\ w \in Killable /\ kills < MaxKills
  /\ life[w] \in {"starting", "up"}
  /\ life' = [life EXCEPT ![w] = "down"]
  /\ Gone(w)
  /\ failed' = failed \cup {w}
  /\ kills' = kills + 1
  /\ UNCHANGED <<coordVars, restarts>>

-----------------------------------------------------------------------------
(***************************************************************************)
(* The coordinator: heartbeats and restarts.                               *)
(***************************************************************************)

\* send_heartbeat of worker w, and HBRecvMsg.update.
Heartbeat(w) ==
  /\ coord /\ life[w] = "up"
  /\ age' = [age EXCEPT ![w] = 0]
  /\ UNCHANGED <<coord, phase, phaseQueue, exits, isDone, inbox>>
  /\ UNCHANGED <<life, exitMsg, mapperVars, reducerVars, bounds>>

\* A second passes.
Tick ==
  /\ coord
  /\ age' = [w \in Workers |-> IF age[w] > Timeout THEN age[w] ELSE age[w] + 1]
  /\ UNCHANGED <<coord, phase, phaseQueue, exits, isDone, inbox>>
  /\ UNCHANGED <<life, exitMsg, mapperVars, reducerVars, bounds>>

Late(w) == age[w] > Timeout /\ life[w] \in Suspected

\* Mutant of Restart: the late process is killed, and no other one started.
BugRestart(w) ==
  /\ coord /\ Late(w) /\ (life[w] = "down" \/ restarts < MaxRestarts)
  /\ life' = [life EXCEPT ![w] = "down"]
  /\ Gone(w)
  /\ failed' = failed \cup {w}
  /\ restarts' = IF life[w] = "down" THEN restarts ELSE restarts + 1
  /\ UNCHANGED <<coordVars, kills>>

(***************************************************************************)
(* One turn of the loop of monitor_health, start_worker(restart=True): the *)
(* process is killed and a new one started.  last_hb_recvd and is_done     *)
(* keep their values.                                                      *)
(***************************************************************************)
Restart(w) ==
  /\ coord /\ Late(w) /\ (life[w] = "down" \/ restarts < MaxRestarts)
  /\ life' = [life EXCEPT ![w] = "starting"]
  /\ Gone(w)
  /\ failed' = failed \cup {w}
  /\ restarts' = IF life[w] = "down" THEN restarts ELSE restarts + 1
  /\ UNCHANGED <<coordVars, kills>>

-----------------------------------------------------------------------------
(***************************************************************************)
(* The coordinator: the end of the job.                                    *)
(***************************************************************************)

\* Mutant of RecvDone: one mapper that is done ends the job.
BugRecvDone(m) ==
  /\ coord /\ m \in inbox
  /\ inbox' = inbox \ {m}
  /\ isDone' = [isDone EXCEPT ![m] = TRUE]
  /\ phase' = "EXITING" /\ phaseQueue' = Append(phaseQueue, "EXITING")
  /\ UNCHANGED <<coord, exits, age, life, exitMsg, mapperVars, reducerVars, bounds>>

\* DoneRecvMsg.update, and the phase change in RecvThread.run.
RecvDone(m) ==
  /\ coord /\ m \in inbox
  /\ inbox' = inbox \ {m}
  /\ isDone' = [isDone EXCEPT ![m] = TRUE]
  /\ IF \A n \in Mappers : isDone'[n]
     THEN phase' = "EXITING" /\ phaseQueue' = Append(phaseQueue, "EXITING")
     ELSE UNCHANGED <<phase, phaseQueue>>
  /\ UNCHANGED <<coord, exits, age, life, exitMsg, mapperVars, reducerVars, bounds>>

\* Mutant of TakePhase: the first phase, CP, is taken for EXITING.
BugTakePhase ==
  /\ coord /\ exits = Idle /\ phaseQueue # <<>>
  /\ phaseQueue' = Tail(phaseQueue)
  /\ exits' = 0
  /\ UNCHANGED <<coord, phase, isDone, age, inbox>>
  /\ UNCHANGED <<life, exitMsg, mapperVars, reducerVars, bounds>>

\* SendThread.run takes the next phase; the CP phase does nothing.
TakePhase ==
  /\ coord /\ exits = Idle /\ phaseQueue # <<>>
  /\ phaseQueue' = Tail(phaseQueue)
  /\ exits' = IF Head(phaseQueue) = "EXITING" THEN 0 ELSE Idle
  /\ UNCHANGED <<coord, phase, isDone, age, inbox>>
  /\ UNCHANGED <<life, exitMsg, mapperVars, reducerVars, bounds>>

\* Mutant of SendExit: only mappers are told to exit.
BugSendExit ==
  LET w == exits + 1 IN
  /\ coord /\ w \in Workers
  /\ exitMsg' = [exitMsg EXCEPT ![w] = life[w] = "up" /\ w \in Mappers]
  /\ exits' = w
  /\ UNCHANGED <<coord, phase, phaseQueue, isDone, age, inbox>>
  /\ UNCHANGED <<life, mapperVars, reducerVars, bounds>>

\* One turn of the loop of exit_phase: EXIT to the next worker.
SendExit ==
  LET w == exits + 1 IN
  /\ coord /\ w \in Workers
  /\ exitMsg' = [exitMsg EXCEPT ![w] = life[w] = "up"]
  /\ exits' = w
  /\ UNCHANGED <<coord, phase, phaseQueue, isDone, age, inbox>>
  /\ UNCHANGED <<life, mapperVars, reducerVars, bounds>>

\* The coordinator kills itself.
CoordExit ==
  /\ coord /\ exits = NumMappers + NumReducers
  /\ coord' = FALSE
  /\ UNCHANGED <<phase, phaseQueue, exits, isDone, age, inbox>>
  /\ UNCHANGED <<life, exitMsg, mapperVars, reducerVars, bounds>>

-----------------------------------------------------------------------------
(***************************************************************************)
(* A mapper: CmdHandler.word_count, one word at a time.                    *)
(***************************************************************************)
Reading(m)  == life[m] = "up" /\ ~wcDone[m] /\ file[m] < Len(Stream[m])
Current(m)  == Stream[m][file[m] + 1]
HasWord(m)  == Reading(m) /\ word[m] < Len(Current(m))
NextWord(m) == Current(m)[word[m] + 1]
Target(m)   == Home[NextWord(m)]

\* sendall on a live connection.
SendWord(m) ==
  /\ HasWord(m) /\ conn[m][Target(m)] = "up"
  /\ wire' = [wire EXCEPT ![Target(m)][NextWord(m)] = @ + 1]
  /\ word' = [word EXCEPT ![m] = @ + 1]
  /\ UNCHANGED <<coordVars, life, exitMsg, conn, file, wcDone, cmdq, wc, bounds>>

\* The first sendall after the reducer's end is accepted, and lost.
SendLost(m) ==
  /\ HasWord(m) /\ conn[m][Target(m)] = "eof"
  /\ conn' = [conn EXCEPT ![m][Target(m)] = "reset"]
  /\ word' = [word EXCEPT ![m] = @ + 1]
  /\ UNCHANGED <<coordVars, life, exitMsg, file, wcDone, reducerVars, bounds>>

\* sendall raises: the file is read again from its beginning.
SendRaises(m) ==
  /\ HasWord(m) /\ conn[m][Target(m)] = "reset"
  /\ word' = [word EXCEPT ![m] = 0]
  /\ UNCHANGED <<coordVars, life, exitMsg, conn, file, wcDone, reducerVars, bounds>>

\* Mutant of FileDone: last_stream_id is not moved on, the file is read again.
BugFileDone(m) ==
  /\ Reading(m) /\ word[m] = Len(Current(m))
  /\ word' = [word EXCEPT ![m] = 0]
  /\ UNCHANGED <<coordVars, life, exitMsg, conn, file, wcDone, reducerVars, bounds>>

\* The file is finished: last_stream_id = message_id.
FileDone(m) ==
  /\ Reading(m) /\ word[m] = Len(Current(m))
  /\ file' = [file EXCEPT ![m] = @ + 1]
  /\ word' = [word EXCEPT ![m] = 0]
  /\ UNCHANGED <<coordVars, life, exitMsg, conn, wcDone, reducerVars, bounds>>

\* Mutant of StreamDone: the end of the stream is announced one file early.
BugStreamDone(m) ==
  /\ life[m] = "up" /\ ~wcDone[m] /\ file[m] + 1 >= Len(Stream[m])
  /\ file' = [file EXCEPT ![m] = @ + 1]
  /\ wcDone' = [wcDone EXCEPT ![m] = TRUE]
  /\ inbox' = IF coord THEN inbox \cup {m} ELSE inbox
  /\ UNCHANGED <<coord, phase, phaseQueue, exits, isDone, age>>
  /\ UNCHANGED <<life, exitMsg, conn, word, reducerVars, bounds>>

\* xread returns nothing: the mapper is done and says so.
StreamDone(m) ==
  /\ life[m] = "up" /\ ~wcDone[m] /\ file[m] = Len(Stream[m])
  /\ wcDone' = [wcDone EXCEPT ![m] = TRUE]
  /\ inbox' = IF coord THEN inbox \cup {m} ELSE inbox
  /\ UNCHANGED <<coord, phase, phaseQueue, exits, isDone, age>>
  /\ UNCHANGED <<life, exitMsg, conn, file, word, reducerVars, bounds>>

\* Exit.handle of a mapper: the queue is looked at between two files.
MapperExit(m) ==
  /\ life[m] = "up" /\ exitMsg[m] /\ word[m] = 0
  /\ life' = [life EXCEPT ![m] = "exited"]
  /\ exitMsg' = [exitMsg EXCEPT ![m] = FALSE]
  /\ UNCHANGED <<coordVars, mapperVars, reducerVars, bounds>>

-----------------------------------------------------------------------------
(***************************************************************************)
(* A reducer.                                                              *)
(***************************************************************************)

\* handle_mappers puts a word that has arrived into the command queue.
Read(r, w) ==
  /\ life[r] = "up" /\ wire[r][w] > 0
  /\ wire' = [wire EXCEPT ![r][w] = @ - 1]
  /\ cmdq' = [cmdq EXCEPT ![r] = Append(@, w)]
  /\ UNCHANGED <<coordVars, life, exitMsg, mapperVars, wc, bounds>>

\* handle_coordinator puts the Exit command into the command queue.
RecvExit(r) ==
  /\ life[r] = "up" /\ exitMsg[r]
  /\ exitMsg' = [exitMsg EXCEPT ![r] = FALSE]
  /\ cmdq' = [cmdq EXCEPT ![r] = Append(@, Exit)]
  /\ UNCHANGED <<coordVars, life, mapperVars, wire, wc, bounds>>

\* WC.handle
HandleWC(r) ==
  /\ life[r] = "up" /\ cmdq[r] # <<>> /\ Head(cmdq[r]) # Exit
  /\ cmdq' = [cmdq EXCEPT ![r] = Tail(@)]
  /\ wc' = [wc EXCEPT ![r][Head(cmdq[r])] = @ + 1]
  /\ UNCHANGED <<coordVars, life, exitMsg, mapperVars, wire, bounds>>

\* Exit.handle of a reducer: it logs its counts, which wc keeps, and kills
\* itself.  What is left in its sockets and in its queue is lost.
ReducerExit(r) ==
  /\ life[r] = "up" /\ cmdq[r] # <<>> /\ Head(cmdq[r]) = Exit
  /\ life' = [life EXCEPT ![r] = "exited"]
  /\ exitMsg' = [exitMsg EXCEPT ![r] = FALSE]
  /\ \E how \in {"eof", "reset"} : conn' = Broken(r, how)
  /\ wire' = [wire EXCEPT ![r] = NoWords]
  /\ cmdq' = [cmdq EXCEPT ![r] = <<>>]
  /\ UNCHANGED <<coordVars, file, word, wcDone, wc, bounds>>

-----------------------------------------------------------------------------

MapperStep(m) ==
  \/ \E r \in Reducers : MapperConnect(m, r)
  \/ MapperUp(m) \/ SendWord(m) \/ SendLost(m) \/ SendRaises(m)
  \/ FileDone(m) \/ StreamDone(m) \/ MapperExit(m)

ReducerStep(r) ==
  \/ ReducerUp(r) \/ RecvExit(r) \/ HandleWC(r) \/ ReducerExit(r)
  \/ \E w \in Words : Read(r, w)

CoordStep ==
  TakePhase \/ SendExit \/ CoordExit \/ \E m \in Mappers : RecvDone(m)

Next ==
  \/ CoordStep \/ Tick
  \/ \E w \in Workers : Heartbeat(w) \/ Restart(w) \/ Kill(w)
  \/ \E m \in Mappers : MapperStep(m)
  \/ \E r \in Reducers : ReducerStep(r)

Spec == Init /\ [][Next]_vars

(***************************************************************************)
(* Every thread that can run does, time passes, and the alarm goes off.    *)
(***************************************************************************)
FairSpec ==
  /\ Spec /\ WF_vars(Tick)
  /\ WF_vars(TakePhase) /\ WF_vars(SendExit) /\ WF_vars(CoordExit)
  /\ \A m \in Mappers : WF_vars(RecvDone(m)) /\ WF_vars(MapperStep(m))
  /\ \A r \in Reducers :
       /\ WF_vars(ReducerUp(r)) /\ WF_vars(RecvExit(r))
       /\ WF_vars(HandleWC(r) \/ ReducerExit(r))
       /\ \A w \in Words : WF_vars(Read(r, w))
  /\ \A w \in Workers : WF_vars(Restart(w))

-----------------------------------------------------------------------------

TypeOK ==
  /\ coord \in BOOLEAN /\ phase \in {"CP", "EXITING"}
  /\ phaseQueue \in Seq({"CP", "EXITING"})
  /\ exits \in 0 .. Idle
  /\ isDone \in [Mappers -> BOOLEAN]
  /\ age \in [Workers -> 0 .. Timeout + 1]
  /\ inbox \subseteq Mappers
  /\ life \in [Workers -> Lives]
  /\ exitMsg \in [Workers -> BOOLEAN]
  /\ conn \in [Mappers -> [Reducers -> {"none", "up", "eof", "reset"}]]
  /\ file \in [Mappers -> Nat] /\ \A m \in Mappers : file[m] <= Len(Stream[m])
  /\ word \in [Mappers -> Nat]
  /\ wcDone \in [Mappers -> BOOLEAN]
  /\ wire \in [Reducers -> [Words -> Nat]]
  /\ cmdq \in [Reducers -> Seq(Words \cup {Exit})]
  /\ wc \in [Reducers -> [Words -> Nat]]
  /\ failed \subseteq Workers
  /\ kills \in 0 .. MaxKills /\ restarts \in 0 .. MaxRestarts

\* The places of word w in the streams, and those already sent by the mappers.
Places(w) ==
  {p \in UNION {UNION {{<<m, f, n>> : n \in 1 .. Len(Stream[m][f])}
                       : f \in 1 .. Len(Stream[m])} : m \in Mappers} :
     Stream[p[1]][p[2]][p[3]] = w}
SentPlaces(w) ==
  {p \in Places(w) : \/ p[2] <= file[p[1]]
                     \/ p[2] = file[p[1]] + 1 /\ p[3] <= word[p[1]]}

\* How often w has been counted or is on its way to being counted.
Received(w) ==
  LET r == Home[w] IN
  wc[r][w] + wire[r][w] + Cardinality({n \in 1 .. Len(cmdq[r]) : cmdq[r][n] = w})

(***************************************************************************)
(* As long as no worker fails, every word that a mapper has gone past is   *)
(* counted exactly once or on its way, at the one reducer that Home picks, *)
(* until that reducer exits.  EXIT comes on a socket of its own and may    *)
(* overtake words: these are not in the counts that the reducer logs, but  *)
(* no word is ever in them twice.                                          *)
(***************************************************************************)
ExactlyOnce ==
  failed = {} =>
    \A w \in Words :
      IF life[Home[w]] = "exited"
      THEN Received(w) <= Cardinality(SentPlaces(w))
      ELSE Received(w) = Cardinality(SentPlaces(w))

(***************************************************************************)
(* If only mappers fail nothing is lost until a reducer is told to exit    *)
(* and does: a restarted mapper reads its stream from the beginning, so    *)
(* its words are counted at least once (and again for every restart: the   *)
(* recovery that would undo this is a TODO).                               *)
(***************************************************************************)
NothingLost ==
  failed \subseteq Mappers =>
    \A w \in Words :
      life[Home[w]] # "exited" => Received(w) >= Cardinality(SentPlaces(w))

(***************************************************************************)
(* As long as no worker fails, the job is ended only when every mapper has *)
(* read its whole stream.                                                  *)
(***************************************************************************)
ExitAfterReading ==
  failed = {} /\ phase = "EXITING" =>
    \A m \in Mappers : file[m] = Len(Stream[m])

(***************************************************************************)
(* Whatever fails, no worker leaves the job before every mapper has        *)
(* announced the end of its stream at least once.                          *)
(***************************************************************************)
ExitOnlyAfterAllDone ==
  (\E w \in Workers : exitMsg[w] \/ life[w] = "exited") =>
    \A m \in Mappers : isDone[m]

(***************************************************************************)
(* Unless a worker fails the job ends: every process exits.                *)
(***************************************************************************)
JobEnds ==
  <>(\/ failed # {}
     \/ ~coord /\ \A w \in Workers : life[w] = "exited")

(***************************************************************************)
(* A killed worker is noticed and started again, unless the job ends       *)
(* first.                                                                  *)
(***************************************************************************)
FailureRepaired ==
  \A w \in Workers : life[w] = "down" ~> (life[w] # "down" \/ ~coord)
=============================================================================
