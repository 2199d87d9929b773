-------------------------------- MODULE Grading --------------------------------
(***************************************************************************)
(* The grading of lab2 (evaluation/lab2_eval.py).  Each submission is run  *)
(* once per test, in the order of a DAG of tests whose modes say which     *)
(* workers the injected coordinator kills (assets/_coordinator.py); after  *)
(* each run a checker compares what the two reducers left in the           *)
(* checkpoint directory with the sequential count (assets/checker.py).     *)
(*                                                                         *)
(* A process is known by the age of its run: 0 for the present one, 1 for  *)
(* the one before, 2 for any earlier.  A timeout ends only main.py: the    *)
(* coordinator and the workers live on, and may write, until kill_all      *)
(* finds them.  kill_all first lists the processes and then kills those    *)
(* listed; a worker that a coordinator starts in between (it restarts      *)
(* workers that it or a test has killed) is not listed and escapes.        *)
(*                                                                         *)
(* What a submission can do is abstracted to the time it needs in each     *)
(* test: Quick (less than 50 s), Slow (less than 200 s) or Never.          *)
(***************************************************************************)
EXTENDS Naturals, Sequences, FiniteSets

CONSTANTS None, MaxSubmissions   \* bound on the submissions

\* A reducer's final file: the age of its run, and whether the words are right.
FinalFiles == [age : 0 .. 2, right : BOOLEAN]

ASSUME GradingAssumption == MaxSubmissions \in Nat /\ None \notin FinalFiles

Workers == {"Mapper_0", "Mapper_1", "Reducer_0", "Reducer_1"}
Finals  == {"Reducer_0", "Reducer_1"}     \* who writes the files of checkpoint 0
Tests   == {"none", "mapper_once", "reducer_once",
            "test_mapper", "test_reducer", "test_both", "test_all"}

\* The sets of workers that the coordinator may kill at a time, and whether
\* it does so again and again.
Rounds(t) ==
  CASE t = "none"         -> {}
    [] t = "mapper_once"  -> {{"Mapper_0"}}
    [] t = "reducer_once" -> {{"Reducer_0"}}
    [] t = "test_mapper"  -> {{w} : w \in Workers \ Finals}
    [] t = "test_reducer" -> {{w} : w \in Finals}
    [] t = "test_both"    -> {{m, r} : m \in Workers \ Finals, r \in Finals}
    [] t = "test_all"     -> {Workers}
Repeated(t) == t \in {"test_mapper", "test_reducer", "test_both", "test_all"}

\* Everything that test t kills is also killed, as often, by test u.
NoHarder(t, u) ==
  /\ \A V \in Rounds(t) : \E W \in Rounds(u) : V \subseteq W
  /\ Repeated(t) => Repeated(u)

test_case_dag ==
  [t \in Tests |-> CASE t = "none"         -> <<"reducer_once", "mapper_once">>
                     [] t = "reducer_once" -> <<"test_reducer">>
                     [] t = "mapper_once"  -> <<"test_mapper">>
                     [] t = "test_reducer" -> <<"test_both">>
                     [] t = "test_mapper"  -> <<"test_both">>
                     [] t = "test_both"    -> <<"test_all">>
                     [] t = "test_all"     -> <<>>]

\* In halves of a mark.
marks == [t \in Tests |-> IF t \in {"none", "test_all"} THEN 20
                          ELSE IF t \in {"mapper_once", "reducer_once"} THEN 5 ELSE 10]

\* Time in steps of 50 s and of 200 s.
Quick == 0
Slow  == 1
Never == 3
timeouts == [t \in Tests |-> IF Repeated(t) THEN 2 ELSE 1]

\* Who masters the harder test needs no more time for the easier one.
Submissions ==
  {f \in [Tests -> {Quick, Slow, Never}] :
     \A t, u \in Tests : NoHarder(t, u) => f[t] <= f[u]}

Nobody  == [t \in Tests |-> Never]
NoFiles == [r \in Finals |-> None]

VARIABLES
  pc,       \* where the script is
  taken,    \* files of the submissions folder looked at so far
  need,     \* need[t]: the time that the present submission needs in test t
  queue, node, test_results,
  procs,    \* live processes: <<age, "coordinator" | "worker" | "new worker">>
  listed,   \* what kill_all has listed and not killed yet
  elapsed,  \* time since the run began
  files,    \* files[r]: the final file of reducer r, with the age of its writer
  escaped   \* has a worker escaped kill_all since the submission was unpacked?

vars == <<pc, taken, need, queue, node, test_results, procs, listed,
          elapsed, files, escaped>>

Init ==
  /\ pc = "next" /\ taken = 0 /\ escaped = FALSE
  /\ need = Nobody
  /\ queue = <<>> /\ node = "none" /\ test_results = <<>>
  /\ procs = {} /\ listed = {} /\ elapsed = 0 /\ files = NoFiles

-----------------------------------------------------------------------------
\* The next file of the folder: kill_all begins.
NextFile ==
  /\ pc = "next" /\ taken < MaxSubmissions
  /\ pc' = "kill" /\ taken' = taken + 1 /\ listed' = procs
  /\ UNCHANGED <<need, queue, node, test_results, procs, elapsed, files, escaped>>

\* No zip file, or a bad one.
Skip ==
  /\ pc = "unpack" /\ pc' = "next"
  /\ UNCHANGED <<taken, need, queue, node, test_results, procs, listed,
                 elapsed, files, escaped>>

Unpack ==
  /\ pc = "unpack" /\ pc' = "tests"
  /\ need' \in Submissions
  /\ queue' = <<"none">> /\ escaped' = FALSE
  /\ UNCHANGED <<taken, node, test_results, procs, listed, elapsed, files>>

\* Mutant of PopTest: the loop does not call kill_all.
BugPopTest ==
  /\ pc = "tests" /\ queue # <<>>
  /\ node' = Head(queue) /\ queue' = Tail(queue)
  /\ pc' = IF Head(queue) \in DOMAIN test_results THEN "tests" ELSE "clear"
  /\ UNCHANGED <<taken, need, test_results, procs, listed, elapsed, files, escaped>>

\* A test that is reached along two paths is run once.  kill_all begins.
PopTest ==
  /\ pc = "tests" /\ queue # <<>>
  /\ node' = Head(queue) /\ queue' = Tail(queue)
  /\ IF Head(queue) \in DOMAIN test_results
       THEN UNCHANGED <<pc, listed>>
       ELSE pc' = "kill test" /\ listed' = procs
  /\ UNCHANGED <<taken, need, test_results, procs, elapsed, files, escaped>>

\* A coordinator that is still alive starts a worker.
Respawn ==
  /\ pc \in {"kill", "kill test"}
  /\ \E p \in procs : /\ p[2] = "coordinator"
                      /\ procs' = procs \cup {<<p[1], "new worker">>}
  /\ escaped' = TRUE
  /\ UNCHANGED <<pc, taken, need, queue, node, test_results, listed, elapsed, files>>

\* Mutant of Kill: only what looks like a worker is killed.
BugKill ==
  /\ pc \in {"kill", "kill test"}
  /\ pc' = IF pc = "kill" THEN "unpack" ELSE "clear"
  /\ procs' = {p \in procs : p[2] = "coordinator" \/ p \notin listed} /\ listed' = {}
  /\ UNCHANGED <<taken, need, queue, node, test_results, elapsed, files, escaped>>

Kill ==
  /\ pc \in {"kill", "kill test"}
  /\ pc' = IF pc = "kill" THEN "unpack" ELSE "clear"
  /\ procs' = procs \ listed /\ listed' = {}
  /\ UNCHANGED <<taken, need, queue, node, test_results, elapsed, files, escaped>>

Older(age) == IF age = 0 THEN 1 ELSE 2

\* run_test clears the checkpoint directory and starts main.py.
RunTest ==
  /\ pc = "clear" /\ pc' = "run"
  /\ files' = NoFiles /\ elapsed' = 0
  /\ procs' = {<<Older(p[1]), p[2]>> : p \in procs}
                \cup {<<0, "coordinator">>, <<0, "worker">>}
  /\ UNCHANGED <<taken, need, queue, node, test_results, listed, escaped>>

Complete == \A r \in Finals : files[r] # None

\* Reducer r of some run writes its final file.  One of the present run has it
\* right once the time has come, one that was left over has it as it may be.
\* (What is written at other times is cleared before it is looked at.)
Write(age, r) ==
  /\ pc \in {"run", "check"}
  /\ \E p \in procs : p[1] = age /\ p[2] # "coordinator"
  /\ \E right \in BOOLEAN :
       /\ age = 0 => /\ right = (elapsed >= need[node])
                     /\ right \/ need[node] = Never
       /\ files' = [files EXCEPT ![r] = [age |-> age, right |-> right]]
  /\ UNCHANGED <<pc, taken, need, queue, node, test_results, procs, listed,
                 elapsed, escaped>>

\* The program ends by itself, with its files or (a crash) without.
MainEnds ==
  /\ pc = "run" /\ (Complete \/ need[node] = Never)
  /\ pc' = "check"
  /\ procs' = {p \in procs : p[1] # 0}
  /\ UNCHANGED <<taken, need, queue, node, test_results, listed, elapsed,
                 files, escaped>>

\* Mutant of Tick: the time runs on past the timeout.
BugTick ==
  /\ pc = "run"
  /\ elapsed' = elapsed + 1
  /\ UNCHANGED <<pc, taken, need, queue, node, test_results, procs, listed,
                 files, escaped>>

Tick ==
  /\ pc = "run" /\ elapsed < timeouts[node]
  /\ Complete \/ elapsed < need[node]
  /\ elapsed' = elapsed + 1
  /\ UNCHANGED <<pc, taken, need, queue, node, test_results, procs, listed,
                 files, escaped>>

\* Mutant of Timeout: subprocess.run is given no timeout, so that a run goes on
\* until its files are there.
BugTimeout ==
  /\ pc = "run" /\ elapsed = timeouts[node] /\ Complete
  /\ pc' = "check"
  /\ UNCHANGED <<taken, need, queue, node, test_results, procs, listed,
                 elapsed, files, escaped>>

\* subprocess.run raises TimeoutExpired, having killed main.py alone.
Timeout ==
  /\ pc = "run" /\ elapsed = timeouts[node]
  /\ pc' = "check"
  /\ UNCHANGED <<taken, need, queue, node, test_results, procs, listed,
                 elapsed, files, escaped>>

\* checker.py and the score of its output.
Score == IF Complete /\ \A r \in Finals : files[r].right THEN marks[node] ELSE 0

\* test_results[node] = score
WithResult(score) ==
  [t \in DOMAIN test_results \cup {node} |-> IF t = node THEN score ELSE test_results[t]]

\* Mutant of Verdict: children are queued only if nothing is queued yet.
BugVerdict(score) ==
  /\ test_results' = WithResult(score)
  /\ queue' = IF score = 0 \/ queue # <<>> THEN queue ELSE queue \o test_case_dag[node]

\* What child i of the test adds to the queue: nothing if it was run already.
Child(i) ==
  IF i \in DOMAIN test_case_dag[node] /\ test_case_dag[node][i] \notin DOMAIN test_results'
  THEN <<test_case_dag[node][i]>> ELSE <<>>

\* A test that fails does not queue its children (no test has more than two).
Verdict(score) ==
  /\ test_results' = WithResult(score)
  /\ queue' = IF score = 0 THEN queue ELSE queue \o Child(1) \o Child(2)

\* The checkpoint directory is removed once it was checked.
Check ==
  /\ pc = "check" /\ pc' = "tests"
  /\ Verdict(Score)
  /\ files' = NoFiles
  /\ UNCHANGED <<taken, need, node, procs, listed, elapsed, escaped>>

\* write_score for every test that was run (test_results is then started anew).
WriteScores ==
  /\ pc = "tests" /\ queue = <<>>
  /\ pc' = "next"
  /\ need' = Nobody /\ test_results' = <<>>
  /\ UNCHANGED <<taken, queue, node, procs, listed, elapsed, files, escaped>>

Script == \/ NextFile \/ Skip \/ Unpack \/ PopTest \/ Kill \/ RunTest
          \/ Tick \/ Timeout \/ Check \/ WriteScores

Next == \/ Script \/ MainEnds \/ Respawn
        \/ \E age \in 0 .. 2, r \in Finals : Write(age, r)

Spec == Init /\ [][Next]_vars

\* The script goes on; a program that masters a test writes its files and then
\* ends.  One that does not may crash or hang.
FairSpec ==
  /\ Spec /\ WF_vars(Script \/ (Complete /\ MainEnds))
  /\ \A r \in Finals :
       WF_vars(files[r] = None /\ need[node] # Never /\ Write(0, r))

-----------------------------------------------------------------------------

TypeOK ==
  /\ pc \in {"next", "kill", "unpack", "tests", "kill test", "clear", "run", "check"}
  /\ taken \in 0 .. MaxSubmissions /\ need \in Submissions
  /\ queue \in Seq(Tests) /\ node \in Tests
  /\ DOMAIN test_results \subseteq Tests
  /\ listed \subseteq procs
  /\ procs \subseteq (0 .. 2) \X {"coordinator", "worker", "new worker"}
  /\ elapsed \in 0 .. 2 /\ escaped \in BOOLEAN
  /\ files \in [Finals -> FinalFiles \cup {None}]

(***************************************************************************)
(* What is left of a run disturbs at most the next one: a worker that      *)
(* escaped kill_all has lost its coordinator, and the next kill_all lists  *)
(* it.  Only the present run ever has a coordinator.                       *)
(***************************************************************************)
LeftoversDie ==
  pc \in {"run", "check"} =>
    \A p \in procs : p[1] = 0 \/ (p[1] = 1 /\ p[2] = "new worker")

(***************************************************************************)
(* The checker never judges a test by files of another one, although runs  *)
(* that timed out, of this submission and of earlier ones, go on writing   *)
(* into the same directory, unless a worker has escaped a kill_all between *)
(* the tests of this submission.                                           *)
(***************************************************************************)
OwnVerdict ==
  pc \in {"run", "check"} /\ ~escaped =>
    \A r \in Finals : files[r] = None \/ files[r].age = 0

\* The scores had every test been run, by itself.
Earned == [t \in Tests |-> IF need[t] < timeouts[t] THEN marks[t] ELSE 0]

(***************************************************************************)
(* What write_score is about to write of a submission is what it would     *)
(* have got had every test been run, and a test without a score is one     *)
(* that it would have failed: skipping the children of a failed test, and  *)
(* running test_both when only one of its parents passed, costs no mark.   *)
(* Supposed is that no worker has escaped a kill_all between the tests of  *)
(* this submission, and that it passes a test with a single failure within *)
(* 50 s or not at all: one that needs up to 200 s fails such a test and is *)
(* never given the children, whose timeout it would meet.                  *)
(***************************************************************************)
ScoresAreEarned ==
  /\ pc = "tests" /\ queue = <<>> /\ ~escaped
  /\ \A t \in Tests : ~Repeated(t) => need[t] # Slow
  => \A t \in Tests :
       IF t \in DOMAIN test_results THEN test_results[t] = Earned[t] ELSE Earned[t] = 0

(***************************************************************************)
(* All submissions are graded, also those that hang.                       *)
(***************************************************************************)
GradingEnds == <>[](pc = "next" /\ taken = MaxSubmissions)
=============================================================================
