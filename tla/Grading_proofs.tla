----------------------------- MODULE Grading_proofs -----------------------------
(***************************************************************************)
(* What kill_all achieves, for any number of submissions.                  *)
(***************************************************************************)
EXTENDS Grading, TLAPS

NewWorkers(ages) == ages \X {"new worker"}

(***************************************************************************)
(* Who may be alive at each place of the script: while kill_all works, the *)
(* listed processes and new workers of the last run; after it only these;  *)
(* they are one run old in the next run.  Without an escape since the      *)
(* submission was unpacked nobody is, from its first test on.              *)
(***************************************************************************)
Alive ==
  /\ pc \in {"kill", "kill test"} =>
       /\ procs \subseteq listed \cup NewWorkers({0})
       /\ \A p \in procs : p[1] = 0 \/ (p[1] = 1 /\ p[2] = "new worker")
       /\ ~escaped => procs \subseteq listed
  /\ pc \in {"unpack", "clear"} => procs \subseteq NewWorkers({0})
  /\ pc = "clear" /\ ~escaped => procs = {}
  /\ pc \in {"next", "tests", "run", "check"} =>
       \A p \in procs : \/ p[1] = 0
                        \/ p[1] = 1 /\ p[2] = "new worker" /\ escaped

Inv ==
  /\ pc \in {"next", "kill", "unpack", "tests", "kill test", "clear", "run", "check"}
  /\ escaped \in BOOLEAN /\ DOMAIN files = Finals
  /\ Alive
  /\ OwnVerdict

LEMMA NewWorker ==
  LET n == <<0, "new worker">> IN n \in NewWorkers({0}) /\ n[1] = 0 /\ n[2] = "new worker"
BY DEF NewWorkers

LEMMA InitInv == Init => Inv
BY DEF Init, Inv, Alive, OwnVerdict, NewWorkers, NoFiles

\* The steps that neither start nor end a process, nor write a file.
LEMMA QuietStep ==
  ASSUME Inv, Skip \/ Unpack \/ Tick \/ Timeout \/ Check \/ WriteScores
  PROVE  Inv'
<1>1. CASE Skip
  BY <1>1 DEF Inv, Alive, OwnVerdict, Skip, NewWorkers
<1>2. CASE Unpack
  BY <1>2 DEF Inv, Alive, OwnVerdict, Unpack, NewWorkers
<1>3. CASE Tick
  BY <1>3 DEF Inv, Alive, OwnVerdict, Tick
<1>4. CASE Timeout
  BY <1>4 DEF Inv, Alive, OwnVerdict, Timeout
<1>5. CASE Check
  BY <1>5 DEF Inv, Alive, OwnVerdict, Check, NoFiles
<1>6. CASE WriteScores
  BY <1>6 DEF Inv, Alive, OwnVerdict, WriteScores
<1> QED BY <1>1, <1>2, <1>3, <1>4, <1>5, <1>6

\* kill_all: what is listed, what is started meanwhile, what is killed.
LEMMA KillStep ==
  ASSUME Inv, NextFile \/ PopTest \/ Respawn \/ Kill
  PROVE  Inv'
<1>1. CASE NextFile
  BY <1>1 DEF Inv, Alive, OwnVerdict, NextFile, NewWorkers
<1>2. CASE PopTest
  BY <1>2 DEF Inv, Alive, OwnVerdict, PopTest, NewWorkers
<1>3. CASE Respawn
  <2>1. PICK p \in procs : /\ p[2] = "coordinator"
                           /\ procs' = procs \cup {<<p[1], "new worker">>}
    BY <1>3 DEF Respawn
  <2>2. p[1] = 0
    BY <1>3, <2>1 DEF Inv, Alive, Respawn
  <2>3. \A q \in procs' : q \in procs \/ q = <<0, "new worker">>
    BY <2>1, <2>2
  <2>4. pc' \in {"kill", "kill test"} /\ escaped' = TRUE /\ listed' = listed
    BY <1>3 DEF Respawn
  <2>5. Alive'
    <3>1. /\ procs \subseteq listed \cup NewWorkers({0})
          /\ \A q \in procs : q[1] = 0 \/ (q[1] = 1 /\ q[2] = "new worker")
      BY <1>3 DEF Inv, Alive, Respawn
    <3>2. procs' \subseteq listed' \cup NewWorkers({0})
      BY <2>3, <2>4, <3>1, NewWorker
    <3>3. \A q \in procs' : q[1] = 0 \/ (q[1] = 1 /\ q[2] = "new worker")
      BY <2>3, <3>1, NewWorker
    <3> QED BY <2>4, <3>2, <3>3 DEF Alive
  <2>6. files' = files
    BY <1>3 DEF Respawn
  <2> QED BY <2>4, <2>5, <2>6 DEF Inv, OwnVerdict
<1>4. CASE Kill
  BY <1>4 DEF Inv, Alive, OwnVerdict, Kill, NewWorkers
<1> QED BY <1>1, <1>2, <1>3, <1>4

\* A run begins, writes and ends.
LEMMA RunStep ==
  ASSUME Inv, RunTest \/ MainEnds \/ \E age \in 0 .. 2, r \in Finals : Write(age, r)
  PROVE  Inv'
<1>1. CASE RunTest
  <2>1. \A p \in procs : p \in NewWorkers({0}) /\ escaped
    BY <1>1 DEF Inv, Alive, RunTest
  <2>2. \A p \in procs' : \/ p[1] = 0
                          \/ p[1] = 1 /\ p[2] = "new worker" /\ escaped
    <3> SUFFICES ASSUME NEW q \in procs', q[1] # 0
                 PROVE  q[1] = 1 /\ q[2] = "new worker" /\ escaped
      OBVIOUS
    <3>1. q \in {<<Older(p[1]), p[2]>> : p \in procs}
      BY <1>1 DEF RunTest
    <3>2. PICK p \in procs : q = <<Older(p[1]), p[2]>>
      BY <3>1
    <3>3. p[1] = 0 /\ p[2] = "new worker" /\ escaped
      BY <2>1 DEF NewWorkers
    <3> QED BY <3>2, <3>3 DEF Older
  <2>3. DOMAIN files' = Finals /\ \A r \in Finals : files'[r] = None
    BY <1>1 DEF RunTest, NoFiles
  <2> QED BY <1>1, <2>2, <2>3 DEF Inv, Alive, OwnVerdict, RunTest
<1>2. CASE MainEnds
  BY <1>2 DEF Inv, Alive, OwnVerdict, MainEnds
<1>3. ASSUME NEW age \in 0 .. 2, NEW r \in Finals, Write(age, r)
      PROVE  Inv'
  <2>1. Alive'
    BY <1>3 DEF Inv, Alive, Write
  <2>2. ~escaped => age = 0
    BY <1>3 DEF Inv, Alive, Write
  <2>3. PICK right \in BOOLEAN :
          files' = [files EXCEPT ![r] = [age |-> age, right |-> right]]
    BY <1>3 DEF Write
  <2>4. ASSUME NEW s \in Finals, ~escaped, pc \in {"run", "check"}
        PROVE  files'[s] = None \/ files'[s].age = 0
    <3>1. CASE s = r
      <4>1. files'[s] = [age |-> age, right |-> right]
        BY <2>3, <3>1 DEF Inv
      <4>2. files'[s].age = age
        BY <4>1
      <4> QED BY <2>2, <2>4, <4>2
    <3>2. CASE s # r
      BY <2>3, <2>4, <3>2 DEF Inv, OwnVerdict
    <3> QED BY <3>1, <3>2
  <2>5. DOMAIN files' = Finals
    BY <2>3 DEF Inv
  <2> QED BY <1>3, <2>1, <2>4, <2>5 DEF Inv, OwnVerdict, Write
<1> QED BY <1>1, <1>2, <1>3

LEMMA NextInv == Inv /\ [Next]_vars => Inv'
<1>1. ASSUME Inv, Next PROVE Inv'
  BY <1>1, QuietStep, KillStep, RunStep DEF Next, Script
<1>2. ASSUME Inv, UNCHANGED vars PROVE Inv'
  BY <1>2 DEF Inv, Alive, OwnVerdict, vars
<1> QED BY <1>1, <1>2

(***************************************************************************)
(* What is left of a run disturbs at most the next one: kill_all ends it   *)
(* before the one after that, also a worker that escaped it once.          *)
(***************************************************************************)
THEOREM Leftovers == Spec => []LeftoversDie
<1>1. Inv => LeftoversDie
  BY DEF Inv, Alive, LeftoversDie
<1> QED BY InitInv, NextInv, <1>1, PTL DEF Spec

(***************************************************************************)
(* Without an escape since the submission was unpacked no verdict of the   *)
(* checker rests on files of another run (kill_all, run_test).             *)
(***************************************************************************)
THEOREM Verdicts == Spec => []OwnVerdict
<1>1. Inv => OwnVerdict
  BY DEF Inv
<1> QED BY InitInv, NextInv, <1>1, PTL DEF Spec

-----------------------------------------------------------------------------
(***************************************************************************)
(* Types.                                                                  *)
(***************************************************************************)
Killing == pc \in {"kill", "kill test"}
Testing == pc \in {"tests", "kill test", "clear", "run", "check"}
Types   == TypeOK /\ (~Killing => listed = {})

(***************************************************************************)
(* The results so far: a test that was passed has queued its children, and *)
(* of a submission that is as quick as ScoresAreEarned supposes a test was *)
(* passed if it is mastered.                                               *)
(***************************************************************************)
Reached == DOMAIN test_results \cup {queue[i] : i \in 1 .. Len(queue)}
             \cup (IF pc = "tests" THEN {} ELSE {node})

QueueInv ==
  /\ ~Testing => test_results = <<>>
  /\ Testing =>
       /\ "none" \in Reached
       /\ \A t \in DOMAIN test_results : test_results[t] # 0 =>
            \A i \in DOMAIN test_case_dag[t] : test_case_dag[t][i] \in Reached

Usual == ~escaped /\ \A t \in Tests : ~Repeated(t) => need[t] # Slow

ScoreInv == Usual => \A t \in DOMAIN test_results : test_results[t] = Earned[t]

\* Files that are there are right if the submission masters the test, and they
\* are there before the time runs out.
RunInv ==
  Usual /\ pc \in {"run", "check"} =>
    /\ \A r \in Finals : files[r] # None => (files[r].right <=> need[node] # Never)
    /\ Complete \/ elapsed <= need[node]
    /\ pc = "check" => Complete \/ need[node] = Never \/ elapsed = timeouts[node]

GradeInv == Types /\ QueueInv /\ ScoreInv /\ RunInv

-----------------------------------------------------------------------------
(***************************************************************************)
(* The tests.                                                              *)
(***************************************************************************)
LEMMA TestFacts ==
  /\ \A t \in Tests : /\ marks[t] \in Nat \ {0} /\ timeouts[t] \in {1, 2}
                      /\ timeouts[t] = (IF Repeated(t) THEN 2 ELSE 1)
                      /\ test_case_dag[t] \in Seq(Tests)
                      /\ Len(test_case_dag[t]) <= 2
                      /\ \A i \in DOMAIN test_case_dag[t] : test_case_dag[t][i] \in Tests
  /\ "none" \in Tests
BY DEF Tests, marks, timeouts, test_case_dag

LEMMA DagFacts ==
  /\ test_case_dag["none"][1] = "reducer_once" /\ test_case_dag["none"][2] = "mapper_once"
  /\ test_case_dag["reducer_once"][1] = "test_reducer"
  /\ test_case_dag["mapper_once"][1] = "test_mapper"
  /\ test_case_dag["test_reducer"][1] = "test_both"
  /\ test_case_dag["test_both"][1] = "test_all"
  /\ DOMAIN test_case_dag["none"] = {1, 2}
  /\ \A t \in Tests \ {"none", "test_all"} : 1 \in DOMAIN test_case_dag[t]
BY DEF Tests, test_case_dag

\* A test is no harder than its children.
LEMMA HarderFacts ==
  /\ NoHarder("none", "reducer_once") /\ NoHarder("none", "mapper_once")
  /\ NoHarder("reducer_once", "test_reducer") /\ NoHarder("mapper_once", "test_mapper")
  /\ NoHarder("test_reducer", "test_both") /\ NoHarder("test_both", "test_all")
<1>1. /\ Rounds("none") = {} /\ Rounds("mapper_once") = {{"Mapper_0"}}
      /\ Rounds("reducer_once") = {{"Reducer_0"}}
      /\ Rounds("test_mapper") = {{w} : w \in Workers \ Finals}
      /\ Rounds("test_reducer") = {{w} : w \in Finals}
      /\ Rounds("test_both") = {{m, r} : m \in Workers \ Finals, r \in Finals}
      /\ Rounds("test_all") = {Workers}
  BY DEF Rounds
<1>2. /\ ~Repeated("none") /\ ~Repeated("mapper_once") /\ ~Repeated("reducer_once")
      /\ Repeated("test_both") /\ Repeated("test_all")
  BY DEF Repeated
<1>3. /\ {"Mapper_0"} \in Rounds("test_mapper") /\ {"Reducer_0"} \in Rounds("test_reducer")
  BY <1>1 DEF Workers, Finals
<1>4. \A V \in Rounds("test_reducer") : \E W \in Rounds("test_both") : V \subseteq W
  <2> SUFFICES ASSUME NEW w \in Finals
               PROVE  \E W \in Rounds("test_both") : {w} \subseteq W
    BY <1>1
  <2>1. "Mapper_0" \in Workers \ Finals
    BY DEF Workers, Finals
  <2>2. {"Mapper_0", w} \in Rounds("test_both")
    BY <1>1, <2>1
  <2> QED BY <2>2
<1>5. \A V \in Rounds("test_both") : \E W \in Rounds("test_all") : V \subseteq W
  <2> SUFFICES ASSUME NEW m \in Workers \ Finals, NEW r \in Finals
               PROVE  {m, r} \subseteq Workers
    BY <1>1
  <2> QED BY DEF Workers, Finals
<1> QED BY <1>1, <1>2, <1>3, <1>4, <1>5 DEF NoHarder

LEMMA NobodySubmits == Nobody \in Submissions
<1>1. Never <= Never
  BY DEF Never
<1> QED BY <1>1 DEF Nobody, Submissions

\* The members of a queue to which something is added.
LEMMA Queued ==
  ASSUME NEW s \in Seq(Tests), NEW u \in Seq(Tests), Len(u) <= 1
  PROVE  /\ s \o u \in Seq(Tests)
         /\ \A i \in 1 .. Len(s) : \E j \in 1 .. Len(s \o u) : (s \o u)[j] = s[i]
         /\ Len(u) = 1 => \E j \in 1 .. Len(s \o u) : (s \o u)[j] = u[1]
<1>1. /\ s \o u \in Seq(Tests) /\ Len(s \o u) = Len(s) + Len(u)
      /\ \A i \in 1 .. Len(s) : (s \o u)[i] = s[i]
      /\ \A i \in 1 .. Len(u) : (s \o u)[Len(s) + i] = u[i]
  OBVIOUS
<1>2. \A i \in 1 .. Len(s) : i \in 1 .. Len(s \o u)
  BY <1>1
<1>3. Len(u) = 1 => Len(s) + 1 \in 1 .. Len(s \o u)
  BY <1>1
<1> QED BY <1>1, <1>2, <1>3

LEMMA Unqueued ==
  ASSUME NEW s \in Seq(Tests), s # <<>>
  PROVE  /\ Head(s) \in Tests /\ Tail(s) \in Seq(Tests)
         /\ \A i \in 1 .. Len(s) :
              s[i] = Head(s) \/ \E j \in 1 .. Len(Tail(s)) : Tail(s)[j] = s[i]
<1>1. /\ Head(s) \in Tests /\ Head(s) = s[1] /\ Tail(s) \in Seq(Tests)
      /\ Len(Tail(s)) = Len(s) - 1
      /\ \A j \in 1 .. Len(Tail(s)) : Tail(s)[j] = s[j + 1]
  OBVIOUS
<1>2. ASSUME NEW i \in 1 .. Len(s), i # 1
      PROVE  i - 1 \in 1 .. Len(Tail(s)) /\ Tail(s)[i - 1] = s[i]
  BY <1>1, <1>2
<1> QED BY <1>1, <1>2

-----------------------------------------------------------------------------
(***************************************************************************)
(* The steps, and what each keeps.                                         *)
(***************************************************************************)
LEMMA InitGrade == Init => GradeInv
<1> SUFFICES ASSUME Init PROVE GradeInv
  OBVIOUS
<1>1. Types
  <2>1. <<>> \in Seq(Tests) /\ DOMAIN <<>> = {}
    OBVIOUS
  <2>2. 0 \in 0 .. MaxSubmissions /\ 0 \in 0 .. 2
    BY GradingAssumption
  <2>3. files \in [Finals -> FinalFiles \cup {None}]
    BY DEF Init, NoFiles
  <2> QED BY <2>1, <2>2, <2>3, TestFacts, NobodySubmits DEF Init, Types, TypeOK
<1>2. QueueInv /\ ScoreInv /\ RunInv
  BY DEF Init, QueueInv, ScoreInv, RunInv, Testing
<1> QED BY <1>1, <1>2 DEF GradeInv

\* The files do not change, or there are none.
LEMMA TypesFiles ==
  ASSUME Types,
         /\ pc' \in {"next", "kill", "unpack", "tests", "kill test", "clear", "run", "check"}
         /\ taken' \in 0 .. MaxSubmissions /\ need' \in Submissions
         /\ queue' \in Seq(Tests) /\ node' \in Tests
         /\ DOMAIN test_results' \subseteq Tests
         /\ listed' \subseteq procs'
         /\ procs' \subseteq (0 .. 2) \X {"coordinator", "worker", "new worker"}
         /\ elapsed' \in 0 .. 2 /\ escaped' \in BOOLEAN,
         files' = files \/ files' = NoFiles,
         ~Killing' => listed' = {}
  PROVE  Types'
BY DEF Types, TypeOK, NoFiles

\* The queue, the results and the place in the script stay what they are.
LEMMA QueueKept ==
  ASSUME QueueInv, UNCHANGED <<queue, test_results, node>>,
         Testing' <=> Testing, pc' = "tests" <=> pc = "tests"
  PROVE  QueueInv'
<1>1. Reached' = Reached
  BY DEF Reached
<1> QED BY <1>1 DEF QueueInv

LEMMA ScoresKept ==
  ASSUME ScoreInv, UNCHANGED <<need, test_results>>, escaped' = escaped \/ escaped'
  PROVE  ScoreInv'
BY DEF ScoreInv, Usual, Earned

LEMMA OutOfTests ==
  ASSUME QueueInv, NextFile \/ Skip \/ Unpack \/ WriteScores
  PROVE  QueueInv' /\ ScoreInv'
<1>1. DOMAIN <<>> = {}
  OBVIOUS
<1>2. test_results' = <<>>
  BY DEF QueueInv, Testing, NextFile, Skip, Unpack, WriteScores
<1>3. ScoreInv'
  BY <1>1, <1>2 DEF ScoreInv
<1>4. CASE NextFile \/ Skip \/ WriteScores
  <2>1. pc' = "kill" \/ pc' = "next"
    BY <1>4 DEF NextFile, Skip, WriteScores
  <2>2. ~Testing'
    BY <2>1 DEF Testing
  <2> QED BY <1>2, <1>3, <2>2 DEF QueueInv
<1>5. CASE Unpack
  <2>1. queue' = <<"none">> /\ pc' = "tests"
    BY <1>5 DEF Unpack
  <2>2. 1 \in 1 .. Len(queue') /\ queue'[1] = "none"
    BY <2>1
  <2>3. "none" \in Reached'
    BY <2>2 DEF Reached
  <2>4. Testing'
    BY <2>1 DEF Testing
  <2>5. DOMAIN test_results' = {}
    BY <1>1, <1>2
  <2> QED BY <1>3, <2>3, <2>4, <2>5 DEF QueueInv
<1> QED BY <1>3, <1>4, <1>5

LEMMA PopReaches ==
  ASSUME Types, QueueInv, PopTest
  PROVE  QueueInv'
<1>1. /\ pc = "tests" /\ queue # <<>> /\ queue \in Seq(Tests)
      /\ node' = Head(queue) /\ queue' = Tail(queue) /\ test_results' = test_results
      /\ IF Head(queue) \in DOMAIN test_results THEN pc' = "tests" ELSE pc' = "kill test"
  BY DEF PopTest, Types, TypeOK
<1>2. \A i \in 1 .. Len(queue) :
        queue[i] = Head(queue) \/ \E j \in 1 .. Len(queue') : queue'[j] = queue[i]
  BY <1>1, Unqueued
<1>3. Head(queue) \in Reached'
  BY <1>1 DEF Reached
<1>4. Reached \subseteq Reached'
  BY <1>1, <1>2, <1>3 DEF Reached
<1> QED BY <1>1, <1>4 DEF QueueInv, Testing

LEMMA CheckReaches ==
  ASSUME Types, QueueInv, Check
  PROVE  QueueInv' /\ queue' \in Seq(Tests)
<1>1. /\ pc = "check" /\ pc' = "tests" /\ node' = node /\ Verdict(Score)
      /\ queue \in Seq(Tests) /\ node \in Tests
  BY DEF Check, Types, TypeOK
<1>2. /\ test_results' = WithResult(Score)
      /\ queue' = IF Score = 0 THEN queue ELSE queue \o Child(1) \o Child(2)
  BY <1>1 DEF Verdict
<1>3. /\ DOMAIN test_results' = DOMAIN test_results \cup {node}
      /\ \A t \in DOMAIN test_results' :
           test_results'[t] = IF t = node THEN Score ELSE test_results[t]
  BY <1>2 DEF WithResult
<1>4. ASSUME NEW i \in {1, 2} PROVE Child(i) \in Seq(Tests) /\ Len(Child(i)) <= 1
  <2>1. CASE i \in DOMAIN test_case_dag[node]
    BY <1>1, <2>1, TestFacts DEF Child
  <2>2. CASE i \notin DOMAIN test_case_dag[node]
    BY <2>2 DEF Child
  <2> QED BY <2>1, <2>2
<1> DEFINE one == queue \o Child(1)
           two == one \o Child(2)
<1>5. /\ one \in Seq(Tests)
      /\ \A i \in 1 .. Len(queue) : \E j \in 1 .. Len(one) : one[j] = queue[i]
      /\ Len(Child(1)) = 1 => \E j \in 1 .. Len(one) : one[j] = Child(1)[1]
  BY <1>1, <1>4, Queued
<1> HIDE DEF one
<1>6. /\ two \in Seq(Tests)
      /\ \A i \in 1 .. Len(one) : \E j \in 1 .. Len(two) : two[j] = one[i]
      /\ Len(Child(2)) = 1 => \E j \in 1 .. Len(two) : two[j] = Child(2)[1]
  BY <1>4, <1>5, Queued
<1> HIDE DEF two
<1>7. queue' = IF Score = 0 THEN queue ELSE two
  BY <1>2 DEF one, two
<1>8. /\ queue' \in Seq(Tests)
      /\ \A i \in 1 .. Len(queue) : \E j \in 1 .. Len(queue') : queue'[j] = queue[i]
  BY <1>1, <1>5, <1>6, <1>7
<1>9. Reached \subseteq Reached'
  BY <1>1, <1>3, <1>8 DEF Reached
<1>10. ASSUME Score # 0, NEW i \in DOMAIN test_case_dag[node]
       PROVE  test_case_dag[node][i] \in Reached'
  <2> DEFINE c == test_case_dag[node][i]
  <2>1. CASE c \in DOMAIN test_results'
    BY <2>1 DEF Reached
  <2>2. CASE c \notin DOMAIN test_results'
    <3>1. i \in {1, 2}
      BY <1>1, <1>10, TestFacts
    <3>2. Len(Child(i)) = 1 /\ Child(i)[1] = c
      BY <1>10, <2>2, <3>1 DEF Child
    <3>3. \E j \in 1 .. Len(two) : two[j] = c
      BY <1>5, <1>6, <3>1, <3>2
    <3> QED BY <1>7, <1>10, <3>3 DEF Reached
  <2> QED BY <2>1, <2>2
<1>11. \A t \in DOMAIN test_results' : test_results'[t] # 0 =>
         \A i \in DOMAIN test_case_dag[t] : test_case_dag[t][i] \in Reached'
  BY <1>1, <1>3, <1>9, <1>10 DEF QueueInv, Testing
<1> QED BY <1>1, <1>8, <1>9, <1>11 DEF QueueInv, Testing

-----------------------------------------------------------------------------
(***************************************************************************)
(* The verdict of the checker is the one that the submission deserves.     *)
(***************************************************************************)
LEMMA Deserved ==
  ASSUME Types, RunInv, Usual, pc = "check"
  PROVE  Score = Earned[node]
<1>1. node \in Tests /\ need[node] \in {Quick, Slow, Never} /\ elapsed \in 0 .. 2
  BY DEF Types, TypeOK, Submissions
<1>2. timeouts[node] \in {1, 2} /\ timeouts[node] = (IF Repeated(node) THEN 2 ELSE 1)
  BY <1>1, TestFacts
<1>3. Earned[node] = IF need[node] < timeouts[node] THEN marks[node] ELSE 0
  BY <1>1 DEF Earned
<1>4. /\ \A r \in Finals : files[r] # None => (files[r].right <=> need[node] # Never)
      /\ Complete \/ elapsed <= need[node]
      /\ Complete \/ need[node] = Never \/ elapsed = timeouts[node]
  BY DEF RunInv
<1>5. CASE need[node] < timeouts[node]
  <2>1. Complete /\ need[node] # Never
    BY <1>1, <1>2, <1>4, <1>5 DEF Quick, Slow, Never
  <2>2. \A r \in Finals : files[r].right
    BY <1>4, <2>1 DEF Complete
  <2> QED BY <1>3, <1>5, <2>1, <2>2 DEF Score
<1>6. CASE ~(need[node] < timeouts[node])
  <2>1. need[node] = Never
    BY <1>1, <1>2, <1>6 DEF Usual, Quick, Slow, Never
  <2>2. "Reducer_0" \in Finals
    BY DEF Finals
  <2>3. ~(Complete /\ \A r \in Finals : files[r].right)
    BY <1>4, <2>1, <2>2 DEF Complete
  <2> QED BY <1>3, <1>6, <2>3 DEF Score
<1> QED BY <1>5, <1>6

LEMMA CheckGrades ==
  ASSUME GradeInv, Check
  PROVE  GradeInv'
<1>1. QueueInv' /\ queue' \in Seq(Tests)
  BY CheckReaches DEF GradeInv
<1>2. /\ pc = "check" /\ pc' = "tests" /\ files' = NoFiles
      /\ test_results' = WithResult(Score)
      /\ UNCHANGED <<taken, need, node, procs, listed, elapsed, escaped>>
  BY DEF Check, Verdict
<1>3. /\ DOMAIN test_results' = DOMAIN test_results \cup {node}
      /\ \A t \in DOMAIN test_results' :
           test_results'[t] = IF t = node THEN Score ELSE test_results[t]
  BY <1>2 DEF WithResult
<1>4. Types'
  BY <1>1, <1>2, <1>3, TypesFiles DEF GradeInv, Types, TypeOK, Killing
<1>5. Earned' = Earned /\ (Usual' <=> Usual)
  BY <1>2 DEF Earned, Usual
<1>6. ScoreInv'
  BY <1>2, <1>3, <1>5, Deserved DEF GradeInv, ScoreInv
<1>7. RunInv'
  BY <1>2 DEF RunInv
<1> QED BY <1>1, <1>4, <1>6, <1>7 DEF GradeInv

\* The steps that only move the script.
LEMMA ScriptGrades ==
  ASSUME GradeInv, NextFile \/ Skip \/ Unpack \/ PopTest \/ WriteScores
  PROVE  GradeInv'
<1>1. Types'
  <2>1. <<"none">> \in Seq(Tests) /\ <<>> \in Seq(Tests) /\ DOMAIN <<>> = {}
    BY TestFacts
  <2>2. CASE NextFile
    <3>1. taken + 1 \in 0 .. MaxSubmissions
      <4>1. taken \in 0 .. MaxSubmissions /\ taken < MaxSubmissions
        BY <2>2 DEF GradeInv, Types, TypeOK, NextFile
      <4> QED BY <4>1, GradingAssumption
    <3>2. pc' = "kill" /\ listed' = procs /\ procs' = procs /\ Killing'
      BY <2>2 DEF NextFile, Killing
    <3> QED BY <2>2, <3>1, <3>2, TypesFiles DEF GradeInv, Types, TypeOK, NextFile
  <2>3. CASE Skip
    BY <2>3, TypesFiles DEF GradeInv, Types, TypeOK, Killing, Skip
  <2>4. CASE Unpack
    BY <2>1, <2>4, TypesFiles DEF GradeInv, Types, TypeOK, Killing, Unpack
  <2>5. CASE PopTest
    <3>1. Head(queue) \in Tests /\ Tail(queue) \in Seq(Tests)
      BY <2>5, Unqueued DEF PopTest, GradeInv, Types, TypeOK
    <3> QED BY <2>5, <3>1, TypesFiles DEF GradeInv, Types, TypeOK, Killing, PopTest
  <2>6. CASE WriteScores
    BY <2>1, <2>6, TypesFiles, NobodySubmits
       DEF GradeInv, Types, TypeOK, Killing, WriteScores
  <2> QED BY <2>2, <2>3, <2>4, <2>5, <2>6
<1>2. QueueInv' /\ ScoreInv'
  <2>1. CASE PopTest
    BY <2>1, PopReaches, ScoresKept DEF GradeInv, PopTest
  <2> QED BY <2>1, OutOfTests DEF GradeInv
<1>3. RunInv'
  <2>1. pc' \in {"next", "kill", "unpack", "tests", "kill test"}
    BY DEF NextFile, Skip, Unpack, PopTest, WriteScores
  <2> QED BY <2>1 DEF RunInv
<1> QED BY <1>1, <1>2, <1>3 DEF GradeInv

\* kill_all, and what escapes it.
LEMMA KillGrades ==
  ASSUME GradeInv, Kill \/ Respawn
  PROVE  GradeInv'
<1>1. Types'
  <2>1. CASE Kill
    BY <2>1, TypesFiles DEF GradeInv, Types, TypeOK, Killing, Kill
  <2>2. CASE Respawn
    <3>1. PICK p \in procs : procs' = procs \cup {<<p[1], "new worker">>}
      BY <2>2 DEF Respawn
    <3>2. <<p[1], "new worker">> \in (0 .. 2) \X {"coordinator", "worker", "new worker"}
      BY DEF GradeInv, Types, TypeOK
    <3> QED BY <2>2, <3>1, <3>2, TypesFiles DEF GradeInv, Types, TypeOK, Killing, Respawn
  <2> QED BY <2>1, <2>2
<1>2. /\ UNCHANGED <<queue, test_results, node, need>>
      /\ escaped' = escaped \/ escaped'
      /\ Testing' <=> Testing
      /\ pc' = "tests" <=> pc = "tests"
      /\ pc' \notin {"run", "check"}
  BY DEF Kill, Respawn, Testing
<1>3. QueueInv' /\ ScoreInv'
  BY <1>2, QueueKept, ScoresKept DEF GradeInv
<1>4. RunInv'
  BY <1>2 DEF RunInv
<1> QED BY <1>1, <1>3, <1>4 DEF GradeInv

\* A run.
LEMMA RunGrades ==
  ASSUME GradeInv, RunTest \/ Tick \/ Timeout \/ MainEnds
  PROVE  GradeInv'
<1>1. node \in Tests /\ need[node] \in {Quick, Slow, Never} /\ elapsed \in 0 .. 2
      /\ timeouts[node] \in {1, 2}
  BY TestFacts DEF GradeInv, Types, TypeOK, Submissions
<1>2. Types'
  <2>1. CASE RunTest
    <3>1. procs' \subseteq (0 .. 2) \X {"coordinator", "worker", "new worker"}
      <4>1. ASSUME NEW p \in procs
            PROVE  <<Older(p[1]), p[2]>> \in (0 .. 2) \X {"coordinator", "worker", "new worker"}
        <5>1. p[1] \in 0 .. 2 /\ p[2] \in {"coordinator", "worker", "new worker"}
          BY DEF GradeInv, Types, TypeOK
        <5>2. Older(p[1]) \in 0 .. 2
          BY DEF Older
        <5> QED BY <5>1, <5>2
      <4>2. 0 \in 0 .. 2
        OBVIOUS
      <4>3. procs' = {<<Older(p[1]), p[2]>> : p \in procs}
                       \cup {<<0, "coordinator">>, <<0, "worker">>}
        BY <2>1 DEF RunTest
      <4> DEFINE K == {"coordinator", "worker", "new worker"}
      <4>4. <<0, "coordinator">> \in (0 .. 2) \X K /\ <<0, "worker">> \in (0 .. 2) \X K
        BY <4>2
      <4> SUFFICES ASSUME NEW q \in procs' PROVE q \in (0 .. 2) \X K
        OBVIOUS
      <4>5. CASE q \in {<<Older(p[1]), p[2]>> : p \in procs}
        <5>1. PICK p \in procs : q = <<Older(p[1]), p[2]>>
          BY <4>5
        <5> QED BY <4>1, <5>1
      <4> QED BY <4>3, <4>4, <4>5
    <3> QED BY <2>1, <3>1, TypesFiles DEF GradeInv, Types, TypeOK, Killing, RunTest
  <2>2. CASE Tick
    <3>1. elapsed + 1 \in 0 .. 2
      BY <1>1, <2>2 DEF Tick
    <3> QED BY <2>2, <3>1, TypesFiles DEF GradeInv, Types, TypeOK, Killing, Tick
  <2>3. CASE Timeout
    BY <2>3, TypesFiles DEF GradeInv, Types, TypeOK, Killing, Timeout
  <2>4. CASE MainEnds
    BY <2>4, TypesFiles DEF GradeInv, Types, TypeOK, Killing, MainEnds
  <2> QED BY <2>1, <2>2, <2>3, <2>4
<1>3. /\ UNCHANGED <<queue, test_results, node, need, escaped>>
      /\ Testing' <=> Testing
      /\ pc' = "tests" <=> pc = "tests"
  BY DEF RunTest, Tick, Timeout, MainEnds, Testing
<1>4. QueueInv' /\ ScoreInv'
  BY <1>3, QueueKept, ScoresKept DEF GradeInv
<1>5. Usual' <=> Usual
  BY <1>3 DEF Usual
<1>6. RunInv'
  <2>1. CASE RunTest
    <3>1. \A r \in Finals : files'[r] = None
      BY <2>1 DEF RunTest, NoFiles
    <3>2. elapsed' = 0 /\ pc' = "run" /\ 0 <= need'[node']
      BY <1>1, <1>3, <2>1 DEF RunTest, Quick, Slow, Never
    <3> QED BY <3>1, <3>2 DEF RunInv
  <2>2. ASSUME Tick \/ Timeout \/ MainEnds, Usual PROVE RunInv'
    <3>1. /\ files' = files /\ pc = "run" /\ pc' \in {"run", "check"} /\ (Complete' <=> Complete)
      BY <2>2 DEF Tick, Timeout, MainEnds, Complete
    <3>2. /\ \A r \in Finals : files[r] # None => (files[r].right <=> need[node] # Never)
          /\ Complete \/ elapsed <= need[node]
      BY <2>2, <3>1 DEF GradeInv, RunInv
    <3>3. CASE Tick
      <4>1. elapsed' = elapsed + 1 /\ pc' = "run" /\ (Complete \/ elapsed < need[node])
        BY <3>3 DEF Tick
      <4>2. Complete \/ elapsed' <= need[node]
        BY <1>1, <4>1 DEF Quick, Slow, Never
      <4> QED BY <1>3, <3>1, <3>2, <4>1, <4>2 DEF RunInv
    <3>4. CASE Timeout \/ MainEnds
      <4>1. elapsed' = elapsed /\ (Complete \/ need[node] = Never \/ elapsed = timeouts[node])
        BY <3>4 DEF Timeout, MainEnds
      <4> QED BY <1>3, <3>1, <3>2, <4>1 DEF RunInv
    <3> QED BY <2>2, <3>3, <3>4
  <2> QED BY <1>5, <2>1, <2>2 DEF RunInv
<1> QED BY <1>2, <1>4, <1>6 DEF GradeInv

\* Someone writes a final file; unless a worker escaped, it is the present run.
LEMMA WriteGrades ==
  ASSUME Inv, GradeInv, NEW age \in 0 .. 2, NEW r \in Finals, Write(age, r)
  PROVE  GradeInv'
<1>1. PICK right \in BOOLEAN :
        /\ age = 0 => /\ right = (elapsed >= need[node])
                      /\ right \/ need[node] = Never
        /\ files' = [files EXCEPT ![r] = [age |-> age, right |-> right]]
  BY DEF Write
<1>2. /\ pc \in {"run", "check"}
      /\ UNCHANGED <<pc, taken, need, queue, node, test_results, procs, listed,
                     elapsed, escaped>>
  BY DEF Write
<1>3. /\ files'[r] = [age |-> age, right |-> right]
      /\ \A s \in Finals \ {r} : files'[s] = files[s]
      /\ files' \in [Finals -> FinalFiles \cup {None}]
  BY <1>1 DEF GradeInv, Types, TypeOK, FinalFiles
<1>4. files'[r].age = age /\ files'[r].right = right
  BY <1>3
<1>5. Types'
  BY <1>2, <1>3 DEF GradeInv, Types, TypeOK, Killing
<1>6. QueueInv' /\ ScoreInv'
  BY <1>2, QueueKept, ScoresKept DEF GradeInv, Testing
<1>7. ASSUME Usual PROVE RunInv'
  <2>1. age = 0
    BY <1>7 DEF Inv, Alive, Write, Usual
  <2>2. need[node] \in {Quick, Slow, Never} /\ elapsed \in 0 .. 2
    BY DEF GradeInv, Types, TypeOK, Submissions
  <2>3. right <=> need[node] # Never
    <3>1. CASE need[node] # Never
      BY <1>1, <2>1, <3>1
    <3>2. CASE need[node] = Never
      <4>1. ~(elapsed >= need[node])
        BY <2>2, <3>2 DEF Never
      <4> QED BY <1>1, <2>1, <3>2, <4>1
    <3> QED BY <3>1, <3>2
  <2>4. /\ \A s \in Finals : files[s] # None => (files[s].right <=> need[node] # Never)
        /\ Complete \/ elapsed <= need[node]
        /\ pc = "check" => Complete \/ need[node] = Never \/ elapsed = timeouts[node]
    BY <1>2, <1>7 DEF GradeInv, RunInv
  <2>5. \A s \in Finals : files'[s] # None => (files'[s].right <=> need[node] # Never)
    BY <1>3, <1>4, <2>3, <2>4
  <2>6. Complete => Complete'
    <3> SUFFICES ASSUME Complete, files'[r] = None PROVE FALSE
      BY <1>3 DEF Complete
    <3> QED BY <1>3, GradingAssumption DEF FinalFiles
  <2>7. /\ \A s \in Finals : files'[s] # None => (files'[s].right <=> need'[node'] # Never)
        /\ Complete' \/ elapsed' <= need'[node']
        /\ pc' = "check" => Complete' \/ need'[node'] = Never \/ elapsed' = timeouts[node']
    BY <1>2, <2>4, <2>5, <2>6
  <2> QED BY <2>7 DEF RunInv, timeouts
<1>8. RunInv'
  BY <1>2, <1>7 DEF RunInv, Usual
<1> QED BY <1>5, <1>6, <1>8 DEF GradeInv

LEMMA NextGrade == Inv /\ GradeInv /\ [Next]_vars => GradeInv'
<1>1. ASSUME Inv, GradeInv, Next PROVE GradeInv'
  BY <1>1, ScriptGrades, KillGrades, RunGrades, WriteGrades, CheckGrades DEF Next, Script
<1>2. ASSUME GradeInv, UNCHANGED vars PROVE GradeInv'
  <2>1. Types'
    BY <1>2 DEF GradeInv, Types, TypeOK, Killing, vars
  <2>2. QueueInv' /\ ScoreInv'
    BY <1>2, QueueKept, ScoresKept DEF GradeInv, Testing, vars
  <2>3. Complete' <=> Complete
    BY <1>2 DEF vars, Complete
  <2>4. RunInv'
    BY <1>2, <2>3 DEF GradeInv, RunInv, Usual, vars, timeouts
  <2> QED BY <2>1, <2>2, <2>4 DEF GradeInv
<1> QED BY <1>1, <1>2

LEMMA GradeAlways == Spec => [](Inv /\ GradeInv)
BY InitInv, NextInv, InitGrade, NextGrade, PTL DEF Spec

\* The script, the processes it leaves behind and the files they write are as
\* lab2_eval.py has them.
THEOREM WellTyped == Spec => []TypeOK
<1>1. GradeInv => TypeOK
  BY DEF GradeInv, Types
<1> QED BY <1>1, GradeAlways, PTL

\* A test that the submission masters was run, along some path of the DAG.
LEMMA AllReached ==
  ASSUME Types, QueueInv, ScoreInv, Usual, pc = "tests", queue = <<>>,
         NEW t \in Tests, need[t] < timeouts[t]
  PROVE  t \in DOMAIN test_results
<1>1. need \in Submissions
  BY DEF Types, TypeOK
<1>2. ASSUME NEW u \in Tests PROVE need[u] \in {Quick, Slow, Never}
  BY <1>1 DEF Submissions
<1>3. ASSUME NEW u \in Tests, NEW w \in Tests, NoHarder(u, w), need[w] < timeouts[w]
      PROVE  need[u] < timeouts[u]
  <2>1. need[u] <= need[w]
    BY <1>1, <1>3 DEF Submissions
  <2>2. /\ timeouts[u] = (IF Repeated(u) THEN 2 ELSE 1)
        /\ timeouts[w] = (IF Repeated(w) THEN 2 ELSE 1)
    BY TestFacts
  <2>3. ~Repeated(u) => need[u] # Slow
    BY DEF Usual
  <2>4. need[w] < 2
    BY <1>2, <1>3, <2>2 DEF Quick, Slow, Never
  <2> QED BY <1>2, <2>1, <2>2, <2>3, <2>4 DEF Quick, Slow, Never
<1>4. Reached = DOMAIN test_results
  <2>1. {queue[i] : i \in 1 .. Len(queue)} = {}
    <3>1. 1 .. Len(queue) = {}
      OBVIOUS
    <3> QED BY <3>1
  <2> QED BY <2>1 DEF Reached
<1>5. ASSUME NEW u \in Tests, u \in DOMAIN test_results, need[u] < timeouts[u],
             NEW i \in DOMAIN test_case_dag[u]
      PROVE  test_case_dag[u][i] \in DOMAIN test_results
  <2>1. test_results[u] = Earned[u]
    BY <1>5 DEF ScoreInv
  <2>2. test_results[u] # 0
    BY <1>5, <2>1, TestFacts DEF Earned
  <2> QED BY <1>4, <1>5, <2>2 DEF QueueInv, Testing
<1>6. "none" \in DOMAIN test_results
  BY <1>4 DEF QueueInv, Testing
<1>7. /\ "none" \in Tests /\ "reducer_once" \in Tests /\ "mapper_once" \in Tests
      /\ "test_reducer" \in Tests /\ "test_mapper" \in Tests
      /\ "test_both" \in Tests /\ "test_all" \in Tests
  BY DEF Tests
<1>8. CASE t = "none"
  BY <1>6, <1>8
<1>9. ASSUME need["reducer_once"] < timeouts["reducer_once"]
      PROVE  "reducer_once" \in DOMAIN test_results
  BY <1>3, <1>5, <1>6, <1>7, <1>9, DagFacts, HarderFacts
<1>10. ASSUME need["mapper_once"] < timeouts["mapper_once"]
       PROVE  "mapper_once" \in DOMAIN test_results
  BY <1>3, <1>5, <1>6, <1>7, <1>10, DagFacts, HarderFacts
<1>11. ASSUME need["test_reducer"] < timeouts["test_reducer"]
       PROVE  "test_reducer" \in DOMAIN test_results
  BY <1>3, <1>5, <1>7, <1>9, <1>11, DagFacts, HarderFacts
<1>12. ASSUME need["test_mapper"] < timeouts["test_mapper"]
       PROVE  "test_mapper" \in DOMAIN test_results
  BY <1>3, <1>5, <1>7, <1>10, <1>12, DagFacts, HarderFacts
<1>13. ASSUME need["test_both"] < timeouts["test_both"]
       PROVE  "test_both" \in DOMAIN test_results
  BY <1>3, <1>5, <1>7, <1>11, <1>13, DagFacts, HarderFacts
<1>14. ASSUME need["test_all"] < timeouts["test_all"]
       PROVE  "test_all" \in DOMAIN test_results
  BY <1>3, <1>5, <1>7, <1>13, <1>14, DagFacts, HarderFacts
<1> QED BY <1>8, <1>9, <1>10, <1>11, <1>12, <1>13, <1>14 DEF Tests

(***************************************************************************)
(* Running only the children of tests that were passed costs no mark, and  *)
(* a test that two paths reach is run once (the loop over queue), under    *)
(* the two conditions that ScoresAreEarned names.                          *)
(***************************************************************************)
THEOREM FairMarks == Spec => []ScoresAreEarned
<1>1. ASSUME GradeInv, pc = "tests", queue = <<>>, Usual, NEW t \in Tests
      PROVE  IF t \in DOMAIN test_results THEN test_results[t] = Earned[t]
                                          ELSE Earned[t] = 0
  <2>1. CASE t \in DOMAIN test_results
    BY <1>1, <2>1 DEF GradeInv, ScoreInv
  <2>2. CASE t \notin DOMAIN test_results
    <3>1. ~(need[t] < timeouts[t])
      BY <1>1, <2>2, AllReached DEF GradeInv
    <3> QED BY <2>2, <3>1 DEF Earned
  <2> QED BY <2>1, <2>2
<1>2. GradeInv => ScoresAreEarned
  BY <1>1 DEF ScoresAreEarned, Usual
<1> QED BY <1>2, GradeAlways, PTL
=============================================================================
