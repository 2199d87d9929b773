# A verification project for the labs of COL733

The repository holds the course notes and the four labs of a cloud-computing
course. The labs are small distributed systems in Python; this directory models
the three that are more than a skeleton:

* **lab3**: a key-value store with chain replication over pooled TCP connections;
* **lab2**: a streaming word count with a coordinator that restarts workers;
* **lab4**: an eventually consistent Bayou service with logical clocks.

The labs are handed to students with parts left empty. Empty bodies that the
program runs through are modelled as what they are (they do nothing); the three
lab4 bodies that raise are modelled by the contract that their docstrings, their
callers and the tests state, and are marked external in `PROJECT.json`. The
lectures' notes are used only as the statements that findings quote.

Paths below are relative to `src/labs/`.

## 1. Inventory

| Component | State it keeps | Operations | What it interacts with | What makes it correct |
|---|---|---|---|---|
| `lab3/core/network.py` `TcpClient` | the list of free sockets (`None` until first use) | `send`: get a socket, send, wait, release | the handler threads of one server share it without a lock; the far end is a `handle_client` thread | a socket has one user; a reply belongs to its request; sockets are not lost |
| `lab3/core/socket_helpers.py`, `message.py` | bytes of a message received so far | `serialize`, `recvall`, `recv_message` | both ends of a connection | whole messages, in order, once |
| `lab3/core/server.py` | one thread per connection | `handle_client` | `_process_req` of the subclass | a request gets one answer, or the connection ends; without an answer from the subclass, neither |
| `lab3/cr/cr_server.py`, `cr_cluster.py` | a dict per server | `SET` at the head, applied and forwarded; `GET` at the tail | the next server, through the pool of the hop | linearizability, replicas that agree, requests that are answered |
| `lab3/lcheck/main.go` | a register | replays a log of calls and returns | the logs of the tests | it is the specification of the store |
| `lab2/coordinator.py`, `_coordinator.py` | phase, `is_done`, `last_hb_recvd`, the processes | heartbeats, alarm, restart, DONE, EXIT | UDP to all workers; a queue between its two threads | ends only when all have read, does end, notices the dead |
| `lab2/mapper.py` | position in its stream, connections | read a file, send the words, DONE, EXIT | TCP to the reducers, UDP to the coordinator | no word lost or repeated |
| `lab2/reducer.py` | counts, command queue | read, count, EXIT | a thread per mapper, one for the coordinator | as above |
| `lab4/bayou/storage.py` clocks | a time per server | compare, `advance` | all servers must sort alike | total order, partial order, monotone |
| `lab4/bayou/server.py`, `app.py` | a `Storage` (created at first use), the peer to ask next | append, anti-entropy, sever | handler threads, the anti-entropy thread, peers | logs agree, nothing acknowledged is lost, convergence |
| `lab4/core/network.py` | the severed peers | `send`, `sever_connection` | the above | a severed peer is passed over |
| `core/cluster.py`, `Server.run` of lab3 and lab4 | the topology, one process per server | start, sleep, listen, sleep, connect, accept | the servers, of which each may be late | nobody contacts a server that does not listen; the cluster comes up |
| `lab2/evaluation/lab2_eval.py` | queue of tests, results, live processes, files | run, time out, kill, check, score | processes that a timed-out run leaves behind | a verdict rests on its own run; no mark is lost to the order of the tests |

Not modelled, and why, is listed per component in `PROJECT.json`: stubs with no
behaviour (lab1, `craq/`), sequential scripts, logging, and the demos (section 6).

**What is hard here.** Threads share the pool and the lazily created storage
without a lock; SETs overtake one another on different sockets; a closed
connection is noticed only at the second use and goes back to the pool; EXIT,
DONE and words travel by different sockets; processes are killed at any moment
and started again with part of the coordinator's knowledge stale; the
anti-entropy thread acts on an answer that may be older than the storage; a
cluster starts on sleeps alone; a grading run that timed out leaves processes
that write into the files of the next.
`hazards` in `PROJECT.json` names each of these at its line with the properties
that cover it.

## 2. Modules

```
KVRegister  <--refines--  ChainReplication  --each hop refines-->  TcpClient
                          ^            (ChainPools: the mapping)      ^
            ChainReplication_proofs                           TcpClient_proofs
MessageQueue <--each direction refines-- Framing <-- Framing_proofs
WordCount    <-- WordCount_proofs
VectorTime   <-- Bayou <-- BayouStorage_proofs <-- Bayou_proofs
ClusterStart <-- ClusterStart_proofs
Grading      <-- Grading_proofs
MC<X>: the small instance(s) of X that TLC checks
```

**TcpClient** models one pool. Each access to the shared list is a step of its
own (`CheckNone`, `InitList`, `ConnectAppend`, `LenCheck`, `Pop`, `Release`
inside the steps that end a `send`); what a thread does to a socket that only it
holds is joined to a neighbouring access. The far end of a socket replies,
stays silent (`_process_req` returned `None`) or closes (it raised). A closed
connection is `eof` and, after one more `sendall`, `reset`, as the kernel
reports it. Python's list methods are atomic, so one access is one step.

**ChainReplication** models all of the store: clients, N servers, N-1 hops each
with a pool. Everything blocks, so a call is at one place, `at[c]`, and the
handlers behind it are waiting. **KVRegister** is the abstract store, with
`crModel` of `lcheck/main.go` as its sequential behaviour: `store` is the dict
of the tail, and a call's outcome is decided when its answer is on the way back.
**ChainPools** states that hop i of the chain is a `TcpClient`. It maps the
threads to the setters, the requests on a socket to the setters that wait on it,
and the far end's choice to what the next server did.

**Framing** models one connection byte by byte: `HandOver` gives the kernel a
piece of what `sendall` was called with, `Recv` is a `recv` of any length up to
what is missing (or the rest), `End` is the end of a process or of a client.
`Process` is `_process_req`, which answers, raises or returns `None`; after `None`
nothing is sent and the handler reads on. A stream that ends where a header
should be is answered by an error message; one that ends within a body raises
(`BodyMissing`: the call that is to log this has one argument too many), which
ends the handler. lab4's copy of the file differs in that line.
**MessageQueue** is what a direction of it promises.

**WordCount** models coordinator, mappers and reducers. A file is the sequence
of its words; the words under way to a reducer are a bag, since counts add up in
any order. `Kill` is `kill_worker`; `Restart` is one turn of the loop in
`monitor_health`, which leaves `is_done` and `last_hb_recvd` alone. A killed
reducer leaves its mappers with connections that lose one more word and then
raise, as the code has it: reconnecting is part of the recovery left as a TODO.
A reducer that is told to exit kills its own process, and with it go the words in
its sockets and in its command queue (`ReducerExit`).

**VectorTime** has the clocks as pure operators. **Bayou** has the threads of
lab4: the handler of each client's request, and at each server the anti-entropy
thread, whose step at the peer is the peer's handler. `storage` (the property
that creates the object lazily) is two steps, `CheckNone` and `Create`. The
methods of `Storage` hold its lock and are one step each. A write is its
logical time, and the text of a log is not in the model, as it repeats the log. The
anti-entropy thread reads `storage.c` and `storage.f` one after the other and
without the lock (`ReadC`, `Send`), so that a request may hold two vectors that
never existed together. A `GET` is modelled only as a thread that may create the
storage (`Read`); what it returns is left out (section 6). What is sent is converted as the code converts it: a time is `(name, ts)`
on the wire and `[ts, name]` inside an entry, a client's entry has none and is
stamped by the server (`Deserialize`), vectors travel as `c` and `f` (`ToMsg`,
`FromMsg`). `replaced` remembers whether the race on `storage` has discarded an
object; most properties promise nothing once it has.

**ClusterStart** models how a cluster of lab3 or lab4 comes up. Processes start
in any order; each binds its port, sleeps, fills its connection stub and accepts;
in lab4 the anti-entropy thread, started before all that, sleeps and goes round
its peers; the manager sleeps and lets the client begin. Starting that thread
(`PreRun`) and binding the port (`Boot`) are two steps, and the server may be
late at the second and again when it fills its stub. Time is a counter of
thirds of a second, and a step that is due is taken at most `Slack` later. In lab3 the
first SET goes along the chain (`Forward`) and fills the pools on its way.

**Grading** models the evaluation of lab2: the walk through the tests of a
submission, the program under test with its time limit, what a timed-out run
leaves alive, `kill_all` (which lists first and kills then, so that a worker
started in between escapes) and the checker's look at the reducers' files. A
submission is the time it needs in each test. `escaped` says that a worker has
escaped a `kill_all` between two tests of the submission that is being graded.

`map` in `PROJECT.json` gives the lines behind every definition.

## 3. Plan

Done in this order, the centre of the code first:

1. `TcpClient`, `KVRegister`, `ChainReplication`, `ChainPools`, their runs and proofs.
2. `WordCount`, then two of its invariants proved.
3. `VectorTime`, `Bayou`; the clocks proved.
4. `MessageQueue`, `Framing`.
5. `Bayou` with the wire format, and a cold start in every run of two servers.
6. `Grading` and `ClusterStart`, with proofs.
7. The statements about a single setter, checked inside the runs with two, and
   proved; every hop of the chain proved to be a `TcpClient`.
8. The safety properties of `Bayou`, `Framing`, `WordCount`, `Grading` and
   `ClusterStart` as theorems. With them every invariant and every action
   property of the runs, and every refinement, is proved for all constants.
9. A review of the models against the code line by line: silent answers and
   bodies cut short in `Framing`, the reducer's death on EXIT, the two vectors of
   a request, the start of the anti-entropy thread.

What could come next:

10. `Bayou` with two clients at one server: a statement of what `Storage.apply`
   would have to do with a write that is stamped first and applied last, for
   `AcksKept` to hold without its hypothesis.
11. `Storage.apply` as several steps (undo, commit, redo) for the readers that
    take no lock, once the repository has a body for it.
12. The tables of `lab2/evaluation/grade_log.py` beside those of `pivot.py`.

## 4. Runs: what is checked

All are run with two workers; the sizes are TLC's distinct states.

| Run | Instance | States | What it shows |
|---|---|---|---|
| `tcp_pool` | 2 threads, pool of 2 | 9 000 | `SocketExclusive`, `ReplyMatchesRequest`, `ExhaustedOnlyWhileBuilding` |
| `chain_linearizable` | 2 setters, 1 getter, 2 servers, 2 values | 340 000 | the store refines `KVRegister`; `LoneReplicasAgree` |
| `chain_hops` | 2 setters, 3 servers | 500 000 | every hop is a `TcpClient`; while one client sets no SET is refused (`LoneSetterNeverFails`) and all are answered (`LoneServiced`) |
| `chain_same_order` | 2 setters, 2 servers | finding | replicas end up different |
| `chain_hang` | 2 setters, 3 servers | finding | a request that is never answered |
| `framing` | header 3, bodies 1 and 2, 3 calls | 17 000 | `QueuesOfMessages`, `ReplyOfThisCall`, `CallReturns`, `HandlerEnds` |
| `wordcount` | 2 mappers, 1 reducer, one kill | 220 000 | all properties of `WordCount` |
| `grading` | 2 submissions of every speed, 7 tests | 340 000 | `LeftoversDie`, `OwnVerdict`, `ScoresAreEarned`, `GradingEnds` |
| `cluster_start` | 3 servers, lab3's chain and topologies of lab4, slack of a third of a second | 74 000 | `ThreadsSurvive`, `PoolsBuilt`, `ComesUp` |
| `bayou` | 2 servers without a storage, 2 clients of which one reads, up to 3 requests, one sever | 560 000 | logs and vectors are consistent, nothing lost, no thread dies, convergence |
| `bayou_three` | 3 servers, a client at each of the two that are not master | 180 000 | `CommittedAgree`, `Converges` when writes pass between servers before the master has them |
| `bayou_lazy` | 2 servers without a storage, one write each | finding | an acknowledged write is lost |

**Bounds.** `PoolSz` (32 in the program), `N` (4), `HeaderLen` (8), the numbers of
clients and servers are constants; the proofs hold for all values. In the runs a
pool of two is the smallest in which a socket can be taken while another is
free, be released in another order than taken, and be exhausted by a thread that
rebinds the list. A chain of two has a head and a tail; three is the
smallest in which a middle server's pool can be exhausted, so that its handler
raises and the connection of the hop before is closed. The properties of a lone
setter are conditional on `OneSetter`: the instances have two setters, of which
one, the other or both call, and what holds of one is checked on the states and
behaviours in which the other has not called. `LoneServiced` is about SETs: its
run has no getter, since a GET meets no other server and no pool.
A header of three bytes can be cut before, in the middle and after; three calls
make a connection be used again after a reuse. `MaxSevers`,
`MaxKills`, `MaxRestarts`, `MaxCalls`, `MaxEach`, `MaxRequests`,
`MaxSubmissions` bound what would go on for ever; two writes of a client and one
failure produce all orders the properties distinguish. Of two submissions the
second is graded among what the first has left behind; the age of a process
stops counting at 2 (two runs ago or earlier). `Slack` is a third of
a second at every step. The sleeps of the program (1 s, 2 s, 2 s) allow anything
below half a second: a server that is half a second late when it binds its port
and again when it fills its stub may do the latter after its anti-entropy thread
has asked for a connection. The
mapper of `wordcount` has a file of two words, so that it can fail between them;
the other one has an empty stream, so that one is done while the other reads. Only
killed workers are restarted in that run: restarting one that is alive leaves
what a kill followed by a restart leaves, and the proofs of section 5 cover any
number of either. `Timeout` is 0 in the run: an age is recent or late.

**Symmetry** is used for setters and for threads, in runs that check no liveness.

**Deadlock.** A system that has served all its calls may stop, and clients,
submissions and failures are bounded, so every run has `CHECK_DEADLOCK FALSE`.
That nothing is stuck earlier is what the liveness properties say: `LoneServiced`,
`CallReturns`, `HandlerEnds`, `JobEnds`, `ComesUp`, `GradingEnds`, `Converges`.
`CallReturns` makes the one exception that the code makes: a request whose
`_process_req` returned `None` is never answered, and its client stays in `recv`
while the server lives. In the chain this is what `chain_hang` comes to.

**Fairness.** `FairSpec` assumes weak fairness of steps that a thread takes
without anyone's consent once they are enabled: the scheduler runs all threads
and TCP delivers on live connections. Nobody has to make a call. In `WordCount`
time passes (`Tick`) and the interval timer keeps signalling (`Restart`), nobody
has to be killed, and no heartbeat is assumed: those of a live worker may be late.
In `Bayou` a severed connection is restored (`Unsever`), as the tests do, and
the anti-entropy thread and the handlers of requests run. In `ClusterStart` time
passes and all threads and the manager run. In `Grading` the script goes on, and
a program that masters a test writes its files and ends; one that does not may
crash or hang, and a left-over process need not do anything.

**Findings.** Three statements of the repository's documents are not true of the code:

* `chain_same_order`: a SET is forwarded on any free socket and each socket has a
  handler of its own, so two SETs of a key can be applied in different orders at
  two servers, and the replicas stay different. (`Linearizable` holds
  nevertheless: all reads go to the tail.)
* `chain_hang`: two setters race to build a pool, one finds it empty, its
  assertion ends the handler and with it the connection of the hop before. That
  socket goes back into the pool. Its second user makes `send` return `None`,
  then no server answers, and the client waits for ever.
* `bayou_lazy`: two threads find `_storage` to be `None`; the later assignment
  discards a storage in which a write was committed and acknowledged.

## 5. Theorems: what is proved for all constants

**`TcpClient_proofs`**, for any set of threads and any size of the pool:
`TypeCorrect`, `SocketExclusion`, `ReplyMatching`, and `Exhaustion` (with at most
`PoolSz` threads). The invariants are not inductive alone. `IInv` adds: what a
holder has is a connected socket, held by it alone and not free (`HoldInv`); the
free list has no duplicates (`FreeInv`); a socket that is still to be connected
does not exist yet, so it is neither free nor held, which is why a thread that
appends to another thread's list cannot put a socket into it twice (`NewInv`); and what is on a
stream belongs to the thread that waits for it (`StreamInv`). `Exhaustion`
counts: the free sockets, those held and those that some one thread is about to
connect are together never fewer than `PoolSz` (`CountInv`), on top of `IInv`.

**`ChainReplication_proofs`**: `TypeCorrect`, and `Linearizability`:
`Spec => KV!Spec` for any clients, keys, values, any chain of two or more and any
pool. `IInv` says where a call can be for each value of `pc` (`CallInv`), that it
holds a socket at each server it has passed (`HoldInv`), and that a list which is
used exists (`ListInv`). Then each step maps to a step of `KVRegister`: the
tail's write to `LinearizeSet`, the tail's read to `LinearizeGet`, a
failure to `Fail`, all others to a stutter. The essential fact is that the
dict of the tail changes only in `SetTail`, by a call still undecided.

*A lone setter*: `NeverRefused`
(`LoneSetterNeverFails`) and `ReplicasEqual` (`LoneReplicasAgree`). `LoneInv`
holds as long as at most one client has called SET: all connections are up
(`UpInv`); at every hop the free sockets, the one in use and those still to be
connected are together `PoolSz` once the list exists, so that a lone setter
never meets an empty list (`CountInv`); and every server has the data of the
tail, with the entry of the SET under way added where that has passed
(`DataInv`). The step in which a second client calls leaves the
condition, and nothing is claimed after it.

*The hops*: `Hopwise`, `Spec => HopsAreTcpClients`. `PoolInv` says that a socket
of a hop has one holder
(`HoldersInv`), that the free list has connected sockets that nobody holds, each
once (`FreeInv`), that what a handler will connect does not exist yet
(`NewInv`), and that a connection is up while the request on it is pending and
no longer so when the handler at its far end has raised (`FarInv`). It is
needed for the far end: that server i+1 gives an answer is a step on the one
socket of hop i that the request came on, with nothing else on its streams
(`StreamsStep`). A step of a call concerns the hop it is at and the hop it came
from, and no other (`StepHops`).

**`Framing_proofs`**, for any lengths of header and bodies, any cuts and any
number of calls: `Queues`, `Spec => QueuesOfMessages`, and `OwnReply`
(`ReplyOfThisCall`). The invariant says that an end which is open is `Quiet`
(nothing is under way to it) or `Streaming` one message m: what it has read of
m's present part, what is on the wire and what the peer has not handed over yet
are consecutive cuts of the bytes of m. That there is never a second message
behind it is `TurnInv`: client and server take turns, and when one end has gone
the other can only send into the void. A `recv` moves the first cut, a
`HandOver` the second; lemmas about cuts (`CutJoin`, `CutParts`, `Parsing`) say
that they add up and that what is parsed is what was serialized. The queue of
messages then takes a step exactly when m begins or is complete, and m is the
answer to the present call because the client is in a call whenever a message is
under way.

**`WordCount_proofs`**, for any mappers, reducers, streams and any kills and
restarts: `WellTyped`, and:
`NoEarlyExit` (`ExitOnlyAfterAllDone`) follows an EXIT back through its
carriers. A worker that has exited, an EXIT in a socket or a reducer's queue, a
started `exit_phase`, or EXITING in the phase queue each imply that all `is_done`
are set (`EndInv`). `ReadingComplete` (`ExitAfterReading`) follows DONE in the
same way as long as nothing failed: `is_done`, the datagram and `is_wc_done` each
imply that the stream has been read (`ReadInv`). `CountedOnce` (`ExactlyOnce`)
and `MapperLossless` (`NothingLost`) compare the bags of words with sets of places
in the streams (`CountInv`): what was counted, is queued or is on a connection
to a reducer that has not exited is, for every word, as often there as there are
places of that word that the mappers have passed, if nothing failed; and at least
as often as in the streams of the mappers that announced their end, if only
mappers were killed: a mapper that dies takes no sent word with it, and its
successor reads the file again from its start. Connections break only by the death
of a reducer. Of a reducer that has exited only the upper bound is claimed: EXIT
has a socket of its own and may overtake words, which are then lost (hazard at
`lab2/reducer.py`), but none is counted twice.

**`BayouStorage_proofs`**, about the clocks and what storages are built from, for
any number of servers: `TotalOrder`
(`LogicalTime.__lt__` is a strict total order), `PartialOrder`
(`is_vtime_earlier` is a partial order with the new vector at the bottom),
`AdvanceMonotone` (`advance` covers its write, and changes nothing else), and
lemmas: sorting a finite set of writes lists each once (`InOrderLists`), what is
selected from a log keeps its order (`UncoveredLists`), and `Apply` keeps a
storage sound (`ApplyKeeps`).

**`Bayou_proofs`**, for any number of servers, clients, appends, reads and severed
connections. *Without any condition* (`SoundInv`): every storage, vector,
request and answer consists of writes that were stamped, C covers just the
committed log and F all that is held. From it follow `TypesKept` (`TypeOK`),
`InvariantsKept` (`ChkInvariants`) and `NothingTwice` (`CommittedOnce`).
*As long as no `Storage` was replaced* (`AgreeInv`): the master alone commits, and
every committed log is the cut of the master's log that its C covers
(`PartOfLog`); every write that is held anywhere is held by the server that
stamped it (`Homes`); and a server whose F covers a write holds it (`Gapless`).
Requests and answers may be stale when they are used: they say what was true of a
smaller state, even when the two vectors of a request were read in different
states, and storages only grow (`AskedKept`, `AnsweredKept`). From it
follow `Agreement` (`CommittedAgree`), `VectorsTell` (`NoGaps`) and `ThreadsGoOn`
(`AntiEntropyGoesOn`). `AcksKept`
(`AckedKept`) has a hypothesis on the constants, `OneClientEach`: two handlers at one server may
apply their writes in another order than they stamped them, and the contract of
`apply` then skips the earlier one. The tests have one client at each server;
the lock of `Storage` does not enforce it (hazard at `app.py:70`).

**`ClusterStart_proofs`**: `WellTyped`, `StartUp` (`ThreadsSurvive`) and
`PoolsFilled` (`PoolsBuilt`), for any
servers, any topologies and any sleeps with `SleepAssumption`: the
anti-entropy thread sleeps longer than a server needs that is late twice, and
the others longer than anyone is late. The invariant bounds the time at which each thread
can still be where it is.

**`Grading_proofs`**, for any number of submissions. `Leftovers` (`LeftoversDie`)
and `Verdicts` (`OwnVerdict`): the invariant says which ages of processes can be
alive at each
point of the script, and that a file that is not of the present run was written by
a worker that escaped. `WellTyped`, and `FairMarks` (`ScoresAreEarned`): every test
that was passed has its children run, running or queued (`QueueInv`); what is
written in a run is right if the submission masters the test, and is there
before the time is over (`RunInv`), so that each verdict is the deserved one
(`ScoreInv`); and no test is harder than its children, so that one that is
mastered is reached along some path (`AllReached`). Two conditions are part of
the statement: no worker escaped since the submission was unpacked, and the
submission is not one that needs between 50 s and 200 s for a single failure.

Assumed are only the named assumptions on constants in the modules, which TLC
evaluates in the runs.

## 6. What is only model-checked, and what is left out

Liveness (`LoneServiced`, `JobEnds`, `FailureRepaired`,
`Converges`, `CallReturns`, `HandlerEnds`, `ComesUp`, `GradingEnds`) and everything
with fairness or `ENABLED` is beyond the prover and checked by TLC; the three
findings are TLC's counterexamples. What a
definition by induction over data computes (a fold, a bag's sum) cannot be proved
either. The proofs avoid it: in `Bayou` and `WordCount` the
model numbers or counts the members of finite sets, about which the library has
theorems, and `Grading` states its marks test by test and adds nothing up.
What remains an assumption about lab4 is the contract of the three bodies that the
repository leaves open.

Left out of the models:

* the death of a server of lab3: its README excludes failures; the non-blocking
  clients and `broadcast`, which nothing calls;
* lab2's checkpoints and recovery, whose handlers are empty: so counts can be too
  high after a restart and a reducer's counts are gone, which no property denies;
* lab2's wall-clock time: how long a process may take before an alarm restarts it
  is the constant `Suspected`;
* lab2's blocks of 1024 bytes: a message of a short word fits (hazard at
  `lab2/message.py:48`);
* lab4's two clients at one server: whether the write stamped first and applied
  last is lost or refused depends on the body of `Storage.apply` that the repository
  leaves open (hazard at `app.py:70`);
* what a `GET` of lab4 returns: `app.py` reads the committed and the tentative
  string without the lock of `Storage`, so it may fall between the steps of
  `apply`, whose body the repository leaves open; what such a reader may see cannot
  be stated before there is one (hazard at `app.py:76`);
* the totals of `lab2/evaluation/pivot.py`, which raises `KeyError` when none of
  the submissions ever ran one of its seven tests (the columns are indexed before they
  exist): `ScoresAreEarned` is about what `lab2_eval.py` writes to the log;
* the value of a key that was never set: 0 in `lcheck/main.go:51`, an exception in
  `cr_server.py:84`; the tests set every key first, and `KVRegister` lets such a
  GET fail;
* killing the processes at the end of a test, and what only prints: tables,
  logging;
* sequential scripts and examples, in which nothing is concurrent, kept or
  retried: lab1's `split_csv.py` and `serial.py`, lab2's generator and counter,
  lab4's `evaluate.py`, the demos on ray (pure tasks ordered by their
  arguments, or floating point) and `tf.py`;
* bodies left empty that nothing runs: lab1's worker, `lab3/craq`;
* JSON's text, and the contents of the streams in Redis.
