---------------------------- MODULE BlockingPool ----------------------------
(***************************************************************************)
(* The deterministic blocking pool of msim (task/blocking.rs) and the part *)
(* of the executor loop that drives it (task.rs, block_on).                *)
(*                                                                         *)
(* spawn_blocking closures run on OS threads.  A mutex-protected `turn`    *)
(* says who may run: the main executor thread grants a turn to one pool    *)
(* thread, waits until the turn is Idle again, and grants the next one.    *)
(* Every critical section of the mutex is one step here; waiting on a      *)
(* condition variable is the guard of the step that follows the wait,      *)
(* because the source re-checks its predicate under the mutex in a loop.   *)
(*                                                                         *)
(* A TaskInfo is a node and the number of its incarnation: TaskHandle's    *)
(* kill replaces the node's TaskInfo by a fresh one and marks the old one  *)
(* killed, so an incarnation is killed iff its number is below inc[n].     *)
(* restart and delete_node act on the pool through that same kill.         *)
(***************************************************************************)
EXTENDS Naturals, FiniteSets

CONSTANTS
  Jobs,        \* blocking closures that may be submitted, each at most once
  NoJob,       \* the None of Option<TaskInfo>
  Nodes,       \* simulated nodes
  NumThreads,  \* size of the pool (MSIM_BLOCKING_THREADS)
  MaxInc,      \* bound: incarnations a node goes through
  EnterNode    \* whether closures call NodeHandle::enter_node for another node

ASSUME PoolAssumption ==
  /\ NoJob \notin Jobs
  /\ Nodes # {}
  /\ NumThreads \in Nat \ {0}
  /\ MaxInc \in Nat
  /\ EnterNode \in BOOLEAN

Threads == 1 .. NumThreads

VARIABLES
  \* nodes
  inc,              \* inc[n]: incarnation of n in TaskHandle.nodes
  paused,           \* paused[n]: incarnations of n whose TaskInfo is paused
  \* jobs
  node, born,       \* TaskInfo of each job: node and incarnation
  job,              \* stage of each job's life
  queue,            \* PoolShared.queue; a set, since it is popped at random
  \* QuantumState
  turn,
  current,          \* current[i]: job thread i executes or is parked in
  abort_requested,  \* threads whose abort flag is set
  dequeued,
  pending_panics,   \* jobs whose kill_current_node panic awaits the main loop
  \* control
  tpc,              \* where each pool thread is
  mpc,              \* where the main thread is
  order,            \* candidates of the wake round still to be offered a turn
  restarts          \* jobs whose panic reached handle_task_panic

nodeVars == <<inc, paused>>
jobVars  == <<node, born, job, queue>>
quantum  == <<turn, current, abort_requested, dequeued, pending_panics>>
mainVars == <<mpc, order, restarts>>
vars == <<inc, paused, node, born, job, queue, turn, current, abort_requested,
          dequeued, pending_panics, tpc, mpc, order, restarts>>

Idle     == [kind |-> "Idle", who |-> 0]
Run(i)   == [kind |-> "Run", who |-> i]
Abort(i) == [kind |-> "Abort", who |-> i]
Shutdown == [kind |-> "Shutdown", who |-> 0]
Turn == {Idle, Shutdown} \cup {Run(i) : i \in Threads} \cup {Abort(i) : i \in Threads}

JobStage == {"new", "queued", "running", "done", "dropped", "aborted",
             "panicked", "torn"}

(***************************************************************************)
(* Places of a pool thread: unborn (not spawned yet), top (wait_turn at    *)
(* the top of its loop), run (about to dequeue), body (inside the          *)
(* closure), parked (wait_turn inside yield_turn), panicking (unwinding    *)
(* after kill_current_node), drop (running Drop impls of a killed or       *)
(* aborted job), end (about to end its turn), exited.                      *)
(***************************************************************************)
ThreadPlace == {"unborn", "top", "run", "body", "parked", "panicking", "drop",
                "end", "exited"}
UserPlace   == {"body", "panicking", "drop"}
ActivePlace == UserPlace \cup {"run", "end"}

\* poll: run_all_ready and the main future; grant: the loop over `order`;
\* wait: main_cv; down: in BlockingPool::shutdown.
MainPlace == {"poll", "grant", "wait", "down"}

Killed(j) == born[j] < inc[node[j]]
Paused(j) == born[j] \in paused[node[j]]

Init ==
  /\ inc = [n \in Nodes |-> 0]
  /\ paused = [n \in Nodes |-> {}]
  /\ node = [j \in Jobs |-> CHOOSE n \in Nodes : TRUE]
  /\ born = [j \in Jobs |-> 0]
  /\ job = [j \in Jobs |-> "new"]
  /\ queue = {}
  /\ turn = Idle
  /\ current = [i \in Threads |-> NoJob]
  /\ abort_requested = {}
  /\ dequeued = 0
  /\ pending_panics = {}
  /\ tpc = [i \in Threads |-> "unborn"]
  /\ mpc = "poll"
  /\ order = {}
  /\ restarts = {}

-----------------------------------------------------------------------------
(* Calls into the simulator.  Async tasks (on the main thread, in poll),    *)
(* closures and Drop impls (on a pool thread) all may make them.            *)

UserCode == mpc = "poll" \/ \E i \in Threads : tpc[i] \in UserPlace

\* submit_blocking / BlockingPool::spawn for incarnation k of n: the current
\* one, or an old one through a NodeHandle obtained before a kill.
Spawn(j, n, k) ==
  /\ UserCode
  /\ job[j] = "new"
  /\ k <= inc[n]
  /\ node' = [node EXCEPT ![j] = n]
  /\ born' = [born EXCEPT ![j] = k]
  /\ job' = [job EXCEPT ![j] = "queued"]
  /\ queue' = queue \cup {j}
  /\ UNCHANGED <<nodeVars, quantum, tpc, mainVars>>

\* Mutant: the node is not compared.
RequestAbortEveryone(n) ==
  abort_requested \cup {i \in Threads : current[i] # NoJob}

\* abort_requested after request_abort_node(n).
RequestAbortNode(n) ==
  abort_requested \cup
    {i \in Threads : current[i] # NoJob /\ node[current[i]] = n}

\* TaskHandle::kill (also the first half of restart and delete_node).
KillEffect(n) ==
  /\ inc[n] < MaxInc
  /\ inc' = [inc EXCEPT ![n] = @ + 1]
  /\ abort_requested' = RequestAbortNode(n)

Kill(n) ==
  /\ UserCode
  /\ KillEffect(n)
  /\ UNCHANGED <<paused, jobVars, turn, current, dequeued, pending_panics, tpc,
                 mainVars>>

Pause(n) ==
  /\ UserCode
  /\ paused' = [paused EXCEPT ![n] = @ \cup {inc[n]}]
  /\ UNCHANGED <<inc, jobVars, quantum, tpc, mainVars>>

Resume(n) ==
  /\ UserCode
  /\ paused' = [paused EXCEPT ![n] = @ \ {inc[n]}]
  /\ UNCHANGED <<inc, jobVars, quantum, tpc, mainVars>>

-----------------------------------------------------------------------------
(* Pool threads.                                                            *)

MyTurn(i) == turn \in {Run(i), Abort(i), Shutdown}

\* wait_turn returns at the top of run_blocking_thread's loop.
TopTurn(i) ==
  /\ tpc[i] = "top" /\ MyTurn(i)
  /\ tpc' = [tpc EXCEPT ![i] = CASE turn = Shutdown -> "exited"
                                 [] turn = Run(i)   -> "run"
                                 [] turn = Abort(i) -> "end"]
  /\ UNCHANGED <<nodeVars, jobVars, quantum, mainVars>>

\* run_one finds a job: a Run turn goes to an idle thread only while the queue has
\* one, and nobody else takes it before that turn ends.  (Its early return for an
\* empty queue never happens; were it to, the model would deadlock here.)

\* run_one: the job's incarnation was killed; its closure is dropped unrun.
RunOneKilled(i, j) ==
  /\ tpc[i] = "run" /\ j \in queue /\ Killed(j)
  /\ queue' = queue \ {j}
  /\ job' = [job EXCEPT ![j] = "dropped"]
  /\ dequeued' = dequeued + 1
  /\ current' = [current EXCEPT ![i] = NoJob]
  /\ tpc' = [tpc EXCEPT ![i] = "drop"]
  /\ UNCHANGED <<nodeVars, node, born, turn, abort_requested, pending_panics,
                 mainVars>>

\* Mutant: the paused job is not sent back to the queue.
RunOnePausedLost(i, j) ==
  /\ tpc[i] = "run" /\ j \in queue /\ ~Killed(j) /\ Paused(j)
  /\ queue' = queue \ {j}
  /\ tpc' = [tpc EXCEPT ![i] = "end"]
  /\ UNCHANGED <<nodeVars, node, born, job, quantum, mainVars>>

\* run_one: the job is paused; it goes back to the queue, not counted.
RunOnePaused(i, j) ==
  /\ tpc[i] = "run" /\ j \in queue /\ ~Killed(j) /\ Paused(j)
  /\ tpc' = [tpc EXCEPT ![i] = "end"]
  /\ UNCHANGED <<nodeVars, jobVars, quantum, mainVars>>

\* Mutant: the closure is entered without looking at is_killed.
RunOneStartKilled(i, j) ==
  /\ tpc[i] = "run" /\ j \in queue /\ ~Paused(j)
  /\ queue' = queue \ {j}
  /\ job' = [job EXCEPT ![j] = "running"]
  /\ dequeued' = dequeued + 1
  /\ current' = [current EXCEPT ![i] = j]
  /\ tpc' = [tpc EXCEPT ![i] = "body"]
  /\ UNCHANGED <<nodeVars, node, born, turn, abort_requested, pending_panics,
                 mainVars>>

\* run_one: the job becomes current and its closure is entered.
RunOneStart(i, j) ==
  /\ tpc[i] = "run" /\ j \in queue /\ ~Killed(j) /\ ~Paused(j)
  /\ queue' = queue \ {j}
  /\ job' = [job EXCEPT ![j] = "running"]
  /\ dequeued' = dequeued + 1
  /\ current' = [current EXCEPT ![i] = j]
  /\ tpc' = [tpc EXCEPT ![i] = "body"]
  /\ UNCHANGED <<nodeVars, node, born, turn, abort_requested, pending_panics,
                 mainVars>>

\* Mutant: end_turn forgets Shutdown.
EndedTurnIdle == Idle

\* The turn after end_turn.
EndedTurn == IF turn = Shutdown THEN Shutdown ELSE Idle

\* yield_blocking: give the turn up in the middle of the closure.
Yield(i) ==
  /\ tpc[i] = "body"
  /\ turn' = EndedTurn
  /\ tpc' = [tpc EXCEPT ![i] = "parked"]
  /\ UNCHANGED <<nodeVars, jobVars, current, abort_requested, dequeued,
                 pending_panics, mainVars>>

\* yield_turn returns: the closure goes on.
YieldRun(i) ==
  /\ tpc[i] = "parked" /\ turn = Run(i)
  /\ tpc' = [tpc EXCEPT ![i] = "body"]
  /\ UNCHANGED <<nodeVars, jobVars, quantum, mainVars>>

\* yield_turn unwinds the closure: its node was killed, or the pool shuts down.
YieldUnwind(i) ==
  /\ tpc[i] = "parked" /\ turn \in {Abort(i), Shutdown}
  /\ current' = [current EXCEPT ![i] = NoJob]
  /\ job' = [job EXCEPT ![current[i]] =
               IF turn = Shutdown THEN "torn" ELSE "aborted"]
  /\ tpc' = [tpc EXCEPT ![i] = "drop"]
  /\ UNCHANGED <<nodeVars, node, born, queue, turn, abort_requested, dequeued,
                 pending_panics, mainVars>>

\* The closure returns, or panics with a payload its result channel forwards;
\* then note_complete.
Complete(i) ==
  /\ tpc[i] = "body"
  /\ job' = [job EXCEPT ![current[i]] = "done"]
  /\ current' = [current EXCEPT ![i] = NoJob]
  /\ abort_requested' = abort_requested \ {i}
  /\ tpc' = [tpc EXCEPT ![i] = "end"]
  /\ UNCHANGED <<nodeVars, node, born, queue, turn, dequeued, pending_panics,
                 mainVars>>

\* kill_current_node: kills the node of the entered task, then panics.
KillCurrentNode(i, n) ==
  /\ tpc[i] = "body"
  /\ n = node[current[i]] \/ EnterNode
  /\ KillEffect(n)
  /\ tpc' = [tpc EXCEPT ![i] = "panicking"]
  /\ UNCHANGED <<paused, jobVars, turn, current, dequeued, pending_panics,
                 mainVars>>

\* The thread loop catches that panic.
CatchPanic(i) ==
  /\ tpc[i] = "panicking"
  /\ job' = [job EXCEPT ![current[i]] = "panicked"]
  /\ pending_panics' = pending_panics \cup {current[i]}
  /\ current' = [current EXCEPT ![i] = NoJob]
  /\ abort_requested' = abort_requested \ {i}
  /\ tpc' = [tpc EXCEPT ![i] = "end"]
  /\ UNCHANGED <<nodeVars, node, born, queue, turn, dequeued, mainVars>>

Dropped(i) ==
  /\ tpc[i] = "drop"
  /\ tpc' = [tpc EXCEPT ![i] = "end"]
  /\ UNCHANGED <<nodeVars, jobVars, quantum, mainVars>>

EndTurn(i) ==
  /\ tpc[i] = "end"
  /\ turn' = EndedTurn
  /\ tpc' = [tpc EXCEPT ![i] = "top"]
  /\ UNCHANGED <<nodeVars, jobVars, current, abort_requested, dequeued,
                 pending_panics, mainVars>>

ThreadStep(i) ==
  \/ TopTurn(i)
  \/ \E j \in Jobs : RunOneKilled(i, j) \/ RunOnePaused(i, j) \/ RunOneStart(i, j)
  \/ Yield(i) \/ YieldRun(i) \/ YieldUnwind(i) \/ Complete(i)
  \/ \E n \in Nodes : KillCurrentNode(i, n)
  \/ CatchPanic(i) \/ Dropped(i) \/ EndTurn(i)

-----------------------------------------------------------------------------
(* The main thread.                                                         *)

Started == \E i \in Threads : tpc[i] # "unborn"

IdleThreads == {i \in Threads : i \notin abort_requested /\ current[i] = NoJob}

\* Mutant: a pending abort does not make its thread a candidate.
CandidatesWithoutAborts ==
  {i \in Threads :
     \/ current[i] # NoJob /\ ~Paused(current[i])
     \/ /\ i \in IdleThreads
        /\ Cardinality({k \in IdleThreads : k < i}) < Cardinality(queue)}

\* Threads with a pending abort or an unpaused parked task, and the first idle
\* threads, one for each queued job.
Candidates ==
  {i \in Threads :
     \/ i \in abort_requested
     \/ current[i] # NoJob /\ ~Paused(current[i])
     \/ /\ i \in IdleThreads
        /\ Cardinality({k \in IdleThreads : k < i}) < Cardinality(queue)}

\* wake_round up to the loop over its candidates, with ensure_started.
WakeRound ==
  /\ mpc = "poll"
  /\ Started \/ queue # {}
  /\ tpc' = IF Started THEN tpc ELSE [i \in Threads |-> "top"]
  /\ Candidates # {}
  /\ order' = Candidates
  /\ dequeued' = 0
  /\ mpc' = "grant"
  /\ UNCHANGED <<nodeVars, jobVars, turn, current, abort_requested,
                 pending_panics, restarts>>

\* Mutant: the panics are taken and not handled.
TakePanicsLost ==
  /\ pending_panics' = {}
  /\ UNCHANGED restarts

\* The panics of the round are handed to handle_task_panic.
TakePanics ==
  /\ restarts' = restarts \cup pending_panics
  /\ pending_panics' = {}

\* wake_round returns early: nobody can use a turn.
WakeNobody ==
  /\ mpc = "poll"
  /\ Started /\ Candidates = {}
  /\ TakePanics
  /\ UNCHANGED <<nodeVars, jobVars, turn, current, abort_requested, dequeued,
                 tpc, mpc, order>>

\* The turn offered to candidate i, or Idle if it is skipped.
Offer(i) ==
  CASE i \in abort_requested -> Abort(i)
    [] i \notin abort_requested /\ current[i] # NoJob ->
         IF Paused(current[i]) THEN Idle ELSE Run(i)
    [] i \notin abort_requested /\ current[i] = NoJob ->
         IF queue = {} THEN Idle ELSE Run(i)

Grant(i) ==
  /\ mpc = "grant" /\ i \in order
  /\ order' = order \ {i}
  /\ turn' = Offer(i)
  /\ abort_requested' = abort_requested \ {i}
  /\ mpc' = IF Offer(i) = Idle THEN "grant" ELSE "wait"
  /\ UNCHANGED <<nodeVars, jobVars, current, dequeued, pending_panics, tpc,
                 restarts>>

\* Mutant: a plain wait instead of wait_while, which may return early.
GrantedEarly ==
  /\ mpc = "wait"
  /\ mpc' = "grant"
  /\ UNCHANGED <<nodeVars, jobVars, quantum, tpc, order, restarts>>

\* main_cv: the granted turn has ended.
Granted ==
  /\ mpc = "wait" /\ turn = Idle
  /\ mpc' = "grant"
  /\ UNCHANGED <<nodeVars, jobVars, quantum, tpc, order, restarts>>

\* The round's statistics are returned to block_on.
RoundEnd ==
  /\ mpc = "grant" /\ order = {}
  /\ TakePanics
  /\ mpc' = "poll"
  /\ UNCHANGED <<nodeVars, jobVars, turn, current, abort_requested, dequeued,
                 tpc, order>>

\* block_on has returned or panicked; Executor::drop shuts the pool down.
ShutdownPool ==
  /\ mpc = "poll"
  /\ mpc' = "down"
  /\ turn' = IF Started THEN Shutdown ELSE turn
  /\ UNCHANGED <<nodeVars, jobVars, current, abort_requested, dequeued,
                 pending_panics, tpc, order, restarts>>

Joined == mpc = "down" /\ \A i \in Threads : tpc[i] \in {"unborn", "exited"}

\* PoolShared::drop: the jobs that never ran are dropped after the join.
DrainQueue(j) ==
  /\ Joined /\ j \in queue
  /\ queue' = queue \ {j}
  /\ job' = [job EXCEPT ![j] = "torn"]
  /\ UNCHANGED <<nodeVars, node, born, quantum, tpc, mainVars>>

MainStep ==
  \/ WakeRound \/ WakeNobody \/ (\E i \in Threads : Grant(i))
  \/ Granted \/ RoundEnd \/ ShutdownPool
  \/ \E j \in Jobs : DrainQueue(j)

\* The simulation is over.
Terminated == Joined /\ queue = {} /\ UNCHANGED vars

Next ==
  \/ \E j \in Jobs, n \in Nodes, k \in 0 .. MaxInc : Spawn(j, n, k)
  \/ \E n \in Nodes : Kill(n) \/ Pause(n) \/ Resume(n)
  \/ \E i \in Threads : ThreadStep(i)
  \/ MainStep
  \/ Terminated

Spec == Init /\ [][Next]_vars

(***************************************************************************)
(* block_on goes from run_all_ready to wake_round in every iteration, the  *)
(* OS schedules every thread that is not waiting, and a closure eventually *)
(* returns, yields or panics (the pool's contract: a closure that blocks   *)
(* its OS thread hangs the simulator).                                     *)
(***************************************************************************)
Fairness == WF_vars(MainStep) /\ \A i \in Threads : WF_vars(ThreadStep(i))

FairSpec == Spec /\ Fairness

-----------------------------------------------------------------------------
(* Properties.                                                              *)

\* Type correctness of the pool's state.
TypeOK ==
  /\ inc \in [Nodes -> 0 .. MaxInc]
  /\ paused \in [Nodes -> SUBSET (0 .. MaxInc)]
  /\ node \in [Jobs -> Nodes]
  /\ born \in [Jobs -> 0 .. MaxInc]
  /\ job \in [Jobs -> JobStage]
  /\ queue \in SUBSET Jobs
  /\ turn \in Turn
  /\ current \in [Threads -> Jobs \cup {NoJob}]
  /\ abort_requested \in SUBSET Threads
  /\ dequeued \in Nat
  /\ pending_panics \in SUBSET Jobs
  /\ tpc \in [Threads -> ThreadPlace]
  /\ mpc \in MainPlace
  /\ order \in SUBSET Threads
  /\ restarts \in SUBSET Jobs

Active(i) == tpc[i] \in ActivePlace

\* The module doc of blocking.rs: at most one thread of the simulator, the main
\* thread or one pool thread, is running at any moment (until the teardown,
\* which is documented as concurrent and runs Drop impls only).
OneRunner ==
  /\ turn # Shutdown =>
       \A i \in Threads : Active(i) =>
         mpc = "wait" /\ \A k \in Threads \ {i} : ~Active(k)
  /\ turn = Shutdown => \A i \in Threads : tpc[i] \notin {"run", "body", "panicking"}

\* A deferred abort (request_abort_node) hits the killed job it was meant for
\* and never a later job of the same thread; the abort turn reaches a thread
\* parked in yield_turn and never one at the top of its loop
\* (run_blocking_thread: "aborts are only delivered to parked mid-task threads").
AbortsHitTheirTarget ==
  \A i \in Threads :
    /\ i \in abort_requested /\ turn # Shutdown =>
         current[i] # NoJob /\ Killed(current[i])
    /\ turn = Abort(i) /\ ~Active(i) =>
         tpc[i] = "parked" /\ Killed(current[i])

\* A closure whose result channel is dropped without a result belongs to a
\* killed incarnation, so the task in await_blocking that waits for it is never
\* polled again and its `unreachable!` is not reached.
LostResultMeansKilled ==
  \A j \in Jobs : job[j] \in {"dropped", "aborted", "panicked"} => Killed(j)

\* Every submitted job is in exactly one place: in the queue, on one thread, or
\* finished; requeueing, aborting and unwinding neither lose nor copy one.
JobsConserved ==
  /\ \A j \in Jobs : j \in queue <=> job[j] = "queued"
  /\ \A j \in Jobs : job[j] = "running" <=> \E i \in Threads : current[i] = j
  /\ \A i, k \in Threads : current[i] = current[k] /\ current[i] # NoJob => i = k

\* A kill_current_node panic that escapes a closure has been handed to the main
\* loop, which schedules the restart, before the next tasks are polled.
PanicsDelivered ==
  mpc = "poll" => \A j \in Jobs : job[j] = "panicked" => j \in restarts

\* A closure parked at a yield point is never resumed after its incarnation was
\* killed, whoever killed it and wherever the wake round was at that moment.
KilledNeverResumed ==
  [][\A i \in Threads :
       tpc[i] = "parked" /\ tpc'[i] = "body" => ~Killed(current[i])]_vars

\* kill(): "in-flight blocking tasks of this node unwind at their next yield
\* point": a killed closure does not stay parked.
KilledUnwinds ==
  \A j \in Jobs : (job[j] = "running" /\ Killed(j)) ~> (job[j] # "running")

\* BlockingPool::shutdown joins every thread, and no job is left behind.
ShutdownJoins ==
  (mpc = "down") ~> (Joined /\ \A j \in Jobs : job[j] \notin {"queued", "running"})

-----------------------------------------------------------------------------
(* Refinement.                                                              *)

ServiceStatus(j) ==
  CASE job[j] \in {"new", "queued", "done"} -> job[j]
    [] job[j] = "running" ->
         IF \E i \in Threads : current[i] = j /\ tpc[i] = "parked"
         THEN "waiting" ELSE "running"
    [] OTHER -> "cancelled"

Service == INSTANCE BlockingService WITH
  status <- [j \in Jobs |-> ServiceStatus(j)],
  open   <- mpc # "down"

\* The pool implements the service spawn_blocking promises: one job at a time,
\* only for live incarnations, results lost only by a kill or the teardown.
ServiceSpec == Service!Spec
=============================================================================
