------------------------------ MODULE Executor ------------------------------
(***************************************************************************)
(* The single-threaded executor of msim (task.rs): nodes and their         *)
(* incarnations, the ready queue, run_all_ready, kill / restart / pause /  *)
(* resume / create / delete, kill_current_node, and graceful shutdown.     *)
(*                                                                         *)
(* An incarnation of a node is a TaskInfo; it is named by the node and a   *)
(* number, and it is killed iff a later one exists (kill replaces the      *)
(* node's TaskInfo and sets `killed` on the old one).  The flags of an old *)
(* TaskInfo are never read after its `killed` flag, so paused and          *)
(* polls_left are kept for the current incarnation only.                   *)
(*                                                                         *)
(* The main task (node 0) is never killed or paused; its calls into the    *)
(* simulator, those of the tasks and those of blocking closures are the    *)
(* same actions.  Sim time is abstracted to which graceful-shutdown        *)
(* deadlines have passed.                                                  *)
(***************************************************************************)
EXTENDS Naturals, FiniteSets

CONSTANTS
  Nodes,      \* node ids that create_node hands out
  Tasks,      \* async tasks that may be spawned, each at most once
  MaxInc,     \* bound: incarnations a node goes through
  MaxBudget,  \* bound: largest poll budget of a graceful shutdown
  EnterNode   \* whether tasks use await_future_in_node for another node

ASSUME ExecutorAssumption ==
  /\ Nodes # {}
  /\ MaxInc \in Nat /\ MaxBudget \in Nat
  /\ EnterNode \in BOOLEAN

VARIABLES
  exists,         \* keys of TaskHandle.nodes
  inc,            \* incarnation in Node.info (kept after a delete)
  paused,         \* nodes whose current TaskInfo is paused
  polls_left,     \* shutdown_polls_left of the current TaskInfo
  shutting_down,  \* TaskHandle.shutting_down: <<node, incarnation>>
  overdue,        \* those whose deadline is <= now
  revive,         \* those with restart_after = Some(_)
  tnode, tinc,    \* TaskInfo a task was spawned with
  qinc,           \* incarnation attached to the task's entry in the queue
  place,          \* where the task's runnable or future is
  aborted,        \* tasks whose JoinHandle / AbortHandle was aborted
  restarts,       \* restarts[n]: restart timers pending for n
  mpc             \* place of block_on

vars == <<exists, inc, paused, polls_left, shutting_down, overdue, revive, tnode,
          tinc, qinc, place, aborted, restarts, mpc>>
nodeVars == <<exists, inc, paused, polls_left, shutting_down, overdue, revive, restarts>>
taskVars == <<tnode, tinc, qinc, place, aborted>>

NotShuttingDown == MaxBudget + 1    \* usize::MAX

Infos == Nodes \X (0 .. MaxInc)
\* new; ready: in the executor's queue; running: being polled; idle: waits for a
\* waker; parked: in Node.paused; done; dropped before it finished.
Places == {"new", "ready", "running", "idle", "parked", "done", "dropped"}

Killed(n, k) == k < inc[n]
Current(n) == <<n, inc[n]>>
OwnKilled(t) == Killed(tnode[t], tinc[t])

Init ==
  /\ exists = {}
  /\ inc = [n \in Nodes |-> 0]
  /\ paused = {}
  /\ polls_left = [n \in Nodes |-> NotShuttingDown]
  /\ shutting_down = {} /\ overdue = {} /\ revive = {}
  /\ tnode = [t \in Tasks |-> CHOOSE n \in Nodes : TRUE]
  /\ tinc = [t \in Tasks |-> 0]
  /\ qinc = [t \in Tasks |-> 0]
  /\ place = [t \in Tasks |-> "new"]
  /\ aborted = {}
  /\ restarts = [n \in Nodes |-> 0]
  /\ mpc = "drain"

NoneRunning == \A t \in Tasks : place[t] # "running"

\* Code of the program under test runs while the queue is drained (a task, or
\* the main task between two of them) and in the wake round (closures).
UserCode == mpc \in {"drain", "rest"}

-----------------------------------------------------------------------------
(* kill and the operations built on it.                                     *)

\* Mutant: kill does not clear Node.paused.
PlaceKeepsParked(S) ==
  [t \in Tasks |-> IF tnode[t] \in S /\ place[t] = "idle" THEN "ready" ELSE place[t]]

\* Mutant: kill does not wake the tasks that wait.
PlaceNotWoken(S) ==
  [t \in Tasks |-> IF tnode[t] \in S /\ place[t] = "parked" THEN "dropped" ELSE place[t]]

\* Where the tasks are after TaskHandle::kill of the nodes S: Node.paused is
\* cleared, and the `killed` watch wakes every task that waits.
PlaceAfterKill(S) ==
  [t \in Tasks |->
     IF tnode[t] \in S
     THEN CASE place[t] = "parked" -> "dropped"
            [] place[t] = "idle"   -> "ready"
            [] OTHER               -> place[t]
     ELSE place[t]]

\* TaskHandle::kill of every node in S; P is the resulting `place`.
KillNodes(S, P) ==
  /\ S \subseteq exists
  /\ \A n \in S : inc[n] < MaxInc
  /\ inc' = [n \in Nodes |-> IF n \in S THEN inc[n] + 1 ELSE inc[n]]
  /\ paused' = paused \ S
  /\ polls_left' = [n \in Nodes |-> IF n \in S THEN NotShuttingDown ELSE polls_left[n]]
  /\ place' = P

Kill(n) ==
  /\ UserCode
  /\ KillNodes({n}, PlaceAfterKill({n}))
  /\ UNCHANGED <<exists, shutting_down, overdue, revive, tnode, tinc, qinc,
                 aborted, restarts, mpc>>

\* restart: kill, then the init function spawns its task T (or there is none).
RestartNode(n, T) ==
  /\ KillNodes({n}, [t \in Tasks |-> IF t \in T THEN "ready" ELSE PlaceAfterKill({n})[t]])
  /\ \A t \in T : place[t] = "new"
  /\ tnode' = [t \in Tasks |-> IF t \in T THEN n ELSE tnode[t]]
  /\ tinc' = [t \in Tasks |-> IF t \in T THEN inc[n] + 1 ELSE tinc[t]]
  /\ qinc' = [t \in Tasks |-> IF t \in T THEN inc[n] + 1 ELSE qinc[t]]
  /\ UNCHANGED <<exists, shutting_down, overdue, revive, aborted, mpc>>

InitTask == {{}} \cup {{t} : t \in Tasks}

Restart(n, T) ==
  /\ UserCode
  /\ RestartNode(n, T)
  /\ UNCHANGED restarts

DeleteNode(n) ==
  /\ UserCode
  /\ KillNodes({n}, PlaceAfterKill({n}))
  /\ exists' = exists \ {n}
  /\ UNCHANGED <<shutting_down, overdue, revive, tnode, tinc, qinc, aborted,
                 restarts, mpc>>

\* create_node: ids are never reused.
CreateNode(n, T) ==
  /\ UserCode
  /\ n \notin exists /\ inc[n] = 0
  /\ \A t \in T : place[t] = "new"
  /\ exists' = exists \cup {n}
  /\ tnode' = [t \in Tasks |-> IF t \in T THEN n ELSE tnode[t]]
  /\ tinc' = [t \in Tasks |-> IF t \in T THEN 0 ELSE tinc[t]]
  /\ qinc' = [t \in Tasks |-> IF t \in T THEN 0 ELSE qinc[t]]
  /\ place' = [t \in Tasks |-> IF t \in T THEN "ready" ELSE place[t]]
  /\ UNCHANGED <<inc, paused, polls_left, shutting_down, overdue, revive, aborted,
                 restarts, mpc>>

Pause(n) ==
  /\ UserCode /\ n \in exists
  /\ paused' = paused \cup {n}
  /\ UNCHANGED <<exists, inc, polls_left, shutting_down, overdue, revive, restarts,
                 taskVars, mpc>>

\* resume: the parked runnables go back to the queue under the node's current
\* TaskInfo.
Resume(n) ==
  /\ UserCode /\ n \in exists
  /\ paused' = paused \ {n}
  /\ LET back == {t \in Tasks : place[t] = "parked" /\ tnode[t] = n}
     IN  /\ place' = [t \in Tasks |-> IF t \in back THEN "ready" ELSE place[t]]
         /\ qinc' = [t \in Tasks |-> IF t \in back THEN inc[n] ELSE qinc[t]]
  /\ UNCHANGED <<exists, inc, polls_left, shutting_down, overdue, revive, restarts,
                 tnode, tinc, aborted, mpc>>

\* spawn_local on a TaskNodeHandle for incarnation k of n, which may be an old
\* one (a NodeHandle from before a kill).
Spawn(t, n, k) ==
  /\ UserCode
  /\ place[t] = "new" /\ k <= inc[n] /\ (n \in exists \/ k < inc[n])
  /\ tnode' = [tnode EXCEPT ![t] = n]
  /\ tinc' = [tinc EXCEPT ![t] = k]
  /\ qinc' = [qinc EXCEPT ![t] = k]
  /\ place' = [place EXCEPT ![t] = "ready"]
  /\ UNCHANGED <<nodeVars, aborted, mpc>>

\* A waker of t is called: by another task, a timer, or a message.
Wake(t) ==
  /\ UserCode
  /\ place[t] = "idle"
  /\ place' = [place EXCEPT ![t] = "ready"]
  /\ qinc' = [qinc EXCEPT ![t] = tinc[t]]
  /\ UNCHANGED <<nodeVars, tnode, tinc, aborted, mpc>>

\* JoinHandle::abort / AbortHandle::abort cancels the task; a waiting one is
\* scheduled once more so that the executor drops its future.
AbortTask(t) ==
  /\ UserCode
  /\ place[t] \in {"ready", "running", "idle", "parked"} /\ t \notin aborted
  /\ aborted' = aborted \cup {t}
  /\ place' = [place EXCEPT ![t] = IF @ = "idle" THEN "ready" ELSE @]
  /\ qinc' = [qinc EXCEPT ![t] = IF place[t] = "idle" THEN tinc[t] ELSE @]
  /\ UNCHANGED <<nodeVars, tnode, tinc, mpc>>

\* begin_graceful_shutdown(n, restart_after, poll_budget, max_duration).
BeginGracefulShutdown(n, b, r) ==
  /\ UserCode /\ n \in exists /\ inc[n] < MaxInc
  /\ polls_left[n] = NotShuttingDown
  /\ polls_left' = [polls_left EXCEPT ![n] = b]
  /\ shutting_down' = shutting_down \cup {Current(n)}
  /\ revive' = IF r THEN revive \cup {Current(n)} ELSE revive
  /\ UNCHANGED <<exists, inc, paused, overdue, restarts, taskVars, mpc>>

\* Sim time reaches the deadline of a graceful shutdown.
DeadlinePasses(i) ==
  /\ UserCode
  /\ i \in shutting_down \ overdue
  /\ overdue' = overdue \cup {i}
  /\ UNCHANGED <<exists, inc, paused, polls_left, shutting_down, revive, restarts,
                 taskVars, mpc>>

UserCall ==
  \/ \E n \in Nodes : Kill(n) \/ DeleteNode(n) \/ Pause(n) \/ Resume(n)
  \/ \E n \in Nodes, T \in InitTask : Restart(n, T) \/ CreateNode(n, T)
  \/ \E t \in Tasks : Wake(t) \/ AbortTask(t)
  \/ \E t \in Tasks, n \in Nodes, k \in 0 .. MaxInc : Spawn(t, n, k)
  \/ \E n \in Nodes, b \in 0 .. MaxBudget, r \in BOOLEAN : BeginGracefulShutdown(n, b, r)
  \/ \E i \in Infos : DeadlinePasses(i)

-----------------------------------------------------------------------------
(* run_all_ready: one random entry at a time.                               *)

Pop(t) == mpc = "drain" /\ NoneRunning /\ place[t] = "ready"

\* Mutant: the killed flag of the entry is not looked at.
EntryTrusted(t) == FALSE

EntryKilled(t) == Killed(tnode[t], qinc[t])

\* The entry's TaskInfo is killed: enter the task and drop it.
PopKilled(t) ==
  /\ Pop(t) /\ EntryKilled(t)
  /\ place' = [place EXCEPT ![t] = "dropped"]
  /\ UNCHANGED <<nodeVars, tnode, tinc, qinc, aborted, mpc>>

\* The entry's TaskInfo is paused: the runnable is pushed to Node.paused.
PopPaused(t) ==
  /\ Pop(t) /\ ~EntryKilled(t) /\ tnode[t] \in paused
  /\ place' = [place EXCEPT ![t] = "parked"]
  /\ UNCHANGED <<nodeVars, tnode, tinc, qinc, aborted, mpc>>

ScheduleRestart(n, r) == restarts' = [restarts EXCEPT ![n] = IF r THEN @ + 1 ELSE @]

\* finish_graceful_shutdown drops the entries I of shutting_down.
ForgetShutdowns(I) ==
  /\ shutting_down' = shutting_down \ I
  /\ overdue' = overdue \ I
  /\ revive' = revive \ I

\* The poll budget of a graceful shutdown is spent: finish_graceful_shutdown,
\* and the runnable is dropped in its own context.
PopBudgetSpent(t) ==
  LET n == tnode[t] IN
  /\ Pop(t) /\ ~EntryKilled(t) /\ n \notin paused
  /\ polls_left[n] = 0
  /\ ForgetShutdowns({Current(n)})
  /\ KillNodes({n}, [PlaceAfterKill({n}) EXCEPT ![t] = "dropped"])
  /\ ScheduleRestart(n, Current(n) \in revive)
  /\ UNCHANGED <<exists, tnode, tinc, qinc, aborted, mpc>>

\* The runnable is run; a cancelled one drops its future instead of polling it.
PopRun(t) ==
  LET n == tnode[t] IN
  /\ Pop(t) /\ ~EntryKilled(t) /\ n \notin paused
  /\ polls_left[n] # 0
  /\ polls_left' = [polls_left EXCEPT ![n] = IF @ = NotShuttingDown THEN @ ELSE @ - 1]
  /\ place' = [place EXCEPT ![t] = IF t \in aborted THEN "dropped" ELSE "running"]
  /\ UNCHANGED <<exists, inc, paused, shutting_down, overdue, revive, restarts,
                 tnode, tinc, qinc, aborted, mpc>>

\* The poll returns Pending: the future waits for a waker, or it was woken (by
\* itself, by a kill of its node) or cancelled during the poll.
PollPending(t, woken) ==
  /\ place[t] = "running"
  /\ place' = [place EXCEPT ![t] = IF t \in aborted THEN "dropped"
                                     ELSE IF woken \/ OwnKilled(t) THEN "ready"
                                     ELSE "idle"]
  /\ qinc' = [qinc EXCEPT ![t] = tinc[t]]
  /\ UNCHANGED <<nodeVars, tnode, tinc, aborted, mpc>>

PollReady(t) ==
  /\ place[t] = "running"
  /\ place' = [place EXCEPT ![t] = "done"]
  /\ UNCHANGED <<nodeVars, tnode, tinc, qinc, aborted, mpc>>

\* spawn_local's select! polls its branches in random order.  If the future was
\* polled first and killed its own node, the killed branch is ready when it is
\* polled next, and panics; handle_task_panic resumes that panic.
PollKilledBranch(t) ==
  /\ place[t] = "running" /\ OwnKilled(t)
  /\ place' = [place EXCEPT ![t] = "done"]
  /\ mpc' = "crashed"
  /\ UNCHANGED <<nodeVars, tnode, tinc, qinc, aborted>>

\* kill_current_node kills the node whose context is entered and unwinds the
\* poll; handle_task_panic schedules the restart for the polled task's node.
KillCurrentNode(t, n, r) ==
  /\ place[t] = "running"
  /\ n = tnode[t] \/ EnterNode
  /\ KillNodes({n}, [PlaceAfterKill({n}) EXCEPT ![t] = "done"])
  /\ ScheduleRestart(tnode[t], r)
  /\ UNCHANGED <<exists, shutting_down, overdue, revive, tnode, tinc, qinc,
                 aborted, mpc>>

\* The restart timer fires; the node may have been deleted meanwhile.
RestartTimer(n, T) ==
  /\ mpc = "drain" /\ NoneRunning /\ restarts[n] > 0
  /\ restarts' = [restarts EXCEPT ![n] = @ - 1]
  /\ IF n \in exists
     THEN RestartNode(n, T)
     ELSE T = {} /\ UNCHANGED <<exists, inc, paused, polls_left, shutting_down,
                                overdue, revive, taskVars, mpc>>

TaskStep(t) ==
  \/ PopKilled(t) \/ PopPaused(t) \/ PopBudgetSpent(t) \/ PopRun(t)
  \/ (\E w \in BOOLEAN : PollPending(t, w)) \/ PollReady(t) \/ PollKilledBranch(t)
  \/ \E n \in Nodes, r \in BOOLEAN : KillCurrentNode(t, n, r)

-----------------------------------------------------------------------------
(* The rest of an iteration of block_on.                                    *)

Drained == mpc = "drain" /\ \A t \in Tasks : place[t] \notin {"ready", "running"}

\* Mutant: an entry that is no longer its node's incarnation is not expired.
ExpiredCurrent == {i \in shutting_down \cap overdue : i = Current(i[1])}

\* End of run_all_ready: finish_graceful_shutdown for every expired entry, of
\* which only those that still are their node's incarnation kill anything.
Expired == shutting_down \cap overdue

\* Mutant: finish_graceful_shutdown does not compare the incarnation.
ExpiredNodesAny == {n \in exists : inc[n] < MaxInc /\ \E i \in Expired : i[1] = n}

ExpiredNodes == {n \in exists : Current(n) \in Expired}

\* Mutant: the restart is scheduled before the incarnation is compared.
RevivedStale == {n \in exists : \E i \in Expired \cap revive : i[1] = n}

Revived == {n \in ExpiredNodes : Current(n) \in revive}

FinishExpired ==
  /\ Drained
  /\ mpc' = "rest"
  /\ ForgetShutdowns(Expired)
  /\ KillNodes(ExpiredNodes, PlaceAfterKill(ExpiredNodes))
  /\ restarts' = [n \in Nodes |-> IF n \in Revived THEN restarts[n] + 1 ELSE restarts[n]]
  /\ UNCHANGED <<exists, tnode, tinc, qinc, aborted>>

\* The main future is pending, the wake round is over, time has advanced.
NextIteration ==
  /\ mpc = "rest"
  /\ mpc' = "drain"
  /\ UNCHANGED <<nodeVars, taskVars>>

\* The main future is ready (or the time limit is hit): block_on ends.
BlockOnEnds ==
  /\ mpc = "rest"
  /\ mpc' = "ended"
  /\ UNCHANGED <<nodeVars, taskVars>>

Terminated == mpc \in {"ended", "crashed"} /\ UNCHANGED vars

Next ==
  \/ UserCall
  \/ \E t \in Tasks : TaskStep(t)
  \/ \E n \in Nodes, T \in InitTask : RestartTimer(n, T)
  \/ FinishExpired \/ NextIteration \/ BlockOnEnds
  \/ Terminated

Spec == Init /\ [][Next]_vars

-----------------------------------------------------------------------------
(* Fairness.  try_recv_random picks uniformly among finitely many entries,  *)
(* so an entry that is in the queue again and again is popped: strong       *)
(* fairness.  Polls return, block_on keeps looping, and sim time grows with *)
(* every poll and jumps to the next timer when nothing is ready.            *)

PopTask(t) == PopKilled(t) \/ PopPaused(t) \/ PopBudgetSpent(t) \/ PopRun(t)
PollEnds(t) ==
  \/ \E w \in BOOLEAN : PollPending(t, w)
  \/ PollReady(t) \/ PollKilledBranch(t)

Fairness ==
  /\ \A t \in Tasks : SF_vars(PopTask(t)) /\ WF_vars(PollEnds(t))
  /\ WF_vars(FinishExpired) /\ WF_vars(NextIteration \/ BlockOnEnds)
  /\ \A i \in Infos : WF_vars(DeadlinePasses(i))

FairSpec == Spec /\ Fairness

-----------------------------------------------------------------------------
(* Properties.                                                              *)

\* Type correctness of the executor's state.
TypeOK ==
  /\ exists \subseteq Nodes
  /\ inc \in [Nodes -> 0 .. MaxInc]
  /\ paused \subseteq Nodes
  /\ polls_left \in [Nodes -> 0 .. NotShuttingDown]
  /\ shutting_down \subseteq Infos /\ overdue \subseteq Infos /\ revive \subseteq Infos
  /\ tnode \in [Tasks -> Nodes]
  /\ tinc \in [Tasks -> 0 .. MaxInc] /\ qinc \in [Tasks -> 0 .. MaxInc]
  /\ place \in [Tasks -> Places]
  /\ aborted \subseteq Tasks
  /\ restarts \in [Nodes -> Nat]
  /\ mpc \in {"drain", "rest", "ended", "crashed"}

\* A runnable in Node.paused belongs to the incarnation that is paused now: kill
\* empties the list and resume drains it, so no task waits there with nobody
\* left to put it back in the queue, and resume never tags a task of a killed
\* incarnation with the live one.
ParkedNotStranded ==
  \A t \in Tasks : place[t] = "parked" =>
     tnode[t] \in exists \cap paused /\ tinc[t] = inc[tnode[t]]

\* run_all_ready starts a poll only of a task whose own incarnation is alive and
\* whose node still is in the map, whatever TaskInfo its queue entry carried
\* (resume re-sends runnables under the node's current TaskInfo).
KilledNeverPolled ==
  [][\A t \in Tasks :
       place[t] # "running" /\ place'[t] = "running" =>
         ~OwnKilled(t) /\ tnode[t] \in exists \ paused]_vars

\* A node in graceful shutdown is in TaskHandle.shutting_down, so that its
\* deadline is looked at; a stale entry is one whose incarnation was killed by
\* other means.
ShutdownTracked ==
  \A n \in exists :
     polls_left[n] # NotShuttingDown <=> Current(n) \in shutting_down

\* The deadline check kills no incarnation that did not ask for a graceful
\* shutdown itself: not the one restarted after a kill overtook the shutdown.
DeadlineKillsOnlyShuttingDown ==
  [][mpc = "drain" /\ mpc' = "rest" =>
       \A n \in Nodes : inc'[n] # inc[n] => polls_left[n] # NotShuttingDown]_vars

\* kill_current_node and a graceful shutdown schedule a restart only of a node
\* they kill in the same step.
RestartsKilledNode ==
  [][\A n \in Nodes : restarts'[n] > restarts[n] => inc'[n] > inc[n]]_vars

\* A task of a killed node is dropped, whatever it waits for: kill wakes it, and
\* run_all_ready drops it instead of polling it.
KilledDropped ==
  \A t \in Tasks :
     place[t] \notin {"new", "done", "dropped"} /\ OwnKilled(t)
       ~> place[t] \in {"done", "dropped"} \/ mpc \in {"ended", "crashed"}

ShutdownEnds == \A i \in Infos : i \in shutting_down
                  ~> i \notin shutting_down \/ mpc \in {"ended", "crashed"}

\* If run_all_ready keeps returning, every graceful shutdown ends: by its poll
\* budget, its deadline, or a kill by other means.
GracefulEndsWhenDrained == []<>(mpc = "rest") => ShutdownEnds

=============================================================================
