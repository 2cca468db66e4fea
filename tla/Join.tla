-------------------------------- MODULE Join --------------------------------
(***************************************************************************)
(* JoinHandle, AbortHandle, JoinSet and spawn_blocking (task.rs,           *)
(* task/join_set.rs): who may end a task, what its owner is told, and what *)
(* a graceful shutdown does to blocking work.                              *)
(*                                                                         *)
(* A JoinHandle and its AbortHandles share one slot, the Mutex around      *)
(* Option<FallibleTask>.  Everything they do is to take the task out of    *)
(* the slot: and drop it (abort), or detach it (drop of the JoinHandle).   *)
(* FallibleTask is of the crate async-task and is modelled from its use.   *)
(*                                                                         *)
(* All tasks are of one node, which is shut down and killed; their owner   *)
(* is a task of the main node, which is not.                               *)
(***************************************************************************)
EXTENDS FiniteSets

CONSTANTS
  Tasks,
  Blocking,  \* the tasks that are spawned with spawn_blocking
  Keeping    \* bound: the tasks of which an AbortHandle is kept

ASSUME JoinAssumption == Blocking \subseteq Tasks /\ Keeping \subseteq Tasks

VARIABLES
  shutting, killed, \* TaskInfo of the node
  fut,       \* the task's future
  stage,     \* how far that future is
  job,       \* the closure in the blocking pool
  slot,      \* InnerHandle.task is Some
  handle,    \* where the JoinHandle is: held, in the set, dropped
  abort_h,   \* an AbortHandle is kept
  waiter,    \* the owner's poll of the JoinHandle: no, pending, woken
  res,       \* what the JoinHandle resolved to
  set,       \* the JoinSet: open, in shutdown(), in join_all(), dropped
  aborted,   \* observation: an abort() found the task in its slot
  delayed,   \* observation: it was still queued when the shutdown began
  old_shutdown \* observation: a shutdown had begun when it was spawned

nodeVars == <<shutting, killed>>
vars == <<nodeVars, fut, stage, job, slot, handle, abort_h, waiter, res, set, aborted,
          delayed, old_shutdown>>
ownerVars == <<handle, abort_h, res, set>>
seenVars == <<aborted, delayed, old_shutdown>>

\* closed: cancelled, dropped by the executor when it is run next.
Futures == {"none", "live", "closed", "dropped", "done"}
Stages == {"none", "body", "direct", "delay", "cancelling", "await", "finish"}
Jobs == {"none", "queued", "running", "sent", "lost"}

Init ==
  /\ shutting = FALSE /\ killed = FALSE
  /\ fut = [t \in Tasks |-> "none"]
  /\ stage = [t \in Tasks |-> "none"]
  /\ job = [t \in Tasks |-> "none"]
  /\ slot = [t \in Tasks |-> FALSE]
  /\ handle = [t \in Tasks |-> "none"]
  /\ abort_h = [t \in Tasks |-> FALSE]
  /\ waiter = [t \in Tasks |-> "no"]
  /\ res = [t \in Tasks |-> "none"]
  /\ set = "open"
  /\ aborted = [t \in Tasks |-> FALSE]
  /\ delayed = [t \in Tasks |-> FALSE]
  /\ old_shutdown = [t \in Tasks |-> FALSE]

-----------------------------------------------------------------------------
(* async-task.                                                              *)

\* The awaiter of every task in S is notified.
Notified(S) ==
  [t \in Tasks |-> IF t \in S /\ waiter[t] = "pending" THEN "woken" ELSE waiter[t]]

\* Dropping a FallibleTask closes an unfinished future; the output of a finished
\* one is dropped.
Cancelled(S) ==
  [t \in Tasks |-> IF t \in S /\ fut[t] = "live" THEN "closed" ELSE fut[t]]

EmptySlots(S) == [t \in Tasks |-> slot[t] /\ t \notin S]

-----------------------------------------------------------------------------
(* Spawning.                                                                *)

\* JoinHandle::abort_handle: another handle on the slot, which may be kept.
AbortHandleOf(t) == abort_h' = [abort_h EXCEPT ![t] = t \in Keeping]

\* Where the handle goes: to the owner, or into the JoinSet (insert).
Insert(t, where) ==
  /\ handle[t] = "none"
  /\ where = "set" => set = "open"
  /\ handle' = [handle EXCEPT ![t] = where]
  /\ AbortHandleOf(t)

Start(t, at) ==
  /\ fut' = [fut EXCEPT ![t] = "live"]
  /\ stage' = [stage EXCEPT ![t] = at]
  /\ slot' = [slot EXCEPT ![t] = TRUE]

\* TaskNodeHandle::spawn.  A killed node takes tasks too.
Spawn(t, where) ==
  /\ t \notin Blocking
  /\ Insert(t, where)
  /\ Start(t, "body")
  /\ UNCHANGED <<nodeVars, job, waiter, res, set, seenVars>>

\* What sample_latency() may find: anybody may have called set_blocking_latency.
Latencies == {"none", "some"}

\* cancelled_handle(): there is no task, and nothing in the slot.
CancelledHandle == UNCHANGED <<fut, stage, job, slot>>

\* spawn_blocking: refused once a shutdown has begun; without latency submitted at
\* once; else after its start delay.
SpawnBlocking(t, where, l) ==
  /\ t \in Blocking
  /\ Insert(t, where)
  /\ \/ shutting /\ CancelledHandle
     \/ ~shutting /\ l = "some" /\ Start(t, "delay") /\ UNCHANGED job
     \/ ~shutting /\ l = "none" /\ Start(t, "direct") /\ job' = [job EXCEPT ![t] = "queued"]
  /\ old_shutdown' = [old_shutdown EXCEPT ![t] = shutting]
  /\ UNCHANGED <<nodeVars, waiter, res, set, aborted, delayed>>

-----------------------------------------------------------------------------
(* The executor polls a task.                                               *)

Polled(t) == fut[t] = "live" /\ ~killed

Complete(t) ==
  /\ fut' = [fut EXCEPT ![t] = "done"]
  /\ waiter' = Notified({t})
  /\ UNCHANGED <<nodeVars, stage, job, slot, ownerVars, seenVars>>

BodyEnds(t) == Polled(t) /\ stage[t] = "body" /\ Complete(t)

\* Mutant: only the flag set at the time of the spawn is looked at.
ShuttingAtSpawn(t) == FALSE

\* this.info.is_shutting_down() after the start delay.
IsShuttingDown(t) == shutting

\* The start delay is over: submit_blocking.
Submit(t) ==
  /\ Polled(t) /\ stage[t] = "delay" /\ ~IsShuttingDown(t)
  /\ job' = [job EXCEPT ![t] = "queued"]
  /\ stage' = [stage EXCEPT ![t] = "await"]
  /\ UNCHANGED <<nodeVars, fut, slot, ownerVars, waiter, seenVars>>

\* Mutant: the task just stays pending.
SelfAbortedNot(t) == slot' = slot /\ fut' = fut /\ waiter' = waiter /\ aborted' = aborted

\* The task aborts itself through its own AbortHandle; a no-op if its JoinHandle
\* was dropped.  It then stays pending, until its node is killed.
SelfAborted(t) ==
  /\ slot' = EmptySlots({t})
  /\ fut' = IF slot[t] THEN Cancelled({t}) ELSE fut
  /\ waiter' = IF slot[t] THEN Notified({t}) ELSE waiter
  /\ aborted' = aborted

CancelQueued(t) ==
  /\ Polled(t) /\ stage[t] = "delay" /\ IsShuttingDown(t)
  /\ stage' = [stage EXCEPT ![t] = "cancelling"]
  /\ SelfAborted(t)
  /\ UNCHANGED <<nodeVars, job, ownerVars, delayed, old_shutdown>>

\* await_blocking gets the result; with latency the finish delay follows.
DirectResult(t) == Polled(t) /\ stage[t] = "direct" /\ job[t] = "sent" /\ Complete(t)

ResultArrives(t) ==
  /\ Polled(t) /\ stage[t] = "await" /\ job[t] = "sent"
  /\ stage' = [stage EXCEPT ![t] = "finish"]
  /\ UNCHANGED <<nodeVars, fut, job, slot, ownerVars, waiter, seenVars>>

FinishDelayEnds(t) == Polled(t) /\ stage[t] = "finish" /\ Complete(t)

\* The executor runs a cancelled task, or any task of a killed node: the future
\* is dropped.
DropFuture(t) ==
  /\ fut[t] = "closed" \/ (fut[t] = "live" /\ killed)
  /\ fut' = [fut EXCEPT ![t] = "dropped"]
  /\ waiter' = Notified({t})
  /\ UNCHANGED <<nodeVars, stage, job, slot, ownerVars, seenVars>>

\* A pool thread takes the closure: dropped unrun if its node is killed.
StartJob(t) ==
  /\ job[t] = "queued"
  /\ job' = [job EXCEPT ![t] = IF killed THEN "lost" ELSE "running"]
  /\ UNCHANGED <<nodeVars, fut, stage, slot, ownerVars, waiter, seenVars>>

\* It ends; on a killed node it may have been unwound at a yield point.
EndJob(t, how) ==
  /\ job[t] = "running"
  /\ how = "sent" \/ killed
  /\ job' = [job EXCEPT ![t] = how]
  /\ UNCHANGED <<nodeVars, fut, stage, slot, ownerVars, waiter, seenVars>>

BeginGracefulShutdown ==
  /\ ~shutting /\ ~killed
  /\ shutting' = TRUE
  /\ delayed' = [t \in Tasks |-> fut[t] = "live" /\ stage[t] = "delay"]
  /\ UNCHANGED <<killed, fut, stage, job, slot, ownerVars, waiter, aborted,
                 old_shutdown>>

Kill ==
  /\ ~killed
  /\ killed' = TRUE
  /\ UNCHANGED <<shutting, fut, stage, job, slot, ownerVars, waiter, seenVars>>

-----------------------------------------------------------------------------
(* The owner.                                                               *)

\* InnerHandle::abort for every task of S whose slot is not empty.
AbortTasks(S) ==
  LET T == {t \in S : slot[t]} IN
  /\ slot' = EmptySlots(T)
  /\ fut' = Cancelled(T)
  /\ waiter' = Notified({t \in T : fut[t] = "live"})
  /\ aborted' = [t \in Tasks |-> aborted[t] \/ t \in T]

\* JoinHandle::abort.
Abort(t) ==
  /\ handle[t] = "held"
  /\ AbortTasks({t})
  /\ UNCHANGED <<nodeVars, stage, job, ownerVars, delayed, old_shutdown>>

\* AbortHandle::abort: the same slot, reached through a pointer without its type.
AbortByHandle(t) ==
  /\ abort_h[t]
  /\ AbortTasks({t})
  /\ UNCHANGED <<nodeVars, stage, job, ownerVars, delayed, old_shutdown>>

\* Drop for AbortHandle: nothing but the Arc goes.
DropAbortHandle(t) ==
  /\ abort_h[t]
  /\ abort_h' = [abort_h EXCEPT ![t] = FALSE]
  /\ UNCHANGED <<nodeVars, fut, stage, job, slot, handle, waiter, res, set, seenVars>>

\* Mutant: the FallibleTask is dropped with the handle.
DetachCancels(S) == slot' = EmptySlots(S) /\ fut' = Cancelled({t \in S : slot[t]})

\* Drop for JoinHandle: the task is taken out of the slot and detached.
Detach(S) == slot' = EmptySlots(S) /\ fut' = fut

DropHandles(S) ==
  /\ handle' = [t \in Tasks |-> IF t \in S THEN "dropped" ELSE handle[t]]
  /\ waiter' = [t \in Tasks |-> IF t \in S THEN "no" ELSE waiter[t]]

DropHandle(t) ==
  /\ handle[t] = "held"
  /\ Detach({t})
  /\ DropHandles({t})
  /\ UNCHANGED <<nodeVars, stage, job, abort_h, res, set, seenVars>>

Members == {t \in Tasks : handle[t] = "set"}

\* JoinHandle::poll: cancelled at once if the slot is empty; else the output, or
\* cancelled once the future is dropped; else pending.
Outcome(t) ==
  IF ~slot[t] \/ fut[t] = "dropped" THEN "cancelled"
  ELSE IF fut[t] = "done" THEN "ok" ELSE "pending"

\* join_all() panics on a cancelled member.
Fatal(t) == set = "joining" /\ handle[t] = "set" /\ Outcome(t) = "cancelled"

\* The owner awaits the handle, or join_next() on the set.
Join(t) ==
  /\ handle[t] \in {"held", "set"} /\ waiter[t] # "pending" /\ ~Fatal(t)
  /\ IF Outcome(t) = "pending"
     THEN /\ waiter' = [waiter EXCEPT ![t] = "pending"]
          /\ UNCHANGED <<slot, fut, handle, res>>
     ELSE /\ res' = [res EXCEPT ![t] = Outcome(t)]
          /\ Detach({t})
          /\ DropHandles({t})
  /\ UNCHANGED <<nodeVars, stage, job, abort_h, set, seenVars>>

\* Mutant: only what is not finished yet and not waited for is aborted.
AbortAllOf(S) == {t \in S : waiter[t] # "pending"}

\* The handles that abort_all walks over.
AllOf(S) == S

AbortAll ==
  /\ set = "open" /\ Members # {}
  /\ AbortTasks(AllOf(Members))
  /\ UNCHANGED <<nodeVars, stage, job, ownerVars, delayed, old_shutdown>>

\* JoinSet::shutdown: abort_all, then join_next until the set is empty.
Shutdown ==
  /\ set = "open"
  /\ set' = "shutdown"
  /\ AbortTasks(AllOf(Members))
  /\ UNCHANGED <<nodeVars, stage, job, handle, abort_h, res, delayed, old_shutdown>>

ShutdownReturns ==
  /\ set = "shutdown" /\ Members = {}
  /\ set' = "open"
  /\ UNCHANGED <<nodeVars, fut, stage, job, slot, handle, abort_h, waiter, res, seenVars>>

\* JoinSet::detach_all drops the JoinHandles.
DetachAll ==
  /\ set = "open" /\ Members # {}
  /\ Detach(Members)
  /\ DropHandles(Members)
  /\ UNCHANGED <<nodeVars, stage, job, abort_h, res, set, seenVars>>

\* Drop for JoinSet with the handles S in it: abort, then the handles.
SetDropped(S) ==
  /\ set' = "dropped"
  /\ slot' = EmptySlots(Members)
  /\ fut' = Cancelled({t \in S : slot[t]})
  /\ aborted' = [t \in Tasks |-> aborted[t] \/ (t \in S /\ slot[t])]
  /\ DropHandles(Members)
  /\ UNCHANGED <<nodeVars, stage, job, abort_h, delayed, old_shutdown>>

\* Also in the middle of shutdown() or join_all().
DropSet == set # "dropped" /\ SetDropped(Members) /\ UNCHANGED res

\* JoinSet::join_all takes the set, and calls join_next until it is empty; a cancelled
\* member panics the owner, and the rest of the set is dropped.
JoinAll ==
  /\ set = "open"
  /\ set' = "joining"
  /\ UNCHANGED <<nodeVars, fut, stage, job, slot, handle, abort_h, waiter, res, seenVars>>

JoinAllReturns == set = "joining" /\ Members = {} /\ SetDropped({}) /\ UNCHANGED res

JoinAllPanics(t) ==
  /\ Fatal(t) /\ waiter[t] # "pending"
  /\ SetDropped(Members \ {t})
  /\ res' = [res EXCEPT ![t] = "cancelled"]

-----------------------------------------------------------------------------
Executor(t) ==
  \/ BodyEnds(t) \/ Submit(t) \/ CancelQueued(t) \/ DirectResult(t) \/ ResultArrives(t)
  \/ FinishDelayEnds(t) \/ DropFuture(t)
Pool(t) == StartJob(t) \/ \E how \in {"sent", "lost"} : EndJob(t, how)

Next ==
  \/ \E t \in Tasks, where \in {"held", "set"} :
       Spawn(t, where) \/ \E l \in Latencies : SpawnBlocking(t, where, l)
  \/ \E t \in Tasks :
       \/ Executor(t) \/ Pool(t)
       \/ Abort(t) \/ AbortByHandle(t) \/ DropAbortHandle(t) \/ DropHandle(t)
       \/ Join(t) \/ JoinAllPanics(t)
  \/ BeginGracefulShutdown \/ Kill
  \/ AbortAll \/ Shutdown \/ ShutdownReturns \/ DetachAll \/ DropSet
  \/ JoinAll \/ JoinAllReturns

Spec == Init /\ [][Next]_vars

(***************************************************************************)
(* block_on polls what is ready, lets the pool run and advances time until *)
(* nothing is left (Executor, BlockingPool and Timer); a woken owner polls *)
(* again, and shutdown() and join_all() go on with the handles that are    *)
(* left.  No fairness of task bodies or of the owner's other calls.        *)
(***************************************************************************)
Woken(t) ==
  /\ waiter[t] = "woken" \/ (set \in {"shutdown", "joining"} /\ handle[t] = "set")
  /\ Join(t) \/ JoinAllPanics(t)
Fairness ==
  /\ \A t \in Tasks :
       /\ WF_vars(Submit(t) \/ CancelQueued(t) \/ DirectResult(t) \/ ResultArrives(t)
                  \/ FinishDelayEnds(t))
       /\ WF_vars(DropFuture(t))
       /\ WF_vars(Pool(t))
       /\ WF_vars(Woken(t))
  /\ WF_vars(ShutdownReturns)
FairSpec == Spec /\ Fairness

-----------------------------------------------------------------------------
(* Properties.                                                              *)

\* Type correctness of tasks, handles and the set.
TypeOK ==
  /\ shutting \in BOOLEAN /\ killed \in BOOLEAN
  /\ fut \in [Tasks -> Futures]
  /\ stage \in [Tasks -> Stages]
  /\ job \in [Tasks -> Jobs]
  /\ slot \in [Tasks -> BOOLEAN]
  /\ handle \in [Tasks -> {"none", "held", "set", "dropped"}]
  /\ abort_h \in [Tasks -> BOOLEAN]
  /\ waiter \in [Tasks -> {"no", "pending", "woken"}]
  /\ res \in [Tasks -> {"none", "ok", "cancelled"}]
  /\ set \in {"open", "shutdown", "joining", "dropped"}
  /\ aborted \in [Tasks -> BOOLEAN]
  /\ delayed \in [Tasks -> BOOLEAN]
  /\ old_shutdown \in [Tasks -> BOOLEAN]

\* What may end a task before its time: an abort that found it in its slot, the
\* kill of its node, or a shutdown that found it queued or was there before it.
HasCause(t) == aborted[t] \/ killed \/ delayed[t] \/ old_shutdown[t]

\* No task is dropped unfinished, and no owner is told of a cancellation, without
\* cause: dropping a JoinHandle, detaching a set, joining twice or racing aborts
\* end nothing.
CancelledHasCause ==
  \A t \in Tasks :
    fut[t] \in {"closed", "dropped"} \/ res[t] = "cancelled" => HasCause(t)

\* "A task still queued when its node begins a graceful shutdown is cancelled
\* without running", for the queue of the start delay, and one spawned later does
\* not run either.
QueuedNeverRuns ==
  \A t \in Blocking : delayed[t] \/ old_shutdown[t] => job[t] = "none"

Over(t) == fut[t] # "live" \/ aborted[t] \/ delayed[t] \/ killed \/ job[t] = "sent"

\* An owner that waits for a task is told when the task has ended, was aborted
\* through whatever handle, was cancelled by a shutdown or killed with its node,
\* and when its blocking closure has run.
JoinEnds == \A t \in Tasks : waiter[t] # "no" /\ Over(t) ~> waiter[t] = "no"

\* JoinSet::shutdown returns, whatever the tasks of the set do.
SetShutdownEnds == set = "shutdown" ~> set # "shutdown"
=============================================================================
