----------------------------- MODULE JoinProofs -----------------------------
(***************************************************************************)
(* Proofs about Join for any tasks: nothing is cancelled without cause,    *)
(* and blocking work that a shutdown found queued never runs.              *)
(***************************************************************************)
EXTENDS Join, TLAPS

-----------------------------------------------------------------------------
(* The inductive invariant.                                                 *)

\* Before a task is spawned there is nothing of it.
NotSpawned ==
  \A t \in Tasks : handle[t] = "none" =>
    /\ fut[t] = "none" /\ stage[t] = "none" /\ job[t] = "none"
    /\ ~slot[t] /\ ~old_shutdown[t] /\ res[t] = "none"

\* A handle in its owner's hands finds its slot empty only if there was a cause: an
\* abort emptied it, or the task was refused or cancelled by a shutdown.
EmptySlotHasCause ==
  \A t \in Tasks : handle[t] \in {"held", "set"} /\ ~slot[t] => HasCause(t)

\* The tasks in their start delay when the shutdown began are just those that are
\* in it while the node shuts down: none is added, none gets on.
DelayedKnown ==
  /\ \A t \in Tasks : ~shutting => ~delayed[t] /\ ~old_shutdown[t]
  /\ \A t \in Tasks : shutting /\ fut[t] = "live" /\ stage[t] = "delay" => delayed[t]
  /\ \A t \in Tasks : delayed[t] => stage[t] \in {"delay", "cancelling"}
  /\ \A t \in Tasks : old_shutdown[t] => stage[t] = "none"

\* A closure is in the pool only when its task is past the start delay.
JobSubmitted ==
  \A t \in Tasks : stage[t] \in {"none", "delay", "cancelling"} => job[t] = "none"

JoinInv ==
  /\ TypeOK /\ NotSpawned /\ EmptySlotHasCause /\ DelayedKnown /\ JobSubmitted
  /\ CancelledHasCause

-----------------------------------------------------------------------------
(* Steps of the tasks.                                                      *)

\* What may have caused a cancellation is never forgotten.
LEMMA CauseStays ==
  ASSUME JoinInv, [Next]_vars, NEW t \in Tasks, HasCause(t)
  PROVE  HasCause(t)'
<1> USE DEF HasCause
<1>1. CASE UNCHANGED vars
  BY <1>1 DEF vars, nodeVars
<1>2. ASSUME NEW T \in SUBSET Tasks, aborted' = [u \in Tasks |-> aborted[u] \/ u \in T],
             UNCHANGED <<killed, delayed, old_shutdown>>
      PROVE  HasCause(t)'
  BY <1>2
<1>3. ASSUME UNCHANGED <<killed, delayed, old_shutdown, aborted>>
      PROVE  HasCause(t)'
  BY <1>3
<1>4. ASSUME NEW S, AbortTasks(S), UNCHANGED <<killed, delayed, old_shutdown>>
      PROVE  HasCause(t)'
  BY <1>4 DEF AbortTasks
<1>5. ASSUME NEW S, SetDropped(S)
      PROVE  HasCause(t)'
  BY <1>5 DEF SetDropped, nodeVars
<1>6. ASSUME NEW u \in Tasks, NEW where, NEW l, SpawnBlocking(u, where, l)
      PROVE  HasCause(t)'
  <2>1. u = t => ~old_shutdown[t]
    BY <1>6 DEF SpawnBlocking, Insert, JoinInv, NotSpawned
  <2>2. old_shutdown[t] => old_shutdown'[t]
    BY <1>6, <2>1 DEF SpawnBlocking, JoinInv, TypeOK
  <2> QED
    BY <1>6, <2>2 DEF SpawnBlocking, nodeVars
<1>7. CASE BeginGracefulShutdown
  <2>1. ~delayed[t]
    BY <1>7 DEF BeginGracefulShutdown, JoinInv, DelayedKnown
  <2> QED
    BY <1>7, <2>1 DEF BeginGracefulShutdown
<1>8. CASE Kill
  BY <1>8 DEF Kill
<1>9. ASSUME NEW u \in Tasks, Executor(u)
      PROVE  HasCause(t)'
  BY <1>3, <1>9 DEF Executor, BodyEnds, Submit, CancelQueued, SelfAborted, DirectResult,
     ResultArrives, FinishDelayEnds, DropFuture, Complete, nodeVars, seenVars
<1>10. ASSUME NEW u \in Tasks, Pool(u)
      PROVE  HasCause(t)'
  BY <1>3, <1>10 DEF Pool, StartJob, EndJob, nodeVars, seenVars
<1> QED
  BY <1>1, <1>3, <1>4, <1>5, <1>6, <1>7, <1>8, <1>9, <1>10
  DEF Next, Spawn, Abort, AbortByHandle, DropAbortHandle, DropHandle, Join, JoinAllPanics,
      AbortAll, Shutdown, ShutdownReturns, DetachAll, DropSet, JoinAll, JoinAllReturns,
      nodeVars, seenVars

-----------------------------------------------------------------------------
(* The invariant is kept.                                                   *)

\* What the operators on several tasks give has the types of the variables.
LEMMA Operators ==
  ASSUME TypeOK, NEW S
  PROVE  /\ Notified(S) \in [Tasks -> {"no", "pending", "woken"}]
         /\ Cancelled(S) \in [Tasks -> Futures]
         /\ EmptySlots(S) \in [Tasks -> BOOLEAN]
<1>1. Notified(S) \in [Tasks -> {"no", "pending", "woken"}]
  BY DEF TypeOK, Notified
<1>2. Cancelled(S) \in [Tasks -> Futures]
  BY DEF TypeOK, Cancelled, Futures
<1>3. EmptySlots(S) \in [Tasks -> BOOLEAN]
  BY DEF EmptySlots
<1> QED
  BY <1>1, <1>2, <1>3

\* Every step keeps the types.
LEMMA TypesStep ==
  ASSUME TypeOK, [Next]_vars
  PROVE  TypeOK'
<1> USE Operators
<1>1. CASE UNCHANGED vars
  BY <1>1 DEF vars, nodeVars, TypeOK
<1>2. ASSUME NEW t \in Tasks, NEW where \in {"held", "set"}, Insert(t, where)
      PROVE  /\ handle' \in [Tasks -> {"none", "held", "set", "dropped"}]
             /\ abort_h' \in [Tasks -> BOOLEAN]
  BY <1>2 DEF TypeOK, Insert, AbortHandleOf
<1>3. ASSUME NEW t \in Tasks, NEW at \in Stages, Start(t, at)
      PROVE  /\ fut' \in [Tasks -> Futures] /\ stage' \in [Tasks -> Stages]
             /\ slot' \in [Tasks -> BOOLEAN]
  BY <1>3 DEF TypeOK, Start, Futures
<1>4. ASSUME NEW t \in Tasks, NEW where \in {"held", "set"}, Spawn(t, where)
      PROVE  TypeOK'
  <2>1. "body" \in Stages
    BY DEF Stages
  <2> QED
    BY <1>2, <1>3, <1>4, <2>1 DEF Spawn, TypeOK, nodeVars, seenVars
<1>5. ASSUME NEW t \in Tasks, NEW where \in {"held", "set"}, NEW l \in Latencies,
             SpawnBlocking(t, where, l)
      PROVE  TypeOK'
  <2>1. /\ fut' \in [Tasks -> Futures] /\ stage' \in [Tasks -> Stages]
        /\ slot' \in [Tasks -> BOOLEAN] /\ job' \in [Tasks -> Jobs]
    <3>1. CASE CancelledHandle
      BY <1>5, <3>1 DEF CancelledHandle, TypeOK
    <3>2. CASE Start(t, "delay") /\ UNCHANGED job
      BY <1>3, <3>2 DEF TypeOK, Stages
    <3>3. CASE Start(t, "direct") /\ job' = [job EXCEPT ![t] = "queued"]
      BY <1>3, <3>3 DEF TypeOK, Stages, Jobs
    <3> QED
      BY <1>5, <3>1, <3>2, <3>3 DEF SpawnBlocking
  <2>2. old_shutdown' \in [Tasks -> BOOLEAN]
    BY <1>5 DEF SpawnBlocking, TypeOK
  <2> QED
    BY <1>2, <1>5, <2>1, <2>2 DEF SpawnBlocking, TypeOK, nodeVars
<1>6. ASSUME NEW t \in Tasks, Executor(t)
      PROVE  TypeOK'
  <2>1. CASE CancelQueued(t)
    BY <2>1 DEF CancelQueued, SelfAborted, TypeOK, Stages, nodeVars, ownerVars
  <2> QED
    BY <1>6, <2>1 DEF Executor, BodyEnds, Submit, DirectResult, ResultArrives,
       FinishDelayEnds, DropFuture, Complete, TypeOK, Futures, Stages, Jobs, nodeVars,
       ownerVars, seenVars
<1>7. ASSUME NEW t \in Tasks, Pool(t)
      PROVE  TypeOK'
  BY <1>7 DEF Pool, StartJob, EndJob, TypeOK, Jobs, nodeVars, ownerVars, seenVars
<1>8. CASE BeginGracefulShutdown \/ Kill
  BY <1>8 DEF BeginGracefulShutdown, Kill, TypeOK, ownerVars, seenVars
<1>9. ASSUME NEW S, AbortTasks(S)
      PROVE  /\ slot' \in [Tasks -> BOOLEAN] /\ fut' \in [Tasks -> Futures]
             /\ waiter' \in [Tasks -> {"no", "pending", "woken"}]
             /\ aborted' \in [Tasks -> BOOLEAN]
  BY <1>9 DEF AbortTasks
<1>10. ASSUME \/ \E t \in Tasks : Abort(t) \/ AbortByHandle(t)
              \/ AbortAll \/ Shutdown
       PROVE  TypeOK'
  <2>1. CASE \E t \in Tasks : Abort(t) \/ AbortByHandle(t)
    BY <1>9, <2>1 DEF Abort, AbortByHandle, TypeOK, nodeVars, ownerVars
  <2>2. CASE AbortAll
    BY <1>9, <2>2 DEF AbortAll, TypeOK, nodeVars, ownerVars
  <2>3. CASE Shutdown
    BY <1>9, <2>3 DEF Shutdown, TypeOK, nodeVars, ownerVars
  <2> QED
    BY <1>10, <2>1, <2>2, <2>3
<1>11. ASSUME NEW S, DropHandles(S)
       PROVE  /\ handle' \in [Tasks -> {"none", "held", "set", "dropped"}]
              /\ waiter' \in [Tasks -> {"no", "pending", "woken"}]
  BY <1>11 DEF DropHandles, TypeOK
<1>12. ASSUME NEW S, Detach(S)
       PROVE  slot' \in [Tasks -> BOOLEAN] /\ fut' \in [Tasks -> Futures]
  BY <1>12 DEF Detach, TypeOK
<1>13. ASSUME NEW S, SetDropped(S), res' \in [Tasks -> {"none", "ok", "cancelled"}]
       PROVE  TypeOK'
  <2>1. aborted' \in [Tasks -> BOOLEAN]
    BY <1>13 DEF SetDropped
  <2> QED
    BY <1>11, <1>13, <2>1 DEF SetDropped, TypeOK, nodeVars
<1>14. ASSUME NEW t \in Tasks, Join(t)
       PROVE  TypeOK'
  <2>1. CASE Outcome(t) = "pending"
    BY <1>14, <2>1 DEF Join, TypeOK, nodeVars, seenVars
  <2>2. CASE Outcome(t) # "pending"
    <3>1. res' \in [Tasks -> {"none", "ok", "cancelled"}]
      BY <1>14, <2>2 DEF Join, Outcome, TypeOK
    <3> QED
      BY <1>11, <1>12, <1>14, <2>2, <3>1 DEF Join, TypeOK, nodeVars, seenVars
  <2> QED
    BY <2>1, <2>2
<1>15. CASE \E t \in Tasks : DropAbortHandle(t) \/ DropHandle(t)
  <2>1. CASE \E t \in Tasks : DropAbortHandle(t)
    BY <2>1 DEF DropAbortHandle, TypeOK, nodeVars, seenVars
  <2>2. CASE \E t \in Tasks : DropHandle(t)
    BY <1>11, <1>12, <2>2 DEF DropHandle, TypeOK, nodeVars, seenVars
  <2> QED
    BY <1>15, <2>1, <2>2
<1>16. CASE ShutdownReturns \/ DetachAll \/ JoinAll
  <2>1. CASE ShutdownReturns
    BY <1>11, <1>12, <2>1 DEF ShutdownReturns, TypeOK, nodeVars, seenVars
  <2>2. CASE DetachAll
    BY <1>11, <1>12, <2>2 DEF DetachAll, TypeOK, nodeVars, seenVars
  <2>3. CASE JoinAll
    BY <1>11, <1>12, <2>3 DEF JoinAll, TypeOK, nodeVars, seenVars
  <2> QED
    BY <1>16, <2>1, <2>2, <2>3
<1>17. CASE DropSet \/ JoinAllReturns \/ \E t \in Tasks : JoinAllPanics(t)
  <2>1. res \in [Tasks -> {"none", "ok", "cancelled"}]
    BY DEF TypeOK
  <2>2. CASE DropSet \/ JoinAllReturns
    BY <1>13, <2>1, <2>2 DEF DropSet, JoinAllReturns
  <2>3. CASE \E t \in Tasks : JoinAllPanics(t)
    BY <1>13, <2>1, <2>3 DEF JoinAllPanics
  <2> QED
    BY <1>17, <2>2, <2>3
<1> QED
  BY <1>1, <1>4, <1>5, <1>6, <1>7, <1>8, <1>10, <1>14, <1>15, <1>16, <1>17 DEF Next

\* Every step leaves nothing of a task that is not spawned.
LEMMA NotSpawnedStep ==
  ASSUME JoinInv, [Next]_vars, TypeOK'
  PROVE  NotSpawned'
<1> USE DEF JoinInv, TypeOK, NotSpawned
<1>1. CASE UNCHANGED vars
  BY <1>1 DEF vars, nodeVars
<1>2. ASSUME NEW u \in Tasks, NEW where \in {"held", "set"}, Insert(u, where)
      PROVE  \A t \in Tasks : handle'[t] = "none" => t # u /\ handle[t] = "none"
  BY <1>2 DEF Insert
<1>3. CASE \E u \in Tasks, where \in {"held", "set"} : Spawn(u, where)
  BY <1>2, <1>3 DEF Spawn, Start, seenVars
<1>4. ASSUME NEW u \in Tasks, NEW where \in {"held", "set"}, NEW l \in Latencies,
             SpawnBlocking(u, where, l)
      PROVE  NotSpawned'
  BY <1>2, <1>4 DEF SpawnBlocking, Start, CancelledHandle
<1>5. CASE \E u \in Tasks : Executor(u)
  BY <1>5 DEF Executor, BodyEnds, Submit, CancelQueued, SelfAborted, EmptySlots, Cancelled,
     DirectResult, ResultArrives, FinishDelayEnds, DropFuture, Complete, ownerVars, seenVars
<1>6. CASE \E u \in Tasks : Pool(u)
  BY <1>6 DEF Pool, StartJob, EndJob, ownerVars, seenVars
<1>7. CASE BeginGracefulShutdown \/ Kill
  BY <1>7 DEF BeginGracefulShutdown, Kill, ownerVars, seenVars
<1>8. ASSUME NEW S, AbortTasks(S), UNCHANGED <<handle, stage, job, old_shutdown, res>>
      PROVE  NotSpawned'
  <2>1. \A t \in Tasks : ~slot[t] => ~slot'[t]
    BY <1>8 DEF AbortTasks, EmptySlots
  <2>2. \A t \in Tasks : fut[t] = "none" => fut'[t] = "none"
    BY <1>8 DEF AbortTasks, Cancelled
  <2> QED
    BY <1>8, <2>1, <2>2
<1>9. CASE \/ \E u \in Tasks : DropHandle(u) \/ DropAbortHandle(u)
           \/ DetachAll \/ ShutdownReturns \/ JoinAll
  BY <1>9 DEF DropHandle, DropAbortHandle, DetachAll, ShutdownReturns, JoinAll, Detach,
     DropHandles, EmptySlots, seenVars
<1>10. CASE \E u \in Tasks : Join(u)
  BY <1>10 DEF Join, Detach, DropHandles, EmptySlots, seenVars
<1>11. CASE DropSet \/ JoinAllReturns \/ \E u \in Tasks : JoinAllPanics(u)
  BY <1>11 DEF DropSet, JoinAllReturns, JoinAllPanics, SetDropped, Fatal, DropHandles,
     EmptySlots, Cancelled, Members
<1>12. CASE \/ \E u \in Tasks : Abort(u) \/ AbortByHandle(u)
            \/ AbortAll \/ Shutdown
  BY <1>8, <1>12 DEF Abort, AbortByHandle, AbortAll, Shutdown, ownerVars
<1> QED
  BY <1>1, <1>3, <1>4, <1>5, <1>6, <1>7, <1>9, <1>10, <1>11, <1>12 DEF Next

\* Every step that empties a slot under its owner has or leaves a cause: the owner's
\* own calls take the handle with the task, all others are aborts.
LEMMA EmptySlotStep ==
  ASSUME JoinInv, [Next]_vars, TypeOK'
  PROVE  EmptySlotHasCause'
<1>0. \A t \in Tasks : HasCause(t) => HasCause(t)'
  BY CauseStays
<1> USE DEF JoinInv, TypeOK, EmptySlotHasCause
<1>1. ASSUME slot' = slot,
             \A t \in Tasks : handle'[t] \in {"held", "set"} => handle'[t] = handle[t]
      PROVE  EmptySlotHasCause'
  BY <1>0, <1>1
<1>2. ASSUME NEW u \in Tasks, NEW where \in {"held", "set"}, Insert(u, where)
      PROVE  \A t \in Tasks \ {u} : handle'[t] = handle[t]
  BY <1>2 DEF Insert
<1>3. CASE \E u \in Tasks, where \in {"held", "set"} : Spawn(u, where)
  BY <1>0, <1>2, <1>3 DEF Spawn, Start
<1>4. ASSUME NEW u \in Tasks, NEW where \in {"held", "set"}, NEW l \in Latencies,
             SpawnBlocking(u, where, l)
      PROVE  EmptySlotHasCause'
  <2>1. shutting => HasCause(u)'
    BY <1>4 DEF SpawnBlocking, HasCause
  <2>2. ~shutting => slot'[u]
    BY <1>4 DEF SpawnBlocking, Start
  <2>3. \A t \in Tasks \ {u} : slot'[t] = slot[t]
    BY <1>4 DEF SpawnBlocking, Start, CancelledHandle
  <2> QED
    BY <1>0, <1>2, <1>4, <2>1, <2>2, <2>3 DEF SpawnBlocking
<1>5. ASSUME NEW u \in Tasks, Executor(u)
      PROVE  EmptySlotHasCause'
  <2>1. CASE CancelQueued(u)
    <3>1. HasCause(u)
      BY <2>1 DEF CancelQueued, Polled, IsShuttingDown, DelayedKnown, HasCause
    <3> QED
      BY <1>0, <2>1, <3>1 DEF CancelQueued, SelfAborted, EmptySlots, ownerVars
  <2> QED
    BY <1>1, <1>5, <2>1 DEF Executor, BodyEnds, Submit, DirectResult, ResultArrives,
       FinishDelayEnds, DropFuture, Complete, ownerVars
<1>6. CASE \/ \E u \in Tasks : Pool(u)
           \/ BeginGracefulShutdown \/ Kill \/ UNCHANGED vars
  BY <1>1, <1>6 DEF Pool, StartJob, EndJob, BeginGracefulShutdown, Kill, vars, ownerVars
<1>7. ASSUME NEW S, AbortTasks(S), handle' = handle
      PROVE  EmptySlotHasCause'
  <2>1. \A t \in Tasks : slot[t] /\ ~slot'[t] => HasCause(t)'
    BY <1>7 DEF AbortTasks, EmptySlots, HasCause
  <2> QED
    BY <1>0, <1>7, <2>1
<1>8. CASE \/ \E u \in Tasks : Abort(u) \/ AbortByHandle(u)
           \/ AbortAll \/ Shutdown
  BY <1>7, <1>8 DEF Abort, AbortByHandle, AbortAll, Shutdown, ownerVars
<1>9. ASSUME NEW S, slot' = EmptySlots(S), DropHandles(S)
      PROVE  EmptySlotHasCause'
  BY <1>0, <1>9 DEF EmptySlots, DropHandles
<1>10. CASE \/ \E u \in Tasks : DropHandle(u) \/ DropAbortHandle(u)
            \/ DetachAll \/ ShutdownReturns \/ JoinAll
  BY <1>1, <1>9, <1>10 DEF DropHandle, DropAbortHandle, DetachAll, ShutdownReturns, JoinAll,
     Detach
<1>11. CASE \E u \in Tasks : Join(u)
  BY <1>1, <1>9, <1>11 DEF Join, Detach
<1>12. CASE DropSet \/ JoinAllReturns \/ \E u \in Tasks : JoinAllPanics(u)
  BY <1>9, <1>12 DEF DropSet, JoinAllReturns, JoinAllPanics, SetDropped
<1> QED
  BY <1>3, <1>4, <1>5, <1>6, <1>8, <1>10, <1>11, <1>12 DEF Next

\* Every step keeps what is known of the tasks in their start delay: a shutdown notes
\* all of them, and a task that finds it begun does not get past it.
LEMMA DelayedStep ==
  ASSUME JoinInv, [Next]_vars, TypeOK'
  PROVE  DelayedKnown' /\ JobSubmitted'
<1> USE DEF JoinInv, TypeOK, DelayedKnown, JobSubmitted
<1>1. ASSUME UNCHANGED <<shutting, stage, delayed, old_shutdown>>,
             job' = job \/ \E u \in Tasks : job[u] # "none" /\ \A t \in Tasks : t # u => job'[t] = job[t],
             \A t \in Tasks : fut'[t] = "live" => fut[t] = "live"
      PROVE  DelayedKnown' /\ JobSubmitted'
  BY <1>1
<1>2. ASSUME NEW u \in Tasks, NEW where \in {"held", "set"}, Spawn(u, where)
      PROVE  DelayedKnown' /\ JobSubmitted'
  <2>1. ~old_shutdown[u] /\ stage[u] = "none" /\ job[u] = "none"
    BY <1>2 DEF Spawn, Insert, NotSpawned
  <2>2. ~delayed[u]
    BY <2>1
  <2> QED
    BY <1>2, <2>1, <2>2 DEF Spawn, Start, nodeVars, seenVars
<1>3. ASSUME NEW u \in Tasks, NEW where \in {"held", "set"}, NEW l \in Latencies,
             SpawnBlocking(u, where, l)
      PROVE  DelayedKnown' /\ JobSubmitted'
  <2>1. fut[u] = "none" /\ stage[u] = "none" /\ job[u] = "none"
    BY <1>3 DEF SpawnBlocking, Insert, NotSpawned
  <2>2. ~delayed[u]
    BY <2>1
  <2>3. CASE shutting
    BY <1>3, <2>1, <2>2, <2>3 DEF SpawnBlocking, CancelledHandle, nodeVars
  <2>4. CASE ~shutting
    <3>1. ~shutting' /\ delayed' = delayed
      BY <1>3, <2>4 DEF SpawnBlocking, nodeVars
    <3>2. \A t \in Tasks : ~delayed'[t] /\ ~old_shutdown'[t]
      BY <1>3, <2>4, <3>1 DEF SpawnBlocking
    <3>3. JobSubmitted'
      BY <1>3, <2>1, <2>4 DEF SpawnBlocking, Start
    <3> QED
      BY <3>1, <3>2, <3>3
  <2> QED
    BY <2>3, <2>4
<1>4. ASSUME NEW u \in Tasks, Executor(u)
      PROVE  DelayedKnown' /\ JobSubmitted'
  <2>1. CASE Submit(u)
    <3>1. ~shutting' /\ \A t \in Tasks : ~delayed'[t] /\ ~old_shutdown'[t]
      BY <2>1 DEF Submit, IsShuttingDown, nodeVars, seenVars
    <3> QED
      BY <2>1, <3>1 DEF Submit
  <2>2. CASE CancelQueued(u)
    <3>1. \A t \in Tasks : fut'[t] = "live" => fut[t] = "live"
      BY <2>2 DEF CancelQueued, SelfAborted, Cancelled
    <3>2. ~old_shutdown[u]
      BY <2>2 DEF CancelQueued
    <3>3. stage' = [stage EXCEPT ![u] = "cancelling"]
          /\ UNCHANGED <<shutting, job, delayed, old_shutdown>>
      BY <2>2 DEF CancelQueued, nodeVars
    <3>4. job[u] = "none"
      BY <2>2 DEF CancelQueued
    <3> QED
      BY <3>1, <3>2, <3>3, <3>4
  <2>3. CASE ResultArrives(u)
    <3>1. ~old_shutdown[u] /\ ~delayed[u]
      BY <2>3 DEF ResultArrives
    <3> QED
      BY <2>3, <3>1 DEF ResultArrives, nodeVars, seenVars
  <2>4. CASE BodyEnds(u) \/ DirectResult(u) \/ FinishDelayEnds(u) \/ DropFuture(u)
    <3>1. \A t \in Tasks : fut'[t] = "live" => fut[t] = "live"
      BY <2>4 DEF BodyEnds, DirectResult, FinishDelayEnds, DropFuture, Complete
    <3> QED
      BY <1>1, <2>4, <3>1 DEF BodyEnds, DirectResult, FinishDelayEnds, DropFuture, Complete,
         nodeVars, seenVars
  <2> QED
    BY <1>4, <2>1, <2>2, <2>3, <2>4 DEF Executor
<1>5. ASSUME NEW u \in Tasks, Pool(u)
      PROVE  DelayedKnown' /\ JobSubmitted'
  BY <1>1, <1>5 DEF Pool, StartJob, EndJob, nodeVars, seenVars
<1>6. CASE BeginGracefulShutdown
  <2>1. \A t \in Tasks : ~old_shutdown[t]
    BY <1>6 DEF BeginGracefulShutdown
  <2> QED
    BY <1>6, <2>1 DEF BeginGracefulShutdown
<1>7. CASE Kill \/ UNCHANGED vars
  BY <1>7 DEF Kill, vars, nodeVars, seenVars
<1>8. ASSUME NEW S, fut' = Cancelled(S) \/ fut' = fut,
             UNCHANGED <<nodeVars, stage, job, delayed, old_shutdown>>
      PROVE  DelayedKnown' /\ JobSubmitted'
  BY <1>1, <1>8 DEF Cancelled, nodeVars
<1>9. ASSUME NEW S, AbortTasks(S), UNCHANGED <<nodeVars, stage, job, delayed, old_shutdown>>
      PROVE  DelayedKnown' /\ JobSubmitted'
  BY <1>8, <1>9 DEF AbortTasks
<1>10. CASE \/ \E u \in Tasks : Abort(u) \/ AbortByHandle(u)
            \/ AbortAll \/ Shutdown
  BY <1>9, <1>10 DEF Abort, AbortByHandle, AbortAll, Shutdown
<1>11. CASE \/ \E u \in Tasks : DropHandle(u) \/ DropAbortHandle(u) \/ Join(u)
            \/ DetachAll \/ ShutdownReturns \/ JoinAll
  BY <1>8, <1>11 DEF DropHandle, DropAbortHandle, Join, DetachAll, ShutdownReturns, JoinAll,
     Detach, seenVars
<1>12. CASE DropSet \/ JoinAllReturns \/ \E u \in Tasks : JoinAllPanics(u)
  BY <1>8, <1>12 DEF DropSet, JoinAllReturns, JoinAllPanics, SetDropped
<1> QED
  BY <1>2, <1>3, <1>4, <1>5, <1>6, <1>7, <1>10, <1>11, <1>12 DEF Next

\* Every step that closes or drops a future, or tells the owner of a cancellation, has
\* or leaves a cause.
LEMMA CancelledStep ==
  ASSUME JoinInv, [Next]_vars, TypeOK'
  PROVE  CancelledHasCause'
<1>0. \A t \in Tasks : HasCause(t) => HasCause(t)'
  BY CauseStays
<1> USE DEF JoinInv, TypeOK, CancelledHasCause
<1>1. ASSUME \A t \in Tasks : fut'[t] \in {"closed", "dropped"} =>
                fut[t] \in {"closed", "dropped"} \/ HasCause(t) \/ HasCause(t)',
             \A t \in Tasks : res'[t] = "cancelled" =>
                res[t] = "cancelled" \/ HasCause(t) \/ HasCause(t)'
      PROVE  CancelledHasCause'
  BY <1>0, <1>1
<1>2. CASE \/ \E u \in Tasks : Pool(u) \/ DropAbortHandle(u)
           \/ BeginGracefulShutdown \/ Kill \/ ShutdownReturns \/ JoinAll \/ UNCHANGED vars
  BY <1>1, <1>2 DEF Pool, StartJob, EndJob, DropAbortHandle, BeginGracefulShutdown, Kill,
     ShutdownReturns, JoinAll, vars, ownerVars
<1>3. CASE \E u \in Tasks, where \in {"held", "set"} :
             Spawn(u, where) \/ \E l \in Latencies : SpawnBlocking(u, where, l)
  BY <1>1, <1>3 DEF Spawn, SpawnBlocking, Start, CancelledHandle
<1>4. ASSUME NEW u \in Tasks, Executor(u)
      PROVE  CancelledHasCause'
  <2>0. res' = res
    BY <1>4 DEF Executor, BodyEnds, Submit, CancelQueued, DirectResult, ResultArrives,
       FinishDelayEnds, DropFuture, Complete, ownerVars
  <2>1. CASE CancelQueued(u)
    <3>1. HasCause(u)
      BY <2>1 DEF CancelQueued, Polled, IsShuttingDown, DelayedKnown, HasCause
    <3> QED
      BY <1>1, <2>0, <2>1, <3>1 DEF CancelQueued, SelfAborted, Cancelled
  <2>2. CASE DropFuture(u)
    <3>1. HasCause(u)
      BY <2>2 DEF DropFuture, HasCause
    <3> QED
      BY <1>1, <2>0, <2>2, <3>1 DEF DropFuture
  <2> QED
    BY <1>1, <1>4, <2>0, <2>1, <2>2 DEF Executor, BodyEnds, Submit, DirectResult,
       ResultArrives, FinishDelayEnds, Complete
<1>5. ASSUME NEW S, AbortTasks(S), res' = res
      PROVE  CancelledHasCause'
  <2>1. \A t \in Tasks : fut[t] = "live" /\ fut'[t] = "closed" => HasCause(t)'
    BY <1>5 DEF AbortTasks, Cancelled, HasCause
  <2>2. \A t \in Tasks : fut'[t] = fut[t] \/ (fut[t] = "live" /\ fut'[t] = "closed")
    BY <1>5 DEF AbortTasks, Cancelled
  <2> QED
    BY <1>1, <1>5, <2>1, <2>2
<1>6. CASE \/ \E u \in Tasks : Abort(u) \/ AbortByHandle(u)
           \/ AbortAll \/ Shutdown
  BY <1>5, <1>6 DEF Abort, AbortByHandle, AbortAll, Shutdown, ownerVars
<1>7. CASE DetachAll \/ \E u \in Tasks : DropHandle(u)
  BY <1>1, <1>7 DEF DetachAll, DropHandle, Detach
<1>8. ASSUME NEW u \in Tasks, Outcome(u) = "cancelled", handle[u] \in {"held", "set"}
      PROVE  HasCause(u)
  BY <1>8 DEF Outcome, EmptySlotHasCause
<1>9. ASSUME NEW u \in Tasks, Join(u)
      PROVE  CancelledHasCause'
  <2>1. CASE Outcome(u) = "pending"
    BY <1>1, <1>9, <2>1 DEF Join
  <2>2. CASE Outcome(u) # "pending"
    BY <1>1, <1>8, <1>9, <2>2 DEF Join, Detach
  <2> QED
    BY <2>1, <2>2
<1>10. ASSUME NEW S, SetDropped(S)
       PROVE  \A t \in Tasks : fut'[t] \in {"closed", "dropped"} =>
                fut[t] \in {"closed", "dropped"} \/ HasCause(t)'
  BY <1>10 DEF SetDropped, Cancelled, HasCause
<1>11. CASE DropSet \/ JoinAllReturns
  BY <1>1, <1>10, <1>11 DEF DropSet, JoinAllReturns
<1>12. ASSUME NEW u \in Tasks, JoinAllPanics(u)
       PROVE  CancelledHasCause'
  <2>1. HasCause(u)
    BY <1>8, <1>12 DEF JoinAllPanics, Fatal
  <2>2. res' = [res EXCEPT ![u] = "cancelled"] /\ SetDropped(Members \ {u})
    BY <1>12 DEF JoinAllPanics
  <2> QED
    BY <1>1, <1>10, <2>1, <2>2
<1> QED
  BY <1>2, <1>3, <1>4, <1>6, <1>7, <1>9, <1>11, <1>12 DEF Next

-----------------------------------------------------------------------------
(* The theorems.                                                            *)

\* Nothing is spawned yet, so nothing can be cancelled or queued.
LEMMA JoinInit == Init => JoinInv
<1> SUFFICES ASSUME Init PROVE JoinInv
  OBVIOUS
<1>1. TypeOK
  BY DEF Init, TypeOK, Futures, Stages, Jobs
<1>2. NotSpawned /\ EmptySlotHasCause /\ CancelledHasCause
  BY DEF Init, NotSpawned, EmptySlotHasCause, CancelledHasCause
<1>3. DelayedKnown /\ JobSubmitted
  BY DEF Init, DelayedKnown, JobSubmitted
<1> QED
  BY <1>1, <1>2, <1>3 DEF JoinInv

\* The invariant of tasks, slots and handles, through every order of spawns, polls,
\* aborts, drops, a graceful shutdown and a kill.
THEOREM JoinInvariant == Spec => []JoinInv
<1>1. JoinInv /\ [Next]_vars => JoinInv'
  <2> SUFFICES ASSUME JoinInv, [Next]_vars PROVE JoinInv'
    OBVIOUS
  <2>1. TypeOK'
    BY TypesStep DEF JoinInv
  <2> QED
    BY <2>1, NotSpawnedStep, EmptySlotStep, DelayedStep, CancelledStep DEF JoinInv
<1> QED
  BY <1>1, JoinInit, PTL DEF Spec

\* JoinHandle, AbortHandle and JoinSet: no task is dropped unfinished, and no owner is
\* told that it was cancelled, unless somebody aborted it, its node was killed, or a
\* graceful shutdown found it queued or was there before it.
THEOREM NothingCancelledWithoutCause == Spec => []CancelledHasCause
<1>1. JoinInv => CancelledHasCause
  BY DEF JoinInv
<1> QED
  BY <1>1, JoinInvariant, PTL

\* spawn_blocking and begin_graceful_shutdown: work that the shutdown found in its start
\* delay never reaches the blocking pool, nor does work spawned after it.
THEOREM QueuedWorkNeverRuns == Spec => []QueuedNeverRuns
<1>1. JoinInv => QueuedNeverRuns
  BY JoinAssumption DEF JoinInv, DelayedKnown, JobSubmitted, QueuedNeverRuns
<1> QED
  BY <1>1, JoinInvariant, PTL

=============================================================================
