------------------------- MODULE BlockingPoolProofs -------------------------
(***************************************************************************)
(* Proofs about BlockingPool, for every number of threads, jobs, nodes and *)
(* incarnations.  PoolInv is the inductive invariant; the properties the   *)
(* runs check follow from it.                                              *)
(***************************************************************************)
EXTENDS BlockingPool, TLAPS

-----------------------------------------------------------------------------
(* The inductive invariant.                                                 *)

\* Who holds the turn: the main thread while it polls or grants, else the one
\* thread it named; at the teardown nobody runs a closure.
Baton ==
  /\ mpc \in {"poll", "grant"} => turn = Idle
  /\ mpc = "wait" => turn # Shutdown
  /\ mpc = "down" => \/ turn = Shutdown
                     \/ turn = Idle /\ \A i \in Threads : tpc[i] = "unborn"
  /\ turn = Shutdown => \A i \in Threads : tpc[i] \notin {"run", "body", "panicking"}
  /\ \A i \in Threads : Active(i) => turn \in {Run(i), Abort(i), Shutdown}

\* A thread has a current job exactly while it is inside a closure.
Occupied ==
  \A i \in Threads : current[i] # NoJob <=> tpc[i] \in {"body", "parked", "panicking"}

\* No job is submitted for an incarnation that does not exist yet.
BornBounded == \A j \in Jobs : born[j] <= inc[node[j]]

\* A thread's pending abort means its job was killed, and a killed job's thread
\* has its abort pending or granted.
AbortsPending ==
  \A i \in Threads :
    /\ i \in abort_requested /\ turn # Shutdown =>
         current[i] # NoJob /\ Killed(current[i])
    /\ current[i] # NoJob /\ Killed(current[i]) =>
         i \in abort_requested \/ turn = Abort(i)
    /\ turn = Abort(i) => /\ i \notin abort_requested
                          /\ tpc[i] \in {"parked", "drop", "end"}
    /\ turn = Abort(i) /\ tpc[i] = "parked" => Killed(current[i])
    /\ turn = Run(i) /\ tpc[i] = "parked" => ~Killed(current[i])

PanicsTracked ==
  /\ \A j \in Jobs : job[j] = "panicked" => j \in restarts \cup pending_panics
  /\ mpc = "poll" => pending_panics = {}

\* With closures that stay on their own node, a panic follows a kill of it.
PanicsKilled ==
  EnterNode = FALSE =>
    /\ \A i \in Threads : tpc[i] = "panicking" => Killed(current[i])
    /\ LostResultMeansKilled

PoolInv ==
  /\ TypeOK
  /\ Baton
  /\ Occupied
  /\ BornBounded
  /\ JobsConserved
  /\ AbortsPending
  /\ PanicsTracked
  /\ PanicsKilled

-----------------------------------------------------------------------------

\* The four kinds of turn are distinct, and a turn names one thread.
LEMMA TurnFacts ==
  /\ Idle # Shutdown
  /\ \A i \in Threads : /\ Run(i) \notin {Idle, Shutdown}
                        /\ Abort(i) \notin {Idle, Shutdown}
  /\ \A i, k \in Threads : /\ Run(i) # Abort(k)
                           /\ Run(i) = Run(k) => i = k
                           /\ Abort(i) = Abort(k) => i = k
  /\ Idle \in Turn /\ Shutdown \in Turn
  /\ \A i \in Threads : Run(i) \in Turn /\ Abort(i) \in Turn
BY DEF Idle, Shutdown, Run, Abort, Turn

\* Every step keeps the variables in their types.
LEMMA TypeStep == TypeOK /\ Occupied /\ [Next]_vars => TypeOK'
<1> SUFFICES ASSUME TypeOK, Occupied, [Next]_vars PROVE TypeOK'
  OBVIOUS
<1> USE PoolAssumption, TurnFacts
    DEF TypeOK, nodeVars, jobVars, quantum, mainVars, JobStage, ThreadPlace,
        MainPlace
<1>1. ASSUME NEW j \in Jobs, NEW n \in Nodes, NEW k \in 0 .. MaxInc, Spawn(j, n, k)
      PROVE  TypeOK'
  BY <1>1 DEF Spawn
<1>2. ASSUME NEW n \in Nodes, Kill(n) PROVE TypeOK'
  BY <1>2 DEF Kill, KillEffect, RequestAbortNode
<1>3. ASSUME NEW n \in Nodes, Pause(n) PROVE TypeOK'
  BY <1>3 DEF Pause
<1>4. ASSUME NEW n \in Nodes, Resume(n) PROVE TypeOK'
  BY <1>4 DEF Resume
<1>5. ASSUME NEW i \in Threads, ThreadStep(i) PROVE TypeOK'
  <2>1. CASE TopTurn(i)
    BY <2>1 DEF TopTurn, MyTurn
  <2>3. ASSUME NEW j \in Jobs, RunOneKilled(i, j) PROVE TypeOK'
    BY <2>3 DEF RunOneKilled
  <2>4. ASSUME NEW j \in Jobs, RunOnePaused(i, j) PROVE TypeOK'
    BY <2>4 DEF RunOnePaused
  <2>5. ASSUME NEW j \in Jobs, RunOneStart(i, j) PROVE TypeOK'
    BY <2>5 DEF RunOneStart
  <2>6. CASE Yield(i)
    BY <2>6 DEF Yield, EndedTurn
  <2>7. CASE YieldRun(i)
    BY <2>7 DEF YieldRun
  <2>8. CASE YieldUnwind(i)
    BY <2>8 DEF YieldUnwind
  <2>9. CASE Complete(i)
    BY <2>9 DEF Complete
  <2>10. ASSUME NEW n \in Nodes, KillCurrentNode(i, n) PROVE TypeOK'
    BY <2>10 DEF KillCurrentNode, KillEffect, RequestAbortNode
  <2>11. CASE CatchPanic(i)
    BY <2>11 DEF CatchPanic, Occupied
  <2>12. CASE Dropped(i)
    BY <2>12 DEF Dropped
  <2>13. CASE EndTurn(i)
    BY <2>13 DEF EndTurn, EndedTurn
  <2> QED
    BY <1>5, <2>1, <2>3, <2>4, <2>5, <2>6, <2>7, <2>8, <2>9, <2>10, <2>11,
       <2>12, <2>13 DEF ThreadStep
<1>6. CASE MainStep
  <2>1. CASE WakeRound
    BY <2>1 DEF WakeRound, Candidates
  <2>2. CASE WakeNobody
    BY <2>2 DEF WakeNobody, TakePanics
  <2>3. ASSUME NEW i \in Threads, Grant(i) PROVE TypeOK'
    <3>1. Offer(i) \in Turn
      BY DEF Offer
    <3> QED
      BY <2>3, <3>1 DEF Grant
  <2>4. CASE Granted
    BY <2>4 DEF Granted
  <2>5. CASE RoundEnd
    BY <2>5 DEF RoundEnd, TakePanics
  <2>6. CASE ShutdownPool
    BY <2>6 DEF ShutdownPool
  <2>7. ASSUME NEW j \in Jobs, DrainQueue(j) PROVE TypeOK'
    BY <2>7 DEF DrainQueue
  <2> QED
    BY <1>6, <2>1, <2>2, <2>3, <2>4, <2>5, <2>6, <2>7 DEF MainStep
<1>7. CASE Terminated \/ UNCHANGED vars
  BY <1>7 DEF Terminated, vars
<1> QED
  BY <1>1, <1>2, <1>3, <1>4, <1>5, <1>6, <1>7 DEF Next

-----------------------------------------------------------------------------

\* The parts of PoolInv beside the types.
Control == Baton /\ Occupied /\ BornBounded /\ JobsConserved /\ AbortsPending
             /\ PanicsTracked /\ PanicsKilled

\* Every step of the pool preserves the parts of PoolInv beside the types.
LEMMA ControlStep == PoolInv /\ [Next]_vars => Control'
<1> SUFFICES ASSUME PoolInv, [Next]_vars PROVE Control'
  OBVIOUS
<1>0. TypeOK'
  BY TypeStep DEF PoolInv
<1> USE <1>0, PoolAssumption, TurnFacts
    DEF PoolInv, Control, TypeOK, Baton, Occupied, BornBounded, JobsConserved,
        AbortsPending, PanicsTracked, PanicsKilled, LostResultMeansKilled, Killed, Active,
        ActivePlace, UserPlace, nodeVars, jobVars, quantum, mainVars
<1>1. ASSUME NEW j \in Jobs, NEW n \in Nodes, NEW k \in 0 .. MaxInc, Spawn(j, n, k) PROVE Control'
  BY <1>1 DEF Spawn, UserCode
<1>2. ASSUME NEW n \in Nodes, Kill(n) PROVE Control'
  <2>1. Baton'
    BY <1>2 DEF Kill, KillEffect, RequestAbortNode, UserCode
  <2>2. Occupied' /\ BornBounded'
    BY <1>2 DEF Kill, KillEffect, RequestAbortNode, UserCode
  <2>3. JobsConserved'
    BY <1>2 DEF Kill, KillEffect, RequestAbortNode, UserCode
  <2>4. AbortsPending'
    BY <1>2 DEF Kill, KillEffect, RequestAbortNode, UserCode
  <2>5. PanicsTracked'
    BY <1>2 DEF Kill, KillEffect, RequestAbortNode, UserCode
  <2>6. PanicsKilled'
    BY <1>2 DEF Kill, KillEffect, RequestAbortNode, UserCode
  <2> QED
    BY <2>1, <2>2, <2>3, <2>4, <2>5, <2>6
<1>3. ASSUME NEW n \in Nodes, Pause(n) PROVE Control'
  BY <1>3 DEF Pause
<1>4. ASSUME NEW n \in Nodes, Resume(n) PROVE Control'
  BY <1>4 DEF Resume
<1>5. ASSUME NEW i \in Threads, ThreadStep(i) PROVE Control'
  <2>1. CASE TopTurn(i)
    BY <2>1 DEF TopTurn, MyTurn
  <2>3. ASSUME NEW j \in Jobs, RunOneKilled(i, j) PROVE Control'
    BY <2>3 DEF RunOneKilled
  <2>4. ASSUME NEW j \in Jobs, RunOnePaused(i, j) PROVE Control'
    BY <2>4 DEF RunOnePaused
  <2>5. ASSUME NEW j \in Jobs, RunOneStart(i, j) PROVE Control'
    BY <2>5 DEF RunOneStart
  <2>6. CASE Yield(i)
    BY <2>6 DEF Yield, EndedTurn
  <2>7. CASE YieldRun(i)
    BY <2>7 DEF YieldRun
  <2>8. CASE YieldUnwind(i)
    <3>1. Baton'
      BY <2>8 DEF YieldUnwind
    <3>2. Occupied' /\ BornBounded'
      BY <2>8 DEF YieldUnwind
    <3>3. JobsConserved'
      BY <2>8 DEF YieldUnwind
    <3>4. AbortsPending'
      BY <2>8 DEF YieldUnwind
    <3>5. PanicsTracked'
      BY <2>8 DEF YieldUnwind
    <3>6. PanicsKilled'
      BY <2>8 DEF YieldUnwind
    <3> QED
      BY <3>1, <3>2, <3>3, <3>4, <3>5, <3>6
  <2>9. CASE Complete(i)
    BY <2>9 DEF Complete
  <2>10. ASSUME NEW n \in Nodes, KillCurrentNode(i, n) PROVE Control'
    <3>1. Baton'
      BY <2>10 DEF KillCurrentNode, KillEffect, RequestAbortNode
    <3>2. Occupied' /\ BornBounded'
      BY <2>10 DEF KillCurrentNode, KillEffect, RequestAbortNode
    <3>3. JobsConserved'
      BY <2>10 DEF KillCurrentNode, KillEffect, RequestAbortNode
    <3>4. AbortsPending'
      BY <2>10 DEF KillCurrentNode, KillEffect, RequestAbortNode
    <3>5. PanicsTracked'
      BY <2>10 DEF KillCurrentNode, KillEffect, RequestAbortNode
    <3>6. PanicsKilled'
      BY <2>10 DEF KillCurrentNode, KillEffect, RequestAbortNode
    <3> QED
      BY <3>1, <3>2, <3>3, <3>4, <3>5, <3>6
  <2>11. CASE CatchPanic(i)
    BY <2>11 DEF CatchPanic
  <2>12. CASE Dropped(i)
    BY <2>12 DEF Dropped
  <2>13. CASE EndTurn(i)
    BY <2>13 DEF EndTurn, EndedTurn
  <2> QED
    BY <1>5, <2>1, <2>3, <2>4, <2>5, <2>6, <2>7, <2>8, <2>9, <2>10, <2>11, <2>12, <2>13 DEF ThreadStep
<1>6. CASE MainStep
  <2>1. CASE WakeRound
    BY <2>1 DEF WakeRound, Started
  <2>2. CASE WakeNobody
    BY <2>2 DEF WakeNobody, TakePanics
  <2>3. ASSUME NEW i \in Threads, Grant(i) PROVE Control'
    BY <2>3 DEF Grant, Offer
  <2>4. CASE Granted
    BY <2>4 DEF Granted
  <2>5. CASE RoundEnd
    BY <2>5 DEF RoundEnd, TakePanics
  <2>6. CASE ShutdownPool
    BY <2>6 DEF ShutdownPool, Started
  <2>7. ASSUME NEW j \in Jobs, DrainQueue(j) PROVE Control'
    BY <2>7 DEF DrainQueue
  <2> QED
    BY <1>6, <2>1, <2>2, <2>3, <2>4, <2>5, <2>6, <2>7 DEF MainStep
<1>7. CASE Terminated \/ UNCHANGED vars
  BY <1>7 DEF Terminated, vars
<1> QED
  BY <1>1, <1>2, <1>3, <1>4, <1>5, <1>6, <1>7 DEF Next

\* PoolInv holds in every reachable state of the pool.
THEOREM PoolInvariant == Spec => []PoolInv
<1>1. Init => PoolInv
  <2> SUFFICES ASSUME Init PROVE PoolInv
    OBVIOUS
  <2>1. (CHOOSE n \in Nodes : TRUE) \in Nodes
    BY PoolAssumption
  <2> QED
    BY <2>1, PoolAssumption, TurnFacts
    DEF Init, PoolInv, TypeOK, Baton, Occupied, BornBounded, JobsConserved,
        AbortsPending, PanicsTracked, PanicsKilled, LostResultMeansKilled, Active,
        ActivePlace, UserPlace, Killed, JobStage, ThreadPlace, MainPlace
<1>2. PoolInv /\ [Next]_vars => PoolInv'
  <2>1. PoolInv /\ [Next]_vars => TypeOK'
    BY TypeStep DEF PoolInv
  <2> QED
    BY <2>1, ControlStep DEF PoolInv, Control
<1> QED
  BY <1>1, <1>2, PTL DEF Spec

\* ThreadQuantum: at most one of the main thread and the pool threads runs.
THEOREM MutualExclusion == Spec => []OneRunner
<1>1. PoolInv => OneRunner
  BY TurnFacts DEF PoolInv, TypeOK, MainPlace, Baton, OneRunner, Active
<1> QED
  BY <1>1, PoolInvariant, PTL

\* request_abort_node and wake_round: an abort reaches the killed job it was
\* requested for, parked at a yield point.
THEOREM AbortTargets == Spec => []AbortsHitTheirTarget
<1>1. PoolInv => AbortsHitTheirTarget
  BY DEF PoolInv, AbortsPending, AbortsHitTheirTarget, Active, ActivePlace,
         UserPlace
<1> QED
  BY <1>1, PoolInvariant, PTL

\* run_one, note_complete, yield_turn: no job is lost or duplicated.
THEOREM Conservation == Spec => []JobsConserved
<1>1. PoolInv => JobsConserved
  BY DEF PoolInv
<1> QED
  BY <1>1, PoolInvariant, PTL

\* The `unreachable!` of await_blocking is unreachable as long as closures call
\* kill_current_node for the node they were spawned on.
THEOREM ResultsLostByKill ==
  ASSUME EnterNode = FALSE PROVE Spec => []LostResultMeansKilled
<1>1. PoolInv => LostResultMeansKilled
  BY DEF PoolInv, PanicsKilled
<1> QED
  BY <1>1, PoolInvariant, PTL

\* run_blocking_thread and wake_round: no kill_current_node panic is forgotten.
THEOREM PanicDelivery == Spec => []PanicsDelivered
<1>1. PoolInv => PanicsDelivered
  BY DEF PoolInv, PanicsTracked, PanicsDelivered
<1> QED
  BY <1>1, PoolInvariant, PTL

\* yield_turn: a killed closure is not resumed.
THEOREM NoResurrection == Spec => KilledNeverResumed
<1> DEFINE Step == \A i \in Threads :
             tpc[i] = "parked" /\ tpc'[i] = "body" => ~Killed(current[i])
<1>1. PoolInv /\ [Next]_vars => [Step]_vars
  <2> SUFFICES ASSUME PoolInv, Next, NEW i \in Threads,
                      tpc[i] = "parked", tpc'[i] = "body"
               PROVE  ~Killed(current[i])
    OBVIOUS
  <2>1. \E k \in Threads : YieldRun(k)
    BY DEF Next, Spawn, Kill, Pause, Resume, ThreadStep, TopTurn,
           RunOneKilled, RunOnePaused, RunOneStart, Yield, YieldUnwind, Complete,
           KillCurrentNode, CatchPanic, Dropped, EndTurn, MainStep, WakeRound,
           WakeNobody, Grant, Granted, RoundEnd, ShutdownPool, DrainQueue,
           Terminated, vars, PoolInv, TypeOK, mainVars
  <2> QED
    BY <2>1, TurnFacts DEF YieldRun, PoolInv, AbortsPending, TypeOK
<1> QED
  BY <1>1, PoolInvariant, PTL DEF Spec, KilledNeverResumed

-----------------------------------------------------------------------------
(* The pool implements BlockingService.                                     *)

St == [j \in Jobs |-> ServiceStatus(j)]

\* Where a job is for the service, read off the pool's state.
StatusMap ==
  \A j \in Jobs :
    /\ St[j] = "running" <=>
         \E i \in Threads : current[i] = j /\ tpc[i] \in {"body", "panicking"}
    /\ St[j] = "waiting" <=>
         \E i \in Threads : current[i] = j /\ tpc[i] = "parked"
    /\ St[j] = "cancelled" <=> job[j] \in {"dropped", "aborted", "panicked", "torn"}
    /\ \A s \in {"new", "queued", "done"} : St[j] = s <=> job[j] = s

\* The refinement mapping gives every job the status its thread's place implies.
LEMMA StatusFacts == PoolInv => StatusMap
<1> SUFFICES ASSUME PoolInv PROVE StatusMap
  OBVIOUS
<1> USE DEF StatusMap
<1> TAKE j \in Jobs
<1>1. St[j] = ServiceStatus(j)
  BY DEF St
<1>2. CASE job[j] = "running"
  <2>1. PICK i \in Threads : current[i] = j
    BY <1>2 DEF PoolInv, JobsConserved
  <2>2. /\ \A k \in Threads : current[k] = j => k = i
        /\ tpc[i] \in {"body", "parked", "panicking"}
    BY <2>1, PoolAssumption DEF PoolInv, JobsConserved, Occupied
  <2>3. CASE tpc[i] = "parked"
    BY <1>1, <1>2, <2>1, <2>2, <2>3 DEF ServiceStatus
  <2>4. CASE tpc[i] # "parked"
    <3>1. ServiceStatus(j) = "running"
      BY <1>2, <2>2, <2>4 DEF ServiceStatus
    <3> QED
      BY <1>1, <1>2, <2>1, <2>2, <2>4, <3>1
  <2> QED
    BY <2>3, <2>4
<1>3. CASE job[j] # "running"
  <2>1. \A i \in Threads : current[i] # j
    BY <1>3 DEF PoolInv, JobsConserved
  <2>2. ServiceStatus(j) = IF job[j] \in {"new", "queued", "done"} THEN job[j]
                           ELSE "cancelled"
    BY <1>3 DEF ServiceStatus
  <2> QED
    BY <1>1, <1>3, <2>1, <2>2 DEF PoolInv, TypeOK, JobStage
<1> QED
  BY <1>2, <1>3

\* Pool threads that are not inside a closure run no job of the service.
LEMMA QuietFacts ==
  ASSUME PoolInv,
         \A i \in Threads : tpc[i] \notin {"body", "panicking"}
  PROVE  \A j \in Jobs : St[j] # "running"
BY StatusFacts DEF StatusMap

\* Job k has not moved.
Same(k) ==
  /\ job'[k] = job[k]
  /\ (\E i \in Threads : current[i] = k /\ tpc[i] = "parked")
       <=> (\E i \in Threads : current'[i] = k /\ tpc'[i] = "parked")

\* A job that has not moved keeps its status.
LEMMA SameStatus == ASSUME NEW k \in Jobs, Same(k) PROVE St'[k] = St[k]
BY DEF Same, St, ServiceStatus

\* A step that moves one job changes that job's status only.
LEMMA MovedStatus ==
  ASSUME NEW j \in Jobs, NEW s, St'[j] = s, \A k \in Jobs \ {j} : Same(k)
  PROVE  St' = [St EXCEPT ![j] = s]
<1>1. \A k \in Jobs \ {j} : St'[k] = St[k]
  BY SameStatus
<1>2. St' = [k \in Jobs |-> St'[k]] /\ DOMAIN St = Jobs
  BY DEF St
<1> QED
  BY <1>1, <1>2

\* A step that moves no job changes no status.
LEMMA UnmovedStatus == ASSUME \A k \in Jobs : Same(k) PROVE St' = St
<1>1. \A k \in Jobs : St'[k] = St[k]
  BY SameStatus
<1> QED
  BY <1>1 DEF St

\* Every step of the pool is a step of the service or leaves it unchanged.
LEMMA ServiceStep ==
  ASSUME EnterNode = FALSE, PoolInv, PoolInv', [Next]_vars, StatusMap, StatusMap'
  PROVE  [Service!Next]_(Service!vars)
<1> USE PoolAssumption, TurnFacts
    DEF nodeVars, jobVars, quantum, mainVars, Same
<1>t. TypeOK /\ Occupied /\ JobsConserved /\ BornBounded
  BY DEF PoolInv
<1>s. St = [j \in Jobs |-> ServiceStatus(j)]
  BY DEF St
<1>1. ASSUME NEW j \in Jobs, NEW n \in Nodes, NEW k \in 0 .. MaxInc, Spawn(j, n, k)
      PROVE  Service!Next
  <2>1. St[j] = "new" /\ St'[j] = "queued" /\ k \in 0 .. inc[n]
    BY <1>1, <1>t DEF StatusMap, Spawn, TypeOK
  <2>2. St' = [St EXCEPT ![j] = "queued"]
    BY <1>1, <1>t, <2>1, MovedStatus DEF Spawn, TypeOK
  <2>3. Service!Submit(j, n, k)
    BY <1>1, <1>s, <2>1, <2>2 DEF Spawn, Service!Submit, St
  <2> QED
    BY <2>1, <2>3 DEF Service!Next
<1>2. ASSUME NEW n \in Nodes, KillEffect(n), UNCHANGED <<jobVars, current, mpc>>,
             \A i \in Threads : tpc[i] = "parked" <=> tpc'[i] = "parked"
      PROVE  Service!Next
  <2>1. St' = St
    BY <1>2, UnmovedStatus
  <2>2. Service!Kill(n)
    BY <1>2, <2>1 DEF KillEffect, Service!Kill, St
  <2> QED
    BY <2>2 DEF Service!Next
<1>3. ASSUME UNCHANGED <<inc, jobVars, current>>, mpc' = "down" <=> mpc = "down",
             \A i \in Threads : tpc[i] = "parked" <=> tpc'[i] = "parked"
      PROVE  UNCHANGED Service!vars
  <2>1. St' = St
    BY <1>3, UnmovedStatus
  <2> QED
    BY <1>3, <2>1 DEF Service!vars, St
<1>4. ASSUME NEW i \in Threads, ThreadStep(i) PROVE [Service!Next]_(Service!vars)
  <2>0. tpc \in [Threads -> ThreadPlace] /\ current \in [Threads -> Jobs \cup {NoJob}]
    BY <1>t DEF TypeOK
  <2>1. CASE TopTurn(i) \/ (\E j \in Jobs : RunOnePaused(i, j))
             \/ Dropped(i) \/ EndTurn(i)
    <3>1. tpc[i] # "parked" /\ tpc' = [tpc EXCEPT ![i] = tpc'[i]] /\ tpc'[i] # "parked"
      BY <2>0, <2>1 DEF TopTurn, MyTurn, RunOnePaused, Dropped, EndTurn
    <3>2. UNCHANGED <<inc, jobVars, current, mpc>>
      BY <2>1 DEF TopTurn, RunOnePaused, Dropped, EndTurn
    <3> QED
      BY <1>3, <2>0, <3>1, <3>2
  <2>2. ASSUME NEW j \in Jobs, RunOneKilled(i, j) PROVE Service!Next
    <3>1. current[i] = NoJob /\ St[j] = "queued" /\ St'[j] = "cancelled"
      BY <1>t, <2>0, <2>2 DEF RunOneKilled, Occupied, StatusMap, JobsConserved, TypeOK
    <3>2. St' = [St EXCEPT ![j] = "cancelled"]
      BY <1>t, <2>0, <2>2, <3>1, MovedStatus DEF RunOneKilled, TypeOK
    <3>3. Service!Cancel(j)
      BY <1>t, <2>2, <3>1, <3>2
      DEF RunOneKilled, Killed, TypeOK, Service!Cancel, Service!Alive, St
    <3> QED
      BY <3>3 DEF Service!Next
  <2>3. ASSUME NEW j \in Jobs, RunOneStart(i, j) PROVE Service!Next
    <3>1. current[i] = NoJob /\ St[j] = "queued" /\ St'[j] = "running"
      BY <1>t, <2>0, <2>3 DEF RunOneStart, Occupied, StatusMap, JobsConserved, TypeOK
    <3>2. St' = [St EXCEPT ![j] = "running"]
      BY <1>t, <2>0, <2>3, <3>1, MovedStatus DEF RunOneStart, TypeOK
    <3>3. \A k \in Threads : tpc[k] \notin {"body", "panicking"}
      BY <2>3 DEF RunOneStart, PoolInv, Baton, Active, ActivePlace, UserPlace
    <3>4. \A k \in Jobs : St[k] # "running"
      BY <3>3, QuietFacts
    <3>5. mpc # "down" /\ UNCHANGED mpc
      BY <2>3 DEF RunOneStart, PoolInv, Baton, Active, ActivePlace, UserPlace
    <3>6. born[j] = inc[node[j]]
      BY <1>t, <2>3 DEF RunOneStart, Killed, BornBounded, TypeOK
    <3>7. Service!Begin(j)
      BY <2>3, <3>1, <3>2, <3>4, <3>5, <3>6
      DEF RunOneStart, Service!Begin, Service!Alive, Service!NoneRunning, St
    <3> QED
      BY <3>7 DEF Service!Next
  <2>4. CASE Yield(i)
    <3>1. current[i] \in Jobs /\ St[current[i]] = "running" /\ St'[current[i]] = "waiting"
      BY <1>t, <2>0, <2>4 DEF Yield, Occupied, StatusMap
    <3>2. St' = [St EXCEPT ![current[i]] = "waiting"]
      BY <2>0, <2>4, <3>1, MovedStatus DEF Yield
    <3>3. Service!Pause(current[i])
      BY <2>4, <3>1, <3>2 DEF Yield, Service!Pause, St
    <3> QED
      BY <3>1, <3>3 DEF Service!Next
  <2>5. CASE YieldRun(i)
    <3>1. current[i] \in Jobs /\ St[current[i]] = "waiting" /\ St'[current[i]] = "running"
      BY <1>t, <2>0, <2>5 DEF YieldRun, Occupied, StatusMap
    <3>2. St' = [St EXCEPT ![current[i]] = "running"]
      BY <1>t, <2>0, <2>5, <3>1, MovedStatus DEF YieldRun, JobsConserved
    <3>3. \A k \in Threads : tpc[k] \notin {"body", "panicking"}
      BY <2>5 DEF YieldRun, PoolInv, Baton, Active, ActivePlace, UserPlace
    <3>4. \A k \in Jobs : St[k] # "running"
      BY <3>3, QuietFacts
    <3>5. mpc # "down" /\ UNCHANGED mpc
      BY <2>5 DEF YieldRun, PoolInv, Baton
    <3>6. born[current[i]] = inc[node[current[i]]]
      BY <1>t, <2>5, <3>1 DEF YieldRun, PoolInv, AbortsPending, Killed, BornBounded, TypeOK
    <3>7. Service!Begin(current[i])
      BY <2>5, <3>1, <3>2, <3>4, <3>5, <3>6
      DEF YieldRun, Service!Begin, Service!Alive, Service!NoneRunning, St
    <3> QED
      BY <3>1, <3>7 DEF Service!Next
  <2>6. CASE YieldUnwind(i)
    <3>1. current[i] \in Jobs /\ St[current[i]] = "waiting" /\ St'[current[i]] = "cancelled"
      BY <1>t, <2>0, <2>6 DEF YieldUnwind, Occupied, StatusMap, TypeOK
    <3>2. St' = [St EXCEPT ![current[i]] = "cancelled"]
      BY <1>t, <2>0, <2>6, <3>1, MovedStatus DEF YieldUnwind, TypeOK, JobsConserved
    <3>3. born[current[i]] # inc[node[current[i]]] \/ mpc = "down"
      BY <1>t, <2>6, <3>1
      DEF YieldUnwind, PoolInv, AbortsPending, Baton, Killed, TypeOK, MainPlace
    <3>4. Service!Cancel(current[i])
      BY <2>6, <3>1, <3>2, <3>3 DEF YieldUnwind, Service!Cancel, Service!Alive, St
    <3> QED
      BY <3>1, <3>4 DEF Service!Next
  <2>7. CASE Complete(i)
    <3>1. current[i] \in Jobs /\ St[current[i]] = "running" /\ St'[current[i]] = "done"
      BY <1>t, <2>0, <2>7 DEF Complete, Occupied, StatusMap, TypeOK
    <3>2. St' = [St EXCEPT ![current[i]] = "done"]
      BY <1>t, <2>0, <2>7, <3>1, MovedStatus DEF Complete, TypeOK
    <3>3. Service!Finish(current[i])
      BY <2>7, <3>1, <3>2 DEF Complete, Service!Finish, St
    <3> QED
      BY <3>1, <3>3 DEF Service!Next
  <2>8. ASSUME NEW n \in Nodes, KillCurrentNode(i, n) PROVE Service!Next
    BY <1>2, <2>0, <2>8 DEF KillCurrentNode
  <2>9. CASE CatchPanic(i)
    <3>1. current[i] \in Jobs /\ St[current[i]] = "running" /\ St'[current[i]] = "cancelled"
      BY <1>t, <2>0, <2>9 DEF CatchPanic, Occupied, StatusMap, TypeOK
    <3>2. St' = [St EXCEPT ![current[i]] = "cancelled"]
      BY <1>t, <2>0, <2>9, <3>1, MovedStatus DEF CatchPanic, TypeOK
    <3>3. born[current[i]] # inc[node[current[i]]]
      BY <1>t, <2>9, <3>1 DEF CatchPanic, PoolInv, PanicsKilled, Killed, TypeOK
    <3>4. Service!Cancel(current[i])
      BY <2>9, <3>1, <3>2, <3>3 DEF CatchPanic, Service!Cancel, Service!Alive, St
    <3> QED
      BY <3>1, <3>4 DEF Service!Next
  <2> QED
    BY <1>4, <2>1, <2>2, <2>3, <2>4, <2>5, <2>6, <2>7, <2>8, <2>9 DEF ThreadStep
<1>5. CASE MainStep
  <2>1. CASE WakeRound
    <3>1. \A i \in Threads : tpc[i] = "parked" <=> tpc'[i] = "parked"
      BY <2>1 DEF WakeRound, Started
    <3> QED
      BY <1>3, <2>1, <3>1 DEF WakeRound
  <2>2. CASE WakeNobody \/ (\E i \in Threads : Grant(i)) \/ Granted \/ RoundEnd
    BY <1>3, <2>2 DEF WakeNobody, Grant, Granted, RoundEnd
  <2>3. CASE ShutdownPool
    <3>1. St' = St
      BY <2>3, UnmovedStatus DEF ShutdownPool
    <3>2. \A i \in Threads : tpc[i] \notin {"body", "panicking"}
      BY <2>3 DEF ShutdownPool, PoolInv, Baton, Active, ActivePlace, UserPlace
    <3>3. \A k \in Jobs : St[k] # "running"
      BY <3>2, QuietFacts
    <3>4. Service!TearDown
      BY <2>3, <3>1, <3>3 DEF ShutdownPool, Service!TearDown, Service!NoneRunning, St
    <3> QED
      BY <3>4 DEF Service!Next
  <2>4. ASSUME NEW j \in Jobs, DrainQueue(j) PROVE Service!Next
    <3>1. St[j] = "queued" /\ St'[j] = "cancelled"
      BY <1>t, <2>4 DEF DrainQueue, StatusMap, JobsConserved, TypeOK
    <3>2. St' = [St EXCEPT ![j] = "cancelled"]
      BY <1>t, <2>4, <3>1, MovedStatus DEF DrainQueue, TypeOK
    <3>3. Service!Cancel(j)
      BY <2>4, <3>1, <3>2 DEF DrainQueue, Joined, Service!Cancel, St
    <3> QED
      BY <3>3 DEF Service!Next
  <2> QED
    BY <1>5, <2>1, <2>2, <2>3, <2>4 DEF MainStep
<1>6. ASSUME NEW n \in Nodes, Kill(n) \/ Pause(n) \/ Resume(n)
      PROVE  [Service!Next]_(Service!vars)
  BY <1>2, <1>3, <1>6 DEF Kill, Pause, Resume
<1>7. CASE Terminated \/ UNCHANGED vars
  BY <1>3, <1>7 DEF Terminated, vars
<1> QED
  BY <1>1, <1>4, <1>5, <1>6, <1>7 DEF Next

\* The pool implements the service that spawn_blocking promises, as long as
\* closures call kill_current_node for the node they were spawned on.
THEOREM PoolImplementsService ==
  ASSUME EnterNode = FALSE PROVE Spec => ServiceSpec
<1>1. Init => Service!Init
  <2> SUFFICES ASSUME Init PROVE Service!Init
    OBVIOUS
  <2>1. (CHOOSE n \in Nodes : TRUE) \in Nodes
    BY PoolAssumption
  <2>2. \A j \in Jobs : ServiceStatus(j) = "new"
    BY DEF Init, ServiceStatus
  <2> QED
    BY <2>1, <2>2 DEF Init, Service!Init
<1>2. PoolInv /\ PoolInv' /\ StatusMap /\ StatusMap' /\ [Next]_vars
        => [Service!Next]_(Service!vars)
  BY ServiceStep
<1>3. Spec => []PoolInv /\ []StatusMap
  BY PoolInvariant, StatusFacts, PTL
<1> QED
  BY <1>1, <1>2, <1>3, PTL DEF Spec, ServiceSpec, Service!Spec
=============================================================================
