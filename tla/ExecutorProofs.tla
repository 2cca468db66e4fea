--------------------------- MODULE ExecutorProofs ---------------------------
(***************************************************************************)
(* Proofs about Executor for any sets of nodes and tasks and any bounds.   *)
(***************************************************************************)
EXTENDS Executor, TLAPS

\* A runnable is tagged with the incarnation its task was spawned with, through
\* every trip to the paused list and back.
Tagged ==
  \A t \in Tasks : place[t] \in {"ready", "running", "idle", "parked"} =>
                     qinc[t] = tinc[t]

\* A task's incarnation is a past one, or the one of a node in the map.
Spawned ==
  \A t \in Tasks : place[t] # "new" =>
     /\ tinc[t] <= inc[tnode[t]]
     /\ tinc[t] = inc[tnode[t]] => tnode[t] \in exists

\* So is that of an entry of shutting_down.
Entries ==
  \A n \in Nodes, k \in 0 .. MaxInc : <<n, k>> \in shutting_down =>
     k <= inc[n] /\ (k = inc[n] => n \in exists)

\* Pausing and graceful shutdown are states of nodes in the map.
OnlyLive ==
  /\ paused \subseteq exists
  /\ \A n \in Nodes \ exists : polls_left[n] = NotShuttingDown

\* The three of one task.
TaskOK(t) ==
  /\ place[t] \in {"ready", "running", "idle", "parked"} => qinc[t] = tinc[t]
  /\ place[t] # "new" => /\ tinc[t] <= inc[tnode[t]]
                         /\ tinc[t] = inc[tnode[t]] => tnode[t] \in exists
  /\ place[t] = "parked" =>
       tnode[t] \in exists \cap paused /\ tinc[t] = inc[tnode[t]]

TaskInv == Tagged /\ Spawned /\ ParkedNotStranded
NodeInv == Entries /\ OnlyLive /\ ShutdownTracked
Inv == TypeOK /\ TaskInv /\ NodeInv

\* Where a kill leaves the tasks.
LEMMA PlaceFacts ==
  ASSUME TypeOK, NEW S
  PROVE  /\ PlaceAfterKill(S) \in [Tasks -> Places]
         /\ \A t \in Tasks : tnode[t] \notin S => PlaceAfterKill(S)[t] = place[t]
         /\ \A t \in Tasks : tnode[t] \in S /\ PlaceAfterKill(S)[t] # place[t] =>
              \/ place[t] = "parked" /\ PlaceAfterKill(S)[t] = "dropped"
              \/ place[t] = "idle" /\ PlaceAfterKill(S)[t] = "ready"
         /\ \A t \in Tasks : tnode[t] \in S => PlaceAfterKill(S)[t] # "parked"
BY DEF TypeOK, PlaceAfterKill, Places

\* The types after a kill of the nodes S.
LEMMA KillTypes ==
  ASSUME TypeOK, NEW S, NEW P \in [Tasks -> Places], KillNodes(S, P)
  PROVE  /\ inc' \in [Nodes -> 0 .. MaxInc]
         /\ paused' \subseteq Nodes
         /\ polls_left' \in [Nodes -> 0 .. NotShuttingDown]
         /\ place' \in [Tasks -> Places]
BY ExecutorAssumption DEF TypeOK, KillNodes, NotShuttingDown

\* Every step keeps the types.
LEMMA TypeStep == TypeOK /\ [Next]_vars => TypeOK'
<1> SUFFICES ASSUME TypeOK, [Next]_vars PROVE TypeOK'
  OBVIOUS
<1> USE ExecutorAssumption
<1>p. \A S : PlaceAfterKill(S) \in [Tasks -> Places]
  BY PlaceFacts
<1>q. \A n \in Nodes : Current(n) \in Infos
  BY DEF TypeOK, Current, Infos
<1>1. ASSUME NEW n \in Nodes, Kill(n) PROVE TypeOK'
  BY <1>1, <1>p, KillTypes DEF TypeOK, Kill
<1>2. ASSUME NEW n \in Nodes, DeleteNode(n) PROVE TypeOK'
  BY <1>2, <1>p, KillTypes DEF TypeOK, DeleteNode
<1>3. ASSUME NEW n \in Nodes, Pause(n) \/ Resume(n) PROVE TypeOK'
  BY <1>3 DEF TypeOK, Pause, Resume, taskVars, Places
<1>4. ASSUME NEW n \in Nodes, NEW T \in InitTask, RestartNode(n, T),
             restarts' \in [Nodes -> Nat]
      PROVE  TypeOK'
  <2> DEFINE P == [t \in Tasks |-> IF t \in T THEN "ready" ELSE PlaceAfterKill({n})[t]]
  <2>1. P \in [Tasks -> Places]
    BY <1>p DEF Places
  <2>2. KillNodes({n}, P)
    BY <1>4 DEF RestartNode
  <2> HIDE DEF P
  <2>3. inc[n] + 1 \in 0 .. MaxInc
    BY <2>2 DEF KillNodes, TypeOK
  <2> QED BY <1>4, <2>1, <2>2, <2>3, KillTypes DEF TypeOK, RestartNode
<1>5. ASSUME NEW n \in Nodes, NEW T \in InitTask, Restart(n, T) PROVE TypeOK'
  BY <1>4, <1>5 DEF Restart, TypeOK
<1>6. ASSUME NEW n \in Nodes, NEW T \in InitTask, CreateNode(n, T) PROVE TypeOK'
  BY <1>6 DEF TypeOK, CreateNode, Places
<1>7. ASSUME NEW t \in Tasks, Wake(t) \/ AbortTask(t) PROVE TypeOK'
  BY <1>7 DEF TypeOK, Wake, AbortTask, nodeVars, Places
<1>8. ASSUME NEW t \in Tasks, NEW n \in Nodes, NEW k \in 0 .. MaxInc, Spawn(t, n, k)
      PROVE  TypeOK'
  BY <1>8 DEF TypeOK, Spawn, nodeVars, Places
<1>9. ASSUME NEW n \in Nodes, NEW b \in 0 .. MaxBudget, NEW r \in BOOLEAN,
             BeginGracefulShutdown(n, b, r)
      PROVE  TypeOK'
  BY <1>9, <1>q DEF TypeOK, BeginGracefulShutdown, taskVars, NotShuttingDown
<1>10. ASSUME NEW i \in Infos, DeadlinePasses(i) PROVE TypeOK'
  BY <1>10 DEF TypeOK, DeadlinePasses, taskVars
<1>11. ASSUME NEW t \in Tasks, PopKilled(t) \/ PopPaused(t) PROVE TypeOK'
  BY <1>11 DEF TypeOK, PopKilled, PopPaused, nodeVars, Places
<1>12. ASSUME NEW t \in Tasks, PopBudgetSpent(t) PROVE TypeOK'
  <2> DEFINE P == [PlaceAfterKill({tnode[t]}) EXCEPT ![t] = "dropped"]
  <2>1. P \in [Tasks -> Places] /\ KillNodes({tnode[t]}, P)
    BY <1>p, <1>12 DEF PopBudgetSpent, Places
  <2> HIDE DEF P
  <2> QED BY <1>12, <2>1, KillTypes
          DEF TypeOK, PopBudgetSpent, ForgetShutdowns, ScheduleRestart
<1>13. ASSUME NEW t \in Tasks, PopRun(t) PROVE TypeOK'
  BY <1>13 DEF TypeOK, PopRun, Places, NotShuttingDown
<1>14. ASSUME NEW t \in Tasks, NEW w \in BOOLEAN, PollPending(t, w) PROVE TypeOK'
  BY <1>14 DEF TypeOK, PollPending, nodeVars, Places
<1>15. ASSUME NEW t \in Tasks, PollReady(t) \/ PollKilledBranch(t) PROVE TypeOK'
  BY <1>15 DEF TypeOK, PollReady, PollKilledBranch, nodeVars, Places
<1>16. ASSUME NEW t \in Tasks, NEW n \in Nodes, NEW r \in BOOLEAN,
              KillCurrentNode(t, n, r)
       PROVE  TypeOK'
  <2> DEFINE P == [PlaceAfterKill({n}) EXCEPT ![t] = "done"]
  <2>1. P \in [Tasks -> Places] /\ KillNodes({n}, P)
    BY <1>p, <1>16 DEF KillCurrentNode, Places
  <2> HIDE DEF P
  <2> QED BY <1>16, <2>1, KillTypes DEF TypeOK, KillCurrentNode, ScheduleRestart
<1>17. ASSUME NEW n \in Nodes, NEW T \in InitTask, RestartTimer(n, T) PROVE TypeOK'
  BY <1>4, <1>17 DEF RestartTimer, TypeOK, taskVars
<1>18. ASSUME FinishExpired PROVE TypeOK'
  BY <1>18, <1>p, KillTypes DEF TypeOK, FinishExpired, ForgetShutdowns
<1>19. ASSUME NextIteration \/ BlockOnEnds PROVE TypeOK'
  BY <1>19 DEF TypeOK, NextIteration, BlockOnEnds, nodeVars, taskVars
<1>20. CASE UNCHANGED vars
  BY <1>20 DEF TypeOK, vars
<1> QED BY <1>1, <1>2, <1>3, <1>5, <1>6, <1>7, <1>8, <1>9, <1>10, <1>11, <1>12,
           <1>13, <1>14, <1>15, <1>16, <1>17, <1>18, <1>19, <1>20
        DEF Next, UserCall, TaskStep, Terminated

\* A task that a kill of S finds in a good state is left in one.
LEMMA KillTask ==
  ASSUME TypeOK, TaskInv, NEW S \in SUBSET exists, NEW P, KillNodes(S, P),
         exists \ S \subseteq exists',
         NEW t \in Tasks,
         tnode'[t] = tnode[t], tinc'[t] = tinc[t], qinc'[t] = qinc[t],
         \/ P[t] = PlaceAfterKill(S)[t]
         \/ P[t] \in {"done", "dropped"} /\ place[t] # "new"
  PROVE  TaskOK(t)'
<1>1. \A n \in Nodes : inc'[n] = IF n \in S THEN inc[n] + 1 ELSE inc[n]
  BY DEF KillNodes
<1>2. place' = P /\ paused' = paused \ S
  BY DEF KillNodes
<1>3. TaskOK(t) /\ tnode[t] \in Nodes /\ tinc[t] \in Nat /\ inc[tnode[t]] \in Nat
  BY ExecutorAssumption DEF TypeOK, TaskInv, TaskOK, Tagged, Spawned, ParkedNotStranded
<1> QED BY <1>1, <1>2, <1>3, PlaceFacts, ExecutorAssumption DEF TaskOK, Killed

\* Every step keeps the tasks tagged, spawned in known incarnations, and parked
\* only where a resume finds them.
LEMMA TaskInvStep == Inv /\ [Next]_vars => TaskInv'
<1> SUFFICES ASSUME Inv, [Next]_vars PROVE TaskInv'
  OBVIOUS
<1> USE ExecutorAssumption
<1>i. TypeOK /\ TaskInv /\ OnlyLive
  BY DEF Inv, NodeInv
<1>k. \A t \in Tasks : TaskOK(t) /\ tnode[t] \in Nodes
  BY <1>i DEF TypeOK, TaskInv, TaskOK, Tagged, Spawned, ParkedNotStranded
<1>g. ASSUME \A t \in Tasks : TaskOK(t)' PROVE TaskInv'
  BY <1>g DEF TaskInv, TaskOK, Tagged, Spawned, ParkedNotStranded
<1>1. ASSUME NEW n \in Nodes, Kill(n) \/ DeleteNode(n) PROVE TaskInv'
  <2>1. /\ KillNodes({n}, PlaceAfterKill({n}))
        /\ {n} \in SUBSET exists /\ exists \ {n} \subseteq exists'
        /\ UNCHANGED <<tnode, tinc, qinc>>
    BY <1>1 DEF Kill, DeleteNode, KillNodes
  <2> QED BY <1>i, <1>g, <2>1, KillTask
<1>2. ASSUME NEW n \in Nodes, Pause(n) PROVE TaskInv'
  BY <1>2, <1>k, <1>g DEF Pause, TaskOK, taskVars
<1>3. ASSUME NEW n \in Nodes, Resume(n) PROVE TaskInv'
  BY <1>3, <1>k, <1>g, <1>i DEF Resume, TaskOK, TypeOK
<1>4. ASSUME NEW n \in Nodes, NEW T \in InitTask, RestartNode(n, T) PROVE TaskInv'
  <2> DEFINE P == [t \in Tasks |-> IF t \in T THEN "ready" ELSE PlaceAfterKill({n})[t]]
  <2>1. KillNodes({n}, P) /\ {n} \in SUBSET exists /\ exists' = exists
    BY <1>4 DEF RestartNode, KillNodes
  <2>2. ASSUME NEW t \in Tasks, t \notin T PROVE TaskOK(t)'
    <3>1. tnode'[t] = tnode[t] /\ tinc'[t] = tinc[t] /\ qinc'[t] = qinc[t]
      BY <1>4, <2>2 DEF RestartNode
    <3>2. P[t] = PlaceAfterKill({n})[t]
      BY <2>2
    <3> QED
      <4> HIDE DEF P
      <4> QED BY <1>i, <2>1, <3>1, <3>2, KillTask
  <2>3. ASSUME NEW t \in Tasks, t \in T PROVE TaskOK(t)'
    <3>1. tnode'[t] = n /\ tinc'[t] = inc[n] + 1 /\ qinc'[t] = inc[n] + 1
      BY <1>4, <2>3 DEF RestartNode
    <3>2. place'[t] = "ready" /\ inc'[n] = inc[n] + 1
      BY <2>1, <2>3 DEF KillNodes
    <3> QED BY <1>i, <2>1, <3>1, <3>2 DEF TaskOK, TypeOK
  <2> QED BY <1>g, <2>2, <2>3
<1>5. ASSUME NEW n \in Nodes, NEW T \in InitTask, CreateNode(n, T) PROVE TaskInv'
  BY <1>5, <1>k, <1>g, <1>i DEF CreateNode, TaskOK, TypeOK
<1>6. ASSUME NEW u \in Tasks, Wake(u) \/ AbortTask(u) PROVE TaskInv'
  BY <1>6, <1>k, <1>g, <1>i DEF Wake, AbortTask, TaskOK, TypeOK, nodeVars
<1>7. ASSUME NEW u \in Tasks, NEW n \in Nodes, NEW k \in 0 .. MaxInc, Spawn(u, n, k)
      PROVE  TaskInv'
  BY <1>7, <1>k, <1>g, <1>i DEF Spawn, TaskOK, TypeOK, nodeVars
<1>8. ASSUME UNCHANGED <<exists, inc, paused, taskVars>> PROVE TaskInv'
  BY <1>8, <1>k, <1>g DEF TaskOK, taskVars
<1>9. ASSUME NEW u \in Tasks, PopKilled(u) PROVE TaskInv'
  BY <1>9, <1>k, <1>g, <1>i DEF PopKilled, Pop, TaskOK, TypeOK, nodeVars
<1>10. ASSUME NEW u \in Tasks, PopPaused(u) PROVE TaskInv'
  BY <1>10, <1>k, <1>g, <1>i
     DEF PopPaused, Pop, EntryKilled, Killed, TaskOK, TypeOK, nodeVars
<1>11. ASSUME NEW u \in Tasks, PopBudgetSpent(u) PROVE TaskInv'
  <2> DEFINE n == tnode[u]
             P == [PlaceAfterKill({n}) EXCEPT ![u] = "dropped"]
  <2>1. /\ KillNodes({n}, P) /\ {n} \in SUBSET exists /\ exists' = exists
        /\ UNCHANGED <<tnode, tinc, qinc>> /\ place[u] # "new"
    BY <1>11 DEF PopBudgetSpent, KillNodes, Pop
  <2>2. \A t \in Tasks : \/ P[t] = PlaceAfterKill({n})[t]
                         \/ P[t] \in {"done", "dropped"} /\ place[t] # "new"
    BY <1>i, <2>1, PlaceFacts
  <2> HIDE DEF P, n
  <2> QED BY <1>i, <1>g, <2>1, <2>2, KillTask
<1>12. ASSUME NEW u \in Tasks, PopRun(u) PROVE TaskInv'
  BY <1>12, <1>k, <1>g, <1>i DEF PopRun, Pop, TaskOK, TypeOK
<1>13. ASSUME NEW u \in Tasks, NEW w \in BOOLEAN, PollPending(u, w) PROVE TaskInv'
  BY <1>13, <1>k, <1>g, <1>i DEF PollPending, TaskOK, TypeOK, nodeVars
<1>14. ASSUME NEW u \in Tasks, PollReady(u) \/ PollKilledBranch(u) PROVE TaskInv'
  BY <1>14, <1>k, <1>g, <1>i DEF PollReady, PollKilledBranch, TaskOK, TypeOK, nodeVars
<1>15. ASSUME NEW u \in Tasks, NEW n \in Nodes, NEW r \in BOOLEAN,
              KillCurrentNode(u, n, r)
       PROVE  TaskInv'
  <2> DEFINE P == [PlaceAfterKill({n}) EXCEPT ![u] = "done"]
  <2>1. /\ KillNodes({n}, P) /\ {n} \in SUBSET exists /\ exists' = exists
        /\ UNCHANGED <<tnode, tinc, qinc>> /\ place[u] # "new"
    BY <1>15 DEF KillCurrentNode, KillNodes
  <2>2. \A t \in Tasks : \/ P[t] = PlaceAfterKill({n})[t]
                         \/ P[t] \in {"done", "dropped"} /\ place[t] # "new"
    BY <1>i, <2>1, PlaceFacts
  <2> HIDE DEF P
  <2> QED BY <1>i, <1>g, <2>1, <2>2, KillTask
<1>16. ASSUME NEW n \in Nodes, NEW T \in InitTask, RestartTimer(n, T) PROVE TaskInv'
  BY <1>4, <1>8, <1>16 DEF RestartTimer
<1>17. ASSUME FinishExpired PROVE TaskInv'
  <2>1. /\ KillNodes(ExpiredNodes, PlaceAfterKill(ExpiredNodes))
        /\ ExpiredNodes \in SUBSET exists /\ exists' = exists
        /\ UNCHANGED <<tnode, tinc, qinc>>
    BY <1>17 DEF FinishExpired, ExpiredNodes
  <2> QED BY <1>i, <1>g, <2>1, KillTask
<1>18. ASSUME NEW n \in Nodes, NEW T \in InitTask, Restart(n, T) PROVE TaskInv'
  BY <1>4, <1>18 DEF Restart
<1>19. ASSUME \/ \E n \in Nodes, b \in 0 .. MaxBudget, r \in BOOLEAN :
                   BeginGracefulShutdown(n, b, r)
              \/ \E i \in Infos : DeadlinePasses(i)
              \/ NextIteration \/ BlockOnEnds \/ UNCHANGED vars
       PROVE  TaskInv'
  BY <1>8, <1>19 DEF BeginGracefulShutdown, DeadlinePasses, NextIteration,
     BlockOnEnds, nodeVars, taskVars, vars
<1> QED BY <1>1, <1>2, <1>3, <1>5, <1>6, <1>7, <1>9, <1>10, <1>11, <1>12, <1>13,
           <1>14, <1>15, <1>16, <1>17, <1>18, <1>19
        DEF Next, UserCall, TaskStep, Terminated

\* A kill of S, with any of shutting_down's entries for the old incarnations
\* dropped, keeps the bookkeeping of graceful shutdowns.
LEMMA KillNode ==
  ASSUME TypeOK, NodeInv, NEW S \in SUBSET exists, NEW P, KillNodes(S, P),
         exists' \subseteq exists, exists \ S \subseteq exists',
         shutting_down' \subseteq shutting_down,
         \A n \in exists \ S : Current(n) \in shutting_down => Current(n) \in shutting_down'
  PROVE  NodeInv'
<1> USE ExecutorAssumption
<1>1. \A n \in Nodes : inc[n] \in Nat /\ inc[n] <= MaxInc
  BY DEF TypeOK
<1>2. \A n \in Nodes : inc'[n] = IF n \in S THEN inc[n] + 1 ELSE inc[n]
  BY DEF KillNodes
<1>3. \A n \in Nodes : polls_left'[n] = IF n \in S THEN NotShuttingDown ELSE polls_left[n]
  BY DEF KillNodes
<1>4. paused' = paused \ S
  BY DEF KillNodes
<1>5. Entries'
  BY <1>1, <1>2 DEF NodeInv, Entries
<1>6. OnlyLive'
  BY <1>3, <1>4 DEF NodeInv, OnlyLive
<1>7. ShutdownTracked'
  <2> SUFFICES ASSUME NEW n \in exists'
               PROVE  polls_left'[n] # NotShuttingDown <=> <<n, inc'[n]>> \in shutting_down'
    BY DEF ShutdownTracked, Current, NotShuttingDown
  <2>0. n \in exists /\ n \in Nodes
    BY DEF TypeOK
  <2>1. CASE n \in S
    <3>1. inc[n] + 1 \in 0 .. MaxInc /\ ~(inc[n] + 1 <= inc[n])
      BY <1>1, <2>0, <2>1 DEF KillNodes
    <3>2. <<n, inc[n] + 1>> \notin shutting_down
      BY <2>0, <3>1 DEF NodeInv, Entries
    <3> QED BY <1>2, <1>3, <2>0, <2>1, <3>2
  <2>2. CASE n \notin S
    BY <1>2, <1>3, <2>0, <2>2 DEF NodeInv, ShutdownTracked, Current
  <2> QED BY <2>1, <2>2
<1> QED BY <1>5, <1>6, <1>7 DEF NodeInv

\* Every step keeps the bookkeeping of nodes and graceful shutdowns.
LEMMA NodeInvStep == Inv /\ [Next]_vars => NodeInv'
<1> SUFFICES ASSUME Inv, [Next]_vars PROVE NodeInv'
  OBVIOUS
<1> USE ExecutorAssumption
<1>i. TypeOK /\ NodeInv
  BY DEF Inv
<1>1. ASSUME UNCHANGED <<exists, inc, paused, polls_left, shutting_down>> PROVE NodeInv'
  BY <1>1, <1>i DEF NodeInv, Entries, OnlyLive, ShutdownTracked, Current
<1>2. ASSUME NEW n \in Nodes, NEW P, KillNodes({n}, P),
             exists' = exists \/ exists' = exists \ {n},
             \/ shutting_down' = shutting_down
             \/ shutting_down' = shutting_down \ {Current(n)}
      PROVE  NodeInv'
  <2>1. {n} \in SUBSET exists
    BY <1>2 DEF KillNodes
  <2>2. \A m \in exists \ {n} :
          Current(m) \in shutting_down => Current(m) \in shutting_down'
    BY <1>2 DEF Current
  <2> QED BY <1>i, <1>2, <2>1, <2>2, KillNode
<1>3. ASSUME NEW n \in Nodes, Kill(n) \/ DeleteNode(n) PROVE NodeInv'
  BY <1>2, <1>3 DEF Kill, DeleteNode
<1>4. ASSUME NEW n \in Nodes, NEW T \in InitTask, RestartNode(n, T) PROVE NodeInv'
  BY <1>2, <1>4 DEF RestartNode
<1>5. ASSUME NEW n \in Nodes, NEW T \in InitTask, CreateNode(n, T) PROVE NodeInv'
  BY <1>5, <1>i DEF CreateNode, NodeInv, Entries, OnlyLive, ShutdownTracked, Current, TypeOK
<1>6. ASSUME NEW n \in Nodes, Pause(n) \/ Resume(n) PROVE NodeInv'
  BY <1>6, <1>i DEF Pause, Resume, NodeInv, Entries, OnlyLive, ShutdownTracked, Current
<1>7. ASSUME NEW n \in Nodes, NEW b \in 0 .. MaxBudget, NEW r \in BOOLEAN,
             BeginGracefulShutdown(n, b, r)
      PROVE  NodeInv'
  <2>1. b # NotShuttingDown
    BY DEF NotShuttingDown
  <2>2. /\ n \in exists
        /\ polls_left' = [polls_left EXCEPT ![n] = b]
        /\ shutting_down' = shutting_down \cup {<<n, inc[n]>>}
        /\ UNCHANGED <<exists, inc, paused>>
    BY <1>7 DEF BeginGracefulShutdown, Current
  <2>3. Entries'
    BY <1>i, <2>2 DEF NodeInv, Entries, TypeOK
  <2>4. OnlyLive'
    BY <1>i, <2>2 DEF NodeInv, OnlyLive, TypeOK, NotShuttingDown
  <2>5. ShutdownTracked'
    BY <1>i, <2>1, <2>2 DEF NodeInv, ShutdownTracked, Current, TypeOK, NotShuttingDown
  <2> QED BY <2>3, <2>4, <2>5 DEF NodeInv
<1>8. ASSUME NEW t \in Tasks, PopBudgetSpent(t) PROVE NodeInv'
  <2>1. tnode[t] \in Nodes
    BY <1>i DEF TypeOK
  <2> QED BY <1>2, <1>8, <2>1 DEF PopBudgetSpent, ForgetShutdowns
<1>9. ASSUME NEW t \in Tasks, PopRun(t) PROVE NodeInv'
  <2> DEFINE n == tnode[t]
  <2>1. n \in Nodes /\ polls_left[n] \in 0 .. NotShuttingDown /\ polls_left[n] # 0
    BY <1>9, <1>i DEF PopRun, TypeOK
  <2>2. polls_left'[n] = NotShuttingDown <=> polls_left[n] = NotShuttingDown
    BY <1>9, <1>i, <2>1 DEF PopRun, TypeOK, NotShuttingDown
  <2>3. \A m \in Nodes \ {n} : polls_left'[m] = polls_left[m]
    BY <1>9, <1>i DEF PopRun, TypeOK
  <2>4. UNCHANGED <<exists, inc, paused, shutting_down>>
    BY <1>9 DEF PopRun
  <2> HIDE DEF n
  <2>5. exists \subseteq Nodes /\ exists' \subseteq Nodes
    BY <1>i, <2>4 DEF TypeOK
  <2>6. \A m \in Nodes : polls_left'[m] = NotShuttingDown <=> polls_left[m] = NotShuttingDown
    BY <2>2, <2>3
  <2> QED BY <1>i, <2>4, <2>5, <2>6
          DEF NodeInv, Entries, OnlyLive, ShutdownTracked, Current, NotShuttingDown
<1>10. ASSUME NEW t \in Tasks, NEW n \in Nodes, NEW r \in BOOLEAN,
              KillCurrentNode(t, n, r)
       PROVE  NodeInv'
  BY <1>2, <1>10 DEF KillCurrentNode
<1>11. ASSUME NEW n \in Nodes, NEW T \in InitTask, RestartTimer(n, T) PROVE NodeInv'
  BY <1>1, <1>4, <1>11 DEF RestartTimer
<1>12. ASSUME FinishExpired PROVE NodeInv'
  <2>1. /\ KillNodes(ExpiredNodes, PlaceAfterKill(ExpiredNodes))
        /\ ExpiredNodes \in SUBSET exists /\ exists' = exists
        /\ shutting_down' = shutting_down \ Expired
    BY <1>12 DEF FinishExpired, ExpiredNodes, ForgetShutdowns
  <2>2. \A n \in exists \ ExpiredNodes :
          Current(n) \in shutting_down => Current(n) \in shutting_down'
    BY <2>1 DEF ExpiredNodes
  <2> QED BY <1>i, <2>1, <2>2, KillNode
<1>13. ASSUME \/ \E t \in Tasks : Wake(t) \/ AbortTask(t) \/ PopKilled(t) \/ PopPaused(t)
                               \/ PollReady(t) \/ PollKilledBranch(t)
              \/ \E t \in Tasks, n \in Nodes, k \in 0 .. MaxInc : Spawn(t, n, k)
              \/ \E t \in Tasks, w \in BOOLEAN : PollPending(t, w)
              \/ \E i \in Infos : DeadlinePasses(i)
              \/ NextIteration \/ BlockOnEnds \/ UNCHANGED vars
       PROVE  NodeInv'
  BY <1>1, <1>13 DEF Wake, AbortTask, Spawn, DeadlinePasses, PopKilled, PopPaused,
     PollPending, PollReady, PollKilledBranch, NextIteration, BlockOnEnds, nodeVars, vars
<1> QED BY <1>3, <1>4, <1>5, <1>6, <1>7, <1>8, <1>9, <1>10, <1>11, <1>12, <1>13
        DEF Next, UserCall, TaskStep, Terminated, Restart

\* Type correctness and the two groups of invariants, in every behaviour.
THEOREM ExecutorInvariant == Spec => []Inv
<1>1. Init => Inv
  BY ExecutorAssumption DEF Init, Inv, TypeOK, TaskInv, Tagged, Spawned,
     ParkedNotStranded, NodeInv, Entries, OnlyLive, ShutdownTracked, Current,
     NotShuttingDown, Places
<1>2. Inv /\ [Next]_vars => Inv'
  BY TypeStep, TaskInvStep, NodeInvStep DEF Inv
<1> QED BY <1>1, <1>2, PTL DEF Spec

\* No task is left in the paused list of a node that is not paused, of a killed
\* incarnation, or of a deleted node.
THEOREM ParkedResumable == Spec => []ParkedNotStranded
<1>1. Inv => ParkedNotStranded
  BY DEF Inv, TaskInv
<1> QED BY <1>1, ExecutorInvariant, PTL

\* The executor looks at the deadline of every node that is shutting down.
THEOREM ShutdownsTracked == Spec => []ShutdownTracked
<1>1. Inv => ShutdownTracked
  BY DEF Inv, NodeInv
<1> QED BY <1>1, ExecutorInvariant, PTL

\* A poll is never started for a task of a killed, deleted or paused node.
THEOREM KilledNotPolled == Spec => KilledNeverPolled
<1>1. ASSUME Inv, Next, NEW t \in Tasks, place[t] # "running", place'[t] = "running"
      PROVE  ~OwnKilled(t) /\ tnode[t] \in exists \ paused
  <2>t. /\ TypeOK /\ Tagged /\ Spawned
        /\ tnode[t] \in Nodes /\ tinc[t] \in Nat /\ inc[tnode[t]] \in Nat
    BY <1>1, ExecutorAssumption DEF Inv, TaskInv, TypeOK
  <2>1. ASSUME PopRun(t) PROVE ~OwnKilled(t) /\ tnode[t] \in exists \ paused
    BY <2>1, <2>t DEF PopRun, Pop, EntryKilled, OwnKilled, Killed, Tagged, Spawned
  <2>2. ASSUME NEW S, place'[t] = PlaceAfterKill(S)[t] PROVE FALSE
    BY <1>1, <2>2, <2>t, PlaceFacts
  <2>k. \A S : PlaceAfterKill(S) \in [Tasks -> Places]
    BY <2>t, PlaceFacts
  <2>3. ASSUME NEW n \in Nodes, Kill(n) \/ DeleteNode(n) PROVE FALSE
    BY <2>2, <2>3 DEF Kill, DeleteNode, KillNodes
  <2>4. ASSUME NEW n \in Nodes, NEW T \in InitTask, RestartNode(n, T) PROVE FALSE
    BY <1>1, <2>2, <2>4 DEF RestartNode, KillNodes
  <2>5. ASSUME NEW u \in Tasks, PopBudgetSpent(u) PROVE FALSE
    BY <1>1, <2>2, <2>5, <2>k DEF PopBudgetSpent, KillNodes
  <2>6. ASSUME NEW u \in Tasks, NEW n \in Nodes, NEW r \in BOOLEAN,
               KillCurrentNode(u, n, r)
        PROVE  FALSE
    BY <1>1, <2>2, <2>6, <2>k DEF KillCurrentNode, KillNodes
  <2>7. ASSUME FinishExpired PROVE FALSE
    BY <2>2, <2>7 DEF FinishExpired, KillNodes
  <2>8. ASSUME NEW u \in Tasks, u # t, PopRun(u) PROVE FALSE
    BY <1>1, <2>8, <2>t DEF PopRun, TypeOK
  <2>9. ASSUME NEW u \in Tasks, \/ Wake(u) \/ AbortTask(u) \/ PopKilled(u)
                               \/ PopPaused(u) \/ PollReady(u) \/ PollKilledBranch(u)
                               \/ \E w \in BOOLEAN : PollPending(u, w)
                               \/ \E n \in Nodes, k \in 0 .. MaxInc : Spawn(u, n, k)
        PROVE  FALSE
    BY <1>1, <2>9, <2>t DEF Wake, AbortTask, PopKilled, PopPaused, PollReady,
       PollKilledBranch, PollPending, Spawn, TypeOK
  <2>10. ASSUME NEW n \in Nodes, \/ Resume(n)
                                 \/ \E T \in InitTask : CreateNode(n, T)
         PROVE  FALSE
    BY <1>1, <2>10 DEF Resume, CreateNode
  <2>11. ASSUME place' = place PROVE FALSE
    BY <1>1, <2>11
  <2> QED BY <1>1, <2>1, <2>3, <2>4, <2>5, <2>6, <2>7, <2>8, <2>9, <2>10, <2>11
          DEF Next, UserCall, TaskStep, Terminated, Restart, RestartTimer, Pause,
              BeginGracefulShutdown, DeadlinePasses, NextIteration, BlockOnEnds,
              taskVars, vars
<1>2. Inv /\ [Next]_vars =>
        [\A t \in Tasks :
           place[t] # "running" /\ place'[t] = "running" =>
             ~OwnKilled(t) /\ tnode[t] \in exists \ paused]_vars
  BY <1>1
<1> QED BY <1>2, ExecutorInvariant, PTL DEF Spec, KilledNeverPolled

\* The deadline check kills only incarnations in graceful shutdown.
THEOREM DeadlinesSpareOthers == Spec => DeadlineKillsOnlyShuttingDown
<1>1. ASSUME Inv, Next, mpc = "drain", mpc' = "rest",
             NEW n \in Nodes, inc'[n] # inc[n]
      PROVE  polls_left[n] # NotShuttingDown
  <2>1. FinishExpired
    BY <1>1 DEF Next, UserCall, TaskStep, Terminated, Kill, DeleteNode, Restart,
       RestartNode, CreateNode, Pause, Resume, Wake, AbortTask, Spawn,
       BeginGracefulShutdown, DeadlinePasses, PopKilled, PopPaused, PopBudgetSpent,
       PopRun, PollPending, PollReady, PollKilledBranch, KillCurrentNode,
       RestartTimer, NextIteration, BlockOnEnds, vars
  <2>2. n \in ExpiredNodes
    BY <1>1, <2>1 DEF FinishExpired, KillNodes
  <2>3. n \in exists /\ Current(n) \in shutting_down
    BY <2>2 DEF ExpiredNodes, Expired
  <2> QED BY <1>1, <2>3 DEF Inv, NodeInv, ShutdownTracked
<1>2. Inv /\ [Next]_vars =>
        [mpc = "drain" /\ mpc' = "rest" =>
           \A n \in Nodes : inc'[n] # inc[n] => polls_left[n] # NotShuttingDown]_vars
  BY <1>1
<1> QED BY <1>2, ExecutorInvariant, PTL DEF Spec, DeadlineKillsOnlyShuttingDown

\* If no task enters the context of another node, a restart is scheduled only of
\* a node that is killed in the same step: by kill_current_node, or at the end of
\* its graceful shutdown.  (A kill_current_node inside await_future_in_node kills
\* the entered node and schedules the restart of the polled task's node.)
THEOREM RestartsFollowKills ==
  ASSUME EnterNode = FALSE
  PROVE  Spec => RestartsKilledNode
<1>1. ASSUME Inv, Next, NEW n \in Nodes, restarts'[n] > restarts[n]
      PROVE  inc'[n] > inc[n]
  <2>t. /\ restarts \in [Nodes -> Nat] /\ tnode \in [Tasks -> Nodes]
        /\ inc[n] \in Nat /\ restarts[n] \in Nat
    BY <1>1, ExecutorAssumption DEF Inv, TypeOK
  <2>1. ASSUME NEW S, NEW P, KillNodes(S, P), n \in S PROVE inc'[n] > inc[n]
    BY <2>1, <2>t DEF KillNodes
  <2>2. ASSUME NEW t \in Tasks, PopBudgetSpent(t) PROVE inc'[n] > inc[n]
    <3>1. n = tnode[t]
      BY <1>1, <2>t, <2>2 DEF PopBudgetSpent, ScheduleRestart
    <3> QED BY <2>1, <2>2, <3>1 DEF PopBudgetSpent
  <2>3. ASSUME NEW t \in Tasks, NEW m \in Nodes, NEW r \in BOOLEAN,
               KillCurrentNode(t, m, r)
        PROVE  inc'[n] > inc[n]
    <3>1. n = tnode[t] /\ m = tnode[t]
      BY <1>1, <2>t, <2>3 DEF KillCurrentNode, ScheduleRestart
    <3> QED BY <2>1, <2>3, <3>1 DEF KillCurrentNode
  <2>4. ASSUME FinishExpired PROVE inc'[n] > inc[n]
    <3>1. n \in ExpiredNodes
      BY <1>1, <2>t, <2>4 DEF FinishExpired, Revived
    <3> QED BY <2>1, <2>4, <3>1 DEF FinishExpired
  <2>5. ASSUME NEW m \in Nodes, NEW T \in InitTask, RestartTimer(m, T) PROVE FALSE
    BY <1>1, <2>t, <2>5 DEF RestartTimer
  <2>6. ASSUME restarts' = restarts PROVE FALSE
    BY <1>1, <2>t, <2>6
  <2> QED BY <1>1, <2>2, <2>3, <2>4, <2>5, <2>6
          DEF Next, UserCall, TaskStep, Terminated, Kill, DeleteNode, Restart,
              CreateNode, Pause, Resume, Wake, AbortTask, Spawn,
              BeginGracefulShutdown, DeadlinePasses, PopKilled, PopPaused, PopRun,
              PollPending, PollReady, PollKilledBranch, NextIteration, BlockOnEnds,
              nodeVars, vars
<1>2. Inv /\ [Next]_vars =>
        [\A n \in Nodes : restarts'[n] > restarts[n] => inc'[n] > inc[n]]_vars
  BY <1>1
<1> QED BY <1>2, ExecutorInvariant, PTL DEF Spec, RestartsKilledNode
=============================================================================
