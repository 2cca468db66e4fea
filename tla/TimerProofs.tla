---------------------------- MODULE TimerProofs ----------------------------
(***************************************************************************)
(* Proofs about Timer, and about the intervals of Interval on top of it,   *)
(* for any sleepers, intervals, nodes and periods and any MaxTime.         *)
(***************************************************************************)
EXTENDS Interval, TLAPS

\* Every event belongs to a Sleep that has been polled, and to the node in whose
\* context it is polled.
EventsOwned ==
  \A e \in events : state[e.sleep] # "new" /\ e.node = entered[e.sleep]

\* Without await_future_in_node a Sleep is polled in its own task's node.
PolledAtHome == \A s \in Sleeps : entered[s] = home[s]

Inv == TypeOK /\ DisabledHasNoLive /\ EventsOwned
SleepInv == Inv /\ PolledAtHome /\ NoLostWakeup

\* What cancelling leaves in the heap.
LEMMA CancelFacts ==
  ASSUME TypeOK, NEW n \in Nodes
  PROVE  /\ DisableNode(n) \in SUBSET Event
         /\ \A e \in DisableNode(n) :
              \E f \in events : /\ e.sleep = f.sleep /\ e.node = f.node
                              /\ e.deadline = f.deadline /\ (e.live => f.live)
         /\ \A e \in DisableNode(n) : n \notin disabled /\ e.live => e.node # n
         /\ \A e \in events : e.live /\ e.node # n => e \in DisableNode(n)
<1>1. \A e \in events : e \in Event
  BY DEF TypeOK
<1>2. CASE n \in disabled
  BY <1>1, <1>2 DEF DisableNode, TypeOK
<1>3. CASE n \notin disabled
  <2> DEFINE f(e) == [e EXCEPT !.live = e.live /\ e.node # n]
  <2>1. DisableNode(n) = {f(e) : e \in events}
    BY <1>3 DEF DisableNode
  <2>2. \A e \in Event : /\ f(e) \in Event
                         /\ f(e).sleep = e.sleep /\ f(e).node = e.node
                         /\ f(e).deadline = e.deadline
                         /\ f(e).live = (e.live /\ e.node # n)
    BY DEF Event
  <2>3. \A e \in Event : e.live /\ e.node # n => f(e) = e
    BY DEF Event
  <2> HIDE DEF f
  <2>4. \A e \in DisableNode(n) : \E g \in events : g \in Event /\ e = f(g)
    BY <1>1, <2>1
  <2>5. /\ DisableNode(n) \in SUBSET Event
        /\ \A e \in DisableNode(n) :
             \E g \in events : /\ e.sleep = g.sleep /\ e.node = g.node
                             /\ e.deadline = g.deadline /\ (e.live => g.live)
    BY <2>2, <2>4
  <2>6. \A e \in DisableNode(n) : n \notin disabled /\ e.live => e.node # n
    BY <2>2, <2>4
  <2>7. \A e \in events : e.live /\ e.node # n => e \in DisableNode(n)
    BY <1>1, <2>1, <2>3
  <2> QED BY <2>5, <2>6, <2>7
<1> QED BY <1>2, <1>3

\* Every step keeps the types.
LEMMA TypeStep == TypeOK /\ [Next]_vars => TypeOK'
<1> SUFFICES ASSUME TypeOK, [Next]_vars PROVE TypeOK'
  OBVIOUS
<1> USE TimerAssumption
<1>t. /\ \A dt \in 1 .. MaxStep : Advanced(dt) \in 0 .. Horizon
      /\ \A first \in 0 .. MaxTime : SetElapsed(first + Eps) \in 0 .. Horizon
  BY DEF TypeOK, Advanced, SetElapsed, Min2, Max2, Horizon, Eps, MaxStep
<1>1. ASSUME NEW s \in Sleeps, NEW n \in Nodes, NEW c \in Nodes,
             NEW d \in 0 .. MaxTime, Sleep(s, n, c, d) PROVE TypeOK'
  BY <1>1 DEF TypeOK, Sleep, States
<1>2. ASSUME NEW s \in Sleeps, NEW d \in 0 .. MaxTime, Reset(s, d) PROVE TypeOK'
  BY <1>2 DEF TypeOK, Reset
<1>3. ASSUME NEW s \in Sleeps, NEW dt \in 1 .. MaxStep, PollPending(s, dt)
      PROVE TypeOK'
  <2>0. EventOf(s) \in Event
    BY DEF TypeOK, Event, EventOf
  <2>1. WithTimer(s) \in SUBSET Event
    BY <2>0 DEF TypeOK, WithTimer
  <2> QED BY <1>3, <1>t, <2>1 DEF TypeOK, PollPending, States
<1>4. ASSUME NEW s \in Sleeps, NEW dt \in 1 .. MaxStep,
             PollReady(s, dt) \/ ValueReady(s, dt)
      PROVE TypeOK'
  BY <1>4, <1>t DEF TypeOK, PollReady, ValueReady, States
<1>5. ASSUME NEW s \in Sleeps, Wake(s) PROVE TypeOK'
  BY <1>5 DEF TypeOK, Wake, States
<1>6. ASSUME NEW dt \in 1 .. MaxStep, OtherPoll(dt) PROVE TypeOK'
  BY <1>6, <1>t DEF TypeOK, OtherPoll
<1>7. ASSUME NEW first \in 0 .. MaxTime, AdvanceToNextEvent(first) PROVE TypeOK'
  BY <1>7, <1>t DEF TypeOK, AdvanceToNextEvent, States
<1>8. ASSUME NEW n \in Nodes, Kill(n) PROVE TypeOK'
  BY <1>8, CancelFacts DEF TypeOK, Kill, StateAfterKill, States
<1>9. ASSUME NEW n \in Nodes, Restart(n) PROVE TypeOK'
  BY <1>9, CancelFacts DEF TypeOK, Restart, EnableNode, StateAfterKill, States
<1>10. CASE UNCHANGED vars
  BY <1>10 DEF TypeOK, vars
<1> QED BY <1>1, <1>2, <1>3, <1>4, <1>5, <1>6, <1>7, <1>8, <1>9, <1>10
        DEF Next, PollStep, TimerStep, NoEvents

\* Every step keeps disabled nodes free of live events and events owned.
LEMMA InvStep == Inv /\ [Next]_vars => Inv'
<1> SUFFICES ASSUME Inv, [Next]_vars PROVE Inv'
  OBVIOUS
<1>t. TypeOK /\ TypeOK'
  BY TypeStep DEF Inv
<1> DEFINE Rest == DisabledHasNoLive /\ EventsOwned
<1>i. Rest /\ \A e \in events : e.sleep \in Sleeps
  BY <1>t DEF Inv, TypeOK, Event
<1>1. ASSUME NEW s \in Sleeps, NEW n \in Nodes, NEW c \in Nodes,
             NEW d \in 0 .. MaxTime, Sleep(s, n, c, d) PROVE Rest'
  BY <1>1, <1>i, <1>t DEF TypeOK, Sleep, DisabledHasNoLive, EventsOwned
<1>2. ASSUME NEW s \in Sleeps, NEW d \in 0 .. MaxTime, Reset(s, d) PROVE Rest'
  BY <1>2, <1>i DEF Reset, DisabledHasNoLive, EventsOwned
<1>3. ASSUME NEW s \in Sleeps, NEW dt \in 1 .. MaxStep, PollPending(s, dt)
      PROVE Rest'
  <2>1. \A e \in WithTimer(s) : e \in events \/ (e.sleep = s /\ e.node = entered[s]
                                               /\ entered[s] \notin disabled)
    BY DEF WithTimer, EventOf
  <2> QED BY <1>3, <1>i, <1>t, <2>1
          DEF TypeOK, PollPending, DisabledHasNoLive, EventsOwned
<1>4. ASSUME NEW s \in Sleeps, NEW dt \in 1 .. MaxStep,
             PollReady(s, dt) \/ ValueReady(s, dt)
      PROVE Rest'
  BY <1>4, <1>i, <1>t DEF TypeOK, PollReady, ValueReady, DisabledHasNoLive, EventsOwned
<1>5. ASSUME NEW s \in Sleeps, Wake(s) PROVE Rest'
  BY <1>5, <1>i, <1>t DEF TypeOK, Wake, DisabledHasNoLive, EventsOwned
<1>6. ASSUME NEW dt \in 1 .. MaxStep, OtherPoll(dt) PROVE Rest'
  BY <1>6, <1>i DEF OtherPoll, DisabledHasNoLive, EventsOwned
<1>7. ASSUME NEW first \in 0 .. MaxTime, AdvanceToNextEvent(first) PROVE Rest'
  BY <1>7, <1>i DEF AdvanceToNextEvent, DisabledHasNoLive, EventsOwned
<1>8. ASSUME NEW n \in Nodes, Kill(n) PROVE Rest'
  BY <1>8, <1>i, <1>t, CancelFacts
     DEF Kill, StateAfterKill, DisabledHasNoLive, EventsOwned
<1>9. ASSUME NEW n \in Nodes, Restart(n) PROVE Rest'
  BY <1>9, <1>i, <1>t, CancelFacts
     DEF Restart, EnableNode, StateAfterKill, DisabledHasNoLive, EventsOwned
<1>10. ASSUME UNCHANGED vars PROVE Rest'
  BY <1>10, <1>i DEF DisabledHasNoLive, EventsOwned, vars
<1> HIDE DEF Rest
<1>11. Rest'
  BY <1>1, <1>2, <1>3, <1>4, <1>5, <1>6, <1>7, <1>8, <1>9, <1>10
     DEF Next, PollStep, TimerStep, NoEvents
<1> QED BY <1>t, <1>11 DEF Inv, Rest

\* Type correctness and the state of the heap, in every behaviour: also with
\* tasks that enter other nodes.
THEOREM TimerInvariant == Spec => []Inv
<1>1. Init => Inv
  BY TimerAssumption DEF Init, Inv, TypeOK, DisabledHasNoLive, EventsOwned,
     States, Horizon, Eps
<1> QED BY <1>1, InvStep, PTL DEF Spec

\* A disabled node never has a live event, so the early return of
\* disable_node_and_remove_events leaves none behind.
THEOREM DisabledSilent == Spec => []DisabledHasNoLive
<1>1. Inv => DisabledHasNoLive
  BY DEF Inv
<1> QED BY <1>1, TimerInvariant, PTL

\* Every step keeps a due event for every waiting sleeper.
LEMMA SleepStep ==
  ASSUME EnterNode = FALSE
  PROVE  SleepInv /\ [Next]_vars => SleepInv'
<1> SUFFICES ASSUME SleepInv, [Next]_vars PROVE SleepInv'
  OBVIOUS
<1>t. TypeOK /\ Inv /\ Inv'
  BY InvStep DEF SleepInv, Inv
<1> DEFINE Rest == PolledAtHome /\ NoLostWakeup
<1>i. Rest /\ EventsOwned /\ DisabledHasNoLive
  BY DEF SleepInv, Inv
<1> USE DEF PolledAtHome, NoLostWakeup, DueEvent
<1>1. ASSUME NEW s \in Sleeps, NEW n \in Nodes, NEW c \in Nodes,
             NEW d \in 0 .. MaxTime, Sleep(s, n, c, d) PROVE Rest'
  BY <1>1, <1>i, <1>t DEF TypeOK, Sleep, PollContexts
<1>2. ASSUME NEW s \in Sleeps, NEW d \in 0 .. MaxTime, Reset(s, d) PROVE Rest'
  BY <1>2, <1>i, <1>t DEF TypeOK, Reset
<1>3. ASSUME NEW s \in Sleeps, NEW dt \in 1 .. MaxStep, PollPending(s, dt)
      PROVE Rest'
  <2>1. events \subseteq WithTimer(s)
    BY DEF WithTimer
  <2>2. home[s] \notin disabled =>
          \E e \in WithTimer(s) : e.sleep = s /\ e.deadline = deadline[s] /\ e.live
    <3>1. home[s] \notin disabled => EventOf(s) \in WithTimer(s)
      BY <1>i DEF WithTimer
    <3>2. EventOf(s).sleep = s /\ EventOf(s).deadline = deadline[s] /\ EventOf(s).live
      BY DEF EventOf
    <3> QED BY <3>1, <3>2
  <2> QED BY <1>3, <1>i, <1>t, <2>1, <2>2 DEF TypeOK, PollPending
<1>4. ASSUME NEW s \in Sleeps, NEW dt \in 1 .. MaxStep,
             PollReady(s, dt) \/ ValueReady(s, dt)
      PROVE Rest'
  BY <1>4, <1>i, <1>t DEF TypeOK, PollReady, ValueReady
<1>5. ASSUME NEW s \in Sleeps, Wake(s) PROVE Rest'
  BY <1>5, <1>i, <1>t DEF TypeOK, Wake
<1>6. ASSUME NEW dt \in 1 .. MaxStep, OtherPoll(dt) PROVE Rest'
  BY <1>6, <1>i DEF OtherPoll
<1>7. ASSUME NEW first \in 0 .. MaxTime, AdvanceToNextEvent(first) PROVE Rest'
  <2> SUFFICES ASSUME NEW s \in Sleeps, state'[s] = "waiting", home[s] \notin disabled
               PROVE  DueEvent(s)'
    BY <1>7, <1>i DEF AdvanceToNextEvent
  <2>1. state[s] = "waiting" /\ s \notin Fired(first + Eps)
    BY <1>7, <1>t DEF TypeOK, AdvanceToNextEvent
  <2>2. PICK e \in events : e.sleep = s /\ e.deadline = deadline[s] /\ e.live
    BY <1>i, <2>1
  <2>3. e \notin Expired(first + Eps)
    BY <2>1, <2>2 DEF Fired
  <2> QED BY <1>7, <2>2, <2>3 DEF AdvanceToNextEvent
<1>8. ASSUME NEW n \in Nodes,
             events' = DisableNode(n),
             disabled' = disabled \cup {n} \/ disabled' = disabled \ {n},
             state' = StateAfterKill(n), UNCHANGED <<home, entered, deadline>>
      PROVE  Rest'
  <2> SUFFICES ASSUME NEW s \in Sleeps, state'[s] = "waiting", home[s] \notin disabled'
               PROVE  DueEvent(s)'
    BY <1>8, <1>i
  <2>1. state[s] = "waiting" /\ home[s] # n
    BY <1>8, <1>t DEF TypeOK, StateAfterKill
  <2>2. home[s] \notin disabled
    BY <1>8, <2>1
  <2>3. PICK e \in events : e.sleep = s /\ e.deadline = deadline[s] /\ e.live
    BY <1>i, <2>1, <2>2
  <2>4. e \in DisableNode(n)
    BY <1>i, <1>t, <2>1, <2>3, CancelFacts DEF EventsOwned
  <2> QED BY <1>8, <2>3, <2>4
<1>9. ASSUME UNCHANGED vars PROVE Rest'
  BY <1>9, <1>i DEF vars
<1> HIDE DEF Rest
<1>10. Rest'
  BY <1>1, <1>2, <1>3, <1>4, <1>5, <1>6, <1>7, <1>8, <1>9
     DEF Next, PollStep, TimerStep, NoEvents, Kill, Restart, EnableNode
<1> QED BY <1>t, <1>10 DEF SleepInv, Rest

\* Kills, restarts, resets and spurious wake-ups never lose the wake-up of a
\* sleeping task of a live node, as long as tasks sleep in their own node.
THEOREM WakeupsKept ==
  ASSUME EnterNode = FALSE
  PROVE  Spec => []NoLostWakeup
<1>1. Init => SleepInv
  BY TimerAssumption DEF Init, SleepInv, Inv, TypeOK, DisabledHasNoLive,
     EventsOwned, PolledAtHome, NoLostWakeup, States, Horizon, Eps
<1>2. SleepInv => NoLostWakeup
  BY DEF SleepInv
<1> QED BY <1>1, <1>2, SleepStep, PTL DEF Spec

\* The simulated clock never goes backwards, late timers included.
THEOREM TimeGoesForward == Spec => ClockMonotone
<1>1. TypeOK /\ [Next]_vars => [elapsed' >= elapsed]_vars
  BY TimerAssumption DEF TypeOK, Next, PollStep, TimerStep, NoEvents, Sleep, Reset,
     PollPending, PollReady, ValueReady, Wake, OtherPoll, AdvanceToNextEvent, Kill, Restart,
     Advanced, SetElapsed, Min2, Max2, Horizon, Eps, MaxStep, vars
<1>2. Inv => TypeOK
  BY DEF Inv
<1> QED BY <1>1, <1>2, TimerInvariant, PTL DEF Spec, ClockMonotone

\* A sleeper woken by the timer at its deadline finds the deadline passed.
THEOREM TimersNotEarly == Spec => FiredIsDue
<1> DEFINE Woken(s) == /\ state[s] = "waiting" /\ state'[s] = "ready"
                       /\ DueEvent(s) /\ ~DueEvent(s)'
<1>1. ASSUME TypeOK, Next, NEW s \in Sleeps, Woken(s)
      PROVE  deadline[s] <= elapsed'
  <2>1. PICK e \in events : e.sleep = s /\ e.deadline = deadline[s] /\ e.live
    BY <1>1 DEF DueEvent
  <2>2. ~(UNCHANGED <<events, deadline>>)
    BY <1>1 DEF DueEvent
  <2>3. ASSUME NEW first \in 0 .. MaxTime, AdvanceToNextEvent(first)
        PROVE  deadline[s] <= elapsed'
    <3>1. e \in Expired(first + Eps)
      BY <1>1, <2>1, <2>3 DEF AdvanceToNextEvent, DueEvent
    <3> QED BY <1>1, <2>1, <2>3, <3>1, TimerAssumption
            DEF AdvanceToNextEvent, Expired, SetElapsed, Max2, TypeOK, Horizon, Eps
  <2>4. ASSUME NEW t \in Sleeps, NEW n \in Nodes, NEW c \in Nodes,
               NEW d \in 0 .. MaxTime, Sleep(t, n, c, d)
        PROVE  FALSE
    BY <1>1, <2>4 DEF Sleep, TypeOK, DueEvent
  <2>5. ASSUME NEW t \in Sleeps, NEW d \in 0 .. MaxTime, Reset(t, d)
        PROVE  FALSE
    BY <1>1, <2>5 DEF Reset
  <2>6. ASSUME NEW t \in Sleeps, NEW dt \in 1 .. MaxStep,
               PollPending(t, dt) \/ PollReady(t, dt) \/ ValueReady(t, dt)
        PROVE  FALSE
    BY <1>1, <2>6 DEF PollPending, PollReady, ValueReady, TypeOK
  <2>7. ASSUME NEW n \in Nodes, state' = StateAfterKill(n)
        PROVE  FALSE
    BY <1>1, <2>7 DEF StateAfterKill, TypeOK
  <2> QED BY <1>1, <2>2, <2>3, <2>4, <2>5, <2>6, <2>7
          DEF Next, PollStep, TimerStep, NoEvents, Wake, OtherPoll, Kill, Restart, vars
<1>2. TypeOK /\ [Next]_vars =>
        [\A s \in Sleeps :
           state[s] = "waiting" /\ state'[s] = "ready" /\ DueEvent(s) /\ ~DueEvent(s)'
             => deadline[s] <= elapsed']_vars
  BY <1>1
<1>3. Inv => TypeOK
  BY DEF Inv
<1> QED BY <1>2, <1>3, TimerInvariant, PTL DEF Spec, FiredIsDue

\* A jump of the clock, when nothing is ready, is to Eps after the earliest event.
LEMMA JumpStep ==
  ASSUME TypeOK, [Next]_vars, Quiet, elapsed' # elapsed, events' # events
  PROVE  \A e \in events : elapsed' <= e.deadline + Eps
<1>1. ASSUME NEW first \in 0 .. MaxTime, AdvanceToNextEvent(first)
      PROVE  \A e \in events : elapsed' <= e.deadline + Eps
  <2>1. elapsed' = first + Eps
    BY <1>1 DEF AdvanceToNextEvent, SetElapsed, Max2
  <2>2. \A e \in events : first <= e.deadline /\ e.deadline \in 0 .. MaxTime
    BY <1>1 DEF AdvanceToNextEvent, IsNext, TypeOK, Event
  <2> QED BY <2>1, <2>2, TimerAssumption DEF Eps
<1>2. ASSUME NEW s \in Sleeps, PollStep(s)
      PROVE  FALSE
  BY <1>2 DEF PollStep, PollPending, PollReady, ValueReady, Quiet
<1> QED BY <1>1, <1>2 DEF Next, TimerStep, NoEvents, Sleep, Reset, Wake, OtherPoll, Kill, Restart,
                          vars

\* A jump of the clock ends at most Eps after the earliest timer, so that nobody who
\* waits for it oversleeps.
THEOREM NobodyOversleeps == Spec => NoOversleep
<1>1. TypeOK /\ [Next]_vars =>
        [Quiet /\ elapsed' # elapsed /\ events' # events =>
           \A e \in events : elapsed' <= e.deadline + Eps]_vars
  BY JumpStep
<1>2. Inv => TypeOK
  BY DEF Inv
<1> QED BY <1>1, <1>2, TimerInvariant, PTL DEF Spec, NoOversleep

-----------------------------------------------------------------------------
(* Intervals.                                                               *)

\* The intervals: of a task that may still tick, the deadline is a whole number of
\* periods from the start.
IntervalsTyped ==
  /\ behavior \in [Ticking -> Behaviors]
  /\ start \in [Ticking -> 0 .. MaxTime]
  /\ period \in [Ticking -> Periods \cup {APeriod}]
OnGrid(s) == \E k \in Nat : deadline[s] = start[s] + k * period[s]
Alive(s) == state[s] \in {"ready", "waiting"}
GridKept == \A s \in Ticking : Alive(s) => period[s] \in Periods /\ OnGrid(s)
IntervalInv == Inv /\ IntervalsTyped /\ GridKept

\* Division with a remainder.
LEMMA DivMod ==
  ASSUME NEW n \in Nat, NEW p \in Nat \ {0}
  PROVE  n \div p \in Nat /\ n % p \in 0 .. p - 1 /\ n = p * (n \div p) + (n % p)
<1>1. n % p \in 0 .. p - 1
  OBVIOUS
<1>2. n = p * (n \div p) + (n % p)
  OBVIOUS
<1>3. n \div p \in Nat
  OBVIOUS
<1> QED BY <1>1, <1>2, <1>3

\* Multiples of a period.
LEMMA Multiples ==
  ASSUME NEW p \in Nat \ {0}, NEW a \in Nat, NEW b \in Nat
  PROVE  /\ a * p \in Nat /\ a <= a * p
         /\ a >= b => a * p >= b * p
         /\ a * p > b * p => a > b
         /\ (a + b) * p = a * p + p * b
         /\ (a + 1) * p = a * p + p
<1>1. a * p \in Nat
  OBVIOUS
<1>2. a <= a * p
  OBVIOUS
<1>3. a >= b => a * p >= b * p
  OBVIOUS
<1>4. a * p > b * p => a > b
  OBVIOUS
<1>5. (a + b) * p = a * p + p * b
  OBVIOUS
<1>6. (a + 1) * p = a * p + p
  OBVIOUS
<1> QED BY <1>1, <1>2, <1>3, <1>4, <1>5, <1>6

\* MissedTickBehavior::next_timeout under Skip: the first multiple of the period,
\* counted from the missed tick, that is later than now.
LEMMA SkipFacts ==
  ASSUME NEW timeout \in Nat, NEW now \in Nat, timeout < now, NEW p \in Nat \ {0}
  PROVE  \E q \in Nat : /\ NextTimeout("Skip", timeout, now, p) = timeout + (q + 1) * p
                        /\ timeout + q * p <= now /\ now < timeout + (q + 1) * p
<1> DEFINE n == now - timeout
           q == n \div p
           r == n % p
<1>1. n \in Nat /\ now = timeout + n
  OBVIOUS
<1>2. q \in Nat /\ r \in 0 .. p - 1 /\ n = p * q + r
  BY <1>1, DivMod
<1>3. NextTimeout("Skip", timeout, now, p) = now + p - r
  BY DEF NextTimeout
<1> HIDE DEF n, q, r
<1>4. (q + 1) * p = q * p + p /\ q * p = p * q /\ q * p \in Nat
  BY <1>2
<1>5. now = timeout + q * p + r
  BY <1>1, <1>2, <1>4
<1>6. now + p - r = timeout + (q + 1) * p
  BY <1>2, <1>4, <1>5
<1>7. timeout + q * p <= now /\ now < timeout + (q + 1) * p
  BY <1>2, <1>4, <1>5
<1> QED BY <1>2, <1>3, <1>6, <1>7

\* The next deadline is on the grid again, the grid having moved under Delay only.
LEMMA NextTickOnGrid ==
  ASSUME IntervalInv, NEW s \in Ticking, NEW dt, PollTick(s, dt)
  PROVE  OnGrid(s)' /\ deadline'[s] \in 0 .. MaxTime /\ start'[s] \in 0 .. MaxTime
<1>1. /\ s \in Sleeps /\ MaxTime \in Nat /\ Grace \in Nat /\ Periods \subseteq Nat \ {0}
  BY TimerAssumption, IntervalAssumption
<1>2. /\ state[s] = "ready" /\ elapsed >= deadline[s] /\ AfterTick(s) <= MaxTime
      /\ deadline' = [deadline EXCEPT ![s] = AfterTick(s)]
      /\ start' = [start EXCEPT ![s] =
           IF Late(s) /\ behavior[s] = "Delay" THEN AfterTick(s) ELSE start[s]]
      /\ period' = period
  BY DEF PollTick
<1>3. /\ period[s] \in Periods /\ period[s] \in Nat \ {0} /\ OnGrid(s)
      /\ behavior[s] \in Behaviors /\ start[s] \in 0 .. MaxTime
      /\ deadline[s] \in 0 .. MaxTime /\ elapsed \in Nat
  <2>1. period[s] \in Periods /\ OnGrid(s)
    BY <1>2 DEF IntervalInv, GridKept, Alive
  <2>2. behavior[s] \in Behaviors /\ start[s] \in 0 .. MaxTime
    BY DEF IntervalInv, IntervalsTyped
  <2>3. deadline[s] \in 0 .. MaxTime /\ elapsed \in Nat
    BY <1>1 DEF IntervalInv, Inv, TypeOK, Horizon, Eps
  <2> QED BY <1>1, <2>1, <2>2, <2>3
<1>4. PICK k \in Nat : deadline[s] = start[s] + k * period[s]
  BY <1>3 DEF OnGrid
<1>5. start \in [Ticking -> 0 .. MaxTime] /\ deadline \in [Sleeps -> 0 .. MaxTime]
  BY DEF IntervalInv, IntervalsTyped, Inv, TypeOK
<1>6. /\ deadline'[s] = AfterTick(s)
      /\ start'[s] = IF Late(s) /\ behavior[s] = "Delay" THEN AfterTick(s) ELSE start[s]
  BY <1>1, <1>2, <1>5
<1>7. CASE ~Late(s) \/ behavior[s] = "Burst"
  <2>1. AfterTick(s) = deadline[s] + period[s]
    BY <1>7 DEF AfterTick, NextTimeout
  <2>2. start'[s] = start[s]
    BY <1>6, <1>7
  <2>3. (k + 1) * period[s] = k * period[s] + period[s] /\ k * period[s] \in Nat
    BY <1>3, Multiples
  <2>4. AfterTick(s) = start[s] + (k + 1) * period[s] /\ AfterTick(s) \in 0 .. MaxTime
    BY <1>2, <1>3, <1>4, <2>1, <2>3
  <2>5. deadline'[s] = start'[s] + (k + 1) * period'[s] /\ k + 1 \in Nat
    BY <1>2, <1>6, <2>2, <2>4
  <2> QED BY <1>3, <1>6, <2>2, <2>4, <2>5 DEF OnGrid
<1>8. CASE Late(s) /\ behavior[s] = "Delay"
  <2>1. AfterTick(s) = elapsed + period[s]
    BY <1>8 DEF AfterTick, NextTimeout
  <2>2. AfterTick(s) \in 0 .. MaxTime
    BY <1>1, <1>2, <1>3, <2>1
  <2>3. start'[s] = deadline'[s] /\ deadline'[s] \in 0 .. MaxTime
    BY <1>6, <1>8, <2>2
  <2>4. deadline'[s] = start'[s] + 0 * period'[s] /\ 0 \in Nat
    <3>1. 0 * period[s] = 0
      BY <1>3
    <3> QED BY <1>2, <2>3, <3>1
  <2> QED BY <2>3, <2>4 DEF OnGrid
<1>9. CASE Late(s) /\ behavior[s] = "Skip"
  <2>1. AfterTick(s) = NextTimeout("Skip", deadline[s], elapsed, period[s])
    BY <1>9 DEF AfterTick
  <2>2. deadline[s] \in Nat /\ deadline[s] < elapsed
    BY <1>1, <1>3, <1>9 DEF Late
  <2>3. PICK q \in Nat : AfterTick(s) = deadline[s] + (q + 1) * period[s]
    <3>1. PICK d \in Nat, e \in Nat, p \in Nat \ {0} :
                 d = deadline[s] /\ e = elapsed /\ p = period[s]
      BY <1>3, <2>2
    <3>2. d < e
      BY <2>2, <3>1
    <3>3. PICK q \in Nat : NextTimeout("Skip", d, e, p) = d + (q + 1) * p
      <4>1. \E q \in Nat : /\ NextTimeout("Skip", d, e, p) = d + (q + 1) * p
                           /\ d + q * p <= e /\ e < d + (q + 1) * p
        BY Zenon, <3>2, SkipFacts
      <4> QED BY Zenon, <4>1
    <3> QED BY <2>1, <3>1, <3>3
  <2>4. start'[s] = start[s]
    BY <1>6, <1>9
  <2>5. (k + (q + 1)) * period[s] = k * period[s] + period[s] * (q + 1)
    BY <1>3, Multiples
  <2>6. k * period[s] \in Nat /\ (q + 1) * period[s] \in Nat
    BY <1>3, Multiples
  <2>7. period[s] * (q + 1) = (q + 1) * period[s]
    BY <1>3
  <2>8. AfterTick(s) = start[s] + (k + (q + 1)) * period[s] /\ AfterTick(s) \in 0 .. MaxTime
    BY <1>2, <1>3, <1>4, <2>2, <2>3, <2>5, <2>6, <2>7
  <2>9. deadline'[s] = start'[s] + (k + (q + 1)) * period'[s] /\ k + (q + 1) \in Nat
    BY <1>2, <1>6, <2>4, <2>8
  <2> QED BY <1>3, <1>6, <2>4, <2>8, <2>9 DEF OnGrid
<1> QED BY <1>3, <1>7, <1>8, <1>9 DEF Behaviors

\* A step of the intervals is a step of the timer, or a tick.
LEMMA TickOrTimerStep ==
  ASSUME [INext]_allvars
  PROVE  [Next]_vars \/ \E s \in Ticking, dt \in 1 .. MaxStep : PollTick(s, dt)
<1>1. Ticking \subseteq Sleeps
  BY IntervalAssumption
<1>2. ASSUME NEW s \in Ticking, IntervalStep(s)
      PROVE  Next \/ UNCHANGED vars \/ \E dt \in 1 .. MaxStep : PollTick(s, dt)
  BY <1>1, <1>2 DEF IntervalStep, TickStep, LastTick, ResetAt, SetMissedTickBehavior, NewInterval,
                    Next, PollStep
<1>3. ASSUME NEW s \in Sleeps, PlainStep(s)
      PROVE  Next
  BY <1>3 DEF PlainStep, Next
<1>4. ASSUME WorldStep
      PROVE  Next
  BY <1>4 DEF WorldStep, Next
<1>5. CASE UNCHANGED allvars
  BY <1>5 DEF allvars
<1> QED BY <1>2, <1>3, <1>4, <1>5 DEF INext

\* A tick moves the deadline of a task that is about to poll and nobody else's.
LEMMA TickFacts ==
  ASSUME IntervalInv, NEW s \in Ticking, NEW dt \in 1 .. MaxStep, PollTick(s, dt)
  PROVE  /\ s \in Sleeps /\ state[s] = "ready" /\ deadline' \in [Sleeps -> 0 .. MaxTime]
         /\ \A t \in Sleeps \ {s} : deadline'[t] = deadline[t]
         /\ \A t \in Ticking \ {s} : start'[t] = start[t]
         /\ elapsed' \in 0 .. Horizon /\ elapsed' >= elapsed
         /\ UNCHANGED <<disabled, events, state, home, entered, period, behavior>>
<1>1. /\ s \in Sleeps /\ MaxTime \in Nat
  BY TimerAssumption, IntervalAssumption
<1>2. elapsed \in 0 .. Horizon /\ deadline \in [Sleeps -> 0 .. MaxTime]
      /\ start \in [Ticking -> 0 .. MaxTime]
  BY DEF IntervalInv, IntervalsTyped, Inv, TypeOK
<1>3. elapsed' \in 0 .. Horizon /\ elapsed' >= elapsed
  BY <1>1, <1>2 DEF PollTick, Advanced, Min2, Horizon, Eps, MaxStep
<1>4. deadline'[s] \in 0 .. MaxTime
  BY NextTickOnGrid
<1>5. /\ deadline' = [deadline EXCEPT ![s] = AfterTick(s)]
      /\ start' = [start EXCEPT ![s] =
           IF Late(s) /\ behavior[s] = "Delay" THEN AfterTick(s) ELSE start[s]]
      /\ state[s] = "ready"
      /\ UNCHANGED <<disabled, events, state, home, entered, period, behavior>>
  BY DEF PollTick
<1>6. deadline' \in [Sleeps -> 0 .. MaxTime]
  BY <1>1, <1>2, <1>4, <1>5
<1> QED BY <1>1, <1>2, <1>3, <1>5, <1>6

\* Steps that leave the deadlines of the intervals alone, and start none.
LEMMA GridFrame ==
  ASSUME IntervalInv, IntervalsKept \/ UNCHANGED ivars,
         \A t \in Ticking : deadline'[t] = deadline[t] /\ (Alive(t)' => Alive(t))
  PROVE  IntervalsTyped' /\ GridKept'
<1>1. /\ behavior \in [Ticking -> Behaviors] /\ start \in [Ticking -> 0 .. MaxTime]
      /\ period \in [Ticking -> Periods \cup {APeriod}]
  BY DEF IntervalInv, IntervalsTyped
<1>2. "Burst" \in Behaviors /\ 0 \in 0 .. MaxTime
  BY TimerAssumption DEF Behaviors
<1>3. CASE IntervalsKept
  <2>1. /\ behavior' \in [Ticking -> Behaviors] /\ start' \in [Ticking -> 0 .. MaxTime]
        /\ period' \in [Ticking -> Periods \cup {APeriod}]
    BY <1>1, <1>2, <1>3 DEF IntervalsKept, Keep
  <2>2. \A t \in Ticking : Alive(t)' => start'[t] = start[t] /\ period'[t] = period[t]
    BY <1>3 DEF IntervalsKept, Keep, Alive
  <2> QED BY <2>1, <2>2 DEF IntervalInv, IntervalsTyped, GridKept, OnGrid
<1>4. CASE UNCHANGED ivars
  BY <1>1, <1>4 DEF ivars, IntervalInv, IntervalsTyped, GridKept, OnGrid
<1> QED BY <1>3, <1>4

\* An interval starts, or is reset, with its deadline as the start of its grid.
LEMMA StartFacts ==
  ASSUME IntervalInv, NEW s \in Ticking, NEW d \in 0 .. MaxTime, NEW p \in Periods,
         deadline' = [deadline EXCEPT ![s] = d], start' = [start EXCEPT ![s] = d],
         period' = [period EXCEPT ![s] = p], UNCHANGED behavior,
         \A t \in Ticking \ {s} : Alive(t)' => Alive(t)
  PROVE  IntervalsTyped' /\ GridKept'
<1>1. /\ behavior \in [Ticking -> Behaviors] /\ start \in [Ticking -> 0 .. MaxTime]
      /\ period \in [Ticking -> Periods \cup {APeriod}]
      /\ deadline \in [Sleeps -> 0 .. MaxTime] /\ s \in Sleeps /\ Ticking \subseteq Sleeps
  BY IntervalAssumption DEF IntervalInv, IntervalsTyped, Inv, TypeOK
<1>2. IntervalsTyped'
  BY <1>1 DEF IntervalsTyped
<1>3. period'[s] = p /\ deadline'[s] = d /\ start'[s] = d
  BY <1>1
<1>4. OnGrid(s)'
  <2>1. p \in Nat /\ 0 * p = 0 /\ d = d + 0 /\ 0 \in Nat
    BY IntervalAssumption
  <2>2. deadline'[s] = start'[s] + 0 * period'[s]
    BY <1>3, <2>1
  <2> QED BY <2>1, <2>2 DEF OnGrid
<1>5. ASSUME NEW t \in Ticking \ {s}, Alive(t)'
      PROVE  period'[t] \in Periods /\ OnGrid(t)'
  <2>1. deadline'[t] = deadline[t] /\ start'[t] = start[t] /\ period'[t] = period[t]
    BY <1>1
  <2> QED BY <1>5, <2>1 DEF IntervalInv, GridKept, OnGrid
<1> QED BY <1>2, <1>3, <1>4, <1>5 DEF GridKept

\* Every step keeps the timer's invariant, ticks included.
LEMMA TickKeepsInv ==
  ASSUME IntervalInv, [INext]_allvars
  PROVE  Inv'
<1>1. ASSUME NEW s \in Ticking, NEW dt \in 1 .. MaxStep, PollTick(s, dt)
      PROVE  Inv'
  <2>1. /\ deadline' \in [Sleeps -> 0 .. MaxTime] /\ elapsed' \in 0 .. Horizon
        /\ UNCHANGED <<disabled, events, state, home, entered>>
    BY <1>1, TickFacts
  <2>2. Inv
    BY DEF IntervalInv
  <2> QED BY <2>1, <2>2 DEF Inv, TypeOK, DisabledHasNoLive, EventsOwned
<1> QED BY <1>1, TickOrTimerStep, InvStep DEF IntervalInv

\* Every step keeps the deadlines of the intervals on their grids.
LEMMA GridStep ==
  ASSUME IntervalInv, [INext]_allvars
  PROVE  IntervalInv'
<1>0. /\ Inv' /\ Ticking \subseteq Sleeps
      /\ state \in [Sleeps -> States] /\ deadline \in [Sleeps -> 0 .. MaxTime]
      /\ IntervalsTyped /\ GridKept
  BY TickKeepsInv, IntervalAssumption DEF IntervalInv, Inv, TypeOK
<1> DEFINE Goal == IntervalsTyped' /\ GridKept'
<1>1. ASSUME NEW s \in Ticking, IntervalStep(s)
      PROVE  Goal
  <2>1. ASSUME NEW dt \in 1 .. MaxStep, PollPending(s, dt), UNCHANGED ivars
        PROVE  Goal
    BY <1>0, <2>1, GridFrame DEF PollPending, Alive
  <2>2. ASSUME NEW dt \in 1 .. MaxStep, PollTick(s, dt)
        PROVE  Goal
    <3>1. /\ OnGrid(s)' /\ start'[s] \in 0 .. MaxTime /\ state[s] = "ready"
          /\ \A t \in Sleeps \ {s} : deadline'[t] = deadline[t]
          /\ \A t \in Ticking \ {s} : start'[t] = start[t]
          /\ UNCHANGED <<state, period, behavior>>
      BY <2>2, NextTickOnGrid, TickFacts
    <3>2. \E v : start' = [start EXCEPT ![s] = v]
      BY <2>2 DEF PollTick
    <3>3. IntervalsTyped'
      BY <1>0, <3>1, <3>2 DEF IntervalsTyped
    <3>4. ASSUME NEW t \in Ticking, Alive(t)'
          PROVE  period'[t] \in Periods /\ OnGrid(t)'
      <4>1. Alive(t) /\ period'[t] \in Periods
        BY <1>0, <3>1, <3>4 DEF Alive, GridKept
      <4>2. CASE t = s
        BY <3>1, <4>1, <4>2
      <4>3. CASE t # s
        BY <1>0, <3>1, <4>1, <4>3 DEF GridKept, OnGrid
      <4> QED BY <4>2, <4>3
    <3> QED BY <3>3, <3>4 DEF GridKept
  <2>3. ASSUME NEW dt \in 1 .. MaxStep, LastTick(s, dt)
        PROVE  Goal
    BY <1>0, <2>3, GridFrame DEF LastTick, PollReady, Alive
  <2>4. ASSUME Wake(s), UNCHANGED ivars
        PROVE  Goal
    BY <1>0, <2>4, GridFrame DEF Wake, Alive
  <2>5. ASSUME NEW d \in 0 .. MaxTime, ResetAt(s, d)
        PROVE  Goal
    <3>1. period[s] \in Periods
      BY <1>0, <2>5 DEF ResetAt, Reset, GridKept, Alive
    <3>2. period' = [period EXCEPT ![s] = period[s]]
      BY <1>0, <2>5 DEF ResetAt, IntervalsTyped
    <3>3. /\ deadline' = [deadline EXCEPT ![s] = d] /\ start' = [start EXCEPT ![s] = d]
          /\ UNCHANGED behavior /\ \A t \in Ticking \ {s} : Alive(t)' => Alive(t)
      BY <2>5 DEF ResetAt, Reset, Alive
    <3> QED BY <3>1, <3>2, <3>3, StartFacts
  <2>6. ASSUME NEW b \in Behaviors, SetMissedTickBehavior(s, b)
        PROVE  Goal
    BY <1>0, <2>6 DEF SetMissedTickBehavior, vars, IntervalsTyped, GridKept, OnGrid, Alive
  <2>7. ASSUME NEW n \in Nodes, NEW c \in Nodes, NEW d \in 0 .. MaxTime, NEW p \in Periods,
               NewInterval(s, n, c, d, p)
        PROVE  Goal
    <3>1. /\ deadline' = [deadline EXCEPT ![s] = d] /\ start' = [start EXCEPT ![s] = d]
          /\ period' = [period EXCEPT ![s] = p] /\ UNCHANGED behavior
          /\ \A t \in Ticking \ {s} : Alive(t)' => Alive(t)
      BY <1>0, <2>7 DEF NewInterval, Sleep, Alive
    <3> QED BY <3>1, StartFacts
  <2> QED BY <1>1, <2>1, <2>2, <2>3, <2>4, <2>5, <2>6, <2>7 DEF IntervalStep, TickStep
<1>2. ASSUME NEW s \in Sleeps \ Ticking, PlainStep(s), UNCHANGED ivars
      PROVE  Goal
  <2>1. \A t \in Ticking : deadline'[t] = deadline[t] /\ state'[t] = state[t]
    BY <1>0, <1>2 DEF PlainStep, PollStep, PollPending, PollReady, ValueReady, Wake, Reset, Sleep
  <2> QED BY <1>2, <2>1, GridFrame DEF Alive
<1>3. ASSUME WorldStep, IntervalsKept
      PROVE  Goal
  <2>1. deadline' = deadline
    BY <1>3 DEF WorldStep, OtherPoll, TimerStep, AdvanceToNextEvent, NoEvents, vars, Kill, Restart
  <2>2. ASSUME NEW t \in Ticking
        PROVE  Alive(t)' => Alive(t)
    BY <1>0, <1>3 DEF WorldStep, OtherPoll, TimerStep, AdvanceToNextEvent, NoEvents, vars, Kill,
                      Restart, StateAfterKill, Alive
  <2> QED BY <1>3, <2>1, <2>2, GridFrame
<1>4. ASSUME UNCHANGED allvars
      PROVE  Goal
  BY <1>4, GridFrame DEF allvars, vars, Alive
<1> HIDE DEF Goal
<1>5. Goal
  BY <1>1, <1>2, <1>3, <1>4 DEF INext
<1> QED BY <1>0, <1>5 DEF IntervalInv, Goal

\* Type correctness, the state of the heap and the grids, with intervals as well.
THEOREM IntervalInvariant == ISpec => []IntervalInv
<1>1. IInit => IntervalInv
  <2> SUFFICES ASSUME IInit PROVE IntervalInv
    OBVIOUS
  <2>1. Inv
    BY TimerAssumption DEF IInit, Init, Inv, TypeOK, DisabledHasNoLive, EventsOwned,
       States, Horizon, Eps
  <2>2. IntervalsTyped
    BY TimerAssumption DEF IInit, IntervalsTyped, Behaviors
  <2>3. GridKept
    BY IntervalAssumption DEF IInit, Init, GridKept, Alive
  <2> QED BY <2>1, <2>2, <2>3 DEF IntervalInv
<1>2. IntervalInv /\ [INext]_allvars => IntervalInv'
  BY GridStep
<1> QED BY <1>1, <1>2, PTL DEF ISpec

\* An interval does not drift: however late its ticks are polled, they are a whole
\* number of periods apart, whatever the missed tick behavior.
THEOREM TicksOnGrid == ISpec => []IntervalOnGrid
<1>1. ASSUME IntervalInv, NEW s \in Ticking, state[s] \in {"ready", "waiting"}
      PROVE  deadline[s] \in Grid(s)
  <2>1. /\ period[s] \in Nat \ {0} /\ start[s] \in 0 .. MaxTime /\ OnGrid(s)
        /\ deadline[s] \in 0 .. MaxTime /\ MaxTime \in Nat
    BY <1>1, IntervalAssumption, TimerAssumption
       DEF IntervalInv, GridKept, Alive, IntervalsTyped, Inv, TypeOK
  <2>2. PICK k \in Nat : deadline[s] = start[s] + k * period[s]
    BY <2>1 DEF OnGrid
  <2>3. k * period[s] \in Nat /\ k <= k * period[s]
    BY <2>1, Multiples
  <2>4. k \in 0 .. MaxTime
    BY <2>1, <2>2, <2>3
  <2> QED BY <2>2, <2>4 DEF Grid
<1>2. IntervalInv => IntervalOnGrid
  BY <1>1 DEF IntervalOnGrid
<1> QED BY <1>2, IntervalInvariant, PTL

\* "Skips missed ticks and tick on the next multiple of period from start": the deadline
\* after a late tick is later than now, and no multiple in between is left out.
LEMMA SkipStep ==
  ASSUME IntervalInv, NEW s \in Ticking, NEW dt \in 1 .. MaxStep, PollTick(s, dt),
         Late(s), behavior[s] = "Skip"
  PROVE  /\ deadline'[s] > elapsed
         /\ \A g \in Grid(s) : g > elapsed => g >= deadline'[s]
<1>1. /\ period[s] \in Nat \ {0} /\ start[s] \in Nat /\ OnGrid(s)
      /\ deadline[s] \in Nat /\ elapsed \in Nat /\ Grace \in Nat
  <2>1. state[s] = "ready" /\ s \in Sleeps /\ MaxTime \in Nat
    BY TimerAssumption, IntervalAssumption DEF PollTick
  <2>2. period[s] \in Periods /\ OnGrid(s)
    BY <2>1 DEF IntervalInv, GridKept, Alive
  <2>3. start[s] \in 0 .. MaxTime /\ deadline[s] \in 0 .. MaxTime /\ elapsed \in 0 .. Horizon
    BY <2>1 DEF IntervalInv, IntervalsTyped, Inv, TypeOK
  <2>4. elapsed \in Nat /\ start[s] \in Nat /\ deadline[s] \in Nat
    BY <2>1, <2>3 DEF Horizon, Eps
  <2>5. period[s] \in Nat \ {0} /\ Grace \in Nat
    BY <2>2, IntervalAssumption
  <2> QED BY <2>2, <2>4, <2>5
<1>2. PICK k \in Nat : deadline[s] = start[s] + k * period[s]
  BY <1>1 DEF OnGrid
<1>3. PICK d \in Nat, e \in Nat, p \in Nat \ {0}, b \in Nat :
        d = deadline[s] /\ e = elapsed /\ p = period[s] /\ b = start[s]
  BY <1>1
<1>4. d < e
  BY <1>1, <1>3 DEF Late
<1>5. \E q \in Nat : /\ NextTimeout("Skip", d, e, p) = d + (q + 1) * p
                     /\ d + q * p <= e /\ e < d + (q + 1) * p
  BY Zenon, <1>4, SkipFacts
<1>6. PICK q \in Nat : /\ NextTimeout("Skip", d, e, p) = d + (q + 1) * p
                       /\ d + q * p <= e /\ e < d + (q + 1) * p
  BY Zenon, <1>5
<1>7. deadline'[s] = d + (q + 1) * p
  <2>1. deadline'[s] = AfterTick(s)
    BY IntervalAssumption DEF PollTick, IntervalInv, Inv, TypeOK
  <2> QED BY <1>3, <1>6, <2>1 DEF AfterTick
<1>8. ASSUME NEW g \in Grid(s), g > elapsed
      PROVE  g >= deadline'[s]
  <2>1. PICK j \in Nat : g = b + j * p
    BY <1>3, <1>8, TimerAssumption DEF Grid
  <2>2. d = b + k * p
    BY <1>2, <1>3
  <2>3. (k + q) * p = k * p + p * q /\ p * q = q * p
    BY Multiples
  <2>4. (k + (q + 1)) * p = k * p + p * (q + 1) /\ p * (q + 1) = (q + 1) * p
    BY Multiples
  <2>5. j * p \in Nat /\ k * p \in Nat /\ q * p \in Nat /\ (q + 1) * p \in Nat
    BY Multiples
  <2>6. j * p > (k + q) * p
    BY <1>3, <1>6, <1>8, <2>1, <2>2, <2>3, <2>5
  <2>7. j > k + q
    BY <2>6, Multiples
  <2>8. j * p >= (k + (q + 1)) * p
    BY <2>7, Multiples
  <2> QED BY <1>7, <2>1, <2>2, <2>4, <2>5, <2>8
<1> QED BY <1>3, <1>6, <1>7, <1>8

\* Under Skip an interval goes on at the next multiple of its period.
THEOREM SkipGoesToNext == ISpec => SkipTicksNext
<1> DEFINE Cond(s) == /\ deadline'[s] # deadline[s] /\ start'[s] = start[s] /\ Late(s)
                      /\ behavior[s] = "Skip" /\ state[s] = "ready" /\ elapsed' # elapsed
           Then(s) == /\ deadline'[s] > elapsed
                      /\ \A g \in Grid(s) : g > elapsed => g >= deadline'[s]
<1>1. ASSUME IntervalInv, [INext]_allvars, NEW s \in Ticking, Cond(s)
      PROVE  \E dt \in 1 .. MaxStep : PollTick(s, dt)
  <2>0. deadline \in [Sleeps -> 0 .. MaxTime]
    BY <1>1 DEF IntervalInv, Inv, TypeOK
  <2>1. /\ s \in Sleeps /\ Ticking \subseteq Sleeps
        /\ deadline \in [Sleeps -> 0 .. MaxTime]
    BY <2>0, IntervalAssumption
  <2>2. ~[Next]_vars
    BY <1>1, <2>1 DEF Next, PollStep, PollPending, PollReady, ValueReady, Wake, Reset, Sleep,
         OtherPoll, TimerStep, AdvanceToNextEvent, NoEvents, Kill, Restart, vars
  <2>3. PICK t \in Ticking, dt \in 1 .. MaxStep : PollTick(t, dt)
    BY <1>1, <2>2, TickOrTimerStep
  <2>4. t = s
    BY <1>1, <2>1, <2>3 DEF PollTick
  <2> QED BY <2>3, <2>4
<1>2. ASSUME IntervalInv, [INext]_allvars, NEW s \in Ticking, Cond(s)
      PROVE  Then(s)
  <2>1. PICK dt \in 1 .. MaxStep : PollTick(s, dt)
    BY <1>1, <1>2
  <2> QED BY <1>2, <2>1, SkipStep
<1> HIDE DEF Then
<1>3. IntervalInv /\ [INext]_allvars =>
        [\A s \in Ticking :
           deadline'[s] # deadline[s] /\ start'[s] = start[s] /\ Late(s)
             /\ behavior[s] = "Skip" /\ state[s] = "ready" /\ elapsed' # elapsed =>
           Then(s)]_allvars
  BY <1>2
<1> USE DEF Then
<1> QED BY <1>3, IntervalInvariant, PTL DEF ISpec, SkipTicksNext

\* With intervals as without, and without await_future_in_node: no sleeper loses its
\* wake-up to a kill, a restart, a reset or a tick.
THEOREM IntervalWakeupsKept ==
  ASSUME EnterNode = FALSE
  PROVE  ISpec => []NoLostWakeup
<1>1. IInit => SleepInv
  BY TimerAssumption DEF IInit, Init, SleepInv, Inv, TypeOK, DisabledHasNoLive,
     EventsOwned, PolledAtHome, NoLostWakeup, States, Horizon, Eps
<1>2. ASSUME IntervalInv, SleepInv, [INext]_allvars
      PROVE  SleepInv'
  <2>1. ASSUME NEW s \in Ticking, NEW dt \in 1 .. MaxStep, PollTick(s, dt)
        PROVE  PolledAtHome' /\ NoLostWakeup'
    <3>1. /\ s \in Sleeps /\ state[s] = "ready"
          /\ \A t \in Sleeps \ {s} : deadline'[t] = deadline[t]
          /\ UNCHANGED <<disabled, events, state, home, entered>>
      BY <1>2, <2>1, TickFacts
    <3> QED BY <1>2, <3>1 DEF SleepInv, PolledAtHome, NoLostWakeup, DueEvent
  <2> QED BY <1>2, <2>1, TickKeepsInv, TickOrTimerStep, SleepStep DEF SleepInv
<1>3. SleepInv => NoLostWakeup
  BY DEF SleepInv
<1> QED BY <1>1, <1>2, <1>3, IntervalInvariant, PTL DEF ISpec

\* With intervals as well, a disabled node has no live event.
THEOREM IntervalDisabledSilent == ISpec => []DisabledHasNoLive
<1>1. IntervalInv => DisabledHasNoLive
  BY DEF IntervalInv, Inv
<1> QED BY <1>1, IntervalInvariant, PTL

\* With intervals as well, no jump of the clock makes a waiter oversleep.
THEOREM IntervalNobodyOversleeps == ISpec => NoOversleep
<1> DEFINE A == Quiet /\ elapsed' # elapsed /\ events' # events =>
                  \A e \in events : elapsed' <= e.deadline + Eps
<1>1. ASSUME IntervalInv, [INext]_allvars
      PROVE  A
  <2>1. CASE [Next]_vars
    BY <1>1, <2>1, JumpStep DEF IntervalInv, Inv
  <2>2. CASE \E s \in Ticking, dt \in 1 .. MaxStep : PollTick(s, dt)
    BY <2>2 DEF PollTick
  <2> QED BY <1>1, <2>1, <2>2, TickOrTimerStep
<1>2. IntervalInv /\ [INext]_allvars => [A]_vars
  BY <1>1
<1> HIDE DEF A
<1>3. [][A]_vars => NoOversleep
  BY PTL DEF A, NoOversleep
<1> QED BY <1>2, <1>3, IntervalInvariant, PTL DEF ISpec

=============================================================================
