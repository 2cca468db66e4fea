-------------------------------- MODULE Timer --------------------------------
(***************************************************************************)
(* Simulated time in msim (time/mod.rs, time/timer.rs, time/sleep.rs): the *)
(* clock, the heap of timer events, Sleep futures, and what killing and    *)
(* restarting a node does to them.                                         *)
(*                                                                         *)
(* Time is counted in steps of 50 ns.  A poll by the executor takes 50 to  *)
(* 99 ns, one step or, rounded up, two; a jump to the next timer event     *)
(* ends Eps after it.  Every deadline is at most MaxTime, so all values of *)
(* the clock from Horizon on compare alike with every deadline, and the    *)
(* clock saturates there.                                                  *)
(*                                                                         *)
(* The main task belongs to node Main, which is never killed.              *)
(***************************************************************************)
EXTENDS Naturals

CONSTANTS
  Sleeps,     \* Sleep futures, each held by one task
  Nodes, Main,
  MaxTime,    \* bound: latest deadline
  EnterNode   \* whether tasks use await_future_in_node for another node

ASSUME TimerAssumption ==
  /\ Main \in Nodes
  /\ MaxTime \in Nat
  /\ EnterNode \in BOOLEAN

VARIABLES
  elapsed,   \* Clock.elapsed_time
  disabled,  \* Timer.disabled_node_ids
  events,    \* Timer.events; a cancelled event stays in the heap, not live
  state,     \* state[s]: where the task that holds Sleep s is
  home,      \* node of that task
  entered,   \* node whose context is entered when s is polled
  deadline   \* Sleep.deadline

vars == <<elapsed, disabled, events, state, home, entered, deadline>>

Eps == 1
MaxStep == 2
Horizon == MaxTime + Eps

\* new; ready: scheduled, to be polled; waiting: polled, pending; done; dropped
\* with its task, or with its Timeout.
States == {"new", "ready", "waiting", "done", "dropped"}
Event == [sleep : Sleeps, node : Nodes, deadline : 0 .. MaxTime, live : BOOLEAN]

Max2(a, b) == IF a >= b THEN a ELSE b
Min2(a, b) == IF a <= b THEN a ELSE b

Init ==
  /\ elapsed = 0
  /\ disabled = {}
  /\ events = {}
  /\ state = [s \in Sleeps |-> "new"]
  /\ home = [s \in Sleeps |-> Main]
  /\ entered = [s \in Sleeps |-> Main]
  /\ deadline = [s \in Sleeps |-> 0]

-----------------------------------------------------------------------------
(* Clock.                                                                   *)

\* ClockHandle::advance.
Advanced(d) == Min2(elapsed + d, Horizon)

\* ClockHandle::set_elapsed.
SetElapsed(t) == Max2(elapsed, t)

-----------------------------------------------------------------------------
(* Sleep futures.                                                           *)

\* The context a task of node n polls in: its own, or with await_future_in_node
\* (TaskEnteringFuture) that of another node.
PollContexts(n) == IF EnterNode THEN Nodes ELSE {n}

\* sleep, sleep_until or the delay of a timeout, in a task of node n, which polls it
\* in the context of c.
Sleep(s, n, c, d) ==
  /\ state[s] = "new"
  /\ c \in PollContexts(n)
  /\ state' = [state EXCEPT ![s] = "ready"]
  /\ home' = [home EXCEPT ![s] = n]
  /\ entered' = [entered EXCEPT ![s] = c]
  /\ deadline' = [deadline EXCEPT ![s] = d]
  /\ UNCHANGED <<elapsed, disabled, events>>

\* Sleep::reset changes the deadline only; the task polls the future again.
Reset(s, d) ==
  /\ state[s] = "ready"
  /\ deadline' = [deadline EXCEPT ![s] = d]
  /\ UNCHANGED <<elapsed, disabled, events, state, home, entered>>

\* What add_timer hands to Timer::add: an event of the current node.
EventOf(s) ==
  [sleep |-> s, node |-> entered[s], deadline |-> deadline[s], live |-> TRUE]

\* Mutant: disabled nodes are not looked at.
WithTimerAlways(s) == events \cup {EventOf(s)}

\* Timer::add: nothing is scheduled for a disabled node.
WithTimer(s) ==
  IF entered[s] \in disabled THEN events ELSE events \cup {EventOf(s)}

\* The task that holds s is polled, polls s, and the executor advances time.
PollPending(s, dt) ==
  /\ state[s] = "ready" /\ elapsed < deadline[s]
  /\ state' = [state EXCEPT ![s] = "waiting"]
  /\ events' = WithTimer(s)
  /\ elapsed' = Advanced(dt)
  /\ UNCHANGED <<disabled, home, entered, deadline>>

PollReady(s, dt) ==
  /\ state[s] = "ready" /\ elapsed >= deadline[s]
  /\ state' = [state EXCEPT ![s] = "done"]
  /\ elapsed' = Advanced(dt)
  /\ UNCHANGED <<disabled, events, home, entered, deadline>>

\* s is the delay of a Timeout, whose value is polled first and is ready: the delay
\* is dropped unpolled, and what it has in the heap stays there.
ValueReady(s, dt) ==
  /\ state[s] = "ready"
  /\ state' = [state EXCEPT ![s] = "dropped"]
  /\ elapsed' = Advanced(dt)
  /\ UNCHANGED <<disabled, events, home, entered, deadline>>

\* The task that holds s is woken by something else.
Wake(s) ==
  /\ state[s] = "waiting"
  /\ state' = [state EXCEPT ![s] = "ready"]
  /\ UNCHANGED <<elapsed, disabled, events, home, entered, deadline>>

\* A task that holds no Sleep is polled.
OtherPoll(dt) ==
  /\ elapsed < Horizon
  /\ elapsed' = Advanced(dt)
  /\ UNCHANGED <<disabled, events, state, home, entered, deadline>>

-----------------------------------------------------------------------------
(* advance_to_next_event, when the executor has nothing to run.             *)

Quiet == \A s \in Sleeps : state[s] # "ready"

\* Mutant: BinaryHeap's own order.
IsLast(first) ==
  /\ \E e \in events : e.deadline = first
  /\ \A e \in events : first >= e.deadline

\* first is Timer::next: the earliest deadline, cancelled events included.
IsNext(first) ==
  /\ \E e \in events : e.deadline = first
  /\ \A e \in events : first <= e.deadline

\* Timer::expire(now) pops these.
Expired(now) == {e \in events : e.deadline <= now}

\* Mutant: the callback of one expired event only is called.
FiredFirst(now) == {e.sleep : e \in {x \in Expired(now) : x.live /\ x.deadline = now - Eps}}

Fired(now) == {e.sleep : e \in {x \in Expired(now) : x.live}}

AdvanceToNextEvent(first) ==
  LET time == first + Eps IN
  /\ Quiet /\ IsNext(first)
  /\ events' = events \ Expired(time)
  /\ state' = [s \in Sleeps |->
       IF state[s] = "waiting" /\ s \in Fired(time) THEN "ready" ELSE state[s]]
  /\ elapsed' = SetElapsed(time)
  /\ UNCHANGED <<disabled, home, entered, deadline>>

\* advance_to_next_event returns false: block_on panics unless blocking tasks
\* are pending ("no events, the task will block forever").
NoEvents ==
  /\ Quiet /\ events = {}
  /\ UNCHANGED vars

-----------------------------------------------------------------------------
(* Nodes.                                                                   *)

\* Timer::disable_node_and_remove_events: the callbacks are taken out of the
\* events of n; nothing is done for a node that is already disabled.
DisableNode(n) ==
  IF n \in disabled THEN events
  ELSE {[e EXCEPT !.live = e.live /\ e.node # n] : e \in events}

StateAfterKill(n) ==
  [s \in Sleeps |->
     IF home[s] = n /\ state[s] \in {"ready", "waiting"} THEN "dropped" ELSE state[s]]

\* TaskHandle::kill (and delete_node): the node stays disabled.
Kill(n) ==
  /\ n # Main
  /\ events' = DisableNode(n)
  /\ disabled' = disabled \cup {n}
  /\ state' = StateAfterKill(n)
  /\ UNCHANGED <<elapsed, home, entered, deadline>>

\* TimeHandle::enable_node.
EnableNode(n) == disabled \ {n}

\* TaskHandle::restart: kill, then enable_node.
Restart(n) ==
  /\ n # Main
  /\ events' = DisableNode(n)
  /\ disabled' = EnableNode(n)
  /\ state' = StateAfterKill(n)
  /\ UNCHANGED <<elapsed, home, entered, deadline>>

-----------------------------------------------------------------------------
PollStep(s) ==
  \E dt \in 1 .. MaxStep : PollPending(s, dt) \/ PollReady(s, dt) \/ ValueReady(s, dt)
TimerStep == \E first \in 0 .. MaxTime : AdvanceToNextEvent(first)

Next ==
  \/ \E s \in Sleeps, n, c \in Nodes, d \in 0 .. MaxTime : Sleep(s, n, c, d)
  \/ \E s \in Sleeps, d \in 0 .. MaxTime : Reset(s, d)
  \/ \E s \in Sleeps : PollStep(s) \/ Wake(s)
  \/ \E dt \in 1 .. MaxStep : OtherPoll(dt)
  \/ TimerStep \/ NoEvents
  \/ \E n \in Nodes : Kill(n) \/ Restart(n)

Spec == Init /\ [][Next]_vars

(***************************************************************************)
(* run_all_ready polls every scheduled task before block_on goes on, and   *)
(* block_on calls advance_to_next_event whenever nothing is ready.         *)
(***************************************************************************)
Fairness == WF_vars(TimerStep) /\ \A s \in Sleeps : WF_vars(PollStep(s))
FairSpec == Spec /\ Fairness

-----------------------------------------------------------------------------
(* Properties.                                                              *)

\* Type correctness of the clock, the heap and the sleepers.
TypeOK ==
  /\ elapsed \in 0 .. Horizon
  /\ disabled \in SUBSET (Nodes \ {Main})
  /\ events \in SUBSET Event
  /\ state \in [Sleeps -> States]
  /\ home \in [Sleeps -> Nodes]
  /\ entered \in [Sleeps -> Nodes]
  /\ deadline \in [Sleeps -> 0 .. MaxTime]

\* A disabled node has no live event: what the early return of
\* disable_node_and_remove_events for an already disabled node relies on.
DisabledHasNoLive == \A e \in events : e.live => e.node \notin disabled

DueEvent(s) == \E e \in events : e.sleep = s /\ e.deadline = deadline[s] /\ e.live

\* A task that waits on a Sleep and whose node takes timers has a live event at
\* the deadline of that Sleep: kills, restarts, resets and spurious wake-ups
\* lose no wake-up.
NoLostWakeup ==
  \A s \in Sleeps : state[s] = "waiting" /\ home[s] \notin disabled => DueEvent(s)

\* set_elapsed: "prevent time from going backwards - otherwise this can happen
\* when timers are late".
ClockMonotone == [][elapsed' >= elapsed]_vars

\* A task woken by the timer at its Sleep's deadline is not woken early: expire
\* runs the callbacks before set_elapsed, and yet the task polled next finds its
\* deadline passed (else it would wait with no event left).
FiredIsDue ==
  [][\A s \in Sleeps :
       state[s] = "waiting" /\ state'[s] = "ready" /\ DueEvent(s) /\ ~DueEvent(s)'
         => deadline[s] <= elapsed']_vars

\* A jump of the clock does not run past a timer: whoever waits for the earliest
\* deadline is woken at most Eps late by it (the heap's order is reversed for
\* that, since BinaryHeap is a max-heap).
NoOversleep ==
  [][Quiet /\ elapsed' # elapsed /\ events' # events =>
       \A e \in events : elapsed' <= e.deadline + Eps]_vars

\* A sleep of a task whose node lives ends.  await_future_in_node is documented
\* as NodeHandle::spawn(fut).await.unwrap(), which ends when that node is killed,
\* so this includes a sleep awaited in another node.
SleepEnds ==
  \A s \in Sleeps : state[s] = "waiting" /\ home[s] \notin disabled
                      ~> state[s] \in {"done", "dropped"}
=============================================================================
