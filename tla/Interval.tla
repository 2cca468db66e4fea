------------------------------- MODULE Interval -------------------------------
(***************************************************************************)
(* time::Interval (time/interval.rs) on the simulated time of Timer.  An   *)
(* interval owns one Sleep, which it polls for each tick and then moves to *)
(* the next deadline.  Some of the Sleeps of Timer belong to intervals,    *)
(* the others to plain sleepers, and all share the clock, the heap and the *)
(* killing of nodes.                                                       *)
(*                                                                         *)
(* The time the clock shows is exact below Horizon.  A tick that would be  *)
(* due later than MaxTime is the last one the task waits for.              *)
(***************************************************************************)
EXTENDS Timer

CONSTANTS
  Ticking,    \* the Sleeps that belong to intervals
  Periods,    \* durations between ticks
  Grace       \* how late a tick may be and not count as missed (5 ms)

ASSUME IntervalAssumption ==
  /\ Ticking \subseteq Sleeps
  /\ Periods \subseteq Nat \ {0}
  /\ Grace \in Nat

VARIABLES
  period,     \* Interval.period
  behavior,   \* Interval.missed_tick_behavior
  start       \* history: the instant from which the ticks are counted

ivars == <<period, behavior, start>>
allvars == <<vars, ivars>>

Behaviors == {"Burst", "Delay", "Skip"}
APeriod == CHOOSE p \in Periods : TRUE

IInit ==
  /\ Init
  /\ period = [s \in Ticking |-> APeriod]
  /\ behavior = [s \in Ticking |-> "Burst"]
  /\ start = [s \in Ticking |-> 0]

\* An interval goes with the task that holds it.
Keep(f, default) ==
  [s \in Ticking |-> IF state'[s] \in {"done", "dropped"} THEN default ELSE f[s]]
IntervalsKept ==
  /\ period' = Keep(period, APeriod)
  /\ behavior' = Keep(behavior, "Burst")
  /\ start' = Keep(start, 0)

\* interval_at(at, p), in a task of node n; interval(p) starts now.
NewInterval(s, n, c, at, p) ==
  /\ Sleep(s, n, c, at)
  /\ period' = [period EXCEPT ![s] = p]
  /\ start' = [start EXCEPT ![s] = at]
  /\ UNCHANGED behavior

SetMissedTickBehavior(s, b) ==
  /\ state[s] = "ready" /\ behavior[s] # b
  /\ behavior' = [behavior EXCEPT ![s] = b]
  /\ UNCHANGED <<vars, period, start>>

-----------------------------------------------------------------------------
(* Ticks.                                                                   *)

\* Mutant: Skip counts from the missed tick without taking the rest away.
SkipFromNow(b, timeout, now, p) ==
  CASE b = "Burst" -> timeout + p
    [] b = "Delay" -> now + p
    [] b = "Skip"  -> now + p - 1

\* Mutant: Skip ends one period short.
SkipToNow(b, timeout, now, p) ==
  CASE b = "Burst" -> timeout + p
    [] b = "Delay" -> now + p
    [] b = "Skip"  -> now - ((now - timeout) % p)

\* MissedTickBehavior::next_timeout.
NextTimeout(b, timeout, now, p) ==
  CASE b = "Burst" -> timeout + p
    [] b = "Delay" -> now + p
    [] b = "Skip"  -> now + p - ((now - timeout) % p)

Late(s) == elapsed > deadline[s] + Grace

\* The deadline that poll_tick gives to the Sleep.
AfterTick(s) ==
  IF Late(s) THEN NextTimeout(behavior[s], deadline[s], elapsed, period[s])
  ELSE deadline[s] + period[s]

\* poll_tick finds its Sleep elapsed, moves it to the next deadline and returns
\* the old one; the task goes on and will poll again.
PollTick(s, dt) ==
  /\ state[s] = "ready" /\ elapsed >= deadline[s]
  /\ elapsed < Horizon /\ AfterTick(s) <= MaxTime
  /\ deadline' = [deadline EXCEPT ![s] = AfterTick(s)]
  /\ start' = [start EXCEPT ![s] =
       IF Late(s) /\ behavior[s] = "Delay" THEN AfterTick(s) ELSE @]
  /\ elapsed' = Advanced(dt)
  /\ UNCHANGED <<disabled, events, state, home, entered, period, behavior>>

\* The last tick within the bound: the task drops the interval.
LastTick(s, dt) ==
  /\ elapsed = Horizon \/ AfterTick(s) > MaxTime
  /\ PollReady(s, dt)
  /\ IntervalsKept

\* reset, reset_immediately, reset_after and reset_at: any deadline.
ResetAt(s, d) ==
  /\ Reset(s, d)
  /\ start' = [start EXCEPT ![s] = d]
  /\ UNCHANGED <<period, behavior>>

-----------------------------------------------------------------------------
\* poll_tick, the Sleep elapsed or not.
TickStep(s) ==
  \E dt \in 1 .. MaxStep :
    \/ PollPending(s, dt) /\ UNCHANGED ivars
    \/ PollTick(s, dt) \/ LastTick(s, dt)

IntervalStep(s) ==
  \/ TickStep(s)
  \/ Wake(s) /\ UNCHANGED ivars
  \/ \E d \in 0 .. MaxTime : ResetAt(s, d)
  \/ \E b \in Behaviors : SetMissedTickBehavior(s, b)
  \/ \E n, c \in Nodes, d \in 0 .. MaxTime, p \in Periods : NewInterval(s, n, c, d, p)

\* The steps of Timer that are not those of a Sleep of an interval.
PlainStep(s) ==
  \/ PollStep(s) \/ Wake(s)
  \/ \E d \in 0 .. MaxTime : Reset(s, d)
  \/ \E n, c \in Nodes, d \in 0 .. MaxTime : Sleep(s, n, c, d)

WorldStep ==
  \/ \E dt \in 1 .. MaxStep : OtherPoll(dt)
  \/ TimerStep \/ NoEvents
  \/ \E n \in Nodes : Kill(n) \/ Restart(n)

INext ==
  \/ \E s \in Ticking : IntervalStep(s)
  \/ (\E s \in Sleeps \ Ticking : PlainStep(s)) /\ UNCHANGED ivars
  \/ WorldStep /\ IntervalsKept

ISpec == IInit /\ [][INext]_allvars

\* As in Timer: every scheduled task is polled, and block_on jumps to the next
\* event when nothing is ready.
IFairSpec ==
  /\ ISpec
  /\ WF_allvars(TimerStep /\ IntervalsKept)
  /\ \A s \in Ticking : WF_allvars(TickStep(s))
  /\ \A s \in Sleeps \ Ticking : WF_allvars(PollStep(s) /\ UNCHANGED ivars)

-----------------------------------------------------------------------------
(* Properties.                                                              *)

Grid(s) == {start[s] + k * period[s] : k \in 0 .. MaxTime}

\* However late the ticks are polled, and whatever is set in between, an interval
\* ticks at multiples of its period from where it starts (its first deadline, the
\* deadline of the last reset, or the one a late tick got under Delay): neither
\* Burst nor Skip drifts.
IntervalOnGrid ==
  \A s \in Ticking : state[s] \in {"ready", "waiting"} => deadline[s] \in Grid(s)

\* "Skips missed ticks and tick on the next multiple of period from start": after a
\* late tick under Skip the deadline is the first multiple after now, none left out
\* and none in the past, also when now is itself a multiple.
SkipTicksNext ==
  [][\A s \in Ticking :
       deadline'[s] # deadline[s] /\ start'[s] = start[s] /\ Late(s)
         /\ behavior[s] = "Skip" /\ state[s] = "ready" /\ elapsed' # elapsed =>
       /\ deadline'[s] > elapsed
       /\ \A g \in Grid(s) : g > elapsed => g >= deadline'[s]]_allvars
=============================================================================
