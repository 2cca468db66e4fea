--------------------------- MODULE HarnessProofs ---------------------------
(***************************************************************************)
(* Proofs about Harness for any configurations, any limit of the watchdog, *)
(* any abort counter and any range of seeds: when the watchdog aborts the  *)
(* process, what it leaves to the next simulation, and which seeds the     *)
(* simulations get.                                                        *)
(***************************************************************************)
EXTENDS Harness, FiniteSetTheorems, TLAPS

-----------------------------------------------------------------------------
(* The inductive invariants.                                                *)

\* The loop variables begin at the first configuration.
LoopBegins == pc = "config" => conf = 1 /\ rep = 0 /\ begun = 0 /\ used = {}

\* What the watchdog counts is never more than the samples since the clock moved: it
\* has seen the clock move if it has moved, and the count then starts over.
CountJustified ==
  /\ prev <= clock
  /\ clock = prev => deadlock_count <= still
  /\ wpc = "start" => deadlock_count = 0
  /\ Up => deadlock_count <= Limit

\* Who reads the runtime, and where the watchdog can be when the test thread is at pc.
GuardsHeld ==
  /\ "runner" \in readers <=> pc \in {"run", "stop", "join"}
  /\ "watchdog" \in readers <=> wpc \in {"sleep", "check"}
  /\ pc = "config" => wpc = "none"
  /\ pc = "loop" => wpc \in {"none", "exited"}
  /\ pc = "take" => wpc = "exited"
  /\ verdict = "passed" => pc = "done" /\ wpc \in {"none", "exited"}

\* The runtime is taken only from a simulation whose watchdog has returned, after which
\* nobody reads its clock; whoever brings the abort counter to zero ends the simulation
\* or its watchdog.
TakenLast ==
  /\ taken => pc \in {"loop", "done"} /\ wpc = "exited" /\ ~poisoned
  /\ poisoned => pc = "done" \/ wpc = "panicked"
  /\ pc = "loop" /\ begun > 0 => taken
  /\ verdict = "passed" => taken

\* How many simulations ago x was the seed.
Behind(x) == IF x <= seed THEN seed - x ELSE seed + MaxSeed + 1 - x

\* As long as the seeds have not come round, those used are the last `begun' ones; the
\* present seed is one of them from its simulation's start to its end.
SeedsBehind ==
  /\ IsFiniteSet(used)
  /\ pc \in {"config", "loop"} /\ begun <= MaxSeed => \A x \in used : Behind(x) \in 1 .. begun
  /\ pc \in {"run", "stop", "join", "take"} /\ begun <= MaxSeed + 1 =>
       \A x \in used : Behind(x) \in 0 .. begun - 1

HarnessInv ==
  /\ TypeOK /\ LoopBegins /\ CountJustified /\ NoFalseAlarm /\ GuardsHeld
  /\ TakenLast /\ SeedsBehind /\ SeedsDistinct

-----------------------------------------------------------------------------
(* Types.                                                                   *)

\* The next seed is a seed: the last one is followed by the first.
LEMMA SeedWraps ==
  ASSUME NEW s \in 0 .. MaxSeed
  PROVE  /\ s < MaxSeed => NextSeed(s) = s + 1
         /\ s = MaxSeed => NextSeed(s) = 0
         /\ NextSeed(s) \in 0 .. MaxSeed
<1>0. MaxSeed \in Nat
  BY HarnessAssumption
<1>1. CASE s < MaxSeed
  BY <1>0, <1>1 DEF NextSeed
<1>2. CASE s = MaxSeed
  BY <1>0, <1>2 DEF NextSeed
<1> QED
  BY <1>0, <1>1, <1>2

\* The types, by who changes them.
LoopTyped ==
  /\ configs \in TestConfigs \cup {<<>>}
  /\ conf \in 1 .. Len(configs) + 1
  /\ rep \in Nat /\ seed \in 0 .. MaxSeed
PlaceTyped ==
  /\ proc \in {"up", "aborted", "exited"}
  /\ pc \in {"config", "loop", "run", "stop", "join", "take", "done"}
  /\ verdict \in {"none", "passed", "failed"}
  /\ mode \in {"live", "hung", "spin"}
ClockTyped == clock \in 0 .. MaxClock /\ left \in 0 .. AbortCounterStart /\ poisoned \in BOOLEAN
LockTyped ==
  /\ readers \subseteq {"runner", "watchdog"} /\ taken \in BOOLEAN /\ disabled \in BOOLEAN
  /\ stop \in {"open", "sent", "closed"}
WatchTyped ==
  /\ wpc \in {"none", "start", "sleep", "check", "exited", "panicked"}
  /\ prev \in 0 .. MaxClock /\ deadlock_count \in 0 .. Limit + 1 /\ still \in 0 .. Limit + 1
SeenTyped == used \subseteq 0 .. MaxSeed /\ begun \in Nat

\* The type invariant is the conjunction of these.
LEMMA TypeParts ==
  TypeOK <=> /\ LoopTyped /\ PlaceTyped /\ ClockTyped /\ LockTyped /\ WatchTyped /\ SeenTyped
BY Zenon DEF TypeOK, LoopTyped, PlaceTyped, ClockTyped, LockTyped, WatchTyped, SeenTyped

\* What a step leaves alone keeps its type.
LEMMA TypeFrame ==
  /\ LoopTyped /\ UNCHANGED <<configs, conf, rep, seed>> => LoopTyped'
  /\ ClockTyped /\ UNCHANGED clockVars => ClockTyped'
  /\ LockTyped /\ UNCHANGED <<readers, taken, disabled, stop>> => LockTyped'
  /\ WatchTyped /\ UNCHANGED <<watchVars, still>> => WatchTyped'
  /\ SeenTyped /\ UNCHANGED seenVars => SeenTyped'
<1>1. LoopTyped /\ UNCHANGED <<configs, conf, rep, seed>> => LoopTyped'
  BY Zenon DEF LoopTyped
<1>2. ClockTyped /\ UNCHANGED clockVars => ClockTyped'
  BY Zenon DEF ClockTyped, clockVars
<1>3. LockTyped /\ UNCHANGED <<readers, taken, disabled, stop>> => LockTyped'
  BY Zenon DEF LockTyped
<1>4. WatchTyped /\ UNCHANGED <<watchVars, still>> => WatchTyped'
  BY Zenon DEF WatchTyped, watchVars
<1>5. SeenTyped /\ UNCHANGED seenVars => SeenTyped'
  BY Zenon DEF SeenTyped, seenVars
<1> QED
  BY Zenon, <1>1, <1>2, <1>3, <1>4, <1>5

\* Every step keeps what the processes and the thread may be doing in its range.
LEMMA PlaceStep ==
  ASSUME PlaceTyped, [Next]_vars
  PROVE  PlaceTyped'
<1> USE DEF PlaceTyped
<1>1. CASE UNCHANGED vars
  BY <1>1 DEF vars, runnerVars
<1>2. CASE \/ \E c \in TestConfigs : Configure(c)
           \/ ConfigPanics \/ RepeatZero \/ Finish \/ NextConfig \/ StartSimulation
           \/ SendStop \/ JoinWatchdog \/ TakeRuntime \/ SeedOverflow
  BY <1>2 DEF Configure, ConfigPanics, RepeatZero, Fail, Finish, NextConfig, StartSimulation,
     EnterBlockOn, SendStop, JoinWatchdog, TakeRuntime, SeedOverflow
<1>3. CASE JoinPanics \/ SimulationPanics \/ ReadClockPanics
  BY <1>3 DEF JoinPanics, SimulationPanics, ReadClockPanics, Unwind
<1>4. CASE ReadClock \/ MoveClock \/ Hang \/ ComeBack \/ Spin \/ Return \/ ProcessExits
  BY <1>4 DEF ReadClock, MoveClock, Hang, ComeBack, Spin, Return, ProcessExits, runnerVars
<1>5. CASE WatchdogStep \/ Over
  BY <1>5 DEF WatchdogStep, WatchdogStart, WatchdogDisabled, WatchdogStops, WatchdogWakes,
     WatchdogChecks, WatchdogClockPanics, WatchdogEnds, Over, vars, runnerVars
<1> QED
  BY <1>1, <1>2, <1>3, <1>4, <1>5 DEF Next, RunnerStep, ClockRead, Simulation

\* Every step keeps the loop variables in their ranges.
LEMMA LoopStep ==
  ASSUME LoopTyped, LoopBegins, [Next]_vars
  PROVE  LoopTyped'
<1>1. CASE \/ UNCHANGED vars \/ ConfigPanics \/ RepeatZero \/ Finish \/ StartSimulation
           \/ SendStop \/ JoinWatchdog \/ SeedOverflow \/ JoinPanics \/ SimulationPanics
           \/ ClockRead \/ MoveClock \/ Hang \/ ComeBack \/ Spin \/ Return \/ ProcessExits
           \/ WatchdogStep \/ Over
  <2>1. UNCHANGED <<configs, conf, rep, seed>>
    BY <1>1 DEF vars, runnerVars, ConfigPanics, RepeatZero, Fail, Finish, StartSimulation,
       SendStop, JoinWatchdog, SeedOverflow, JoinPanics, SimulationPanics, Unwind, ClockRead,
       ReadClock, ReadClockPanics, MoveClock, Hang, ComeBack, Spin, Return, ProcessExits,
       WatchdogStep, WatchdogStart, WatchdogDisabled, WatchdogStops, WatchdogWakes,
       WatchdogChecks, WatchdogClockPanics, WatchdogEnds, Over
  <2> QED
    BY <2>1, TypeFrame
<1>2. ASSUME NEW c \in TestConfigs, Configure(c)
      PROVE  LoopTyped'
  <2>1. Len(c) \in Nat
    BY HarnessAssumption
  <2> QED
    BY <1>2, <2>1 DEF Configure, LoopBegins, LoopTyped
<1>3. CASE NextConfig
  <2>1. Len(configs) \in Nat
    BY HarnessAssumption DEF LoopTyped
  <2> QED
    BY <1>3, <2>1 DEF NextConfig, LoopTyped
<1>4. CASE TakeRuntime
  <2>1. seed' \in 0 .. MaxSeed
    BY <1>4, SeedWraps DEF TakeRuntime, LoopTyped
  <2> QED
    BY <1>4, <2>1 DEF TakeRuntime, LoopTyped
<1> QED
  BY <1>1, <1>2, <1>3, <1>4 DEF Next, RunnerStep, Simulation

\* Every step keeps the types of the clock, of the lock and of what is observed.
LEMMA ClockStep ==
  ASSUME ClockTyped, LockTyped, SeenTyped, LoopTyped, [Next]_vars
  PROVE  ClockTyped' /\ LockTyped' /\ SeenTyped'
<1> USE HarnessAssumption
<1>1. CASE UNCHANGED vars \/ Over
  BY <1>1, TypeFrame DEF vars, Over, lockVars
<1>2. CASE \/ \E c \in TestConfigs : Configure(c)
           \/ ConfigPanics \/ RepeatZero \/ Finish \/ NextConfig
           \/ Hang \/ ComeBack \/ Spin \/ Return \/ ProcessExits \/ WatchdogWakes
  BY <1>2, TypeFrame DEF Configure, ConfigPanics, RepeatZero, Fail, Finish, NextConfig, Hang,
     ComeBack, Spin, Return, ProcessExits, WatchdogWakes, lockVars
<1>3. CASE StartSimulation
  <2>0. 0 \in 0 .. MaxClock /\ AbortCounterStart \in 0 .. AbortCounterStart
    OBVIOUS
  <2>1. ClockTyped'
    BY Zenon, <1>3, <2>0 DEF StartSimulation, NewRuntime, NewClock, ClockTyped
  <2>2. LockTyped'
    BY <1>3 DEF StartSimulation, NewRuntime, StartWatchdog, LockTyped
  <2>3. SeenTyped'
    BY <1>3 DEF StartSimulation, NewRuntime, SeenTyped, LoopTyped
  <2> QED
    BY <2>1, <2>2, <2>3
<1>4. ASSUME readers' = readers \ {"runner"} \/ readers' = readers \ {"watchdog"}
                \/ readers' = readers \cup {"watchdog"} \/ readers' = readers,
             taken' = taken \/ taken' = TRUE, UNCHANGED disabled,
             stop' \in {stop, "sent", "closed"}
      PROVE  LockTyped'
  <2>1. readers' \subseteq {"runner", "watchdog"} /\ stop' \in {"open", "sent", "closed"}
    BY <1>4 DEF LockTyped
  <2>2. taken' \in BOOLEAN /\ disabled' \in BOOLEAN
    BY Zenon, <1>4 DEF LockTyped
  <2> QED
    BY Zenon, <2>1, <2>2 DEF LockTyped
<1>5. CASE SendStop \/ JoinWatchdog \/ TakeRuntime \/ SeedOverflow
  BY <1>4, <1>5, TypeFrame DEF SendStop, JoinWatchdog, TakeRuntime, SeedOverflow, lockVars
<1>6. CASE JoinPanics \/ SimulationPanics
  BY <1>4, <1>6, TypeFrame DEF JoinPanics, SimulationPanics, Unwind, lockVars
<1>7. ASSUME ReadClockPanics \/ WatchdogClockPanics
      PROVE  ClockTyped' /\ UNCHANGED seenVars
  <2>1. 0 \in 0 .. AbortCounterStart
    OBVIOUS
  <2> QED
    BY Zenon, <1>7, <2>1
    DEF ReadClockPanics, WatchdogClockPanics, Unwind, WatchdogEnds, ClockTyped
<1>8. ASSUME CheckAbort, left > 1, clock' = clock
      PROVE  ClockTyped'
  BY <1>8 DEF CheckAbort, ClockTyped
<1>9. CASE ReadClockPanics \/ WatchdogClockPanics
  BY <1>4, <1>7, <1>9, TypeFrame DEF ReadClockPanics, WatchdogClockPanics, Unwind,
     WatchdogEnds, lockVars
<1>10. CASE ReadClock \/ WatchdogStart \/ WatchdogChecks
  BY <1>4, <1>8, <1>10, TypeFrame DEF ReadClock, WatchdogStart, WatchdogChecks, lockVars
<1>11. CASE WatchdogDisabled \/ WatchdogStops
  BY <1>4, <1>11, TypeFrame DEF WatchdogDisabled, WatchdogStops, WatchdogEnds, lockVars
<1>12. CASE MoveClock
  <2>1. ClockTyped'
    BY <1>12 DEF MoveClock, ClockTyped
  <2> QED
    BY <1>12, <2>1, TypeFrame DEF MoveClock, lockVars
<1> QED
  BY <1>1, <1>2, <1>3, <1>5, <1>6, <1>9, <1>10, <1>11, <1>12
  DEF Next, RunnerStep, ClockRead, Simulation, WatchdogStep

\* Every step keeps the types of the watchdog's variables: while the process is up, it
\* has not counted more than Limit.
LEMMA WatchStep ==
  ASSUME WatchTyped, ClockTyped, Up => deadlock_count <= Limit, [Next]_vars
  PROVE  WatchTyped'
<1> USE HarnessAssumption
<1>1. CASE \/ UNCHANGED vars \/ \E c \in TestConfigs : Configure(c)
           \/ ConfigPanics \/ RepeatZero \/ Finish \/ NextConfig
           \/ SendStop \/ JoinWatchdog \/ TakeRuntime \/ SeedOverflow
           \/ JoinPanics \/ SimulationPanics \/ ClockRead
           \/ Hang \/ ComeBack \/ Spin \/ Return \/ ProcessExits \/ Over
  BY <1>1, TypeFrame DEF vars, Configure, ConfigPanics, RepeatZero, Fail, Finish, NextConfig,
     SendStop, JoinWatchdog, TakeRuntime, SeedOverflow, JoinPanics, SimulationPanics, Unwind,
     ClockRead, ReadClock, ReadClockPanics, Hang, ComeBack, Spin, Return, ProcessExits, Over
<1>2. CASE StartSimulation \/ MoveClock
  BY <1>2 DEF StartSimulation, StartWatchdog, MoveClock, WatchTyped, watchVars
<1>3. CASE WatchdogStart \/ WatchdogWakes
  BY <1>3 DEF WatchdogStart, WatchdogWakes, WatchTyped, ClockTyped
<1>4. CASE WatchdogDisabled \/ WatchdogStops \/ WatchdogClockPanics
  BY <1>4 DEF WatchdogDisabled, WatchdogStops, WatchdogClockPanics, WatchdogEnds, WatchTyped
<1>5. CASE WatchdogChecks
  <2>1. Count \in 0 .. Limit + 1
    BY <1>5 DEF WatchdogChecks, Count, WatchTyped
  <2> QED
    BY <1>5, <2>1 DEF WatchdogChecks, WatchTyped, ClockTyped
<1> QED
  BY <1>1, <1>2, <1>3, <1>4, <1>5 DEF Next, RunnerStep, Simulation, WatchdogStep

-----------------------------------------------------------------------------
(* The watchdog's count, the guards and the seeds.                          *)

\* Every step keeps the types, and the loop begins where it should.
LEMMA TypesStep ==
  ASSUME TypeOK, LoopBegins, Up => deadlock_count <= Limit, [Next]_vars
  PROVE  TypeOK' /\ LoopBegins'
<1>1. TypeOK'
  <2>1. LoopTyped /\ PlaceTyped /\ ClockTyped /\ LockTyped /\ WatchTyped /\ SeenTyped
    BY TypeParts
  <2>2. LoopTyped' /\ PlaceTyped' /\ ClockTyped' /\ LockTyped' /\ WatchTyped' /\ SeenTyped'
    BY <2>1, PlaceStep, LoopStep, ClockStep, WatchStep
  <2> QED
    BY Zenon, <2>2
    DEF TypeOK, LoopTyped, PlaceTyped, ClockTyped, LockTyped, WatchTyped, SeenTyped
<1>2. pc' = "config" => pc = "config" /\ UNCHANGED <<conf, rep, begun, used>>
  BY DEF Next, vars, runnerVars, seenVars, Configure, ConfigPanics, RunnerStep, RepeatZero,
     Fail, Finish, NextConfig, StartSimulation, EnterBlockOn, SendStop, JoinWatchdog,
     JoinPanics, TakeRuntime, SeedOverflow, Unwind, ClockRead, ReadClock, ReadClockPanics,
     Simulation, MoveClock, Hang, ComeBack, Spin, Return, SimulationPanics, Running,
     ProcessExits, WatchdogStep, WatchdogStart, WatchdogDisabled, WatchdogStops,
     WatchdogWakes, WatchdogChecks, WatchdogClockPanics, WatchdogEnds, Over
<1> QED
  BY <1>1, <1>2 DEF LoopBegins

\* Every step keeps the count justified; the one that aborts has seen the clock stand
\* still for more than Limit samples.
LEMMA CountStep ==
  ASSUME TypeOK, CountJustified, NoFalseAlarm, [Next]_vars
  PROVE  CountJustified' /\ NoFalseAlarm'
<1>0. /\ clock \in Nat /\ prev \in Nat /\ deadlock_count \in Nat /\ still \in Nat
      /\ still <= Limit + 1 /\ Limit \in Nat
  BY HarnessAssumption DEF TypeOK
<1> USE DEF CountJustified, NoFalseAlarm, Up
<1>1. ASSUME UNCHANGED <<clock, prev, deadlock_count, still>>,
             wpc' = "start" => wpc = "start",
             proc' = proc \/ (proc = "up" /\ proc' = "exited")
      PROVE  CountJustified' /\ NoFalseAlarm'
  BY <1>0, <1>1
<1>2. CASE \/ UNCHANGED vars \/ \E c \in TestConfigs : Configure(c)
           \/ ConfigPanics \/ RepeatZero \/ Finish \/ NextConfig
           \/ SendStop \/ JoinWatchdog \/ TakeRuntime \/ SeedOverflow
           \/ Hang \/ ComeBack \/ Spin \/ Return \/ ProcessExits \/ Over
  BY <1>1, <1>2 DEF vars, clockVars, watchVars, Configure, ConfigPanics, RepeatZero, Fail,
     Finish, NextConfig, SendStop, JoinWatchdog, TakeRuntime, SeedOverflow, Hang, ComeBack,
     Spin, Return, ProcessExits, Over
<1>3. CASE JoinPanics \/ SimulationPanics \/ ReadClock \/ ReadClockPanics
  BY <1>1, <1>3 DEF JoinPanics, SimulationPanics, ReadClock, ReadClockPanics, Unwind,
     clockVars, watchVars
<1>4. CASE WatchdogDisabled \/ WatchdogStops \/ WatchdogClockPanics \/ WatchdogWakes
  BY <1>1, <1>4 DEF WatchdogDisabled, WatchdogStops, WatchdogClockPanics, WatchdogWakes,
     WatchdogEnds, clockVars
<1>5. CASE StartSimulation
  BY <1>0, <1>5 DEF StartSimulation, NewRuntime, NewClock, StartWatchdog
<1>6. CASE MoveClock
  BY <1>0, <1>6 DEF MoveClock, Running, watchVars
<1>7. CASE WatchdogStart
  BY <1>0, <1>7 DEF WatchdogStart
<1>8. CASE WatchdogChecks
  <2>1. still' = IF still > Limit THEN still ELSE still + 1
    BY <1>8 DEF WatchdogChecks
  <2>2. /\ deadlock_count <= Limit /\ prev' = clock /\ clock' = clock /\ wpc' = "sleep"
        /\ deadlock_count' = Count /\ proc = "up"
        /\ proc' = (IF Count > Limit THEN "aborted" ELSE proc)
    BY <1>8 DEF WatchdogChecks
  <2>3. Count \in Nat /\ Count <= Limit + 1 /\ Count <= still'
    BY <1>0, <2>1, <2>2 DEF Count
  <2>4. Count > Limit => still' > Limit
    BY <1>0, <2>1, <2>3
  <2> HIDE DEF CountJustified, NoFalseAlarm
  <2> QED
    BY <1>0, <2>2, <2>3, <2>4 DEF CountJustified, NoFalseAlarm
<1> QED
  BY <1>2, <1>3, <1>4, <1>5, <1>6, <1>7, <1>8
  DEF Next, RunnerStep, ClockRead, Simulation, WatchdogStep

\* Every step keeps the readers those of the place where the two threads are: whoever
\* leaves, by return or by panic, drops its guard.
LEMMA GuardsStep ==
  ASSUME TypeOK, GuardsHeld, [Next]_vars
  PROVE  GuardsHeld'
<1> USE DEF GuardsHeld
<1>1. CASE \/ UNCHANGED vars \/ ReadClock \/ MoveClock \/ Hang \/ ComeBack \/ Spin
           \/ ProcessExits \/ Over
  BY <1>1 DEF vars, runnerVars, lockVars, watchVars, ReadClock, MoveClock, Hang, ComeBack,
     Spin, ProcessExits, Over
<1>2. CASE \/ \E c \in TestConfigs : Configure(c)
           \/ ConfigPanics \/ RepeatZero \/ Finish \/ NextConfig \/ Return \/ SendStop
           \/ SeedOverflow \/ TakeRuntime
  BY <1>2 DEF Configure, ConfigPanics, RepeatZero, Fail, Finish, NextConfig, Return, Running,
     SendStop, SeedOverflow, TakeRuntime, lockVars, watchVars
<1>3. CASE StartSimulation
  BY <1>3 DEF StartSimulation, NewRuntime, StartWatchdog, EnterBlockOn
<1>4. CASE JoinWatchdog
  BY <1>4 DEF JoinWatchdog, Joined, watchVars
<1>5. CASE JoinPanics \/ SimulationPanics \/ ReadClockPanics
  BY <1>5 DEF JoinPanics, SimulationPanics, ReadClockPanics, Unwind, Running, watchVars
<1>6. CASE WatchdogStart \/ WatchdogWakes \/ WatchdogChecks
  BY <1>6 DEF WatchdogStart, WatchdogWakes, WatchdogChecks, runnerVars, lockVars
<1>7. CASE WatchdogDisabled \/ WatchdogStops \/ WatchdogClockPanics
  BY <1>7 DEF WatchdogDisabled, WatchdogStops, WatchdogClockPanics, WatchdogEnds, runnerVars
<1> QED
  BY <1>1, <1>2, <1>3, <1>4, <1>5, <1>6, <1>7
  DEF Next, RunnerStep, ClockRead, Simulation, WatchdogStep

\* Every step keeps the runtime of a simulation in place until its watchdog has returned,
\* and a clock whose counter ran out with a thread that panicked on it.
LEMMA TakenStep ==
  ASSUME TypeOK, LoopBegins, GuardsHeld, TakenLast, [Next]_vars
  PROVE  TakenLast'
<1>0. AbortCounterStart \in Nat /\ left \in Nat /\ begun \in Nat
  BY HarnessAssumption DEF TypeOK
<1> USE DEF TakenLast
<1>1. CASE \/ UNCHANGED vars \/ Hang \/ ComeBack \/ Spin \/ ProcessExits \/ Over
  BY <1>1 DEF vars, runnerVars, clockVars, lockVars, watchVars, seenVars, Hang, ComeBack,
     Spin, ProcessExits, Over
<1>2. CASE \/ \E c \in TestConfigs : Configure(c)
           \/ ConfigPanics \/ RepeatZero \/ NextConfig
  BY <1>2 DEF Configure, ConfigPanics, RepeatZero, Fail, NextConfig, LoopBegins,
     clockVars, lockVars, watchVars, seenVars
<1>3. CASE Finish
  BY <1>0, <1>3 DEF Finish, clockVars, lockVars, watchVars, seenVars
<1>4. CASE StartSimulation
  <2>1. verdict' # "passed" /\ pc' = "run"
    BY <1>4 DEF GuardsHeld, StartSimulation, EnterBlockOn
  <2>2. ~taken' /\ ~poisoned'
    BY Zenon, <1>4 DEF StartSimulation, NewRuntime, NewClock
  <2> QED
    BY <2>1, <2>2
<1>5. CASE Return \/ SendStop \/ MoveClock
  BY <1>5 DEF Return, SendStop, MoveClock, Running, clockVars, lockVars, runnerVars,
     watchVars, seenVars
<1>6. CASE JoinWatchdog
  BY <1>6 DEF JoinWatchdog, clockVars, watchVars, seenVars
<1>7. CASE TakeRuntime \/ SeedOverflow
  BY <1>7 DEF GuardsHeld, TakeRuntime, SeedOverflow, clockVars, watchVars, seenVars
<1>8. CASE JoinPanics \/ SimulationPanics \/ ReadClockPanics
  BY <1>8 DEF JoinPanics, SimulationPanics, ReadClockPanics, Unwind, Running, clockVars,
     watchVars, seenVars
<1>9. CASE ReadClock \/ WatchdogStart \/ WatchdogChecks
  <2>0. left > 1 /\ poisoned' = (left = 1)
    BY Zenon, <1>9 DEF ReadClock, WatchdogStart, WatchdogChecks, CheckAbort
  <2>1. left # 1
    BY <1>0, <2>0
  <2>2. ~poisoned' /\ UNCHANGED <<pc, verdict, begun, taken>>
    BY Zenon, <1>9, <2>0, <2>1 DEF ReadClock, WatchdogStart, WatchdogChecks, runnerVars,
       lockVars, seenVars
  <2>3. wpc' = wpc \/ wpc \in {"start", "check"}
    BY <1>9 DEF ReadClock, WatchdogStart, WatchdogChecks, watchVars
  <2> QED
    BY <2>2, <2>3
<1>10. CASE WatchdogDisabled \/ WatchdogStops \/ WatchdogWakes \/ WatchdogClockPanics
  BY <1>10 DEF WatchdogDisabled, WatchdogStops, WatchdogWakes, WatchdogClockPanics,
     WatchdogEnds, runnerVars, clockVars, lockVars, seenVars
<1> QED
  BY <1>1, <1>2, <1>3, <1>4, <1>5, <1>6, <1>7, <1>8, <1>9, <1>10
  DEF Next, RunnerStep, ClockRead, Simulation, WatchdogStep

\* Every step keeps the seeds apart: a new simulation's seed is not among the last
\* `begun' ones, and the next seed puts them all one further back.
LEMMA SeedsStep ==
  ASSUME TypeOK, SeedsBehind, SeedsDistinct, [Next]_vars
  PROVE  SeedsBehind' /\ SeedsDistinct'
<1>0. MaxSeed \in Nat /\ seed \in 0 .. MaxSeed /\ begun \in Nat /\ used \subseteq 0 .. MaxSeed
  BY HarnessAssumption DEF TypeOK
<1>1. ASSUME UNCHANGED <<seed, used, begun>>,
             \/ pc' = pc \/ pc' = "done"
             \/ (pc \in {"config", "loop"} /\ pc' \in {"config", "loop"})
             \/ (pc \in {"run", "stop", "join", "take"} /\ pc' \in {"run", "stop", "join", "take"})
      PROVE  SeedsBehind' /\ SeedsDistinct'
  BY <1>1 DEF SeedsBehind, SeedsDistinct, Behind
<1>2. CASE \/ UNCHANGED vars \/ MoveClock \/ ReadClock \/ ProcessExits \/ WatchdogStep \/ Over
  BY <1>1, <1>2 DEF vars, runnerVars, seenVars, MoveClock, ReadClock, ProcessExits,
     WatchdogStep, WatchdogStart, WatchdogDisabled, WatchdogStops, WatchdogWakes,
     WatchdogChecks, WatchdogClockPanics, WatchdogEnds, Over
<1>3. CASE \/ \E c \in TestConfigs : Configure(c)
           \/ ConfigPanics \/ RepeatZero \/ Finish \/ NextConfig \/ Hang \/ ComeBack \/ Spin
  BY <1>1, <1>3 DEF Configure, ConfigPanics, RepeatZero, Fail, Finish, NextConfig, Hang,
     ComeBack, Spin, seenVars
<1>4. CASE \/ Return \/ SendStop \/ SeedOverflow \/ JoinWatchdog \/ JoinPanics
           \/ SimulationPanics \/ ReadClockPanics
  BY <1>1, <1>4 DEF Return, Running, SendStop, SeedOverflow, JoinWatchdog, JoinPanics,
     SimulationPanics, ReadClockPanics, Unwind, seenVars
<1>5. CASE StartSimulation
  <2>1. /\ pc = "loop" /\ pc' = "run" /\ seed' = seed
        /\ used' = used \cup {seed} /\ begun' = begun + 1
    BY <1>5 DEF StartSimulation, NewRuntime, EnterBlockOn
  <2>2. IsFiniteSet(used')
    BY <2>1, FS_AddElement DEF SeedsBehind
  <2>3. begun <= MaxSeed => \A x \in used : Behind(x) \in 1 .. begun
    BY <2>1 DEF SeedsBehind
  <2>4. begun <= MaxSeed => seed \notin used
    BY <1>0, <2>3 DEF Behind
  <2>5. begun' <= MaxSeed + 1 => Cardinality(used') = begun'
    BY <1>0, <2>1, <2>4, FS_AddElement DEF SeedsBehind, SeedsDistinct
  <2>6. begun' <= MaxSeed + 1 => \A x \in used' : Behind(x)' \in 0 .. begun' - 1
    BY <1>0, <2>1, <2>3 DEF Behind
  <2> QED
    BY <2>1, <2>2, <2>5, <2>6 DEF SeedsBehind, SeedsDistinct
<1>6. CASE TakeRuntime
  <2>1. /\ pc = "take" /\ pc' = "loop" /\ seed' = NextSeed(seed)
        /\ used' = used /\ begun' = begun
    BY <1>6 DEF TakeRuntime, seenVars
  <2>2. ASSUME begun <= MaxSeed, NEW x \in used
        PROVE  Behind(x)' \in 1 .. begun
    <3>1. Behind(x) \in 0 .. begun - 1
      BY <1>0, <2>1, <2>2 DEF SeedsBehind
    <3>2. CASE seed < MaxSeed
      <4>1. seed' = seed + 1
        BY <1>0, <2>1, <3>2, SeedWraps
      <4> QED
        BY <1>0, <2>2, <3>1, <3>2, <4>1 DEF Behind
    <3>3. CASE seed = MaxSeed
      <4>1. seed' = 0
        BY <1>0, <2>1, <3>3, SeedWraps
      <4> QED
        BY <1>0, <2>2, <3>1, <3>3, <4>1 DEF Behind
    <3> QED
      BY <1>0, <3>2, <3>3
  <2> QED
    BY <2>1, <2>2 DEF SeedsBehind, SeedsDistinct
<1> QED
  BY <1>2, <1>3, <1>4, <1>5, <1>6 DEF Next, RunnerStep, ClockRead, Simulation

-----------------------------------------------------------------------------
(* The theorems.                                                            *)

\* Nothing has run, no guard is held and no seed is used.
LEMMA HarnessInit == Init => HarnessInv
<1> SUFFICES ASSUME Init PROVE HarnessInv
  OBVIOUS
<1> USE HarnessAssumption
<1>1. LoopTyped /\ WatchTyped
  BY DEF Init, LoopTyped, WatchTyped
<1>2. PlaceTyped /\ SeenTyped
  BY DEF Init, PlaceTyped, SeenTyped
<1>3. 0 \in 0 .. MaxClock /\ AbortCounterStart \in 0 .. AbortCounterStart
  OBVIOUS
<1>4. ClockTyped /\ LockTyped
  BY Zenon, <1>3 DEF Init, ClockTyped, LockTyped
<1>5. LoopBegins /\ CountJustified /\ NoFalseAlarm /\ GuardsHeld /\ TakenLast
  BY DEF Init, LoopBegins, CountJustified, NoFalseAlarm, GuardsHeld, TakenLast
<1>6. SeedsBehind /\ SeedsDistinct
  BY FS_EmptySet DEF Init, SeedsBehind, SeedsDistinct
<1> QED
  BY <1>1, <1>2, <1>4, <1>5, <1>6, TypeParts DEF HarnessInv

\* The invariant of the test thread, the watchdog and what they share, through every
\* interleaving of the two threads, every hang, panic and clock read.
THEOREM HarnessInvariant == Spec => []HarnessInv
<1>1. HarnessInv /\ [Next]_vars => HarnessInv'
  BY TypesStep, CountStep, GuardsStep, TakenStep, SeedsStep DEF HarnessInv, CountJustified
<1> QED
  BY <1>1, HarnessInit, PTL DEF Spec

\* start_watchdog_with: the process is aborted only after more than Limit samples in a
\* row of a clock that did not move, whatever the clock did between two samples.
THEOREM AlarmOnlyWhenStill == Spec => []NoFalseAlarm
<1>1. HarnessInv => NoFalseAlarm
  BY DEF HarnessInv
<1> QED
  BY <1>1, HarnessInvariant, PTL

\* #[sim_test]: when a runtime is taken, its watchdog has returned, with its read guard
\* dropped and no panic on the clock, and every simulation's runtime is taken before the
\* next one begins and before the test passes.
THEOREM WatchdogNeverLeftOver == Spec => []WatchdogGoneFirst
<1>1. HarnessInv => WatchdogGoneFirst
  <2> SUFFICES ASSUME HarnessInv
               PROVE  WatchdogGoneFirst
    OBVIOUS
  <2>1. pc = "take" => "watchdog" \notin readers
    BY DEF HarnessInv, GuardsHeld
  <2>2. taken => wpc = "exited" /\ ~poisoned
    BY Zenon DEF HarnessInv, TakenLast
  <2>3. (pc = "loop" /\ begun > 0) \/ verdict = "passed" => taken
    BY Zenon DEF HarnessInv, TakenLast
  <2> QED
    BY Zenon, <2>1, <2>2, <2>3 DEF WatchdogGoneFirst
<1> QED
  BY <1>1, HarnessInvariant, PTL

\* The loops over configurations and repetitions: as many different seeds as simulations,
\* until all the seeds there are have been used.
THEOREM SeedsNeverRepeat == Spec => []SeedsDistinct
<1>1. HarnessInv => SeedsDistinct
  BY DEF HarnessInv
<1> QED
  BY <1>1, HarnessInvariant, PTL

=============================================================================
