------------------------------- MODULE Harness -------------------------------
(***************************************************************************)
(* What #[sim_test] generates (msim-macros/src/lib.rs) and the watchdog    *)
(* (runtime/mod.rs): one OS thread per simulation, one watchdog thread     *)
(* beside it, both over one Arc<RwLock<Option<Runtime>>>, and the clock    *)
(* with its abort counter (time/mod.rs), which both threads read.          *)
(*                                                                         *)
(* A simulation is known here only by what the watchdog can see of it: it  *)
(* moves its clock, reads it, stands still, returns or panics.             *)
(***************************************************************************)
EXTENDS Naturals, Sequences, FiniteSets

CONSTANTS
  TestConfigs,       \* what the config expression may give: TestConfig.configs
                     \* as the sequence of their repeat counts
  MaxSeed,           \* u64::MAX
  Limit,             \* limit of start_watchdog_with
  AbortCounterStart, \* Clock::ABORT_COUNTER_START
  MaxClock           \* bound: how often one simulation moves its clock

ASSUME HarnessAssumption ==
  /\ TestConfigs \subseteq Seq(Nat)
  /\ MaxSeed \in Nat /\ Limit \in Nat /\ MaxClock \in Nat
  /\ AbortCounterStart \in Nat /\ AbortCounterStart > Limit + 1

VARIABLES
  proc,      \* the test process: up, aborted, exited
  \* The test thread and the thread of the current simulation.
  pc,        \* where it is
  configs,   \* test_config.configs
  conf, rep, \* loop variables: position in configs, repetitions done of it
  seed,      \* inner_seed
  verdict,   \* none, passed, failed
  mode,      \* inside block_on: live, hung on something real, spinning on the clock
  \* Shared.
  clock, left, poisoned,  \* Clock: elapsed_time, abort_counter, its mutex
  readers,   \* who holds the RwLock for reading
  taken,     \* the Option<Runtime> is None
  stop,      \* the oneshot: open, sent, closed
  \* Watchdog.
  disabled,  \* MSIM_DISABLE_WATCHDOG
  wpc, prev, deadlock_count,
  \* Observations.
  used,      \* seeds of the simulations begun
  begun,     \* number of simulations begun
  still      \* samples taken by the watchdog since the clock last moved

runnerVars == <<pc, configs, conf, rep, seed, verdict, mode>>
clockVars == <<clock, left, poisoned>>
lockVars == <<readers, taken>>
watchVars == <<wpc, prev, deadlock_count>>
seenVars == <<used, begun>>
vars == <<proc, runnerVars, clockVars, lockVars, stop, disabled, watchVars,
          seenVars, still>>

Init ==
  /\ proc = "up"
  /\ pc = "config" /\ configs = <<>> /\ conf = 1 /\ rep = 0
  /\ seed \in 0 .. MaxSeed     \* MSIM_TEST_SEED, or the wall clock
  /\ verdict = "none" /\ mode = "live"
  /\ clock = 0 /\ left = AbortCounterStart /\ poisoned = FALSE
  /\ readers = {} /\ taken = FALSE /\ stop = "open"
  /\ disabled \in BOOLEAN
  /\ wpc = "none" /\ prev = 0 /\ deadlock_count = 0
  /\ used = {} /\ begun = 0 /\ still = 0

Up == proc = "up"

-----------------------------------------------------------------------------
(* The loops over configurations and repetitions.                           *)

\* The config thread ran config_expr under the first seed, or panicked.
Configure(c) ==
  /\ Up /\ pc = "config"
  /\ configs' = c
  /\ pc' = "loop"
  /\ UNCHANGED <<proc, conf, rep, seed, verdict, mode, clockVars, lockVars, stop,
                 disabled, watchVars, seenVars, still>>

Fail ==
  /\ pc' = "done" /\ verdict' = "failed"
  /\ UNCHANGED <<proc, configs, conf, rep, seed, mode, clockVars, lockVars, stop,
                 disabled, watchVars, seenVars, still>>

ConfigPanics == Up /\ pc = "config" /\ Fail

\* return_value.unwrap(): None if there was nothing to run.
Finish ==
  /\ Up /\ pc = "loop" /\ conf > Len(configs)
  /\ pc' = "done"
  /\ verdict' = IF begun = 0 THEN "failed" ELSE "passed"
  /\ UNCHANGED <<proc, configs, conf, rep, seed, mode, clockVars, lockVars, stop,
                 disabled, watchVars, seenVars, still>>

\* assert_ne!(*repeat, 0)
RepeatZero == Up /\ pc = "loop" /\ conf <= Len(configs) /\ configs[conf] = 0 /\ Fail

NextConfig ==
  /\ Up /\ pc = "loop" /\ conf <= Len(configs)
  /\ configs[conf] > 0 /\ rep = configs[conf]
  /\ conf' = conf + 1 /\ rep' = 0
  /\ UNCHANGED <<proc, pc, configs, seed, verdict, mode, clockVars, lockVars, stop,
                 disabled, watchVars, seenVars, still>>

\* ClockHandle::new; a mutex of its own.
NewClock == clock' = 0 /\ left' = AbortCounterStart /\ poisoned' = FALSE

\* Runtime::with_seed_and_config, in a new RwLock, which the thread of the
\* simulation reads.
NewRuntime ==
  /\ NewClock
  /\ readers' = {"runner"} /\ taken' = FALSE
  /\ used' = used \cup {seed} /\ begun' = begun + 1

\* start_watchdog: another thread, with the other end of the stop channel.
StartWatchdog ==
  /\ wpc' = "start" /\ deadlock_count' = 0 /\ prev' = 0
  /\ stop' = "open" /\ still' = 0

\* block_on begins.
EnterBlockOn == pc' = "run" /\ mode' = "live"

\* The thread of a simulation.
StartSimulation ==
  /\ Up /\ pc = "loop" /\ conf <= Len(configs) /\ rep < configs[conf]
  /\ NewRuntime
  /\ StartWatchdog
  /\ EnterBlockOn
  /\ UNCHANGED <<proc, configs, conf, rep, seed, verdict, disabled>>

-----------------------------------------------------------------------------
(* Inside block_on.                                                         *)

Running == Up /\ pc = "run"

\* The simulation panics: on unwinding the read guard, the watchdog's join
\* handle and stop_tx are dropped; the test thread prints the seed and panics.
Unwind ==
  /\ pc' = "done" /\ verdict' = "failed"
  /\ readers' = readers \ {"runner"}
  /\ stop' = IF stop = "open" THEN "closed" ELSE stop
  /\ UNCHANGED <<proc, configs, conf, rep, seed, mode, taken, disabled, watchVars,
                 seenVars, still>>

SimulationPanics == Running /\ mode # "spin" /\ Unwind /\ UNCHANGED clockVars

\* Clock::advance or set_elapsed; with the mutex poisoned they panic, which is a
\* SimulationPanics.
MoveClock ==
  /\ Running /\ mode = "live" /\ ~poisoned /\ clock < MaxClock
  /\ clock' = clock + 1 /\ left' = AbortCounterStart /\ still' = 0
  /\ UNCHANGED <<proc, runnerVars, poisoned, lockVars, stop, disabled, watchVars,
                 seenVars>>

\* Mutant: the counter is put back by a read as well.
CheckAbortResets == left' = AbortCounterStart /\ poisoned' = FALSE

\* Clock::check_abort under the clock's mutex: at zero the reader panics, with
\* the mutex in its hand.
CheckAbort == left' = left - 1 /\ poisoned' = (left = 1)

ReadClock ==
  /\ Running /\ mode \in {"live", "spin"} /\ ~poisoned /\ left > 1
  /\ CheckAbort
  /\ UNCHANGED <<proc, runnerVars, clock, lockVars, stop, disabled, watchVars,
                 seenVars, still>>

ReadClockPanics ==
  /\ Running /\ mode \in {"live", "spin"} /\ (poisoned \/ left = 1)
  /\ left' = 0 /\ poisoned' = TRUE
  /\ Unwind
  /\ UNCHANGED clock

\* A task waits for a real lock or works for long; it may come back.
Hang == Running /\ mode = "live" /\ mode' = "hung"
        /\ UNCHANGED <<proc, pc, configs, conf, rep, seed, verdict, clockVars,
                       lockVars, stop, disabled, watchVars, seenVars, still>>

ComeBack == Running /\ mode = "hung" /\ mode' = "live"
            /\ UNCHANGED <<proc, pc, configs, conf, rep, seed, verdict, clockVars,
                           lockVars, stop, disabled, watchVars, seenVars, still>>

\* while Instant::now() < deadline {}
Spin == Running /\ mode = "live" /\ mode' = "spin"
        /\ UNCHANGED <<proc, pc, configs, conf, rep, seed, verdict, clockVars,
                       lockVars, stop, disabled, watchVars, seenVars, still>>

\* block_on returns: the test body ended on the client node, which is deleted;
\* the join error of a client node that was killed is a SimulationPanics.
Return ==
  /\ Running /\ mode = "live"
  /\ pc' = "stop"
  /\ UNCHANGED <<proc, configs, conf, rep, seed, verdict, mode, clockVars, lockVars,
                 stop, disabled, watchVars, seenVars, still>>

-----------------------------------------------------------------------------
(* After block_on.                                                          *)

SendStop ==
  /\ Up /\ pc = "stop"
  /\ stop' = "sent" /\ pc' = "join"
  /\ UNCHANGED <<proc, configs, conf, rep, seed, verdict, mode, clockVars, lockVars,
                 disabled, watchVars, seenVars, still>>

\* Mutant: the watchdog is told to stop and not waited for.
JoinedAtOnce == wpc # "panicked"

\* watchdog.join() returned Ok.
Joined == wpc = "exited"

JoinWatchdog ==
  /\ Up /\ pc = "join" /\ Joined
  /\ readers' = readers \ {"runner"}
  /\ pc' = "take"
  /\ UNCHANGED <<proc, configs, conf, rep, seed, verdict, mode, clockVars, taken,
                 stop, disabled, watchVars, seenVars, still>>

\* watchdog.join().unwrap() of a watchdog that panicked.
JoinPanics == Up /\ pc = "join" /\ wpc = "panicked" /\ Unwind /\ UNCHANGED clockVars

\* Mutant: every configuration begins with the first seed again.
NextSeedRestarts(s) == IF rep + 1 = configs[conf] THEN s - rep ELSE s + 1

\* inner_seed += 1; past u64::MAX it wraps, or panics with overflow checks.
NextSeed(s) == (s + 1) % (MaxSeed + 1)

\* rt.write().take() waits for every reader; then the next repetition.
TakeRuntime ==
  /\ Up /\ pc = "take" /\ readers = {}
  /\ taken' = TRUE
  /\ pc' = "loop" /\ rep' = rep + 1 /\ seed' = NextSeed(seed)
  /\ UNCHANGED <<proc, configs, conf, verdict, mode, clockVars, readers, stop,
                 disabled, watchVars, seenVars, still>>

SeedOverflow ==
  /\ Up /\ pc = "take" /\ readers = {} /\ seed = MaxSeed
  /\ taken' = TRUE
  /\ pc' = "done" /\ verdict' = "failed"
  /\ UNCHANGED <<proc, configs, conf, rep, seed, mode, clockVars, readers, stop,
                 disabled, watchVars, seenVars, still>>

\* The test process ends with its only test.
ProcessExits ==
  /\ Up /\ pc = "done"
  /\ proc' = "exited"
  /\ UNCHANGED <<runnerVars, clockVars, lockVars, stop, disabled, watchVars,
                 seenVars, still>>

-----------------------------------------------------------------------------
(* The watchdog thread.                                                     *)

\* It ends, by return or panic, and drops its read guard.
WatchdogEnds(how) ==
  /\ wpc' = how /\ readers' = readers \ {"watchdog"}
  /\ UNCHANGED <<proc, runnerVars, taken, stop, disabled, prev, deadlock_count,
                 seenVars, still>>

\* MSIM_DISABLE_WATCHDOG: stop.blocking_recv().expect(..)
WatchdogDisabled ==
  /\ Up /\ disabled /\ wpc = "start" /\ stop # "open"
  /\ WatchdogEnds(IF stop = "sent" THEN "exited" ELSE "panicked")
  /\ UNCHANGED clockVars

\* rt.read(), and the first look at the clock; None would make it panic, but it is
\* never met (WatchdogGoneFirst).
WatchdogStart ==
  /\ Up /\ ~disabled /\ wpc = "start" /\ ~taken /\ ~poisoned /\ left > 1
  /\ CheckAbort
  /\ readers' = readers \cup {"watchdog"}
  /\ prev' = clock /\ wpc' = "sleep"
  /\ UNCHANGED <<proc, runnerVars, clock, taken, stop, disabled, deadlock_count,
                 seenVars, still>>

\* stop.try_recv().is_ok(): only a message ends the loop, a dropped sender does
\* not.
Stopped == stop = "sent"

WatchdogStops ==
  /\ Up /\ wpc = "sleep" /\ Stopped
  /\ WatchdogEnds("exited")
  /\ UNCHANGED clockVars

WatchdogWakes ==
  /\ Up /\ wpc = "sleep" /\ ~Stopped
  /\ wpc' = "check"
  /\ UNCHANGED <<proc, runnerVars, clockVars, lockVars, stop, disabled, prev,
                 deadlock_count, seenVars, still>>

\* Mutant: the count is not put back when the clock has moved.
CountNeverReset == IF clock = prev THEN deadlock_count + 1 ELSE deadlock_count

\* now == prev_time counts, anything else starts over.
Count == IF clock = prev THEN deadlock_count + 1 ELSE 0

\* One sample; after more than Limit equal ones in a row, on_deadlock aborts.
WatchdogChecks ==
  /\ Up /\ wpc = "check" /\ ~poisoned /\ left > 1
  /\ CheckAbort
  /\ deadlock_count' = Count
  /\ prev' = clock
  /\ still' = IF still > Limit THEN still ELSE still + 1
  /\ wpc' = "sleep"
  /\ proc' = IF Count > Limit THEN "aborted" ELSE proc
  /\ UNCHANGED <<runnerVars, clock, lockVars, stop, disabled, seenVars>>

\* now_instant panics in the watchdog: the mutex is poisoned, or its own read
\* brought the abort counter to zero.
WatchdogClockPanics ==
  /\ Up /\ ~disabled /\ wpc \in {"start", "check"} /\ (poisoned \/ left = 1)
  /\ left' = 0 /\ poisoned' = TRUE
  /\ WatchdogEnds("panicked")
  /\ UNCHANGED clock

-----------------------------------------------------------------------------
Over == ~Up /\ UNCHANGED vars

RunnerStep ==
  \/ Finish \/ RepeatZero \/ NextConfig \/ StartSimulation
  \/ SendStop \/ JoinWatchdog \/ JoinPanics \/ TakeRuntime \/ SeedOverflow
ClockRead == ReadClock \/ ReadClockPanics
Simulation == MoveClock \/ Hang \/ ComeBack \/ Spin \/ Return \/ SimulationPanics
WatchdogStep ==
  \/ WatchdogStart \/ WatchdogDisabled \/ WatchdogStops \/ WatchdogWakes
  \/ WatchdogChecks \/ WatchdogClockPanics

Next ==
  \/ \E c \in TestConfigs : Configure(c)
  \/ ConfigPanics \/ RunnerStep \/ ClockRead \/ Simulation \/ ProcessExits
  \/ WatchdogStep \/ Over

Spec == Init /\ [][Next]_vars

(***************************************************************************)
(* Both are OS threads, so neither stops between two statements; a loop on *)
(* the clock goes on reading it.  Nothing is assumed of a simulation that  *)
(* hangs.                                                                  *)
(***************************************************************************)
Fairness ==
  /\ WF_vars(RunnerStep) /\ WF_vars(WatchdogStep)
  /\ WF_vars(mode = "spin" /\ ClockRead)
FairSpec == Spec /\ Fairness

-----------------------------------------------------------------------------
(* Properties.                                                              *)

\* Type correctness of the test thread, the watchdog and what they share.
TypeOK ==
  /\ proc \in {"up", "aborted", "exited"}
  /\ pc \in {"config", "loop", "run", "stop", "join", "take", "done"}
  /\ configs \in TestConfigs \cup {<<>>}
  /\ conf \in 1 .. Len(configs) + 1
  /\ rep \in Nat /\ seed \in 0 .. MaxSeed
  /\ verdict \in {"none", "passed", "failed"}
  /\ mode \in {"live", "hung", "spin"}
  /\ clock \in 0 .. MaxClock /\ left \in 0 .. AbortCounterStart
  /\ poisoned \in BOOLEAN /\ taken \in BOOLEAN /\ disabled \in BOOLEAN
  /\ readers \subseteq {"runner", "watchdog"}
  /\ stop \in {"open", "sent", "closed"}
  /\ wpc \in {"none", "start", "sleep", "check", "exited", "panicked"}
  /\ prev \in 0 .. MaxClock /\ deadlock_count \in 0 .. Limit + 1
  /\ used \subseteq 0 .. MaxSeed /\ begun \in Nat /\ still \in 0 .. Limit + 1

\* The watchdog aborts the process only if the clock stood still over more than
\* Limit of its steps in a row, whatever the simulation did before: "we wait
\* until we've seen the clock not advance 10 times in a row".
NoFalseAlarm == proc = "aborted" => still > Limit

\* However late the watchdog thread starts or samples, it is done before its
\* runtime is taken away: rt.write() never waits for its read guard, its
\* as_ref().unwrap() never meets None, and if it was its read that brought the abort
\* counter to zero, the simulation does not pass for one that ended well.  The runtime
\* of a simulation is gone before the next one begins and before the test passes.
WatchdogGoneFirst ==
  /\ pc = "take" => "watchdog" \notin readers
  /\ taken => wpc = "exited" /\ ~poisoned
  /\ (pc = "loop" /\ begun > 0) \/ verdict = "passed" => taken

\* No two simulations of a test run under the same seed ("you shouldn't be
\* seeing repeated output"), across repetitions and configurations.
SeedsDistinct == begun <= MaxSeed + 1 => Cardinality(used) = begun

\* A simulation that stands still is ended: by the abort counter if it reads the
\* clock, otherwise by the watchdog, unless that is disabled or was itself the
\* one to bring the abort counter to zero ("a watch dog thread that will kill the
\* test process in case of a deadlock").
StuckEnds ==
  pc = "run" /\ (mode = "spin" \/ (mode = "hung" /\ ~disabled))
    ~> ~Up \/ pc # "run" \/ mode = "live" \/ (mode = "hung" /\ wpc = "panicked")
=============================================================================
