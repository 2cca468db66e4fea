# A TLA+ verification project for the Mysten simulator

`msim` is a deterministic simulator for asynchronous Rust programs: it replaces
the tokio runtime, the clock, the random numbers and the network of a program
under test, runs many simulated *nodes* in one process, and kills, pauses,
restarts and disconnects them.  The models here are about the simulator itself:
whatever they say of a "node" is said of the code under `src/msim` and
`src/msim-tokio`, not of a program run in it.

## 1. Inventory

### Parts of the system

| part | source | state | operations |
|---|---|---|---|
| executor | `msim/src/sim/task.rs`, `utils/mpsc.rs` | `nodes` (per node a current `TaskInfo`, the list `paused`, an init function), the ready queue, `shutting_down` | `block_on`, `run_all_ready`, spawn, wake, abort, `kill`, `restart`, `pause`, `resume`, `create_node`, `delete_node`, `kill_current_node`, `begin_graceful_shutdown`, deadline check |
| blocking pool | `task/blocking.rs` | queue of closures, `QuantumState` (turn, current job and abort flag per thread, kill panics), OS threads | `spawn`, `wake_round`, `yield_blocking`, `request_abort_node`, `take_panics`, `shutdown` |
| simulated time | `time/{mod,timer,sleep}.rs` | elapsed time and abort counter of the clock, heap of timer events, disabled nodes | `add_timer`, `sleep`, `reset`, `timeout`, `advance`, `advance_to_next_event`, `disable_node_and_cancel_timers`, `enable_node` |
| intervals | `time/interval.rs` | period, missed-tick behaviour, one `Sleep` | `interval_at`, `poll_tick`, `reset*`, `set_missed_tick_behavior` |
| join handles | `task.rs`, `task/join_set.rs` | the slot an owner, its abort handles and the set share | `abort`, poll, drop, `spawn_blocking` with latency, `JoinSet::{join_next, join_all, shutdown, abort_all, detach_all}` |
| network | `net/network.rs` | per node: sockets (mailboxes), live tcp ids, next ephemeral port; clogged nodes and links | `bind`, `close`, `send`, delivery, `recv*`, `register/deregister_tcp_id`, `reset_node`, `delete_node`, clog and unclog |
| endpoints and host sockets | `net/mod.rs` | endpoint (node, address, ids), table of file descriptors per node | bind, connect, `allocate_local_tcp_id`, drop; interposed libc calls |
| TCP streams | `msim-tokio/src/sim/net.rs`, `msim-tokio/src/poller.rs` | ids, sequence numbers, read buffer; the accept future of a listener | bind, accept, `into_std`, connect, read, peek, write, `into_split`, drop |
| UDP, unix sockets, io | `msim-tokio/src/sim/{udp,unix,io}.rs` | poller futures | forwards to endpoints; unix sockets are stubs |
| runtime and builder | `runtime/mod.rs`, `runtime/context.rs` | context stack, plugin simulators | `Handle::{kill, restart, delete_node}`, `NodeBuilder::build`, `enter_node` |
| watchdog and test macro | `runtime/mod.rs`, `msim-macros/src/lib.rs`, `config.rs` | seed, loop counters, `Arc<RwLock<Option<Runtime>>>`, stop channel, count of equal clock samples | what `#[sim_test]` generates; `start_watchdog` |
| randomness | `rand.rs` | seeded generator, log for the determinism check | draws |
| file system | `fs.rs`, `plugin.rs` | per node a map from paths to shared inodes | `open`, `create`, `read_at`, `write_all_at`, `set_len`, `metadata`, `create_node`, `reset_node`, `delete_node` |
| others | `collections.rs`, `net/config.rs`, `intercept.rs`, the rpc macros | - | wrappers, configuration, code generation |

### How they interact

`block_on` loops: `run_all_ready` empties the ready queue in random order
(each poll advances the clock a little), the blocking pool gets one wake round,
panics that carry a `PanicWrapper` become restart timers, and if nothing is left
to run the clock jumps to the next timer event.  Every timer belongs to a node.
`Handle::kill` disables the node's timers, drops its parked tasks, replaces its
`TaskInfo` by a fresh one, marks the old one killed (which wakes all its tasks so
that the executor can drop them), asks the pool to abort its closures, and resets
the node in the network.  A message of the network is a timer of the receiving
node which puts it into a mailbox and wakes whoever waits under its tag.
The context - which node is "current" - is a stack that `enter_node` and
`await_future_in_node` push to.

Around all this `#[sim_test]` runs one OS thread per simulation, and beside it a
watchdog thread that samples the clock through the same read-write lock and
aborts the process when the clock stands still.

### What is hard

* *Incarnations.*  A killed node is replaced at once, while the tasks, closures,
  timers, streams and shutdown entries of the old incarnation disappear later and
  one by one.  Anything that is looked up by node id, port or thread number in
  between may hit the wrong incarnation.
* *Hand-over of the turn* between the executor's thread and the pool's threads by
  two condition variables, while kills arrive from either side.
* *Wake-ups*: sleeping tasks, readers and parked closures run again only if
  somebody remembers to wake them, also after pauses, resets and kills.
* *Order*: random task order, reordered messages, timers that fire between polls.
* *Deadlines and budgets* of graceful shutdowns racing kills and restarts.
* *Shared slots and futures*: a task's slot is reached by its owner, by abort
  handles and by a set; the accept future of a listener by every task that accepts.
* *Two real threads* read one clock, and either of them may be the one that
  brings its abort counter to zero.

What makes each part correct: the pool never runs two closures at a time and
loses none; a killed incarnation is never polled again and leaves nothing behind;
a timer is neither lost, early nor overslept; an interval stays on its grid; a
stream is an ordered pair of byte sequences whatever is reordered or killed;
descriptors, ports and tables agree; a file is the splice of what was written;
nothing is cancelled without cause and every waiter is told; a test ends, and
its simulations do not disturb each other.

`PROJECT.json` lists these hazards line by line with the properties that cover
them, or the reason why none does.

## 2. Modules

| module | models | role |
|---|---|---|
| `BlockingService` | what `spawn_blocking` promises | abstract specification |
| `BlockingPool` | `task/blocking.rs` and the part of `block_on` that drives it | detailed specification; implements `BlockingService` |
| `BlockingPoolProofs` | | invariant, safety and refinement proofs |
| `Executor` | `task.rs` | detailed specification |
| `ExecutorProofs` | | invariant and safety proofs |
| `Timer` | `time/{mod,timer,sleep}.rs` | detailed specification |
| `TimerProofs` | | invariant and safety proofs of `Timer` and `Interval` |
| `Interval` | `time/interval.rs` | extends `Timer`: some of its sleeps belong to intervals |
| `Tcp` | `msim-tokio/src/sim/net.rs`, `poller.rs`, `net/network.rs`, `net/mod.rs` | detailed specification of streams over mailboxes |
| `TcpProofs` | | invariant and safety proofs |
| `Sockets` | `net/mod.rs`, `net/network.rs`, `msim-tokio/src/sim/udp.rs` | detailed specification of descriptors, ports, addresses and datagrams |
| `SocketsProofs` | | invariant and safety proofs |
| `Files` | `fs.rs`, `plugin.rs`, `runtime/mod.rs` | detailed specification; `write_all_at` and `read_at` as operators checked against a reference |
| `FilesProofs` | | invariant and safety proofs, and what the operators do to every content |
| `Join` | `task.rs`, `task/join_set.rs` | detailed specification of handles, sets and blocking latency |
| `JoinProofs` | | invariant and safety proofs |
| `Harness` | `msim-macros/src/lib.rs`, `runtime/mod.rs`, `time/mod.rs` | detailed specification of a whole test and its watchdog |
| `HarnessProofs` | | invariant and safety proofs |
| `MC*` | | instances for TLC; they only add symmetry sets and the sequences of configurations |

In every module an *incarnation* (a `TaskInfo`) is the pair of a node and a
number, and it is killed iff the node's number `inc` has moved on.  This is the
source's own scheme: `kill` replaces `Node.info` and sets the old one's flag.

### BlockingPool

State: `turn`, `current`, `abort_requested`, `dequeued`, `pending_panics` are the
fields of `QuantumState`; `queue` is `PoolShared.queue`, a set because it is popped
at random; `tpc` and `mpc` are the program counters of pool threads and of the
main thread; `order` is the rest of the shuffled candidates of a wake round;
`restarts` records the panics given to `handle_task_panic`.  Every critical
section of the mutex is one step, and a wait on a condition variable is the
guard of the step after it (the source re-checks under the mutex in a loop).

Actions: `Spawn`; `Kill`, `Pause`, `Resume` by anybody who runs (the main thread
while it polls, or user code on the thread that holds the turn); the thread's loop `TopTurn`,
`RunOneKilled`, `RunOnePaused`, `RunOneStart`, `Yield`, `YieldRun`, `YieldUnwind`,
`Complete`, `KillCurrentNode`, `CatchPanic`, `Dropped`, `EndTurn`; the round
`WakeRound`, `WakeNobody`, `Offer`/`Grant`, `Granted`, `RoundEnd`; and
`ShutdownPool`, `Joined`/`DrainQueue`.  Left out: sampled latencies and the
counter of stalled rounds.

### Executor

State: `exists`, `inc`, `paused`, `polls_left` (with the sentinel `usize::MAX`),
`shutting_down` with `overdue` (deadline reached) and `revive` (restart_after
given); for each task the `TaskInfo` it was spawned with, the incarnation its
queue entry carries (`qinc`: resume re-sends runnables under the *current*
`TaskInfo`), and where its runnable is; `restarts` counts pending restart timers.

Actions: `Kill`, `Restart`, `CreateNode`, `DeleteNode`, `Pause`, `Resume`, `Spawn`,
`Wake`, `AbortTask`, `BeginGracefulShutdown` as calls; `PopKilled`, `PopPaused`,
`PopBudgetSpent`, `PopRun` as the four outcomes of a pop in `run_all_ready`;
`PollPending`, `PollReady`, `PollKilledBranch`, `KillCurrentNode` as the ends of a
poll; `DeadlinePasses`, `FinishExpired`, `RestartTimer`, `NextIteration`,
`BlockOnEnds`.  Sim time is reduced to which deadlines have passed.

### Timer and Interval

State: `elapsed`, `disabled`, `events` (a cancelled event stays in the heap, not
live), and per Sleep its task's place, node, entered node and deadline.  Actions:
`Sleep`, `Reset`, `PollPending`, `PollReady`, `ValueReady` (the Sleep is the delay of
a `Timeout` whose value is there first), a spurious `Wake`, `OtherPoll` (another
task's poll advances the clock), `AdvanceToNextEvent`, `NoEvents`, `Kill`,
`Restart`.  Time is counted in units of 50 ns, the step of one poll; the clock
saturates beyond the last possible deadline, from where all its values compare
alike with every deadline.

`Interval` adds `period`, `behavior` and the history variable `start` for the sleeps
in `Ticking`, with `NewInterval`, `SetMissedTickBehavior`, `PollTick`, `LastTick` and
`ResetAt`; all other steps are those of `Timer`.  `Grace` is the 5 ms below which a
tick does not count as missed.

### Tcp

State: `next_tcp_id`, per node the bound `sockets` and `live` tcp ids; the listener's
`acceptor`, which is the future of `poll_accept_internal` kept in its `Poller`; per
end of a connection its ids, sequence numbers, buffer and what its reader does;
messages in `flight` (a pending delivery timer) and in mailboxes (`msgs`), and
`wakers`, each with the tag it was registered under.  `sent` and `rcvd` are
histories.  Actions: `Listen`, `DropListener`, `IntoStd`, `PollAccept`, `Accept`,
`AcceptReturns`, `Connect`, `Connected`, `Deliver`, `Write`, the steps of a read or
peek, `CancelRead`, `DropHalf`, `Close`, `DropKilled`, `Kill`.

The accept future outlives the call of `accept` that made it: it waits, gets the
message of a connection, answers it with an end of its own, and only then is the
stream returned; dropping the listener, `into_std` or a kill drops it wherever it is.
`connect` has no await between the allocation of an id and the send that announces it,
so that is one step; a send may fail at any time (clogged links,
`tcp_packet_loss`).  A payload has two units so that a read can stop half way.
`Splitting` names the sides split into halves, of which one may be dropped before the
other.  `Kill` stands for a kill followed by a restart; the streams of the killed
tasks are dropped later (`DropKilled`).  The port of a client is not handed out again
(`next_ephemeral_port` only grows and survives a reset).

### Sockets

State: the tables of `Network` (`nodes`, `ip`, `addr_to_node`, `clogged_node`,
`clogged_link`, `sockets` by node, port and protocol, `next_ephemeral_port`), the
host table `host` from node and descriptor to socket, the descriptors `open` in
the process, and for each socket its `SocketState` and `Endpoint` (`sock`) and the
object of the program that owns the descriptor (`obj`: a std type, or a msim-tokio
type with an `OwnedFd` and a share of the endpoint).  Mailboxes are named by the
socket they were made for; `backlog` counts `sync_connections`; datagrams are in
`flight`, in an `inbox` or received (`rcvd`).  `panic` holds the message of a failed
assertion, after which nothing happens.

Actions: `CreateNode`, `SetIp`, `DisconnectNode`, `ConnectNode`, `DisconnectLink`,
`ConnectLink`; `Socket`, `Bind`, `Connect`, `ConnectRefused`, `Accept`, `FromStd`,
`IntoStd`; `Drop` by a living task, `DropKilled` by the executor in the context of a
killed one; `Kill`, `KillPaused`, `DeleteNode`; `Send`, `Deliver`, `RecvMsg`.  `Drop`
is the whole chain: the object closes the descriptor, the entry of the host table
goes, and if that was the last holder of the `Endpoint`, so does the port.
`KillPaused` drops the parked tasks of a paused node in the context of the caller;
this module keeps of `pause` only that, for one task with one socket.

Abstractions: a name in `Socks` is used again when no table and no object refers to
it, so that bounds are on sockets alive at a time.  Calls that change nothing are not
actions (EADDRINUSE, EISCONN, a lost datagram, cutting a link that is cut).  Programs that violate an assertion
of the API (two nodes with one address, `listen` on UDP) are left out.  Only stream
sockets connect.  The kernel hands out the lowest free descriptor.  `ForeignKill`
allows a paused node to be killed from another node, and `StdDelete` allows a node to
be deleted while its tasks hold std sockets: both break descriptor ownership (see
findings), so the passing run has neither.

### Files

State: `fs`, for each node in it a map from paths to inodes; `data`, the contents of
inodes; the open `files`; for each client the length it was told last (`seen`), and
whether its file was shortened on purpose since (`cut`).  Actions: `OpenFile`,
`CreateFile`, `Close`, `Pass` (a File given to a task of another node), `Stat`,
`StatPath`, `Read`, `Write`, `SetLen`, and of the runtime `CreateNode`, `ResetNode`,
`DeleteNode`, `NoNode`.  Clients use offsets within the length they know, as a program
must that does not want to panic; an index out of range is the step that sets `panic`.

### Join

State: for each task its future, how far that is (`stage`), its closure in the pool
(`job`), the shared `slot`, where its handle is, whether an abort handle is kept, and
the owner's poll (`waiter`, `res`); the `set`, which may be inside `shutdown()` or
`join_all()`; `shutting` and `killed` of the tasks' node.  `aborted`, `delayed` and
`old_shutdown` are observations.  Actions: `Spawn`, `SpawnBlocking`; the polls
`BodyEnds`, `Submit`, `CancelQueued`, `DirectResult`, `ResultArrives`,
`FinishDelayEnds`, `DropFuture`; `StartJob`, `EndJob` of the pool;
`BeginGracefulShutdown`, `Kill`; and of the owner `Abort`, `AbortByHandle`,
`DropAbortHandle`, `DropHandle`, `Join`, `AbortAll`, `Shutdown`, `ShutdownReturns`,
`DetachAll`, `DropSet`, `JoinAll`, `JoinAllReturns`, `JoinAllPanics`.  What async-task
does when a task is dropped, detached or awaited is modelled from its use.  Delays are
steps that come some time; the pool's turns are those of `BlockingPool`, here one
step to start and one to end a closure.

### Harness

State: place, loop counters and seed of the test thread; the clock with its abort
counter and the poison flag of its mutex; `readers` and `taken` of the lock around the
runtime; the stop channel; the watchdog's place, last sample and count.  A simulation
is reduced to what the watchdog can tell: `MoveClock`, `ReadClock`, `Hang`,
`ComeBack`, `Spin`, `Return`, `SimulationPanics`.  The loops of the macro are
`Configure`, `StartSimulation`, `SendStop`, `JoinWatchdog`, `TakeRuntime`,
`NextConfig`, `Finish` and their failures; the watchdog is `WatchdogStart`,
`WatchdogWakes`, `WatchdogChecks`, `WatchdogStops`, `WatchdogDisabled`,
`WatchdogClockPanics`.

## 3. Runs

| run | instance | checks |
|---|---|---|
| `pool` | 2 threads, 2 closures, 2 nodes, one kill each | one runner at a time; results are lost only by kills; no job lost or duplicated; every kill panic reaches the executor before the next poll; refinement of `BlockingService`; killed closures unwind; `shutdown` joins all threads |
| `executor` | 1 node, 2 tasks, three incarnations | parked runnables belong to the paused living incarnation; killed tasks are not polled; deadlines kill only who asked for it; restarts are scheduled for the node that was killed; killed tasks are dropped whatever they wait for; a graceful shutdown ends once the node has drained |
| `timer` | a sleeper and an interval, 2 nodes, deadlines up to 3 | no event of a disabled node fires; no lost or overslept wake-up; intervals stay on their grid; Skip goes to the next multiple; sleeps end |
| `timer_enter_node` | violation | see findings |
| `tcp_shared` | 2 connections, one port bound twice, server killed | ids stay registered until the stream is dropped; a usable stream has its socket; nobody reads another connection's data |
| `tcp_stream` | 1 connection, both directions, the client's end split, both nodes killed | bytes arrive in order and gapless; no reader or accept misses a wake-up; pending reads end when data was sent |
| `tcp_hangup` | violation | see findings |
| `sockets` | 2 sockets at a time, streams on the main node, datagrams on one that is killed and deleted, ports 0..2 | every entry of the host table has its descriptor to itself; a socket in use finds its own mailbox; no port leaks; tables know existing nodes only; datagrams do not reach a later socket of the port |
| `sockets_parked_close` | violation | see findings |
| `files` | 2 files at a time, 2 inodes, lengths up to 2, one node built, killed and deleted | a write splices as it should; only truncation makes a known offset panic |
| `join` | one task, one blocking task, each held by handle or in the set | nothing is cancelled without cause; blocking work queued at a shutdown never runs; whoever waits is told; `JoinSet::shutdown` returns |
| `harness` | up to 3 simulations, 4 seeds, watchdog limit 2, abort counter 5 | no false alarm; a watchdog is done before its runtime is taken; seeds are distinct; a simulation that stands still is ended |

*Bounds.*  Two closures on `NumThreads = 2` can run, park and be queued in every
combination; two nodes separate the killed node from its
neighbour; `MaxInc` = 1 or 2 gives a living incarnation after one or two killed
ones, which is all an incarnation number is compared for.  Two tasks are enough
for one to act on the node of the other while it is queued, parked, idle or
polled.  In `Timer` two sleepers make a heap with ties, and three deadlines allow
earlier, equal and later ones around a clock step of one or two.  In `Tcp` two
sequence numbers per direction can be overtaken; two connections and two
listeners are what an id or a mailbox could be confused between; `Callers`,
`Crashing` and `Writing` bound who connects, who is killed, and which directions
carry data.  In `Sockets` two sockets are what a descriptor, port or mailbox could be
confused between; with `FirstEphemeral = 1` and `MaxPort = 2` both the ephemeral ports run
out and the counter wraps to 0.  `Streaming`, `Messaging`, `Cutting` and
`Crashing` (in `Sockets`) bound who has which kind of socket, who is cut off and who is killed; streams and
datagrams share all the code but `connect`, `accept`, `sendmsg` and `recvmsg`.  Only one
node has datagram sockets, so that an address with datagrams in flight is never taken over by
another node's socket in the run; that case of `NoStaleDatagram` is in the theorem alone.
In `Files` length 2 has a beginning, an inside and an end, and a second inode at the
same path is what a stale File differs in.  In `Join` the two kinds of task differ in
all that matters, and both can be in the set at once; `Keeping` says of which an abort
handle outlives the spawn.  In `Harness` `Limit = 2` stands for 10 and
`AbortCounterStart = 5` for the large start value of the clock; what counts is their
order, since the watchdog itself takes `Limit + 2` samples before it aborts.
`CHECK_DEADLOCK FALSE` in the Tcp, Sockets, Files and Join configurations: a network
in which everybody has closed or waits for a connect that nobody answers does stop,
and so do a simulation that has panicked and an owner without tasks.

*Fairness.*  Pool: `block_on` calls `wake_round` in every iteration, the OS
schedules threads that do not wait, and closures return or yield (a closure that
blocks its thread hangs the simulator, by contract).  Executor: strong fairness of
popping a given queue entry, since `try_recv_random` picks uniformly among
finitely many; polls return; the loop goes on; sim time passes.  Timer: polls and
`advance_to_next_event` are never postponed forever by `block_on`.  Tcp: each delivery timer
fires, woken readers are polled, killed tasks are dropped.  No fairness is
assumed of anything a program under test decides, such as another write, a
close, or giving up a read.  Join: the executor polls what is ready, the pool runs
what is queued, time passes, and a woken owner polls again; nothing is assumed of task
bodies.  Harness: both are OS threads, and neither stops between two statements.

## 4. Proofs

All theorems are about every value of the constants that satisfies the modules' own
assumptions: any number of threads, jobs, nodes, tasks, sleepers, connections,
sockets, files, configurations and incarnations, any port range, any seeds.  Every
safety invariant and every action property that a run checks is also a theorem; each
inductive invariant was checked by TLC on the run's instance before it was proved.

* `BlockingPoolProofs`.  `PoolInv` strengthens `TypeOK` and the safety invariants
  by the link between `turn`, the program counters and `order` (who holds the
  baton, and that nobody else is in an active place), which thread has which job,
  and that an abort flag is set only on a thread parked or running in a killed job.  Mutual
  exclusion alone is not inductive: it depends on the main thread not granting
  a turn before the previous one was given back.  From it: `MutualExclusion`,
  `AbortTargets`, `Conservation`, `PanicDelivery`, `NoResurrection`, and, for
  closures that do not kill a node they have only entered (`EnterNode = FALSE`),
  `ResultsLostByKill` and the step simulation `PoolImplementsService`, where a
  job's stage, its thread's place and whether it was cancelled are mapped to the
  status of the abstract service.
* `ExecutorProofs`.  `Inv` is `TypeOK`, `TaskInv` (a queue entry's incarnation may
  differ from the task's own only if it is not younger than allowed by the
  parked list: `Tagged`, `Spawned`, `ParkedNotStranded`) and `NodeInv` (entries of
  `shutting_down` are of past or present incarnations of known nodes, and a node's
  current incarnation is in it iff it counts polls: `Entries`, `OnlyLive`,
  `ShutdownTracked`).  `KilledNotPolled` needs `ParkedNotStranded`: only because
  `kill` empties the parked list may `resume` re-tag what is in it.
  `RestartsFollowKills` is for `EnterNode = FALSE`, and false without it (see
  findings).
* `TimerProofs`.  `Inv` is `TypeOK`, `DisabledHasNoLive` and that events belong to
  sleepers that were polled; `SleepInv` adds, for `EnterNode = FALSE`, that an
  event is registered for the node of the task, which gives `NoLostWakeup`.
  `NobodyOversleeps`: the clock jumps only when nobody is ready, to `Eps` after the
  earliest event, cancelled ones included.  With intervals on top, `IntervalInv` adds
  that the deadline of every interval whose task may still tick is `start` plus a whole
  number of periods (`GridKept`).  That it survives a late tick is arithmetic: `DivMod` and
  `Multiples` are about division with remainder, `SkipFacts` shows that Skip
  subtracts just the remainder, and `NextTickOnGrid` puts the three behaviours
  together, for every period and every delay.  `IntervalWakeupsKept`,
  `IntervalDisabledSilent` and `IntervalNobodyOversleeps` state the properties of `Timer`
  for the specification the run checks, which has intervals.
* `TcpProofs`.  The invariant has three layers.  `EndsInv`: ids are unique
  and registered until the end is dropped, the port is bound for one listener at a
  time, the accept future has the only end that was answered and not returned
  (`AnsweredHeld`), every living end has its socket.  `MessagesInv`: a request to connect is
  in one place at most, its client is not answered yet (`RequestsOnce`); an
  end that may write knows its peer's id; every other message is addressed to the peer of its
  sender and was sent with Ok.  `ReadersInv`: only
  streams read, an end has taken exactly two units per sequence number that is past
  (`UnitsCounted`), and `InOrder` and `WaiterNotForgotten` themselves.  `NoCrossTalk` is
  not inductive and follows from the second layer: a tag has the receiver's id, ids are
  never reused, and only the peer knows them.  For the same reason no restart and no new listener
  can confuse two incarnations that share a port.
* `SocketsProofs`.  `PortsInv` is built up from `NodesInv` (sockets are of incarnations
  their nodes have or had), `FdsInv` (an entry of the host table is the `SocketState`
  with that node and descriptor; whoever holds an object finds its own entry, unless
  it is a msim-tokio socket of a deleted node; descriptors are owned and nothing is closed
  twice) and, for ports, that a bound endpoint of a living incarnation has its port as long as
  somebody holds it.  The
  theorems on descriptors and ports assume `Benign`: `ForeignKill` and `StdDelete` are
  FALSE, that is, no program kills a paused node from the context of another one, and none deletes
  a node whose tasks hold std sockets.  The hypothesis cannot be dropped: the run
  `sockets_parked_close` violates `NoDoubleClose` without the first half, and findings
  tell what happens without the second.  `AddressesAgree` has no hypothesis.  That a look-up
  of a free port or descriptor finds one is a lemma each (`LeastExists`, `EphemeralFound`,
  `FdFound`); the second also covers the wrap of the ephemeral counter.
* `FilesProofs`.  `FilesInv`: every path and every File leads to an inode there is; a File's
  inode is still that of its path while its node exists, because no path is ever
  removed and no node id returns (`PathsKept`); what a task was told of the length is
  still there unless the file was cut (`SeenWithin`).  `WriteContents` and `ReadBack`
  are about the operators alone, for contents and buffers of any length over any set: `write_all_at` gives the
  old contents with the buffer in its place, and `read_at` reads the buffer back.
* `JoinProofs`.  `JoinInv` adds to `CancelledHasCause` that a handle in its owner's hands
  finds its slot empty only if there was a cause, that the tasks in their start delay
  when a shutdown began are just those that are in it while the node shuts down
  (`DelayedKnown`), and that a closure is in the pool only past that delay.
  `CauseStays` shows that no step forgets a cause.
* `HarnessProofs`.  `CountJustified` relates the watchdog's count to what the clock did
  since its last sample; without `prev <= clock` it is not inductive.  `GuardsHeld`
  says who holds the lock and where the watchdog may be when the test thread is at each
  place: the test thread comes to `take` with its watchdog gone.  `TakenLast` adds that a
  runtime is taken only then, and that whoever brings the abort counter to zero is the
  simulation, which is then over, or the watchdog, whose join panics: together they give
  `WatchdogNeverLeftOver`.  `SeedsBehind` counts how many simulations
  ago a seed was used, modulo the wrap of `u64`.

Assumptions on constants are the named `ASSUME`s of the modules, all evaluated by TLC.
Those of `Sockets` that say what `None` is not (`NoSocketAssumption` among them) are about the
encoding of `Option`; `AbortCounterStart > Limit + 1` holds of the constants in
`time/mod.rs` and `runtime/mod.rs`; the others say that bounds are numbers and subsets are subsets.

`AbortTargets`, `NoResurrection`, `ShutdownsTracked`, `TimeGoesForward`,
`TimersNotEarly` and the type invariants are theorems only: they were checked by TLC before they
were proved, and the runs keep to the deeper statements.

Only model-checked: liveness under fairness, which is out of the prover's reach
(`KilledUnwinds`, `ShutdownJoins`, `KilledDropped`, `GracefulEndsWhenDrained`, `SleepEnds`,
`DataArrives`, `JoinEnds`, `SetShutdownEnds`, `StuckEnds`), and the behaviour of
`BlockingPool`, `Executor` and `Timer` with `EnterNode = TRUE` where a theorem names that
hypothesis.  The mutants listed in `PROJECT.json`, kept next to the
definitions they vary, show for each property a plausible slip in the code that would
break it.

## 5. Findings

1. `timer_enter_node`: the timer of a Sleep awaited through `await_future_in_node` is
   refused if the entered node is disabled already, which is the shortest trace, and
   cancelled if that node is killed later; the living task sleeps forever.  The
   same mismatch makes `kill_current_node` inside `await_future_in_node` schedule
   the restart of the wrong node (`RestartsKilledNode` with `EnterNode = TRUE`
   and two nodes) and lose the result of a living closure
   (`LostResultMeansKilled` with `EnterNode = TRUE`).
2. `tcp_hangup`: dropping a stream is meant to wake a peer that waits on a read,
   but wakes the wakers under its own id, while the peer waits under the peer's.  Two
   tests of `msim-tokio/src/sim/net.rs` expect the hang-up to be seen by a pending read
   (`tcp_test_client_hangup_read`, `tcp_test_server_hangup_read`); they need `--cfg msim`,
   and the workflow in `.github` builds with `--cfg madsim`.
3. `sockets_parked_close`: killing a paused node from another node drops its parked
   futures in the killer's context.  The early return of `OwnedFd::drop` for killed
   tasks, there to avoid a double close, does not apply, and the descriptor is closed in the kernel
   while its `SocketState` stays in the host table; the next socket gets the
   same number and fails the "duplicate socket" assertion, or the descriptor is closed twice.

Observations without a run of their own, by part.

* *Executor.*  A graceful shutdown's deadline is looked at only when the ready queue is
  empty: while a task of another node always wakes itself, `run_all_ready` does not
  return and an idle node stays in shutdown, against the documentation of
  `begin_graceful_shutdown_current_node`.  `GracefulEndsWhenDrained` therefore speaks of
  a queue that drains.  A task that kills its own node and returns Pending may run into
  `panic!("killed task must not run!")` in the same poll (`PollKilledBranch`).
* *Join.*  A closure already in the pool's queue when a graceful shutdown begins still
  runs, although `set_blocking_latency` says a queued task is cancelled; what is
  cancelled is the work still in its start delay.  An abort of a finished task loses its
  result; an abort through a handle whose JoinHandle was dropped does nothing, so a
  detached task that is cancelled by a shutdown stays pending until its node is killed.
  `join_all` panics on a cancelled member, and by that drop aborts the rest of the set.
* *Streams.*  `into_std` and a dropped listener drop a connection the accept future has
  already taken: the client waits for ever, or sees a hang-up.  Two tasks that accept on
  one listener share its future, and only the last one polled is woken.  Neither
  `poll_shutdown` nor the drop of a write half tells the peer anything.
* *Sockets.*  A std socket (not wrapped by msim-tokio) of a task whose node is deleted
  closes its number after the host table has released it (`NoDoubleClose` with
  `StdDelete = TRUE`).  After 32768 ephemeral binds the next port is 0, which `udp_tag`
  takes for unbound.  `TcpSocket::bind` does not enter the socket into the host table's
  endpoint, so that `listen` after it fails, and `connect` ignores it.
* *Files.*  `set_len` works on files opened for reading only, and `power_fail`, which the
  documentation of `Handle::kill` and of the file system relies on, is still empty.
  A stale length still panics where the file was truncated on purpose:
  `PanicMeansTruncated` delimits the failure to that case.
* *Harness.*  The watchdog wants `Limit + 1` equal samples after the first where its
  comment says 10 in a row.  After a panic of the simulation the detached watchdog goes
  on, and may abort the process while the failure is being reported.  If the watchdog's
  own read brings the abort counter to zero, it panics and a hung simulation is never
  ended, which is why `StuckEnds` has that exception; a simulation that comes back fails
  on the watchdog's join, which is part of `WatchdogGoneFirst`.  Samples between the
  end of `block_on` and the stop message count too, and `NoFalseAlarm` allows an abort
  for them.  The seed is incremented once more after the last repetition, and with
  overflow checks panics at `u64::MAX` (`SeedOverflow`); `SeedsDistinct` is about the
  seeds that are used and does not exclude that.  The seed printed for
  `MSIM_TEST_SEED` is that of the repetition which failed, and a run with it starts
  with the first configuration.  An empty list of configurations ends in
  `return_value.unwrap()` of None.

`PanicsDelivered` is stated over jobs and not over nodes: two closures of
one node can both call `kill_current_node` in one round (the second one submitted
for the fresh incarnation), although a comment in `block_on` excludes it.

## 6. Not modelled, and the plan

Not modelled: interposition of libc; parsing of macro attributes, `main`, `test` and
the rpc macros (code generation); `net/config.rs` and its distributions (sampled
values are nondeterministic here); collections and other wrappers; unix sockets and
the tokio runtime builder (stubs); determinism itself (a property of two executions of
one binary).  Of modelled parts: connected datagram sockets, `listen` of interposed
libc, socket options, `TcpSocket`, the poller futures of `UdpSocket`, the async
`send_to`/`recv_from` of raw endpoints, `cancel_on_drop`, the stall counter and the
time limit of `block_on`, and the clearing of the ready queue after a panic.

Built in this order: the blocking pool (threads), the executor (incarnations), time,
TCP streams, sockets, intervals, files, join handles, the test harness.  Next:

1. An abstract specification of a TCP connection - two byte streams of which the reader
   has a prefix, each with a possible hang-up - and the step simulation from `Tcp`, on top
   of `ReadersInv`.
2. `Join` against an abstract handle that ends once, with a value or with a cause.
3. `Sockets`: connected datagram sockets and the pollers of `UdpSocket`.
4. The composition of `Executor` with `BlockingPool` and `Join`.
