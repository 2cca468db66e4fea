-------------------------- MODULE BlockingService --------------------------
(***************************************************************************)
(* What the deterministic blocking pool promises to a caller of            *)
(* spawn_blocking, without threads, turns or wake rounds:                  *)
(*                                                                         *)
(*   - at most one blocking job executes user code at any moment;          *)
(*   - a job starts, and is resumed after a yield, only while the          *)
(*     incarnation of the node it was submitted for is alive;              *)
(*   - a job loses its result (it is cancelled) only if that incarnation   *)
(*     was killed, or because the whole pool is being torn down.           *)
(*                                                                         *)
(* BlockingPool.tla is shown to implement this specification.              *)
(***************************************************************************)
EXTENDS Naturals

CONSTANTS
  Jobs,    \* the blocking closures that are ever submitted
  Nodes    \* the simulated nodes

VARIABLES
  inc,     \* inc[n]: number of the incarnation of node n that is alive
  node,    \* node[j]: the node job j was submitted for
  born,    \* born[j]: the incarnation of node[j] it was submitted for
  status,  \* status[j]: where job j is in its life
  open     \* FALSE once the pool is torn down

vars == <<inc, node, born, status, open>>

Status == {"new", "queued", "running", "waiting", "done", "cancelled"}

TypeOK ==
  /\ inc \in [Nodes -> Nat]
  /\ node \in [Jobs -> Nodes]
  /\ born \in [Jobs -> Nat]
  /\ status \in [Jobs -> Status]
  /\ open \in BOOLEAN

Alive(j) == born[j] = inc[node[j]]
NoneRunning == \A j \in Jobs : status[j] # "running"

Init ==
  /\ inc = [n \in Nodes |-> 0]
  /\ node \in [Jobs -> Nodes]
  /\ born = [j \in Jobs |-> 0]
  /\ status = [j \in Jobs |-> "new"]
  /\ open = TRUE

\* A caller submits j for incarnation k of node n, alive or already dead (a
\* stale NodeHandle).
Submit(j, n, k) ==
  /\ status[j] = "new"
  /\ node' = [node EXCEPT ![j] = n]
  /\ born' = [born EXCEPT ![j] = k]
  /\ status' = [status EXCEPT ![j] = "queued"]
  /\ UNCHANGED <<inc, open>>

Kill(n) ==
  /\ inc' = [inc EXCEPT ![n] = @ + 1]
  /\ UNCHANGED <<node, born, status, open>>

Begin(j) ==
  /\ open /\ NoneRunning /\ Alive(j)
  /\ status[j] \in {"queued", "waiting"}
  /\ status' = [status EXCEPT ![j] = "running"]
  /\ UNCHANGED <<inc, node, born, open>>

Pause(j) ==
  /\ status[j] = "running"
  /\ status' = [status EXCEPT ![j] = "waiting"]
  /\ UNCHANGED <<inc, node, born, open>>

Finish(j) ==
  /\ status[j] = "running"
  /\ status' = [status EXCEPT ![j] = "done"]
  /\ UNCHANGED <<inc, node, born, open>>

Cancel(j) ==
  /\ status[j] \in {"queued", "running", "waiting"}
  /\ ~Alive(j) \/ ~open
  /\ status' = [status EXCEPT ![j] = "cancelled"]
  /\ UNCHANGED <<inc, node, born, open>>

TearDown ==
  /\ open /\ NoneRunning
  /\ open' = FALSE
  /\ UNCHANGED <<inc, node, born, status>>

Next ==
  \/ \E n \in Nodes : Kill(n) \/ \E j \in Jobs, k \in 0 .. inc[n] : Submit(j, n, k)
  \/ \E j \in Jobs : Begin(j) \/ Pause(j) \/ Finish(j) \/ Cancel(j)
  \/ TearDown

Spec == Init /\ [][Next]_vars
=============================================================================
