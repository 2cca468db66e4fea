----------------------------- MODULE MCExecutor -----------------------------
(* TLC instances of Executor. *)
EXTENDS Executor, TLC

TaskSymmetry == Permutations(Tasks)
NodeSymmetry == Permutations(Nodes)
=============================================================================
