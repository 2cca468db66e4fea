------------------------------ MODULE MCTimer ------------------------------
(* TLC instances of Timer. *)
EXTENDS Interval, TLC

SleepSymmetry == Permutations(Sleeps)
=============================================================================
