--------------------------- MODULE MCBlockingPool ---------------------------
(* TLC instances of BlockingPool. *)
EXTENDS BlockingPool, TLC

JobSymmetry == Permutations(Jobs)
=============================================================================
