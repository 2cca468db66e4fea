------------------------------ MODULE MCFiles ------------------------------
(* TLC instance of Files. *)
EXTENDS Files, TLC

HandleSymmetry == Permutations(Handles)
=============================================================================
