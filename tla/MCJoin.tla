------------------------------- MODULE MCJoin -------------------------------
(* TLC instance of Join. *)
EXTENDS Join
=============================================================================
