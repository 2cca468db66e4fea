------------------------------ MODULE MCHarness ------------------------------
(* TLC instance of Harness. *)
EXTENDS Harness

\* Nothing to run, a repeat count of zero, one simulation, several of each of
\* two configurations.
MCTestConfigs == {<<>>, <<0>>, <<1>>, <<2, 1>>}
=============================================================================
