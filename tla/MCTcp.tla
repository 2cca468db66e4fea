------------------------------ MODULE MCTcp ------------------------------
(* TLC instances of Tcp.                                                    *)
EXTENDS Tcp, TLC

ConnSymmetry == Permutations(Conns)
=============================================================================
