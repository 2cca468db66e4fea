----------------------------- MODULE MCSockets ------------------------------
(* TLC instances of Sockets. *)
EXTENDS Sockets, TLC

SockSymmetry == Permutations(Socks)
=============================================================================
