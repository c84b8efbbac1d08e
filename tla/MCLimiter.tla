----------------------------- MODULE MCLimiter ------------------------------
(* A finite instance of Limiter for TLC.                                   *)
EXTENDS Limiter, TLC

Symmetry == Permutations(Clients)
=============================================================================
