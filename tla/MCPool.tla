------------------------------- MODULE MCPool -------------------------------
(* Finite instances of Pool for TLC.                                       *)
EXTENDS Pool, TLC

Symmetry == Permutations(Callers) \cup Permutations(Conns)
=============================================================================
