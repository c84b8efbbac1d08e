----------------------------- MODULE MCSessions -----------------------------
(* Finite instances of Sessions for TLC.                                   *)
EXTENDS Sessions, TLC

Symmetry == Permutations(Tabs) \cup Permutations(Sids)
            \cup Permutations(Tokens) \cup Permutations(Addrs)
=============================================================================
