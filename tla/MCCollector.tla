---------------------------- MODULE MCCollector -----------------------------
(* Finite instances of Collector for TLC.                                  *)
EXTENDS Collector, TLC

\* One of the five kinds of metadata, or none.
OneKind == <<"snapshots">>
NoKinds == << >>

Symmetry == Permutations(Reqs)
=============================================================================
