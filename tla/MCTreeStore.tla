---------------------------- MODULE MCTreeStore -----------------------------
(* Finite instances of TreeStore for TLC.                                  *)
EXTENDS TreeStore, TLC

CONSTANTS h1, h2, s1

\* Two trees of a host, one of which changes, and one of another host.
ThreeKeys == {<<h1, Latest>>, <<h1, s1>>, <<h2, s1>>}

\* "latest" grows with each backup until it is larger than MaxNodes alone.
SizeOf(k, v) == IF k[2] = Latest THEN 1 + 2 * v ELSE 2
=============================================================================
