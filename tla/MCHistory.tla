----------------------------- MODULE MCHistory ------------------------------
(* A finite instance of History for TLC.                                   *)
EXTENDS History

\* A window in hours, and one with wider intervals.
TwoWindows == {[duration |-> 2, bucket |-> 1], [duration |-> 3, bucket |-> 3]}
=============================================================================
