--------------------------- MODULE MCSupervision ----------------------------
(* A finite instance of Supervision for TLC.                               *)
EXTENDS Supervision

NoCheck == [at |-> 0, ok |-> FALSE, kind |-> "", msg |-> {}]
Good == [at |-> 1, ok |-> TRUE, kind |-> "", msg |-> {}]
Failed(kind, msg) == [at |-> 1, ok |-> FALSE, kind |-> kind, msg |-> msg]

\* A host in order: supported for a while yet, upgraded lately.
Fine == [check |-> Good, deep |-> NoCheck, active |-> [t \in Timers |-> TRUE],
         pct |-> [m \in Mounts |-> 84], memTotal |-> 10, memAvailable |-> 1,
         failedUnits |-> 0, oom |-> 0, ioErrors |-> 0, reboot |-> FALSE,
         upgradedAt |-> 1, security |-> 0, eol |-> None, localUp |-> None]

\* Reports at the edges: nothing wrong; a lock known by its message only, a
\* disk almost full and fixes that wait while the last upgrade grows old; a
\* support that ends.
SomeReports == {
    Fine,
    [Fine EXCEPT !.check = Failed("", {"lock", "wrong password"}),
                 !.deep = Failed("", {}),
                 !.pct = [m \in Mounts |-> 91], !.security = 1],
    [Fine EXCEPT !.eol = 2]}
=============================================================================
