\* Safety and liveness: two callers, two connections of one slot each, two
\* faults.
SPECIFICATION FairSpec
CONSTANTS
    Callers = {p1, p2}
    Conns = {c1, c2}
    None = None
    MaxSessions = 1
    MaxFaults = 2
INVARIANTS
    TypeOK
    TokensReturned
    NoOrphanConnection
    SessionsWithoutSlot
PROPERTY CallsReturn
