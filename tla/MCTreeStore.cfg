\* Safety and liveness: two requests, three trees of two hosts, a backup by a
\* timer and a verb from the console.
SPECIFICATION FairSpec
CONSTANTS
    Callers = {p1, p2}
    h1 = h1
    h2 = h2
    s1 = s1
    Hosts = {h1, h2}
    Keys <- ThreeKeys
    Latest = latest
    Size <- SizeOf
    MaxNodes = 4
    MaxTimer = 1
    MaxConsole = 1
    None = None
INVARIANTS
    TypeOK
    UsedMatchesTrees
    NodesExact
    MemoryBound
    SingleFlight
    WaitersHaveALeader
    EvictedIsTheLoop
PROPERTY BrowseReturns
