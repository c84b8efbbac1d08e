\* Safety: one host, its periodic collection and two requests; the metadata
\* are in MCCollectorLive.  A call that hangs may stop everything: see
\* CyclesGoOn.
SPECIFICATION Spec
CONSTANTS
    Hosts = {h1}
    Disabled = {}
    Reqs = {r1, r2}
    Verbs = {"backup", "refresh"}
    Kinds <- NoKinds
    None = None
    Limit = 1
    MaxBackups = 2
    MaxFaults = 1
    MaxHangs = 1
    MaxCrashes = 1
SYMMETRY Symmetry
CHECK_DEADLOCK FALSE
INVARIANTS
    RunningIsExact
    NoFalseOK
    NoStrayCollection
    JournalIsComplete
PROPERTY
    OperationsAreSerial
