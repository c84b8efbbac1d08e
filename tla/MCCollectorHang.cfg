\* A handshake that hangs stops the cycles of all hosts.
SPECIFICATION FairSpec
CONSTANTS
    Hosts = {h1, h2}
    Disabled = {}
    Reqs = {}
    Verbs = {"check"}
    Kinds <- OneKind
    None = None
    Limit = 1
    MaxBackups = 1
    MaxFaults = 1
    MaxHangs = 1
    MaxCrashes = 0
CHECK_DEADLOCK FALSE
PROPERTY CyclesGoOn
