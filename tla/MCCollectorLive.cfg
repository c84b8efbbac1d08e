\* Liveness: one host, its periodic collection and that of a request, which
\* may overlap and write what they saw in any order; a fault and a restart.
SPECIFICATION FairSpec
CONSTANTS
    Hosts = {h1}
    Disabled = {}
    Reqs = {r1}
    Verbs = {"check"}
    Kinds <- OneKind
    None = None
    Limit = 1
    MaxBackups = 2
    MaxFaults = 1
    MaxHangs = 0
    MaxCrashes = 1
INVARIANT
    TypeOK
PROPERTIES
    ViewConverges
    StaleProbeGoes
    CyclesGoOn
