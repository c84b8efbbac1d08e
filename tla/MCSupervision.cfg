\* A host whose collections, pages and days interleave.  The time of a
\* collection is in units of 4 s.
SPECIFICATION Spec
CONSTANTS
    None = None
    Timers = {backup}
    Mounts = {root}
    Expect = 1
    UpgradeStale = 1
    EolCrit = 1
    EolWarn = 2
    CertCrit = 1
    Reports <- SomeReports
    Certs = {None, 3}
    Budget = 15
    Attempts = 3
    Spacing = 2
    Timeout = 3
    MaxDay = 3
INVARIANTS
    TypeOK
    PageIsHonest
    DownIsEarned
PROPERTY
    TimeNeverHeals
