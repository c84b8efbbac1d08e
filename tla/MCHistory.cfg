\* Six dates, of which the page shows the last two or three.  Nothing ends the
\* system but the bound on time.
SPECIFICATION Spec
CONSTANTS
    None = None
    Windows <- TwoWindows
    BarDuration = 3
    Step = 1
    Keep = 4
    Slack = 1
    MaxTime = 5
INVARIANTS
    TypeOK
    NothingShownIsLost
    
