\* A backoff of up to six periods, and cycles longer than a period, so that
\* the ticker drops ticks.
SPECIFICATION Spec
CONSTANTS
    Interval = 2
    MaxBackoff = 12
    MaxCycle = 3
    Budget = 2
    MaxClicks = 2
    MaxTime = 26
INVARIANTS
    TypeOK
    SpacedOut
    FewFailures
    NotForgotten
