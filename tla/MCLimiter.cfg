\* Two clients of one address, two attempts per window of three ticks.
SPECIFICATION Spec
CONSTANTS
    Clients = {c1, c2}
    Max = 2
    Window = 3
    MaxTime = 6
    MaxAttempts = 5
SYMMETRY Symmetry
INVARIANTS
    TypeOK
    FewTrials
    LockoutEnds
