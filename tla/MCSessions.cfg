\* Two tabs, two sessions, a change of address.
SPECIFICATION Spec
CONSTANTS
    Tabs = {t1, t2}
    Sids = {s1, s2}
    Tokens = {k1, k2, k3}
    Addrs = {a1, a2}
    None = None
    MaxMoves = 1
SYMMETRY Symmetry
INVARIANTS
    TypeOK
    PagesStayUsable
    ActsUnderItsOwnSession
PROPERTY EndIsFinal
