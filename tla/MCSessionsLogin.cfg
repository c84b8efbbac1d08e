\* A browser that changed address is asked to log in and its form refused.
SPECIFICATION Spec
CONSTANTS
    Tabs = {t1}
    Sids = {s1}
    Tokens = {k1, k2, k3}
    Addrs = {a1, a2}
    None = None
    MaxMoves = 1
INVARIANT LoginFormIsAccepted
