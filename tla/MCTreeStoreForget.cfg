\* A load under way puts back a tree that InvalidateTrees forgot.
SPECIFICATION Spec
CONSTANTS
    Callers = {p1}
    h1 = h1
    h2 = h2
    s1 = s1
    Hosts = {h1, h2}
    Keys <- ThreeKeys
    Latest = latest
    Size <- SizeOf
    MaxNodes = 4
    MaxTimer = 0
    MaxConsole = 1
    None = None
INVARIANT ForgottenAfterBackup
