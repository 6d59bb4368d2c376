SPECIFICATION HttpSpec
CONSTANTS
    Servers = {s1, s2}
    Stoppers = {c1, c2}
    Requests = {r1, r2}
    None = None
SYMMETRY MCSymmetry
CHECK_DEADLOCK FALSE
INVARIANTS
    HttpTypeOK
    OneServeAtATime
    StartupShutdownPreventsServing
    SuccessMeansServeLeft
    SuccessMeansDrained
