SPECIFICATION GrpcSpec
CONSTANTS
    Callers = {h1}
    Watchers = {}
    Stored <- MCStored
    MaxStores = 1
    Servers = {s1, s2}
    Stoppers = {c1, c2}
    Rpcs = {r1, r2}
    None = None
SYMMETRY MCSymmetry
CHECK_DEADLOCK FALSE
INVARIANTS
    GrpcTypeOK
    OneServeAtATime
    NotServingOnceStopping
    ServeReleasesListener
    StopLeavesNothingRunning
    SuccessMeansDrained
