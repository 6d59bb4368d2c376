SPECIFICATION FairGrpcSpec
CONSTANTS
    Callers = {}
    Watchers = {}
    Stored = {}
    MaxStores = 0
    Servers = {s1, s2}
    Stoppers = {c1, c2}
    Rpcs = {r1}
    None = None
CHECK_DEADLOCK FALSE
PROPERTIES
    ShutdownReturns
    ServeReturns
    ImplementsLifecycle
