SPECIFICATION GrpcSpec
CONSTANTS
    Callers = {}
    Watchers = {}
    Stored = {}
    MaxStores = 0
    Servers = {s1}
    Stoppers = {c1}
    Rpcs = {r1}
    None = None
CHECK_DEADLOCK FALSE
INVARIANTS
    ShutdownDrainsOrStops
