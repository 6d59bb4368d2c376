SPECIFICATION FairHttpSpec
CONSTANTS
    Servers = {s1, s2}
    Stoppers = {c1, c2}
    Requests = {r1}
    None = None
CHECK_DEADLOCK FALSE
PROPERTIES
    ShutdownReturns
    ServeReturns
    ImplementsLifecycle
