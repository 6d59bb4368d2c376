SPECIFICATION FairHttpSpec
CONSTANTS
    Servers = {s1}
    Stoppers = {c1}
    Requests = {r1}
    None = None
CHECK_DEADLOCK FALSE
PROPERTIES
    ServeReturnsAfterShutdown
