SPECIFICATION FairRequestSpec
CONSTANTS
    Unaries = {u1}
    Streams = {t1}
    HealthRequests = {u1}
    Callers = {u1}
    Identified = {u1}
    Watchers = {}
    Stored <- MCStored
    MaxStores = 1
    Metadata <- MCMetadata
    MetadataLimit = 80
    WordSize = 256
CHECK_DEADLOCK FALSE
INVARIANTS
    DeadRootStopsRequests
    OverBudgetNeverHandled
    OneCompletionPerRequest
    NoLateSuccess
    SuccessIsEarned
    NothingLeaks
PROPERTIES
    RequestsEnd
