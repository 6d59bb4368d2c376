SPECIFICATION FairPipelineSpec
CONSTANTS
    Requests = {r1, r2}
    Goroutines = {r1, r2}
    Identified = {r1}
    Inputs <- MCInputs
    EngineErrors = {413, 431}
    HandlerErrors = {302, 600}
    Callers = {}
    Watchers = {}
    Stored <- MCStored
    MaxStores = 1
    LogConfigs <- MCLogConfigs
    Records <- MCRecords
    NoEvent = NoEvent
CHECK_DEADLOCK FALSE
INVARIANTS
    PipelineTypeOK
    ProbeIsCurrent
    StableResponse
    RecordsTellResponse
    NumbersAccounted
    ReorderWindow
PROPERTIES
    RequestsAnswered
