SPECIFICATION FairHealthSpec
CONSTANTS
    Callers = {c1, c2}
    Watchers = {w1}
    Stored <- MCStored
    MaxStores = 2
INVARIANTS
    StoppedIsNotServing
    WatchersHoldStatus
PROPERTIES
    StatusConverges
    ShutdownReachesWatchers
