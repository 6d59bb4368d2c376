SPECIFICATION HealthSpec
CONSTANTS
    Callers = {c1, c2}
    Watchers = {w1}
    Stored <- MCStored
    MaxStores = 2
INVARIANTS
    RefreshSettles
