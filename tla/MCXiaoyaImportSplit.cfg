CONSTANTS
    d1 = d1
    d2 = d2
    d3 = d3
    i1 = i1
    i2 = i2
    None = None
    Dirs = {d1, d3}
    Items <- MCItems
    FlushEvery = 2
    MaxBatch = 2
    MaxVersion = 1
    MaxRuns = 2
    MaxFaults = 1

SPECIFICATION Spec

INVARIANT PushedIsOnServer
CHECK_DEADLOCK FALSE
