CONSTANTS
    Keys = {k1}
    Positions = {1, 2}
    Callers = {c1, c2}
    MaxCalls = 2
    MaxBuffered = 2
    MaxCrashes = 1
    FlushAttempts = 2
    None = None
SPECIFICATION FairSpec
INVARIANTS
    CleanShutdownDrains
PROPERTIES
    ImplementsLedger
    BufferedNotDropped
    BufferSettles
CHECK_DEADLOCK FALSE
