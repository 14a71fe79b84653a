CONSTANTS
    c1 = c1
    c2 = c2
    u1 = u1
    u2 = u2
    Conns = {c1}
    Users = {u1, u2}
    Owner <- MCOwner
    QueueSize = 2
    MaxClients = 1
    MaxEvents = 3
    MaxMessages = 2
    None = None
SPECIFICATION FairSpec
INVARIANTS
    NoGap
    OrderlyEnd
PROPERTIES
    DeadConnectionReleased
    CloseEndsEverything
CHECK_DEADLOCK FALSE
