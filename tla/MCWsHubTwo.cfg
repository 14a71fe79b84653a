CONSTANTS
    c1 = c1
    c2 = c2
    u1 = u1
    u2 = u2
    Conns = {c1, c2}
    Users = {u1, u2}
    Owner <- MCOwner
    QueueSize = 1
    MaxClients = 1
    MaxEvents = 2
    MaxMessages = 1
    None = None
SPECIFICATION Spec
INVARIANTS
    NoGap
    OrderlyEnd
CHECK_DEADLOCK FALSE
