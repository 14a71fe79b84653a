CONSTANTS
    Users = {u1, u2}
    Items = {i1}
    Sids = {s1, s2}
    Requests = {r1, r2}
    Positions = {8, 9}
    Runtime <- MCRuntime
    Policies <- MCPolicies
    Window = 1
    MaxReports = 3
    MaxAdminOps = 1
    None = None
SPECIFICATION Spec
SYMMETRY Symmetry
INVARIANTS
    AckedDurable
    SessionBacked
    CountedOnce
    ToldComplete
PROPERTIES
    OwnerStable
    NoLiveSessionSwept
    StreamLimitHeld
CHECK_DEADLOCK FALSE
