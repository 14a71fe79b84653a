SPECIFICATION Spec
CONSTANTS
    c1 = c1
    c2 = c2
    None = None
    Clients = {c1, c2}
    Routes <- MCRoutes
    Params = {":itemId", ":userId"}
    Endings <- MCEndings
    Lower <- MCLower
    embyNamespaces = {"items", "users", "videos"}
    Requests <- MCRequests
    MaxRequests = 1
SYMMETRY Symmetric
CHECK_DEADLOCK FALSE
INVARIANTS
    EveryRouteInAnyCase
