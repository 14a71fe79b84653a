CONSTANTS
    h1 = h1
    h2 = h2
    Handlers = {h1, h2}
    Requests <- MCRequests
    Conns = {c1}
    Sessions = {s1}
    States = {a}
    None = None
SPECIFICATION FairSpec
INVARIANTS
    ListsUpToDate
PROPERTIES
    EveryJobEnds
