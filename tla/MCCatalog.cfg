SPECIFICATION Spec
CONSTANTS
    n1 = n1
    n2 = n2
    n3 = n3
    l1 = l1
    l2 = l2
    u1 = u1
    g1 = g1
    s1 = s1
    s2 = s2
    s3 = s3
    m1 = m1
    None = None
    Null = Null
    Bad = Bad
    Invalid = Invalid
    Broken = Broken
    NewIds <- MCNewIds
    Names <- MCNames
    Ratings <- MCRatings
    Genres <- MCGenres
    ImportIds <- MCImportIds
    Shapes <- MCShapes
    Policies <- MCPolicies
    Starts <- MCStarts
    MaxOps = 3
    MaxExported = 2
    MaxJobs = 2
    MaxRows = 9
CHECK_DEADLOCK FALSE
INVARIANTS
    CatalogueConsistent
    SnapshotSound
    ScopeAgrees
PROPERTIES
    NothingRevealed
