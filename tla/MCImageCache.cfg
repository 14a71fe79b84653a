CONSTANTS
    i1 = i1
    i2 = i2
    Images = {i1, i2}
    Requests = {r1, r2, r3}
    Size <- MCSize
    Quota = 2
    MaxCrashes = 1
    None = None
SPECIFICATION Spec
SYMMETRY Symmetry
INVARIANTS
    LockExcludes
    WholeImages
    QuotaAtRest
PROPERTIES
    OldestEvicted
