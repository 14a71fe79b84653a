CONSTANTS
    Passwords = {p1, p2}
    Requests = {r1, r2}
    Savers = {a1}
    Tokens = {t1, t2, t3}
    MaxAttempts = 1
    MaxKeys = 1
    MaxOps = 1
    MaxErrors = 1
    None = None
SPECIFICATION Spec
SYMMETRY Symmetry
VIEW Relevant
CONSTRAINT Small
INVARIANTS
    BasicFresh
    BasicTokensBounded
    AttemptsBounded
