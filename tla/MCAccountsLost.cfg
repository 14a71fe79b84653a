CONSTANTS
    Passwords = {p1, p2}
    Requests = {r1}
    Savers = {a1}
    Tokens = {t1, t2}
    MaxAttempts = 2
    MaxKeys = 1
    MaxOps = 2
    MaxErrors = 0
    None = None
SPECIFICATION Spec
PROPERTIES
    OldPasswordRefused
