SPECIFICATION Spec
CONSTANTS
    Handlers = {h1, h2}
    Accounts = {a1, a2}
    Members = {a1}
    Sessions = {s1, s2}
    Tokens = {t1, t2, t3}
    Permissions = {p1}
    RefreshTtl = 1
    MaxTime = 2
    Faults = TRUE
    None = None
SYMMETRY Symmetry
INVARIANTS
    TypeOK
    DeadTokenRefused
    SessionIdentity
    SessionReachable
PROPERTIES
    ImplementsLedger
CHECK_DEADLOCK FALSE
