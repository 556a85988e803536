SPECIFICATION Spec
CONSTANTS
    Handlers = {h1, h2}
    Accounts = {a1}
    Members = {a1}
    Sessions = {s1}
    Tokens = {t1, t2, t3}
    Permissions = {p1}
    RefreshTtl = 1
    MaxTime = 1
    Faults = FALSE
    None = None
INVARIANTS
    SingleUse
CHECK_DEADLOCK FALSE
