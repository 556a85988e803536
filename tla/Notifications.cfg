SPECIFICATION FairSpec
CONSTANTS
    Handlers = {h1, h2}
    Workers = {w1, w2}
    Tenants = {t1, t2}
    Notifications = {n1, n2}
    n1 = n1
    n2 = n2
    t1 = t1
    t2 = t2
    Owner <- MCOwner
    Limit = 1
    Attempts = 2
    MaxStalled = 1
    Faults = TRUE
    None = None
INVARIANTS
    TypeOK
    PendingAccountedFor
PROPERTIES
    SentByWorkers
    
