SPECIFICATION FairSpec
CONSTANTS
    s1 = s1
    s2 = s2
    s3 = s3
    Handlers = {h1, h2}
    Subscriptions = {s1, s2, s3}
    Known = {s1, s2}
    History <- HistoryLong
    MaxDuplicates = 1
    MaxFailures = 1
    None = None
INVARIANTS
    TypeOK
    NoEventLost
PROPERTIES
    NeverRegresses
    Converges
CHECK_DEADLOCK FALSE
