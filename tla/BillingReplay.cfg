SPECIFICATION Spec
CONSTANTS
    s1 = s1
    s2 = s2
    s3 = s3
    Handlers = {h1}
    Subscriptions = {s1, s2, s3}
    Known = {s1, s2}
    History <- HistoryShort
    MaxDuplicates = 1
    MaxFailures = 0
    None = None
PROPERTIES
    AppliedOnce
CHECK_DEADLOCK FALSE
