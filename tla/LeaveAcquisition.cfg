SPECIFICATION Spec
CONSTANTS
    Days = {0, 1, 6, 7, 12, 13, 19, 24, 28, 30, 31}
    MonthStart = 1
    MonthEnd = 30
    Spans <- MCSpans
    MaxContracts = 3
    Rates = {250, 300}
    None = None
INVARIANTS
    TypeOK
    SweepCorrect
    CreditRoundsUp
CHECK_DEADLOCK FALSE
