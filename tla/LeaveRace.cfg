SPECIFICATION Spec
CONSTANTS
    None = None
    t1 = t1
    t2 = t2
    e1 = e1
    e2 = e2
    u1 = u1
    u2 = u2
    Tenants = {t1, t2}
    Handlers = {h1, h2}
    Requests = {r1, r2}
    Employees = {e1}
    Users = {u1}
    Dtos <- WeekEndDtos
    MaxMonth = 2
    Faults = FALSE
    EmployeeTenant <- MCEmployeeTenant
    UserTenant <- MCUserTenant
    HireMonth <- MCHireMonth
    Credit <- MCCredit
    CarriedOver <- MCCarriedOver
SYMMETRY Symmetry
INVARIANTS
    TypeOK
    OverlapOnlyByRace
    OverdraftOnlyByRace
    AcquiredPrefix
    SnapshotCoversMonths
    AuditTruthful
