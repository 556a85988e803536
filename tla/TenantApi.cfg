SPECIFICATION Spec
CONSTANTS
    t1 = t1
    t2 = t2
    u1 = u1
    u2 = u2
    e1 = e1
    Handlers = {h1, h2}
    Tenants = {t1, t2}
    Users = {u1, u2}
    Members <- MCMembers
    Rights <- MCRights
    Subscribers = {t1, t2}
    Emails = {e1}
    Documents = {d1}
    Imported <- MCImported
    Faults = TRUE
    None = None
SYMMETRY Symmetry
INVARIANTS
    TypeOK
    AnswersStayInTenant
    FailsClosed
    TrailMatchesTables
    ImpersonationRecorded
    ClientErrorChangesNothing
