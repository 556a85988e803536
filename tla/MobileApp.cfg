SPECIFICATION Spec
CONSTANTS
    None = None
    l1 = l1
    l2 = l2
    l3 = l3
    Logins = {l1, l2, l3}
    Approvers = {l1, l2}
    TenantOf <- MCTenantOf
    Taps = {g1, g2}
SYMMETRY Symmetry
INVARIANTS
    TypeOK
    PageGuarded
    HeadersAgree
    RestartKeepsTheSession
