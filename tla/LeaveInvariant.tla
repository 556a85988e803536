--------------------------- MODULE LeaveInvariant ---------------------------
(***************************************************************************)
(* The inductive invariant behind the safety properties of LeaveRequests:  *)
(* what each program point of a call knows about the tables.               *)
(***************************************************************************)
EXTENDS LeaveRequests

Syncing == {"policy", "balanceRow", "acquire", "auditSync", "aggregate", "consumed"}

\* A stored row belongs to a tenant and an employee, an approved one to an approver.
RowsWellFormed ==
    \A r \in Requests :
        /\ row[r].status # "ABSENT" =>
             row[r].tenant \in Tenants /\ row[r].employee \in Employees
        /\ row[r].status = "APPROVED" => row[r].approver \in Users

\* What a call carries at each program point.
CallWellFormed(h) ==
    LET c == call[h] IN
    /\ c.pc # "idle" => c.user \in Users
    /\ c.pc \in {"load", "overlap", "update", "auditApprove"} => c.op = "approve"
    /\ c.pc = "auditCreate" => c.op = "create"
    /\ c.op \in {"create", "approve"} => c.request \in Requests
    /\ c.pc \in Syncing \cup {"overlap", "employee"} => c.employee \in Employees

\* Where the sync loop is: between the month of hire and the month read.
SyncInRange(h) ==
    LET c == call[h] IN
    /\ c.pc \in Syncing => /\ EmployeeTenant[c.employee] = Tenant(h)
                           /\ c.through \in 1..month
    /\ c.pc \in {"policy", "balanceRow"} => c.at = HireMonth[c.employee]
    /\ c.pc = "acquire" => c.at \in HireMonth[c.employee]..c.through

\* The months a sync has passed are stored.
SyncProgress(h) ==
    LET c == call[h] IN
    /\ c.pc = "acquire" =>
         HireMonth[c.employee]..(c.at - 1) \subseteq acquired[Tenant(h)][c.employee]
    /\ c.pc \in {"auditSync", "aggregate"} =>
         HireMonth[c.employee]..c.through \subseteq acquired[Tenant(h)][c.employee]

\* The row an approval holds is the stored row, but for status and approver.
ExistingCurrent(h) ==
    LET c == call[h] r == row[call[h].request] IN
    c.op = "approve" /\ c.pc \in PastOverlapCheck \cup {"overlap"} =>
        /\ r.status # "ABSENT" /\ r.tenant = Tenant(h)
        /\ c.existing.tenant = r.tenant /\ c.existing.employee = r.employee
        /\ c.existing.start = r.start /\ c.existing.end = r.end
        /\ c.existing.paid = r.paid
        /\ c.pc # "update" => c.employee = r.employee

\* An approval past its overlap check has missed every approved request it
\* would now find.
MissedAllOverlaps(h) ==
    LET c == call[h] IN
    c.op = "approve" /\ c.pc \in PastOverlapCheck =>
        \A r \in Requests \ {c.request} :
            /\ row[r].status = "APPROVED"
            /\ SameEmployee(r, c.request)
            /\ Overlaps(row[r], row[c.request])
            => r \in c.missed

\* A paid request that is about to be approved is for an employee of the tenant.
PaidInTenant(h) ==
    LET c == call[h] IN
    c.pc = "update" /\ row[c.request].paid =>
        EmployeeTenant[row[c.request].employee] = Tenant(h)

\* What is about to be audited is stored.
AuditPending(h) ==
    LET c == call[h] IN
    /\ c.pc = "auditCreate" => row[c.request].status # "ABSENT"
    /\ c.pc = "auditApprove" => row[c.request].status = "APPROVED"

CallInv(h) ==
    /\ CallWellFormed(h)
    /\ SyncInRange(h)
    /\ SyncProgress(h)
    /\ ExistingCurrent(h)
    /\ MissedAllOverlaps(h)
    /\ PaidInTenant(h)
    /\ AuditPending(h)

Inductive == RowsWellFormed /\ \A h \in Handlers : CallInv(h)

----------------------------------------------------------------------------
\* The money side of the invariant: why an approval does not overdraw

\* The months a snapshot counted are stored.
SnapshotStored(h) ==
    LET c == call[h] IN
    c.pc = "consumed" => c.counted \subseteq acquired[Tenant(h)][c.employee]

\* A paid request about to be approved is covered by what is left, unless
\* an approval this call has missed has taken from it since.
Funded(h) ==
    \A t \in Tenants, e \in Employees :
        LET q == call[h].request IN
        /\ call[h].pc = "update" /\ row[q].paid
        /\ row[q].tenant = t /\ row[q].employee = e
        => \/ \E s \in ConsumingRequests(t, e) : s \in call[h].missed
           \/ Debit[q] <= Balance(t, e)

Funds ==
    /\ IsFiniteSet({r \in Requests : row[r].status = "APPROVED"})
    /\ \A h \in Handlers : SnapshotStored(h) /\ Funded(h)
=============================================================================
