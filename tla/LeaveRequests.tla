--------------------------- MODULE LeaveRequests ---------------------------
(***************************************************************************)
(* The leave module of the back end: LeaveService and LeaveBalanceService  *)
(* over the PostgreSQL rows they share.  A handler is one HTTP call in     *)
(* flight; its pc names the await it is about to run.  Every await is one  *)
(* database transaction of its own and nothing spans two of them, so any   *)
(* other handler may run between two steps, and a call may fail at any.    *)
(***************************************************************************)
EXTENDS LeaveCalendar, FiniteSetsExt

CONSTANTS
    Handlers,       \* HTTP calls that can be in flight at the same time
    Tenants, Employees, Users, Requests,
    EmployeeTenant, \* Employee.tenantId; nothing moves an employee
    UserTenant,     \* the tenant of the caller's access token
    Dtos,           \* the bodies POST /leave-requests may carry
    HireMonth,      \* first month of the acquisition loop, per employee
    Credit,         \* acquiredDays of an employee's month, in tenths
    CarriedOver,    \* EmployeePaidLeaveBalance.carriedOverDays, in tenths
    MaxMonth,       \* bound on the clock: months are 1..MaxMonth
    Faults,         \* TRUE when an await may throw (error, crash, restart)
    None            \* null

Months == 1..MaxMonth
Dto == [employee : Employees, paid : BOOLEAN, start : Nat, end : Nat]

ASSUME TenancyAssumption ==
    /\ EmployeeTenant \in [Employees -> Tenants]
    /\ UserTenant \in [Users -> Tenants]
ASSUME DtosAssumption == Dtos \subseteq Dto
ASSUME MonthsAssumption ==
    /\ MaxMonth \in Nat \ {0}
    /\ HireMonth \in [Employees -> Nat \ {0}]
ASSUME CreditAssumption ==
    /\ Credit \in [Employees -> [Months -> Nat]]
    /\ CarriedOver \in [Employees -> Nat]
ASSUME FaultsAssumption == Faults \in BOOLEAN
ASSUME NoneAssumption ==
    None \notin Users \cup Employees \cup Requests

VARIABLES
    row,        \* table LeaveRequest: request id -> row, or Absent
    acquired,   \* table LeavePaidAcquisition: the months with a row
    policies,   \* table TenantLeavePolicy: the tenants with a row
    balances,   \* table EmployeePaidLeaveBalance: the employees with a row
    audit,      \* table AuditLog, as the set of what it records
    month,      \* the current UTC month
    call,       \* what each handler is doing
    unseen      \* history: the approvals each approval could not see

vars == <<row, acquired, policies, balances, audit, month, call, unseen>>

Statuses == {"ABSENT", "PENDING", "APPROVED"}
Row == [tenant : Tenants \cup {None}, employee : Employees \cup {None},
        paid : BOOLEAN, start : Nat, end : Nat,
        status : Statuses, approver : Users \cup {None}]
Absent == [tenant |-> None, employee |-> None, paid |-> FALSE, start |-> 0,
           end |-> 0, status |-> "ABSENT", approver |-> None]

\* The awaits of create, of approve, and of the snapshot approve shares
\* with GET /leave-balances.
PastOverlapCheck == {"employee", "policy", "balanceRow", "acquire", "auditSync",
                     "aggregate", "consumed", "update"}
Pc == PastOverlapCheck \cup {"idle", "auditCreate", "load", "overlap", "auditApprove"}

Call == [op : {"none", "create", "approve", "balance"}, pc : Pc,
         user : Users \cup {None}, request : Requests \cup {None},
         existing : Row,                    \* the row as load returned it
         employee : Employees \cup {None},  \* whose balance is read
         through : Nat,                     \* month the sync runs through
         at : Nat,                          \* month the sync loop is at
         counted : SUBSET Months,           \* rows the aggregate summed
         missed : SUBSET Requests]          \* history: approved since overlap
Idle == [op |-> "none", pc |-> "idle", user |-> None, request |-> None,
         existing |-> Absent, employee |-> None, through |-> 0, at |-> 0,
         counted |-> {}, missed |-> {}]

Tenant(h) == UserTenant[call[h].user]

AuditRecord ==
    [action : {"create"}, request : Requests]
        \cup [action : {"approve"}, request : Requests, before : Statuses]
        \cup [action : {"synced"}, tenant : Tenants, employee : Employees, through : Nat]

----------------------------------------------------------------------------
\* Balances

\* The rows sumConsumedPaidWorkingDays selects.
ConsumingRequests(t, e) ==
    {r \in Requests : /\ row[r].status = "APPROVED"
                      /\ row[r].tenant = t /\ row[r].employee = e
                      /\ row[r].paid}

\* The working days of each request, in tenths of a day.
Debit == [r \in Requests |-> Tenths * CountWorkingDays(row[r].start, row[r].end)]

\* sumConsumedPaidWorkingDays.
Consumed(t, e) == SumFunctionOnSet(Debit, ConsumingRequests(t, e))

\* _sum of acquiredDays over a set of months.
Accrued(e, months) == SumFunctionOnSet(Credit[e], months)

\* availablePaidDays, from the months the aggregate saw.
Available(t, e, months) == CarriedOver[e] + Accrued(e, months) - Consumed(t, e)

----------------------------------------------------------------------------
\* Handler steps

Goto(h, pc) == call' = [call EXCEPT ![h].pc = pc]
Answer(h) == call' = [call EXCEPT ![h] = Idle]

\* create: the range check, then the insert.  Neither the employee nor the
\* leave type is looked up, so the employee may be another tenant's.
Create(h) ==
    /\ call[h].pc = "idle"
    /\ \E u \in Users, d \in Dtos, r \in Requests :
        /\ d.start <= d.end
        /\ row[r] = Absent
        /\ row' = [row EXCEPT ![r] =
             [tenant |-> UserTenant[u], employee |-> d.employee, paid |-> d.paid,
              start |-> d.start, end |-> d.end, status |-> "PENDING", approver |-> None]]
        /\ call' = [call EXCEPT ![h] =
             [Idle EXCEPT !.op = "create", !.pc = "auditCreate", !.user = u, !.request = r]]
    /\ UNCHANGED <<acquired, policies, balances, audit, month, unseen>>

AuditCreate(h) ==
    /\ call[h].pc = "auditCreate"
    /\ audit' = audit \cup {[action |-> "create", request |-> call[h].request]}
    /\ Answer(h)
    /\ UNCHANGED <<row, acquired, policies, balances, month, unseen>>

\* POST /leave-requests/:id/approve arrives, for any id.
CallApprove(h) ==
    /\ call[h].pc = "idle"
    /\ \E u \in Users, r \in Requests :
        call' = [call EXCEPT ![h] =
            [Idle EXCEPT !.op = "approve", !.pc = "load", !.user = u, !.request = r]]
    /\ UNCHANGED <<row, acquired, policies, balances, audit, month, unseen>>

\* GET /leave-balances/me or /:employeeId arrives.
CallBalance(h) ==
    /\ call[h].pc = "idle"
    /\ \E u \in Users, e \in Employees :
        call' = [call EXCEPT ![h] =
            [Idle EXCEPT !.op = "balance", !.pc = "employee", !.user = u, !.employee = e]]
    /\ UNCHANGED <<row, acquired, policies, balances, audit, month, unseen>>

\* findFirst({id, tenantId}) sees this row.  The status is not looked at.
Findable(h) ==
    LET r == row[call[h].request]
    IN  r.status # "ABSENT" /\ r.tenant = Tenant(h)

Load(h) ==
    /\ call[h].pc = "load"
    /\ IF Findable(h)
         THEN call' = [call EXCEPT ![h].pc = "overlap",
                                   ![h].existing = row[call[h].request],
                                   ![h].employee = row[call[h].request].employee]
         ELSE Answer(h)                                               \* 404
    /\ UNCHANGED <<row, acquired, policies, balances, audit, month, unseen>>

\* Mutant of OverlapFound: the query compares with < where the code has lte.
OverlapFoundStrict(h) ==
    \E r \in Requests \ {call[h].request} :
        /\ row[r].status = "APPROVED"
        /\ row[r].tenant = Tenant(h) /\ row[r].employee = call[h].existing.employee
        /\ row[r].start < call[h].existing.end /\ row[r].end > call[h].existing.start

\* The overlap query, over the rows as they are now.
OverlapFound(h) ==
    \E r \in Requests \ {call[h].request} :
        /\ row[r].status = "APPROVED"
        /\ row[r].tenant = Tenant(h) /\ row[r].employee = call[h].existing.employee
        /\ Overlaps(row[r], call[h].existing)

CheckOverlap(h) ==
    /\ call[h].pc = "overlap"
    /\ IF OverlapFound(h) THEN Answer(h)                              \* 409
       ELSE Goto(h, IF call[h].existing.paid THEN "employee" ELSE "update")
    /\ UNCHANGED <<row, acquired, policies, balances, audit, month, unseen>>

\* Mutant of EmployeeVisible: the lookup by id alone.
EmployeeVisibleToAll(h) == TRUE

\* employee.findFirst({id, tenantId}), in the snapshot and again in the
\* sync it calls: 404 for another tenant's employee.
EmployeeVisible(h) == EmployeeTenant[call[h].employee] = Tenant(h)

\* Mutants of StartMonth: a sync that only looks at the current month; the
\* zero-based month of getUTCMonth() without the + 1.
StartAtCurrentMonth(h) == month
StartMonthZeroBased(h) == HireMonth[call[h].employee] - 1

\* The sync loop always starts at the month of hire.
StartMonth(h) == HireMonth[call[h].employee]

\* The month is read once, here: the sync loop runs through it.
FindEmployee(h) ==
    /\ call[h].pc = "employee"
    /\ IF EmployeeVisible(h)
         THEN call' = [call EXCEPT ![h].pc = "policy", ![h].through = month,
                                   ![h].at = StartMonth(h)]
         ELSE Answer(h)                                               \* 404
    /\ UNCHANGED <<row, acquired, policies, balances, audit, month, unseen>>

UpsertPolicy(h) ==
    /\ call[h].pc = "policy"
    /\ policies' = policies \cup {Tenant(h)}
    /\ Goto(h, "balanceRow")
    /\ UNCHANGED <<row, acquired, balances, audit, month, unseen>>

UpsertBalance(h) ==
    /\ call[h].pc = "balanceRow"
    /\ balances' = balances \cup {call[h].employee}
    /\ Goto(h, IF call[h].at <= call[h].through THEN "acquire" ELSE "aggregate")
    /\ UNCHANGED <<row, acquired, policies, audit, month, unseen>>

\* Mutant of NextMonth: a month is skipped.
NextMonthSkipped(h) == call[h].at + 2

\* The cursor of the sync loop after this turn.
NextMonth(h) == call[h].at + 1

\* One turn of the loop: upsert one month, move on.  The upsert writes what
\* the hire date, contracts and policy determine, so a rewrite is the same row.
AcquireMonth(h) ==
    /\ call[h].pc = "acquire"
    /\ acquired' = [acquired EXCEPT ![Tenant(h)][call[h].employee] = @ \cup {call[h].at}]
    /\ call' = [call EXCEPT ![h].at = NextMonth(h),
                            ![h].pc = IF NextMonth(h) <= call[h].through
                                        THEN "acquire" ELSE "auditSync"]
    /\ UNCHANGED <<row, policies, balances, audit, month, unseen>>

AuditSync(h) ==
    /\ call[h].pc = "auditSync"
    /\ audit' = audit \cup {[action |-> "synced", tenant |-> Tenant(h),
                             employee |-> call[h].employee, through |-> call[h].through]}
    /\ Goto(h, "aggregate")
    /\ UNCHANGED <<row, acquired, policies, balances, month, unseen>>

\* findUniqueOrThrow on the policy, then the aggregate over the acquisitions.
Aggregate(h) ==
    /\ call[h].pc = "aggregate"
    /\ IF Tenant(h) \in policies
         THEN call' = [call EXCEPT ![h].pc = "consumed",
                                   ![h].counted = acquired[Tenant(h)][call[h].employee]]
         ELSE Answer(h)                                               \* P2025
    /\ UNCHANGED <<row, acquired, policies, balances, audit, month, unseen>>

\* Mutant of Sufficient: what other requests consume is not deducted.
SufficientIgnoringConsumed(h) ==
    Tenths * CountWorkingDays(call[h].existing.start, call[h].existing.end)
        <= CarriedOver[call[h].employee] + Accrued(call[h].employee, call[h].counted)

\* workingDays <= snapshot.availablePaidDays, at the moment the approved
\* requests are read.  The request's own days are not excluded from them.
Sufficient(h) ==
    Tenths * CountWorkingDays(call[h].existing.start, call[h].existing.end)
        <= Available(Tenant(h), call[h].employee, call[h].counted)

\* findUniqueOrThrow on the balance row, the consumed days, and then, with
\* no await in between, the answer of GET or the comparison of approve.
ReadConsumed(h) ==
    /\ call[h].pc = "consumed"
    /\ IF call[h].op = "approve" /\ call[h].employee \in balances /\ Sufficient(h)
         THEN Goto(h, "update")
         ELSE Answer(h)                                 \* 200, 409 or P2025
    /\ UNCHANGED <<row, acquired, policies, balances, audit, month, unseen>>

\* The row update writes.
Approved(h) == [row[call[h].request] EXCEPT !.status = "APPROVED", !.approver = call[h].user]

\* update({id}): no condition on what the row is by now.  History: every
\* approval past its overlap check misses this one.
Update(h) ==
    /\ call[h].pc = "update"
    /\ row' = [row EXCEPT ![call[h].request] = Approved(h)]
    /\ unseen' = [unseen EXCEPT ![call[h].request] = @ \cup call[h].missed]
    /\ call' = [g \in Handlers |->
         IF g = h THEN [call[h] EXCEPT !.pc = "auditApprove"]
         ELSE IF call[g].op = "approve" /\ call[g].pc \in PastOverlapCheck
                THEN [call[g] EXCEPT !.missed = @ \cup {call[h].request}]
                ELSE call[g]]
    /\ UNCHANGED <<acquired, policies, balances, audit, month>>

AuditApprove(h) ==
    /\ call[h].pc = "auditApprove"
    /\ audit' = audit \cup {[action |-> "approve", request |-> call[h].request,
                             before |-> call[h].existing.status]}
    /\ Answer(h)
    /\ UNCHANGED <<row, acquired, policies, balances, month, unseen>>

\* The await rejects, or the process stops: the call is gone, the rows stay.
Fail(h) ==
    /\ Faults /\ call[h].pc # "idle"
    /\ Answer(h)
    /\ UNCHANGED <<row, acquired, policies, balances, audit, month, unseen>>

NewMonth ==
    /\ month < MaxMonth
    /\ month' = month + 1
    /\ UNCHANGED <<row, acquired, policies, balances, audit, call, unseen>>

\* What the handler's own code does next, once the call has arrived.
Step(h) ==
    \/ AuditCreate(h)
    \/ Load(h) \/ CheckOverlap(h)
    \/ FindEmployee(h) \/ UpsertPolicy(h) \/ UpsertBalance(h) \/ AcquireMonth(h)
    \/ AuditSync(h) \/ Aggregate(h) \/ ReadConsumed(h)
    \/ Update(h) \/ AuditApprove(h)

Init ==
    /\ row = [r \in Requests |-> Absent]
    /\ acquired = [t \in Tenants |-> [e \in Employees |-> {}]]
    /\ policies = {} /\ balances = {} /\ audit = {}
    /\ month = 1
    /\ call = [h \in Handlers |-> Idle]
    /\ unseen = [r \in Requests |-> {}]

Next ==
    \/ \E h \in Handlers : Create(h) \/ CallApprove(h) \/ CallBalance(h) \/ Step(h) \/ Fail(h)
    \/ NewMonth

Spec == Init /\ [][Next]_vars

----------------------------------------------------------------------------
\* Properties

TypeOK ==
    /\ row \in [Requests -> Row]
    /\ acquired \in [Tenants -> [Employees -> SUBSET Months]]
    /\ policies \subseteq Tenants
    /\ balances \subseteq Employees
    /\ audit \subseteq AuditRecord
    /\ month \in Months
    /\ call \in [Handlers -> Call]
    /\ unseen \in [Requests -> SUBSET Requests]

\* The acquisitions stored for an employee are the months from hire up to
\* some month, with no gap and none in the future, however many syncs
\* interleave and wherever they stop: syncPaidLeaveAcquisitionsThroughYearMonth.
AcquiredPrefix ==
    \A t \in Tenants, e \in Employees :
        \E k \in 0..month : acquired[t][e] = HireMonth[e]..k

\* The months a snapshot sums are all those up to the month the call read
\* (and perhaps later ones), whoever else is syncing: getBalanceSnapshotForEmployee.
SnapshotCoversMonths ==
    \A h \in Handlers : call[h].pc = "consumed" =>
        \E k \in call[h].through..month :
            call[h].counted = HireMonth[call[h].employee]..k

SameEmployee(r, s) == row[r].tenant = row[s].tenant /\ row[r].employee = row[s].employee

Clash(r, s) ==
    /\ r # s
    /\ row[r].status = "APPROVED" /\ row[s].status = "APPROVED"
    /\ SameEmployee(r, s)
    /\ Overlaps(row[r], row[s])

\* No two approved requests of an employee overlap: approve's first check.
NoOverlappingApprovals == \A r, s \in Requests : ~Clash(r, s)

\* The approval of one of them was past its check when the other was written.
Raced(r, s) == r \in unseen[s] \/ s \in unseen[r]

\* Two approved requests overlap only if their approvals were in flight at
\* the same time: no other sequence of calls and failures gets past approve's check.
OverlapOnlyByRace == \A r, s \in Requests : Clash(r, s) => Raced(r, s)

\* What the database says an employee has left.
Balance(t, e) == Available(t, e, acquired[t][e])

\* An employee has consumed more paid days than acquired only if two approvals
\* of paid requests of this employee were in flight at the same time: no other
\* sequence of calls and failures gets past approve's second check.
OverdraftOnlyByRace ==
    \A t \in Tenants, e \in Employees :
        EmployeeTenant[e] = t /\ Balance(t, e) < 0 =>
            \E r, s \in ConsumingRequests(t, e) : r # s /\ Raced(r, s)

\* The audit trail never says more than the tables: a recorded creation has
\* its row, a recorded approval an approved row, a recorded sync its months.
AuditTruthful ==
    \A a \in audit :
        /\ a.action = "create" => row[a.request].status # "ABSENT"
        /\ a.action = "approve" => row[a.request].status = "APPROVED"
        /\ a.action = "synced" =>
             HireMonth[a.employee]..a.through \subseteq acquired[a.tenant][a.employee]

\* A request is approved by a user of its tenant; if it is paid the employee
\* is of that tenant too; and only a tenant's own employees acquire days in it.
TenantIsolation ==
    /\ \A r \in Requests : row[r].status = "APPROVED" =>
         /\ UserTenant[row[r].approver] = row[r].tenant
         /\ row[r].paid => EmployeeTenant[row[r].employee] = row[r].tenant
    /\ \A t \in Tenants, e \in Employees :
         acquired[t][e] # {} => EmployeeTenant[e] = t

\* With one call at a time the module keeps the promise of LeaveDesk.
Desk == INSTANCE LeaveDesk
ImplementsDesk == Desk!Spec
=============================================================================
