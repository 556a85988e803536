----------------------------- MODULE LeaveDesk -----------------------------
(***************************************************************************)
(* What the leave module promises: requests are filed, and a request is    *)
(* approved in one indivisible step, only if no other approved request of  *)
(* the employee overlaps it and the days it debits are available by then.  *)
(***************************************************************************)
EXTENDS LeaveCalendar, FiniteSetsExt

CONSTANTS Tenants, Employees, Users, Requests, EmployeeTenant, UserTenant,
          Dtos, HireMonth, Credit, CarriedOver, MaxMonth, None

VARIABLES row, month

Missing == [tenant |-> None, employee |-> None, paid |-> FALSE, start |-> 0,
            end |-> 0, status |-> "ABSENT", approver |-> None]

OthersApproved(r) ==
    {o \in Requests \ {r} : /\ row[o].status = "APPROVED"
                            /\ row[o].tenant = row[r].tenant
                            /\ row[o].employee = row[r].employee}

Days == [r \in Requests |-> Tenths * CountWorkingDays(row[r].start, row[r].end)]

\* Everything acquired up to this month, less what the others consume.
Entitlement(r) ==
    CarriedOver[row[r].employee]
        + SumFunctionOnSet(Credit[row[r].employee], HireMonth[row[r].employee]..month)
        - SumFunctionOnSet(Days, {o \in OthersApproved(r) : row[o].paid})

File(u, d, r) ==
    /\ row[r] = Missing
    /\ d.start <= d.end
    /\ row' = [row EXCEPT ![r] =
         [tenant |-> UserTenant[u], employee |-> d.employee, paid |-> d.paid,
          start |-> d.start, end |-> d.end, status |-> "PENDING", approver |-> None]]
    /\ UNCHANGED month

Approve(u, r) ==
    /\ row[r] # Missing
    /\ row[r].tenant = UserTenant[u]
    /\ \A o \in OthersApproved(r) : ~Overlaps(row[o], row[r])
    /\ row[r].paid => /\ EmployeeTenant[row[r].employee] = row[r].tenant
                      /\ Days[r] <= Entitlement(r)
    /\ row' = [row EXCEPT ![r].status = "APPROVED", ![r].approver = u]
    /\ UNCHANGED month

MonthPasses ==
    /\ month < MaxMonth
    /\ month' = month + 1
    /\ UNCHANGED row

Init ==
    /\ row = [r \in Requests |-> Missing]
    /\ month = 1

Next ==
    \/ \E u \in Users, r \in Requests : Approve(u, r) \/ \E d \in Dtos : File(u, d, r)
    \/ MonthPasses

Spec == Init /\ [][Next]_<<row, month>>
=============================================================================
