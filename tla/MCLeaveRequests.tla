-------------------------- MODULE MCLeaveRequests --------------------------
(***************************************************************************)
(* Small instances of LeaveRequests.  Day 4 is a Thursday, 5 a Friday, 8   *)
(* the Monday after; instant 2 * d is the midnight that opens day d.       *)
(***************************************************************************)
EXTENDS LeaveInvariant, TLC

CONSTANTS t1, t2, e1, e2, u1, u2

\* e1 works for t1 and was hired in month 1, e2 for t2, hired in month 2.
MCEmployeeTenant == [e \in Employees |-> IF e = e2 THEN t2 ELSE t1]
MCUserTenant == [u \in Users |-> IF u = u2 THEN t2 ELSE t1]
MCHireMonth == [e \in Employees |-> IF e = e2 THEN 2 ELSE 1]
\* A full month credits two days and a half.
MCCredit == [e \in Employees |-> [m \in 1..MaxMonth |-> 25]]
MCCarriedOver == [e \in Employees |-> 0]

Ask(e, paid, from, to) == [employee |-> e, paid |-> paid, start |-> from, end |-> to]

\* Thursday and Friday, paid; Friday to Monday without pay, which meets the
\* first and the last in one instant; Monday and Tuesday, paid.
WeekEndDtos == {Ask(e1, TRUE, 8, 10), Ask(e1, FALSE, 10, 16), Ask(e1, TRUE, 16, 18)}

\* The working days 8..10 and 16..18 are two each, so both requests cost more
\* than one month credits, and two of one overlap.  One is for the other
\* tenant's employee; one ends before it starts.
TwoTenantDtos == {Ask(e1, TRUE, 8, 10), Ask(e1, TRUE, 16, 18),
                  Ask(e2, TRUE, 8, 8), Ask(e1, TRUE, 10, 8)}

Symmetry == Permutations(Handlers) \cup Permutations(Requests)
=============================================================================
