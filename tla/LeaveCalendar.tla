--------------------------- MODULE LeaveCalendar ---------------------------
(***************************************************************************)
(* The calendar the leave module counts in.  Time is cut in half days: the *)
(* DTO takes a date or a date-time, so two requests may start on one day   *)
(* at different instants.  Half day i belongs to day i \div 2, and days    *)
(* are numbered so that d % 7 is JavaScript's getUTCDay() (0 is Sunday).   *)
(***************************************************************************)
EXTENDS Integers, FiniteSets

HalvesPerDay == 2

\* Quantities of leave are in tenths of a day, the precision of the
\* database columns (Decimal(6,1)).
Tenths == 10

\* utcDayKey: the UTC day an instant falls in.
UtcDay(i) == i \div HalvesPerDay

\* Monday to Friday.
IsWorkingDay(d) == d % 7 \in 1..5

\* countWorkingDaysInclusiveUtc: the working days from the day of one
\* instant to the day of another, both included whatever the hour.
CountWorkingDays(from, to) ==
    Cardinality({d \in UtcDay(from)..UtcDay(to) : IsWorkingDay(d)})

\* The where clause of the overlap query: closed intervals of INSTANTS.
Overlaps(a, b) == a.start <= b.end /\ a.end >= b.start
=============================================================================
