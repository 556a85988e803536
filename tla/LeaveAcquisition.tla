-------------------------- MODULE LeaveAcquisition --------------------------
(***************************************************************************)
(* The paid leave an employee acquires in one month: the function          *)
(* eligibleCalendarDaysInMonthBf, the merging of contract periods it rests *)
(* on, and the rounding of computeBfMonthlyAcquisition, as the sync loop   *)
(* of LeaveBalanceService calls them.  Days are utcDayKey divided by the   *)
(* length of a day.                                                        *)
(***************************************************************************)
EXTENDS Binary64, Integers, FiniteSetsExt, SequencesExt

CONSTANTS
    Days,           \* the days an employee's dates may fall on
    MonthStart, MonthEnd,
    Spans,          \* the contract periods: start, and end or None
    MaxContracts,   \* bound on the contracts of one employee
    Rates,          \* what acquisitionRatePerFullMonth may be, in hundredths of a day
    None            \* null

Period == [start : Days, end : Days]
Span == [start : Days, end : Days \cup {None}]

ASSUME DaysAssumption ==
    /\ Days \subseteq Nat /\ MonthStart \in Days /\ MonthEnd \in Days
    /\ MonthStart <= MonthEnd /\ None \notin Days
ASSUME SpansAssumption == Spans \subseteq Span /\ MaxContracts \in Nat
ASSUME RatesAssumption == Rates \subseteq 1..9999      \* DECIMAL(4,2)

VARIABLES
    employee,   \* hireDate, whether ACTIVE, updatedAt, contracts
    rate,       \* acquisitionRatePerFullMonth of the tenant's policy
    pc,
    sorted,     \* the clipped contract periods, by start
    i,          \* index of the merge loop, then of the sum
    cur,        \* the period the merge loop is extending
    merged,
    total,      \* eligible days so far
    acquired    \* acquiredDays, in tenths of a day

vars == <<employee, rate, pc, sorted, i, cur, merged, total, acquired>>

Employee == [hire : Days, active : BOOLEAN, updatedAt : Days, contracts : Seq(Spans)]
NoPeriod == [start |-> MonthStart, end |-> MonthStart]
DaysInMonth == MonthEnd - MonthStart + 1
MaxTenths == 1000       \* no rate credits more, in tenths of a day

Larger(a, b) == IF a >= b THEN a ELSE b
Smaller(a, b) == IF a <= b THEN a ELSE b

----------------------------------------------------------------------------
\* The last day of employment

EndDates == {employee.contracts[k].end : k \in DOMAIN employee.contracts} \ {None}

\* resolveEmploymentLastInclusive; an active employee has none, and then the
\* month's own end is used.
LastDay ==
    IF employee.active THEN MonthEnd
    ELSE IF EndDates # {} THEN CHOOSE d \in EndDates : \A e \in EndDates : d >= e
    ELSE employee.updatedAt

----------------------------------------------------------------------------
\* The periods of the contracts in the month

\* clipIntervalToMonth; an open end is the year 3999.
Clip(s) == [start |-> Larger(s.start, MonthStart),
            end |-> IF s.end = None THEN MonthEnd ELSE Smaller(s.end, MonthEnd)]

\* Without a contract the employment itself is the period.
Periods ==
    IF employee.contracts = <<>> THEN <<[start |-> employee.hire, end |-> None]>>
    ELSE employee.contracts

\* Those that have days in the month.
Kept == {k \in DOMAIN Periods : Clip(Periods[k]).start <= Clip(Periods[k]).end}

\* The comparison of sort by the starts; the sort is stable.
Precedes(j, k) ==
    \/ Clip(Periods[j]).start < Clip(Periods[k]).start
    \/ Clip(Periods[j]).start = Clip(Periods[k]).start /\ j < k

InOrder == CHOOSE order \in [1..Cardinality(Kept) -> Kept] :
    \A q, r \in DOMAIN order : q < r => Precedes(order[q], order[r])

SortedClips == [r \in DOMAIN InOrder |-> Clip(Periods[InOrder[r]])]

\* A month that ends before the hire date counts nothing.
HiredLater ==
    /\ pc = "clip" /\ employee.hire > MonthEnd
    /\ pc' = "credit"
    /\ UNCHANGED <<employee, rate, sorted, i, cur, merged, total, acquired>>

ClipContracts ==
    /\ pc = "clip" /\ employee.hire <= MonthEnd
    /\ sorted' = SortedClips
    /\ IF sorted' = <<>>
         THEN pc' = "sum" /\ i' = 1 /\ UNCHANGED cur
         ELSE pc' = "merge" /\ i' = 2 /\ cur' = sorted'[1]
    /\ UNCHANGED <<employee, rate, merged, total, acquired>>

----------------------------------------------------------------------------
\* mergeUtcIntervals

\* Mutant of Joined: the later period's end is taken, even if it is the earlier.
JoinedToNextEnd(next) == [cur EXCEPT !.end = next.end]

\* The next period overlaps the current one or starts the day after it.
Joins(next) == next.start <= cur.end + 1

Joined(next) == [cur EXCEPT !.end = Larger(next.end, cur.end)]

Extend ==
    /\ pc = "merge" /\ i <= Len(sorted) /\ Joins(sorted[i])
    /\ cur' = Joined(sorted[i])
    /\ i' = i + 1
    /\ UNCHANGED <<employee, rate, pc, sorted, merged, total, acquired>>

Push ==
    /\ pc = "merge" /\ i <= Len(sorted) /\ ~Joins(sorted[i])
    /\ merged' = Append(merged, cur)
    /\ cur' = sorted[i]
    /\ i' = i + 1
    /\ UNCHANGED <<employee, rate, pc, sorted, total, acquired>>

PushLast ==
    /\ pc = "merge" /\ i > Len(sorted)
    /\ merged' = Append(merged, cur)
    /\ pc' = "sum" /\ i' = 1
    /\ UNCHANGED <<employee, rate, sorted, cur, total, acquired>>

----------------------------------------------------------------------------
\* The sum over the employment window, and the credit

\* Mutant of DaysOf: without the test, an empty intersection counts negative.
DaysOfSigned(from, to) == to - from + 1

\* inclusiveCalendarDaysBetween.
DaysOf(from, to) == IF to < from THEN 0 ELSE to - from + 1

Sum1 ==
    /\ pc = "sum" /\ i <= Len(merged)
    /\ total' = total + DaysOf(Larger(merged[i].start, employee.hire),
                               Smaller(merged[i].end, LastDay))
    /\ i' = i + 1
    /\ UNCHANGED <<employee, rate, pc, sorted, cur, merged, acquired>>

SumDone ==
    /\ pc = "sum" /\ i > Len(merged)
    /\ pc' = "credit"
    /\ UNCHANGED <<employee, rate, sorted, i, cur, merged, total, acquired>>

\* Mutant of ceilAcquisitionToTenth: the epsilon is forgotten.
ceilExact(value) == Ceil(Times(value, Whole(10)), MaxTenths)

\* In tenths of a day: Math.ceil(value * 10 - Number.EPSILON).
ceilAcquisitionToTenth(value) ==
    Ceil(Rounded(Minus(Times(value, Whole(10)), -52)), MaxTenths)

\* computeBfMonthlyAcquisition, for n > 0 days: the decimal of the policy is
\* read as the nearest double and multiplied by n / daysInMonth.
Credit == [r \in Rates |-> [n \in 1..DaysInMonth |->
    ceilAcquisitionToTenth(Times(Quotient(r, 100), Quotient(n, DaysInMonth)))]]

Acquire ==
    /\ pc = "credit"
    /\ acquired' = IF total <= 0 THEN 0 ELSE Credit[rate][total]
    /\ pc' = "done"
    /\ UNCHANGED <<employee, rate, sorted, i, cur, merged, total>>

Init ==
    /\ employee \in [hire : Days, active : BOOLEAN, updatedAt : Days,
                     contracts : SeqOf(Spans, MaxContracts)]
    \* updatedAt is read only when nothing else says when employment ended.
    /\ (employee.active \/ EndDates # {}) => employee.updatedAt = MonthStart
    /\ rate \in Rates
    /\ pc = "clip"
    /\ sorted = <<>> /\ i = 0 /\ cur = NoPeriod /\ merged = <<>>
    /\ total = 0 /\ acquired = 0

Next ==
    \/ HiredLater \/ ClipContracts
    \/ Extend \/ Push \/ PushLast
    \/ Sum1 \/ SumDone \/ Acquire

Spec == Init /\ [][Next]_vars

----------------------------------------------------------------------------
\* Properties

TypeOK ==
    /\ employee \in Employee /\ rate \in Rates
    /\ pc \in {"clip", "merge", "sum", "credit", "done"}
    /\ sorted \in Seq(Period)
    /\ merged \in Seq(Period) /\ Len(merged) <= Len(sorted)
    /\ cur \in Period
    /\ i \in 0..MaxContracts + 2
    /\ total \in 0..DaysInMonth
    /\ acquired \in 0..MaxTenths

\* The days of a sequence of periods.
Covered(periods) == UNION {periods[k].start..periods[k].end : k \in DOMAIN periods}

\* The merge loop keeps the days: the periods pushed and the current one cover
\* exactly those read so far, in order, with a free day between any two, so
\* that no day is summed twice (mergeUtcIntervals).
MergeInvariant ==
    pc = "merge" =>
        LET out == Append(merged, cur)
        IN  /\ Covered(out) = Covered(SubSeq(sorted, 1, i - 1))
            /\ \A k \in 1..Len(merged) : out[k].end + 1 < out[k + 1].start

\* The days that ought to count: in the month, from the hire date to the last
\* day of employment, under a contract unless the employee has none.
EligibleDays ==
    {d \in MonthStart..MonthEnd :
        /\ employee.hire <= d
        /\ employee.active
             \/ IF EndDates = {} THEN d <= employee.updatedAt ELSE \E e \in EndDates : d <= e
        /\ employee.contracts = <<>>
             \/ \E k \in DOMAIN employee.contracts :
                  LET s == employee.contracts[k]
                  IN  s.start <= d /\ (s.end = None \/ d <= s.end)}

\* The sum is the number of those days, each counted once, however contracts
\* overlap, touch, nest, or end before they start.
EligibleExact == pc \in {"credit", "done"} => total = Cardinality(EligibleDays)

\* The sweep over the contracts is right while it runs and when it ends.
SweepCorrect == MergeInvariant /\ EligibleExact

DefaultRate == 250

\* The exact pro rata, rounded up to the tenth of a day.
ProRata == (rate * total + 10 * DaysInMonth - 1) \div (10 * DaysInMonth)

\* The floating point of computeBfMonthlyAcquisition never credits less than
\* the exact pro rata rounded up, and never more than one tenth above that;
\* at the default rate, for a whole month, and below half a day, where the
\* epsilon still reaches the last digit, it credits exactly that.
CreditRoundsUp ==
    pc = "done" =>
        /\ acquired \in ProRata..ProRata + 1
        /\ rate = DefaultRate \/ total = DaysInMonth \/ ProRata < 5 => acquired = ProRata
=============================================================================
