----------------------- MODULE LeaveAcquisitionProofs -----------------------
(***************************************************************************)
(* Proofs about LeaveAcquisition for a month of any length, any contract   *)
(* periods, however many, and any rates: the sweep over the sorted periods *)
(* counts every eligible day once.  What the floating point makes of that   *)
(* number is left to TLC.                                                   *)
(***************************************************************************)
EXTENDS LeaveAcquisition, FiniteSetTheorems, TLAPS

\* A period that lies in the month and has days.
InMonth(p) == p \in Period /\ MonthStart <= p.start /\ p.start <= p.end /\ p.end <= MonthEnd

\* Between any two periods there is a free day.
Apart(periods) ==
    \A j, k \in DOMAIN periods : j < k => periods[j].end + 1 < periods[k].start

Window == employee.hire..LastDay

\* Between two steps of the merge loop: what MergeInvariant says, and that the
\* periods still to be read start no earlier than the current one.
MergeInv ==
    /\ i \in 2..Len(sorted) + 1 /\ Len(merged) + 1 < i
    /\ \A j, k \in DOMAIN sorted : j < k => sorted[j].start <= sorted[k].start
    /\ Covered(sorted) \cap Window = EligibleDays
    /\ Apart(merged)
    /\ \A k \in DOMAIN merged : InMonth(merged[k]) /\ merged[k].end + 1 < cur.start
    /\ Covered(merged) \cup (cur.start..cur.end) = Covered(SubSeq(sorted, 1, i - 1))
    /\ cur.start <= sorted[i - 1].start

\* Between two steps of the sum.
SumInv ==
    /\ i \in 1..Len(merged) + 1
    /\ Apart(merged)
    /\ \A k \in DOMAIN merged : InMonth(merged[k])
    /\ Covered(merged) \cap Window = EligibleDays
    /\ total = Cardinality(Covered(SubSeq(merged, 1, i - 1)) \cap Window)

Typed ==
    /\ employee \in Employee /\ Len(employee.contracts) <= MaxContracts
    /\ rate \in Rates
    /\ pc \in {"clip", "merge", "sum", "credit", "done"}
    /\ sorted \in Seq(Period) /\ Len(sorted) <= MaxContracts + 1
    /\ \A k \in DOMAIN sorted : InMonth(sorted[k])
    /\ merged \in Seq(Period) /\ Len(merged) <= Len(sorted)
    /\ InMonth(cur)
    /\ i \in 0..MaxContracts + 2

IInv ==
    /\ Typed
    /\ pc = "clip" => sorted = <<>> /\ merged = <<>>
    /\ pc \in {"clip", "merge"} => total = 0
    /\ pc = "merge" => MergeInv
    /\ pc = "sum" => SumInv
    /\ pc \in {"credit", "done"} => total = Cardinality(EligibleDays)
    /\ acquired = IF pc # "done" \/ total <= 0 THEN 0 ELSE Credit[rate][total]
\* A nonempty set of natural numbers has a least element.
LEMMA Least ==
    ASSUME NEW B \in SUBSET Nat, B # {}
    PROVE  \E n \in B : \A m \in B : n <= m
  <1>1. PICK b \in B : TRUE
    OBVIOUS
  <1> DEFINE S == 0..b
             F == {0..n : n \in B \cap S}
  <1>2. IsFiniteSet(S)
    BY FS_Interval
  <1>3. IsWellFoundedOn(StrictSubsetOrdering(S), SUBSET S)
    BY <1>2, FS_StrictSubsetOrderingWellFounded, FS_FiniteSubsetsOfFinite
  <1>4. F \subseteq SUBSET S /\ F # {}
    <2>1. 0..b \in F
      BY <1>1
    <2>2. ASSUME NEW n \in B \cap S PROVE 0..n \subseteq S
      OBVIOUS
    <2>3. QED
      BY <2>1, <2>2
  <1>5. PICK T \in F : \A U \in F : <<U, T>> \notin StrictSubsetOrdering(S)
    <2> HIDE DEF F, S
    <2> QED BY <1>3, <1>4, WFMin
  <1>6. PICK n \in B \cap S : T = 0..n
    OBVIOUS
  <1>7. ASSUME NEW m \in B, m < n PROVE FALSE
    <2>1. 0..m \in F /\ 0..m \subseteq T /\ 0..m # T
      BY <1>6, <1>7
    <2>2. <<0..m, T>> \in StrictSubsetOrdering(S)
      <3> HIDE DEF F, S
      <3> QED BY <1>4, <2>1 DEF StrictSubsetOrdering
    <2>3. QED
      BY <1>5, <2>1, <2>2
  <1>8. QED
    BY <1>6, <1>7

----------------------------------------------------------------------------
\* The end of employment

EndsUpTo(n) == {employee.contracts[k].end : k \in 1..n} \ {None}

LEMMA EmployeeDates ==
    ASSUME Typed
    PROVE  /\ employee.hire \in Nat /\ employee.updatedAt \in Days /\ employee.active \in BOOLEAN
           /\ employee.contracts \in Seq(Spans) /\ Len(employee.contracts) \in Nat
           /\ DOMAIN employee.contracts = 1..Len(employee.contracts)
           /\ \A k \in DOMAIN employee.contracts :
                /\ employee.contracts[k] \in Span /\ employee.contracts[k].start \in Nat
                /\ employee.contracts[k].end # None => employee.contracts[k].end \in Days
           /\ EndDates \subseteq Days
  <1>1. /\ employee.hire \in Days /\ employee.updatedAt \in Days /\ employee.active \in BOOLEAN
        /\ employee.contracts \in Seq(Spans)
    BY DEF Typed, Employee
  <1>2. \A k \in DOMAIN employee.contracts : employee.contracts[k] \in Span
    BY <1>1, SpansAssumption
  <1>3. \A k \in DOMAIN employee.contracts :
            /\ employee.contracts[k].start \in Nat
            /\ employee.contracts[k].end # None => employee.contracts[k].end \in Days
    BY <1>2, DaysAssumption DEF Span
  <1>4. EndDates \subseteq Days
    BY <1>3 DEF EndDates
  <1>5. Len(employee.contracts) \in Nat /\ DOMAIN employee.contracts = 1..Len(employee.contracts)
    BY <1>1
  <1>6. employee.hire \in Nat
    BY <1>1, DaysAssumption
  <1>7. QED
    BY <1>1, <1>2, <1>3, <1>4, <1>5, <1>6

\* resolveEmploymentLastInclusive takes the last of the ends of the contracts.
LEMMA EndDatesMax ==
    ASSUME Typed, EndDates # {}
    PROVE  \E d \in EndDates : \A e \in EndDates : d >= e
  <1> DEFINE Has(n) == EndsUpTo(n) = {} \/ \E d \in EndsUpTo(n) : \A e \in EndsUpTo(n) : d >= e
             Bad == {n \in 0..Len(employee.contracts) : ~Has(n)}
  <1>1. /\ Len(employee.contracts) \in Nat
        /\ DOMAIN employee.contracts = 1..Len(employee.contracts)
    BY EmployeeDates
  <1>2. \A k \in DOMAIN employee.contracts :
            employee.contracts[k].end # None => employee.contracts[k].end \in Nat
    BY EmployeeDates, DaysAssumption
  <1>3. EndDates = EndsUpTo(Len(employee.contracts))
    BY <1>1 DEF EndDates, EndsUpTo
  <1>4. CASE Bad = {}
    BY <1>1, <1>3, <1>4
  <1>5. CASE Bad # {}
    <2>1. PICK n \in Bad : \A m \in Bad : n <= m
      <3>1. Bad \in SUBSET Nat
        OBVIOUS
      <3> HIDE DEF Bad
      <3>2. QED
        BY <1>5, <3>1, Least
    <2>2. n # 0
      BY <2>1 DEF EndsUpTo
    <2>3. Has(n - 1)
      BY <1>1, <2>1, <2>2
    <2>4. EndsUpTo(n) = EndsUpTo(n - 1) \cup ({employee.contracts[n].end} \ {None})
      BY <1>1, <2>2 DEF EndsUpTo
    <2>5. EndsUpTo(n) \subseteq Nat
      BY <1>1, <1>2 DEF EndsUpTo
    <2>6. QED
      BY <2>1, <2>3, <2>4, <2>5
  <1>6. QED
    BY <1>4, <1>5

LEMMA LastDayIsLast ==
    ASSUME Typed
    PROVE  /\ LastDay \in Days
           /\ ~employee.active /\ EndDates # {} =>
                LastDay \in EndDates /\ \A e \in EndDates : LastDay >= e
  <1>1. CASE ~employee.active /\ EndDates # {}
    <2>1. LastDay \in EndDates /\ \A e \in EndDates : LastDay >= e
      BY <1>1, EndDatesMax DEF LastDay
    <2>2. EndDates \subseteq Days
      BY EmployeeDates
    <2>3. QED
      BY <2>1, <2>2
  <1>2. CASE employee.active \/ EndDates = {}
    BY <1>2, DaysAssumption DEF LastDay, Typed, Employee
  <1>3. QED
    BY <1>1, <1>2

\* A day is in the window when it lies between the hiring and the end.
LEMMA WindowDays ==
    ASSUME Typed, NEW d \in MonthStart..MonthEnd
    PROVE  d \in Window <=>
             /\ employee.hire <= d
             /\ employee.active
                  \/ IF EndDates = {} THEN d <= employee.updatedAt
                     ELSE \E e \in EndDates : d <= e
  <1>1. /\ employee.hire \in Nat /\ employee.updatedAt \in Nat /\ LastDay \in Nat /\ d \in Nat
        /\ MonthEnd \in Nat /\ employee.active \in BOOLEAN
    <2>1. employee.hire \in Nat /\ employee.updatedAt \in Days /\ employee.active \in BOOLEAN
      BY EmployeeDates
    <2>2. LastDay \in Days
      BY LastDayIsLast
    <2>3. Days \subseteq Nat /\ MonthStart \in Nat /\ MonthEnd \in Nat
      BY DaysAssumption
    <2>4. d \in Nat
      BY <2>3
    <2>5. employee.updatedAt \in Nat /\ LastDay \in Nat
      BY <2>1, <2>2, <2>3
    <2>6. QED
      BY <2>1, <2>3, <2>4, <2>5
  <1>2. CASE employee.active
    BY <1>1, <1>2 DEF Window, LastDay
  <1>3. CASE ~employee.active /\ EndDates = {}
    BY <1>1, <1>3 DEF Window, LastDay
  <1>4. CASE ~employee.active /\ EndDates # {}
    <2>1. EndDates \subseteq Nat
      BY EmployeeDates, DaysAssumption
    <2>2. d <= LastDay <=> \E e \in EndDates : d <= e
      BY <1>1, <1>4, <2>1, LastDayIsLast
    <2>3. QED
      BY <1>1, <1>4, <2>2 DEF Window
  <1>5. QED
    BY <1>1, <1>2, <1>3, <1>4

----------------------------------------------------------------------------
\* The sorted periods

LEMMA PeriodDates ==
    ASSUME Typed
    PROVE  /\ Len(Periods) \in 1..MaxContracts + 1 /\ DOMAIN Periods = 1..Len(Periods)
           /\ \A k \in DOMAIN Periods :
                /\ Periods[k].start \in Nat /\ Periods[k].start \in Days
                /\ Periods[k].end # None => Periods[k].end \in Nat /\ Periods[k].end \in Days
  <1>1. CASE employee.contracts = <<>>
    <2>1. Periods = <<[start |-> employee.hire, end |-> None]>>
      BY <1>1 DEF Periods
    <2>2. Len(Periods) = 1 /\ DOMAIN Periods = 1..1 /\ Periods[1] = [start |-> employee.hire, end |-> None]
      BY <2>1
    <2>3. employee.hire \in Days /\ employee.hire \in Nat
      BY DaysAssumption DEF Typed, Employee
    <2>4. QED
      BY <2>2, <2>3, SpansAssumption
  <1>2. CASE employee.contracts # <<>>
    <2>1. Periods = employee.contracts
      BY <1>2 DEF Periods
    <2>2. Len(employee.contracts) # 0
      BY <1>2, EmployeeDates
    <2>3. Len(employee.contracts) \in 1..MaxContracts + 1
      BY <2>2, EmployeeDates, SpansAssumption DEF Typed
    <2>4. \A k \in DOMAIN employee.contracts : employee.contracts[k].start \in Days
      BY EmployeeDates DEF Span
    <2>5. QED
      BY <2>1, <2>3, <2>4, EmployeeDates, DaysAssumption
  <1>3. QED
    BY <1>1, <1>2

\* A period is cut to the month.
LEMMA ClipInMonth ==
    ASSUME Typed, NEW k \in DOMAIN Periods
    PROVE  /\ Clip(Periods[k]) \in Period
           /\ Clip(Periods[k]).start \in Nat /\ Clip(Periods[k]).end \in Nat
           /\ k \in Kept => InMonth(Clip(Periods[k]))
           /\ \A d \in MonthStart..MonthEnd :
                d \in Clip(Periods[k]).start..Clip(Periods[k]).end <=>
                  Periods[k].start <= d /\ (Periods[k].end = None \/ d <= Periods[k].end)
  <1>1. /\ MonthStart \in Nat /\ MonthEnd \in Nat /\ MonthStart \in Days /\ MonthEnd \in Days
        /\ Periods[k].start \in Nat /\ Periods[k].start \in Days
        /\ Periods[k].end # None => Periods[k].end \in Nat /\ Periods[k].end \in Days
    BY DaysAssumption, PeriodDates
  <1>2. PICK from, to : from = Clip(Periods[k]).start /\ to = Clip(Periods[k]).end
    OBVIOUS
  <1>3. Clip(Periods[k]) = [start |-> from, end |-> to]
    BY <1>2 DEF Clip
  <1>4. /\ from = Larger(Periods[k].start, MonthStart)
        /\ to = IF Periods[k].end = None THEN MonthEnd ELSE Smaller(Periods[k].end, MonthEnd)
    BY <1>2 DEF Clip
  <1>5. /\ from \in Nat /\ from \in Days /\ from >= MonthStart
        /\ \A d \in MonthStart..MonthEnd : d >= from <=> d >= Periods[k].start
    BY <1>1, <1>4 DEF Larger
  <1>6. /\ to \in Nat /\ to \in Days /\ to <= MonthEnd
        /\ \A d \in MonthStart..MonthEnd :
             d <= to <=> Periods[k].end = None \/ d <= Periods[k].end
    <2>1. CASE Periods[k].end = None
      BY <1>1, <1>4, <2>1
    <2>2. CASE Periods[k].end # None
      BY <1>1, <1>4, <2>2 DEF Smaller
    <2>3. QED
      BY <2>1, <2>2
  <1>7. Clip(Periods[k]) \in Period
    BY <1>3, <1>5, <1>6 DEF Period
  <1>8. k \in Kept => InMonth(Clip(Periods[k]))
    BY <1>2, <1>5, <1>6, <1>7 DEF Kept, InMonth
  <1>9. \A d \in MonthStart..MonthEnd :
            d \in from..to <=>
              Periods[k].start <= d /\ (Periods[k].end = None \/ d <= Periods[k].end)
    BY <1>1, <1>5, <1>6
  <1>10. QED
    BY <1>2, <1>5, <1>6, <1>7, <1>8, <1>9

LEMMA KeptFinite ==
    ASSUME Typed
    PROVE  IsFiniteSet(Kept) /\ Cardinality(Kept) \in 0..MaxContracts + 1
  <1>1. Len(Periods) \in Int /\ 1 \in Int /\ DOMAIN Periods = 1..Len(Periods)
        /\ Len(Periods) <= MaxContracts + 1
    BY PeriodDates, SpansAssumption
  <1>2. IsFiniteSet(DOMAIN Periods) /\ Cardinality(DOMAIN Periods) = Len(Periods)
    BY <1>1, PeriodDates, FS_Interval
  <1>3. Kept \in SUBSET DOMAIN Periods
    BY DEF Kept
  <1>4. IsFiniteSet(Kept) /\ Cardinality(Kept) <= Len(Periods)
    BY <1>2, <1>3, FS_Subset
  <1>5. Cardinality(Kept) \in Nat
    BY <1>4, FS_CardinalityType
  <1>6. QED
    BY <1>1, <1>4, <1>5, SpansAssumption

\* Precedes is a strict total order.
LEMMA PrecedesOrders ==
    ASSUME Typed
    PROVE  /\ \A j \in Kept : ~Precedes(j, j)
           /\ \A j, k \in Kept : j # k => Precedes(j, k) \/ Precedes(k, j)
           /\ \A j, k, l \in Kept : Precedes(j, k) /\ Precedes(k, l) => Precedes(j, l)
  <1>1. \A k \in Kept : Clip(Periods[k]).start \in Nat /\ k \in Nat
    BY ClipInMonth, PeriodDates DEF Kept
  <1>2. QED
    BY <1>1 DEF Precedes

\* The number of kept periods that precede one is its place in the order.
LEMMA OrderExists ==
    ASSUME Typed
    PROVE  \E order \in [1..Cardinality(Kept) -> Kept] :
             \A q, r \in DOMAIN order : q < r => Precedes(order[q], order[r])
  <1> DEFINE n == Cardinality(Kept)
             Before(k) == {j \in Kept : Precedes(j, k)}
             rank == [k \in Kept |-> Cardinality(Before(k)) + 1]
             order == [r \in 1..n |-> CHOOSE k \in Kept : rank[k] = r]
  <1>1. IsFiniteSet(Kept) /\ n \in Nat
    BY KeptFinite
  <1>2. \A k \in Kept : IsFiniteSet(Before(k)) /\ Cardinality(Before(k)) \in Nat
    BY <1>1, FS_Subset, FS_CardinalityType
  <1>3. ASSUME NEW j \in Kept, NEW k \in Kept, Precedes(j, k)
        PROVE  Cardinality(Before(j)) < Cardinality(Before(k))
    <2>1. Before(j) \in SUBSET Before(k) /\ j \in Before(k) /\ j \notin Before(j)
      BY <1>3, PrecedesOrders
    <2>2. /\ Cardinality(Before(j)) <= Cardinality(Before(k))
          /\ Cardinality(Before(j)) # Cardinality(Before(k))
      <3> HIDE DEF Before
      <3> QED BY <1>2, <2>1, FS_Subset
    <2>3. QED
      BY <1>2, <2>2
  <1>4. ASSUME NEW k \in Kept
        PROVE  Cardinality(Before(k)) < n
    <2>1. Before(k) \in SUBSET Kept /\ k \notin Before(k)
      BY PrecedesOrders
    <2>2. Cardinality(Before(k)) <= n /\ Cardinality(Before(k)) # n
      <3> HIDE DEF Before
      <3> QED BY <1>1, <2>1, FS_Subset
    <2>3. QED
      BY <1>1, <1>2, <2>2
  <1> HIDE DEF Before
  <1>5. rank \in [Kept -> 1..n]
    BY <1>1, <1>2, <1>4
  <1>6. \A j, k \in Kept : Precedes(j, k) => rank[j] < rank[k]
    BY <1>2, <1>3
  <1> HIDE DEF rank
  <1>7. \A j, k \in Kept : rank[j] = rank[k] => j = k
    BY <1>5, <1>6, PrecedesOrders
  <1>8. rank \in Injection(Kept, 1..n)
    BY <1>5, <1>7 DEF Injection, IsInjective
  <1>9. IsFiniteSet(1..n) /\ Cardinality(1..n) = n
    BY <1>1, FS_Interval
  <1> HIDE DEF n
  <1>10. rank \in Surjection(Kept, 1..n)
    BY <1>8, <1>9, FS_Injection DEF n
  <1>11. \A r \in 1..n : \E k \in Kept : rank[k] = r
    BY <1>10 DEF Surjection
  <1>12. order \in [1..n -> Kept] /\ \A r \in 1..n : rank[order[r]] = r
    BY <1>11
  <1> HIDE DEF order
  <1>13. ASSUME NEW q \in 1..n, NEW r \in 1..n, q < r
         PROVE  Precedes(order[q], order[r])
    <2>1. order[q] # order[r] /\ ~(rank[order[r]] < rank[order[q]])
      BY <1>1, <1>12, <1>13 
    <2>2. QED
      BY <1>6, <1>12, <2>1, PrecedesOrders
  <1>14. QED
    BY <1>12, <1>13 DEF n

LEMMA InOrderSorts ==
    ASSUME Typed
    PROVE  /\ InOrder \in [1..Cardinality(Kept) -> Kept]
           /\ \A q, r \in DOMAIN InOrder : q < r => Precedes(InOrder[q], InOrder[r])
           /\ \A k \in Kept : \E r \in DOMAIN InOrder : InOrder[r] = k
  <1> DEFINE n == Cardinality(Kept)
  <1>1. /\ InOrder \in [1..n -> Kept]
        /\ \A q, r \in DOMAIN InOrder : q < r => Precedes(InOrder[q], InOrder[r])
    BY OrderExists DEF InOrder
  <1>2. IsFiniteSet(Kept) /\ n \in Nat
    BY KeptFinite
  <1>3. IsFiniteSet(1..n) /\ Cardinality(1..n) = n
    BY <1>2, FS_Interval
  <1>4. \A q, r \in 1..n : InOrder[q] = InOrder[r] => q = r
    BY <1>1, <1>2, PrecedesOrders
  <1>5. InOrder \in Injection(1..n, Kept)
    BY <1>1, <1>4 DEF Injection, IsInjective
  <1>6. InOrder \in Surjection(1..n, Kept)
    BY <1>2, <1>3, <1>5, FS_Injection
  <1>7. QED
    BY <1>1, <1>6 DEF Surjection

LEMMA SortedClipsSorted ==
    ASSUME Typed
    PROVE  /\ SortedClips \in Seq(Period) /\ Len(SortedClips) <= MaxContracts + 1
           /\ \A r \in DOMAIN SortedClips : InMonth(SortedClips[r])
           /\ \A q, r \in DOMAIN SortedClips : q < r => SortedClips[q].start <= SortedClips[r].start
  <1> DEFINE n == Cardinality(Kept)
  <1>1. n \in 0..MaxContracts + 1 /\ MaxContracts \in Nat
    BY KeptFinite, SpansAssumption
  <1>2. DOMAIN InOrder = 1..n /\ \A r \in 1..n : InOrder[r] \in Kept
    BY InOrderSorts
  <1>3. \A k \in Kept : InMonth(Clip(Periods[k])) /\ Clip(Periods[k]).start \in Nat
    BY ClipInMonth DEF Kept
  <1>4. \A r \in 1..n : SortedClips[r] = Clip(Periods[InOrder[r]])
    BY <1>2 DEF SortedClips
  <1>5. SortedClips \in [1..n -> Period]
    BY <1>2, <1>3 DEF SortedClips, InMonth
  <1>6. SortedClips \in Seq(Period) /\ Len(SortedClips) = n /\ DOMAIN SortedClips = 1..n
    BY <1>1, <1>5
  <1>7. \A q, r \in 1..n : q < r => SortedClips[q].start <= SortedClips[r].start
    BY <1>2, <1>3, <1>4, InOrderSorts DEF Precedes
  <1>8. QED
    BY <1>1, <1>2, <1>3, <1>4, <1>6, <1>7

\* The days that the clipped periods and the window share are the eligible ones.
LEMMA SortedClipsEligible ==
    ASSUME Typed
    PROVE  Covered(SortedClips) \cap Window = EligibleDays
  <1>1. DOMAIN InOrder = DOMAIN SortedClips
        /\ \A r \in DOMAIN InOrder : SortedClips[r] = Clip(Periods[InOrder[r]])
    BY DEF SortedClips
  <1>2. MonthStart \in Nat /\ MonthEnd \in Nat
    BY DaysAssumption
  <1>3. ASSUME NEW d
        PROVE  d \in Covered(SortedClips) <=>
                 /\ d \in MonthStart..MonthEnd
                 /\ \E k \in DOMAIN Periods :
                      Periods[k].start <= d /\ (Periods[k].end = None \/ d <= Periods[k].end)
    <2>1. d \in Covered(SortedClips) <=>
            \E r \in DOMAIN InOrder :
              d \in Clip(Periods[InOrder[r]]).start..Clip(Periods[InOrder[r]]).end
      BY <1>1 DEF Covered
    <2>2. d \in Covered(SortedClips) <=>
            \E k \in Kept : d \in Clip(Periods[k]).start..Clip(Periods[k]).end
      BY <2>1, InOrderSorts
    <2>3. ASSUME NEW k \in Kept, d \in Clip(Periods[k]).start..Clip(Periods[k]).end
          PROVE  d \in MonthStart..MonthEnd
      BY <2>3, <1>2, ClipInMonth DEF InMonth, Kept
    <2>4. ASSUME d \in MonthStart..MonthEnd, NEW k \in DOMAIN Periods,
                 Periods[k].start <= d /\ (Periods[k].end = None \/ d <= Periods[k].end)
          PROVE  k \in Kept
      <3>1. d \in Clip(Periods[k]).start..Clip(Periods[k]).end
        BY <2>4, ClipInMonth
      <3>2. QED
        BY <2>4, <3>1, <1>2, ClipInMonth DEF Kept
    <2>5. QED
      BY <2>2, <2>3, <2>4, ClipInMonth DEF Kept
  <1>4. ASSUME NEW d \in MonthStart..MonthEnd, d \in Window
        PROVE  (\E k \in DOMAIN Periods :
                  Periods[k].start <= d /\ (Periods[k].end = None \/ d <= Periods[k].end))
                <=> \/ employee.contracts = <<>>
                    \/ \E k \in DOMAIN employee.contracts :
                         LET s == employee.contracts[k]
                         IN  s.start <= d /\ (s.end = None \/ d <= s.end)
    <2>1. CASE employee.contracts = <<>>
      <3>1. Periods = <<[start |-> employee.hire, end |-> None]>>
        BY <2>1 DEF Periods
      <3>2. 1 \in DOMAIN Periods /\ Periods[1].start = employee.hire /\ Periods[1].end = None
        BY <3>1
      <3>3. employee.hire <= d
        BY <1>4, WindowDays
      <3>4. QED
        BY <2>1, <3>2, <3>3
    <2>2. CASE employee.contracts # <<>>
      BY <2>2 DEF Periods
    <2>3. QED
      BY <2>1, <2>2
  <1>5. ASSUME NEW d
        PROVE  d \in Covered(SortedClips) \cap Window <=> d \in EligibleDays
    <2>1. d \in EligibleDays <=>
            /\ d \in MonthStart..MonthEnd
            /\ d \in Window
            /\ \/ employee.contracts = <<>>
               \/ \E k \in DOMAIN employee.contracts :
                    LET s == employee.contracts[k]
                    IN  s.start <= d /\ (s.end = None \/ d <= s.end)
      BY WindowDays DEF EligibleDays
    <2>2. QED
      BY <1>3, <1>4, <2>1
  <1>6. QED
    BY <1>5

----------------------------------------------------------------------------
\* The steps

LEMMA CoveredPrefix ==
    ASSUME NEW s \in Seq(Period), NEW n \in 1..Len(s)
    PROVE  Covered(SubSeq(s, 1, n)) = Covered(SubSeq(s, 1, n - 1)) \cup (s[n].start..s[n].end)
  <1>1. /\ DOMAIN SubSeq(s, 1, n) = 1..n /\ DOMAIN SubSeq(s, 1, n - 1) = 1..n - 1
        /\ \A k \in 1..n : SubSeq(s, 1, n)[k] = s[k]
        /\ \A k \in 1..n - 1 : SubSeq(s, 1, n - 1)[k] = s[k]
    OBVIOUS
  <1>2. 1..n = (1..n - 1) \cup {n}
    OBVIOUS
  <1>3. QED
    BY <1>1, <1>2 DEF Covered

LEMMA CoveredEnds ==
    ASSUME NEW s \in Seq(Period)
    PROVE  /\ Covered(SubSeq(s, 1, 0)) = {}
           /\ Covered(SubSeq(s, 1, Len(s))) = Covered(s)
  <1>1. SubSeq(s, 1, 0) = <<>> /\ SubSeq(s, 1, Len(s)) = s
    OBVIOUS
  <1>2. Covered(<<>>) = {}
    BY DEF Covered
  <1>3. QED
    BY <1>1, <1>2

LEMMA CoveredAppend ==
    ASSUME NEW s \in Seq(Period), NEW p \in Period
    PROVE  Covered(Append(s, p)) = Covered(s) \cup (p.start..p.end)
  <1>1. PICK t : t = Append(s, p)
    OBVIOUS
  <1>2. /\ DOMAIN t = (DOMAIN s) \cup {Len(s) + 1}
        /\ \A k \in DOMAIN s : t[k] = s[k]
        /\ t[Len(s) + 1] = p
    BY <1>1
  <1>3. ASSUME NEW d
        PROVE  d \in Covered(t) <=> d \in Covered(s) \/ d \in p.start..p.end
    BY <1>2 DEF Covered
  <1>4. QED
    BY <1>1, <1>3

LEMMA PeriodNat ==
    ASSUME NEW p, InMonth(p)
    PROVE  /\ p \in Period /\ p.start \in Nat /\ p.end \in Nat /\ p = [start |-> p.start, end |-> p.end]
           /\ MonthStart <= p.start /\ p.start <= p.end /\ p.end <= MonthEnd
  BY DaysAssumption DEF InMonth, Period

LEMMA InitInvariant == Init => IInv
  <1> SUFFICES ASSUME Init PROVE IInv
    OBVIOUS
  <1>1. employee \in Employee /\ Len(employee.contracts) <= MaxContracts
    <2>1. PICK n \in 0..MaxContracts :
            employee \in [hire : Days, active : BOOLEAN, updatedAt : Days,
                          contracts : [1..n -> Spans]]
      BY DEF Init, SeqOf
    <2>2. employee.contracts \in [1..n -> Spans] /\ n \in Nat /\ n <= MaxContracts
      BY <2>1, SpansAssumption
    <2>3. employee.contracts \in Seq(Spans) /\ Len(employee.contracts) = n
      BY <2>2
    <2>4. QED
      BY <2>1, <2>2, <2>3 DEF Employee
  <1>2. InMonth(NoPeriod)
    BY DaysAssumption DEF InMonth, NoPeriod, Period
  <1>3. Typed
    BY <1>1, <1>2, SpansAssumption DEF Init, Typed
  <1>4. QED
    BY <1>3 DEF Init, IInv

LEMMA HiredLaterStep ==
    ASSUME IInv, HiredLater
    PROVE  IInv'
  <1>1. Typed' /\ total' = 0 /\ acquired' = 0 /\ pc' = "credit" /\ UNCHANGED employee
    BY DEF IInv, HiredLater, Typed
  <1>2. EligibleDays = {}
    <2>1. employee.hire \in Nat /\ MonthEnd \in Nat /\ employee.hire > MonthEnd
      BY EmployeeDates, DaysAssumption DEF IInv, HiredLater
    <2>2. QED
      BY <2>1, DaysAssumption DEF EligibleDays
  <1>3. EligibleDays' = EligibleDays
    BY <1>1 DEF EligibleDays, EndDates
  <1>4. QED
    BY <1>1, <1>2, <1>3, FS_EmptySet DEF IInv

LEMMA ClipContractsStep ==
    ASSUME IInv, ClipContracts
    PROVE  IInv'
  <1>1. /\ UNCHANGED <<employee, rate, merged, total, acquired>> /\ pc = "clip"
        /\ merged = <<>> /\ total = 0 /\ acquired = 0 /\ Typed
        /\ sorted' = SortedClips
    BY DEF IInv, ClipContracts
  <1>2. EligibleDays' = EligibleDays /\ Window' = Window
    BY <1>1 DEF EligibleDays, EndDates, Window, LastDay
  <1>3. /\ sorted' \in Seq(Period) /\ Len(sorted') <= MaxContracts + 1
        /\ \A r \in DOMAIN sorted' : InMonth(sorted'[r])
        /\ \A q, r \in DOMAIN sorted' : q < r => sorted'[q].start <= sorted'[r].start
        /\ Covered(sorted') \cap Window = EligibleDays
    BY <1>1, SortedClipsSorted, SortedClipsEligible
  <1>4. MaxContracts \in Nat /\ Len(sorted') \in Nat
    BY <1>3, SpansAssumption
  <1>5. CASE sorted' = <<>>
    <2>1. pc' = "sum" /\ i' = 1 /\ cur' = cur
      BY <1>5 DEF ClipContracts
    <2>2. Typed'
      BY <1>1, <1>3, <1>4, <2>1 DEF Typed, InMonth
    <2>3. EligibleDays = {} /\ Covered(<<>>) = {}
      BY <1>3, <1>5 DEF Covered
    <2>4. Covered(SubSeq(merged', 1, i' - 1)) = {}
      <3>1. merged' = <<>> /\ i' - 1 = 0 /\ SubSeq(<<>>, 1, 0) = <<>>
        BY <1>1, <2>1
      <3>2. QED
        BY <2>3, <3>1
    <2>5. SumInv'
      BY <1>1, <1>2, <2>1, <2>3, <2>4, FS_EmptySet DEF SumInv, Apart
    <2>6. QED
      BY <1>1, <2>1, <2>2, <2>5 DEF IInv
  <1>6. CASE sorted' # <<>>
    <2>1. pc' = "merge" /\ i' = 2 /\ cur' = sorted'[1]
      BY <1>6 DEF ClipContracts
    <2>2. Len(sorted') \in Nat \ {0} /\ 1 \in DOMAIN sorted' /\ 1 \in 1..Len(sorted')
      BY <1>3, <1>6
    <2>3. Typed'
      BY <1>1, <1>3, <1>4, <2>1, <2>2 DEF Typed, InMonth
    <2>4. InMonth(cur') /\ cur'.start \in Nat
      BY <1>3, <2>1, <2>2, PeriodNat
    <2>5. Covered(SubSeq(sorted', 1, i' - 1)) = cur'.start..cur'.end
      <3>1. Covered(SubSeq(sorted', 1, 1)) =
              Covered(SubSeq(sorted', 1, 1 - 1)) \cup (sorted'[1].start..sorted'[1].end)
        BY <1>3, <2>2, CoveredPrefix
      <3>2. Covered(SubSeq(sorted', 1, 0)) = {}
        BY <1>3, CoveredEnds
      <3>3. 1 - 1 = 0 /\ i' - 1 = 1
        BY <2>1
      <3>4. QED
        BY <2>1, <3>1, <3>2, <3>3
    <2>6. Covered(merged') = {}
      BY <1>1 DEF Covered
    <2>7. MergeInv'
      <3>1. /\ i' \in 2..Len(sorted') + 1 /\ Len(merged') + 1 < i' /\ i' - 1 = 1
            /\ DOMAIN merged' = {}
        BY <1>1, <2>1, <2>2
      <3>2. cur'.start <= sorted'[i' - 1].start
        BY <2>1, <2>4, <3>1
      <3>3. Covered(merged') \cup (cur'.start..cur'.end) = Covered(SubSeq(sorted', 1, i' - 1))
        BY <2>5, <2>6
      <3>4. QED
        BY <1>2, <1>3, <3>1, <3>2, <3>3 DEF MergeInv, Apart
    <2>8. QED
      BY <1>1, <2>1, <2>3, <2>7 DEF IInv
  <1>7. QED
    BY <1>5, <1>6

\* The period read next, beside the current one.
LEMMA NextPeriod ==
    ASSUME IInv, pc = "merge", i <= Len(sorted)
    PROVE  /\ Typed /\ MergeInv /\ i \in 1..Len(sorted) /\ i \in DOMAIN sorted
           /\ InMonth(sorted[i]) /\ InMonth(cur) /\ cur.start <= sorted[i].start
           /\ Covered(SubSeq(sorted, 1, i)) =
                Covered(merged) \cup (cur.start..cur.end) \cup (sorted[i].start..sorted[i].end)
  <1>1. Typed /\ MergeInv
    BY DEF IInv
  <1>2. i \in 1..Len(sorted) /\ i \in DOMAIN sorted /\ i - 1 \in DOMAIN sorted
    BY <1>1 DEF MergeInv, Typed
  <1>3. InMonth(sorted[i]) /\ InMonth(sorted[i - 1]) /\ InMonth(cur)
    BY <1>1, <1>2 DEF Typed
  <1>4. sorted[i - 1].start <= sorted[i].start /\ cur.start <= sorted[i - 1].start
    BY <1>1, <1>2 DEF MergeInv
  <1>5. cur.start <= sorted[i].start
    BY <1>3, <1>4, PeriodNat
  <1>6. Covered(SubSeq(sorted, 1, i)) =
          Covered(SubSeq(sorted, 1, i - 1)) \cup (sorted[i].start..sorted[i].end)
    BY <1>1, <1>2, CoveredPrefix DEF Typed
  <1>7. QED
    BY <1>1, <1>2, <1>3, <1>5, <1>6 DEF MergeInv

LEMMA ExtendStep ==
    ASSUME IInv, Extend
    PROVE  IInv'
  <1>1. /\ UNCHANGED <<employee, rate, pc, sorted, merged, total, acquired>> /\ pc = "merge"
        /\ i' = i + 1 /\ cur' = Joined(sorted[i]) /\ i <= Len(sorted) /\ Joins(sorted[i])
    BY DEF Extend
  <1>2. /\ Typed /\ MergeInv /\ i \in 1..Len(sorted) /\ i \in DOMAIN sorted
        /\ InMonth(sorted[i]) /\ InMonth(cur) /\ cur.start <= sorted[i].start
        /\ Covered(SubSeq(sorted, 1, i)) =
             Covered(merged) \cup (cur.start..cur.end) \cup (sorted[i].start..sorted[i].end)
    BY <1>1, NextPeriod
  <1>3. PICK a, b, c, d : a = cur.start /\ b = cur.end /\ c = sorted[i].start /\ d = sorted[i].end
    OBVIOUS
  <1>4. /\ a \in Nat /\ b \in Nat /\ c \in Nat /\ d \in Nat /\ a <= b /\ c <= d /\ a <= c
        /\ c <= b + 1 /\ cur = [start |-> a, end |-> b]
        /\ a \in Days /\ b \in Days /\ d \in Days /\ MonthStart <= a /\ b <= MonthEnd /\ d <= MonthEnd
    BY <1>1, <1>2, <1>3, PeriodNat DEF Joins, InMonth, Period
  <1>5. cur' = [start |-> a, end |-> Larger(d, b)]
    BY <1>1, <1>3, <1>4 DEF Joined
  <1>6. cur'.start = a /\ cur'.end = IF d >= b THEN d ELSE b
    BY <1>5 DEF Larger
  <1>7. InMonth(cur')
    BY <1>4, <1>5, <1>6, DaysAssumption DEF InMonth, Period
  <1>8. a..(IF d >= b THEN d ELSE b) = (a..b) \cup (c..d)
    BY <1>4
  <1>9. Covered(merged) \cup (cur'.start..cur'.end) = Covered(SubSeq(sorted, 1, i))
    BY <1>2, <1>3, <1>6, <1>8
  <1>10. i' \in 2..Len(sorted) + 1 /\ i' - 1 = i /\ Len(merged) + 1 < i' /\ i' <= MaxContracts + 2
    BY <1>1, <1>2, SpansAssumption DEF MergeInv, Typed
  <1>11. EligibleDays' = EligibleDays /\ Window' = Window
    BY <1>1 DEF EligibleDays, EndDates, Window, LastDay
  <1>12. MergeInv'
    BY <1>1, <1>2, <1>3, <1>6, <1>9, <1>10, <1>11 DEF MergeInv, Apart
  <1>13. Typed'
    BY <1>1, <1>2, <1>7, <1>10 DEF Typed, InMonth
  <1>14. QED
    BY <1>1, <1>12, <1>13 DEF IInv

LEMMA PushStep ==
    ASSUME IInv, Push
    PROVE  IInv'
  <1>1. /\ UNCHANGED <<employee, rate, pc, sorted, total, acquired>> /\ pc = "merge"
        /\ i' = i + 1 /\ cur' = sorted[i] /\ merged' = Append(merged, cur)
        /\ i <= Len(sorted) /\ ~Joins(sorted[i])
    BY DEF Push
  <1>2. /\ Typed /\ MergeInv /\ i \in 1..Len(sorted) /\ i \in DOMAIN sorted
        /\ InMonth(sorted[i]) /\ InMonth(cur) /\ cur.start <= sorted[i].start
        /\ Covered(SubSeq(sorted, 1, i)) =
             Covered(merged) \cup (cur.start..cur.end) \cup (sorted[i].start..sorted[i].end)
    BY <1>1, NextPeriod
  <1>3. cur.end + 1 < cur'.start
    BY <1>1, <1>2, PeriodNat DEF Joins
  <1>4. merged \in Seq(Period) /\ cur \in Period /\ Len(merged) \in Nat
    BY <1>2 DEF Typed, InMonth
  <1>5. /\ merged' \in Seq(Period) /\ Len(merged') = Len(merged) + 1
        /\ DOMAIN merged' = (DOMAIN merged) \cup {Len(merged) + 1}
        /\ \A k \in DOMAIN merged : merged'[k] = merged[k] /\ k <= Len(merged) /\ k \in Nat
        /\ merged'[Len(merged) + 1] = cur
    BY <1>1, <1>4
  <1>6. \A k \in DOMAIN merged : InMonth(merged[k]) /\ merged[k].end + 1 < cur.start
    BY <1>2 DEF MergeInv
  <1>7. \A k \in DOMAIN merged' : InMonth(merged'[k]) /\ merged'[k].end + 1 < cur'.start
    <2>1. ASSUME NEW k \in DOMAIN merged PROVE merged[k].end + 1 < cur'.start
      BY <1>1, <1>2, <1>6, PeriodNat
    <2>2. QED
      BY <1>2, <1>3, <1>5, <1>6, <2>1
  <1>8. Apart(merged')
    <2>1. ASSUME NEW j \in DOMAIN merged', NEW k \in DOMAIN merged', j < k
          PROVE  merged'[j].end + 1 < merged'[k].start
      <3>1. CASE k \in DOMAIN merged
        <4>1. j \in DOMAIN merged
          BY <1>4, <1>5, <2>1, <3>1
        <4>2. QED
          BY <1>2, <1>5, <2>1, <3>1, <4>1 DEF MergeInv, Apart
      <3>2. CASE k = Len(merged) + 1
        <4>1. j \in DOMAIN merged
          BY <1>4, <1>5, <2>1, <3>2
        <4>2. QED
          BY <1>5, <1>6, <3>2, <4>1
      <3>3. QED
        BY <1>5, <3>1, <3>2
    <2>2. QED
      BY <2>1 DEF Apart
  <1>9. Covered(merged') \cup (cur'.start..cur'.end) = Covered(SubSeq(sorted, 1, i))
    <2>1. Covered(merged') = Covered(merged) \cup (cur.start..cur.end)
      BY <1>1, <1>4, CoveredAppend
    <2>2. QED
      BY <1>1, <1>2, <2>1
  <1>10. /\ i' \in 2..Len(sorted) + 1 /\ i' - 1 = i /\ Len(merged') + 1 < i'
         /\ i' <= MaxContracts + 2 /\ Len(merged') <= Len(sorted)
    BY <1>1, <1>2, <1>4, <1>5, SpansAssumption DEF MergeInv, Typed
  <1>11. EligibleDays' = EligibleDays /\ Window' = Window
    BY <1>1 DEF EligibleDays, EndDates, Window, LastDay
  <1>12. InMonth(cur') /\ cur'.start <= sorted[i].start
    BY <1>1, <1>2, PeriodNat
  <1>13. MergeInv'
    BY <1>1, <1>2, <1>7, <1>8, <1>9, <1>10, <1>11, <1>12 DEF MergeInv, InMonth
  <1>14. Typed'
    BY <1>1, <1>2, <1>5, <1>10, <1>12 DEF Typed, InMonth
  <1>15. QED
    BY <1>1, <1>13, <1>14 DEF IInv

LEMMA PushLastStep ==
    ASSUME IInv, PushLast
    PROVE  IInv'
  <1>1. /\ UNCHANGED <<employee, rate, sorted, cur, total, acquired>> /\ pc = "merge" /\ total = 0
        /\ i' = 1 /\ pc' = "sum" /\ merged' = Append(merged, cur) /\ i > Len(sorted)
        /\ Typed /\ MergeInv
    BY DEF IInv, PushLast
  <1>2. merged \in Seq(Period) /\ cur \in Period /\ Len(merged) \in Nat /\ InMonth(cur)
    BY <1>1 DEF Typed, InMonth
  <1>3. /\ merged' \in Seq(Period) /\ Len(merged') = Len(merged) + 1
        /\ DOMAIN merged' = (DOMAIN merged) \cup {Len(merged) + 1}
        /\ \A k \in DOMAIN merged : merged'[k] = merged[k] /\ k <= Len(merged) /\ k \in Nat
        /\ merged'[Len(merged) + 1] = cur
    BY <1>1, <1>2
  <1>4. \A k \in DOMAIN merged : InMonth(merged[k]) /\ merged[k].end + 1 < cur.start
    BY <1>1 DEF MergeInv
  <1>5. \A k \in DOMAIN merged' : InMonth(merged'[k])
    BY <1>2, <1>3, <1>4
  <1>6. Apart(merged')
    <2>1. ASSUME NEW j \in DOMAIN merged', NEW k \in DOMAIN merged', j < k
          PROVE  merged'[j].end + 1 < merged'[k].start
      <3>1. CASE k \in DOMAIN merged
        <4>1. j \in DOMAIN merged
          BY <1>2, <1>3, <2>1, <3>1
        <4>2. QED
          BY <1>1, <1>3, <2>1, <3>1, <4>1 DEF MergeInv, Apart
      <3>2. CASE k = Len(merged) + 1
        <4>1. j \in DOMAIN merged
          BY <1>2, <1>3, <2>1, <3>2
        <4>2. QED
          BY <1>3, <1>4, <3>2, <4>1
      <3>3. QED
        BY <1>3, <3>1, <3>2
    <2>2. QED
      BY <2>1 DEF Apart
  <1>7. Covered(merged') = Covered(sorted)
    <2>1. Covered(merged') = Covered(merged) \cup (cur.start..cur.end)
      BY <1>1, <1>2, CoveredAppend
    <2>2. i - 1 = Len(sorted) /\ sorted \in Seq(Period)
      BY <1>1 DEF MergeInv, Typed
    <2>3. QED
      BY <1>1, <2>1, <2>2, CoveredEnds DEF MergeInv
  <1>8. EligibleDays' = EligibleDays /\ Window' = Window
    BY <1>1 DEF EligibleDays, EndDates, Window, LastDay
  <1>9. Covered(SubSeq(merged', 1, i' - 1)) = {}
    <2>1. Covered(SubSeq(merged', 1, 0)) = {}
      BY <1>3, CoveredEnds
    <2>2. i' - 1 = 0
      BY <1>1
    <2>3. QED
      BY <2>1, <2>2
  <1>10. i' \in 1..Len(merged') + 1 /\ Len(merged') <= Len(sorted) /\ i' <= MaxContracts + 2
    BY <1>1, <1>2, <1>3, SpansAssumption DEF MergeInv, Typed
  <1>11. SumInv'
    BY <1>1, <1>5, <1>6, <1>7, <1>8, <1>9, <1>10, FS_EmptySet DEF SumInv, MergeInv
  <1>12. Typed'
    BY <1>1, <1>3, <1>10, SpansAssumption DEF Typed, InMonth
  <1>13. QED
    BY <1>1, <1>11, <1>12 DEF IInv

LEMMA CardinalityOfUnion ==
    ASSUME NEW S, NEW T, IsFiniteSet(S), IsFiniteSet(T), S \cap T = {}
    PROVE  Cardinality(S \cup T) = Cardinality(S) + Cardinality(T)
  <1>1. Cardinality(S \cup T) = Cardinality(S) + Cardinality(T) - Cardinality(S \cap T)
    BY FS_Union
  <1>2. Cardinality(S) \in Nat /\ Cardinality(T) \in Nat
    BY FS_CardinalityType
  <1>3. Cardinality(S \cap T) = 0
    BY FS_EmptySet
  <1>4. QED
    BY <1>1, <1>2, <1>3

\* The window of a pushed period, and the days that the earlier ones have there.
LEMMA Sum1Step ==
    ASSUME IInv, Sum1
    PROVE  IInv'
  <1>1. /\ UNCHANGED <<employee, rate, pc, sorted, cur, merged, acquired>> /\ pc = "sum"
        /\ i' = i + 1 /\ i <= Len(merged)
        /\ Typed /\ SumInv
    BY DEF IInv, Sum1
  <1>2. /\ merged \in Seq(Period) /\ i \in 1..Len(merged) /\ i \in DOMAIN merged /\ i \in Nat
        /\ DOMAIN merged = 1..Len(merged) /\ InMonth(merged[i])
    BY <1>1 DEF Typed, SumInv
  <1>3. PICK a, b, h, l : a = merged[i].start /\ b = merged[i].end /\ h = employee.hire /\ l = LastDay
    OBVIOUS
  <1>4. a \in Nat /\ b \in Nat /\ h \in Nat /\ l \in Nat
    BY <1>1, <1>2, <1>3, PeriodNat, EmployeeDates, LastDayIsLast, DaysAssumption
  <1>5. PICK from, to : from = Larger(a, h) /\ to = Smaller(b, l)
    OBVIOUS
  <1>6. from \in Nat /\ to \in Nat /\ (a..b) \cap (h..l) = from..to
    BY <1>4, <1>5 DEF Larger, Smaller
  <1>7. total' = total + DaysOf(from, to)
    BY <1>3, <1>5 DEF Sum1
  <1>8. PICK read : read = Covered(SubSeq(merged, 1, i - 1))
    OBVIOUS
  <1>9. Covered(SubSeq(merged, 1, i)) = read \cup (a..b)
    BY <1>2, <1>3, <1>8, CoveredPrefix
  <1>10. \A d \in read : \E k \in 1..i - 1 : d \in merged[k].start..merged[k].end
    <2>1. PICK s : s = SubSeq(merged, 1, i - 1)
      OBVIOUS
    <2>2. DOMAIN s = 1..i - 1 /\ \A k \in 1..i - 1 : s[k] = merged[k]
      BY <1>2, <2>1
    <2>3. QED
      BY <1>8, <2>1, <2>2 DEF Covered
  <1>11. \A d \in read : d \in MonthStart..MonthEnd /\ d < a
    <2>1. ASSUME NEW k \in 1..i - 1, NEW d \in merged[k].start..merged[k].end
          PROVE  d \in MonthStart..MonthEnd /\ d < a
      <3>1. k \in DOMAIN merged /\ k < i
        BY <1>2
      <3>2. InMonth(merged[k]) /\ merged[k].end + 1 < a
        BY <1>1, <1>2, <1>3, <3>1 DEF SumInv, Apart
      <3>3. QED
        BY <1>4, <3>2, PeriodNat, DaysAssumption
    <2>2. QED
      BY <1>10, <2>1
  <1>12. IsFiniteSet(read \cap Window)
    <2>1. IsFiniteSet(MonthStart..MonthEnd)
      BY DaysAssumption, FS_Interval
    <2>2. read \cap Window \in SUBSET (MonthStart..MonthEnd)
      BY <1>11
    <2>3. QED
      BY <2>1, <2>2, FS_Subset
  <1>13. IsFiniteSet(from..to) /\ Cardinality(from..to) = DaysOf(from, to)
    <2>1. IsFiniteSet(from..to) /\ Cardinality(from..to) = IF from > to THEN 0 ELSE to - from + 1
      BY <1>6, FS_Interval
    <2>2. QED
      BY <1>6, <2>1 DEF DaysOf
  <1>14. (read \cap Window) \cap (from..to) = {}
    BY <1>4, <1>6, <1>11
  <1>15. Covered(SubSeq(merged, 1, i)) \cap Window = (read \cap Window) \cup (from..to)
    BY <1>3, <1>6, <1>9 DEF Window
  <1>16. total' = Cardinality(Covered(SubSeq(merged, 1, i)) \cap Window)
    <2>1. total = Cardinality(read \cap Window)
      BY <1>1, <1>8 DEF SumInv
    <2>2. QED
      BY <1>7, <1>12, <1>13, <1>14, <1>15, <2>1, CardinalityOfUnion
  <1>17. i' \in 1..Len(merged) + 1 /\ i' - 1 = i /\ i' \in 0..MaxContracts + 2
    BY <1>1, <1>2, SpansAssumption DEF Typed
  <1>18. EligibleDays' = EligibleDays /\ Window' = Window
    BY <1>1 DEF EligibleDays, EndDates, Window, LastDay
  <1>19. SumInv'
    BY <1>1, <1>16, <1>17, <1>18 DEF SumInv, Apart
  <1>20. Typed'
    BY <1>1, <1>17 DEF Typed, InMonth
  <1>21. QED
    BY <1>1, <1>19, <1>20 DEF IInv

LEMMA SumDoneStep ==
    ASSUME IInv, SumDone
    PROVE  IInv'
  <1>1. /\ UNCHANGED <<employee, rate, sorted, i, cur, merged, total, acquired>> /\ pc = "sum"
        /\ pc' = "credit" /\ i > Len(merged) /\ Typed /\ SumInv
    BY DEF IInv, SumDone
  <1>2. i - 1 = Len(merged) /\ merged \in Seq(Period)
    BY <1>1 DEF SumInv, Typed
  <1>3. total = Cardinality(EligibleDays)
    BY <1>1, <1>2, CoveredEnds DEF SumInv
  <1>4. EligibleDays' = EligibleDays
    BY <1>1 DEF EligibleDays, EndDates
  <1>5. Typed'
    BY <1>1 DEF Typed, InMonth
  <1>6. QED
    BY <1>1, <1>3, <1>4, <1>5 DEF IInv

LEMMA AcquireStep ==
    ASSUME IInv, Acquire
    PROVE  IInv'
  <1>1. /\ UNCHANGED <<employee, rate, sorted, i, cur, merged, total>> /\ pc = "credit" /\ pc' = "done"
        /\ Typed /\ total = Cardinality(EligibleDays)
        /\ acquired' = IF total <= 0 THEN 0 ELSE Credit[rate][total]
    BY DEF IInv, Acquire
  <1>2. EligibleDays' = EligibleDays
    BY <1>1 DEF EligibleDays, EndDates
  <1>3. Typed'
    BY <1>1 DEF Typed, InMonth
  <1>4. QED
    BY <1>1, <1>2, <1>3 DEF IInv

LEMMA InvariantStep == IInv /\ [Next]_vars => IInv'
  <1> SUFFICES ASSUME IInv, [Next]_vars PROVE IInv'
    OBVIOUS
  <1>1. CASE UNCHANGED vars
    <2>1. EligibleDays' = EligibleDays /\ Window' = Window
      BY <1>1 DEF vars, EligibleDays, EndDates, Window, LastDay
    <2>2. QED
      BY <1>1, <2>1 DEF vars, IInv, Typed, InMonth, MergeInv, SumInv, Apart
  <1>2. QED
    BY <1>1, HiredLaterStep, ClipContractsStep, ExtendStep, PushStep, PushLastStep,
       Sum1Step, SumDoneStep, AcquireStep DEF Next

----------------------------------------------------------------------------
\* The types

LEMMA EligibleAtMostMonth ==
    /\ IsFiniteSet(EligibleDays) /\ Cardinality(EligibleDays) \in 0..DaysInMonth
    /\ DaysInMonth \in Nat \ {0}
  <1>1. EligibleDays \in SUBSET (MonthStart..MonthEnd)
    BY DEF EligibleDays
  <1>2. /\ IsFiniteSet(MonthStart..MonthEnd) /\ DaysInMonth \in Nat \ {0}
        /\ Cardinality(MonthStart..MonthEnd) = DaysInMonth
    BY DaysAssumption, FS_Interval DEF DaysInMonth
  <1>3. IsFiniteSet(EligibleDays) /\ Cardinality(EligibleDays) <= DaysInMonth
    BY <1>1, <1>2, FS_Subset
  <1>4. QED
    BY <1>2, <1>3, FS_CardinalityType

\* A ceiling counts some of the numbers below its bound.
LEMMA CreditTyped ==
    ASSUME NEW r \in Rates, NEW n \in 1..DaysInMonth
    PROVE  Credit[r][n] \in 0..MaxTenths
  <1>1. PICK value : value = Rounded(Minus(Times(
            Times(Quotient(r, 100), Quotient(n, DaysInMonth)), Whole(10)), -52))
    OBVIOUS
  <1>2. Credit[r][n] = Ceil(value, MaxTenths)
    BY <1>1 DEF Credit, ceilAcquisitionToTenth
  <1> DEFINE Below == {k \in 0..MaxTenths - 1 : Less(Whole(k), value)}
  <1>3. Credit[r][n] = Cardinality(Below)
    BY <1>2 DEF Ceil
  <1>4. IsFiniteSet(0..MaxTenths - 1) /\ Cardinality(0..MaxTenths - 1) = MaxTenths
    <2>1. MaxTenths - 1 \in Int /\ MaxTenths - 1 >= 0 /\ (MaxTenths - 1) - 0 + 1 = MaxTenths
      BY DEF MaxTenths
    <2>2. QED
      BY <2>1, FS_Interval
  <1>5. IsFiniteSet(Below) /\ Cardinality(Below) <= MaxTenths
    BY <1>4, FS_Subset
  <1>6. Cardinality(Below) \in Nat
    BY <1>5, FS_CardinalityType
  <1>7. MaxTenths \in Nat
    BY DEF MaxTenths
  <1> HIDE DEF Below
  <1>8. QED
    BY <1>3, <1>5, <1>6, <1>7

LEMMA InvariantTypes ==
    ASSUME IInv
    PROVE  TypeOK
  <1>1. Typed
    BY DEF IInv
  <1>2. total \in 0..DaysInMonth
    <2>1. CASE pc \in {"clip", "merge"}
      BY <2>1, EligibleAtMostMonth DEF IInv
    <2>2. CASE pc = "sum"
      <3>1. merged \in Seq(Period) /\ SumInv
        BY <1>1, <2>2 DEF IInv, Typed
      <3>2. PICK read : read = SubSeq(merged, 1, i - 1)
        OBVIOUS
      <3>3. DOMAIN read \subseteq DOMAIN merged /\ \A k \in DOMAIN read : read[k] = merged[k]
        BY <3>1, <3>2 DEF SumInv
      <3>4. Covered(read) \subseteq Covered(merged)
        BY <3>3 DEF Covered
      <3>5. Covered(read) \cap Window \in SUBSET EligibleDays
        BY <3>1, <3>4 DEF SumInv
      <3>6. total = Cardinality(Covered(read) \cap Window)
        BY <3>1, <3>2 DEF SumInv
      <3>7. IsFiniteSet(Covered(read) \cap Window) /\ total <= Cardinality(EligibleDays)
        BY <3>5, <3>6, EligibleAtMostMonth, FS_Subset
      <3>8. total \in Nat
        BY <3>6, <3>7, FS_CardinalityType
      <3>9. QED
        BY <3>7, <3>8, EligibleAtMostMonth
    <2>3. CASE pc \in {"credit", "done"}
      BY <2>3, EligibleAtMostMonth DEF IInv
    <2>4. QED
      BY <1>1, <2>1, <2>2, <2>3 DEF Typed
  <1>3. acquired \in 0..MaxTenths
    <2>1. CASE pc = "done" /\ total > 0
      <3>1. acquired = Credit[rate][total] /\ rate \in Rates /\ total \in 1..DaysInMonth
        BY <1>1, <1>2, <2>1, EligibleAtMostMonth DEF IInv, Typed
      <3>2. QED
        BY <3>1, CreditTyped
    <2>2. CASE pc # "done" \/ total <= 0
      <3>1. acquired = 0
        BY <2>2 DEF IInv
      <3>2. QED
        BY <3>1 DEF MaxTenths
    <2>3. QED
      BY <1>2, <2>1, <2>2, EligibleAtMostMonth
  <1>4. QED
    BY <1>1, <1>2, <1>3 DEF TypeOK, Typed, InMonth

\* What the merge loop says of the periods one by one, said of their sequence.
LEMMA MergeInvariantHolds ==
    ASSUME IInv
    PROVE  MergeInvariant
  <1> SUFFICES ASSUME pc = "merge" PROVE MergeInvariant
    BY DEF MergeInvariant
  <1>1. MergeInv /\ merged \in Seq(Period) /\ cur \in Period /\ Len(merged) \in Nat
    BY DEF IInv, Typed, InMonth
  <1>2. PICK out : out = Append(merged, cur)
    OBVIOUS
  <1>3. Covered(out) = Covered(SubSeq(sorted, 1, i - 1))
    BY <1>1, <1>2, CoveredAppend DEF MergeInv
  <1>4. /\ DOMAIN merged = 1..Len(merged) /\ out[Len(merged) + 1] = cur
        /\ \A k \in 1..Len(merged) : out[k] = merged[k]
    BY <1>1, <1>2
  <1>5. ASSUME NEW k \in 1..Len(merged)
        PROVE  out[k].end + 1 < out[k + 1].start
    <2>1. CASE k = Len(merged)
      BY <1>1, <1>4, <2>1 DEF MergeInv
    <2>2. CASE k < Len(merged)
      <3>1. k + 1 \in 1..Len(merged) /\ k < k + 1
        BY <1>1, <2>2
      <3>2. QED
        BY <1>1, <1>4, <3>1 DEF MergeInv, Apart
    <2>3. QED
      BY <1>1, <2>1, <2>2
  <1>6. QED
    BY <1>2, <1>3, <1>5 DEF MergeInvariant

----------------------------------------------------------------------------
\* The theorems

\* Every step keeps its variables in their sets: in particular no more days
\* are counted than the month has.
THEOREM AcquisitionTyped == Spec => []TypeOK
  <1>1. IInv => TypeOK
    BY InvariantTypes
  <1>2. QED
    BY <1>1, InitInvariant, InvariantStep, PTL DEF Spec

\* Whatever the contracts, eligibleCalendarDaysInMonthBf counts each eligible
\* day once and no other, and mergeUtcIntervals keeps its loop invariant.
THEOREM SweepIsCorrect == Spec => []SweepCorrect
  <1>1. IInv => SweepCorrect
    BY MergeInvariantHolds DEF IInv, SweepCorrect, EligibleExact
  <1>2. QED
    BY <1>1, InitInvariant, InvariantStep, PTL DEF Spec
=============================================================================
