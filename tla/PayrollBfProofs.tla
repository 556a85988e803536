-------------------------- MODULE PayrollBfProofs --------------------------
(***************************************************************************)
(* Proofs about PayrollBf for any law whose versions succeed each other,   *)
(* any pay data and dates, and any number of calls beside the seed.  IInv  *)
(* says what a call has resolved at each await, and that the brackets of a *)
(* version are all there or none: the write the seed can be interrupted at *)
(* leaves a version that is refused.  Rows says what a call carries to the *)
(* tables.  The arithmetic of the slip goes bracket by bracket (the total  *)
(* after each, by the smallest one that would break it), and then bounds how *)
(* much each rounding, ceiling and rate moves when the pay data does.      *)
(***************************************************************************)
EXTENDS PayrollBf, FiniteSetTheorems, TLAPS

Covers(v, d) == Law[v].start <= d /\ (Law[v].end = None \/ Law[v].end > d)
FullSlip(in, v) == PaySlip(in, Law[v], Law[v].brackets)

AllBracketsOrNone ==
    /\ brackets = [v \in Versions |-> brackets[v]]
    /\ \A v \in Versions : brackets[v] \in {<<>>, Law[v].brackets}

\* What a call has resolved: the version of its date, and then the full slip.
Resolved(h) ==
    /\ "pc" \in DOMAIN call[h]
    /\ call[h].pc \in {"version", "brackets", "create"} => call[h].date \in Dates
    /\ call[h].pc \in {"brackets", "create"} =>
         call[h].version \in Versions /\ Covers(call[h].version, call[h].date)
    /\ call[h].pc = "create" => call[h].slip = FullSlip(call[h].input, call[h].version)

IInv ==
    /\ call = [h \in Handlers |-> call[h]]
    /\ versions \subseteq Versions
    /\ seed.at \in DOMAIN Order /\ seed = [pc |-> seed.pc, at |-> seed.at]
    /\ AllBracketsOrNone
    /\ \A h \in Handlers : Resolved(h)
    /\ StoredUnderItsLaw

\* The version that covers a date is the last one to start by then.
LEMMA CoveringIsLawAt ==
    ASSUME NEW v \in Versions, NEW d \in Dates, Covers(v, d)
    PROVE  v = LawAt(d)
  <1>1. d \in Nat /\ \A w \in Versions : Law[w].start \in Nat /\ Law[w].end \in Nat \cup {None}
    BY InputsAssumption, LawAssumption DEF LegalVersion
  <1>2. ASSUME NEW w \in Versions, Law[w].start <= d
        PROVE  Law[w].start <= Law[v].start
    BY <1>1, <1>2, SuccessionAssumption DEF Covers
  <1>3. ASSUME NEW w \in Versions, Law[w].start <= d,
               \A u \in Versions : Law[u].start <= d => Law[u].start <= Law[w].start
        PROVE  w = v
    <2>1. Law[v].start <= Law[w].start /\ Law[w].start <= Law[v].start
      BY <1>2, <1>3 DEF Covers
    <2>2. QED
      BY <1>1, <2>1, SuccessionAssumption
  <1>4. QED
    BY <1>2, <1>3 DEF LawAt, Covers

LEMMA SeedingIsAVersion ==
    ASSUME seed.at \in DOMAIN Order
    PROVE  Seeding \in Versions
  BY DEF Seeding, Versions

LEMMA InitInvariant == Init => IInv
  <1> SUFFICES ASSUME Init PROVE IInv
    OBVIOUS
  <1>1. seed.at \in DOMAIN Order
    BY SuccessionAssumption DEF Init
  <1>2. QED
    BY <1>1 DEF Init, IInv, AllBracketsOrNone, Resolved, StoredUnderItsLaw, Idle

\* The steps of a call change no table but its own.
LEMMA CallStep ==
    ASSUME IInv, NEW h \in Handlers, NEW c, call' = [call EXCEPT ![h] = c],
           UNCHANGED <<versions, brackets, seed>>, Resolved(h)', StoredUnderItsLaw'
    PROVE  IInv'
  <1>1. \A g \in Handlers \ {h} : call'[g] = call[g]
    BY DEF IInv
  <1>2. \A g \in Handlers : Resolved(g)'
    BY <1>1 DEF IInv, Resolved
  <1>3. call' = [g \in Handlers |-> call'[g]]
    BY DEF IInv
  <1>4. QED
    BY <1>2, <1>3 DEF IInv, AllBracketsOrNone

LEMMA FindVersionStep ==
    ASSUME IInv, NEW h \in Handlers, FindVersion(h)
    PROVE  IInv'
  <1>1. UNCHANGED <<versions, brackets, seed, stored>> /\ StoredUnderItsLaw'
    BY DEF IInv, FindVersion, StoredUnderItsLaw
  <1>2. CASE Answer(h)
    <2>1. /\ call' = [call EXCEPT ![h] = Idle]
          /\ call'[h].pc = "idle" /\ "pc" \in DOMAIN call'[h]
      BY <1>2 DEF IInv, Answer, Idle
    <2>2. QED
      BY <1>1, <2>1, CallStep DEF Resolved
  <1>3. ASSUME NEW v \in Versions, InForce(call[h].date) = {v},
               call' = [call EXCEPT ![h] =
                 [pc |-> "brackets", input |-> call[h].input, date |-> call[h].date,
                  version |-> v]]
        PROVE  IInv'
    <2>1. Covers(v, call[h].date) /\ call[h].date \in Dates
      BY <1>3 DEF InForce, Covers, IInv, Resolved, FindVersion
    <2>2. /\ call'[h].pc = "brackets" /\ "pc" \in DOMAIN call'[h]
          /\ call'[h].date = call[h].date /\ call'[h].version = v
      BY <1>3 DEF IInv
    <2>3. Resolved(h)'
      BY <2>1, <2>2 DEF Resolved, Covers
    <2>4. QED
      BY <1>1, <1>3, <2>3, CallStep
  <1>4. QED
    BY <1>2, <1>3 DEF FindVersion

LEMMA FindBracketsStep ==
    ASSUME IInv, NEW h \in Handlers, FindBrackets(h)
    PROVE  IInv'
  <1>1. UNCHANGED <<versions, brackets, seed, stored>> /\ StoredUnderItsLaw'
    BY DEF IInv, FindBrackets, StoredUnderItsLaw
  <1>2. CASE ~Payable(h)
    <2>1. /\ call' = [call EXCEPT ![h] = Idle]
          /\ call'[h].pc = "idle" /\ "pc" \in DOMAIN call'[h]
      BY <1>2 DEF IInv, FindBrackets, Answer, Idle
    <2>2. QED
      BY <1>1, <2>1, CallStep DEF Resolved
  <1>3. CASE Payable(h)
    <2>1. /\ call[h].version \in Versions /\ Covers(call[h].version, call[h].date)
          /\ call[h].date \in Dates
          /\ brackets[call[h].version] = Law[call[h].version].brackets
      BY <1>3 DEF IInv, Resolved, FindBrackets, Payable, AllBracketsOrNone
    <2>2. call' = [call EXCEPT ![h] =
            [pc |-> "create", input |-> call[h].input, date |-> call[h].date,
             version |-> call[h].version, slip |-> FullSlip(call[h].input, call[h].version)]]
      BY <1>3, <2>1 DEF FindBrackets, FullSlip
    <2>3. /\ call'[h].pc = "create" /\ "pc" \in DOMAIN call'[h] /\ call'[h].input = call[h].input
          /\ call'[h].date = call[h].date /\ call'[h].version = call[h].version
          /\ call'[h].slip = FullSlip(call[h].input, call[h].version)
      BY <2>2 DEF IInv
    <2>4. Resolved(h)'
      BY <2>1, <2>3 DEF Resolved
    <2>5. QED
      BY <1>1, <2>2, <2>4, CallStep
  <1>4. QED
    BY <1>2, <1>3

LEMMA CreateStep ==
    ASSUME IInv, NEW h \in Handlers, Create(h)
    PROVE  IInv'
  <1>1. /\ call[h].date \in Dates /\ call[h].version = LawAt(call[h].date)
        /\ call[h].slip = FullSlip(call[h].input, call[h].version)
    BY CoveringIsLawAt DEF IInv, Resolved, Create
  <1>2. /\ Simulation(h).slip = call[h].slip /\ Simulation(h).input = call[h].input
        /\ Simulation(h).date = call[h].date
    BY DEF Simulation
  <1>3. Simulation(h).slip = PaySlip(Simulation(h).input, Law[LawAt(Simulation(h).date)],
                                     Law[LawAt(Simulation(h).date)].brackets)
    BY <1>1, <1>2 DEF FullSlip
  <1>4. StoredUnderItsLaw'
    BY <1>3 DEF IInv, StoredUnderItsLaw, Create
  <1>5. call' = [call EXCEPT ![h] = [call[h] EXCEPT !.pc = "audit"]]
    BY DEF Create
  <1>6. Resolved(h)'
    BY <1>5 DEF IInv, Resolved
  <1>7. QED
    BY <1>4, <1>5, <1>6, CallStep DEF Create

\* The seed replaces the brackets of a version by none, then by all of them.
LEMMA SeedStep ==
    ASSUME IInv, RunSeed \/ UpsertVersion \/ DeleteBrackets \/ InsertBrackets \/ SeedFails
    PROVE  IInv'
  <1>1. UNCHANGED <<call, stored>> /\ Seeding \in Versions
    BY SeedingIsAVersion DEF IInv, RunSeed, UpsertVersion, DeleteBrackets, InsertBrackets, SeedFails
  <1>2. versions' \subseteq Versions
    BY <1>1 DEF IInv, RunSeed, UpsertVersion, DeleteBrackets, InsertBrackets, SeedFails
  <1>3. AllBracketsOrNone'
    <2>1. ASSUME NEW t \in {<<>>, Law[Seeding].brackets},
                 brackets' = [brackets EXCEPT ![Seeding] = t]
          PROVE  AllBracketsOrNone'
      BY <1>1, <2>1 DEF IInv, AllBracketsOrNone
    <2>2. QED
      BY <2>1 DEF IInv, AllBracketsOrNone, RunSeed, UpsertVersion, DeleteBrackets,
         InsertBrackets, SeedFails
  <1>4. seed'.at \in DOMAIN Order /\ seed' = [pc |-> seed'.pc, at |-> seed'.at]
    <2>1. CASE InsertBrackets
      BY <2>1, SuccessionAssumption DEF IInv, InsertBrackets
    <2>2. CASE SeedFails
      BY <2>2, SuccessionAssumption DEF SeedFails
    <2>3. CASE RunSeed \/ UpsertVersion \/ DeleteBrackets
      <3>1. PICK pc : seed' = [seed EXCEPT !.pc = pc]
        BY <2>3 DEF RunSeed, UpsertVersion, DeleteBrackets, SeedGoto
      <3>2. QED
        BY <3>1 DEF IInv
    <2>4. QED
      BY <2>1, <2>2, <2>3
  <1>5. (\A h \in Handlers : Resolved(h)') /\ StoredUnderItsLaw'
    BY <1>1 DEF IInv, Resolved, StoredUnderItsLaw
  <1>6. QED
    BY <1>1, <1>2, <1>3, <1>4, <1>5 DEF IInv

LEMMA InvariantStep == IInv /\ [Next]_vars => IInv'
  <1> SUFFICES ASSUME IInv, [Next]_vars PROVE IInv'
    OBVIOUS
  <1>1. ASSUME NEW h \in Handlers, CallSimulate(h) PROVE IInv'
    <2>1. PICK in \in Inputs, d \in Dates :
            call' = [call EXCEPT ![h] = [pc |-> "version", input |-> in, date |-> d]]
      BY <1>1 DEF CallSimulate
    <2>2. call'[h].pc = "version" /\ "pc" \in DOMAIN call'[h] /\ call'[h].date = d
      BY <2>1 DEF IInv
    <2>3. StoredUnderItsLaw' /\ UNCHANGED <<versions, brackets, seed>>
      BY <1>1 DEF CallSimulate, IInv, StoredUnderItsLaw
    <2>4. QED
      BY <2>1, <2>2, <2>3, CallStep DEF Resolved
  <1>2. ASSUME NEW h \in Handlers, Audit(h) \/ Fail(h) PROVE IInv'
    <2>1. /\ call' = [call EXCEPT ![h] = Idle]
          /\ call'[h].pc = "idle" /\ "pc" \in DOMAIN call'[h]
      BY <1>2 DEF IInv, Audit, Fail, Answer, Idle
    <2>2. StoredUnderItsLaw' /\ UNCHANGED <<versions, brackets, seed>>
      BY <1>2 DEF Audit, Fail, IInv, StoredUnderItsLaw
    <2>3. QED
      BY <2>1, <2>2, CallStep DEF Resolved
  <1>3. CASE UNCHANGED vars
    BY <1>3 DEF vars, IInv, AllBracketsOrNone, Resolved, StoredUnderItsLaw
  <1>4. QED
    BY <1>1, <1>2, <1>3, FindVersionStep, FindBracketsStep, CreateStep, SeedStep DEF Next

\* A stored simulation is the pay slip of the law of its date with all of its
\* brackets, whatever the seed has rewritten or left half written meanwhile.
THEOREM StoredSlipsAreLawful == Spec => []StoredUnderItsLaw
  <1>1. IInv => StoredUnderItsLaw
    BY DEF IInv
  <1>2. QED
    BY <1>1, InitInvariant, InvariantStep, PTL DEF Spec

----------------------------------------------------------------------------
\* One version for a date

\* A nonempty set of natural numbers has a least element.
LEMMA Least ==
    ASSUME NEW B \in SUBSET Nat, B # {}
    PROVE  \E n \in B : \A m \in B : n <= m
  <1>1. PICK b \in B : TRUE
    OBVIOUS
  <1> DEFINE S == 0..b
             F == {0..n : n \in B \cap S}
  <1>2. IsFiniteSet(S)
    BY FS_Interval
  <1>3. IsWellFoundedOn(StrictSubsetOrdering(S), SUBSET S)
    BY <1>2, FS_StrictSubsetOrderingWellFounded, FS_FiniteSubsetsOfFinite
  <1>4. F \subseteq SUBSET S /\ F # {}
    <2>1. 0..b \in F
      BY <1>1
    <2>2. ASSUME NEW n \in B \cap S PROVE 0..n \subseteq S
      OBVIOUS
    <2>3. QED
      BY <2>1, <2>2
  <1>5. PICK T \in F : \A U \in F : <<U, T>> \notin StrictSubsetOrdering(S)
    <2> HIDE DEF F, S
    <2> QED BY <1>3, <1>4, WFMin
  <1>6. PICK n \in B \cap S : T = 0..n
    OBVIOUS
  <1>7. ASSUME NEW m \in B, m < n PROVE FALSE
    <2>1. 0..m \in F /\ 0..m \subseteq T /\ 0..m # T
      BY <1>6, <1>7
    <2>2. <<0..m, T>> \in StrictSubsetOrdering(S)
      <3> HIDE DEF F, S
      <3> QED BY <1>4, <2>1 DEF StrictSubsetOrdering
    <2>3. QED
      BY <1>5, <2>1, <2>2
  <1>8. QED
    BY <1>6, <1>7

\* The version that has begun last covers the date: were it over, the one
\* that begins at its end would have begun later.
LEMMA SomeVersionCovers ==
    ASSUME NEW d \in Dates, \E v \in Versions : Law[v].start <= d
    PROVE  \E v \in Versions : Covers(v, d)
  <1>1. d \in Nat /\ \A v \in Versions : Law[v].start \in Nat /\ Law[v].end \in Nat \cup {None}
    BY InputsAssumption, LawAssumption DEF LegalVersion
  <1> DEFINE Begun == {v \in Versions : Law[v].start <= d}
             Ages == {d - Law[v].start : v \in Begun}
  <1>2. Ages \in SUBSET Nat /\ Ages # {}
    BY <1>1
  <1>3. PICK n \in Ages : \A m \in Ages : n <= m
    <2> HIDE DEF Ages
    <2> QED BY <1>2, Least
  <1>4. PICK v \in Begun : n = d - Law[v].start
    OBVIOUS
  <1>5. ASSUME NEW w \in Begun
        PROVE  Law[w].start <= Law[v].start
    <2>1. d - Law[w].start \in Ages
      OBVIOUS
    <2>2. d - Law[v].start <= d - Law[w].start
      BY <1>3, <1>4, <2>1
    <2>3. QED
      BY <1>1, <2>2
  <1>6. ASSUME Law[v].end # None, Law[v].end <= d PROVE FALSE
    <2>1. PICK w \in Versions : Law[w].start = Law[v].end /\ Law[v].start < Law[v].end
      BY <1>6, ContinuityAssumption
    <2>2. QED
      BY <1>1, <1>5, <1>6, <2>1
  <1>7. QED
    BY <1>1, <1>6 DEF Covers

LEMMA OneVersionCovers ==
    ASSUME versions = Versions, NEW d \in Dates, \E v \in Versions : Law[v].start <= d
    PROVE  Cardinality(InForce(d)) = 1
  <1>1. PICK v \in Versions : Covers(v, d)
    BY SomeVersionCovers
  <1>2. InForce(d) = {w \in Versions : Covers(w, d)}
    BY DEF InForce, Covers
  <1>3. \A w \in Versions : Covers(w, d) => w = v
    BY <1>1, CoveringIsLawAt
  <1>4. InForce(d) = {v}
    BY <1>1, <1>2, <1>3
  <1>5. QED
    BY <1>4, FS_Singleton

\* Once every version is written a date has exactly one in force, the days on
\* which one ends and the next begins included: simulate can resolve it.
THEOREM OneVersion == Spec => []OneVersionInForce
  <1>1. IInv => OneVersionInForce
    BY OneVersionCovers DEF OneVersionInForce
  <1>2. QED
    BY <1>1, InitInvariant, InvariantStep, PTL DEF Spec

----------------------------------------------------------------------------
\* The tax, bracket by bracket

\* A running total over the brackets, as computeProgressiveTax keeps it.
LEMMA RunningTotal ==
    ASSUME NEW n \in Nat, NEW t \in [1..n -> Int]
    PROVE  \E f : f = [k \in 0..n |-> IF k = 0 THEN 0 ELSE f[k - 1] + t[k]]
  <1> DEFINE Total(m, f) == f = [k \in 0..m |-> IF k = 0 THEN 0 ELSE f[k - 1] + t[k]]
             Bad == {m \in 0..n : ~\E f : Total(m, f)}
  <1>1. SUFFICES ASSUME Bad # {} PROVE FALSE
    <2>1. ASSUME Bad = {} PROVE \E f : Total(n, f)
      <3> HIDE DEF Total
      <3>1. n \in 0..n /\ n \notin Bad
        BY <2>1
      <3>2. QED
        BY <3>1
    <2>2. QED
      BY <2>1
  <1>2. PICK m \in Bad : \A l \in Bad : m <= l
    <2>1. Bad \in SUBSET Nat
      OBVIOUS
    <2> HIDE DEF Bad
    <2>2. QED
      BY <1>1, <2>1, Least
  <1>3. m # 0
    <2>1. ASSUME m = 0 PROVE FALSE
      <3> DEFINE z == [k \in 0..0 |-> 0]
      <3>1. Total(0, z)
        OBVIOUS
      <3>2. QED
        BY <1>2, <2>1, <3>1
    <2>2. QED
      BY <2>1
  <1>4. PICK f : Total(m - 1, f)
    <2>1. m - 1 \in 0..n /\ m - 1 \notin Bad
      <3> HIDE DEF Total
      <3> QED BY <1>2, <1>3
    <2>2. QED
      <3> HIDE DEF Total
      <3> QED BY <2>1
  <1> DEFINE g == [k \in 0..m |-> IF k = m THEN f[m - 1] + t[m] ELSE f[k]]
  <1>5. ASSUME NEW k \in 0..m
        PROVE  g[k] = IF k = 0 THEN 0 ELSE g[k - 1] + t[k]
    <2>1. CASE k = m
      BY <1>3, <2>1
    <2>2. CASE k # m /\ k = 0
      BY <1>3, <1>4, <2>2
    <2>3. CASE k # m /\ k # 0
      <3>1. k \in 0..m - 1 /\ k - 1 \in 0..m /\ k - 1 # m
        BY <2>3
      <3>2. f[k] = f[k - 1] + t[k]
        BY <1>4, <2>3, <3>1
      <3>3. QED
        BY <2>3, <3>1, <3>2
    <2>4. QED
      BY <2>1, <2>2, <2>3
  <1>6. Total(m, g)
    <2> DEFINE e == [k \in 0..m |-> IF k = 0 THEN 0 ELSE g[k - 1] + t[k]]
    <2>1. DOMAIN g = 0..m /\ DOMAIN e = 0..m /\ \A k \in 0..m : g[k] = e[k]
      BY <1>5
    <2>2. g = e
      BY <2>1
    <2>3. QED
      BY <2>2
  <1>7. QED
    BY <1>2, <1>6

LEMMA TaxSum ==
    ASSUME NEW base \in Nat, NEW t \in Seq(Bracket)
    PROVE  \E f : /\ f[0] = 0
                  /\ \A k \in 1..Len(t) :
                       f[k] = f[k - 1] + InBracket(base, t[k]) * t[k].rate
                  /\ ProgressiveTax(base, t) = f[Len(t)]
  <1> DEFINE n == Len(t)
             part == [k \in 1..n |-> InBracket(base, t[k]) * t[k].rate]
             Sums(f) == f = [k \in 0..n |->
                               IF k = 0 THEN 0 ELSE f[k - 1] + InBracket(base, t[k]) * t[k].rate]
             f == CHOOSE g : Sums(g)
  <1>1. n \in Nat /\ DOMAIN t = 1..n /\ \A k \in 1..n : t[k] \in Bracket
    OBVIOUS
  <1>2. part \in [1..n -> Int]
    <2>1. ASSUME NEW b \in Bracket PROVE InBracket(base, b) \in Int /\ b.rate \in Int
      BY NoneAssumption DEF Bracket, InBracket, AtLeast, AtMost
    <2>2. \A k \in 1..n : InBracket(base, t[k]) * t[k].rate \in Int
      BY <1>1, <2>1
    <2>3. QED
      BY <2>2
  <1>3. PICK g : g = [k \in 0..n |-> IF k = 0 THEN 0 ELSE g[k - 1] + part[k]]
    <2> HIDE DEF part, n
    <2> QED BY <1>1, <1>2, RunningTotal
  <1>4. Sums(g)
    <2>1. \A k \in 0..n : k # 0 => part[k] = InBracket(base, t[k]) * t[k].rate
      BY <1>1
    <2> DEFINE e == [k \in 0..n |->
                       IF k = 0 THEN 0 ELSE g[k - 1] + InBracket(base, t[k]) * t[k].rate]
    <2> HIDE DEF part
    <2>2. \A k \in 0..n : g[k] = e[k]
      BY <1>3, <2>1
    <2>3. DOMAIN g = 0..n /\ g = [k \in 0..n |-> g[k]]
      BY <1>3
    <2>4. g = e
      BY <2>2, <2>3
    <2>5. QED
      BY <2>4
  <1>5. Sums(f)
    <2> HIDE DEF Sums
    <2> QED BY <1>4
  <1>6. ProgressiveTax(base, t) = f[n]
    BY DEF ProgressiveTax
  <1>7. f[0] = 0 /\ \A k \in 1..n : f[k] = f[k - 1] + InBracket(base, t[k]) * t[k].rate
    <2>1. PICK h : h = f
      OBVIOUS
    <2>2. h = [k \in 0..n |->
                 IF k = 0 THEN 0 ELSE h[k - 1] + InBracket(base, t[k]) * t[k].rate]
      <3> HIDE DEF f
      <3> QED BY <1>5, <2>1
    <2> HIDE DEF f
    <2>3. h[0] = 0 /\ \A k \in 1..n : h[k] = h[k - 1] + InBracket(base, t[k]) * t[k].rate
      BY <1>1, <2>2
    <2>4. QED
      BY <2>1, <2>3
  <1>8. QED
    <2> HIDE DEF f
    <2> QED BY <1>6, <1>7

LEMMA MarginalSum ==
    ASSUME NEW base \in Nat, NEW t \in Seq(Bracket)
    PROVE  \E f : /\ f[0] = 0
                  /\ \A k \in 1..Len(t) :
                       f[k] = f[k - 1] + Increment(k, t) * AtLeast(0, base - t[k].lower)
                  /\ MarginalTax(base, t) = f[Len(t)]
  <1> DEFINE n == Len(t)
             part == [k \in 1..n |-> Increment(k, t) * AtLeast(0, base - t[k].lower)]
             Sums(f) == f = [k \in 0..n |->
                               IF k = 0 THEN 0 ELSE f[k - 1] + Increment(k, t) * AtLeast(0, base - t[k].lower)]
             f == CHOOSE g : Sums(g)
  <1>1. n \in Nat /\ DOMAIN t = 1..n /\ \A k \in 1..n : t[k] \in Bracket
    OBVIOUS
  <1>2. part \in [1..n -> Int]
    <2>1. \A k \in 1..n : t[k].lower \in Int /\ t[k].rate \in Int
      BY <1>1 DEF Bracket
    <2>2. ASSUME NEW k \in 1..n
          PROVE  Increment(k, t) * AtLeast(0, base - t[k].lower) \in Int
      <3>1. k = 1 \/ k - 1 \in 1..n
        BY <1>1
      <3>2. Increment(k, t) \in Int /\ AtLeast(0, base - t[k].lower) \in Int
        BY <2>1, <3>1 DEF Increment, AtLeast
      <3>3. QED
        BY <3>2
    <2>3. QED
      BY <2>2
  <1>3. PICK g : g = [k \in 0..n |-> IF k = 0 THEN 0 ELSE g[k - 1] + part[k]]
    <2> HIDE DEF part, n
    <2> QED BY <1>1, <1>2, RunningTotal
  <1>4. Sums(g)
    <2>1. \A k \in 0..n : k # 0 => part[k] = Increment(k, t) * AtLeast(0, base - t[k].lower)
      BY <1>1
    <2> DEFINE e == [k \in 0..n |->
                       IF k = 0 THEN 0 ELSE g[k - 1] + Increment(k, t) * AtLeast(0, base - t[k].lower)]
    <2> HIDE DEF part
    <2>2. \A k \in 0..n : g[k] = e[k]
      BY <1>3, <2>1
    <2>3. DOMAIN g = 0..n /\ g = [k \in 0..n |-> g[k]]
      BY <1>3
    <2>4. g = e
      BY <2>2, <2>3
    <2>5. QED
      BY <2>4
  <1>5. Sums(f)
    <2> HIDE DEF Sums
    <2> QED BY <1>4
  <1>6. MarginalTax(base, t) = f[n]
    BY DEF MarginalTax
  <1>7. f[0] = 0 /\ \A k \in 1..n : f[k] = f[k - 1] + Increment(k, t) * AtLeast(0, base - t[k].lower)
    <2>1. PICK h : h = f
      OBVIOUS
    <2>2. h = [k \in 0..n |->
                 IF k = 0 THEN 0 ELSE h[k - 1] + Increment(k, t) * AtLeast(0, base - t[k].lower)]
      <3> HIDE DEF f
      <3> QED BY <1>5, <2>1
    <2> HIDE DEF f
    <2>3. h[0] = 0 /\ \A k \in 1..n : h[k] = h[k - 1] + Increment(k, t) * AtLeast(0, base - t[k].lower)
      BY <1>1, <2>2
    <2>4. QED
      BY <2>1, <2>3
  <1>8. QED
    <2> HIDE DEF f
    <2> QED BY <1>6, <1>7

Contiguous(t) ==
    /\ t \in Seq(Bracket) /\ t # <<>> /\ t[Len(t)].upper = None
    /\ \A k \in 1..Len(t) - 1 : /\ t[k].upper # None /\ t[k].lower <= t[k].upper
                                /\ t[k + 1].lower = t[k].upper

\* The part of a base above the first n brackets.
Rest(base, t, n) ==
    IF n = 0 THEN AtLeast(0, base - t[1].lower)
    ELSE IF t[n].upper = None THEN 0 ELSE AtLeast(0, base - t[n].upper)

LEMMA BracketFacts ==
    ASSUME NEW t, Contiguous(t)
    PROVE  /\ t \in Seq(Bracket) /\ Len(t) \in Nat \ {0} /\ DOMAIN t = 1..Len(t)
           /\ \A k \in 1..Len(t) : /\ t[k].lower \in Nat /\ t[k].rate \in Nat
                                   /\ t[k].upper # None => t[k].upper \in Nat
                                   /\ t[k].upper # None => t[k].lower <= t[k].upper
                                   /\ k # Len(t) => t[k].upper # None
                                   /\ k # Len(t) => t[k + 1].lower = t[k].upper
           /\ t[Len(t)].upper = None
  <1>1. t \in Seq(Bracket) /\ Len(t) \in Nat \ {0} /\ DOMAIN t = 1..Len(t) /\ t[Len(t)].upper = None
    BY DEF Contiguous
  <1>2. ASSUME NEW k \in 1..Len(t)
        PROVE  /\ t[k].lower \in Nat /\ t[k].rate \in Nat
               /\ t[k].upper # None => t[k].upper \in Nat
    <2>1. t[k] \in Bracket
      BY <1>1
    <2>2. QED
      BY <2>1 DEF Bracket
  <1>3. ASSUME NEW k \in 1..Len(t), k # Len(t)
        PROVE  t[k].upper # None /\ t[k].lower <= t[k].upper /\ t[k + 1].lower = t[k].upper
    <2>1. k \in 1..Len(t) - 1
      <3>1. Len(t) \in Nat
        BY <1>1
      <3>2. QED
        BY <1>3, <3>1
    <2>2. QED
      BY <2>1 DEF Contiguous
  <1>4. QED
    BY <1>1, <1>2, <1>3

\* A bracket takes its part of what is left above the ones below it.
LEMMA SplitBracket ==
    ASSUME NEW t, Contiguous(t), NEW base \in Nat, NEW n \in 1..Len(t)
    PROVE  /\ InBracket(base, t[n]) \in Nat /\ Rest(base, t, n) \in Nat /\ Rest(base, t, n - 1) \in Nat
           /\ Rest(base, t, n - 1) = AtLeast(0, base - t[n].lower)
           /\ InBracket(base, t[n]) + Rest(base, t, n) = Rest(base, t, n - 1)
  <1>1. PICK lower, upper : lower = t[n].lower /\ upper = t[n].upper
    OBVIOUS
  <1>2. lower \in Nat /\ (upper # None => upper \in Nat /\ lower <= upper)
    BY <1>1, BracketFacts
  <1>3. Rest(base, t, n - 1) = AtLeast(0, base - lower)
    <2>1. CASE n = 1
      BY <1>1, <2>1 DEF Rest
    <2>2. CASE n # 1
      <3>1. n - 1 \in 1..Len(t) /\ n - 1 # Len(t) /\ (n - 1) + 1 = n /\ n - 1 # 0
        BY <2>2, BracketFacts
      <3>2. t[n - 1].upper # None /\ t[n].lower = t[n - 1].upper
        BY <3>1, BracketFacts
      <3>3. QED
        BY <1>1, <3>1, <3>2 DEF Rest
    <2>3. QED
      BY <2>1, <2>2
  <1>4. Rest(base, t, n) = IF upper = None THEN 0 ELSE AtLeast(0, base - upper)
    BY <1>1, BracketFacts DEF Rest
  <1>5. InBracket(base, t[n]) =
          AtLeast(0, (IF upper = None THEN base ELSE AtMost(base, upper)) - lower)
    BY <1>1 DEF InBracket
  <1>6. CASE upper = None
    BY <1>1, <1>2, <1>3, <1>4, <1>5, <1>6 DEF AtLeast
  <1>7. CASE upper # None
    <2>1. upper \in Nat /\ lower <= upper
      BY <1>2, <1>7
    <2>2. /\ Rest(base, t, n) = IF 0 >= base - upper THEN 0 ELSE base - upper
          /\ Rest(base, t, n - 1) = IF 0 >= base - lower THEN 0 ELSE base - lower
          /\ InBracket(base, t[n]) = IF 0 >= (IF base <= upper THEN base ELSE upper) - lower THEN 0
                                     ELSE (IF base <= upper THEN base ELSE upper) - lower
      BY <1>3, <1>4, <1>5, <1>7 DEF AtLeast, AtMost
    <2>3. PICK p, r, a : /\ p = InBracket(base, t[n]) /\ r = Rest(base, t, n)
                         /\ a = Rest(base, t, n - 1)
      OBVIOUS
    <2>4. p \in Nat /\ r \in Nat /\ a \in Nat /\ p + r = a
      BY <1>2, <2>1, <2>2, <2>3
    <2>5. QED
      BY <1>1, <1>3, <2>3, <2>4
  <1>8. QED
    BY <1>6, <1>7

LEMMA Distribute ==
    ASSUME NEW x \in Int, NEW y \in Int, NEW r \in Int
    PROVE  (x + y) * r = x * r + y * r /\ (x - y) * r = x * r - y * r
  OBVIOUS

LEMMA Product ==
    ASSUME NEW x \in Int, NEW y \in Int
    PROVE  x * y \in Int /\ x * y = y * x
  OBVIOUS

\* Where the brackets are contiguous both ways to sum the tax agree: what has
\* been taxed so far and the rest at the last rate are the same on each side.
LEMMA TaxIsMarginal ==
    ASSUME NEW t, Contiguous(t), NEW base \in Nat
    PROVE  ProgressiveTax(base, t) = MarginalTax(base, t)
  <1> DEFINE n == Len(t)
             Rate(k) == IF k = 0 THEN 0 ELSE t[k].rate
  <1>1. t \in Seq(Bracket) /\ n \in Nat /\ n # 0
    BY BracketFacts
  <1>2. PICK f : /\ f[0] = 0
                 /\ \A k \in 1..n : f[k] = f[k - 1] + InBracket(base, t[k]) * t[k].rate
                 /\ ProgressiveTax(base, t) = f[n]
    BY <1>1, TaxSum
  <1>3. PICK g : /\ g[0] = 0
                 /\ \A k \in 1..n :
                      g[k] = g[k - 1] + Increment(k, t) * AtLeast(0, base - t[k].lower)
                 /\ MarginalTax(base, t) = g[n]
    BY <1>1, MarginalSum
  <1> DEFINE Agree(k) == /\ f[k] \in Int /\ g[k] \in Int
                         /\ f[k] + Rate(k) * Rest(base, t, k) = g[k]
             Bad == {k \in 0..n : ~Agree(k)}
  <1>4. Agree(0)
    <2>1. Rest(base, t, 0) \in Nat
      <3>1. 1 - 1 = 0 /\ 1 \in 1..Len(t)
        BY <1>1
      <3>2. Rest(base, t, 1 - 1) \in Nat
        BY <3>1, SplitBracket
      <3>3. QED
        BY <3>1, <3>2
    <2>2. 0 * Rest(base, t, 0) = 0
      BY <2>1
    <2>3. QED
      BY <1>2, <1>3, <2>2
  <1>5. ASSUME NEW k \in 1..n, Agree(k - 1)
        PROVE  Agree(k)
    <2>1. PICK part, rest, above : /\ part = InBracket(base, t[k]) /\ rest = Rest(base, t, k)
                                   /\ above = Rest(base, t, k - 1)
      OBVIOUS
    <2>2. /\ part \in Nat /\ rest \in Nat /\ above \in Nat /\ part + rest = above
          /\ above = AtLeast(0, base - t[k].lower)
      BY <2>1, SplitBracket
    <2>3. PICK r, q : r = Rate(k) /\ q = Rate(k - 1)
      OBVIOUS
    <2>4. r \in Int /\ q \in Int /\ r = t[k].rate /\ Increment(k, t) = r - q
      <3>1. k - 1 = 0 \/ k - 1 \in 1..n
        OBVIOUS
      <3>2. k # 0 /\ r = t[k].rate /\ r \in Int
        BY <2>3, BracketFacts
      <3>3. q \in Int /\ q = IF k = 1 THEN 0 ELSE t[k - 1].rate
        BY <2>3, <3>1, BracketFacts
      <3>4. QED
        BY <3>2, <3>3 DEF Increment
    <2>5. PICK a, b : a = f[k - 1] /\ b = g[k - 1]
      OBVIOUS
    <2>6. a \in Int /\ b \in Int /\ a + q * above = b
      BY <1>5, <2>1, <2>3, <2>5
    <2>7. f[k] = a + part * r /\ g[k] = b + (r - q) * above
      BY <1>2, <1>3, <2>1, <2>2, <2>4, <2>5
    <2>8. part * r + r * rest = r * above /\ (r - q) * above = r * above - q * above
      <3>1. (part + rest) * r = part * r + rest * r
        BY <2>2, <2>4, Distribute
      <3>2. rest * r = r * rest /\ above * r = r * above
        BY <2>2, <2>4, Product
      <3>3. (r - q) * above = r * above - q * above
        BY <2>2, <2>4, Distribute
      <3>4. QED
        BY <2>2, <3>1, <3>2, <3>3
    <2>9. /\ part * r \in Int /\ r * rest \in Int /\ r * above \in Int /\ q * above \in Int
      <3>1. part \in Int /\ rest \in Int /\ above \in Int /\ r \in Int /\ q \in Int
        BY <2>2, <2>4
      <3>2. QED
        BY <3>1, Product
    <2>10. f[k] \in Int /\ g[k] \in Int /\ f[k] + r * rest = g[k]
      BY <2>6, <2>7, <2>8, <2>9
    <2>11. QED
      BY <2>1, <2>3, <2>10
  <1>6. Bad = {}
    <2>1. ASSUME Bad # {} PROVE FALSE
      <3>1. PICK k \in Bad : \A j \in Bad : k <= j
        <4>1. Bad \in SUBSET Nat
          OBVIOUS
        <4> HIDE DEF Bad
        <4>2. QED
          BY <2>1, <4>1, Least
      <3> HIDE DEF Agree
      <3>2. k # 0 /\ k \in 1..n /\ k - 1 \notin Bad /\ k - 1 \in 0..n
        BY <1>4, <3>1
      <3>3. Agree(k - 1)
        BY <3>2
      <3>4. Agree(k)
        BY <1>5, <3>2, <3>3
      <3>5. QED
        BY <3>1, <3>4
    <2>2. QED
      BY <2>1
  <1>7. f[n] + Rate(n) * Rest(base, t, n) = g[n] /\ f[n] \in Int
    <2>1. n \in 0..n /\ n \notin Bad
      BY <1>1, <1>6
    <2>2. QED
      BY <2>1
  <1>8. Rest(base, t, n) = 0 /\ Rate(n) * 0 = 0
    BY <1>1, BracketFacts DEF Rest
  <1>9. QED
    BY <1>2, <1>3, <1>7, <1>8

\* A larger base is taxed no less, and by no more than a quarter of the excess.
LEMMA TaxGrows ==
    ASSUME NEW t, Contiguous(t), \A k \in DOMAIN t : t[k].rate <= 250,
           NEW b \in Nat, NEW c \in Nat, b <= c
    PROVE  /\ ProgressiveTax(b, t) \in Int /\ ProgressiveTax(c, t) \in Int
           /\ ProgressiveTax(b, t) <= ProgressiveTax(c, t)
           /\ ProgressiveTax(c, t) - ProgressiveTax(b, t) <= 250 * (c - b)
  <1> DEFINE n == Len(t)
  <1>1. t \in Seq(Bracket) /\ n \in Nat /\ n # 0 /\ DOMAIN t = 1..n
    BY BracketFacts
  <1>2. PICK f : /\ f[0] = 0
                 /\ \A k \in 1..n : f[k] = f[k - 1] + InBracket(b, t[k]) * t[k].rate
                 /\ ProgressiveTax(b, t) = f[n]
    BY <1>1, TaxSum
  <1>3. PICK g : /\ g[0] = 0
                 /\ \A k \in 1..n : g[k] = g[k - 1] + InBracket(c, t[k]) * t[k].rate
                 /\ ProgressiveTax(c, t) = g[n]
    BY <1>1, TaxSum
  <1> DEFINE Grows(k) ==
               /\ f[k] \in Int /\ g[k] \in Int /\ f[k] <= g[k]
               /\ g[k] - f[k] + 250 * (Rest(c, t, k) - Rest(b, t, k)) <= 250 * (c - b)
             Bad == {k \in 0..n : ~Grows(k)}
  <1>4. Grows(0)
    <2>1. /\ Rest(b, t, 0) = AtLeast(0, b - t[1].lower) /\ Rest(c, t, 0) = AtLeast(0, c - t[1].lower)
      BY DEF Rest
    <2>2. t[1].lower \in Nat
      <3>1. 1 \in 1..Len(t)
        BY <1>1
      <3>2. QED
        BY <3>1, BracketFacts
    <2>3. Rest(b, t, 0) \in Nat /\ Rest(c, t, 0) \in Nat /\ Rest(c, t, 0) - Rest(b, t, 0) <= c - b
      BY <2>1, <2>2 DEF AtLeast
    <2>4. QED
      BY <1>2, <1>3, <2>3
  <1>5. ASSUME NEW k \in 1..n, Grows(k - 1)
        PROVE  Grows(k)
    <2>1. PICK p, x, u : p = InBracket(b, t[k]) /\ x = Rest(b, t, k) /\ u = Rest(b, t, k - 1)
      OBVIOUS
    <2>2. PICK q, y, w : q = InBracket(c, t[k]) /\ y = Rest(c, t, k) /\ w = Rest(c, t, k - 1)
      OBVIOUS
    <2>3. p \in Nat /\ x \in Nat /\ u \in Nat /\ p + x = u
      BY <2>1, SplitBracket
    <2>4. q \in Nat /\ y \in Nat /\ w \in Nat /\ q + y = w
      BY <2>2, SplitBracket
    <2>5. p <= q
      <3>1. PICK lower, upper : lower = t[k].lower /\ upper = t[k].upper
        OBVIOUS
      <3>2. lower \in Nat /\ (upper # None => upper \in Nat)
        BY <3>1, BracketFacts
      <3>3. CASE upper = None
        BY <2>1, <2>2, <3>1, <3>2, <3>3 DEF InBracket, AtLeast
      <3>4. CASE upper # None
        <4>1. PICK s, z : s = AtMost(b, upper) /\ z = AtMost(c, upper)
          OBVIOUS
        <4>2. s \in Nat /\ z \in Nat /\ s <= z
          <5>1. upper \in Nat
            BY <3>2, <3>4
          <5>2. QED
            BY <4>1, <5>1 DEF AtMost
        <4>3. p = AtLeast(0, s - lower) /\ q = AtLeast(0, z - lower)
          BY <2>1, <2>2, <3>1, <3>4, <4>1 DEF InBracket
        <4>4. QED
          BY <3>2, <4>2, <4>3 DEF AtLeast
      <3>5. QED
        BY <3>3, <3>4
    <2>6. PICK r : r = t[k].rate
      OBVIOUS
    <2>7. r \in Nat /\ r <= 250
      BY <1>1, <2>6, BracketFacts
    <2>8. PICK d : d = q - p
      OBVIOUS
    <2>9. d \in Nat /\ d * r \in Nat /\ d * r <= d * 250
      BY <2>3, <2>4, <2>5, <2>7, <2>8
    <2>10. q * r - p * r = d * r /\ q * r \in Int /\ p * r \in Int
      <3>1. (q - p) * r = q * r - p * r
        BY <2>3, <2>4, <2>7, Distribute
      <3>2. QED
        BY <2>3, <2>4, <2>7, <2>8, <3>1
    <2>11. PICK i, j : i = f[k - 1] /\ j = g[k - 1]
      OBVIOUS
    <2>12. i \in Int /\ j \in Int /\ i <= j /\ j - i + 250 * (w - u) <= 250 * (c - b)
      BY <1>5, <2>1, <2>2, <2>11
    <2>13. f[k] = i + p * r /\ g[k] = j + q * r
      BY <1>2, <1>3, <2>1, <2>2, <2>6, <2>11
    <2>14. PICK pr, qr, dr : pr = p * r /\ qr = q * r /\ dr = d * r
      OBVIOUS
    <2>15. pr \in Int /\ qr \in Int /\ dr \in Nat /\ qr - pr = dr /\ dr <= d * 250
      BY <2>9, <2>10, <2>14
    <2>16. i + pr <= j + qr
      BY <2>12, <2>15
    <2>17. (j + qr) - (i + pr) + 250 * (y - x) <= 250 * (c - b)
      BY <2>3, <2>4, <2>8, <2>12, <2>15
    <2>18. f[k] \in Int /\ g[k] \in Int /\ f[k] <= g[k]
      <3>1. f[k] = i + pr /\ g[k] = j + qr
        BY <2>13, <2>14
      <3>2. i + pr \in Int /\ j + qr \in Int
        BY <2>12, <2>15
      <3>3. QED
        BY <2>16, <3>1, <3>2
    <2>19. g[k] - f[k] + 250 * (Rest(c, t, k) - Rest(b, t, k)) <= 250 * (c - b)
      BY <2>1, <2>2, <2>13, <2>14, <2>17
    <2>20. QED
      BY <2>18, <2>19
  <1>6. Bad = {}
    <2>1. ASSUME Bad # {} PROVE FALSE
      <3>1. PICK k \in Bad : \A j \in Bad : k <= j
        <4>1. Bad \in SUBSET Nat
          OBVIOUS
        <4> HIDE DEF Bad
        <4>2. QED
          BY <2>1, <4>1, Least
      <3> HIDE DEF Grows
      <3>2. k # 0 /\ k \in 1..n /\ k - 1 \notin Bad /\ k - 1 \in 0..n
        BY <1>4, <3>1
      <3>3. Grows(k - 1)
        BY <3>2
      <3>4. Grows(k)
        BY <1>5, <3>2, <3>3
      <3>5. QED
        BY <3>1, <3>4
    <2>2. QED
      BY <2>1
  <1>7. Grows(n)
    <2> HIDE DEF Grows
    <2>1. n \in 0..n /\ n \notin Bad
      BY <1>1, <1>6
    <2>2. QED
      BY <2>1
  <1>8. Rest(b, t, n) = 0 /\ Rest(c, t, n) = 0
    BY <1>1, BracketFacts DEF Rest
  <1>9. QED
    BY <1>2, <1>3, <1>7, <1>8

LEMMA TaxOfNothing ==
    ASSUME NEW t, Contiguous(t)
    PROVE  ProgressiveTax(0, t) = 0
  <1> DEFINE n == Len(t)
  <1>1. t \in Seq(Bracket) /\ n \in Nat
    BY BracketFacts
  <1>2. PICK f : /\ f[0] = 0
                 /\ \A k \in 1..n : f[k] = f[k - 1] + InBracket(0, t[k]) * t[k].rate
                 /\ ProgressiveTax(0, t) = f[n]
    BY <1>1, TaxSum
  <1> DEFINE Bad == {k \in 0..n : f[k] # 0}
  <1>3. ASSUME NEW k \in 1..n, f[k - 1] = 0
        PROVE  f[k] = 0
    <2>1. InBracket(0, t[k]) \in Nat /\ Rest(0, t, k) \in Nat
          /\ InBracket(0, t[k]) + Rest(0, t, k) = AtLeast(0, 0 - t[k].lower)
      BY SplitBracket
    <2>2. t[k].lower \in Nat /\ t[k].rate \in Nat
      BY BracketFacts
    <2>3. InBracket(0, t[k]) = 0
      BY <2>1, <2>2 DEF AtLeast
    <2>4. QED
      BY <1>2, <1>3, <2>2, <2>3
  <1>4. Bad = {}
    <2>1. ASSUME Bad # {} PROVE FALSE
      <3>1. PICK k \in Bad : \A j \in Bad : k <= j
        <4>1. Bad \in SUBSET Nat
          OBVIOUS
        <4> HIDE DEF Bad
        <4>2. QED
          BY <2>1, <4>1, Least
      <3>2. k # 0 /\ k \in 1..n /\ k - 1 \notin Bad /\ k - 1 \in 0..n
        BY <1>2, <3>1
      <3>3. f[k - 1] = 0
        BY <3>2
      <3>4. QED
        BY <1>3, <3>1, <3>2, <3>3
    <2>2. QED
      BY <2>1
  <1>5. QED
    BY <1>1, <1>2, <1>4

----------------------------------------------------------------------------
\* The pay slip

LEMMA RoundHalfUpBounds ==
    ASSUME NEW n \in Nat
    PROVE  RoundHalfUp(n) \in Nat /\ 1000 * RoundHalfUp(n) <= 2 * n
  BY DEF RoundHalfUp

LEMMA RoundHalfUpMonotone ==
    ASSUME NEW n \in Nat, NEW m \in Nat, n <= m
    PROVE  RoundHalfUp(n) <= RoundHalfUp(m)
  BY DEF RoundHalfUp

LEMMA RoundHalfUpShift ==
    ASSUME NEW n \in Nat, NEW m \in Nat
    PROVE  RoundHalfUp(n + 1000 * m) = RoundHalfUp(n) + m
  BY DEF RoundHalfUp

\* Rounding adds less than a franc to a difference.
LEMMA RoundHalfUpGrows ==
    ASSUME NEW n \in Nat, NEW m \in Nat, NEW d \in Nat, m <= n + d
    PROVE  1000 * (RoundHalfUp(m) - RoundHalfUp(n)) <= d + 999
  BY DEF RoundHalfUp

LEMMA ProductBound ==
    ASSUME NEW x \in Nat, NEW y \in Nat, NEW r \in Nat, NEW s \in Nat, x <= y, r <= s
    PROVE  x * r \in Nat /\ y * s \in Nat /\ x * r <= y * s
  <1>1. x * r <= y * r
    OBVIOUS
  <1>2. y * r <= y * s
    OBVIOUS
  <1>3. x * r \in Nat /\ y * r \in Nat /\ y * s \in Nat
    OBVIOUS
  <1>4. QED
    BY <1>1, <1>2, <1>3

LEMMA InputFacts ==
    ASSUME NEW in \in Input
    PROVE  /\ in.base \in Nat /\ in.bonus \in Nat /\ in.overtime \in Nat /\ in.nontaxable \in Nat
           /\ in.housing \in Nat /\ in.function \in Nat /\ in.transport \in Nat
           /\ in.children \in Nat /\ in.dependentSpouse \in BOOLEAN /\ in.isCadre \in BOOLEAN
           /\ Gross(in) \in Nat
  <1>1. /\ in.base \in Nat /\ in.bonus \in Nat /\ in.overtime \in Nat /\ in.nontaxable \in Nat
        /\ in.housing \in Nat /\ in.function \in Nat /\ in.transport \in Nat
        /\ in.children \in Nat /\ in.dependentSpouse \in BOOLEAN /\ in.isCadre \in BOOLEAN
    BY DEF Input
  <1>2. QED
    BY <1>1 DEF Gross

LEMMA LawFacts ==
    ASSUME NEW v \in Versions
    PROVE  /\ Law[v].cnssEmployee \in Nat /\ Law[v].cnssEmployer \in Nat /\ Law[v].cnssCeiling \in Nat
           /\ Law[v].carfoEmployee \in Nat /\ Law[v].carfoEmployer \in Nat
           /\ Law[v].cnssEmployee + Law[v].carfoEmployee <= 250
           /\ Contiguous(Law[v].brackets)
           /\ \A k \in DOMAIN Law[v].brackets : Law[v].brackets[k].rate <= 250
  <1>1. Law[v] \in LegalVersion
    BY LawAssumption
  <1>2. /\ Law[v].cnssEmployee \in Nat /\ Law[v].cnssEmployer \in Nat /\ Law[v].cnssCeiling \in Nat
        /\ Law[v].carfoEmployee \in Nat /\ Law[v].carfoEmployer \in Nat
        /\ Law[v].brackets \in Seq(Bracket)
    BY <1>1 DEF LegalVersion
  <1>3. Contiguous(Law[v].brackets)
    BY <1>2, BracketsAssumption DEF Contiguous
  <1>4. QED
    BY <1>2, <1>3, RatesAssumption

\* Contributions are whole, and an employee's take at most half of the gross.
LEMMA Contributions ==
    ASSUME NEW in \in Input, NEW v \in Versions
    PROVE  /\ CnssEmployee(in, Law[v]) \in Nat /\ CnssEmployer(in, Law[v]) \in Nat
           /\ CarfoEmployee(in, Law[v]) \in Nat /\ CarfoEmployer(in, Law[v]) \in Nat
           /\ 2 * (CnssEmployee(in, Law[v]) + CarfoEmployee(in, Law[v])) <= Gross(in)
  <1>1. PICK g, low, part : /\ g = Gross(in) /\ low = AtMost(g, Law[v].cnssCeiling)
                            /\ part = CarfoBase(in, Law[v])
    OBVIOUS
  <1>2. g \in Nat /\ low \in Nat /\ low <= g /\ part \in Nat /\ part <= g
    <2>1. g \in Nat /\ Law[v].cnssCeiling \in Nat
      BY <1>1, InputFacts, LawFacts
    <2>2. part = g \/ part = 0
      BY <1>1 DEF CarfoBase
    <2>3. QED
      BY <1>1, <2>1, <2>2 DEF AtMost
  <1>3. PICK r, s, q, u : /\ r = Law[v].cnssEmployee /\ s = Law[v].carfoEmployee
                          /\ q = Law[v].cnssEmployer /\ u = Law[v].carfoEmployer
    OBVIOUS
  <1>4. r \in Nat /\ s \in Nat /\ q \in Nat /\ u \in Nat /\ r + s <= 250
    BY <1>3, LawFacts
  <1>5. PICK x, y, lowq, partu : x = low * r /\ y = part * s /\ lowq = low * q /\ partu = part * u
    OBVIOUS
  <1>6. x \in Nat /\ y \in Nat /\ lowq \in Nat /\ partu \in Nat
    BY <1>2, <1>4, <1>5
  <1>7. x + y <= 250 * g
    <2>1. x <= g * r /\ y <= g * s /\ g * r \in Nat /\ g * s \in Nat
      BY <1>2, <1>4, <1>5, ProductBound
    <2>2. (r + s) * g = r * g + s * g /\ r * g = g * r /\ s * g = g * s
      BY <1>2, <1>4, Distribute
    <2>3. (r + s) * g <= 250 * g /\ (r + s) * g \in Nat
      <3>1. r + s \in Nat /\ 250 \in Nat
        BY <1>4
      <3>2. QED
        BY <1>2, <1>4, <3>1, ProductBound
    <2>4. QED
      BY <1>2, <1>6, <2>1, <2>2, <2>3
  <1>8. /\ CnssEmployee(in, Law[v]) = RoundHalfUp(x) /\ CarfoEmployee(in, Law[v]) = RoundHalfUp(y)
        /\ CnssEmployer(in, Law[v]) = RoundHalfUp(lowq) /\ CarfoEmployer(in, Law[v]) = RoundHalfUp(partu)
    BY <1>1, <1>3, <1>5 DEF CnssEmployee, CarfoEmployee, CnssEmployer, CarfoEmployer
  <1>9. /\ RoundHalfUp(x) \in Nat /\ RoundHalfUp(y) \in Nat
        /\ RoundHalfUp(lowq) \in Nat /\ RoundHalfUp(partu) \in Nat
        /\ 1000 * RoundHalfUp(x) <= 2 * x /\ 1000 * RoundHalfUp(y) <= 2 * y
    BY <1>6, RoundHalfUpBounds
  <1>10. 2 * (RoundHalfUp(x) + RoundHalfUp(y)) <= g
    BY <1>2, <1>6, <1>7, <1>9
  <1>11. QED
    BY <1>1, <1>8, <1>9, <1>10

LEMMA ExonerationsNat ==
    ASSUME NEW in \in Input, NEW v \in Versions
    PROVE  Exonerations(in, Law[v]) \in Nat
  <1>1. PICK g, c : g = Gross(in) /\ c = CnssEmployee(in, Law[v])
    OBVIOUS
  <1>2. g \in Nat /\ c \in Nat /\ c <= g
    <2>1. PICK d : d = CarfoEmployee(in, Law[v])
      OBVIOUS
    <2>2. g \in Nat /\ c \in Nat /\ d \in Nat /\ 2 * (c + d) <= g
      BY <1>1, <2>1, InputFacts, Contributions
    <2>3. QED
      BY <2>2
  <1>3. PICK x, y : x = RoundHalfUp(g * 200) /\ y = RoundHalfUp(g * 50)
    OBVIOUS
  <1>4. x \in Nat /\ y \in Nat
    BY <1>2, <1>3, RoundHalfUpBounds
  <1>5. in.housing \in Nat /\ in.function \in Nat /\ in.transport \in Nat
    BY InputFacts
  <1>6. AtMost(AtMost(x, 75000), in.housing) \in Nat /\ AtMost(AtMost(y, 50000), in.function) \in Nat
    BY <1>4, <1>5 DEF AtMost
  <1>7. AtMost(AtMost(g - c, 20 * 30000), 20 * in.transport) \in Nat
    BY <1>2, <1>5 DEF AtMost
  <1>8. Exonerations(in, Law[v]) =
          20 * AtMost(AtMost(x, 75000), in.housing) + 20 * AtMost(AtMost(y, 50000), in.function)
            + AtMost(AtMost(g - c, 20 * 30000), 20 * in.transport)
    BY <1>1, <1>3 DEF Exonerations
  <1>9. QED
    BY <1>6, <1>7, <1>8

\* What the abatements leave of the gross, in twentieths.
Net20(in, law) ==
    AtLeast(0, 20 * (Gross(in) - CnssEmployee(in, law)
                       - ProfessionalAbatement(in) - ChildrenAbatement(in))
                 - Exonerations(in, law))

LEMMA AbatementsNat ==
    ASSUME NEW in \in Input
    PROVE  ProfessionalAbatement(in) \in Nat /\ ChildrenAbatement(in) \in Nat
  <1>1. in.base + in.bonus + in.overtime \in Nat
    BY InputFacts
  <1>2. PICK n, r : n = in.base + in.bonus + in.overtime /\ r = IF in.isCadre THEN 200 ELSE 250
    OBVIOUS
  <1>3. n \in Nat /\ r \in Nat
    BY <1>1, <1>2
  <1>4. n * r \in Nat
    BY <1>3
  <1>5. ProfessionalAbatement(in) \in Nat
    BY <1>2, <1>4, RoundHalfUpBounds DEF ProfessionalAbatement
  <1>6. ChildrenAbatement(in) \in Nat
    BY InputFacts DEF ChildrenAbatement, AtMost
  <1>7. QED
    BY <1>5, <1>6

LEMMA BaseBounds ==
    ASSUME NEW in \in Input, NEW v \in Versions
    PROVE  /\ Net20(in, Law[v]) \in Nat
           /\ TaxableBase(in, Law[v]) = 100 * (Net20(in, Law[v]) \div 2000)
           /\ TaxableBase(in, Law[v]) \in Nat
           /\ TaxableBase(in, Law[v]) <= Gross(in)
  <1>1. PICK g, c, p, a, e : /\ g = Gross(in) /\ c = CnssEmployee(in, Law[v])
                             /\ p = ProfessionalAbatement(in) /\ a = ChildrenAbatement(in)
                             /\ e = Exonerations(in, Law[v])
    OBVIOUS
  <1>2. g \in Nat /\ c \in Nat /\ p \in Nat /\ a \in Nat /\ e \in Nat
    BY <1>1, InputFacts, Contributions, AbatementsNat, ExonerationsNat
  <1>3. PICK x : x = Net20(in, Law[v])
    OBVIOUS
  <1>4. x = AtLeast(0, 20 * (g - c - p - a) - e)
    BY <1>1, <1>3 DEF Net20
  <1>5. x \in Nat /\ x <= 20 * g
    BY <1>2, <1>4 DEF AtLeast
  <1>6. TaxableBase(in, Law[v]) = 100 * (x \div 2000)
    BY <1>3 DEF TaxableBase, Net20
  <1>7. 100 * (x \div 2000) \in Nat /\ 100 * (x \div 2000) <= g
    BY <1>2, <1>5
  <1>8. QED
    BY <1>1, <1>3, <1>5, <1>6, <1>7

LEMMA ReductionBounds ==
    ASSUME NEW in \in Input
    PROVE  FamilyCharges(in) \in 0..4 /\ FamilyReduction(in) \in Nat /\ FamilyReduction(in) <= 140
  <1>1. FamilyCharges(in) \in 0..4
    <2>1. PICK n : n = (IF in.dependentSpouse THEN 1 ELSE 0) + in.children
      OBVIOUS
    <2>2. n \in Nat
      BY <2>1, InputFacts
    <2>3. QED
      BY <2>1, <2>2 DEF FamilyCharges, AtMost
  <1>2. PICK k : k = FamilyCharges(in)
    OBVIOUS
  <1>3. k = 0 \/ k = 1 \/ k = 2 \/ k = 3 \/ k = 4
    BY <1>1, <1>2
  <1>4. FamilyReduction(in) = <<0, 80, 100, 120, 140>>[k + 1]
    BY <1>2 DEF FamilyReduction
  <1>5. QED
    BY <1>1, <1>3, <1>4

\* More charges reduce the tax no less.
LEMMA ReductionMonotone ==
    ASSUME NEW in \in Input, NEW out \in Input, FamilyCharges(in) <= FamilyCharges(out)
    PROVE  FamilyReduction(in) <= FamilyReduction(out)
  <1>1. PICK k, l : k = FamilyCharges(in) /\ l = FamilyCharges(out)
    OBVIOUS
  <1>2. k \in 0..4 /\ l \in 0..4 /\ k <= l
    BY <1>1, ReductionBounds
  <1>3. /\ FamilyReduction(in) = <<0, 80, 100, 120, 140>>[k + 1]
        /\ FamilyReduction(out) = <<0, 80, 100, 120, 140>>[l + 1]
    BY <1>1 DEF FamilyReduction
  <1>4. /\ <<0, 80, 100, 120, 140>>[1] = 0 /\ <<0, 80, 100, 120, 140>>[2] = 80
        /\ <<0, 80, 100, 120, 140>>[3] = 100 /\ <<0, 80, 100, 120, 140>>[4] = 120
        /\ <<0, 80, 100, 120, 140>>[5] = 140
    OBVIOUS
  <1>5. (k + 1 = 1 \/ k + 1 = 2 \/ k + 1 = 3 \/ k + 1 = 4 \/ k + 1 = 5)
        /\ (l + 1 = 1 \/ l + 1 = 2 \/ l + 1 = 3 \/ l + 1 = 4 \/ l + 1 = 5) /\ k + 1 <= l + 1
    BY <1>2
  <1>6. QED
    BY <1>3, <1>4, <1>5

\* The tax before the reduction for charges.
GrossTax(in, v) == RoundHalfUp(ProgressiveTax(TaxableBase(in, Law[v]), Law[v].brackets))
IutsOf(in, v) == Iuts(in, Law[v], Law[v].brackets)

LEMMA TaxNat ==
    ASSUME NEW v \in Versions, NEW base \in Nat
    PROVE  /\ ProgressiveTax(base, Law[v].brackets) \in Nat
           /\ ProgressiveTax(base, Law[v].brackets) <= 250 * base
  <1>1. PICK t : t = Law[v].brackets
    OBVIOUS
  <1>2. Contiguous(t) /\ \A k \in DOMAIN t : t[k].rate <= 250
    BY <1>1, LawFacts
  <1>3. 0 \in Nat /\ 0 <= base /\ ProgressiveTax(0, t) = 0
    BY <1>2, TaxOfNothing
  <1>4. /\ ProgressiveTax(base, t) \in Int /\ ProgressiveTax(0, t) <= ProgressiveTax(base, t)
        /\ ProgressiveTax(base, t) - ProgressiveTax(0, t) <= 250 * (base - 0)
    BY <1>2, <1>3, TaxGrows
  <1>5. QED
    BY <1>1, <1>3, <1>4

\* The reduction never adds to the tax, which takes at most half of the gross.
LEMMA IutsBounds ==
    ASSUME NEW in \in Input, NEW v \in Versions
    PROVE  /\ GrossTax(in, v) \in Nat /\ IutsOf(in, v) \in Nat
           /\ IutsOf(in, v) <= GrossTax(in, v)
           /\ 2 * GrossTax(in, v) <= Gross(in)
           /\ IutsOf(in, v) = RoundHalfUp(GrossTax(in, v) * (1000 - FamilyReduction(in)))
  <1>1. PICK base, tax, n, r : /\ base = TaxableBase(in, Law[v])
                               /\ tax = ProgressiveTax(base, Law[v].brackets)
                               /\ n = RoundHalfUp(tax) /\ r = 1000 - FamilyReduction(in)
    OBVIOUS
  <1>2. base \in Nat /\ base <= Gross(in) /\ Gross(in) \in Nat
    BY <1>1, BaseBounds, InputFacts
  <1>3. tax \in Nat /\ tax <= 250 * base
    BY <1>1, <1>2, TaxNat
  <1>4. n \in Nat /\ 1000 * n <= 2 * tax
    BY <1>1, <1>3, RoundHalfUpBounds
  <1>5. r \in Nat /\ r <= 1000
    BY <1>1, ReductionBounds
  <1>6. GrossTax(in, v) = n /\ IutsOf(in, v) = RoundHalfUp(n * r)
    BY <1>1 DEF GrossTax, IutsOf, Iuts
  <1>7. n * r \in Nat /\ n * r <= 1000 * n
    <2>1. n * r \in Nat /\ n * r <= n * 1000
      <3>1. 1000 \in Nat
        OBVIOUS
      <3>2. QED
        BY <1>4, <1>5, <3>1, ProductBound
    <2>2. QED
      BY <1>4, <2>1
  <1>8. RoundHalfUp(1000 * n) = n
    BY <1>4 DEF RoundHalfUp
  <1>9. RoundHalfUp(n * r) \in Nat /\ RoundHalfUp(n * r) <= n
    <2>1. 1000 * n \in Nat
      BY <1>4
    <2>2. RoundHalfUp(n * r) <= RoundHalfUp(1000 * n)
      BY <1>7, <2>1, RoundHalfUpMonotone
    <2>3. QED
      BY <1>7, <1>8, <2>2, RoundHalfUpBounds
  <1>10. 2 * n <= Gross(in)
    BY <1>2, <1>3, <1>4
  <1>11. QED
    BY <1>1, <1>4, <1>6, <1>9, <1>10

\* No amount of a slip is negative, the net pay included.
LEMMA SlipTyped ==
    ASSUME NEW in \in Input, NEW v \in Versions
    PROVE  FullSlip(in, v) \in Slip
  <1>1. PICK g, c, ce, k, ke, n, t :
          /\ g = Gross(in) /\ c = CnssEmployee(in, Law[v]) /\ ce = CnssEmployer(in, Law[v])
          /\ k = CarfoEmployee(in, Law[v]) /\ ke = CarfoEmployer(in, Law[v])
          /\ n = IutsOf(in, v) /\ t = GrossTax(in, v)
    OBVIOUS
  <1>2. g \in Nat /\ in.nontaxable \in Nat
    BY <1>1, InputFacts
  <1>3. c \in Nat /\ ce \in Nat /\ k \in Nat /\ ke \in Nat /\ 2 * (c + k) <= g
    BY <1>1, Contributions
  <1>4. n \in Nat /\ t \in Nat /\ n <= t /\ 2 * t <= g
    BY <1>1, IutsBounds
  <1>5. g - c - k - n + in.nontaxable \in Nat
    BY <1>2, <1>3, <1>4
  <1>6. FullSlip(in, v) =
          [gross |-> g, cnssEmployee |-> c, cnssEmployer |-> ce, carfoEmployee |-> k,
           carfoEmployer |-> ke, iuts |-> n, net |-> g - c - k - n + in.nontaxable]
    BY <1>1 DEF FullSlip, PaySlip, IutsOf
  <1>7. QED
    BY <1>2, <1>3, <1>4, <1>5, <1>6 DEF Slip

----------------------------------------------------------------------------
\* A raise, and a child

LEMMA NetPay ==
    ASSUME NEW in \in Input, NEW v \in Versions
    PROVE  /\ NetOf(in, v) = Gross(in) - CnssEmployee(in, Law[v]) - CarfoEmployee(in, Law[v])
                               - IutsOf(in, v) + in.nontaxable
           /\ FullSlip(in, v).net = NetOf(in, v)
  BY DEF NetOf, FullSlip, PaySlip, IutsOf

\* The contributions on a raise, and what it adds to the taxable base.
LEMMA RaiseContributions ==
    ASSUME NEW in \in Input, NEW v \in Versions, NEW more \in Input, NEW raise \in Nat,
           more = [in EXCEPT !.base = in.base + raise]
    PROVE  /\ Gross(more) = Gross(in) + raise
           /\ CnssEmployee(more, Law[v]) >= CnssEmployee(in, Law[v])
           /\ CnssEmployee(more, Law[v]) <= CnssEmployee(in, Law[v]) + raise
           /\ 4 * (CnssEmployee(more, Law[v]) + CarfoEmployee(more, Law[v]))
                <= 4 * (CnssEmployee(in, Law[v]) + CarfoEmployee(in, Law[v])) + raise + 7
  <1>1. PICK g : g = Gross(in)
    OBVIOUS
  <1>2. /\ more.base = in.base + raise /\ more.bonus = in.bonus /\ more.overtime = in.overtime
        /\ more.housing = in.housing /\ more.function = in.function
        /\ more.transport = in.transport /\ more.regime = in.regime
    BY DEF Input
  <1>3. g \in Nat /\ Gross(more) = g + raise
    BY <1>1, <1>2, InputFacts DEF Gross
  <1>4. PICK r, s, ceiling : /\ r = Law[v].cnssEmployee /\ s = Law[v].carfoEmployee
                             /\ ceiling = Law[v].cnssCeiling
    OBVIOUS
  <1>5. r \in Nat /\ s \in Nat /\ r + s <= 250 /\ ceiling \in Nat
    BY <1>4, LawFacts
  <1>6. PICK low, high : low = AtMost(g, ceiling) /\ high = AtMost(g + raise, ceiling)
    OBVIOUS
  <1>7. low \in Nat /\ high \in Nat /\ low <= high /\ high <= low + raise
    BY <1>3, <1>5, <1>6 DEF AtMost
  <1>8. PICK x, y : x = low * r /\ y = high * r
    OBVIOUS
  <1>9. x \in Nat /\ y \in Nat /\ x <= y /\ y <= x + raise * r
    <2>1. low * r <= high * r /\ low * r \in Nat /\ high * r \in Nat
      BY <1>5, <1>7, ProductBound
    <2>2. high * r <= (low + raise) * r
      <3>1. low + raise \in Nat
        BY <1>7
      <3>2. QED
        BY <1>5, <1>7, <3>1, ProductBound
    <2>3. (low + raise) * r = low * r + raise * r
      <3>1. raise \in Int /\ low \in Int /\ r \in Int
        BY <1>5, <1>7
      <3>2. QED
        BY <3>1, Distribute
    <2>4. QED
      BY <1>8, <2>1, <2>2, <2>3
  <1>10. /\ CnssEmployee(in, Law[v]) = RoundHalfUp(x)
         /\ CnssEmployee(more, Law[v]) = RoundHalfUp(y)
    BY <1>1, <1>3, <1>4, <1>6, <1>8 DEF CnssEmployee
  <1>11. /\ RoundHalfUp(x) \in Nat /\ RoundHalfUp(y) \in Nat /\ RoundHalfUp(x) <= RoundHalfUp(y)
         /\ 1000 * (RoundHalfUp(y) - RoundHalfUp(x)) <= raise * r + 999
    <2>1. PICK z : z = raise * r
      OBVIOUS
    <2>2. z \in Nat /\ y <= x + z
      BY <1>5, <1>9, <2>1
    <2>3. 1000 * (RoundHalfUp(y) - RoundHalfUp(x)) <= z + 999
      BY <1>9, <2>2, RoundHalfUpGrows
    <2>4. QED
      BY <1>9, <2>1, <2>3, RoundHalfUpBounds, RoundHalfUpMonotone
  <1>12. PICK c, d : c = CarfoEmployee(in, Law[v]) /\ d = CarfoEmployee(more, Law[v])
    OBVIOUS
  <1>13. c \in Nat /\ d \in Nat /\ 1000 * (d - c) <= raise * s + 999
    <2>1. c \in Nat /\ d \in Nat
      BY <1>12, Contributions
    <2>2. CASE in.regime \in Law[v].carfoRegimes
      <3>1. c = RoundHalfUp(g * s) /\ d = RoundHalfUp((g + raise) * s)
        BY <1>1, <1>2, <1>3, <1>4, <1>12, <2>2 DEF CarfoEmployee, CarfoBase
      <3>2. (g + raise) * s = g * s + raise * s
        <4>1. raise \in Int /\ g \in Int /\ s \in Int
          BY <1>3, <1>5
        <4>2. QED
          BY <4>1, Distribute
      <3>3. PICK z, w : z = g * s /\ w = raise * s
        OBVIOUS
      <3>4. z \in Nat /\ w \in Nat /\ z + w \in Nat
        BY <1>3, <1>5, <3>3
      <3>5. 1000 * (RoundHalfUp(z + w) - RoundHalfUp(z)) <= w + 999
        BY <3>4, RoundHalfUpGrows
      <3>6. QED
        BY <2>1, <3>1, <3>2, <3>3, <3>5
    <2>3. CASE in.regime \notin Law[v].carfoRegimes
      <3>1. c = RoundHalfUp(0 * s) /\ d = RoundHalfUp(0 * s)
        BY <1>2, <1>4, <1>12, <2>3 DEF CarfoEmployee, CarfoBase
      <3>2. raise * s \in Nat
        BY <1>5
      <3>3. QED
        BY <2>1, <3>1, <3>2
    <2>4. QED
      BY <2>2, <2>3
  <1>14. PICK m, n, w : m = RoundHalfUp(x) /\ n = RoundHalfUp(y) /\ w = raise * r
    OBVIOUS
  <1>15. PICK z : z = raise * s
    OBVIOUS
  <1>16. w \in Nat /\ z \in Nat /\ w + z <= raise * 250 /\ w <= raise * 250
    <2>1. raise * (r + s) = raise * r + raise * s
      BY <1>5
    <2>2. raise * (r + s) <= raise * 250
      <3>1. r + s \in Nat /\ 250 \in Nat /\ raise <= raise
        BY <1>5
      <3>2. QED
        BY <1>5, <3>1, ProductBound
    <2>3. raise * r \in Nat /\ raise * s \in Nat
      BY <1>5
    <2>4. QED
      BY <1>14, <1>15, <2>1, <2>2, <2>3
  <1>17. /\ m \in Nat /\ n \in Nat /\ m <= n /\ 1000 * (n - m) <= w + 999
         /\ c \in Nat /\ d \in Nat /\ 1000 * (d - c) <= z + 999
    BY <1>11, <1>13, <1>14, <1>15
  <1>18. n <= m + raise /\ 4 * (n + d) <= 4 * (m + c) + raise + 7
    BY <1>16, <1>17
  <1>19. QED
    BY <1>1, <1>3, <1>10, <1>12, <1>14, <1>17, <1>18

\* The exonerations do not shrink when the gross less the contributions grows.
LEMMA ExonerationsGrow ==
    ASSUME NEW in \in Input, NEW more \in Input, NEW v \in Versions,
           Gross(in) <= Gross(more),
           Gross(in) - CnssEmployee(in, Law[v]) <= Gross(more) - CnssEmployee(more, Law[v]),
           more.housing = in.housing, more.function = in.function, more.transport = in.transport
    PROVE  Exonerations(in, Law[v]) <= Exonerations(more, Law[v])
  <1>1. PICK g, h, c, d : /\ g = Gross(in) /\ h = Gross(more) /\ c = CnssEmployee(in, Law[v])
                          /\ d = CnssEmployee(more, Law[v])
    OBVIOUS
  <1>2. g \in Nat /\ h \in Nat /\ c \in Nat /\ d \in Nat /\ g <= h /\ g - c <= h - d
    BY <1>1, InputFacts, Contributions
  <1>3. PICK x, y, z, w : /\ x = RoundHalfUp(g * 200) /\ y = RoundHalfUp(h * 200)
                          /\ z = RoundHalfUp(g * 50) /\ w = RoundHalfUp(h * 50)
    OBVIOUS
  <1>4. x \in Int /\ y \in Int /\ x <= y
    <2>1. g * 200 \in Nat /\ h * 200 \in Nat /\ g * 200 <= h * 200
      BY <1>2
    <2>2. QED
      BY <1>3, <2>1, RoundHalfUpBounds, RoundHalfUpMonotone
  <1>5. z \in Int /\ w \in Int /\ z <= w
    <2>1. g * 50 \in Nat /\ h * 50 \in Nat /\ g * 50 <= h * 50
      BY <1>2
    <2>2. QED
      BY <1>3, <2>1, RoundHalfUpBounds, RoundHalfUpMonotone
  <1>6. PICK a, b, t : a = in.housing /\ b = in.function /\ t = in.transport
    OBVIOUS
  <1>7. a \in Nat /\ b \in Nat /\ t \in Nat
    BY <1>6, InputFacts
  <1>8. PICK p, q : p = AtMost(AtMost(x, 75000), a) /\ q = AtMost(AtMost(y, 75000), a)
    OBVIOUS
  <1>9. p \in Int /\ q \in Int /\ p <= q
    BY <1>4, <1>7, <1>8 DEF AtMost
  <1>10. PICK k, l : k = AtMost(AtMost(z, 50000), b) /\ l = AtMost(AtMost(w, 50000), b)
    OBVIOUS
  <1>11. k \in Int /\ l \in Int /\ k <= l
    BY <1>5, <1>7, <1>10 DEF AtMost
  <1>12. PICK m, n : /\ m = AtMost(AtMost(g - c, 20 * 30000), 20 * t)
                     /\ n = AtMost(AtMost(h - d, 20 * 30000), 20 * t)
    OBVIOUS
  <1>13. m \in Int /\ n \in Int /\ m <= n
    BY <1>2, <1>7, <1>12 DEF AtMost
  <1>14. /\ Exonerations(in, Law[v]) = 20 * p + 20 * k + m
         /\ Exonerations(more, Law[v]) = 20 * q + 20 * l + n
    BY <1>1, <1>3, <1>6, <1>8, <1>10, <1>12 DEF Exonerations
  <1>15. QED
    BY <1>9, <1>11, <1>13, <1>14

\* A base that grows by 4 * d at most costs d of tax at most, where the
\* reduction does not shrink.
LEMMA IutsGrows ==
    ASSUME NEW in \in Input, NEW more \in Input, NEW v \in Versions, NEW d \in Nat,
           TaxableBase(more, Law[v]) <= TaxableBase(in, Law[v]) + 4 * d,
           FamilyReduction(in) <= FamilyReduction(more)
    PROVE  IutsOf(more, v) <= IutsOf(in, v) + d
  <1>1. PICK b, c : b = TaxableBase(in, Law[v]) /\ c = TaxableBase(more, Law[v])
    OBVIOUS
  <1>2. b \in Nat /\ c \in Nat /\ c <= b + 4 * d /\ d \in Nat
    BY <1>1, BaseBounds
  <1>3. PICK t : t = Law[v].brackets
    OBVIOUS
  <1>4. Contiguous(t) /\ \A k \in DOMAIN t : t[k].rate <= 250
    BY <1>3, LawFacts
  <1>5. PICK x, y : x = ProgressiveTax(b, t) /\ y = ProgressiveTax(c, t)
    OBVIOUS
  <1>6. x \in Nat /\ y \in Nat
    BY <1>2, <1>3, <1>5, TaxNat
  <1>7. y <= x + 1000 * d
    <2>1. CASE c <= b
      <3>1. y <= x
        BY <1>2, <1>4, <1>5, <2>1, TaxGrows
      <3>2. QED
        BY <1>2, <1>6, <3>1
    <2>2. CASE b <= c
      <3>1. y - x <= 250 * (c - b)
        BY <1>2, <1>4, <1>5, <2>2, TaxGrows
      <3>2. QED
        BY <1>2, <1>6, <3>1
    <2>3. QED
      BY <1>2, <2>1, <2>2
  <1>8. PICK m, n : m = RoundHalfUp(x) /\ n = RoundHalfUp(y)
    OBVIOUS
  <1>9. m \in Nat /\ n \in Nat /\ n <= m + d
    <2>1. d \in Nat /\ x + 1000 * d \in Nat
      BY <1>2, <1>6
    <2>2. RoundHalfUp(y) <= RoundHalfUp(x + 1000 * d)
      BY <1>6, <1>7, <2>1, RoundHalfUpMonotone
    <2>3. RoundHalfUp(x + 1000 * d) = RoundHalfUp(x) + d
      BY <1>6, <2>1, RoundHalfUpShift
    <2>4. QED
      BY <1>6, <1>8, <2>2, <2>3, RoundHalfUpBounds
  <1>10. PICK r, s : r = 1000 - FamilyReduction(in) /\ s = 1000 - FamilyReduction(more)
    OBVIOUS
  <1>11. r \in Nat /\ s \in Nat /\ s <= r /\ r <= 1000
    BY <1>10, ReductionBounds
  <1>12. IutsOf(in, v) = RoundHalfUp(m * r) /\ IutsOf(more, v) = RoundHalfUp(n * s)
    BY <1>1, <1>3, <1>5, <1>8, <1>10, IutsBounds DEF GrossTax
  <1>13. n * s \in Nat /\ m * r \in Nat /\ n * s <= m * r + 1000 * d
    <2>2. d \in Nat /\ m + d \in Nat
      BY <1>9
    <2>3. n * s <= (m + d) * r /\ n * s \in Nat
      BY <1>9, <1>11, <2>2, ProductBound
    <2>4. (m + d) * r = m * r + d * r
      BY <1>9, <1>11, <2>2, Distribute
    <2>5. d * r <= d * 1000 /\ d * r \in Nat
      <3>1. 1000 \in Nat
        OBVIOUS
      <3>2. QED
        BY <1>11, <2>2, <3>1, ProductBound
    <2>6. m * r \in Nat
      BY <1>9, <1>11
    <2>7. QED
      BY <2>2, <2>3, <2>4, <2>5, <2>6
  <1>14. RoundHalfUp(n * s) <= RoundHalfUp(m * r) + d
    <2>1. d \in Nat /\ m * r + 1000 * d \in Nat
      BY <1>2, <1>13
    <2>2. RoundHalfUp(n * s) <= RoundHalfUp(m * r + 1000 * d)
      BY <1>13, <2>1, RoundHalfUpMonotone
    <2>3. RoundHalfUp(m * r + 1000 * d) = RoundHalfUp(m * r) + d
      BY <1>13, <2>1, RoundHalfUpShift
    <2>4. QED
      BY <2>2, <2>3
  <1>15. QED
    BY <1>12, <1>14

\* What is left of the gross grows by the raise at most, in twentieths, and
\* with it the base that is taxed, but for the cut to a hundred.
LEMMA RaisedBase ==
    ASSUME NEW in \in Input, NEW v \in Versions, NEW more \in Input, NEW raise \in Nat,
           more = [in EXCEPT !.base = in.base + raise]
    PROVE  TaxableBase(more, Law[v]) <= TaxableBase(in, Law[v]) + raise + 99
  <1>1. PICK g, c, p, a, e : /\ g = Gross(in) /\ c = CnssEmployee(in, Law[v])
                             /\ p = ProfessionalAbatement(in) /\ a = ChildrenAbatement(in)
                             /\ e = Exonerations(in, Law[v])
    OBVIOUS
  <1>2. PICK d, q, f : /\ d = CnssEmployee(more, Law[v]) /\ q = ProfessionalAbatement(more)
                       /\ f = Exonerations(more, Law[v])
    OBVIOUS
  <1>3. /\ g \in Nat /\ c \in Nat /\ p \in Nat /\ a \in Nat /\ e \in Nat
        /\ d \in Nat /\ q \in Nat /\ f \in Nat
    BY <1>1, <1>2, InputFacts, Contributions, AbatementsNat, ExonerationsNat
  <1>4. Gross(more) = g + raise /\ c <= d /\ d <= c + raise
    BY <1>1, <1>2, RaiseContributions
  <1>5. /\ more.base = in.base + raise /\ more.bonus = in.bonus /\ more.overtime = in.overtime
        /\ more.housing = in.housing /\ more.function = in.function
        /\ more.transport = in.transport /\ more.children = in.children
        /\ more.isCadre = in.isCadre
    BY DEF Input
  <1>6. e <= f
    <2>1. Gross(in) <= Gross(more) /\ Gross(in) - CnssEmployee(in, Law[v])
                                        <= Gross(more) - CnssEmployee(more, Law[v])
      BY <1>1, <1>2, <1>3, <1>4
    <2>2. QED
      BY <1>1, <1>2, <1>5, <2>1, ExonerationsGrow
  <1>7. p <= q
    <2>1. PICK n, r : n = in.base + in.bonus + in.overtime /\ r = IF in.isCadre THEN 200 ELSE 250
      OBVIOUS
    <2>2. n \in Nat /\ r \in Nat /\ more.base + more.bonus + more.overtime = n + raise
      BY <1>5, <2>1, InputFacts
    <2>3. p = RoundHalfUp(n * r) /\ q = RoundHalfUp((n + raise) * r)
      BY <1>1, <1>2, <1>5, <2>1, <2>2 DEF ProfessionalAbatement
    <2>4. n + raise \in Nat /\ n <= n + raise /\ r <= r
      BY <2>2
    <2>5. n * r \in Nat /\ (n + raise) * r \in Nat /\ n * r <= (n + raise) * r
      BY <2>2, <2>4, ProductBound
    <2>6. QED
      BY <2>3, <2>5, RoundHalfUpMonotone
  <1>8. ChildrenAbatement(more) = a
    BY <1>1, <1>5 DEF ChildrenAbatement
  <1>9. PICK x, y : x = Net20(in, Law[v]) /\ y = Net20(more, Law[v])
    OBVIOUS
  <1>10. /\ x = AtLeast(0, 20 * (g - c - p - a) - e)
         /\ y = AtLeast(0, 20 * (g + raise - d - q - a) - f)
    <2>1. PICK r, b : r = Gross(more) /\ b = ChildrenAbatement(more)
      OBVIOUS
    <2>2. /\ x = AtLeast(0, 20 * (g - c - p - a) - e)
          /\ y = AtLeast(0, 20 * (r - d - q - b) - f)
      BY <1>1, <1>2, <1>9, <2>1 DEF Net20
    <2>3. r = g + raise /\ b = a
      BY <1>4, <1>8, <2>1
    <2>4. QED
      BY <1>3, <2>2, <2>3
  <1>11. x \in Nat /\ y \in Nat /\ y <= x + 20 * raise
    BY <1>3, <1>4, <1>6, <1>7, <1>10 DEF AtLeast
  <1>12. /\ TaxableBase(in, Law[v]) = 100 * (x \div 2000)
         /\ TaxableBase(more, Law[v]) = 100 * (y \div 2000)
    BY <1>9, BaseBounds
  <1>13. 100 * (y \div 2000) <= 100 * (x \div 2000) + raise + 99
    BY <1>11
  <1>14. QED
    BY <1>12, <1>13

\* A quarter at most goes into contributions and another into the tax, but
\* for the roundings and the cut to a hundred.
LEMMA RaiseHelps ==
    ASSUME NEW in \in Input, NEW v \in Versions, NEW raise \in Nat \ {0}
    PROVE  /\ NetOf(Raised(in, raise), v) >= NetOf(in, v) - Cliff
           /\ raise >= Worthwhile => NetOf(Raised(in, raise), v) >= NetOf(in, v)
  <1>1. PICK more : more = [in EXCEPT !.base = in.base + raise]
    OBVIOUS
  <1>2. more \in Input
    <2>1. in.base + raise \in Nat
      BY InputFacts
    <2>2. QED
      BY <1>1, <2>1 DEF Input
  <1>3. /\ more.children = in.children /\ more.dependentSpouse = in.dependentSpouse
        /\ more.nontaxable = in.nontaxable
    BY <1>1 DEF Input
  <1>4. FamilyReduction(in) <= FamilyReduction(more)
    <2>1. FamilyReduction(more) = FamilyReduction(in)
      BY <1>3 DEF FamilyReduction, FamilyCharges
    <2>2. FamilyReduction(in) \in Nat
      BY ReductionBounds
    <2>3. QED
      BY <2>1, <2>2
  <1>5. PICK i, j : i = IutsOf(in, v) /\ j = IutsOf(more, v)
    OBVIOUS
  <1>6. i \in Nat /\ j \in Nat /\ 4 * j <= 4 * i + raise + 102
    <2>1. PICK d : d = (raise + 102) \div 4
      OBVIOUS
    <2>2. d \in Nat /\ raise + 99 <= 4 * d /\ 4 * d <= raise + 102
      BY <2>1
    <2>3. TaxableBase(more, Law[v]) <= TaxableBase(in, Law[v]) + 4 * d
      <3>1. TaxableBase(more, Law[v]) <= TaxableBase(in, Law[v]) + raise + 99
        BY <1>1, <1>2, RaisedBase
      <3>2. TaxableBase(more, Law[v]) \in Nat /\ TaxableBase(in, Law[v]) \in Nat
        BY <1>2, BaseBounds
      <3>3. QED
        BY <2>2, <3>1, <3>2
    <2>4. IutsOf(more, v) <= IutsOf(in, v) + d
      BY <1>2, <1>4, <2>2, <2>3, IutsGrows
    <2>5. QED
      BY <1>2, <1>5, <2>2, <2>4, IutsBounds
  <1>7. PICK g, c, k, d, l, n :
          /\ g = Gross(in) /\ n = in.nontaxable
          /\ c = CnssEmployee(in, Law[v]) /\ k = CarfoEmployee(in, Law[v])
          /\ d = CnssEmployee(more, Law[v]) /\ l = CarfoEmployee(more, Law[v])
    OBVIOUS
  <1>8. g \in Nat /\ c \in Nat /\ k \in Nat /\ d \in Nat /\ l \in Nat /\ n \in Nat
    BY <1>2, <1>7, InputFacts, Contributions
  <1>9. Gross(more) = g + raise /\ 4 * (d + l) <= 4 * (c + k) + raise + 7
    BY <1>1, <1>2, <1>7, RaiseContributions
  <1>10. NetOf(in, v) = g - c - k - i + n /\ NetOf(more, v) = g + raise - d - l - j + n
    <2>1. PICK r : r = Gross(more)
      OBVIOUS
    <2>2. NetOf(in, v) = g - c - k - i + n /\ NetOf(more, v) = r - d - l - j + n
      BY <1>2, <1>3, <1>5, <1>7, <2>1, NetPay
    <2>3. r = g + raise
      BY <1>9, <2>1
    <2>4. QED
      BY <1>6, <1>8, <2>2, <2>3
  <1>11. PICK p, q : p = NetOf(in, v) /\ q = NetOf(more, v)
    OBVIOUS
  <1>12. p \in Int /\ q \in Int /\ 4 * q >= 4 * p + 2 * raise - 109
    BY <1>6, <1>8, <1>9, <1>10, <1>11
  <1>13. q >= p - Cliff /\ (raise >= Worthwhile => q >= p)
    BY <1>12 DEF Cliff, Worthwhile
  <1>14. Raised(in, raise) = more
    BY <1>1 DEF Raised
  <1>15. QED
    BY <1>11, <1>13, <1>14

\* A child adds to the abatements and to the reduction, and to nothing else.
LEMMA ChildHelps ==
    ASSUME NEW in \in Input, NEW v \in Versions
    PROVE  NetOf([in EXCEPT !.children = @ + 1], v) >= NetOf(in, v)
  <1>1. PICK more : more = [in EXCEPT !.children = in.children + 1]
    OBVIOUS
  <1>2. more \in Input
    <2>1. in.children + 1 \in Nat
      BY InputFacts
    <2>2. QED
      BY <1>1, <2>1 DEF Input
  <1>3. /\ more.base = in.base /\ more.bonus = in.bonus /\ more.overtime = in.overtime
        /\ more.housing = in.housing /\ more.function = in.function
        /\ more.transport = in.transport /\ more.children = in.children + 1
        /\ more.isCadre = in.isCadre /\ more.dependentSpouse = in.dependentSpouse
        /\ more.nontaxable = in.nontaxable /\ more.regime = in.regime
    BY <1>1 DEF Input
  <1>4. Gross(more) = Gross(in) /\ ProfessionalAbatement(more) = ProfessionalAbatement(in)
    BY <1>3 DEF Gross, ProfessionalAbatement
  <1>5. /\ CnssEmployee(more, Law[v]) = CnssEmployee(in, Law[v])
        /\ CarfoEmployee(more, Law[v]) = CarfoEmployee(in, Law[v])
    BY <1>3, <1>4 DEF CnssEmployee, CarfoEmployee, CarfoBase
  <1>6. Exonerations(more, Law[v]) = Exonerations(in, Law[v])
    BY <1>3, <1>4, <1>5 DEF Exonerations
  <1>7. TaxableBase(more, Law[v]) <= TaxableBase(in, Law[v]) + 4 * 0
    <2>1. PICK g, c, p, a, b, e :
            /\ g = Gross(in) /\ c = CnssEmployee(in, Law[v]) /\ p = ProfessionalAbatement(in)
            /\ a = ChildrenAbatement(in) /\ b = ChildrenAbatement(more)
            /\ e = Exonerations(in, Law[v])
      OBVIOUS
    <2>2. /\ g \in Nat /\ c \in Nat /\ p \in Nat /\ a \in Nat /\ b \in Nat /\ e \in Nat
      BY <1>2, <2>1, InputFacts, Contributions, AbatementsNat, ExonerationsNat
    <2>3. a <= b
      <3>1. PICK m : m = in.children
        OBVIOUS
      <3>2. m \in Nat /\ a = 5000 * AtMost(3, m) /\ b = 5000 * AtMost(3, m + 1)
        BY <1>3, <2>1, <3>1, InputFacts DEF ChildrenAbatement
      <3>3. QED
        BY <3>2 DEF AtMost
    <2>4. PICK x, y : x = Net20(in, Law[v]) /\ y = Net20(more, Law[v])
      OBVIOUS
    <2>5. /\ x = AtLeast(0, 20 * (g - c - p - a) - e)
          /\ y = AtLeast(0, 20 * (g - c - p - b) - e)
      BY <1>4, <1>5, <1>6, <2>1, <2>4 DEF Net20
    <2>6. x \in Nat /\ y \in Nat /\ y <= x
      BY <2>2, <2>3, <2>5 DEF AtLeast
    <2>7. /\ TaxableBase(in, Law[v]) = 100 * (x \div 2000)
          /\ TaxableBase(more, Law[v]) = 100 * (y \div 2000)
      BY <1>2, <2>4, BaseBounds
    <2>8. 100 * (y \div 2000) <= 100 * (x \div 2000) + 4 * 0
      BY <2>6
    <2>9. QED
      BY <2>7, <2>8
  <1>8. FamilyReduction(in) <= FamilyReduction(more)
    <2>1. PICK m, s : m = in.children /\ s = IF in.dependentSpouse THEN 1 ELSE 0
      OBVIOUS
    <2>2. m \in Nat /\ s \in Nat
      BY <2>1, InputFacts
    <2>3. FamilyCharges(in) = AtMost(4, s + m) /\ FamilyCharges(more) = AtMost(4, s + (m + 1))
      BY <1>3, <2>1 DEF FamilyCharges
    <2>4. AtMost(4, s + m) <= AtMost(4, s + (m + 1))
      BY <2>2 DEF AtMost
    <2>5. FamilyCharges(in) <= FamilyCharges(more)
      BY <2>3, <2>4
    <2>6. QED
      BY <1>2, <2>5, ReductionMonotone
  <1>9. PICK i, j : i = IutsOf(in, v) /\ j = IutsOf(more, v)
    OBVIOUS
  <1>10. i \in Nat /\ j \in Nat /\ j <= i
    <2>1. IutsOf(more, v) <= IutsOf(in, v) + 0
      BY <1>2, <1>7, <1>8, IutsGrows
    <2>2. QED
      BY <1>2, <1>9, <2>1, IutsBounds
  <1>11. PICK g, c, k, n : /\ g = Gross(in) /\ n = in.nontaxable
                           /\ c = CnssEmployee(in, Law[v]) /\ k = CarfoEmployee(in, Law[v])
    OBVIOUS
  <1>12. g \in Nat /\ c \in Nat /\ k \in Nat /\ n \in Nat
    BY <1>11, InputFacts, Contributions
  <1>13. NetOf(in, v) = g - c - k - i + n /\ NetOf(more, v) = g - c - k - j + n
    BY <1>2, <1>3, <1>4, <1>5, <1>9, <1>11, NetPay
  <1>14. NetOf(more, v) >= NetOf(in, v)
    BY <1>10, <1>12, <1>13
  <1>15. QED
    BY <1>1, <1>14

----------------------------------------------------------------------------
\* The rows of the tables

\* What a call carries to the row it stores, and that it audits what it stored.
Carried(h) ==
    /\ call[h].pc \in {"version", "brackets", "create", "audit"} =>
         call[h].input \in Inputs /\ call[h].date \in Dates
    /\ call[h].pc \in {"brackets", "create", "audit"} => call[h].version \in Versions
    /\ call[h].pc \in {"create", "audit"} => call[h].slip = FullSlip(call[h].input, call[h].version)
    /\ call[h].pc = "create" => {"pc", "input", "date", "version", "slip"} \subseteq DOMAIN call[h]
    /\ call[h].pc = "audit" => Simulation(h) \in stored

Rows ==
    /\ \A h \in Handlers : Carried(h)
    /\ stored \subseteq SimulationRow
    /\ audited \subseteq stored
    /\ seed.pc \in {"idle", "upsert", "delete", "insert"}

LEMMA CarriedRow ==
    ASSUME NEW h \in Handlers, Carried(h), call[h].pc \in {"create", "audit"}
    PROVE  Simulation(h) \in SimulationRow
  <1>1. /\ call[h].input \in Inputs /\ call[h].date \in Dates /\ call[h].version \in Versions
        /\ call[h].slip = FullSlip(call[h].input, call[h].version)
    BY DEF Carried
  <1>2. call[h].slip \in Slip
    BY <1>1, InputsAssumption, SlipTyped
  <1>3. QED
    BY <1>1, <1>2 DEF Simulation, SimulationRow

LEMMA InitRows == Init => Rows
  BY DEF Init, Rows, Carried, Idle

\* A step of a call leaves the rows of the others stored.
LEMMA RowsOfCall ==
    ASSUME IInv, Rows, NEW h \in Handlers, NEW c, call' = [call EXCEPT ![h] = c],
           UNCHANGED seed, Carried(h)', stored \subseteq stored',
           stored' \subseteq SimulationRow, audited' \subseteq stored'
    PROVE  Rows'
  <1>1. ASSUME NEW g \in Handlers, g # h
        PROVE  Carried(g)'
    <2>1. call'[g] = call[g]
      BY <1>1 DEF IInv
    <2>2. Simulation(g)' = Simulation(g)
      BY <2>1 DEF Simulation
    <2>3. QED
      BY <1>1, <2>1, <2>2 DEF Rows, Carried
  <1>2. QED
    BY <1>1 DEF Rows

LEMMA RowsOfAnswer ==
    ASSUME IInv, Rows, NEW h \in Handlers, Answer(h), UNCHANGED <<seed, stored>>,
           audited' \subseteq stored'
    PROVE  Rows'
  <1>1. call' = [call EXCEPT ![h] = Idle] /\ call'[h].pc = "idle"
    BY DEF IInv, Answer, Idle
  <1>2. Carried(h)'
    BY <1>1 DEF Carried
  <1>3. stored \subseteq stored' /\ stored' \subseteq SimulationRow
    BY DEF Rows
  <1>4. QED
    BY <1>1, <1>2, <1>3, RowsOfCall

LEMMA RowsStep == IInv /\ Rows /\ [Next]_vars => Rows'
  <1> SUFFICES ASSUME IInv, Rows, [Next]_vars PROVE Rows'
    OBVIOUS
  <1>1. ASSUME NEW h \in Handlers, CallSimulate(h) PROVE Rows'
    <2>1. PICK in \in Inputs, d \in Dates :
            call' = [call EXCEPT ![h] = [pc |-> "version", input |-> in, date |-> d]]
      BY <1>1 DEF CallSimulate
    <2>2. call'[h].pc = "version" /\ call'[h].input = in /\ call'[h].date = d
      BY <2>1 DEF IInv
    <2>3. Carried(h)'
      BY <2>2 DEF Carried
    <2>4. UNCHANGED <<seed, stored, audited>>
      BY <1>1 DEF CallSimulate
    <2>5. QED
      BY <2>1, <2>3, <2>4, RowsOfCall DEF Rows
  <1>2. ASSUME NEW h \in Handlers, FindVersion(h) PROVE Rows'
    <2>1. UNCHANGED <<seed, stored, audited>>
      BY <1>2 DEF FindVersion
    <2>2. CASE Answer(h)
      BY <2>1, <2>2, RowsOfAnswer DEF Rows
    <2>3. ASSUME NEW v \in Versions,
                 call' = [call EXCEPT ![h] =
                   [pc |-> "brackets", input |-> call[h].input, date |-> call[h].date,
                    version |-> v]]
          PROVE  Rows'
      <3>1. /\ call'[h].pc = "brackets" /\ call'[h].input = call[h].input
            /\ call'[h].date = call[h].date /\ call'[h].version = v
        BY <2>3 DEF IInv
      <3>2. call[h].input \in Inputs /\ call[h].date \in Dates
        BY <1>2 DEF Rows, Carried, FindVersion
      <3>3. Carried(h)'
        BY <3>1, <3>2 DEF Carried
      <3>4. QED
        BY <2>1, <2>3, <3>3, RowsOfCall DEF Rows
    <2>4. QED
      BY <1>2, <2>2, <2>3 DEF FindVersion
  <1>3. ASSUME NEW h \in Handlers, FindBrackets(h) PROVE Rows'
    <2>1. UNCHANGED <<seed, stored, audited>>
      BY <1>3 DEF FindBrackets
    <2>2. CASE ~Payable(h)
      BY <1>3, <2>1, <2>2, RowsOfAnswer DEF Rows, FindBrackets
    <2>3. CASE Payable(h)
      <3>1. /\ call[h].input \in Inputs /\ call[h].date \in Dates /\ call[h].version \in Versions
            /\ brackets[call[h].version] = Law[call[h].version].brackets
        BY <1>3, <2>3 DEF Rows, Carried, FindBrackets, Payable, IInv, AllBracketsOrNone
      <3>2. call' = [call EXCEPT ![h] =
              [pc |-> "create", input |-> call[h].input, date |-> call[h].date,
               version |-> call[h].version, slip |-> FullSlip(call[h].input, call[h].version)]]
        BY <1>3, <2>3, <3>1 DEF FindBrackets, FullSlip
      <3>3. /\ call'[h].pc = "create" /\ call'[h].input = call[h].input
            /\ call'[h].date = call[h].date /\ call'[h].version = call[h].version
            /\ call'[h].slip = FullSlip(call[h].input, call[h].version)
            /\ {"pc", "input", "date", "version", "slip"} \subseteq DOMAIN call'[h]
        BY <3>2 DEF IInv
      <3>4. Carried(h)'
        BY <3>1, <3>3 DEF Carried
      <3>5. QED
        BY <2>1, <3>2, <3>4, RowsOfCall DEF Rows
    <2>4. QED
      BY <2>2, <2>3
  <1>4. ASSUME NEW h \in Handlers, Create(h) PROVE Rows'
    <2>1. /\ call' = [call EXCEPT ![h] = [call[h] EXCEPT !.pc = "audit"]]
          /\ UNCHANGED <<seed, audited>> /\ stored' = stored \cup {Simulation(h)}
      BY <1>4 DEF Create
    <2>2. /\ call'[h].pc = "audit" /\ call'[h].input = call[h].input
          /\ call'[h].date = call[h].date /\ call'[h].version = call[h].version
          /\ call'[h].slip = call[h].slip
      <3>1. call'[h] = [call[h] EXCEPT !.pc = "audit"]
        BY <2>1 DEF IInv
      <3>2. {"pc", "input", "date", "version", "slip"} \subseteq DOMAIN call[h]
        BY <1>4 DEF Create, Rows, Carried
      <3>3. QED
        BY <3>1, <3>2
    <2>3. Simulation(h)' = Simulation(h)
      BY <2>2 DEF Simulation
    <2>4. call[h].pc = "create" /\ Carried(h)
      BY <1>4 DEF Create, Rows
    <2>5. Carried(h)'
      BY <2>1, <2>2, <2>3, <2>4 DEF Carried
    <2>6. stored' \subseteq SimulationRow /\ audited' \subseteq stored'
      BY <2>1, <2>4, CarriedRow DEF Rows
    <2>7. QED
      BY <2>1, <2>5, <2>6, RowsOfCall
  <1>5. ASSUME NEW h \in Handlers, Audit(h) \/ Fail(h) PROVE Rows'
    <2>1. Answer(h) /\ UNCHANGED <<seed, stored>> /\ audited' \subseteq stored'
      BY <1>5 DEF Audit, Fail, Rows, Carried
    <2>2. QED
      BY <2>1, RowsOfAnswer
  <1>6. ASSUME RunSeed \/ UpsertVersion \/ DeleteBrackets \/ InsertBrackets \/ SeedFails
        PROVE  Rows'
    <2>1. UNCHANGED <<call, stored, audited>>
      BY <1>6 DEF RunSeed, UpsertVersion, DeleteBrackets, InsertBrackets, SeedFails
    <2>2. seed'.pc \in {"idle", "upsert", "delete", "insert"}
      <3>1. ASSUME NEW pc, SeedGoto(pc) PROVE seed'.pc = pc
        BY <3>1 DEF SeedGoto, IInv
      <3>2. QED
        BY <1>6, <3>1 DEF RunSeed, UpsertVersion, DeleteBrackets, InsertBrackets, SeedFails
    <2>3. QED
      BY <2>1, <2>2 DEF Rows, Carried, Simulation
  <1>7. CASE UNCHANGED vars
    BY <1>7 DEF vars, Rows, Carried, Simulation
  <1>8. QED
    BY <1>1, <1>2, <1>3, <1>4, <1>5, <1>6, <1>7 DEF Next

LEMMA RowsInvariant == Spec => [](IInv /\ Rows)
  BY InitInvariant, InvariantStep, InitRows, RowsStep, PTL DEF Spec

\* The tables hold rows of their types, no amount of a slip is negative, and
\* a simulation that has an audit record is stored.
THEOREM PayrollTyped == Spec => []TypeOK
  <1>1. IInv /\ Rows => TypeOK
    <2> SUFFICES ASSUME IInv, Rows PROVE TypeOK
      OBVIOUS
    <2>1. versions \subseteq Versions /\ stored \subseteq SimulationRow /\ audited \subseteq stored
      BY DEF IInv, Rows
    <2>2. brackets \in [Versions -> UNION {{<<>>, Law[v].brackets} : v \in Versions}]
      BY DEF IInv, AllBracketsOrNone
    <2>3. seed \in [pc : {"idle", "upsert", "delete", "insert"}, at : DOMAIN Order]
      BY DEF IInv, Rows
    <2>4. \A h \in Handlers :
            call[h].pc \in {"create", "audit"} => Simulation(h) \in SimulationRow
      BY CarriedRow DEF Rows
    <2>5. QED
      BY <2>1, <2>2, <2>3, <2>4 DEF TypeOK
  <1>2. QED
    BY <1>1, RowsInvariant, PTL

\* The bracket loop taxes every franc once, at the rate of its bracket.
THEOREM TaxIsExact == Spec => []TaxExact
  <1>1. IInv /\ Rows => TaxExact
    <2> SUFFICES ASSUME Rows, NEW h \in Handlers, call[h].pc = "create"
                 PROVE  LET law == Law[call[h].version]
                            base == TaxableBase(call[h].input, law)
                        IN  ProgressiveTax(base, law.brackets) = MarginalTax(base, law.brackets)
      BY DEF TaxExact
    <2>1. call[h].input \in Input /\ call[h].version \in Versions
      BY InputsAssumption DEF Rows, Carried
    <2>2. TaxableBase(call[h].input, Law[call[h].version]) \in Nat
      BY <2>1, BaseBounds
    <2>3. Contiguous(Law[call[h].version].brackets)
      BY <2>1, LawFacts
    <2>4. QED
      BY <2>2, <2>3, TaxIsMarginal
  <1>2. QED
    BY <1>1, RowsInvariant, PTL

\* Whatever the raise of the base salary it costs Cliff at most, one of
\* Worthwhile or more costs nothing, and neither does one more child.
THEOREM RaisesCostLittle == Spec => []RaiseCostsLittle
  <1>1. IInv /\ Rows => RaiseCostsLittle
    <2> SUFFICES ASSUME Rows, NEW h \in Handlers, call[h].pc = "create"
                 PROVE  LET in == call[h].input
                            net == call[h].slip.net
                        IN  /\ \A r \in Raises :
                                 /\ NetOf(Raised(in, r), call[h].version) >= net - Cliff
                                 /\ r >= Worthwhile =>
                                      NetOf(Raised(in, r), call[h].version) >= net
                            /\ NetOf([in EXCEPT !.children = @ + 1], call[h].version) >= net
      BY DEF RaiseCostsLittle
    <2>1. PICK in, v : in = call[h].input /\ v = call[h].version
      OBVIOUS
    <2>2. in \in Input /\ v \in Versions /\ call[h].slip.net = NetOf(in, v)
      BY <2>1, InputsAssumption, NetPay DEF Rows, Carried
    <2>3. /\ \A r \in Raises :
               /\ NetOf(Raised(in, r), v) >= NetOf(in, v) - Cliff
               /\ r >= Worthwhile => NetOf(Raised(in, r), v) >= NetOf(in, v)
          /\ NetOf([in EXCEPT !.children = @ + 1], v) >= NetOf(in, v)
      BY <2>2, RaisesAssumption, RaiseHelps, ChildHelps
    <2>4. QED
      BY <2>1, <2>2, <2>3
  <1>2. QED
    BY <1>1, RowsInvariant, PTL
=============================================================================
