------------------------------ MODULE PayrollBf ------------------------------
(***************************************************************************)
(* The Burkina Faso payroll simulation: PayrollBfService.simulate resolves *)
(* the legal version in force, reads its tax brackets, has                 *)
(* PayrollBfCalculator compute the pay slip, stores it and audits it, each *)
(* in a transaction of its own, while the seed script of a deployment      *)
(* rewrites the versions and their brackets, also one statement at a time. *)
(* Amounts are whole XOF, rates per mille, exact as in Decimal.            *)
(***************************************************************************)
EXTENDS Integers, FiniteSets, Sequences

CONSTANTS
    Handlers,   \* simulate calls in flight
    Inputs,     \* the pay data of a request body
    Dates,      \* the payrollDate of a request body
    Order,      \* the versions the seed writes, in its order
    Law,        \* what it writes for each: dates, rates, brackets
    Raises,     \* raises of a base salary that the properties compare
    MaxStored,  \* bound on the rows of PayrollBfSimulation
    Faults,     \* TRUE when an await may throw or the seed may stop
    None        \* null

Versions == {Order[k] : k \in DOMAIN Order}

Input == [regime : {"PRIVE", "PUBLIC_CARFO"}, base : Nat, bonus : Nat, overtime : Nat,
          nontaxable : Nat, housing : Nat, function : Nat, transport : Nat,
          children : Nat, dependentSpouse : BOOLEAN, isCadre : BOOLEAN]
Bracket == [lower : Nat, upper : Nat \cup {None}, rate : Nat]
LegalVersion == [start : Nat, end : Nat \cup {None},
                 cnssEmployee : Nat, cnssEmployer : Nat, cnssCeiling : Nat,
                 carfoEmployee : Nat, carfoEmployer : Nat, carfoRegimes : SUBSET STRING,
                 smig : Nat, smigControl : BOOLEAN, brackets : Seq(Bracket)]

ASSUME InputsAssumption == Inputs \subseteq Input /\ Dates \subseteq Nat
ASSUME RaisesAssumption == Raises \subseteq Nat \ {0}
ASSUME LawAssumption ==
    /\ DOMAIN Law = Versions
    /\ \A v \in Versions : Law[v] \in LegalVersion
\* The seed writes at least one version, and one ends when the next begins or before.
ASSUME SuccessionAssumption ==
    /\ Len(Order) \in Nat \ {0} /\ DOMAIN Order = 1..Len(Order)
    /\ \A v, w \in Versions : v # w =>
         \/ Law[w].start < Law[v].start
         \/ /\ Law[v].start < Law[w].start
            /\ Law[v].end # None /\ Law[v].end <= Law[w].start
\* A version that ends is followed by one that begins on that day.
ASSUME ContinuityAssumption == \A v \in Versions :
    \/ Law[v].end = None
    \/ Law[v].start < Law[v].end /\ \E w \in Versions : Law[w].start = Law[v].end
\* Each bracket begins where the one below it ends, and only the last is open.
ASSUME BracketsAssumption == \A v \in Versions :
    LET table == Law[v].brackets IN
    /\ table # <<>> /\ table[Len(table)].upper = None
    /\ \A k \in 1..Len(table) - 1 :
         /\ table[k].upper # None /\ table[k].lower <= table[k].upper
         /\ table[k + 1].lower = table[k].upper
\* An employee's contributions take at most a quarter, and so does a bracket.
ASSUME RatesAssumption == \A v \in Versions :
    /\ Law[v].cnssEmployee + Law[v].carfoEmployee <= 250
    /\ \A k \in DOMAIN Law[v].brackets : Law[v].brackets[k].rate <= 250
ASSUME BoundsAssumption == MaxStored \in Nat /\ Faults \in BOOLEAN
ASSUME NoneAssumption == None \notin Versions \cup Nat

VARIABLES
    versions,   \* table PayrollBfLegalVersion
    brackets,   \* table PayrollBfIutsBracket: the rows of each version
    seed,       \* what the seed script does next
    call,       \* what each handler is doing
    stored,     \* table PayrollBfSimulation
    audited     \* table AuditLog: the simulations with a record

vars == <<versions, brackets, seed, call, stored, audited>>

----------------------------------------------------------------------------
\* PayrollBfCalculator

AtMost(a, b) == IF a <= b THEN a ELSE b
AtLeast(a, b) == IF a >= b THEN a ELSE b

\* roundHalfUp of n thousandths.
RoundHalfUp(n) == (n + 500) \div 1000

Gross(in) == in.base + in.bonus + in.overtime + in.housing + in.function + in.transport

CnssEmployee(in, law) == RoundHalfUp(AtMost(Gross(in), law.cnssCeiling) * law.cnssEmployee)
CnssEmployer(in, law) == RoundHalfUp(AtMost(Gross(in), law.cnssCeiling) * law.cnssEmployer)

CarfoBase(in, law) == IF in.regime \in law.carfoRegimes THEN Gross(in) ELSE 0
CarfoEmployee(in, law) == RoundHalfUp(CarfoBase(in, law) * law.carfoEmployee)
CarfoEmployer(in, law) == RoundHalfUp(CarfoBase(in, law) * law.carfoEmployer)

\* The exonerations in twentieths of a franc: the one for transport is not
\* rounded, and a twentieth of an integer.
Exonerations(in, law) ==
    20 * AtMost(AtMost(RoundHalfUp(Gross(in) * 200), 75000), in.housing)
      + 20 * AtMost(AtMost(RoundHalfUp(Gross(in) * 50), 50000), in.function)
      + AtMost(AtMost(Gross(in) - CnssEmployee(in, law), 20 * 30000), 20 * in.transport)

ProfessionalAbatement(in) ==
    RoundHalfUp((in.base + in.bonus + in.overtime) * (IF in.isCadre THEN 200 ELSE 250))

ChildrenAbatement(in) == 5000 * AtMost(3, in.children)

\* Mutant of TaxableBase: the RNI is cut to the thousand below.
TaxableBaseToThousand(in, law) ==
    1000 * (AtLeast(0, 20 * (Gross(in) - CnssEmployee(in, law)
                               - ProfessionalAbatement(in) - ChildrenAbatement(in))
                         - Exonerations(in, law)) \div 20000)

\* The RNI cut to the hundred below: 2000 twentieths.
TaxableBase(in, law) ==
    100 * (AtLeast(0, 20 * (Gross(in) - CnssEmployee(in, law)
                              - ProfessionalAbatement(in) - ChildrenAbatement(in))
                        - Exonerations(in, law)) \div 2000)

\* Mutants of InBracket: the base below a bracket counts negative; the whole
\* of the base is taxed at the bracket it reaches.
InBracketSigned(base, b) == (IF b.upper = None THEN base ELSE AtMost(base, b.upper)) - b.lower
InBracketWhole(base, b) ==
    IF b.lower < base /\ (b.upper = None \/ base <= b.upper) THEN base ELSE 0

\* The part of the base that lies in a bracket.
InBracket(base, b) ==
    AtLeast(0, (IF b.upper = None THEN base ELSE AtMost(base, b.upper)) - b.lower)

\* computeProgressiveTax, in thousandths.
ProgressiveTax(base, table) ==
    LET total[k \in 0..Len(table)] ==
          IF k = 0 THEN 0 ELSE total[k - 1] + InBracket(base, table[k]) * table[k].rate
    IN  total[Len(table)]

FamilyCharges(in) == AtMost(4, (IF in.dependentSpouse THEN 1 ELSE 0) + in.children)
FamilyReduction(in) == <<0, 80, 100, 120, 140>>[FamilyCharges(in) + 1]

Iuts(in, law, table) ==
    RoundHalfUp(RoundHalfUp(ProgressiveTax(TaxableBase(in, law), table))
                  * (1000 - FamilyReduction(in)))

MeetsSmig(in, law) == ~law.smigControl \/ in.base >= law.smig

\* calculate: the pay slip.
PaySlip(in, law, table) ==
    LET iuts == Iuts(in, law, table)
    IN  [gross |-> Gross(in),
         cnssEmployee |-> CnssEmployee(in, law), cnssEmployer |-> CnssEmployer(in, law),
         carfoEmployee |-> CarfoEmployee(in, law), carfoEmployer |-> CarfoEmployer(in, law),
         iuts |-> iuts,
         net |-> Gross(in) - CnssEmployee(in, law) - CarfoEmployee(in, law) - iuts
                   + in.nontaxable]

----------------------------------------------------------------------------
\* PayrollBfService.simulate

Idle == [pc |-> "idle"]
Answer(h) == call' = [call EXCEPT ![h] = Idle]

CallSimulate(h) ==
    /\ call[h].pc = "idle" /\ Cardinality(stored) < MaxStored
    /\ \E in \in Inputs, d \in Dates :
        call' = [call EXCEPT ![h] = [pc |-> "version", input |-> in, date |-> d]]
    /\ UNCHANGED <<versions, brackets, seed, stored, audited>>

\* Mutant of InForce: the end of a version is taken to belong to it.
InForceToEnd(d) ==
    {v \in versions : Law[v].start <= d /\ (Law[v].end = None \/ Law[v].end >= d)}

\* The versions findMany selects.
InForce(d) ==
    {v \in versions : Law[v].start <= d /\ (Law[v].end = None \/ Law[v].end > d)}

FindVersion(h) ==
    /\ call[h].pc = "version"
    /\ \/ \E v \in Versions :
            /\ InForce(call[h].date) = {v}
            /\ call' = [call EXCEPT ![h] =
                 [pc |-> "brackets", input |-> call[h].input, date |-> call[h].date,
                  version |-> v]]
       \/ /\ Cardinality(InForce(call[h].date)) # 1
          /\ Answer(h)                                                \* 400
    /\ UNCHANGED <<versions, brackets, seed, stored, audited>>

\* Mutant of Payable: a version without brackets is calculated with.
PayableWithoutBrackets(h) == MeetsSmig(call[h].input, Law[call[h].version])

\* Neither of the two refusals before the pay slip is returned.
Payable(h) ==
    /\ brackets[call[h].version] # <<>>
    /\ MeetsSmig(call[h].input, Law[call[h].version])

\* include: the brackets are a second query; then the calculation.
FindBrackets(h) ==
    /\ call[h].pc = "brackets"
    /\ IF Payable(h)
         THEN call' = [call EXCEPT ![h] =
                [pc |-> "create", input |-> call[h].input, date |-> call[h].date,
                 version |-> call[h].version,
                 slip |-> PaySlip(call[h].input, Law[call[h].version],
                                  brackets[call[h].version])]]
         ELSE Answer(h)                                               \* 400
    /\ UNCHANGED <<versions, brackets, seed, stored, audited>>

Simulation(h) == [input |-> call[h].input, date |-> call[h].date,
                  version |-> call[h].version, slip |-> call[h].slip]

Create(h) ==
    /\ call[h].pc = "create"
    /\ stored' = stored \cup {Simulation(h)}
    /\ call' = [call EXCEPT ![h].pc = "audit"]
    /\ UNCHANGED <<versions, brackets, seed, audited>>

Audit(h) ==
    /\ call[h].pc = "audit"
    /\ audited' = audited \cup {Simulation(h)}
    /\ Answer(h)
    /\ UNCHANGED <<versions, brackets, seed, stored>>

Fail(h) ==
    /\ Faults /\ call[h].pc # "idle"
    /\ Answer(h)
    /\ UNCHANGED <<versions, brackets, seed, stored, audited>>

----------------------------------------------------------------------------
\* prisma/seed.ts

Seeding == Order[seed.at]
SeedGoto(pc) == seed' = [seed EXCEPT !.pc = pc]

UpsertVersion ==
    /\ seed.pc = "upsert"
    /\ versions' = versions \cup {Seeding}
    /\ SeedGoto("delete")
    /\ UNCHANGED <<brackets, call, stored, audited>>

DeleteBrackets ==
    /\ seed.pc = "delete"
    /\ brackets' = [brackets EXCEPT ![Seeding] = <<>>]
    /\ SeedGoto("insert")
    /\ UNCHANGED <<versions, call, stored, audited>>

InsertBrackets ==
    /\ seed.pc = "insert"
    /\ brackets' = [brackets EXCEPT ![Seeding] = Law[Seeding].brackets]
    /\ seed' = IF seed.at < Len(Order) THEN [pc |-> "upsert", at |-> seed.at + 1]
               ELSE [pc |-> "idle", at |-> 1]
    /\ UNCHANGED <<versions, call, stored, audited>>

\* A deployment runs the script, for the first time or again.
RunSeed ==
    /\ seed.pc = "idle"
    /\ SeedGoto("upsert")
    /\ UNCHANGED <<versions, brackets, call, stored, audited>>

\* process.exit(1) at any statement; what was written stays.
SeedFails ==
    /\ Faults /\ seed.pc # "idle"
    /\ seed' = [pc |-> "idle", at |-> 1]
    /\ UNCHANGED <<versions, brackets, call, stored, audited>>

Init ==
    /\ versions = {} /\ brackets = [v \in Versions |-> <<>>]
    /\ seed = [pc |-> "idle", at |-> 1]
    /\ call = [h \in Handlers |-> Idle]
    /\ stored = {} /\ audited = {}

Next ==
    \/ \E h \in Handlers : \/ CallSimulate(h) \/ FindVersion(h) \/ FindBrackets(h)
                           \/ Create(h) \/ Audit(h) \/ Fail(h)
    \/ RunSeed \/ UpsertVersion \/ DeleteBrackets \/ InsertBrackets \/ SeedFails

Spec == Init /\ [][Next]_vars

----------------------------------------------------------------------------
\* Properties

Slip == [gross : Nat, cnssEmployee : Nat, cnssEmployer : Nat, carfoEmployee : Nat,
         carfoEmployer : Nat, iuts : Nat, net : Nat]
SimulationRow == [input : Inputs, date : Dates, version : Versions, slip : Slip]

\* The type also says that no amount of a slip is negative, the net included.
TypeOK ==
    /\ versions \subseteq Versions
    /\ brackets \in [Versions -> UNION {{<<>>, Law[v].brackets} : v \in Versions}]
    /\ seed \in [pc : {"idle", "upsert", "delete", "insert"}, at : DOMAIN Order]
    /\ \A h \in Handlers : call[h].pc \in {"create", "audit"} => Simulation(h) \in SimulationRow
    /\ stored \subseteq SimulationRow
    /\ audited \subseteq stored

\* Once the seed has written every version a date has at most one in force,
\* and on the day one version ends the next begins: simulate can always resolve it.
OneVersionInForce ==
    versions = Versions =>
        \A d \in Dates : (\E v \in Versions : Law[v].start <= d) =>
            Cardinality(InForce(d)) = 1

\* The version a date falls under: the last one to start by then.
LawAt(d) == CHOOSE v \in Versions :
    /\ Law[v].start <= d
    /\ \A w \in Versions : Law[w].start <= d => Law[w].start <= Law[v].start

\* Every stored simulation is the pay slip of the law its date falls under,
\* with all of its brackets, even if the seed was rewriting them meanwhile
\* or had stopped half way.
StoredUnderItsLaw ==
    \A s \in stored :
        s.slip = PaySlip(s.input, Law[LawAt(s.date)], Law[LawAt(s.date)].brackets)

\* What a bracket adds to the rate of the one below it.
Increment(k, table) == table[k].rate - (IF k = 1 THEN 0 ELSE table[k - 1].rate)

\* Every franc above the lower bound of a bracket adds its increment.
MarginalTax(base, table) ==
    LET total[k \in 0..Len(table)] ==
          IF k = 0 THEN 0
          ELSE total[k - 1] + Increment(k, table) * AtLeast(0, base - table[k].lower)
    IN  total[Len(table)]

\* The tax of a slip is what every franc above the lower bound of a bracket
\* adds: computeProgressiveTax leaves no gap between brackets and taxes
\* nothing twice, whatever the base.
TaxExact ==
    \A h \in Handlers : call[h].pc = "create" =>
        LET law == Law[call[h].version]
            base == TaxableBase(call[h].input, law)
        IN  ProgressiveTax(base, law.brackets) = MarginalTax(base, law.brackets)

NetOf(in, v) == PaySlip(in, Law[v], Law[v].brackets).net
Raised(in, r) == [in EXCEPT !.base = @ + r]

\* The most a raise may cost, and the raise from which on none does.
Cliff == 26
Worthwhile == 53

\* The cut of the base to a hundred makes a cliff: one franc more can add a
\* hundred to the base and so cost more tax than it brings. No ceiling,
\* rounding or bracket adds to it: whatever the raise of the base salary, net
\* pay falls by Cliff at most, by nothing from Worthwhile on, and never by
\* having one more child.
RaiseCostsLittle ==
    \A h \in Handlers : call[h].pc = "create" =>
        LET in == call[h].input
            net == call[h].slip.net
        IN  /\ \A r \in Raises :
                 /\ NetOf(Raised(in, r), call[h].version) >= net - Cliff
                 /\ r >= Worthwhile => NetOf(Raised(in, r), call[h].version) >= net
            /\ NetOf([in EXCEPT !.children = @ + 1], call[h].version) >= net
=============================================================================
