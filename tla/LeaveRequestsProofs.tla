------------------------ MODULE LeaveRequestsProofs ------------------------
(***************************************************************************)
(* Proofs that the leave module's safety properties hold for every number  *)
(* of concurrent calls, of requests, of employees and of months.           *)
(***************************************************************************)
EXTENDS LeaveInvariant, FiniteSetTheorems, TLAPS

----------------------------------------------------------------------------
\* Sums over finite sets

\* A nonempty family of subsets of a finite set has a smallest member: the
\* form induction over finite sets takes below.
LEMMA SmallestSubset ==
    ASSUME NEW S, IsFiniteSet(S), NEW F \in SUBSET SUBSET S, F # {}
    PROVE  \E T \in F : \A U \in F : U \subseteq T => U = T
  <1>1. IsWellFoundedOn(StrictSubsetOrdering(S), SUBSET S)
    BY FS_StrictSubsetOrderingWellFounded, FS_FiniteSubsetsOfFinite
  <1>2. \E T \in F : \A U \in F : <<U, T>> \notin StrictSubsetOrdering(S)
    BY <1>1, WFMin
  <1>3. QED
    BY <1>2 DEF StrictSubsetOrdering

\* The element a sum takes first.
First(s) == CHOOSE x \in s : TRUE

\* The recursion behind SumFunctionOnSet, over the subsets of S.
SumsOver(f, S, it) ==
    it = [s \in SUBSET S |-> IF s = {} THEN 0 ELSE f[First(s)] + it[s \ {First(s)}]]

LEMMA SumChosen ==
    ASSUME NEW f, NEW S
    PROVE  SumFunctionOnSet(f, S) = (CHOOSE it : SumsOver(f, S, it))[S]
  BY DEF SumFunctionOnSet, FoldFunctionOnSet, MapThenFoldSet, SumsOver, First

LEMMA FirstIn == ASSUME NEW s, s # {} PROVE First(s) \in s
  BY DEF First

\* Two solutions of the recursion agree where both are defined.
LEMMA SumsAgree ==
    ASSUME NEW f, NEW S, NEW T \in SUBSET S, IsFiniteSet(T), NEW i, NEW j,
           SumsOver(f, S, i), SumsOver(f, T, j)
    PROVE  \A s \in SUBSET T : i[s] = j[s]
  <1> DEFINE Bad == {s \in SUBSET T : i[s] # j[s]}
  <1>0. Bad \in SUBSET SUBSET T
    OBVIOUS
  <1> SUFFICES ASSUME Bad # {} PROVE FALSE
    OBVIOUS
  <1>1. PICK s \in Bad : \A u \in Bad : u \subseteq s => u = s
    <2> HIDE DEF Bad
    <2> QED BY <1>0, SmallestSubset
  <1>2. s # {}
    BY DEF SumsOver
  <1>3. First(s) \in s /\ s \ {First(s)} \in SUBSET T /\ s \ {First(s)} \notin Bad
    BY <1>1, <1>2, FirstIn
  <1>4. i[s] = f[First(s)] + i[s \ {First(s)}] /\ j[s] = f[First(s)] + j[s \ {First(s)}]
    BY <1>2 DEF SumsOver
  <1>5. QED
    BY <1>1, <1>3, <1>4

\* The recursion has a solution over every finite set.
LEMMA SumsExist ==
    ASSUME NEW f, NEW S, IsFiniteSet(S)
    PROVE  \E it : SumsOver(f, S, it)
  <1> DEFINE Bad == {T \in SUBSET S : ~ \E it : SumsOver(f, T, it)}
  <1>0. Bad \in SUBSET SUBSET S
    OBVIOUS
  <1> SUFFICES ASSUME Bad # {} PROVE FALSE
    OBVIOUS
  <1>1. PICK T \in Bad : \A U \in Bad : U \subseteq T => U = T
    <2> HIDE DEF Bad
    <2> QED BY <1>0, SmallestSubset
  <1> DEFINE G == [U \in SUBSET T |-> CHOOSE it : SumsOver(f, U, it)]
             h == [s \in SUBSET T |->
                     IF s = {} THEN 0
                     ELSE f[First(s)] + G[s \ {First(s)}][s \ {First(s)}]]
  <1>2. ASSUME NEW U \in SUBSET T, U # T PROVE SumsOver(f, U, G[U])
    BY <1>1, <1>2
  <1>3. ASSUME NEW u \in SUBSET T, u # T PROVE h[u] = G[u][u]
    <2>1. G[u] = [s \in SUBSET u |-> IF s = {} THEN 0
                                     ELSE f[First(s)] + G[u][s \ {First(s)}]]
      BY <1>2, <1>3 DEF SumsOver
    <2>2. CASE u = {}
      BY <2>1, <2>2
    <2>3. CASE u # {}
      <3> DEFINE v == u \ {First(u)}
      <3>1. v \in SUBSET u /\ v # u /\ v \in SUBSET T /\ v # T
        BY <1>3, <2>3, FirstIn
      <3>2. IsFiniteSet(v)
        BY <3>1, FS_Subset
      <3>3. SumsOver(f, u, G[u]) /\ SumsOver(f, v, G[v])
        BY <1>2, <1>3, <3>1
      <3>4. G[u][v] = G[v][v]
        <4> HIDE DEF v, G
        <4>1. ASSUME NEW i, NEW j, SumsOver(f, u, i), SumsOver(f, v, j)
              PROVE  i[v] = j[v]
          <5>1. \A s \in SUBSET v : i[s] = j[s]
            BY <3>1, <3>2, <4>1, SumsAgree
          <5>2. QED
            BY <5>1
        <4>2. QED
          BY <3>3, <4>1
      <3>5. G[u][u] = f[First(u)] + G[u][v]
        BY <2>1, <2>3
      <3>6. h[u] = f[First(u)] + G[v][v]
        BY <1>3, <2>3
      <3>7. QED
        BY <3>4, <3>5, <3>6
    <2>4. QED
      BY <2>2, <2>3
  <1>4. SumsOver(f, T, h)
    <2>1. ASSUME NEW s \in SUBSET T, s # {}
          PROVE  h[s] = f[First(s)] + h[s \ {First(s)}]
      <3> DEFINE u == s \ {First(s)}
      <3>1. u \in SUBSET T /\ u # T
        BY <2>1, FirstIn
      <3>2. h[u] = G[u][u]
        BY <3>1, <1>3
      <3>3. h[s] = f[First(s)] + G[u][u]
        BY <2>1
      <3>4. QED
        BY <3>2, <3>3
    <2>2. h[{}] = 0 /\ h = [s \in SUBSET T |-> h[s]]
      OBVIOUS
    <2> HIDE DEF h
    <2>3. \A s \in SUBSET T : h[s] = IF s = {} THEN 0 ELSE f[First(s)] + h[s \ {First(s)}]
      BY <2>1, <2>2
    <2>4. h = [s \in SUBSET T |-> IF s = {} THEN 0 ELSE f[First(s)] + h[s \ {First(s)}]]
      BY <2>2, <2>3
    <2>5. QED
      BY <2>4 DEF SumsOver
  <1>5. QED
    BY <1>4, <1>1

LEMMA SumEmpty == ASSUME NEW f PROVE SumFunctionOnSet(f, {}) = 0
  <1>1. SumsOver(f, {}, CHOOSE it : SumsOver(f, {}, it))
    BY SumsExist, FS_EmptySet
  <1>2. QED
    BY <1>1, SumChosen DEF SumsOver

LEMMA SumFirst ==
    ASSUME NEW f, NEW S, IsFiniteSet(S), S # {}
    PROVE  SumFunctionOnSet(f, S) = f[First(S)] + SumFunctionOnSet(f, S \ {First(S)})
  <1> DEFINE T == S \ {First(S)}
             i == CHOOSE it : SumsOver(f, S, it)
             j == CHOOSE it : SumsOver(f, T, it)
  <1>1. IsFiniteSet(T) /\ T \in SUBSET S
    BY FS_Subset
  <1>2. SumsOver(f, S, i) /\ SumsOver(f, T, j)
    BY <1>1, SumsExist
  <1>3. SumFunctionOnSet(f, S) = i[S] /\ SumFunctionOnSet(f, T) = j[T]
    BY SumChosen
  <1> HIDE DEF i, j
  <1>4. i[S] = f[First(S)] + i[T]
    BY <1>2 DEF SumsOver
  <1> HIDE DEF T
  <1>5. i[T] = j[T]
    BY <1>1, <1>2, SumsAgree
  <1>6. QED
    BY <1>3, <1>4, <1>5 DEF T

\* The sum of integers is an integer, of naturals a natural.
LEMMA SumInt ==
    ASSUME NEW S, IsFiniteSet(S), NEW f, \A s \in S : f[s] \in Int
    PROVE  SumFunctionOnSet(f, S) \in Int
  <1> DEFINE Bad == {T \in SUBSET S : SumFunctionOnSet(f, T) \notin Int}
  <1>0. Bad \in SUBSET SUBSET S
    OBVIOUS
  <1> SUFFICES ASSUME Bad # {} PROVE FALSE
    OBVIOUS
  <1>1. PICK T \in Bad : \A U \in Bad : U \subseteq T => U = T
    <2> HIDE DEF Bad
    <2> QED BY <1>0, SmallestSubset
  <1>2. IsFiniteSet(T)
    BY FS_Subset
  <1>3. T # {}
    BY SumEmpty
  <1>4. SumFunctionOnSet(f, T \ {First(T)}) \in Int /\ First(T) \in S
    BY <1>1, <1>3, FirstIn
  <1>5. QED
    BY <1>2, <1>3, <1>4, SumFirst

LEMMA SumNat ==
    ASSUME NEW S, IsFiniteSet(S), NEW f, \A s \in S : f[s] \in Nat
    PROVE  SumFunctionOnSet(f, S) \in Nat
  <1> DEFINE Bad == {T \in SUBSET S : SumFunctionOnSet(f, T) \notin Nat}
  <1>0. Bad \in SUBSET SUBSET S
    OBVIOUS
  <1> SUFFICES ASSUME Bad # {} PROVE FALSE
    OBVIOUS
  <1>1. PICK T \in Bad : \A U \in Bad : U \subseteq T => U = T
    <2> HIDE DEF Bad
    <2> QED BY <1>0, SmallestSubset
  <1>2. IsFiniteSet(T)
    BY FS_Subset
  <1>3. T # {}
    BY SumEmpty
  <1>4. SumFunctionOnSet(f, T \ {First(T)}) \in Nat /\ First(T) \in S
    BY <1>1, <1>3, FirstIn
  <1>5. QED
    BY <1>2, <1>3, <1>4, SumFirst

\* Any element may be taken first.
LEMMA SumRemove ==
    ASSUME NEW S, IsFiniteSet(S), NEW f, \A s \in S : f[s] \in Int, NEW x \in S
    PROVE  SumFunctionOnSet(f, S) = f[x] + SumFunctionOnSet(f, S \ {x})
  <1> DEFINE Splits(T, y) == SumFunctionOnSet(f, T) = f[y] + SumFunctionOnSet(f, T \ {y})
             Bad == {T \in SUBSET S : \E y \in T : ~Splits(T, y)}
  <1>0. Bad \in SUBSET SUBSET S
    OBVIOUS
  <1> SUFFICES ASSUME Bad # {} PROVE FALSE
    OBVIOUS
  <1>1. PICK T \in Bad : \A U \in Bad : U \subseteq T => U = T
    <2> HIDE DEF Bad
    <2> QED BY <1>0, SmallestSubset
  <1>2. PICK y \in T : ~Splits(T, y)
    BY <1>1
  <1> DEFINE z == First(T)
  <1>3. z \in T /\ IsFiniteSet(T) /\ Splits(T, z)
    BY FirstIn, FS_Subset, SumFirst
  <1>4. z # y
    BY <1>2, <1>3
  <1>5. Splits(T \ {y}, z) /\ Splits(T \ {z}, y)
    BY <1>1, <1>2, <1>3, <1>4
  <1>6. (T \ {y}) \ {z} = (T \ {z}) \ {y}
    OBVIOUS
  <1>7. SumFunctionOnSet(f, (T \ {z}) \ {y}) \in Int /\ f[y] \in Int /\ f[z] \in Int
    BY <1>3, FS_Subset, SumInt
  <1> HIDE DEF z
  <1>8. SumFunctionOnSet(f, T) = f[z] + (f[y] + SumFunctionOnSet(f, (T \ {z}) \ {y}))
    BY <1>3, <1>5
  <1>9. SumFunctionOnSet(f, T \ {y}) = f[z] + SumFunctionOnSet(f, (T \ {z}) \ {y})
    BY <1>5, <1>6
  <1>10. SumFunctionOnSet(f, T) = f[y] + SumFunctionOnSet(f, T \ {y})
    BY <1>7, <1>8, <1>9
  <1>11. QED
    BY <1>2, <1>10

LEMMA SumAdd ==
    ASSUME NEW S, IsFiniteSet(S), NEW f, NEW x, x \notin S, \A s \in S \cup {x} : f[s] \in Int
    PROVE  SumFunctionOnSet(f, S \cup {x}) = f[x] + SumFunctionOnSet(f, S)
  <1>1. IsFiniteSet(S \cup {x}) /\ (S \cup {x}) \ {x} = S
    BY FS_AddElement
  <1>2. QED
    BY <1>1, SumRemove

\* The sum depends only on the values summed.
LEMMA SumSame ==
    ASSUME NEW S, IsFiniteSet(S), NEW f, NEW g, \A s \in S : f[s] = g[s]
    PROVE  SumFunctionOnSet(f, S) = SumFunctionOnSet(g, S)
  <1> DEFINE Bad == {T \in SUBSET S : SumFunctionOnSet(f, T) # SumFunctionOnSet(g, T)}
  <1>0. Bad \in SUBSET SUBSET S
    OBVIOUS
  <1> SUFFICES ASSUME Bad # {} PROVE FALSE
    OBVIOUS
  <1>1. PICK T \in Bad : \A U \in Bad : U \subseteq T => U = T
    <2> HIDE DEF Bad
    <2> QED BY <1>0, SmallestSubset
  <1>2. IsFiniteSet(T)
    BY FS_Subset
  <1>3. T # {}
    BY SumEmpty
  <1>4. /\ SumFunctionOnSet(f, T \ {First(T)}) = SumFunctionOnSet(g, T \ {First(T)})
        /\ First(T) \in S
    BY <1>1, <1>3, FirstIn
  <1>5. QED
    BY <1>2, <1>3, <1>4, SumFirst

\* Summing more naturals gives no less.
LEMMA SumMonotone ==
    ASSUME NEW S, IsFiniteSet(S), NEW T \in SUBSET S, NEW f, \A s \in S : f[s] \in Nat
    PROVE  SumFunctionOnSet(f, T) <= SumFunctionOnSet(f, S)
  <1> DEFINE Bad == {U \in SUBSET S : T \subseteq U
                       /\ ~(SumFunctionOnSet(f, T) <= SumFunctionOnSet(f, U))}
  <1>0. Bad \in SUBSET SUBSET S
    OBVIOUS
  <1> SUFFICES ASSUME Bad # {} PROVE FALSE
    OBVIOUS
  <1>1. PICK U \in Bad : \A V \in Bad : V \subseteq U => V = U
    <2> HIDE DEF Bad
    <2> QED BY <1>0, SmallestSubset
  <1>2. IsFiniteSet(U) /\ IsFiniteSet(T) /\ SumFunctionOnSet(f, T) \in Nat
    BY FS_Subset, SumNat
  <1>3. PICK x \in U : x \notin T
    <2>1. U # T
      BY <1>1, <1>2
    <2>2. QED
      BY <2>1, <1>1
  <1>4. SumFunctionOnSet(f, T) <= SumFunctionOnSet(f, U \ {x})
    BY <1>1, <1>3
  <1>5. SumFunctionOnSet(f, U) = f[x] + SumFunctionOnSet(f, U \ {x})
    BY <1>2, SumRemove
  <1>6. SumFunctionOnSet(f, U \ {x}) \in Nat /\ f[x] \in Nat
    BY <1>2, FS_Subset, SumNat
  <1>7. QED
    BY <1>1, <1>2, <1>4, <1>5, <1>6

----------------------------------------------------------------------------
USE TenancyAssumption, DtosAssumption, MonthsAssumption, NoneAssumption

\* The initial state is well typed and satisfies the inductive invariant.
LEMMA InitInductive == Init => TypeOK /\ Inductive
  <1> SUFFICES ASSUME Init PROVE TypeOK /\ Inductive
    OBVIOUS
  <1>1. Absent \in Row /\ Idle \in Call
    BY DEF Absent, Row, Idle, Call, Statuses, Pc
  <1>2. TypeOK
    BY <1>1 DEF Init, TypeOK, Months
  <1>3. RowsWellFormed
    BY DEF Init, RowsWellFormed, Absent
  <1>4. ASSUME NEW h \in Handlers PROVE CallInv(h)
    BY DEF Init, CallInv, CallWellFormed, SyncInRange, SyncProgress, ExistingCurrent,
           MissedAllOverlaps, PaidInTenant, AuditPending, Idle, Syncing, PastOverlapCheck
  <1>5. QED
    BY <1>2, <1>3, <1>4 DEF Inductive

\* The tenant a call acts for is a tenant.
LEMMA TenantOfCall ==
    ASSUME TypeOK, NEW h \in Handlers, CallWellFormed(h), call[h].pc # "idle"
    PROVE  Tenant(h) \in Tenants /\ call[h].user \in Users
  BY DEF CallWellFormed, Tenant

\* Ending a call leaves the table of calls well typed.
LEMMA AnswerType ==
    ASSUME TypeOK, NEW h \in Handlers, Answer(h)
    PROVE  call' \in [Handlers -> Call]
  <1>1. Idle \in Call
    BY DEF Idle, Call, Row, Absent, Statuses, Pc
  <1>2. QED
    BY <1>1 DEF Answer, TypeOK

\* Moving a call to another program point keeps it a call.
LEMMA MoveType ==
    ASSUME NEW c \in Call, NEW pc \in Pc
    PROVE  [c EXCEPT !.pc = pc] \in Call
  BY DEF Call

LEMMA GotoType ==
    ASSUME TypeOK, NEW h \in Handlers, NEW pc \in Pc, Goto(h, pc)
    PROVE  call' \in [Handlers -> Call]
  <1>1. call[h] \in Call /\ call' = [call EXCEPT ![h] = [call[h] EXCEPT !.pc = pc]]
    BY DEF Goto, TypeOK
  <1>2. QED
    BY <1>1, MoveType DEF TypeOK

\* Every step keeps the variables in their types.
LEMMA TypeStep ==
    ASSUME TypeOK, Inductive, [Next]_vars
    PROVE  TypeOK'
  <1> USE DEF Inductive, CallInv
  <1> SUFFICES ASSUME Next PROVE TypeOK'
    BY DEF TypeOK, vars
  <1>1. ASSUME NEW h \in Handlers, Create(h) PROVE TypeOK'
    <2>1. PICK u \in Users, d \in Dtos, r \in Requests :
            /\ row' = [row EXCEPT ![r] =
                 [tenant |-> UserTenant[u], employee |-> d.employee, paid |-> d.paid,
                  start |-> d.start, end |-> d.end, status |-> "PENDING",
                  approver |-> None]]
            /\ call' = [call EXCEPT ![h] =
                 [Idle EXCEPT !.op = "create", !.pc = "auditCreate", !.user = u,
                              !.request = r]]
      BY <1>1 DEF Create
    <2>2. row' \in [Requests -> Row]
      BY <2>1 DEF TypeOK, Row, Statuses, Dto
    <2>3. call' \in [Handlers -> Call]
      BY <2>1 DEF TypeOK, Call, Idle, Row, Absent, Statuses, Pc
    <2>4. QED
      BY <1>1, <2>2, <2>3 DEF Create, TypeOK
  <1>2. ASSUME NEW h \in Handlers, AuditCreate(h) PROVE TypeOK'
    <2>1. call' \in [Handlers -> Call]
      BY <1>2, AnswerType DEF AuditCreate
    <2>2. audit' \subseteq AuditRecord
      BY <1>2 DEF AuditCreate, TypeOK, AuditRecord, CallWellFormed
    <2>3. QED
      BY <1>2, <2>1, <2>2 DEF AuditCreate, TypeOK
  <1>3. ASSUME NEW h \in Handlers, CallApprove(h) PROVE TypeOK'
    <2>1. PICK u \in Users, r \in Requests :
            call' = [call EXCEPT ![h] = [Idle EXCEPT !.op = "approve", !.pc = "load",
                                                     !.user = u, !.request = r]]
      BY <1>3 DEF CallApprove
    <2>2. [Idle EXCEPT !.op = "approve", !.pc = "load", !.user = u, !.request = r] \in Call
      BY DEF Call, Idle, Row, Absent, Statuses, Pc
    <2>3. QED
      BY <1>3, <2>1, <2>2 DEF CallApprove, TypeOK
  <1>4. ASSUME NEW h \in Handlers, CallBalance(h) PROVE TypeOK'
    <2>1. PICK u \in Users, e \in Employees :
            call' = [call EXCEPT ![h] = [Idle EXCEPT !.op = "balance", !.pc = "employee",
                                                     !.user = u, !.employee = e]]
      BY <1>4 DEF CallBalance
    <2>2. [Idle EXCEPT !.op = "balance", !.pc = "employee", !.user = u, !.employee = e] \in Call
      BY DEF Call, Idle, Row, Absent, Statuses, Pc, PastOverlapCheck
    <2>3. QED
      BY <1>4, <2>1, <2>2 DEF CallBalance, TypeOK
  <1>5. ASSUME NEW h \in Handlers, Load(h) PROVE TypeOK'
    <2>1. CASE Findable(h)
      <3>1. row[call[h].request] \in Row
        BY <1>5 DEF Load, CallWellFormed, TypeOK
      <3> DEFINE c == [call[h] EXCEPT !.pc = "overlap", !.existing = row[call[h].request],
                                      !.employee = row[call[h].request].employee]
      <3>a. call' = [call EXCEPT ![h] = c] /\ call[h] \in Call
        BY <1>5, <2>1 DEF Load, TypeOK
      <3>b. row[call[h].request].employee \in Employees \cup {None} /\ "overlap" \in Pc
        BY <3>1 DEF Row, Pc
      <3>c. c \in Call
        BY <3>a, <3>b, <3>1 DEF Call
      <3>2. call' \in [Handlers -> Call]
        BY <3>a, <3>c DEF TypeOK
      <3>3. QED
        BY <1>5, <3>2 DEF Load, TypeOK
    <2>2. CASE ~Findable(h)
      BY <1>5, <2>2, AnswerType DEF Load, TypeOK
    <2>3. QED
      BY <2>1, <2>2
  <1>6. ASSUME NEW h \in Handlers, CheckOverlap(h) PROVE TypeOK'
    <2>1. call' \in [Handlers -> Call]
      BY <1>6, AnswerType, GotoType DEF CheckOverlap, Pc, PastOverlapCheck
    <2>2. QED
      BY <1>6, <2>1 DEF CheckOverlap, TypeOK
  <1>7. ASSUME NEW h \in Handlers, FindEmployee(h) PROVE TypeOK'
    <2>1. CASE EmployeeVisible(h)
      <3>1. HireMonth[call[h].employee] \in Nat
        BY <1>7 DEF FindEmployee, CallWellFormed
      <3> DEFINE c == [call[h] EXCEPT !.pc = "policy", !.through = month,
                                      !.at = HireMonth[call[h].employee]]
      <3>a. call' = [call EXCEPT ![h] = c] /\ call[h] \in Call
        BY <1>7, <2>1 DEF FindEmployee, StartMonth, TypeOK
      <3>b. month \in Nat /\ "policy" \in Pc
        BY DEF TypeOK, Months, Pc, PastOverlapCheck
      <3>c. c \in Call
        BY <3>a, <3>b, <3>1 DEF Call
      <3>2. call' \in [Handlers -> Call]
        BY <3>a, <3>c DEF TypeOK
      <3>3. QED
        BY <1>7, <3>2 DEF FindEmployee, TypeOK
    <2>2. CASE ~EmployeeVisible(h)
      BY <1>7, <2>2, AnswerType DEF FindEmployee, TypeOK
    <2>3. QED
      BY <2>1, <2>2
  <1>8. ASSUME NEW h \in Handlers, UpsertPolicy(h) PROVE TypeOK'
    <2>1. call' \in [Handlers -> Call]
      BY <1>8, GotoType DEF UpsertPolicy, Pc, PastOverlapCheck
    <2>2. QED
      BY <1>8, <2>1, TenantOfCall DEF UpsertPolicy, TypeOK
  <1>9. ASSUME NEW h \in Handlers, UpsertBalance(h) PROVE TypeOK'
    <2>1. call' \in [Handlers -> Call]
      BY <1>9, GotoType DEF UpsertBalance, Pc, PastOverlapCheck
    <2>2. QED
      BY <1>9, <2>1 DEF UpsertBalance, TypeOK, CallWellFormed, Syncing
  <1>10. ASSUME NEW h \in Handlers, AcquireMonth(h) PROVE TypeOK'
    <2>1. call[h].employee \in Employees /\ Tenant(h) \in Tenants
      BY <1>10, TenantOfCall DEF AcquireMonth, CallWellFormed, Syncing
    <2>2. call[h].at \in Months /\ call[h].at \in Nat
      <3>1. call[h].at \in HireMonth[call[h].employee]..call[h].through
        BY <1>10 DEF AcquireMonth, SyncInRange
      <3>2. call[h].through \in 1..month
        BY <1>10 DEF AcquireMonth, SyncInRange, Syncing
      <3>3. HireMonth[call[h].employee] \in Nat \ {0} /\ month \in 1..MaxMonth
        BY <2>1 DEF TypeOK, Months
      <3>4. QED
        BY <3>1, <3>2, <3>3 DEF Months
    <2>3. acquired' \in [Tenants -> [Employees -> SUBSET Months]]
      BY <1>10, <2>1, <2>2 DEF AcquireMonth, TypeOK
    <2>4. call' \in [Handlers -> Call]
      <3> DEFINE pc == IF NextMonth(h) <= call[h].through THEN "acquire" ELSE "auditSync"
                 c == [call[h] EXCEPT !.at = NextMonth(h), !.pc = pc]
      <3>1. call' = [call EXCEPT ![h] = c] /\ call[h] \in Call
        BY <1>10 DEF AcquireMonth, TypeOK
      <3>2. NextMonth(h) \in Nat /\ pc \in Pc
        BY <2>2 DEF NextMonth, Pc, PastOverlapCheck
      <3>3. c \in Call
        BY <3>1, <3>2 DEF Call
      <3>4. QED
        BY <3>1, <3>3 DEF TypeOK
    <2>5. QED
      BY <1>10, <2>3, <2>4 DEF AcquireMonth, TypeOK
  <1>11. ASSUME NEW h \in Handlers, AuditSync(h) PROVE TypeOK'
    <2>1. call' \in [Handlers -> Call]
      BY <1>11, GotoType DEF AuditSync, Pc, PastOverlapCheck
    <2>2. call[h].employee \in Employees /\ Tenant(h) \in Tenants
      BY <1>11, TenantOfCall DEF AuditSync, CallWellFormed, Syncing
    <2>3. call[h].through \in Nat
      BY DEF TypeOK, Call
    <2>4. audit' \subseteq AuditRecord
      BY <1>11, <2>2, <2>3 DEF AuditSync, TypeOK, AuditRecord
    <2>5. QED
      BY <1>11, <2>1, <2>4 DEF AuditSync, TypeOK
  <1>12. ASSUME NEW h \in Handlers, Aggregate(h) PROVE TypeOK'
    <2>1. CASE Tenant(h) \in policies
      <3>1. acquired[Tenant(h)][call[h].employee] \in SUBSET Months
        BY <1>12, TenantOfCall DEF Aggregate, CallWellFormed, Syncing, TypeOK
      <3> DEFINE c == [call[h] EXCEPT !.pc = "consumed",
                                      !.counted = acquired[Tenant(h)][call[h].employee]]
      <3>a. call' = [call EXCEPT ![h] = c] /\ call[h] \in Call
        BY <1>12, <2>1 DEF Aggregate, TypeOK
      <3>b. c \in Call
        BY <3>a, <3>1 DEF Call, Pc, PastOverlapCheck
      <3>2. call' \in [Handlers -> Call]
        BY <3>a, <3>b DEF TypeOK
      <3>3. QED
        BY <1>12, <3>2 DEF Aggregate, TypeOK
    <2>2. CASE Tenant(h) \notin policies
      BY <1>12, <2>2, AnswerType DEF Aggregate, TypeOK
    <2>3. QED
      BY <2>1, <2>2
  <1>13. ASSUME NEW h \in Handlers, ReadConsumed(h) PROVE TypeOK'
    <2>1. call' \in [Handlers -> Call]
      BY <1>13, AnswerType, GotoType DEF ReadConsumed, Pc, PastOverlapCheck
    <2>2. QED
      BY <1>13, <2>1 DEF ReadConsumed, TypeOK
  <1>14. ASSUME NEW h \in Handlers, Update(h) PROVE TypeOK'
    <2>1. call[h].request \in Requests /\ call[h].user \in Users
      BY <1>14 DEF Update, CallWellFormed
    <2>2. row' \in [Requests -> Row]
      <3>1. row[call[h].request] \in Row
        BY <2>1 DEF TypeOK
      <3>2. Approved(h) \in Row
        BY <2>1, <3>1 DEF Approved, Row, Statuses
      <3>3. QED
        BY <1>14, <3>2 DEF Update, TypeOK
    <2>3. call' \in [Handlers -> Call]
      <3> SUFFICES ASSUME NEW g \in Handlers PROVE call'[g] \in Call
        BY <1>14 DEF Update
      <3>1. call[g] \in Call /\ call[h] \in Call
        BY DEF TypeOK
      <3>2. QED
        BY <1>14, <2>1, <3>1 DEF Update, Call, Pc
    <2>4. unseen' \in [Requests -> SUBSET Requests]
      <3>1. call[h].missed \in SUBSET Requests
        BY DEF TypeOK, Call
      <3>2. QED
        BY <1>14, <2>1, <3>1 DEF Update, TypeOK
    <2>5. QED
      BY <1>14, <2>2, <2>3, <2>4 DEF Update, TypeOK
  <1>15. ASSUME NEW h \in Handlers, AuditApprove(h) PROVE TypeOK'
    <2>1. call' \in [Handlers -> Call]
      BY <1>15, AnswerType DEF AuditApprove
    <2>2. call[h].request \in Requests /\ call[h].existing.status \in Statuses
      BY <1>15 DEF AuditApprove, CallWellFormed, TypeOK, Call, Row
    <2>3. audit' \subseteq AuditRecord
      BY <1>15, <2>2 DEF AuditApprove, TypeOK, AuditRecord
    <2>4. QED
      BY <1>15, <2>1, <2>3 DEF AuditApprove, TypeOK
  <1>16. ASSUME NEW h \in Handlers, Fail(h) PROVE TypeOK'
    BY <1>16, AnswerType DEF Fail, TypeOK
  <1>17. ASSUME NewMonth PROVE TypeOK'
    BY <1>17 DEF NewMonth, TypeOK, Months
  <1>18. QED
    BY <1>1, <1>2, <1>3, <1>4, <1>5, <1>6, <1>7, <1>8, <1>9, <1>10, <1>11, <1>12,
       <1>13, <1>14, <1>15, <1>16, <1>17 DEF Next, Step

----------------------------------------------------------------------------
\* The inductive invariant

\* What a call knows of the tables stays true while others run, as long as
\* rows keep their data, approvals stand and acquisitions only grow.
RowsGrow ==
    /\ \A r \in Requests :
         row[r].status # "ABSENT" =>
           /\ row'[r].tenant = row[r].tenant /\ row'[r].employee = row[r].employee
           /\ row'[r].start = row[r].start /\ row'[r].end = row[r].end
           /\ row'[r].paid = row[r].paid /\ row'[r].status # "ABSENT"
           /\ row[r].status = "APPROVED" => row'[r].status = "APPROVED"
    /\ \A t \in Tenants, e \in Employees : acquired[t][e] \subseteq acquired'[t][e]
    /\ month \in Nat /\ month' \in Nat /\ month <= month'

\* No request is approved by this step.
NoNewApproval ==
    \A r \in Requests : row'[r].status = "APPROVED" =>
        row[r].status = "APPROVED"

LEMMA CallFrame ==
    ASSUME TypeOK, RowsGrow, NoNewApproval, NEW g \in Handlers, CallInv(g),
           call'[g] = call[g]
    PROVE  CallInv(g)'
  <1> USE DEF CallInv
  <1>1. Tenant(g)' = Tenant(g)
    BY DEF Tenant
  <1>2. CallWellFormed(g)'
    BY DEF CallWellFormed
  <1>3. SyncInRange(g)'
    BY <1>1 DEF SyncInRange, RowsGrow
  <1>4. call[g].pc \in Syncing => Tenant(g) \in Tenants /\ call[g].employee \in Employees
    BY TenantOfCall DEF CallWellFormed, Syncing
  <1>5. SyncProgress(g)'
    BY <1>1, <1>4 DEF SyncProgress, RowsGrow, Syncing
  <1>6. ExistingCurrent(g)'
    BY <1>1 DEF ExistingCurrent, RowsGrow, CallWellFormed
  <1>7. MissedAllOverlaps(g)'
    <2> SUFFICES ASSUME call[g].op = "approve", call[g].pc \in PastOverlapCheck,
                        NEW r \in Requests \ {call[g].request},
                        row'[r].status = "APPROVED",
                        SameEmployee(r, call[g].request)',
                        Overlaps(row'[r], row'[call[g].request])
                 PROVE  r \in call[g].missed
      BY DEF MissedAllOverlaps
    <2>1. row[r].status = "APPROVED" /\ call[g].request \in Requests
      BY DEF NoNewApproval, CallWellFormed
    <2>2. row[call[g].request].status # "ABSENT"
      BY DEF ExistingCurrent
    <2>3. SameEmployee(r, call[g].request) /\ Overlaps(row[r], row[call[g].request])
      BY <2>1, <2>2 DEF RowsGrow, SameEmployee, Overlaps
    <2>4. QED
      BY <2>1, <2>3 DEF MissedAllOverlaps
  <1>8. PaidInTenant(g)'
    BY <1>1 DEF PaidInTenant, RowsGrow, CallWellFormed, ExistingCurrent, PastOverlapCheck
  <1>9. AuditPending(g)'
    BY DEF AuditPending, RowsGrow, CallWellFormed
  <1>10. QED
    BY <1>2, <1>3, <1>5, <1>6, <1>7, <1>8, <1>9

\* An idle call claims nothing.
LEMMA IdleInv ==
    ASSUME NEW h \in Handlers, call'[h] = Idle
    PROVE  CallInv(h)'
  BY DEF CallInv, CallWellFormed, SyncInRange, SyncProgress, ExistingCurrent,
         MissedAllOverlaps, PaidInTenant, AuditPending, Idle, Syncing, PastOverlapCheck

\* A step that leaves rows and acquisitions alone disturbs no other call.
LEMMA LocalStep ==
    ASSUME TypeOK, Inductive, NEW h \in Handlers, NEW STATE c,
           call' = [call EXCEPT ![h] = c], CallInv(h)',
           UNCHANGED <<row, acquired, month>>
    PROVE  Inductive'
  <1>1. RowsGrow /\ NoNewApproval
    BY DEF RowsGrow, NoNewApproval, TypeOK, Months
  <1>2. ASSUME NEW g \in Handlers PROVE CallInv(g)'
    <2>1. CASE g = h
      BY <2>1
    <2>2. CASE g # h
      BY <2>2, <1>1, CallFrame DEF Inductive, TypeOK
    <2>3. QED
      BY <2>1, <2>2
  <1>3. RowsWellFormed'
    BY DEF Inductive, RowsWellFormed
  <1>4. QED
    BY <1>2, <1>3 DEF Inductive

\* Ending a call disturbs nothing.
LEMMA AnswerStep ==
    ASSUME TypeOK, Inductive, NEW h \in Handlers, Answer(h),
           UNCHANGED <<row, acquired, month>>
    PROVE  Inductive'
  BY IdleInv, LocalStep DEF Answer, TypeOK

\* The step that writes an approval: every other call past its overlap
\* check has it among those it missed.
LEMMA UpdateStep ==
    ASSUME TypeOK, Inductive, NEW h \in Handlers, Update(h)
    PROVE  Inductive'
  <1> USE DEF Inductive, CallInv
  <1> DEFINE q == call[h].request
  <1>1. q \in Requests /\ call[h].user \in Users /\ call[h].op = "approve"
    BY DEF Update, CallWellFormed
  <1>2. row[q].status # "ABSENT" /\ row[q] \in Row
    BY <1>1 DEF Update, ExistingCurrent, PastOverlapCheck, TypeOK
  <1>3. /\ row'[q].status = "APPROVED" /\ row'[q].approver = call[h].user
        /\ row'[q].tenant = row[q].tenant /\ row'[q].employee = row[q].employee
        /\ row'[q].start = row[q].start /\ row'[q].end = row[q].end
        /\ row'[q].paid = row[q].paid
        /\ \A r \in Requests \ {q} : row'[r] = row[r]
    BY <1>1, <1>2 DEF Update, Approved, TypeOK, Row
  <1>4. RowsGrow
    BY <1>2, <1>3 DEF RowsGrow, Update, TypeOK, Months
  <1>5. RowsWellFormed'
    BY <1>1, <1>2, <1>3 DEF RowsWellFormed
  <1>6. ASSUME NEW g \in Handlers PROVE CallInv(g)'
    <2>1. CASE g = h
      <3>1. call'[g] = [call[h] EXCEPT !.pc = "auditApprove"] /\ call[h] \in Call
        BY <2>1 DEF Update, TypeOK
      <3>2. /\ call'[g].pc = "auditApprove" /\ call'[g].op = "approve"
            /\ call'[g].user \in Users /\ call'[g].request = q
        BY <3>1, <1>1 DEF Call
      <3>3. QED
        BY <3>2, <1>1, <1>3 DEF CallWellFormed, SyncInRange, SyncProgress, ExistingCurrent,
           MissedAllOverlaps, PaidInTenant, AuditPending, Syncing, PastOverlapCheck
    <2>2. CASE g # h /\ ~(call[g].op = "approve" /\ call[g].pc \in PastOverlapCheck)
      <3>1. call'[g] = call[g]
        BY <2>2 DEF Update
      <3>2. Tenant(g)' = Tenant(g)
        BY <3>1 DEF Tenant
      <3>3. CallWellFormed(g)' /\ SyncInRange(g)' /\ SyncProgress(g)'
        BY <3>1, <3>2 DEF CallWellFormed, SyncInRange, SyncProgress, Update
      <3>4. ExistingCurrent(g)'
        BY <3>1, <3>2, <1>4 DEF ExistingCurrent, CallWellFormed, RowsGrow
      <3>5. MissedAllOverlaps(g)' /\ PaidInTenant(g)'
        BY <2>2, <3>1 DEF MissedAllOverlaps, PaidInTenant, CallWellFormed, PastOverlapCheck
      <3>6. AuditPending(g)'
        BY <3>1, <1>4 DEF AuditPending, CallWellFormed, RowsGrow
      <3>7. QED
        BY <3>3, <3>4, <3>5, <3>6
    <2>3. CASE g # h /\ call[g].op = "approve" /\ call[g].pc \in PastOverlapCheck
      <3>1. call'[g] = [call[g] EXCEPT !.missed = @ \cup {q}] /\ call[g] \in Call
        BY <2>3 DEF Update, TypeOK
      <3>2. /\ call'[g].op = call[g].op /\ call'[g].pc = call[g].pc
            /\ call'[g].user = call[g].user /\ call'[g].request = call[g].request
            /\ call'[g].existing = call[g].existing /\ call'[g].at = call[g].at
            /\ call'[g].employee = call[g].employee /\ call'[g].through = call[g].through
            /\ call'[g].missed = call[g].missed \cup {q}
        BY <3>1 DEF Call
      <3>3. Tenant(g)' = Tenant(g)
        BY <3>2 DEF Tenant
      <3>4. CallWellFormed(g)' /\ SyncInRange(g)' /\ SyncProgress(g)'
        BY <3>2, <3>3 DEF CallWellFormed, SyncInRange, SyncProgress, Update
      <3> DEFINE p == call[g].request
      <3>a. p \in Requests /\ row[p].status # "ABSENT"
        BY <2>3 DEF CallWellFormed, ExistingCurrent
      <3>b. /\ row'[p].tenant = row[p].tenant /\ row'[p].employee = row[p].employee
            /\ row'[p].start = row[p].start /\ row'[p].end = row[p].end
            /\ row'[p].paid = row[p].paid /\ row'[p].status # "ABSENT"
        BY <3>a, <1>4 DEF RowsGrow
      <3>5. ExistingCurrent(g)'
        BY <3>2, <3>3, <3>b, <2>3 DEF ExistingCurrent
      <3>6. MissedAllOverlaps(g)'
        <4> SUFFICES ASSUME NEW r \in Requests \ {call[g].request},
                            row'[r].status = "APPROVED",
                            SameEmployee(r, call[g].request)',
                            Overlaps(row'[r], row'[call[g].request])
                     PROVE  r \in call'[g].missed
          BY <3>2 DEF MissedAllOverlaps
        <4>1. CASE r = q
          BY <4>1, <3>2
        <4>2. CASE r # q
          <5>1. row'[r] = row[r] /\ call[g].request \in Requests
            BY <4>2, <1>3, <2>3 DEF CallWellFormed
          <5>2. SameEmployee(r, p) /\ Overlaps(row[r], row[p])
            BY <5>1, <3>2, <3>b DEF SameEmployee, Overlaps
          <5>3. QED
            BY <5>1, <5>2, <3>2, <2>3 DEF MissedAllOverlaps
        <4>3. QED
          BY <4>1, <4>2
      <3>7. PaidInTenant(g)'
        <4>1. call[g].pc = "update" /\ row[p].paid =>
                EmployeeTenant[row[p].employee] = Tenant(g)
          BY DEF PaidInTenant
        <4>2. SUFFICES ASSUME call'[g].pc = "update", row'[call'[g].request].paid
                       PROVE  EmployeeTenant[row'[call'[g].request].employee] = Tenant(g)'
          BY DEF PaidInTenant
        <4>3. row[p].paid /\ row'[call'[g].request].employee = row[p].employee
          BY <4>2, <3>2, <3>b
        <4>4. QED
          BY <4>1, <4>2, <4>3, <3>2, <3>3
      <3>8. AuditPending(g)'
        BY <3>2, <2>3 DEF AuditPending, PastOverlapCheck
      <3>9. QED
        BY <3>4, <3>5, <3>6, <3>7, <3>8
    <2>4. QED
      BY <2>1, <2>2, <2>3
  <1>7. QED
    BY <1>5, <1>6

\* What the fields of a call that moves on are.
LEMMA Moved ==
    ASSUME TypeOK, NEW h \in Handlers, NEW pc, Goto(h, pc)
    PROVE  /\ call' = [call EXCEPT ![h] = [call[h] EXCEPT !.pc = pc]]
           /\ call'[h].pc = pc /\ call'[h].op = call[h].op /\ call'[h].user = call[h].user
           /\ call'[h].request = call[h].request /\ call'[h].existing = call[h].existing
           /\ call'[h].employee = call[h].employee /\ call'[h].through = call[h].through
           /\ call'[h].at = call[h].at /\ call'[h].missed = call[h].missed
           /\ Tenant(h)' = Tenant(h)
  BY DEF Goto, TypeOK, Call, Tenant

\* Between the employee lookup and the comparison nothing of what an
\* approval knows about its request changes.
LEMMA SnapshotKeeps ==
    ASSUME NEW h \in Handlers, CallInv(h), UNCHANGED row, Tenant(h)' = Tenant(h),
           call[h].pc \in PastOverlapCheck \ {"update"},
           call'[h].pc \in PastOverlapCheck \ {"update"},
           call'[h].op = call[h].op, call'[h].request = call[h].request,
           call'[h].existing = call[h].existing,
           call'[h].employee = call[h].employee, call'[h].missed = call[h].missed
    PROVE  ExistingCurrent(h)' /\ MissedAllOverlaps(h)' /\ PaidInTenant(h)' /\ AuditPending(h)'
  <1> USE DEF CallInv
  <1>1. ExistingCurrent(h)'
    BY DEF ExistingCurrent
  <1>2. MissedAllOverlaps(h)'
    BY DEF MissedAllOverlaps, SameEmployee
  <1>3. PaidInTenant(h)' /\ AuditPending(h)'
    BY DEF PaidInTenant, AuditPending, PastOverlapCheck
  <1>4. QED
    BY <1>1, <1>2, <1>3

\* A snapshot's way through the policy, balance row and sync audit steps
\* and the checks on the way: every step keeps the inductive invariant.
LEMMA InductiveStep ==
    ASSUME TypeOK, Inductive, [Next]_vars
    PROVE  Inductive'
  <1>0. CASE UNCHANGED vars
    <2>1. RowsGrow /\ NoNewApproval
      BY <1>0 DEF vars, RowsGrow, NoNewApproval, TypeOK, Months
    <2>2. RowsWellFormed'
      BY <1>0 DEF vars, RowsWellFormed, Inductive
    <2>3. QED
      BY <1>0, <2>1, <2>2, CallFrame DEF vars, Inductive
  <1>1. ASSUME NEW h \in Handlers, Create(h) PROVE Inductive'
    <2>1. PICK u \in Users, d \in Dtos, r \in Requests :
            /\ row[r] = Absent
            /\ row' = [row EXCEPT ![r] =
                 [tenant |-> UserTenant[u], employee |-> d.employee, paid |-> d.paid,
                  start |-> d.start, end |-> d.end, status |-> "PENDING",
                  approver |-> None]]
            /\ call' = [call EXCEPT ![h] =
                 [Idle EXCEPT !.op = "create", !.pc = "auditCreate", !.user = u,
                              !.request = r]]
      BY <1>1 DEF Create
    <2>2. /\ row'[r].status = "PENDING" /\ row'[r].tenant \in Tenants
          /\ row'[r].employee \in Employees
          /\ \A q \in Requests \ {r} : row'[q] = row[q]
      BY <2>1 DEF TypeOK, Dto
    <2>3. RowsGrow /\ NoNewApproval
      BY <1>1, <2>1, <2>2 DEF Create, RowsGrow, NoNewApproval, Absent, TypeOK, Months
    <2>4. RowsWellFormed'
      BY <2>2 DEF RowsWellFormed, Inductive
    <2>5. /\ call'[h].op = "create" /\ call'[h].pc = "auditCreate" /\ call'[h].user = u
          /\ call'[h].request = r
      BY <2>1 DEF TypeOK, Idle
    <2>6. CallInv(h)'
      BY <2>2, <2>5 DEF CallInv, CallWellFormed, SyncInRange, SyncProgress, ExistingCurrent,
         MissedAllOverlaps, PaidInTenant, AuditPending, Syncing, PastOverlapCheck
    <2>7. ASSUME NEW g \in Handlers, g # h PROVE CallInv(g)'
      BY <2>1, <2>3, <2>7, CallFrame DEF Inductive, TypeOK
    <2>8. QED
      BY <2>4, <2>6, <2>7 DEF Inductive
  <1>2. ASSUME NEW h \in Handlers, AuditCreate(h) \/ AuditApprove(h) \/ Fail(h)
        PROVE Inductive'
    BY <1>2, AnswerStep DEF AuditCreate, AuditApprove, Fail
  <1>3. ASSUME NEW h \in Handlers, CallApprove(h) PROVE Inductive'
    <2>1. PICK u \in Users, r \in Requests :
            call' = [call EXCEPT ![h] = [Idle EXCEPT !.op = "approve", !.pc = "load",
                                                     !.user = u, !.request = r]]
      BY <1>3 DEF CallApprove
    <2>2. /\ call'[h].op = "approve" /\ call'[h].pc = "load" /\ call'[h].user = u
          /\ call'[h].request = r
      BY <2>1 DEF TypeOK, Idle
    <2>3. CallInv(h)'
      BY <2>2 DEF CallInv, CallWellFormed, SyncInRange, SyncProgress, ExistingCurrent,
         MissedAllOverlaps, PaidInTenant, AuditPending, Syncing, PastOverlapCheck
    <2>4. QED
      BY <1>3, <2>1, <2>3, LocalStep DEF CallApprove
  <1>4. ASSUME NEW h \in Handlers, CallBalance(h) PROVE Inductive'
    <2>1. PICK u \in Users, e \in Employees :
            call' = [call EXCEPT ![h] = [Idle EXCEPT !.op = "balance", !.pc = "employee",
                                                     !.user = u, !.employee = e]]
      BY <1>4 DEF CallBalance
    <2>2. /\ call'[h].op = "balance" /\ call'[h].pc = "employee" /\ call'[h].user = u
          /\ call'[h].employee = e
      BY <2>1 DEF TypeOK, Idle
    <2>3. CallInv(h)'
      BY <2>2 DEF CallInv, CallWellFormed, SyncInRange, SyncProgress, ExistingCurrent,
         MissedAllOverlaps, PaidInTenant, AuditPending, Syncing, PastOverlapCheck
    <2>4. QED
      BY <1>4, <2>1, <2>3, LocalStep DEF CallBalance
  <1>5. ASSUME NEW h \in Handlers, Load(h) PROVE Inductive'
    <2>1. CASE ~Findable(h)
      BY <1>5, <2>1, AnswerStep DEF Load
    <2>2. CASE Findable(h)
      <3> DEFINE q == call[h].request
                 c == [call[h] EXCEPT !.pc = "overlap", !.existing = row[q],
                                      !.employee = row[q].employee]
      <3>1. call' = [call EXCEPT ![h] = c] /\ UNCHANGED <<row, acquired, month>>
        BY <1>5, <2>2 DEF Load, TypeOK
      <3>2. /\ call[h].op = "approve" /\ call[h].user \in Users /\ q \in Requests
            /\ row[q].status # "ABSENT" /\ row[q].tenant = Tenant(h)
            /\ row[q].employee \in Employees
        BY <1>5, <2>2 DEF Load, Findable, Inductive, CallInv, CallWellFormed, RowsWellFormed
      <3>3. /\ call'[h].op = "approve" /\ call'[h].pc = "overlap"
            /\ call'[h].user = call[h].user /\ call'[h].request = q
            /\ call'[h].existing = row[q] /\ call'[h].employee = row[q].employee
            /\ Tenant(h)' = Tenant(h)
        BY <3>1, <3>2 DEF TypeOK, Call, Tenant
      <3>4. CallInv(h)'
        BY <3>1, <3>2, <3>3 DEF CallInv, CallWellFormed, SyncInRange, SyncProgress,
           ExistingCurrent, MissedAllOverlaps, PaidInTenant, AuditPending, Syncing,
           PastOverlapCheck
      <3>5. QED
        BY <3>1, <3>4, LocalStep
    <2>3. QED
      BY <2>1, <2>2
  <1>6. ASSUME NEW h \in Handlers, CheckOverlap(h) PROVE Inductive'
    <2>1. CASE OverlapFound(h)
      BY <1>6, <2>1, AnswerStep DEF CheckOverlap
    <2>2. CASE ~OverlapFound(h)
      <3> DEFINE q == call[h].request
                 pc == IF call[h].existing.paid THEN "employee" ELSE "update"
      <3>1. Goto(h, pc) /\ UNCHANGED <<row, acquired, month>>
        BY <1>6, <2>2 DEF CheckOverlap
      <3>2. /\ call[h].op = "approve" /\ call[h].user \in Users /\ q \in Requests
            /\ call[h].employee \in Employees /\ ExistingCurrent(h)
        BY <1>6 DEF CheckOverlap, Inductive, CallInv, CallWellFormed
      <3>3. /\ row[q].status # "ABSENT" /\ row[q].tenant = Tenant(h)
            /\ call[h].existing.tenant = row[q].tenant
            /\ call[h].existing.employee = row[q].employee
            /\ call[h].existing.start = row[q].start /\ call[h].existing.end = row[q].end
            /\ call[h].existing.paid = row[q].paid /\ call[h].employee = row[q].employee
        BY <1>6, <3>2 DEF CheckOverlap, ExistingCurrent
      <3>4. ExistingCurrent(h)' /\ PaidInTenant(h)' /\ CallWellFormed(h)'
        BY <3>1, <3>2, <3>3, Moved DEF ExistingCurrent, PaidInTenant, CallWellFormed, Syncing
      <3>5. SyncInRange(h)' /\ SyncProgress(h)' /\ AuditPending(h)'
        BY <3>1, Moved DEF SyncInRange, SyncProgress, AuditPending, Syncing
      <3>6. MissedAllOverlaps(h)'
        BY <2>2, <3>1, <3>2, <3>3, Moved DEF MissedAllOverlaps, OverlapFound, SameEmployee,
           Overlaps
      <3>7. QED
        BY <3>1, <3>4, <3>5, <3>6, Moved, LocalStep DEF CallInv
    <2>3. QED
      BY <2>1, <2>2
  <1>7. ASSUME NEW h \in Handlers, FindEmployee(h) PROVE Inductive'
    <2>1. CASE ~EmployeeVisible(h)
      BY <1>7, <2>1, AnswerStep DEF FindEmployee
    <2>2. CASE EmployeeVisible(h)
      <3> DEFINE c == [call[h] EXCEPT !.pc = "policy", !.through = month,
                                      !.at = HireMonth[call[h].employee]]
      <3>1. call' = [call EXCEPT ![h] = c] /\ UNCHANGED <<row, acquired, month>>
        BY <1>7, <2>2 DEF FindEmployee, StartMonth, TypeOK
      <3>2. /\ call'[h].pc = "policy" /\ call'[h].through = month
            /\ call'[h].at = HireMonth[call[h].employee] /\ call'[h].op = call[h].op
            /\ call'[h].user = call[h].user /\ call'[h].request = call[h].request
            /\ call'[h].existing = call[h].existing /\ call'[h].missed = call[h].missed
            /\ call'[h].employee = call[h].employee /\ Tenant(h)' = Tenant(h)
        BY <3>1 DEF TypeOK, Call, Tenant
      <3>3. /\ call[h].pc = "employee" /\ CallInv(h) /\ call[h].employee \in Employees
            /\ EmployeeTenant[call[h].employee] = Tenant(h)
        BY <1>7, <2>2 DEF FindEmployee, EmployeeVisible, Inductive, CallInv, CallWellFormed
      <3>4. /\ ExistingCurrent(h)' /\ MissedAllOverlaps(h)'
            /\ PaidInTenant(h)' /\ AuditPending(h)'
        BY <3>1, <3>2, <3>3, SnapshotKeeps DEF PastOverlapCheck
      <3>5. CallWellFormed(h)'
        BY <3>2, <3>3 DEF CallInv, CallWellFormed
      <3>6. SyncInRange(h)' /\ SyncProgress(h)'
        BY <3>1, <3>2, <3>3 DEF SyncInRange, SyncProgress, Syncing, TypeOK, Months
      <3>7. QED
        BY <3>1, <3>4, <3>5, <3>6, LocalStep DEF CallInv
    <2>3. QED
      BY <2>1, <2>2
  <1>8. ASSUME NEW h \in Handlers, UpsertPolicy(h) PROVE Inductive'
    <2>1. Goto(h, "balanceRow") /\ UNCHANGED <<row, acquired, month>> /\ call[h].pc = "policy"
      BY <1>8 DEF UpsertPolicy
    <2>2. CallInv(h)
      BY DEF Inductive
    <2>3. /\ ExistingCurrent(h)' /\ MissedAllOverlaps(h)'
          /\ PaidInTenant(h)' /\ AuditPending(h)'
      BY <2>1, <2>2, Moved, SnapshotKeeps DEF PastOverlapCheck
    <2>4. CallWellFormed(h)' /\ SyncInRange(h)' /\ SyncProgress(h)'
      BY <2>1, <2>2, Moved DEF CallInv, CallWellFormed, SyncInRange, SyncProgress, Syncing
    <2>5. QED
      BY <2>1, <2>3, <2>4, Moved, LocalStep DEF CallInv
  <1>9. ASSUME NEW h \in Handlers, UpsertBalance(h) PROVE Inductive'
    <2> DEFINE pc == IF call[h].at <= call[h].through THEN "acquire" ELSE "aggregate"
    <2>1. Goto(h, pc) /\ UNCHANGED <<row, acquired, month>> /\ call[h].pc = "balanceRow"
      BY <1>9 DEF UpsertBalance
    <2>2. CallInv(h) /\ call[h].at = HireMonth[call[h].employee]
      BY <2>1 DEF Inductive, CallInv, SyncInRange
    <2>3. /\ ExistingCurrent(h)' /\ MissedAllOverlaps(h)'
          /\ PaidInTenant(h)' /\ AuditPending(h)'
      BY <2>1, <2>2, Moved, SnapshotKeeps DEF PastOverlapCheck
    <2>4. /\ call[h].employee \in Employees /\ call[h].through \in Nat
          /\ HireMonth[call[h].employee] \in Nat
      BY <2>1, <2>2 DEF CallInv, CallWellFormed, Syncing, TypeOK, Call
    <2>5. CallWellFormed(h)' /\ SyncInRange(h)' /\ SyncProgress(h)'
      BY <2>1, <2>2, <2>4, Moved
      DEF CallInv, CallWellFormed, SyncInRange, SyncProgress, Syncing
    <2>6. QED
      BY <2>1, <2>3, <2>5, Moved, LocalStep DEF CallInv
  <1>10. ASSUME NEW h \in Handlers, AcquireMonth(h) PROVE Inductive'
    <2> DEFINE e == call[h].employee
               t == Tenant(h)
               m == call[h].at
    <2>1. /\ call[h].pc = "acquire" /\ CallInv(h) /\ call[h].user \in Users
          /\ e \in Employees /\ t \in Tenants /\ EmployeeTenant[e] = t
          /\ m \in HireMonth[e]..call[h].through /\ call[h].through \in 1..month
          /\ HireMonth[e] \in Nat /\ m \in Nat
      BY <1>10, TenantOfCall DEF AcquireMonth, Inductive, CallInv, CallWellFormed, SyncInRange,
         Syncing, TypeOK, Call
    <2>2. /\ acquired'[t][e] = acquired[t][e] \cup {m}
          /\ \A s \in Tenants, f \in Employees : acquired[s][f] \subseteq acquired'[s][f]
          /\ UNCHANGED <<row, month>>
      BY <1>10, <2>1 DEF AcquireMonth, TypeOK
    <2>3. RowsGrow /\ NoNewApproval
      BY <2>2 DEF RowsGrow, NoNewApproval, TypeOK, Months
    <2>4. /\ call'[h].at = m + 1
          /\ call'[h].pc = IF m + 1 <= call[h].through THEN "acquire" ELSE "auditSync"
          /\ call'[h].op = call[h].op /\ call'[h].through = call[h].through
          /\ call'[h].user = call[h].user /\ call'[h].request = call[h].request
          /\ call'[h].existing = call[h].existing /\ call'[h].missed = call[h].missed
          /\ call'[h].employee = e /\ Tenant(h)' = t
      BY <1>10 DEF AcquireMonth, NextMonth, TypeOK, Call, Tenant
    <2>5. /\ ExistingCurrent(h)' /\ MissedAllOverlaps(h)'
          /\ PaidInTenant(h)' /\ AuditPending(h)'
      BY <2>1, <2>2, <2>4, SnapshotKeeps DEF PastOverlapCheck
    <2>6. CallWellFormed(h)' /\ SyncInRange(h)'
      BY <2>1, <2>2, <2>4 DEF CallInv, CallWellFormed, SyncInRange, Syncing
    <2>7. HireMonth[e]..m \subseteq acquired'[t][e]
      <3>1. HireMonth[e]..(m - 1) \subseteq acquired[t][e]
        BY <2>1 DEF CallInv, SyncProgress
      <3>2. \A k \in HireMonth[e]..m : k = m \/ k \in HireMonth[e]..(m - 1)
        BY <2>1
      <3>3. QED
        BY <3>1, <3>2, <2>2
    <2>8. SyncProgress(h)'
      <3>1. CASE m + 1 <= call[h].through
        BY <3>1, <2>1, <2>4, <2>7 DEF SyncProgress
      <3>2. CASE ~(m + 1 <= call[h].through)
        <4>1. m = call[h].through
          BY <3>2, <2>1
        <4>2. QED
          BY <3>2, <4>1, <2>1, <2>4, <2>7 DEF SyncProgress
      <3>3. QED
        BY <3>1, <3>2
    <2>9. ASSUME NEW g \in Handlers, g # h PROVE CallInv(g)'
      BY <1>10, <2>3, <2>9, CallFrame DEF AcquireMonth, Inductive, TypeOK
    <2>10. RowsWellFormed'
      BY <2>2 DEF RowsWellFormed, Inductive
    <2>11. QED
      BY <2>5, <2>6, <2>8, <2>9, <2>10 DEF Inductive, CallInv
  <1>11. ASSUME NEW h \in Handlers, AuditSync(h) PROVE Inductive'
    <2>1. Goto(h, "aggregate") /\ UNCHANGED <<row, acquired, month>> /\ call[h].pc = "auditSync"
      BY <1>11 DEF AuditSync
    <2>2. CallInv(h)
      BY DEF Inductive
    <2>3. /\ ExistingCurrent(h)' /\ MissedAllOverlaps(h)'
          /\ PaidInTenant(h)' /\ AuditPending(h)'
      BY <2>1, <2>2, Moved, SnapshotKeeps DEF PastOverlapCheck
    <2>4. CallWellFormed(h)' /\ SyncInRange(h)' /\ SyncProgress(h)'
      BY <2>1, <2>2, Moved DEF CallInv, CallWellFormed, SyncInRange, SyncProgress, Syncing
    <2>5. QED
      BY <2>1, <2>3, <2>4, Moved, LocalStep DEF CallInv
  <1>12. ASSUME NEW h \in Handlers, Aggregate(h) PROVE Inductive'
    <2>1. CASE Tenant(h) \notin policies
      BY <1>12, <2>1, AnswerStep DEF Aggregate
    <2>2. CASE Tenant(h) \in policies
      <3> DEFINE c == [call[h] EXCEPT !.pc = "consumed",
                                      !.counted = acquired[Tenant(h)][call[h].employee]]
      <3>1. /\ call' = [call EXCEPT ![h] = c] /\ UNCHANGED <<row, acquired, month>>
            /\ call[h].pc = "aggregate" /\ CallInv(h)
        BY <1>12, <2>2 DEF Aggregate, TypeOK, Inductive
      <3>2. /\ call'[h].pc = "consumed" /\ call'[h].op = call[h].op
            /\ call'[h].through = call[h].through
            /\ call'[h].user = call[h].user /\ call'[h].request = call[h].request
            /\ call'[h].existing = call[h].existing /\ call'[h].missed = call[h].missed
            /\ call'[h].employee = call[h].employee /\ Tenant(h)' = Tenant(h)
        BY <3>1 DEF TypeOK, Call, Tenant
      <3>3. /\ ExistingCurrent(h)' /\ MissedAllOverlaps(h)'
            /\ PaidInTenant(h)' /\ AuditPending(h)'
        BY <3>1, <3>2, SnapshotKeeps DEF PastOverlapCheck
      <3>4. CallWellFormed(h)' /\ SyncInRange(h)' /\ SyncProgress(h)'
        BY <3>1, <3>2 DEF CallInv, CallWellFormed, SyncInRange, SyncProgress, Syncing
      <3>5. QED
        BY <3>1, <3>3, <3>4, LocalStep DEF CallInv
    <2>3. QED
      BY <2>1, <2>2
  <1>13. ASSUME NEW h \in Handlers, ReadConsumed(h) PROVE Inductive'
    <2>1. CASE Answer(h)
      BY <1>13, <2>1, AnswerStep DEF ReadConsumed
    <2>2. CASE Goto(h, "update") /\ call[h].op = "approve"
      <3>1. UNCHANGED <<row, acquired, month>> /\ call[h].pc = "consumed" /\ CallInv(h)
        BY <1>13 DEF ReadConsumed, Inductive
      <3>2. /\ row[call[h].request].employee = call[h].employee
            /\ EmployeeTenant[call[h].employee] = Tenant(h)
        BY <2>2, <3>1 DEF CallInv, ExistingCurrent, SyncInRange, Syncing, PastOverlapCheck
      <3>3. CallWellFormed(h)' /\ SyncInRange(h)' /\ SyncProgress(h)' /\ AuditPending(h)'
        BY <2>2, <3>1, Moved
        DEF CallInv, CallWellFormed, SyncInRange, SyncProgress, AuditPending, Syncing
      <3>4. ExistingCurrent(h)' /\ PaidInTenant(h)'
        BY <2>2, <3>1, <3>2, Moved DEF CallInv, ExistingCurrent, PaidInTenant, PastOverlapCheck
      <3>5. MissedAllOverlaps(h)'
        BY <2>2, <3>1, Moved DEF CallInv, MissedAllOverlaps, SameEmployee, PastOverlapCheck
      <3>6. QED
        BY <2>2, <3>1, <3>3, <3>4, <3>5, Moved, LocalStep DEF CallInv
    <2>3. QED
      BY <1>13, <2>1, <2>2 DEF ReadConsumed
  <1>14. ASSUME NEW h \in Handlers, Update(h) PROVE Inductive'
    BY <1>14, UpdateStep
  <1>15. ASSUME NewMonth PROVE Inductive'
    <2>1. RowsGrow /\ NoNewApproval
      BY <1>15 DEF NewMonth, RowsGrow, NoNewApproval, TypeOK, Months
    <2>2. RowsWellFormed'
      BY <1>15 DEF NewMonth, RowsWellFormed, Inductive
    <2>3. QED
      BY <1>15, <2>1, <2>2, CallFrame DEF NewMonth, Inductive
  <1>16. QED
    BY <1>0, <1>1, <1>2, <1>3, <1>4, <1>5, <1>6, <1>7, <1>8, <1>9, <1>10, <1>11, <1>12,
       <1>13, <1>14, <1>15 DEF Next, Step

\* The leave module's variables keep their types, and every call knows at
\* each program point what Inductive says it knows.
THEOREM InductiveInvariant == Spec => [](TypeOK /\ Inductive)
  <1>1. Init => TypeOK /\ Inductive
    BY InitInductive
  <1>2. TypeOK /\ Inductive /\ [Next]_vars => TypeOK' /\ Inductive'
    BY TypeStep, InductiveStep
  <1>3. QED
    BY <1>1, <1>2, PTL DEF Spec

\* The tables and the calls in flight hold values of the types declared.
THEOREM TypeCorrect == Spec => []TypeOK
  BY InductiveInvariant, PTL

----------------------------------------------------------------------------
\* Overlapping approvals

\* Rows are written by Create, which fills an absent one, and by Update.
LEMMA WhoWritesRows ==
    ASSUME Next
    PROVE  \/ UNCHANGED <<row, unseen>>
           \/ \E h \in Handlers : Create(h) \/ Update(h)
  BY DEF Next, Step, AuditCreate, CallApprove, CallBalance, Load, CheckOverlap,
         FindEmployee, UpsertPolicy, UpsertBalance, AcquireMonth, AuditSync, Aggregate,
         ReadConsumed, AuditApprove, Fail, NewMonth

LEMMA OverlapStep ==
    ASSUME TypeOK, Inductive, OverlapOnlyByRace, [Next]_vars
    PROVE  OverlapOnlyByRace'
  <1>1. CASE UNCHANGED <<row, unseen>>
    BY <1>1 DEF OverlapOnlyByRace, Clash, Raced, SameEmployee
  <1>2. ASSUME NEW h \in Handlers, Create(h) PROVE OverlapOnlyByRace'
    <2>1. /\ UNCHANGED unseen
          /\ \A r \in Requests : row'[r] = row[r] \/ row'[r].status = "PENDING"
      BY <1>2 DEF Create, TypeOK
    <2>2. QED
      BY <2>1 DEF OverlapOnlyByRace, Clash, Raced, SameEmployee
  <1>3. ASSUME NEW h \in Handlers, Update(h) PROVE OverlapOnlyByRace'
    <2> DEFINE q == call[h].request
    <2>1. /\ q \in Requests /\ row[q] \in Row /\ MissedAllOverlaps(h)
          /\ call[h].op = "approve" /\ call[h].pc \in PastOverlapCheck
      BY <1>3 DEF Update, Inductive, CallInv, CallWellFormed, TypeOK, PastOverlapCheck
    <2>2. /\ \A r \in Requests \ {q} : row'[r] = row[r] /\ unseen'[r] = unseen[r]
          /\ unseen'[q] = unseen[q] \cup call[h].missed
          /\ row'[q].tenant = row[q].tenant /\ row'[q].employee = row[q].employee
          /\ row'[q].start = row[q].start /\ row'[q].end = row[q].end
      BY <1>3, <2>1 DEF Update, Approved, TypeOK, Row
    <2>3. SUFFICES ASSUME NEW r \in Requests, NEW s \in Requests, Clash(r, s)'
                   PROVE  Raced(r, s)'
      BY DEF OverlapOnlyByRace
    <2>4. CASE r # q /\ s # q
      BY <2>2, <2>3, <2>4 DEF OverlapOnlyByRace, Clash, Raced, SameEmployee
    <2>5. CASE s = q
      <3>1. /\ r # q /\ row[r].status = "APPROVED" /\ SameEmployee(r, q)
            /\ Overlaps(row[r], row[q])
        BY <2>2, <2>3, <2>5 DEF Clash, SameEmployee, Overlaps
      <3>2. r \in call[h].missed
        BY <2>1, <3>1 DEF MissedAllOverlaps
      <3>3. QED
        BY <2>2, <2>5, <3>2 DEF Raced
    <2>6. CASE r = q
      <3>1. /\ s # q /\ row[s].status = "APPROVED" /\ SameEmployee(s, q)
        BY <2>2, <2>3, <2>6 DEF Clash, SameEmployee
      <3>2. Overlaps(row[s], row[q])
        <4>1. row[q].start <= row[s].end /\ row[q].end >= row[s].start
          BY <2>2, <2>3, <2>6, <3>1 DEF Clash, Overlaps
        <4>2. /\ row[q].start \in Nat /\ row[q].end \in Nat
              /\ row[s].start \in Nat /\ row[s].end \in Nat
          BY <2>1 DEF TypeOK, Row
        <4>3. QED
          BY <4>1, <4>2 DEF Overlaps
      <3>3. s \in call[h].missed
        BY <2>1, <3>1, <3>2 DEF MissedAllOverlaps
      <3>4. QED
        BY <2>2, <2>6, <3>3 DEF Raced
    <2>7. QED
      BY <2>4, <2>5, <2>6
  <1>4. QED
    BY <1>1, <1>2, <1>3, WhoWritesRows DEF vars

\* Two approved requests of one employee overlap only if each approval was
\* in flight when the other was written: approve's check has no other gap.
THEOREM OverlapNeedsRace == Spec => []OverlapOnlyByRace
  <1>1. Init => OverlapOnlyByRace
    BY DEF Init, OverlapOnlyByRace, Clash, Absent
  <1>2. TypeOK /\ Inductive /\ OverlapOnlyByRace /\ [Next]_vars => OverlapOnlyByRace'
    BY OverlapStep
  <1>3. QED
    BY <1>1, <1>2, InductiveInvariant, PTL DEF Spec

\* With one call at a time nothing is missed.
NothingMissed ==
    /\ \A h \in Handlers : call[h].missed = {}
    /\ \A r \in Requests : unseen[r] = {}

LEMMA SerialMissesNothing ==
    ASSUME \A g, h \in Handlers : g = h
    PROVE  Spec => []NothingMissed
  <1>1. Init => NothingMissed
    BY DEF Init, NothingMissed, Idle
  <1>2. ASSUME TypeOK, Inductive, NothingMissed, [Next]_vars PROVE NothingMissed'
    <2>1. ASSUME NEW h \in Handlers, Update(h) PROVE NothingMissed'
      <3>1. call'[h].missed = {}
        BY <1>2, <2>1 DEF Update, TypeOK, Call, NothingMissed
      <3>2. \A r \in Requests : unseen'[r] = {}
        BY <1>2, <2>1 DEF Update, TypeOK, NothingMissed
      <3>3. QED
        BY <3>1, <3>2 DEF NothingMissed
    <2>2. ASSUME NEW h \in Handlers, NEW STATE c, call' = [call EXCEPT ![h] = c],
                 c.missed = {}, UNCHANGED unseen
          PROVE  NothingMissed'
      BY <1>2, <2>2 DEF NothingMissed, TypeOK
    <2>3. ASSUME NEW h \in Handlers, NEW pc, Goto(h, pc), UNCHANGED unseen
          PROVE  NothingMissed'
      BY <1>2, <2>2, <2>3, Moved DEF NothingMissed
    <2>4. ASSUME NEW h \in Handlers, Answer(h), UNCHANGED unseen PROVE NothingMissed'
      <3>1. call' = [call EXCEPT ![h] = Idle] /\ Idle.missed = {}
        BY <2>4 DEF Answer, Idle
      <3>2. QED
        BY <2>2, <2>4, <3>1
    <2>5. ASSUME NEW h \in Handlers,
                 Create(h) \/ CallApprove(h) \/ CallBalance(h)
          PROVE  NothingMissed'
      <3>1. UNCHANGED unseen /\ \A g \in Handlers \ {h} : call'[g] = call[g]
        BY <1>2, <2>5 DEF Create, CallApprove, CallBalance, TypeOK
      <3>2. call'[h].missed = {}
        <4>1. CASE Create(h)
          BY <1>2, <4>1 DEF Create, Idle, TypeOK
        <4>2. CASE CallApprove(h)
          BY <1>2, <4>2 DEF CallApprove, Idle, TypeOK
        <4>3. CASE CallBalance(h)
          BY <1>2, <4>3 DEF CallBalance, Idle, TypeOK
        <4>4. QED
          BY <2>5, <4>1, <4>2, <4>3
      <3>3. QED
        BY <1>2, <3>1, <3>2 DEF NothingMissed
    <2>6. ASSUME NEW h \in Handlers,
                 Load(h) \/ FindEmployee(h) \/ AcquireMonth(h) \/ Aggregate(h)
          PROVE  NothingMissed'
      <3>1. UNCHANGED unseen
        BY <2>6 DEF Load, FindEmployee, AcquireMonth, Aggregate
      <3>2. Answer(h) \/ \E c : call' = [call EXCEPT ![h] = c] /\ c.missed = {}
        <4>1. call[h] \in Call /\ call[h].missed = {}
          BY <1>2 DEF NothingMissed, TypeOK
        <4>2. QED
          BY <2>6, <4>1 DEF Load, FindEmployee, AcquireMonth, Aggregate, Call
      <3>3. QED
        BY <2>2, <2>4, <3>1, <3>2
    <2>7. ASSUME NEW h \in Handlers,
                 \/ AuditCreate(h) \/ CheckOverlap(h) \/ UpsertPolicy(h) \/ UpsertBalance(h)
                 \/ AuditSync(h) \/ ReadConsumed(h) \/ AuditApprove(h) \/ Fail(h)
          PROVE  NothingMissed'
      <3>1. UNCHANGED unseen /\ (Answer(h) \/ \E pc : Goto(h, pc))
        BY <2>7 DEF AuditCreate, CheckOverlap, UpsertPolicy, UpsertBalance, AuditSync,
           ReadConsumed, AuditApprove, Fail
      <3>2. QED
        BY <2>3, <2>4, <3>1
    <2>8. CASE UNCHANGED <<call, unseen>>
      BY <1>2, <2>8 DEF NothingMissed
    <2>9. QED
      BY <1>2, <2>1, <2>5, <2>6, <2>7, <2>8 DEF Next, Step, NewMonth, vars
  <1>3. QED
    BY <1>1, <1>2, InductiveInvariant, PTL DEF Spec

\* Served one call at a time, the module never approves overlapping requests,
\* whatever calls arrive and wherever they fail.
THEOREM SerialNoOverlap ==
    ASSUME \A g, h \in Handlers : g = h
    PROVE  Spec => []NoOverlappingApprovals
  <1>1. OverlapOnlyByRace /\ NothingMissed => NoOverlappingApprovals
    BY DEF OverlapOnlyByRace, NothingMissed, NoOverlappingApprovals, Raced
  <1>2. QED
    BY <1>1, OverlapNeedsRace, SerialMissesNothing, PTL

----------------------------------------------------------------------------
\* Acquisitions, the audit trail and tenants

LEMMA WhoAcquires ==
    ASSUME TypeOK, [Next]_vars
    PROVE  /\ \/ UNCHANGED acquired
              \/ \E h \in Handlers : AcquireMonth(h)
           /\ month \in Nat /\ month' \in Nat /\ month <= month'
  <1>1. UNCHANGED acquired \/ \E h \in Handlers : AcquireMonth(h)
    BY DEF Next, Step, Create, AuditCreate, CallApprove, CallBalance, Load, CheckOverlap,
       FindEmployee, UpsertPolicy, UpsertBalance, AuditSync, Aggregate, ReadConsumed,
       Update, AuditApprove, Fail, NewMonth, vars
  <1>2. UNCHANGED month \/ NewMonth
    BY DEF Next, Step, Create, AuditCreate, CallApprove, CallBalance, Load, CheckOverlap,
       FindEmployee, UpsertPolicy, UpsertBalance, AcquireMonth, AuditSync, Aggregate,
       ReadConsumed, Update, AuditApprove, Fail, vars
  <1>3. QED
    BY <1>1, <1>2 DEF NewMonth, TypeOK, Months

LEMMA PrefixStep ==
    ASSUME TypeOK, Inductive, AcquiredPrefix, [Next]_vars
    PROVE  AcquiredPrefix'
  <1>1. month \in Nat /\ month' \in Nat /\ month <= month'
    BY WhoAcquires
  <1>2. CASE UNCHANGED acquired
    BY <1>1, <1>2 DEF AcquiredPrefix
  <1>3. ASSUME NEW h \in Handlers, AcquireMonth(h) PROVE AcquiredPrefix'
    <2> DEFINE e == call[h].employee
               t == Tenant(h)
               m == call[h].at
    <2>1. /\ call[h].pc = "acquire" /\ CallInv(h) /\ e \in Employees /\ t \in Tenants
          /\ m \in HireMonth[e]..call[h].through /\ call[h].through \in 1..month
          /\ HireMonth[e] \in Nat \ {0} /\ HireMonth[e]..(m - 1) \subseteq acquired[t][e]
      BY <1>3, TenantOfCall DEF AcquireMonth, Inductive, CallInv, CallWellFormed, SyncInRange,
         SyncProgress, Syncing
    <2>2. /\ acquired' = [acquired EXCEPT ![t][e] = acquired[t][e] \cup {m}]
          /\ month' = month
      BY <1>3 DEF AcquireMonth
    <2>3. ASSUME NEW s \in Tenants, NEW f \in Employees
          PROVE  \E k \in 0..month : acquired'[s][f] = HireMonth[f]..k
      <3>1. PICK k \in 0..month : acquired[s][f] = HireMonth[f]..k
        BY DEF AcquiredPrefix
      <3>2. CASE s = t /\ f = e
        <4>1. acquired'[t][e] = acquired[t][e] \cup {m}
          BY <2>1, <2>2 DEF TypeOK
        <4>2. CASE m <= k
          <5>1. m \in HireMonth[e]..k
            BY <2>1, <4>2
          <5>2. QED
            BY <3>1, <3>2, <4>1, <5>1
        <4>3. CASE m > k
          <5>1. m - 1 <= k \/ m = HireMonth[e]
            <6>1. m # HireMonth[e] => m - 1 \in HireMonth[e]..(m - 1)
              BY <2>1
            <6>2. QED
              BY <2>1, <3>1, <3>2, <6>1
          <5>2. HireMonth[e]..m = (HireMonth[e]..k) \cup {m}
            BY <2>1, <4>3, <5>1
          <5>3. m \in 0..month
            BY <2>1, <1>1
          <5>4. QED
            BY <3>1, <3>2, <4>1, <5>2, <5>3
        <4>4. QED
          BY <4>2, <4>3, <2>1
      <3>3. CASE ~(s = t /\ f = e)
        BY <2>1, <2>2, <3>1, <3>3 DEF TypeOK
      <3>4. QED
        BY <3>2, <3>3
    <2>4. QED
      BY <2>2, <2>3 DEF AcquiredPrefix
  <1>4. QED
    BY <1>2, <1>3, WhoAcquires

\* The acquisitions of an employee are at all times the months from hire up
\* to some month not in the future, without a gap: syncs that interleave,
\* stop half way or started in different months cannot leave a hole.
THEOREM NoAcquisitionGap == Spec => []AcquiredPrefix
  <1>1. Init => AcquiredPrefix
    <2> SUFFICES ASSUME Init, NEW t \in Tenants, NEW e \in Employees
                 PROVE  \E k \in 0..month : acquired[t][e] = HireMonth[e]..k
      BY DEF AcquiredPrefix
    <2>1. HireMonth[e]..0 = {} /\ 0 \in 0..1
      OBVIOUS
    <2>2. QED
      BY <2>1 DEF Init
  <1>2. TypeOK /\ Inductive /\ AcquiredPrefix /\ [Next]_vars => AcquiredPrefix'
    BY PrefixStep
  <1>3. QED
    BY <1>1, <1>2, InductiveInvariant, PTL DEF Spec

LEMMA SnapshotStep ==
    ASSUME TypeOK, Inductive, AcquiredPrefix, SnapshotCoversMonths, [Next]_vars
    PROVE  SnapshotCoversMonths'
  <1>1. month \in Nat /\ month' \in Nat /\ month <= month'
    BY WhoAcquires
  <1>2. SUFFICES ASSUME NEW h \in Handlers, call'[h].pc = "consumed"
                 PROVE  \E k \in call'[h].through..month' :
                            call'[h].counted = HireMonth[call'[h].employee]..k
    BY DEF SnapshotCoversMonths
  <1> DEFINE Kept == /\ call[h].pc = "consumed" /\ call'[h].through = call[h].through
                     /\ call'[h].employee = call[h].employee
                     /\ call'[h].counted = call[h].counted
             Taken == Aggregate(h) /\ Tenant(h) \in policies
  <1>3. CASE Kept
    <2>1. PICK k \in call[h].through..month : call[h].counted = HireMonth[call[h].employee]..k
      BY <1>3 DEF SnapshotCoversMonths
    <2>2. call[h].through \in Nat
      BY DEF TypeOK, Call
    <2>3. k \in call[h].through..month'
      BY <1>1, <2>1, <2>2
    <2>4. QED
      BY <1>3, <2>1, <2>3
  <1>4. CASE Taken
    <2> DEFINE e == call[h].employee
               t == Tenant(h)
    <2>1. /\ call[h].pc = "aggregate" /\ CallInv(h) /\ e \in Employees /\ t \in Tenants
          /\ call[h].through \in 1..month /\ HireMonth[e] \in Nat \ {0}
          /\ HireMonth[e]..call[h].through \subseteq acquired[t][e]
      BY <1>4, TenantOfCall DEF Aggregate, Inductive, CallInv, CallWellFormed, SyncInRange,
         SyncProgress, Syncing
    <2>2. /\ call'[h].through = call[h].through /\ call'[h].employee = e
          /\ call'[h].counted = acquired[t][e]
      BY <1>4, <2>1 DEF Aggregate, TypeOK, Call
    <2>3. PICK k \in 0..month : acquired[t][e] = HireMonth[e]..k
      BY <2>1 DEF AcquiredPrefix
    <2>4. CASE k >= call[h].through
      BY <1>1, <2>1, <2>2, <2>3, <2>4
    <2>5. CASE k < call[h].through
      <3>1. HireMonth[e] > call[h].through
        BY <2>1, <2>3, <2>5
      <3>2. HireMonth[e]..k = HireMonth[e]..call[h].through
        BY <2>1, <2>3, <2>5, <3>1
      <3>3. QED
        BY <1>1, <2>1, <2>2, <2>3, <3>2
    <2>6. QED
      BY <2>1, <2>3, <2>4, <2>5
  <1>5. Kept \/ Taken
    <2>1. CASE UNCHANGED vars \/ NewMonth
      BY <1>2, <2>1 DEF NewMonth, vars
    <2>2. ASSUME NEW g \in Handlers, Update(g) PROVE Kept
      <3>1. CASE g = h
        <4>1. call'[h] = [call[h] EXCEPT !.pc = "auditApprove"]
          BY <2>2, <3>1 DEF Update
        <4>2. QED
          BY <1>2, <4>1 DEF TypeOK, Call
      <3>2. CASE g # h
        <4>1. call'[h] = call[h] \/ \E s : call'[h] = [call[h] EXCEPT !.missed = s]
          BY <2>2, <3>2 DEF Update
        <4>2. QED
          BY <1>2, <4>1 DEF TypeOK, Call
      <3>3. QED
        BY <3>1, <3>2
    <2>3. ASSUME NEW g \in Handlers, g # h, ~Update(g),
                 Create(g) \/ CallApprove(g) \/ CallBalance(g) \/ Step(g) \/ Fail(g)
          PROVE  Kept
      BY <1>2, <2>3 DEF Create, CallApprove, CallBalance, Step, Fail, AuditCreate, Load,
         CheckOverlap, FindEmployee, UpsertPolicy, UpsertBalance, AcquireMonth, AuditSync,
         Aggregate, ReadConsumed, AuditApprove, Goto, Answer, TypeOK
    <2>4. Idle.pc = "idle"
      BY DEF Idle
    <2>5. CASE Create(h) \/ CallApprove(h) \/ CallBalance(h)
      <3>1. CASE Create(h)
        <4>1. PICK u \in Users, r \in Requests : call' = [call EXCEPT ![h] =
                [Idle EXCEPT !.op = "create", !.pc = "auditCreate", !.user = u, !.request = r]]
          BY <3>1 DEF Create
        <4>2. call'[h].pc = "auditCreate"
          BY <4>1 DEF Idle, TypeOK
        <4>3. QED
          BY <1>2, <4>2
      <3>2. CASE CallApprove(h)
        <4>1. PICK u \in Users, r \in Requests : call' = [call EXCEPT ![h] =
                [Idle EXCEPT !.op = "approve", !.pc = "load", !.user = u, !.request = r]]
          BY <3>2 DEF CallApprove
        <4>2. call'[h].pc = "load"
          BY <4>1 DEF Idle, TypeOK
        <4>3. QED
          BY <1>2, <4>2
      <3>3. CASE CallBalance(h)
        <4>1. PICK u \in Users, e \in Employees : call' = [call EXCEPT ![h] =
                [Idle EXCEPT !.op = "balance", !.pc = "employee", !.user = u, !.employee = e]]
          BY <3>3 DEF CallBalance
        <4>2. call'[h].pc = "employee"
          BY <4>1 DEF Idle, TypeOK
        <4>3. QED
          BY <1>2, <4>2
      <3>4. QED
        BY <2>5, <3>1, <3>2, <3>3
    <2>6. CASE Load(h) \/ CheckOverlap(h) \/ FindEmployee(h) \/ AcquireMonth(h)
      BY <1>2, <2>4, <2>6 DEF Load, CheckOverlap, FindEmployee, AcquireMonth, Goto, Answer,
         TypeOK, Call
    <2>7. CASE UpsertPolicy(h) \/ UpsertBalance(h) \/ AuditSync(h) \/ ReadConsumed(h)
      BY <1>2, <2>4, <2>7 DEF UpsertPolicy, UpsertBalance, AuditSync, ReadConsumed, Goto, Answer,
         TypeOK, Call
    <2>8. CASE AuditCreate(h) \/ AuditApprove(h) \/ Fail(h) \/ (Aggregate(h) /\ ~Taken)
      BY <1>2, <2>4, <2>8 DEF AuditCreate, AuditApprove, Fail, Aggregate, Answer, TypeOK
    <2>9. QED
      BY <2>1, <2>2, <2>3, <2>5, <2>6, <2>7, <2>8 DEF Next, Step
  <1>6. QED
    BY <1>3, <1>4, <1>5

\* The months a snapshot sums have no gap up to the month its call read, for
\* any number of calls syncing the same employee and failing half way.
THEOREM SnapshotsComplete == Spec => []SnapshotCoversMonths
  <1>1. Init => SnapshotCoversMonths
    BY DEF Init, SnapshotCoversMonths, Idle
  <1>2. TypeOK /\ Inductive /\ AcquiredPrefix /\ SnapshotCoversMonths /\ [Next]_vars
          => SnapshotCoversMonths'
    BY SnapshotStep
  <1>3. QED
    BY <1>1, <1>2, InductiveInvariant, NoAcquisitionGap, PTL DEF Spec

LEMMA TenantStep ==
    ASSUME TypeOK, Inductive, TenantIsolation, [Next]_vars
    PROVE  TenantIsolation'
  <1>1. \A r \in Requests : row'[r].status = "APPROVED" =>
          /\ UserTenant[row'[r].approver] = row'[r].tenant
          /\ row'[r].paid => EmployeeTenant[row'[r].employee] = row'[r].tenant
    <2>1. CASE UNCHANGED row
      BY <2>1 DEF TenantIsolation
    <2>2. ASSUME NEW h \in Handlers, Create(h)
          PROVE  \A r \in Requests : row'[r] = row[r] \/ row'[r].status = "PENDING"
      BY <2>2 DEF Create, TypeOK
    <2>3. ASSUME NEW h \in Handlers, Update(h)
          PROVE  LET q == call[h].request IN
                 /\ \A r \in Requests \ {q} : row'[r] = row[r]
                 /\ UserTenant[row'[q].approver] = row'[q].tenant
                 /\ row'[q].paid => EmployeeTenant[row'[q].employee] = row'[q].tenant
      <3> DEFINE q == call[h].request
      <3>1. /\ q \in Requests /\ row[q] \in Row /\ row[q].tenant = Tenant(h)
            /\ row[q].paid => EmployeeTenant[row[q].employee] = Tenant(h)
        BY <2>3 DEF Update, Inductive, CallInv, CallWellFormed, ExistingCurrent, PaidInTenant,
           PastOverlapCheck, TypeOK
      <3>2. row' = [row EXCEPT ![q] = [row[q] EXCEPT !.status = "APPROVED",
                                                     !.approver = call[h].user]]
        BY <2>3 DEF Update, Approved
      <3>3. QED
        BY <3>1, <3>2 DEF TypeOK, Row, Tenant
    <2>4. QED
      BY <2>1, <2>2, <2>3, WhoWritesRows DEF vars, TenantIsolation
  <1>2. \A t \in Tenants, e \in Employees : acquired'[t][e] # {} => EmployeeTenant[e] = t
    <2>1. CASE UNCHANGED acquired
      BY <2>1 DEF TenantIsolation
    <2>2. ASSUME NEW h \in Handlers, AcquireMonth(h),
                 NEW t \in Tenants, NEW e \in Employees, acquired'[t][e] # {}
          PROVE  EmployeeTenant[e] = t
      <3>1. EmployeeTenant[call[h].employee] = Tenant(h)
        BY <2>2 DEF AcquireMonth, Inductive, CallInv, SyncInRange, Syncing
      <3>2. acquired[t][e] # {} \/ (t = Tenant(h) /\ e = call[h].employee)
        BY <2>2 DEF AcquireMonth, TypeOK
      <3>3. QED
        BY <3>1, <3>2 DEF TenantIsolation
    <2>3. QED
      BY <2>1, <2>2, WhoAcquires
  <1>3. QED
    BY <1>1, <1>2 DEF TenantIsolation

\* An approval never crosses a tenant, and no employee acquires days, nor is
\* approved paid leave, in another tenant than the employee's own.
THEOREM TenantsIsolated == Spec => []TenantIsolation
  <1>1. Init => TenantIsolation
    BY DEF Init, TenantIsolation, Absent
  <1>2. TypeOK /\ Inductive /\ TenantIsolation /\ [Next]_vars => TenantIsolation'
    BY TenantStep
  <1>3. QED
    BY <1>1, <1>2, InductiveInvariant, PTL DEF Spec

\* Rows keep their data and approvals stand, acquisitions and months only grow.
LEMMA TablesGrow ==
    ASSUME TypeOK, Inductive, [Next]_vars
    PROVE  RowsGrow
  <1>1. \A r \in Requests : row[r].status # "ABSENT" =>
           /\ row'[r].tenant = row[r].tenant /\ row'[r].employee = row[r].employee
           /\ row'[r].start = row[r].start /\ row'[r].end = row[r].end
           /\ row'[r].paid = row[r].paid /\ row'[r].status # "ABSENT"
           /\ row[r].status = "APPROVED" => row'[r].status = "APPROVED"
    <2>1. CASE UNCHANGED row
      BY <2>1
    <2>2. ASSUME NEW h \in Handlers, Create(h),
                 NEW r \in Requests, row[r].status # "ABSENT"
          PROVE  row'[r] = row[r]
      BY <2>2 DEF Create, TypeOK, Absent
    <2>3. ASSUME NEW h \in Handlers, Update(h), NEW r \in Requests
          PROVE  row'[r] = row[r] \/ row'[r] = [row[r] EXCEPT !.status = "APPROVED",
                                                            !.approver = call[h].user]
      BY <2>3 DEF Update, Approved, TypeOK, Inductive, CallInv, CallWellFormed
    <2>4. ASSUME NEW h \in Handlers, Update(h),
                 NEW r \in Requests, row[r].status # "ABSENT"
          PROVE  /\ row'[r].tenant = row[r].tenant /\ row'[r].employee = row[r].employee
                 /\ row'[r].start = row[r].start /\ row'[r].end = row[r].end
                 /\ row'[r].paid = row[r].paid /\ row'[r].status # "ABSENT"
                 /\ row[r].status = "APPROVED" => row'[r].status = "APPROVED"
      <3>1. row[r] \in Row
        BY DEF TypeOK
      <3> DEFINE x == [row[r] EXCEPT !.status = "APPROVED", !.approver = call[h].user]
      <3>2. row'[r] = row[r] \/ row'[r] = x
        BY <2>3, <2>4
      <3>3. /\ x.tenant = row[r].tenant /\ x.employee = row[r].employee
            /\ x.start = row[r].start /\ x.end = row[r].end
            /\ x.paid = row[r].paid /\ x.status = "APPROVED"
        BY <3>1 DEF Row
      <3>4. QED
        BY <2>4, <3>2, <3>3
    <2>5. QED
      BY <2>1, <2>2, <2>4, WhoWritesRows DEF vars
  <1>2. \A t \in Tenants, e \in Employees : acquired[t][e] \subseteq acquired'[t][e]
    <2>1. ASSUME NEW h \in Handlers, AcquireMonth(h)
          PROVE  \A t \in Tenants, e \in Employees : acquired[t][e] \subseteq acquired'[t][e]
      BY <2>1 DEF AcquireMonth, TypeOK
    <2>2. QED
      BY <2>1, WhoAcquires
  <1>3. QED
    BY <1>1, <1>2, WhoAcquires DEF RowsGrow

\* What an audit record claims of the tables.
Claim(a) ==
    /\ a.action = "create" => row[a.request].status # "ABSENT"
    /\ a.action = "approve" => row[a.request].status = "APPROVED"
    /\ a.action = "synced" =>
         HireMonth[a.employee]..a.through \subseteq acquired[a.tenant][a.employee]

LEMMA ClaimStands ==
    ASSUME TypeOK, RowsGrow, NEW a \in AuditRecord, Claim(a)
    PROVE  Claim(a)'
  <1>1. CASE a.action = "create"
    <2>1. a.request \in Requests
      BY <1>1 DEF AuditRecord
    <2>2. QED
      BY <1>1, <2>1 DEF Claim, RowsGrow
  <1>2. CASE a.action = "approve"
    <2>1. a.request \in Requests
      BY <1>2 DEF AuditRecord
    <2>2. QED
      BY <1>2, <2>1 DEF Claim, RowsGrow
  <1>3. CASE a.action = "synced"
    <2>1. a.tenant \in Tenants /\ a.employee \in Employees
      BY <1>3 DEF AuditRecord
    <2>2. QED
      BY <1>3, <2>1 DEF Claim, RowsGrow
  <1>4. QED
    BY <1>1, <1>2, <1>3 DEF Claim

LEMMA AuditStep ==
    ASSUME TypeOK, Inductive, AuditTruthful, [Next]_vars
    PROVE  AuditTruthful'
  <1>1. RowsGrow /\ TypeOK'
    BY TablesGrow, TypeStep
  <1>2. SUFFICES ASSUME NEW a \in audit' PROVE Claim(a)'
    BY DEF AuditTruthful, Claim
  <1>3. CASE a \in audit
    BY <1>1, <1>3, ClaimStands DEF AuditTruthful, Claim, TypeOK
  <1>4. ASSUME NEW h \in Handlers, AuditCreate(h), a \notin audit PROVE Claim(a)'
    <2>1. a = [action |-> "create", request |-> call[h].request] /\ row' = row
      BY <1>4 DEF AuditCreate
    <2>2. row[call[h].request].status # "ABSENT"
      BY <1>4 DEF AuditCreate, Inductive, CallInv, AuditPending
    <2>3. QED
      BY <2>1, <2>2 DEF Claim
  <1>5. ASSUME NEW h \in Handlers, AuditApprove(h), a \notin audit PROVE Claim(a)'
    <2>1. /\ a = [action |-> "approve", request |-> call[h].request,
                  before |-> call[h].existing.status]
          /\ row' = row
      BY <1>5 DEF AuditApprove
    <2>2. row[call[h].request].status = "APPROVED"
      BY <1>5 DEF AuditApprove, Inductive, CallInv, AuditPending
    <2>3. QED
      BY <2>1, <2>2 DEF Claim
  <1>6. ASSUME NEW h \in Handlers, AuditSync(h), a \notin audit PROVE Claim(a)'
    <2>1. /\ a = [action |-> "synced", tenant |-> Tenant(h),
                  employee |-> call[h].employee, through |-> call[h].through]
          /\ acquired' = acquired
      BY <1>6 DEF AuditSync
    <2>2. HireMonth[call[h].employee]..call[h].through
            \subseteq acquired[Tenant(h)][call[h].employee]
      BY <1>6 DEF AuditSync, Inductive, CallInv, SyncProgress
    <2>3. QED
      BY <2>1, <2>2 DEF Claim
  <1>7. UNCHANGED audit
          \/ \E h \in Handlers : AuditCreate(h) \/ AuditApprove(h) \/ AuditSync(h)
    BY DEF Next, Step, Create, CallApprove, CallBalance, Load, CheckOverlap, FindEmployee,
       UpsertPolicy, UpsertBalance, AcquireMonth, Aggregate, ReadConsumed, Update, Fail,
       NewMonth, vars
  <1>8. QED
    BY <1>3, <1>4, <1>5, <1>6, <1>7

\* The audit trail never runs ahead of the tables: every recorded creation,
\* approval and sync is in them, at all times.
THEOREM AuditNeverAhead == Spec => []AuditTruthful
  <1>1. Init => AuditTruthful
    BY DEF Init, AuditTruthful
  <1>2. TypeOK /\ Inductive /\ AuditTruthful /\ [Next]_vars => AuditTruthful'
    BY AuditStep
  <1>3. QED
    BY <1>1, <1>2, InductiveInvariant, PTL DEF Spec

----------------------------------------------------------------------------
\* Balances

\* A request costs a natural number of tenths.
LEMMA DebitNat == ASSUME TypeOK PROVE \A r \in Requests : Debit[r] \in Nat
  <1> SUFFICES ASSUME NEW r \in Requests PROVE Debit[r] \in Nat
    OBVIOUS
  <1>1. row[r].start \in Nat /\ row[r].end \in Nat
    BY DEF TypeOK, Row
  <1> DEFINE all == UtcDay(row[r].start)..UtcDay(row[r].end)
             days == {d \in all : IsWorkingDay(d)}
  <1>2. UtcDay(row[r].start) \in Int /\ UtcDay(row[r].end) \in Int
    BY <1>1 DEF UtcDay, HalvesPerDay
  <1>3. IsFiniteSet(all)
    BY <1>2, FS_Interval
  <1>4. Cardinality(days) \in Nat
    BY <1>3, FS_Subset, FS_CardinalityType
  <1>5. Debit[r] = 10 * Cardinality(days)
    BY DEF Debit, CountWorkingDays, Tenths
  <1> HIDE DEF days
  <1>6. QED
    BY <1>4, <1>5

LEMMA ConsumingFinite ==
    ASSUME Funds, NEW t, NEW e
    PROVE  IsFiniteSet(ConsumingRequests(t, e))
  BY FS_Subset DEF Funds, ConsumingRequests

LEMMA MonthsFinite == IsFiniteSet(Months)
  <1>1. 1 \in Int /\ MaxMonth \in Int
    OBVIOUS
  <1>2. QED
    BY <1>1, FS_Interval DEF Months

\* What is consumed, acquired and left is a whole number of tenths.
LEMMA BalanceType ==
    ASSUME TypeOK, Funds, NEW t \in Tenants, NEW e \in Employees
    PROVE  /\ Consumed(t, e) \in Nat /\ Accrued(e, acquired[t][e]) \in Nat
           /\ CarriedOver[e] \in Nat /\ Balance(t, e) \in Int
           /\ Balance(t, e) = CarriedOver[e] + Accrued(e, acquired[t][e]) - Consumed(t, e)
  <1>1. Consumed(t, e) \in Nat
    <2> DEFINE C == ConsumingRequests(t, e)
    <2>1. C \in SUBSET Requests
      BY DEF ConsumingRequests
    <2>2. IsFiniteSet(C)
      BY ConsumingFinite
    <2> HIDE DEF C
    <2>3. SumFunctionOnSet(Debit, C) \in Nat
      BY <2>1, <2>2, DebitNat, SumNat
    <2>4. QED
      BY <2>3 DEF Consumed, C
  <1>2. acquired[t][e] \in SUBSET Months /\ IsFiniteSet(acquired[t][e])
    BY MonthsFinite, FS_Subset DEF TypeOK
  <1>3. Credit[e] \in [Months -> Nat] /\ CarriedOver[e] \in Nat
    BY CreditAssumption
  <1>4. Accrued(e, acquired[t][e]) \in Nat
    BY <1>2, <1>3, SumNat DEF Accrued
  <1>5. QED
    BY <1>1, <1>3, <1>4 DEF Balance, Available

\* While no request is approved, what is left never shrinks.
LEMMA QuietBalance ==
    ASSUME TypeOK, TypeOK', Funds, RowsGrow, NoNewApproval,
           NEW t \in Tenants, NEW e \in Employees
    PROVE  /\ ConsumingRequests(t, e)' = ConsumingRequests(t, e)
           /\ Balance(t, e)' \in Int /\ Balance(t, e)' >= Balance(t, e)
  <1> DEFINE C == ConsumingRequests(t, e)
  <1>1. ConsumingRequests(t, e)' = C
    BY DEF ConsumingRequests, RowsGrow, NoNewApproval
  <1>2. \A r \in C : Debit'[r] = Debit[r]
    BY DEF ConsumingRequests, RowsGrow, Debit
  <1>3. Consumed(t, e)' = Consumed(t, e)
    <2>1. Consumed(t, e)' = SumFunctionOnSet(Debit', C)
      BY <1>1 DEF Consumed
    <2>2. IsFiniteSet(C)
      BY ConsumingFinite
    <2> HIDE DEF C
    <2>3. SumFunctionOnSet(Debit', C) = SumFunctionOnSet(Debit, C)
      BY <1>2, <2>2, SumSame
    <2>4. QED
      BY <2>1, <2>3 DEF Consumed, C
  <1>4. /\ acquired'[t][e] \in SUBSET Months /\ IsFiniteSet(acquired'[t][e])
        /\ acquired[t][e] \in SUBSET acquired'[t][e]
    BY MonthsFinite, FS_Subset DEF TypeOK, RowsGrow
  <1>5. \A m \in acquired'[t][e] : Credit[e][m] \in Nat
    BY <1>4, CreditAssumption
  <1>6. /\ Accrued(e, acquired'[t][e]) \in Nat
        /\ Accrued(e, acquired[t][e]) <= Accrued(e, acquired'[t][e])
    BY <1>4, <1>5, SumNat, SumMonotone DEF Accrued
  <1>7. Balance(t, e)' = CarriedOver[e] + Accrued(e, acquired'[t][e]) - Consumed(t, e)
    BY <1>3 DEF Balance, Available, Accrued
  <1>8. QED
    BY <1>1, <1>6, <1>7, BalanceType

\* What the other calls know of the money survives such a step.
LEMMA QuietCall ==
    ASSUME TypeOK, TypeOK', Inductive, Funds, RowsGrow, NoNewApproval,
           NEW g \in Handlers, call'[g] = call[g]
    PROVE  SnapshotStored(g)' /\ Funded(g)'
  <1> DEFINE q == call[g].request
  <1>0. CallInv(g) /\ SnapshotStored(g) /\ Funded(g) /\ Tenant(g)' = Tenant(g)
    BY DEF Inductive, Funds, Tenant
  <1>1. SnapshotStored(g)'
    <2> SUFFICES ASSUME call[g].pc = "consumed"
                 PROVE  call[g].counted \subseteq acquired'[Tenant(g)][call[g].employee]
      BY <1>0 DEF SnapshotStored
    <2>1. Tenant(g) \in Tenants /\ call[g].employee \in Employees
      BY <1>0, TenantOfCall DEF CallInv, CallWellFormed, Syncing
    <2>2. QED
      BY <1>0, <2>1 DEF SnapshotStored, RowsGrow
  <1>2. Funded(g)'
    <2> SUFFICES ASSUME NEW t \in Tenants, NEW e \in Employees,
                        call[g].pc = "update", row'[q].paid,
                        row'[q].tenant = t, row'[q].employee = e
                 PROVE  \/ \E s \in ConsumingRequests(t, e)' : s \in call[g].missed
                        \/ Debit'[q] <= Balance(t, e)'
      BY DEF Funded
    <2>1. q \in Requests /\ row[q].status # "ABSENT"
      BY <1>0 DEF CallInv, CallWellFormed, ExistingCurrent, PastOverlapCheck
    <2>2. row[q].tenant = t /\ row[q].employee = e /\ row[q].paid /\ Debit'[q] = Debit[q]
      BY <2>1 DEF RowsGrow, Debit
    <2>3. \/ \E s \in ConsumingRequests(t, e) : s \in call[g].missed
          \/ Debit[q] <= Balance(t, e)
      BY <1>0, <2>2 DEF Funded
    <2>4. Debit[q] \in Nat /\ Balance(t, e) \in Int
      BY <2>1, DebitNat, BalanceType
    <2>5. /\ ConsumingRequests(t, e)' = ConsumingRequests(t, e)
          /\ Balance(t, e)' \in Int /\ Balance(t, e)' >= Balance(t, e)
      BY QuietBalance
    <2>6. QED
      BY <2>2, <2>3, <2>4, <2>5
  <1>3. QED
    BY <1>1, <1>2

LEMMA QuietStep ==
    ASSUME TypeOK, TypeOK', Inductive, Funds, RowsGrow, NoNewApproval,
           NEW h \in Handlers, \A g \in Handlers \ {h} : call'[g] = call[g],
           SnapshotStored(h)', Funded(h)'
    PROVE  Funds'
  <1>1. \A g \in Handlers : SnapshotStored(g)' /\ Funded(g)'
    BY QuietCall
  <1> DEFINE S == {r \in Requests : row[r].status = "APPROVED"}
             T == {r \in Requests : row'[r].status = "APPROVED"}
  <1>2. IsFiniteSet(S) /\ T \in SUBSET S
    BY DEF Funds, NoNewApproval
  <1>3. IsFiniteSet(T)
    BY <1>2, FS_Subset
  <1>4. QED
    BY <1>1, <1>3 DEF Funds

\* A call at neither of the two points claims nothing about money.
LEMMA NoClaim ==
    ASSUME NEW h \in Handlers, call'[h].pc \notin {"consumed", "update"}
    PROVE  SnapshotStored(h)' /\ Funded(h)'
  BY DEF SnapshotStored, Funded

\* The comparison with the balance: what it establishes is Funded.
LEMMA ComparisonFunds ==
    ASSUME TypeOK, Inductive, Funds, NEW h \in Handlers, ReadConsumed(h), Goto(h, "update"),
           call[h].op = "approve", Sufficient(h)
    PROVE  Funded(h)'
  <1> DEFINE q == call[h].request
  <1>1. /\ call[h].pc = "consumed" /\ CallInv(h) /\ SnapshotStored(h)
        /\ UNCHANGED <<row, acquired>> /\ call'[h].request = q
    BY Moved DEF ReadConsumed, Inductive, Funds
  <1>2. SUFFICES ASSUME NEW t \in Tenants, NEW e \in Employees,
                        row[q].tenant = t, row[q].employee = e
                 PROVE  Debit'[q] <= Balance(t, e)'
    BY <1>1 DEF Funded
  <1>3. /\ q \in Requests /\ Tenant(h) = t /\ call[h].employee = e
        /\ call[h].existing.start = row[q].start /\ call[h].existing.end = row[q].end
    BY <1>1, <1>2 DEF CallInv, CallWellFormed, ExistingCurrent, PastOverlapCheck
  <1>4. Debit[q] <= Available(t, e, call[h].counted)
    BY <1>3 DEF Sufficient, Debit
  <1>5. /\ call[h].counted \in SUBSET acquired[t][e] /\ IsFiniteSet(acquired[t][e])
        /\ acquired[t][e] \in SUBSET Months /\ IsFiniteSet(call[h].counted)
    BY <1>1, <1>3, MonthsFinite, FS_Subset DEF SnapshotStored, TypeOK
  <1>6. \A m \in acquired[t][e] : Credit[e][m] \in Nat
    BY <1>5, CreditAssumption
  <1>7. /\ Accrued(e, call[h].counted) \in Nat
        /\ Accrued(e, call[h].counted) <= Accrued(e, acquired[t][e])
    BY <1>5, <1>6, SumNat, SumMonotone DEF Accrued
  <1>8. Debit[q] <= Balance(t, e)
    BY <1>3, <1>4, <1>7, DebitNat, BalanceType DEF Available
  <1>9. Debit' = Debit
    BY <1>1 DEF Debit
  <1>10. (Balance(t, e))' = Balance(t, e)
    BY <1>1, <1>9 DEF Balance, Available, Accrued, Consumed, ConsumingRequests
  <1>11. QED
    BY <1>8, <1>9, <1>10

\* What an approval writes, in terms of what employees have left.
LEMMA UpdateBalance ==
    ASSUME TypeOK, Inductive, Funds, NEW h \in Handlers, Update(h),
           NEW t \in Tenants, NEW e \in Employees
    PROVE  LET q == call[h].request IN
           /\ Debit' = Debit /\ Balance(t, e) \in Int
           /\ row[q].paid /\ row[q].tenant = t /\ row[q].employee = e
              => q \in ConsumingRequests(t, e)'
           /\ \/ /\ ConsumingRequests(t, e)' = ConsumingRequests(t, e)
                 /\ Balance(t, e)' = Balance(t, e)
              \/ /\ ConsumingRequests(t, e)' = ConsumingRequests(t, e) \cup {q}
                 /\ q \notin ConsumingRequests(t, e)
                 /\ row[q].paid /\ row[q].tenant = t /\ row[q].employee = e
                 /\ Balance(t, e)' = Balance(t, e) - Debit[q]
  <1> DEFINE q == call[h].request
             C == ConsumingRequests(t, e)
  <1>1. q \in Requests /\ row[q] \in Row /\ UNCHANGED acquired
    BY DEF Update, Inductive, CallInv, CallWellFormed, TypeOK
  <1>2. /\ row'[q].status = "APPROVED"
        /\ row'[q].tenant = row[q].tenant /\ row'[q].employee = row[q].employee
        /\ row'[q].start = row[q].start /\ row'[q].end = row[q].end
        /\ row'[q].paid = row[q].paid
        /\ \A r \in Requests \ {q} : row'[r] = row[r]
    BY <1>1 DEF Update, Approved, TypeOK, Row
  <1>3. Debit' = Debit
    BY <1>1, <1>2 DEF Debit
  <1>4. row[q].paid /\ row[q].tenant = t /\ row[q].employee = e
          => q \in ConsumingRequests(t, e)'
    BY <1>1, <1>2 DEF ConsumingRequests
  <1>5. IsFiniteSet(C) /\ C \in SUBSET Requests
    <2>1. IsFiniteSet(C)
      BY ConsumingFinite
    <2>2. QED
      BY <2>1 DEF ConsumingRequests
  <1>6. Balance(t, e)' = CarriedOver[e] + Accrued(e, acquired[t][e])
                           - SumFunctionOnSet(Debit, ConsumingRequests(t, e)')
    BY <1>1, <1>3 DEF Balance, Available, Accrued, Consumed
  <1>7. CASE ConsumingRequests(t, e)' = C
    BY <1>3, <1>4, <1>6, <1>7, BalanceType DEF Consumed
  <1>8. CASE ConsumingRequests(t, e)' # C
    <2>1. /\ ConsumingRequests(t, e)' = C \cup {q} /\ q \notin C
          /\ row[q].paid /\ row[q].tenant = t /\ row[q].employee = e
      BY <1>1, <1>2, <1>8 DEF ConsumingRequests
    <2> HIDE DEF C
    <2>2. \A r \in C \cup {q} : Debit[r] \in Nat /\ Debit[r] \in Int
      BY <1>1, <1>5, DebitNat
    <2>3. SumFunctionOnSet(Debit, C \cup {q}) = Debit[q] + SumFunctionOnSet(Debit, C)
      BY <1>5, <2>1, <2>2, SumAdd
    <2>4. Consumed(t, e) = SumFunctionOnSet(Debit, C)
      BY DEF Consumed, C
    <2>5. Debit[q] \in Nat
      BY <2>2
    <2>6. Balance(t, e)' = Balance(t, e) - Debit[q]
      BY <1>6, <2>1, <2>3, <2>4, <2>5, BalanceType
    <2>7. QED
      BY <1>3, <1>4, <2>1, <2>6, BalanceType DEF C
  <1>9. QED
    BY <1>7, <1>8

\* An approval keeps the money invariant: every call it may have robbed of
\* its cover has the approved request among those it missed.
LEMMA UpdateFunds ==
    ASSUME TypeOK, Inductive, Funds, NEW h \in Handlers, Update(h)
    PROVE  Funds'
  <1> DEFINE q == call[h].request
  <1>1. q \in Requests /\ UNCHANGED acquired /\ row[q] \in Row
    BY DEF Update, Inductive, CallInv, CallWellFormed, TypeOK
  <1>2. /\ row'[q].tenant = row[q].tenant /\ row'[q].employee = row[q].employee
        /\ row'[q].paid = row[q].paid
        /\ \A r \in Requests \ {q} : row'[r] = row[r]
    BY <1>1 DEF Update, Approved, TypeOK, Row
  <1>3. IsFiniteSet({r \in Requests : row'[r].status = "APPROVED"})
    <2> DEFINE S == {r \in Requests : row[r].status = "APPROVED"}
    <2>1. {r \in Requests : row'[r].status = "APPROVED"} \in SUBSET (S \cup {q})
      BY <1>2
    <2>2. IsFiniteSet(S \cup {q})
      BY FS_AddElement DEF Funds
    <2> HIDE DEF S
    <2>3. QED
      BY <2>1, <2>2, FS_Subset
  <1>4. ASSUME NEW g \in Handlers PROVE SnapshotStored(g)' /\ Funded(g)'
    <2>1. CASE g = h
      <3>1. call'[h].pc = "auditApprove"
        BY DEF Update, TypeOK, Call
      <3>2. QED
        BY <2>1, <3>1, NoClaim
    <2>2. CASE g # h
      <3>1. /\ call'[g].pc = call[g].pc /\ call'[g].request = call[g].request
            /\ call'[g].user = call[g].user /\ call'[g].employee = call[g].employee
            /\ call'[g].counted = call[g].counted /\ call[g].missed \subseteq call'[g].missed
        BY <2>2 DEF Update, TypeOK, Call
      <3>2. SnapshotStored(g) /\ Funded(g) /\ CallInv(g)
        BY DEF Funds, Inductive
      <3>3. SnapshotStored(g)'
        BY <1>1, <3>1, <3>2 DEF SnapshotStored, Tenant
      <3>4. Funded(g)'
        <4> DEFINE p == call[g].request
        <4> SUFFICES ASSUME NEW t \in Tenants, NEW e \in Employees,
                            call[g].pc = "update", row'[p].paid,
                            row'[p].tenant = t, row'[p].employee = e
                     PROVE  \/ \E s \in ConsumingRequests(t, e)' : s \in call'[g].missed
                            \/ Debit'[p] <= Balance(t, e)'
          BY <3>1 DEF Funded
        <4>1. p \in Requests /\ row[p].paid /\ row[p].tenant = t /\ row[p].employee = e
          BY <1>2, <3>2 DEF CallInv, CallWellFormed
        <4>2. \/ \E s \in ConsumingRequests(t, e) : s \in call[g].missed
              \/ Debit[p] <= Balance(t, e)
          BY <3>2, <4>1 DEF Funded
        <4>3. q \in call'[g].missed
          BY <2>2, <3>2 DEF Update, TypeOK, Call, CallInv, CallWellFormed, PastOverlapCheck
        <4>4. CASE ConsumingRequests(t, e)' = ConsumingRequests(t, e)
                   /\ Balance(t, e)' = Balance(t, e)
          BY <3>1, <4>2, <4>4, UpdateBalance
        <4>5. CASE ConsumingRequests(t, e)' = ConsumingRequests(t, e) \cup {q}
          BY <4>3, <4>5
        <4>6. QED
          BY <4>4, <4>5, UpdateBalance
      <3>5. QED
        BY <3>3, <3>4
    <2>3. QED
      BY <2>1, <2>2
  <1>5. QED
    BY <1>3, <1>4 DEF Funds

\* Every step keeps the money invariant.
LEMMA FundsStep ==
    ASSUME TypeOK, TypeOK', Inductive, Funds, [Next]_vars
    PROVE  Funds'
  <1>1. ASSUME UNCHANGED <<row, acquired, month>>
        PROVE  RowsGrow /\ NoNewApproval
    BY <1>1 DEF RowsGrow, NoNewApproval, TypeOK, Months
  <1>2. ASSUME NEW h \in Handlers, RowsGrow, NoNewApproval, NEW STATE c,
               call' = [call EXCEPT ![h] = c], SnapshotStored(h)', Funded(h)'
        PROVE  Funds'
    BY <1>2, QuietStep DEF TypeOK
  <1>3. ASSUME NEW h \in Handlers, Answer(h), UNCHANGED <<row, acquired, month>>
        PROVE  Funds'
    <2>1. call'[h].pc = "idle"
      BY <1>3 DEF Answer, Idle, TypeOK
    <2>2. QED
      BY <1>1, <1>2, <1>3, <2>1, NoClaim DEF Answer
  <1>4. ASSUME NEW h \in Handlers, NEW pc, Goto(h, pc), UNCHANGED <<row, acquired, month>>,
               pc \notin {"consumed", "update"}
        PROVE  Funds'
    <2>1. call'[h].pc \notin {"consumed", "update"}
      BY <1>4, Moved
    <2>2. call' = [call EXCEPT ![h] = [call[h] EXCEPT !.pc = pc]]
      BY <1>4, Moved
    <2>3. QED
      BY <1>1, <1>2, <1>4, <2>1, <2>2, NoClaim
  <1>5. CASE UNCHANGED vars
    <2>1. \A g \in Handlers : SnapshotStored(g)' /\ Funded(g)'
      BY <1>1, <1>5, QuietCall DEF vars
    <2>2. QED
      BY <1>5, <2>1 DEF vars, Funds
  <1>6. ASSUME NewMonth PROVE Funds'
    <2>1. RowsGrow /\ NoNewApproval
      BY <1>6 DEF NewMonth, RowsGrow, NoNewApproval, TypeOK, Months
    <2>2. \A g \in Handlers : SnapshotStored(g)' /\ Funded(g)'
      BY <1>6, <2>1, QuietCall DEF NewMonth
    <2>3. QED
      BY <1>6, <2>2 DEF NewMonth, Funds
  <1>7. ASSUME NEW h \in Handlers, Create(h) PROVE Funds'
    <2>1. PICK u \in Users, d \in Dtos, r \in Requests :
            /\ row[r] = Absent
            /\ row' = [row EXCEPT ![r] =
                 [tenant |-> UserTenant[u], employee |-> d.employee, paid |-> d.paid,
                  start |-> d.start, end |-> d.end, status |-> "PENDING",
                  approver |-> None]]
            /\ call' = [call EXCEPT ![h] =
                 [Idle EXCEPT !.op = "create", !.pc = "auditCreate", !.user = u,
                              !.request = r]]
      BY <1>7 DEF Create
    <2>2. RowsGrow /\ NoNewApproval
      BY <1>7, <2>1 DEF Create, RowsGrow, NoNewApproval, Absent, TypeOK, Months
    <2>3. call'[h].pc = "auditCreate"
      BY <2>1 DEF TypeOK, Idle
    <2>4. QED
      BY <1>2, <2>1, <2>2, <2>3, NoClaim
  <1>8. ASSUME NEW h \in Handlers, AcquireMonth(h) PROVE Funds'
    <2>1. RowsGrow /\ NoNewApproval
      BY <1>8 DEF AcquireMonth, RowsGrow, NoNewApproval, TypeOK, Months
    <2>2. call'[h].pc \in {"acquire", "auditSync"}
      BY <1>8 DEF AcquireMonth, TypeOK, Call
    <2>3. \A g \in Handlers \ {h} : call'[g] = call[g]
      BY <1>8 DEF AcquireMonth, TypeOK
    <2>4. QED
      BY <2>1, <2>2, <2>3, NoClaim, QuietStep
  <1>9. ASSUME NEW h \in Handlers, CallApprove(h) \/ CallBalance(h) PROVE Funds'
    <2>1. /\ call' = [call EXCEPT ![h] = call'[h]] /\ UNCHANGED <<row, acquired, month>>
          /\ call'[h].pc \in {"load", "employee"}
      <3>1. CASE CallApprove(h)
        <4>1. PICK u \in Users, r \in Requests :
                call' = [call EXCEPT ![h] = [Idle EXCEPT !.op = "approve", !.pc = "load",
                                                         !.user = u, !.request = r]]
          BY <3>1 DEF CallApprove
        <4>2. QED
          BY <3>1, <4>1 DEF CallApprove, TypeOK, Idle
      <3>2. CASE CallBalance(h)
        <4>1. PICK u \in Users, e \in Employees :
                call' = [call EXCEPT ![h] = [Idle EXCEPT !.op = "balance", !.pc = "employee",
                                                         !.user = u, !.employee = e]]
          BY <3>2 DEF CallBalance
        <4>2. QED
          BY <3>2, <4>1 DEF CallBalance, TypeOK, Idle
      <3>3. QED
        BY <1>9, <3>1, <3>2
    <2>2. QED
      BY <1>1, <1>2, <2>1, NoClaim
  <1>10. ASSUME NEW h \in Handlers, Load(h) \/ FindEmployee(h) PROVE Funds'
    <2>1. /\ call'[h].pc \in {"overlap", "policy", "idle"} /\ UNCHANGED <<row, acquired, month>>
          /\ \A g \in Handlers \ {h} : call'[g] = call[g]
      BY <1>10 DEF Load, FindEmployee, Answer, Idle, TypeOK, Call
    <2>2. QED
      BY <1>1, <2>1, NoClaim, QuietStep
  <1>11. ASSUME NEW h \in Handlers, CheckOverlap(h) PROVE Funds'
    <2>1. CASE Answer(h)
      BY <1>3, <1>11, <2>1 DEF CheckOverlap
    <2>2. CASE Goto(h, "employee")
      BY <1>4, <1>11, <2>2 DEF CheckOverlap
    <2>3. CASE Goto(h, "update") /\ ~call[h].existing.paid
      <3>1. /\ CallInv(h) /\ call[h].pc = "overlap" /\ UNCHANGED <<row, acquired, month>>
            /\ call'[h].request = call[h].request /\ call'[h].pc = "update"
            /\ \A g \in Handlers \ {h} : call'[g] = call[g]
        BY <1>11, <2>3, Moved DEF CheckOverlap, Inductive, TypeOK
      <3>2. ~row[call[h].request].paid
        BY <2>3, <3>1 DEF CallInv, CallWellFormed, ExistingCurrent
      <3>3. SnapshotStored(h)' /\ Funded(h)'
        BY <3>1, <3>2 DEF SnapshotStored, Funded
      <3>4. QED
        BY <1>1, <3>1, <3>3, QuietStep
    <2>4. QED
      BY <1>11, <2>1, <2>2, <2>3 DEF CheckOverlap
  <1>12. ASSUME NEW h \in Handlers, UpsertPolicy(h) \/ UpsertBalance(h) \/ AuditSync(h)
         PROVE  Funds'
    BY <1>4, <1>12 DEF UpsertPolicy, UpsertBalance, AuditSync
  <1>13. ASSUME NEW h \in Handlers, Aggregate(h) PROVE Funds'
    <2>1. CASE Answer(h)
      BY <1>3, <1>13, <2>1 DEF Aggregate
    <2>2. CASE Tenant(h) \in policies
      <3>1. /\ call'[h].pc = "consumed" /\ call'[h].user = call[h].user
            /\ call'[h].employee = call[h].employee
            /\ call'[h].counted = acquired[Tenant(h)][call[h].employee]
            /\ UNCHANGED <<row, acquired, month>>
            /\ \A g \in Handlers \ {h} : call'[g] = call[g]
        BY <1>13, <2>2 DEF Aggregate, TypeOK, Call
      <3>2. SnapshotStored(h)' /\ Funded(h)'
        BY <3>1 DEF SnapshotStored, Funded, Tenant
      <3>3. QED
        BY <1>1, <3>1, <3>2, QuietStep
    <2>3. QED
      BY <1>13, <2>1, <2>2 DEF Aggregate
  <1>14. ASSUME NEW h \in Handlers, ReadConsumed(h) PROVE Funds'
    <2>1. CASE Answer(h)
      BY <1>3, <1>14, <2>1 DEF ReadConsumed
    <2>2. CASE Goto(h, "update") /\ call[h].op = "approve" /\ Sufficient(h)
      <3>1. /\ UNCHANGED <<row, acquired, month>> /\ call'[h].pc = "update"
            /\ \A g \in Handlers \ {h} : call'[g] = call[g]
        BY <1>14, <2>2, Moved DEF ReadConsumed, TypeOK
      <3>2. SnapshotStored(h)' /\ Funded(h)'
        BY <1>14, <2>2, <3>1, ComparisonFunds DEF SnapshotStored
      <3>3. QED
        BY <1>1, <3>1, <3>2, QuietStep
    <2>3. QED
      BY <1>14, <2>1, <2>2 DEF ReadConsumed
  <1>15. ASSUME NEW h \in Handlers, AuditCreate(h) \/ AuditApprove(h) \/ Fail(h)
         PROVE  Funds'
    BY <1>3, <1>15 DEF AuditCreate, AuditApprove, Fail
  <1>16. QED
    BY <1>5, <1>6, <1>7, <1>8, <1>9, <1>10, <1>11, <1>12, <1>13, <1>14, <1>15, UpdateFunds
    DEF Next, Step

\* Every step keeps the balances covered, but for the approvals that raced.
LEMMA OverdraftStep ==
    ASSUME TypeOK, TypeOK', Inductive, Funds, OverdraftOnlyByRace, [Next]_vars
    PROVE  OverdraftOnlyByRace'
  <1> SUFFICES ASSUME NEW t \in Tenants, NEW e \in Employees,
                      EmployeeTenant[e] = t, Balance(t, e)' < 0
               PROVE  \E r, s \in ConsumingRequests(t, e)' :
                         r # s /\ (r \in unseen'[s] \/ s \in unseen'[r])
    BY DEF OverdraftOnlyByRace, Raced
  <1>1. Balance(t, e) \in Int
    BY BalanceType
  <1>2. Balance(t, e) < 0 =>
          \E r, s \in ConsumingRequests(t, e) : r # s /\ (r \in unseen[s] \/ s \in unseen[r])
    BY DEF OverdraftOnlyByRace, Raced
  <1>3. CASE RowsGrow /\ NoNewApproval /\ UNCHANGED unseen
    BY <1>1, <1>2, <1>3, QuietBalance
  <1>4. ASSUME NEW h \in Handlers, Update(h)
        PROVE  \E r, s \in ConsumingRequests(t, e)' :
                  r # s /\ (r \in unseen'[s] \/ s \in unseen'[r])
    <2> DEFINE q == call[h].request
    <2>1. q \in Requests /\ CallInv(h) /\ Funded(h) /\ call[h].pc = "update"
      BY <1>4 DEF Update, Inductive, Funds, CallInv, CallWellFormed
    <2>2. /\ \A r \in Requests : unseen[r] \subseteq unseen'[r]
          /\ call[h].missed \subseteq unseen'[q]
      BY <1>4, <2>1 DEF Update, TypeOK
    <2>3. ConsumingRequests(t, e) \subseteq Requests
      BY DEF ConsumingRequests
    <2>4. CASE /\ ConsumingRequests(t, e)' = ConsumingRequests(t, e)
               /\ Balance(t, e)' = Balance(t, e)
      BY <1>2, <2>2, <2>3, <2>4
    <2>5. CASE /\ ConsumingRequests(t, e)' = ConsumingRequests(t, e) \cup {q}
               /\ q \notin ConsumingRequests(t, e)
               /\ row[q].paid /\ row[q].tenant = t /\ row[q].employee = e
               /\ Balance(t, e)' = Balance(t, e) - Debit[q]
      <3>1. \/ \E s \in ConsumingRequests(t, e) : s \in call[h].missed
            \/ Debit[q] <= Balance(t, e)
        BY <2>1, <2>5 DEF Funded
      <3>2. ~(Debit[q] <= Balance(t, e))
        BY <1>1, <2>1, <2>5, DebitNat
      <3>3. PICK s \in ConsumingRequests(t, e) : s \in call[h].missed
        BY <3>1, <3>2
      <3>4. s # q /\ s \in unseen'[q]
        BY <2>2, <2>5, <3>3
      <3>5. QED
        BY <2>5, <3>3, <3>4
    <2>6. QED
      BY <1>4, <2>4, <2>5, UpdateBalance
  <1>5. ASSUME NEW h \in Handlers, Create(h)
        PROVE  RowsGrow /\ NoNewApproval /\ UNCHANGED unseen
    BY <1>5 DEF Create, RowsGrow, NoNewApproval, Absent, TypeOK, Months
  <1>6. ASSUME NEW h \in Handlers, AcquireMonth(h)
        PROVE  RowsGrow /\ NoNewApproval /\ UNCHANGED unseen
    BY <1>6 DEF AcquireMonth, RowsGrow, NoNewApproval, TypeOK, Months
  <1>7. ASSUME NewMonth PROVE RowsGrow /\ NoNewApproval /\ UNCHANGED unseen
    BY <1>7 DEF NewMonth, RowsGrow, NoNewApproval, TypeOK, Months
  <1>8. ASSUME UNCHANGED <<row, acquired, month, unseen>>
        PROVE  RowsGrow /\ NoNewApproval /\ UNCHANGED unseen
    BY <1>8 DEF RowsGrow, NoNewApproval, TypeOK, Months
  <1>9. ASSUME Next
        PROVE  \/ \E h \in Handlers : Create(h) \/ AcquireMonth(h) \/ Update(h)
               \/ NewMonth \/ UNCHANGED <<row, acquired, month, unseen>>
    BY <1>9 DEF Next, Step, AuditCreate, CallApprove, CallBalance, Load, CheckOverlap,
       FindEmployee, UpsertPolicy, UpsertBalance, AuditSync, Aggregate, ReadConsumed,
       AuditApprove, Fail
  <1>10. QED
    BY <1>3, <1>4, <1>5, <1>6, <1>7, <1>8, <1>9 DEF vars

\* The money side of the invariant holds in every reachable state.
THEOREM FundsInvariant == Spec => []Funds
  <1>1. Init => Funds
    <2> SUFFICES ASSUME Init PROVE Funds
      OBVIOUS
    <2>1. {r \in Requests : row[r].status = "APPROVED"} = {}
      BY DEF Init, Absent
    <2>2. QED
      BY <2>1, FS_EmptySet DEF Init, Funds, SnapshotStored, Funded, Idle
  <1>2. TypeOK /\ TypeOK' /\ Inductive /\ Funds /\ [Next]_vars => Funds'
    BY FundsStep
  <1>3. QED
    BY <1>1, <1>2, InductiveInvariant, PTL DEF Spec

\* An employee's consumed days exceed the acquired ones only if two approvals
\* of paid requests of this employee were in flight at once: approve's
\* comparison with the balance has no other gap.
THEOREM OverdraftNeedsRace == Spec => []OverdraftOnlyByRace
  <1>1. Init => OverdraftOnlyByRace
    <2> SUFFICES ASSUME Init, NEW t \in Tenants, NEW e \in Employees
                 PROVE  ~(Balance(t, e) < 0)
      BY DEF OverdraftOnlyByRace
    <2>1. ConsumingRequests(t, e) = {} /\ acquired[t][e] = {}
      BY DEF Init, ConsumingRequests, Absent
    <2>2. Consumed(t, e) = 0 /\ Accrued(e, acquired[t][e]) = 0
      BY <2>1, SumEmpty DEF Consumed, Accrued
    <2>3. Balance(t, e) = CarriedOver[e] /\ CarriedOver[e] \in Nat
      BY <2>2, CreditAssumption DEF Balance, Available
    <2>4. QED
      BY <2>3
  <1>2. TypeOK /\ TypeOK' /\ Inductive /\ Funds /\ OverdraftOnlyByRace /\ [Next]_vars
          => OverdraftOnlyByRace'
    BY OverdraftStep
  <1>3. QED
    BY <1>1, <1>2, InductiveInvariant, FundsInvariant, PTL DEF Spec

\* One call at a time, nobody's paid leave is ever overdrawn.
THEOREM SerialNeverOverdraws ==
    ASSUME \A g, h \in Handlers : g = h
    PROVE  Spec => [](\A t \in Tenants, e \in Employees :
                         EmployeeTenant[e] = t => Balance(t, e) >= 0)
  <1> DEFINE Covered == \A t \in Tenants, e \in Employees :
                            EmployeeTenant[e] = t => Balance(t, e) >= 0
  <1>1. TypeOK /\ Funds /\ OverdraftOnlyByRace /\ NothingMissed => Covered
    <2> SUFFICES ASSUME TypeOK, Funds, OverdraftOnlyByRace, NothingMissed,
                        NEW t \in Tenants, NEW e \in Employees, EmployeeTenant[e] = t
                 PROVE  Balance(t, e) >= 0
      OBVIOUS
    <2>1. ~(Balance(t, e) < 0)
      BY DEF OverdraftOnlyByRace, Raced, NothingMissed, ConsumingRequests
    <2>2. QED
      BY <2>1, BalanceType
  <1>2. QED
    BY <1>1, TypeCorrect, FundsInvariant, OverdraftNeedsRace, SerialMissesNothing, PTL

----------------------------------------------------------------------------
\* The leave desk

\* The desk counts days as the module does.
LEMMA DeskCounts ==
    ASSUME NEW from, NEW to
    PROVE  Desk!Tenths * Desk!CountWorkingDays(from, to) = Tenths * CountWorkingDays(from, to)
  <1>1. /\ Desk!Tenths = Tenths
        /\ Desk!UtcDay(from) = UtcDay(from) /\ Desk!UtcDay(to) = UtcDay(to)
    BY DEF Desk!Tenths, Tenths, Desk!UtcDay, UtcDay, Desk!HalvesPerDay, HalvesPerDay
  <1>2. \A d : Desk!IsWorkingDay(d) = IsWorkingDay(d)
    BY DEF Desk!IsWorkingDay, IsWorkingDay
  <1>3. {d \in Desk!UtcDay(from)..Desk!UtcDay(to) : Desk!IsWorkingDay(d)}
          = {d \in UtcDay(from)..UtcDay(to) : IsWorkingDay(d)}
    BY <1>1, <1>2
  <1>4. Desk!CountWorkingDays(from, to) = CountWorkingDays(from, to)
    <2>1. ASSUME NEW S PROVE Desk!Cardinality(S) = Cardinality(S)
      BY DEF Desk!Cardinality, Cardinality
    <2>2. QED
      BY <1>3, <2>1 DEF Desk!CountWorkingDays, CountWorkingDays
  <1>5. QED
    BY <1>1, <1>4

LEMMA DeskSums ==
    ASSUME NEW f, NEW S
    PROVE  Desk!SumFunctionOnSet(f, S) = SumFunctionOnSet(f, S)
  BY DEF Desk!SumFunctionOnSet, SumFunctionOnSet, Desk!FoldFunctionOnSet, FoldFunctionOnSet,
         Desk!MapThenFoldSet, MapThenFoldSet

\* The step of the desk an approval is, when nothing runs beside it.
LEMMA UpdateApproves ==
    ASSUME TypeOK, Inductive, Funds, NothingMissed, AcquiredPrefix, NEW h \in Handlers, Update(h)
    PROVE  \E u \in Users, r \in Requests : Desk!Approve(u, r)
  <1> DEFINE q == call[h].request
             u == call[h].user
  <1>1. /\ q \in Requests /\ u \in Users /\ CallInv(h) /\ Funded(h) /\ call[h].op = "approve"
        /\ call[h].pc = "update" /\ row[q] \in Row /\ call[h].missed = {} /\ UNCHANGED month
    BY DEF Update, Inductive, Funds, CallInv, CallWellFormed, TypeOK, NothingMissed
  <1>2. row[q].status # "ABSENT" /\ row[q].tenant = UserTenant[u]
    BY <1>1 DEF CallInv, ExistingCurrent, PastOverlapCheck, Tenant
  <1>3. row[q] # Desk!Missing
    BY <1>2 DEF Desk!Missing
  <1>4. PICK t \in Tenants, e \in Employees : row[q].tenant = t /\ row[q].employee = e
    BY <1>1, <1>2 DEF Inductive, RowsWellFormed
  <1>5. \A o \in Desk!OthersApproved(q) : ~Desk!Overlaps(row[o], row[q])
    BY <1>1 DEF Desk!OthersApproved, Desk!Overlaps, CallInv, MissedAllOverlaps, SameEmployee,
       Overlaps, PastOverlapCheck
  <1>6. ASSUME row[q].paid
        PROVE  EmployeeTenant[row[q].employee] = row[q].tenant
    BY <1>1, <1>2, <1>6 DEF CallInv, PaidInTenant, Tenant
  <1>7. ASSUME row[q].paid PROVE Desk!Days[q] <= Desk!Entitlement(q)
    <2> DEFINE O == {o \in Desk!OthersApproved(q) : row[o].paid}
               C == ConsumingRequests(t, e)
               M == HireMonth[e]..month
    <2>1. Desk!Days = Debit
      BY DeskCounts DEF Desk!Days, Debit
    <2>2. Debit[q] <= Balance(t, e)
      BY <1>1, <1>4, <1>7 DEF Funded
    <2>3. O \in SUBSET C
      BY <1>4 DEF Desk!OthersApproved, ConsumingRequests
    <2>4. IsFiniteSet(C) /\ \A r \in C : Debit[r] \in Nat
      <3>1. C \in SUBSET Requests
        BY DEF ConsumingRequests
      <3>2. QED
        BY <3>1, ConsumingFinite, DebitNat
    <2>5. /\ SumFunctionOnSet(Debit, O) \in Nat
          /\ SumFunctionOnSet(Debit, O) <= SumFunctionOnSet(Debit, C)
      <3> HIDE DEF O, C
      <3>1. IsFiniteSet(O) /\ \A r \in O : Debit[r] \in Nat
        BY <2>3, <2>4, FS_Subset
      <3>2. QED
        BY <2>3, <2>4, <3>1, SumNat, SumMonotone
    <2>6. acquired[t][e] \in SUBSET M /\ M \in SUBSET Months /\ IsFiniteSet(M)
      <3>1. PICK k \in 0..month : acquired[t][e] = HireMonth[e]..k
        BY DEF AcquiredPrefix
      <3>2. HireMonth[e] \in Nat \ {0} /\ month \in 1..MaxMonth
        BY DEF TypeOK, Months
      <3>3. acquired[t][e] \in SUBSET M /\ M \in SUBSET Months
        BY <3>1, <3>2 DEF Months
      <3> HIDE DEF M
      <3>4. QED
        BY <3>3, MonthsFinite, FS_Subset
    <2>7. \A m \in M : Credit[e][m] \in Nat
      BY <2>6, CreditAssumption
    <2>8. SumFunctionOnSet(Credit[e], M) \in Nat /\ Accrued(e, acquired[t][e]) \in Nat
          /\ Accrued(e, acquired[t][e]) <= SumFunctionOnSet(Credit[e], M)
      <3> HIDE DEF M
      <3>1. QED
        BY <2>6, <2>7, SumNat, SumMonotone, BalanceType DEF Accrued
    <2>9. Desk!Entitlement(q) = CarriedOver[e] + SumFunctionOnSet(Credit[e], M)
                                  - SumFunctionOnSet(Debit, O)
      <3>1. Desk!Entitlement(q) =
              CarriedOver[row[q].employee]
                + SumFunctionOnSet(Credit[row[q].employee], HireMonth[row[q].employee]..month)
                - SumFunctionOnSet(Desk!Days, O)
        BY DeskSums DEF Desk!Entitlement
      <3> HIDE DEF O
      <3>2. QED
        BY <1>4, <2>1, <3>1
    <2>10. Balance(t, e) = CarriedOver[e] + Accrued(e, acquired[t][e])
                             - SumFunctionOnSet(Debit, C)
           /\ CarriedOver[e] \in Nat /\ SumFunctionOnSet(Debit, C) \in Nat
      BY BalanceType DEF Consumed
    <2> HIDE DEF O, C, M
    <2>11. QED
      BY <1>1, <2>1, <2>2, <2>5, <2>8, <2>9, <2>10, DebitNat
  <1>8. row' = [row EXCEPT ![q].status = "APPROVED", ![q].approver = u]
    <2>1. row' = [row EXCEPT ![q] = [row[q] EXCEPT !.status = "APPROVED", !.approver = u]]
      BY DEF Update, Approved
    <2>2. row \in [Requests -> Row]
      BY DEF TypeOK
    <2>3. QED
      BY <1>1, <2>1, <2>2 DEF Row
  <1>9. Desk!Approve(u, q)
    BY <1>1, <1>2, <1>3, <1>5, <1>6, <1>7, <1>8 DEF Desk!Approve
  <1>10. QED
    BY <1>1, <1>9

LEMMA DeskStep ==
    ASSUME TypeOK, Inductive, Funds, NothingMissed, AcquiredPrefix, [Next]_vars
    PROVE  [Desk!Next]_<<row, month>>
  <1>1. ASSUME NEW h \in Handlers, Create(h) PROVE Desk!Next
    <2>1. PICK u \in Users, d \in Dtos, r \in Requests :
            /\ d.start <= d.end /\ row[r] = Absent /\ UNCHANGED month
            /\ row' = [row EXCEPT ![r] =
                 [tenant |-> UserTenant[u], employee |-> d.employee, paid |-> d.paid,
                  start |-> d.start, end |-> d.end, status |-> "PENDING",
                  approver |-> None]]
      BY <1>1 DEF Create
    <2>2. Desk!File(u, d, r)
      BY <2>1 DEF Desk!File, Desk!Missing, Absent
    <2>3. QED
      BY <2>2 DEF Desk!Next
  <1>2. ASSUME NEW h \in Handlers, Update(h) PROVE Desk!Next
    BY <1>2, UpdateApproves DEF Desk!Next
  <1>3. ASSUME NewMonth PROVE Desk!Next
    BY <1>3 DEF NewMonth, Desk!Next, Desk!MonthPasses
  <1>4. ASSUME Next
        PROVE  \/ \E h \in Handlers : Create(h) \/ Update(h)
               \/ NewMonth \/ UNCHANGED <<row, month>>
    BY <1>4 DEF Next, Step, AuditCreate, CallApprove, CallBalance, Load, CheckOverlap,
       FindEmployee, UpsertPolicy, UpsertBalance, AcquireMonth, AuditSync, Aggregate,
       ReadConsumed, AuditApprove, Fail
  <1>5. QED
    BY <1>1, <1>2, <1>3, <1>4 DEF vars

\* With one call at a time the leave module is the leave desk: every approval
\* is one indivisible check and debit, whatever failed before it.
THEOREM SerialImplementsDesk ==
    ASSUME \A g, h \in Handlers : g = h
    PROVE  Spec => ImplementsDesk
  <1>1. Init => Desk!Init
    BY DEF Init, Desk!Init, Desk!Missing, Absent
  <1>2. TypeOK /\ Inductive /\ Funds /\ NothingMissed /\ AcquiredPrefix /\ [Next]_vars
          => [Desk!Next]_<<row, month>>
    BY DeskStep
  <1>3. Spec => []NothingMissed
    BY SerialMissesNothing
  <1>4. QED
    BY <1>1, <1>2, <1>3, InductiveInvariant, FundsInvariant, NoAcquisitionGap, PTL
    DEF Spec, ImplementsDesk, Desk!Spec
=============================================================================
