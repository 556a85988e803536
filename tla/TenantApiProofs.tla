-------------------------- MODULE TenantApiProofs --------------------------
(***************************************************************************)
(* Proofs about TenantApi for any tenants, members, roles and number of    *)
(* requests.  The invariant says what a request that passed the guards     *)
(* carries at each of its awaits, and what it has left in the tables.      *)
(***************************************************************************)
EXTENDS TenantApi, TLAPS

\* What the guards established stays true of the request.
Admitted(h) == LET c == call[h] IN c.op # None =>
    /\ c.op \in Ops /\ c.token \in held /\ c.tenant \in Tenants
    /\ Scoped(c.op) => c.tenant = c.token.tenant
    /\ Required(c.op) \in c.token.permissions

\* Each await belongs to some operations, and each operation names one kind of key.
InPlace(h) == LET c == call[h] IN
    /\ c.pc = "idle" => c.op = None
    /\ c.pc \notin {"idle", "answer"} => c.op \in Ops
    /\ c.pc = "sign" => c.op \in {"presign", "impersonate"}
    /\ c.pc = "audit" => c.op \notin Reads
    /\ c.pc = "find" => c.op = "impersonate"
    /\ c.pc = "insert" => c.op \in Inserts
    /\ c.op = "createEmployee" => c.key \in Emails
    /\ c.op = "presign" => c.key \in Documents
    /\ c.op = "impersonate" => c.key \in Users

\* A request has written when it is about to be audited or answered, and then
\* no answer blames the client.
Blame(h) == LET c == call[h] IN c.wrote =>
    c.pc = "audit" \/ (c.pc = "answer" /\ c.status \notin 400..499)

\* What a read found, once it is to be answered.
Found(h) == LET c == call[h] IN c.rows # {} =>
    /\ c.op # None /\ c.pc = "answer"
    /\ Scoped(c.op) => c.rows \subseteq {c.tenant} /\ policies # "absent"

\* What is about to be audited is stored, or a member.
Auditable(h) == LET c == call[h] IN
    /\ Recording(h) => NewRow(h) \in row
    /\ c.op = "impersonate" /\ c.pc \in {"sign", "audit"} => <<c.tenant, c.key>> \in Members

\* An answer with a token has its record.
Signed(h) == LET c == call[h] IN
    c.op = "impersonate" /\ c.pc = "answer" /\ c.status = 201 =>
        /\ <<c.tenant, c.key>> \in Members
        /\ [tenant |-> c.tenant, actor |-> c.token.sub, entity |-> "user", key |-> c.key] \in audit

CallInv(h) == /\ Admitted(h) /\ InPlace(h) /\ Blame(h)
              /\ Found(h) /\ Auditable(h) /\ Signed(h)

Untouched == policies = "absent" => row = Imported

IInv == /\ TypeOK /\ Untouched /\ TrailMatchesTables /\ ImpersonationRecorded
        /\ \A h \in Handlers : CallInv(h)

LEMMA TokenType ==
    ASSUME NEW m \in Members, NEW by \in Users \cup {None}
    PROVE  TokenOf(m[1], m[2], by) \in Token
  BY MembersAssumption DEF TokenOf, Token

LEMMA KeyKinds ==
    ASSUME NEW op \in Ops, NEW key \in KeysOf(op)
    PROVE  /\ key \in Keys \cup {None}
           /\ op = "createEmployee" => key \in Emails
           /\ op = "presign" => key \in Documents
           /\ op = "impersonate" => key \in Users
  BY DEF KeysOf, Ops, Reads, Inserts, Keys

\* The tables, the tokens and what is unrecorded only grow.
Grows == /\ row \subseteq row' /\ audit \subseteq audit' /\ held \subseteq held'
         /\ unrecorded \subseteq unrecorded' /\ policies' = policies

Act(h) == \/ Refuse(h) \/ Admit(h)
          \/ Query(h) \/ Sign(h) \/ Insert(h) \/ InsertRefused(h) \/ FindMember(h)
          \/ Audit(h) \/ Reply(h) \/ Rejected(h) \/ Stop(h)

\* A step of one request leaves the others where they are.
LEMMA OneAtATime ==
    ASSUME TypeOK, NEW h \in Handlers, Act(h)
    PROVE  /\ Grows
           /\ \A g \in Handlers \ {h} : call'[g] = call[g]
  <1>1. Grows
    BY DEF Act, Refuse, Admit, Query, Sign, Insert, InsertRefused, FindMember, Audit, Reply,
       Rejected, Stop, Grows
  <1>2. \E c : call' = [call EXCEPT ![h] = c]
    <2>1. CASE Refuse(h) \/ Admit(h) \/ Reply(h) \/ Stop(h)
      BY <2>1 DEF Refuse, Admit, Reply, Stop
    <2>2. CASE Query(h) \/ Sign(h) \/ Insert(h) \/ Audit(h)
      BY <2>2 DEF Query, Sign, Insert, Audit
    <2>3. CASE InsertRefused(h) \/ FindMember(h) \/ Rejected(h)
      BY <2>3 DEF InsertRefused, FindMember, Rejected, Throw, Respond
    <2>4. QED
      BY <2>1, <2>2, <2>3 DEF Act
  <1>3. QED
    BY <1>1, <1>2 DEF TypeOK

\* What is known of a request stays known while others run.
LEMMA OthersKeep ==
    ASSUME NEW g \in Handlers, CallInv(g), Grows, call'[g] = call[g]
    PROVE  CallInv(g)'
  BY DEF CallInv, Admitted, InPlace, Blame, Found, Auditable, Signed, Grows, Recording, NewRow

LEMMA InitInvariant == Init => IInv
  <1> SUFFICES ASSUME Init PROVE IInv
    OBVIOUS
  <1>1. held \subseteq Token
    BY TokenType, MembersAssumption DEF Init
  <1>2. TypeOK
    BY <1>1, MembersAssumption DEF Init, TypeOK, Call, Idle
  <1>3. Untouched /\ TrailMatchesTables
    BY DEF Init, Untouched, TrailMatchesTables
  <1>4. ImpersonationRecorded
    <2>1. \A m \in Members : TokenOf(m[1], m[2], None).impersonatedBy = None
      BY DEF TokenOf
    <2>2. QED
      BY <2>1 DEF Init, ImpersonationRecorded
  <1>5. \A h \in Handlers : CallInv(h)
    BY NoneAssumption DEF Init, Idle, CallInv, Admitted, InPlace, Blame, Found, Auditable, Signed, Recording,
       Ops, Reads, Inserts
  <1>6. QED
    BY <1>2, <1>3, <1>4, <1>5 DEF IInv

LEMMA ProblemStatus ==
    /\ \A s \in Nat : Problem(Http(s)) = s
    /\ Problem(Prisma("P2002")) = 409 /\ Problem(Prisma("P2003")) = 500
    /\ Problem(Error) = 500
  BY DEF Problem, Http, Prisma, Error

LEMMA AnswerType ==
    /\ \A c \in Call, status \in Nat :
         [c EXCEPT !.pc = "answer", !.status = status] \in Call
    /\ \A c \in Call, status \in Nat, rows \in SUBSET Tenants :
         [c EXCEPT !.pc = "answer", !.status = status, !.rows = rows] \in Call
    /\ \A c \in Call, status \in Nat, wrote \in BOOLEAN :
         [c EXCEPT !.pc = "answer", !.status = status, !.wrote = wrote] \in Call
  BY DEF Call

LEMMA RejectedAnswer ==
    ASSUME TypeOK, NEW h \in Handlers, Rejected(h)
    PROVE  call' = [call EXCEPT ![h] = [call[h] EXCEPT !.pc = "answer", !.status = 500]]
  <1>1. PICK x \in {Prisma("P2003"), Error} : Throw(h, x)
    BY DEF Rejected
  <1>2. Problem(x) = 500
    BY ProblemStatus
  <1>3. call' = [call EXCEPT ![h] = [call[h] EXCEPT !.pc = "answer", !.status = Problem(x)]]
    BY <1>1 DEF Throw, Respond, TypeOK
  <1>4. QED
    BY <1>2, <1>3

LEMMA TypeStep ==
    ASSUME IInv, NEW h \in Handlers, Act(h)
    PROVE  TypeOK'
  <1> USE DEF IInv
  <1>1. call[h] \in Call /\ CallInv(h)
    BY DEF TypeOK
  <1>2. ASSUME NEW c \in Call, call' = [call EXCEPT ![h] = c]
        PROVE  call' \in [Handlers -> Call]
    BY <1>2 DEF TypeOK
  <1>3. CASE Refuse(h)
    <2>1. PICK op \in Ops, token \in held \cup {None}, tenant \in Tenants \cup {None} :
            \E status \in Refusals(op, token, tenant) :
              call' = [call EXCEPT ![h] = [Idle EXCEPT !.pc = "answer", !.status = status]]
      BY <1>3 DEF Refuse
    <2>2. PICK status \in Refusals(op, token, tenant) :
            call' = [call EXCEPT ![h] = [Idle EXCEPT !.pc = "answer", !.status = status]]
      BY <2>1
    <2>3. status \in Nat
      BY DEF Refusals
    <2>4. [Idle EXCEPT !.pc = "answer", !.status = status] \in Call
      BY <2>3 DEF Idle, Call
    <2>5. QED
      BY <1>2, <1>3, <2>2, <2>4 DEF Refuse, TypeOK
  <1>4. CASE Admit(h)
    <2>0. PICK op \in Ops, token \in held, tenant \in Tenants :
            \E key \in KeysOf(op) : call' = [call EXCEPT ![h] =
              [Idle EXCEPT !.pc = FirstAwait(op), !.op = op, !.token = token,
                           !.tenant = tenant, !.key = key]]
      BY <1>4 DEF Admit
    <2>1. PICK key \in KeysOf(op) : call' = [call EXCEPT ![h] =
              [Idle EXCEPT !.pc = FirstAwait(op), !.op = op, !.token = token,
                           !.tenant = tenant, !.key = key]]
      BY <2>0
    <2>2. FirstAwait(op) \in {"query", "find", "sign", "insert"}
      BY DEF FirstAwait, Ops, Reads, Inserts
    <2>3. [Idle EXCEPT !.pc = FirstAwait(op), !.op = op, !.token = token,
                       !.tenant = tenant, !.key = key] \in Call
      BY <2>2, KeyKinds DEF Idle, Call, TypeOK
    <2>4. QED
      BY <1>2, <1>4, <2>1, <2>3 DEF Admit, TypeOK
  <1>5. CASE Query(h)
    <2>1. Where(h) \subseteq Tenants
      BY <1>1, <1>5, NoneAssumption DEF Where, Query, CallInv, InPlace, Admitted
    <2> DEFINE s == Stored(call[h].op) \cap Where(h) \cap Readable(h)
    <2>2. call' =
            [call EXCEPT ![h] = [call[h] EXCEPT !.pc = "answer", !.status = 200, !.rows = s]]
      BY <1>5 DEF Query, TypeOK
    <2>3. s \in SUBSET Tenants
      BY <2>1
    <2> HIDE DEF s
    <2>4. PICK status \in Nat : status = 200
      OBVIOUS
    <2>5. [call[h] EXCEPT !.pc = "answer", !.status = status, !.rows = s] \in Call
      BY <1>1, <2>3, AnswerType
    <2>6. QED
      BY <1>2, <1>5, <2>2, <2>4, <2>5 DEF Query, TypeOK
  <1>6. CASE Sign(h)
    BY <1>6 DEF Sign, TypeOK, Call
  <1>7. ASSUME call[h].op \in Inserts, CallInv(h)
        PROVE  NewRow(h) \in Row
    BY <1>1, <1>7, NoneAssumption
    DEF NewRow, Row, Keys, CallInv, InPlace, Admitted, Inserts, Call, Ops
  <1>8. CASE Insert(h)
    <2>1. NewRow(h) \in Row
      BY <1>1, <1>7, <1>8 DEF Insert, CallInv, InPlace
    <2>2. QED
      <3>1. [call[h] EXCEPT !.pc = "audit", !.wrote = TRUE] \in Call
        BY <1>1 DEF Call
      <3>2. call' = [call EXCEPT ![h] = [call[h] EXCEPT !.pc = "audit", !.wrote = TRUE]]
        BY <1>8 DEF Insert, TypeOK
      <3>3. QED
        BY <1>2, <1>8, <2>1, <3>1, <3>2 DEF Insert, TypeOK
  <1>9. CASE InsertRefused(h)
    BY <1>9, ProblemStatus DEF InsertRefused, Throw, Respond, TypeOK, Call
  <1>10. CASE FindMember(h)
    BY <1>10, ProblemStatus DEF FindMember, Throw, Respond, TypeOK, Call
  <1>11. CASE Audit(h)
    <2>1. /\ call[h].pc = "audit" /\ call[h].op \in Inserts \cup {"impersonate"}
          /\ call[h].tenant \in Tenants /\ call[h].token \in Token /\ call[h].key \in Keys
      BY <1>1, <1>11, NoneAssumption
      DEF Audit, CallInv, InPlace, Admitted, Ops, Inserts, Keys, TypeOK
    <2>2. NewRecord(h) \in Record
      BY <2>1 DEF NewRecord, Record, Inserts, Token
    <2>3. QED
      <3>1. PICK status \in Nat : status = 201
        OBVIOUS
      <3>2. [call[h] EXCEPT !.pc = "answer", !.status = status, !.wrote = TRUE] \in Call
        BY <1>1, AnswerType
      <3>3. call' = [call EXCEPT ![h] =
                       [call[h] EXCEPT !.pc = "answer", !.status = 201, !.wrote = TRUE]]
        BY <1>11 DEF Audit, TypeOK
      <3>4. QED
        BY <1>2, <1>11, <2>2, <3>1, <3>2, <3>3 DEF Audit, TypeOK
  <1>12. CASE Reply(h)
    <2>1. Idle \in Call
      BY DEF Idle, Call
    <2>2. CASE call[h].op = "impersonate" /\ call[h].status = 201
      <3>1. <<call[h].tenant, call[h].key>> \in Members /\ call[h].token \in Token
        <4>1. call[h].pc = "answer" /\ call[h].op # None
          BY <1>12, <2>2, NoneAssumption DEF Reply, Ops
        <4>2. <<call[h].tenant, call[h].key>> \in Members
          BY <1>1, <2>2, <4>1 DEF CallInv, Signed
        <4>3. QED
          BY <1>1, <4>1, <4>2 DEF CallInv, Admitted, TypeOK
      <3>2. TokenOf(call[h].tenant, call[h].key, call[h].token.sub) \in Token
        BY <3>1, MembersAssumption DEF TokenOf, Token
      <3>3. QED
        BY <1>2, <1>12, <2>1, <2>2, <3>2 DEF Reply, TypeOK
    <2>3. CASE ~(call[h].op = "impersonate" /\ call[h].status = 201)
      BY <1>2, <1>12, <2>1, <2>3 DEF Reply, TypeOK
    <2>4. QED
      BY <2>2, <2>3
  <1>13. Unaudited(h) \subseteq row
    BY <1>1 DEF Unaudited, CallInv, Auditable, Recording
  <1>14. CASE Rejected(h)
    <2>1. call' = [call EXCEPT ![h] = [call[h] EXCEPT !.pc = "answer", !.status = 500]]
      BY <1>14, RejectedAnswer
    <2>2. PICK status \in Nat : status = 500
      OBVIOUS
    <2>3. [call[h] EXCEPT !.pc = "answer", !.status = status] \in Call
      BY <1>1, AnswerType
    <2>4. QED
      BY <1>2, <1>13, <1>14, <2>1, <2>2, <2>3 DEF Rejected, TypeOK
  <1>15. CASE Stop(h)
    <2>1. Idle \in Call
      BY DEF Idle, Call
    <2>2. QED
      BY <1>2, <1>13, <1>15, <2>1 DEF Stop, TypeOK
  <1>16. QED
    BY <1>3, <1>4, <1>5, <1>6, <1>8, <1>9, <1>10, <1>11, <1>12, <1>14, <1>15 DEF Act

\* What a request knows at its next await, one action after the other.
LEMMA CallStep ==
    ASSUME IInv, NEW h \in Handlers, Act(h)
    PROVE  CallInv(h)'
  <1>1. TypeOK /\ call[h] \in Call /\ CallInv(h) /\ Grows
    BY OneAtATime DEF IInv, TypeOK
  <1>2. ASSUME call'[h].op = None, call'[h].pc \in {"idle", "answer"}, ~call'[h].wrote,
               call'[h].rows = {}
        PROVE  CallInv(h)'
    BY <1>2, NoneAssumption
    DEF CallInv, Admitted, InPlace, Blame, Found, Auditable, Signed, Recording, Ops, Reads, Inserts
  <1>3. CASE Refuse(h)
    <2>1. \E status : call'[h] = [Idle EXCEPT !.pc = "answer", !.status = status]
      BY <1>1, <1>3 DEF Refuse, TypeOK
    <2>2. QED
      BY <1>2, <2>1 DEF Idle
  <1>4. CASE Reply(h) \/ Stop(h)
    <2>1. call'[h] = Idle
      BY <1>1, <1>4 DEF Reply, Stop, TypeOK
    <2>2. QED
      BY <1>2, <2>1 DEF Idle
  <1>5. CASE Admit(h)
    <2>1. PICK op \in Ops, token \in held, tenant \in Tenants :
            /\ TenantContextGuard(op, token, tenant) /\ PermissionsGuard(op, token)
            /\ \E key \in KeysOf(op) : call' = [call EXCEPT ![h] =
                 [Idle EXCEPT !.pc = FirstAwait(op), !.op = op, !.token = token,
                              !.tenant = tenant, !.key = key]]
      BY <1>5 DEF Admit
    <2>2. PICK key \in KeysOf(op) : call'[h] =
            [Idle EXCEPT !.pc = FirstAwait(op), !.op = op, !.token = token,
                         !.tenant = tenant, !.key = key]
      BY <1>1, <2>1 DEF TypeOK
    <2>3. /\ call'[h].op = op /\ call'[h].token = token /\ call'[h].tenant = tenant
          /\ call'[h].key = key /\ call'[h].pc = FirstAwait(op)
          /\ ~call'[h].wrote /\ call'[h].rows = {}
      BY <2>2 DEF Idle
    <2>4. /\ FirstAwait(op) \in {"query", "find", "sign", "insert"}
          /\ FirstAwait(op) = "find" => op = "impersonate"
          /\ FirstAwait(op) = "insert" => op = "createEmployee"
          /\ FirstAwait(op) = "sign" => op = "presign"
      BY DEF FirstAwait, Ops, Reads, Inserts
    <2>5. Admitted(h)'
      BY <1>1, <2>1, <2>3 DEF Admitted, Grows, TenantContextGuard, PermissionsGuard
    <2>6. InPlace(h)'
      BY <2>3, <2>4, KeyKinds DEF InPlace, Ops, Reads, Inserts
    <2>7. (Blame(h) /\ Found(h) /\ Auditable(h) /\ Signed(h))'
      BY <2>3, <2>4 DEF Blame, Found, Auditable, Signed, Recording
    <2>8. QED
      BY <2>5, <2>6, <2>7 DEF CallInv
  <1>6. CASE Query(h)
    <2>1. /\ call[h].pc = "query" /\ call[h].op \in Ops /\ call[h].op # None
          /\ ~call[h].wrote
      BY <1>1, <1>6, NoneAssumption DEF Query, CallInv, InPlace, Blame
    <2>2. /\ call'[h].op = call[h].op /\ call'[h].token = call[h].token
          /\ call'[h].tenant = call[h].tenant /\ call'[h].key = call[h].key
          /\ call'[h].pc = "answer" /\ call'[h].wrote = call[h].wrote
          /\ call'[h].status = 200
          /\ call'[h].rows \subseteq Where(h) \cap Readable(h)
          /\ policies' = policies
      BY <1>1, <1>6 DEF Query, TypeOK, Call
    <2>3. Found(h)'
      <3>1. ASSUME Scoped(call[h].op), call'[h].rows # {}
            PROVE  call'[h].rows \subseteq {call[h].tenant} /\ policies # "absent"
        <4>1. call[h].op # "listTenants"
          BY <3>1 DEF Scoped
        <4>2. call'[h].rows \subseteq {call[h].tenant}
          BY <2>2, <3>1 DEF Where
        <4>3. PICK x \in call'[h].rows : x \in Readable(h)
          BY <2>2, <3>1
        <4>4. policies # "absent"
          BY <4>1, <4>3 DEF Readable, Sees, Setting
        <4>5. QED
          BY <4>2, <4>4
      <3>2. QED
        BY <2>1, <2>2, <3>1 DEF Found
    <2>4. Admitted(h)' /\ InPlace(h)'
      BY <1>1, <2>2 DEF Admitted, InPlace, CallInv, Grows
    <2>5. (Blame(h) /\ Auditable(h) /\ Signed(h))'
      BY <2>1, <2>2 DEF Blame, Auditable, Signed, Recording
    <2>6. QED
      BY <2>3, <2>4, <2>5 DEF CallInv
  <1> DEFINE Same == /\ call'[h].op = call[h].op /\ call'[h].token = call[h].token
                     /\ call'[h].tenant = call[h].tenant /\ call'[h].key = call[h].key
                     /\ call'[h].rows = call[h].rows
  <1>7. ASSUME Same PROVE Admitted(h)'
    BY <1>1, <1>7 DEF Admitted, CallInv, Grows
  <1>8. ASSUME Same, call[h].pc \notin {"idle", "answer"} PROVE call[h].op # None /\ Found(h)'
    BY <1>1, <1>8, NoneAssumption DEF CallInv, Found, InPlace
  <1>9. CASE Sign(h)
    <2>1. /\ Same /\ call[h].pc = "sign" /\ call'[h].wrote = call[h].wrote
          /\ call'[h].pc = IF call[h].op = "presign" THEN "insert" ELSE "audit"
          /\ row' = row
      BY <1>1, <1>9 DEF Sign, TypeOK, Call
    <2>2. call[h].op = "presign" \/ call[h].op = "impersonate"
      BY <1>1, <2>1 DEF CallInv, InPlace
    <2>3. InPlace(h)'
      BY <1>1, <2>1, <2>2 DEF CallInv, InPlace, Ops, Inserts, Reads
    <2>4. (Blame(h) /\ Auditable(h) /\ Signed(h))'
      BY <1>1, <2>1, <2>2 DEF CallInv, Blame, Auditable, Signed, Recording, Inserts
    <2>5. QED
      BY <1>7, <1>8, <2>1, <2>3, <2>4 DEF CallInv
  <1>10. CASE Insert(h)
    <2>1. /\ Same /\ call[h].pc = "insert" /\ call'[h].pc = "audit" /\ NewRow(h) \in row'
      BY <1>1, <1>10 DEF Insert, TypeOK, Call
    <2>2. NewRow(h)' = NewRow(h)
      BY <2>1 DEF NewRow
    <2>3. InPlace(h)' /\ call[h].op # "impersonate"
      BY <1>1, <2>1 DEF CallInv, InPlace, Inserts, Reads
    <2>4. (Blame(h) /\ Auditable(h) /\ Signed(h))'
      BY <2>1, <2>2, <2>3 DEF Blame, Auditable, Signed, Recording
    <2>5. QED
      BY <1>7, <1>8, <2>1, <2>3, <2>4 DEF CallInv
  <1>11. CASE \/ InsertRefused(h) \/ Rejected(h)
                 \/ (FindMember(h) /\ call'[h].pc # "sign")
    <2>1. \E x : Throw(h, x) /\ (call[h].pc = "audit" => Problem(x) = 500) /\ Problem(x) # 201
      <3>1. CASE InsertRefused(h)
        BY <3>1, ProblemStatus DEF InsertRefused
      <3>2. CASE FindMember(h) /\ call'[h].pc # "sign"
        <4>1. call[h].pc = "find" /\ Throw(h, Http(404))
          BY <1>1, <3>2 DEF FindMember, TypeOK, Call
        <4>2. 404 \in Nat /\ 404 # 201
          OBVIOUS
        <4>3. QED
          BY <4>1, <4>2, ProblemStatus
      <3>3. CASE Rejected(h)
        BY <3>3, ProblemStatus DEF Rejected
      <3>4. QED
        BY <1>11, <3>1, <3>2, <3>3
    <2>2. /\ Same /\ call[h].pc \notin {"idle", "answer"} /\ call'[h].pc = "answer"
          /\ call'[h].wrote = call[h].wrote
          /\ call'[h].status # 201
          /\ call[h].pc = "audit" => call'[h].status = 500
      BY <1>1, <1>11, <2>1
      DEF Throw, Respond, InsertRefused, FindMember, Rejected, TypeOK, Call
    <2>3. InPlace(h)'
      BY <1>1, <2>2 DEF CallInv, InPlace
    <2>4. (Blame(h) /\ Auditable(h) /\ Signed(h))'
      BY <1>1, <2>2 DEF CallInv, Blame, Auditable, Signed, Recording
    <2>5. QED
      BY <1>7, <1>8, <2>2, <2>3, <2>4 DEF CallInv
  <1>12. CASE FindMember(h) /\ call'[h].pc = "sign"
    <2>1. /\ Same /\ call[h].pc = "find" /\ call'[h].wrote = call[h].wrote
          /\ <<call[h].tenant, call[h].key>> \in Members
      BY <1>1, <1>12 DEF FindMember, Throw, Respond, TypeOK, Call
    <2>2. call[h].op = "impersonate"
      BY <1>1, <2>1 DEF CallInv, InPlace
    <2>3. InPlace(h)'
      BY <1>1, <1>12, <2>1, <2>2 DEF CallInv, InPlace, Ops, Reads, Inserts
    <2>4. (Blame(h) /\ Auditable(h) /\ Signed(h))'
      BY <1>1, <1>12, <2>1, <2>2 DEF CallInv, Blame, Auditable, Signed, Recording
    <2>5. QED
      BY <1>7, <1>8, <2>1, <2>3, <2>4 DEF CallInv
  <1>13. CASE Audit(h)
    <2>1. /\ Same /\ call[h].pc = "audit" /\ call'[h].pc = "answer" /\ call'[h].status = 201
          /\ NewRecord(h) \in audit'
      BY <1>1, <1>13 DEF Audit, TypeOK, Call
    <2>2. InPlace(h)'
      BY <1>1, <2>1 DEF CallInv, InPlace
    <2>3. (Blame(h) /\ Auditable(h))'
      BY <2>1 DEF Blame, Auditable, Recording
    <2>4. Signed(h)'
      <3>1. SUFFICES ASSUME call[h].op = "impersonate" PROVE Signed(h)'
        BY <2>1 DEF Signed
      <3>2. NewRecord(h) = [tenant |-> call[h].tenant, actor |-> call[h].token.sub,
                            entity |-> "user", key |-> call[h].key]
        BY <3>1 DEF NewRecord
      <3>3. QED
        BY <1>1, <2>1, <3>1, <3>2 DEF CallInv, Auditable, Signed
    <2>5. QED
      BY <1>7, <1>8, <2>1, <2>2, <2>3, <2>4 DEF CallInv
  <1>14. QED
    BY <1>3, <1>4, <1>5, <1>6, <1>9, <1>10, <1>11, <1>12, <1>13 DEF Act

\* What a row needs to be accounted for, and a record to be earned.
RowKnown(r) == Recorded(r) \/ r \in unrecorded \/ \E h \in Handlers : Recording(h) /\ NewRow(h) = r
RecordEarned(a) ==
    /\ a.entity # "user" => [entity |-> a.entity, tenant |-> a.tenant, key |-> a.key] \in row
    /\ a.entity = "user" => <<a.tenant, a.key>> \in Members
    /\ \E k \in held :
         /\ k.sub = a.actor
         /\ IF a.entity = "user" THEN "tenant.manage" \in k.permissions
            ELSE "employee.write" \in k.permissions /\ k.tenant = a.tenant

LEMMA RowStep ==
    ASSUME IInv, NEW h \in Handlers, Act(h), NEW r \in row'
    PROVE  RowKnown(r)'
  <1>1. TypeOK /\ call[h] \in Call /\ CallInv(h) /\ Grows
    BY OneAtATime DEF IInv, TypeOK
  <1>2. CASE r \notin row
    <2>1. Insert(h) /\ r = NewRow(h)
      BY <1>2 DEF Act, Refuse, Admit, Query, Sign, Insert, InsertRefused, FindMember, Audit,
         Reply, Rejected, Stop
    <2>2. /\ call'[h].pc = "audit" /\ call'[h].op = call[h].op
          /\ call'[h].tenant = call[h].tenant /\ call'[h].key = call[h].key
          /\ call[h].op \in Inserts
      BY <1>1, <2>1 DEF Insert, TypeOK, Call, CallInv, InPlace
    <2>3. Recording(h)' /\ (NewRow(h) = r)'
      BY <2>1, <2>2 DEF Recording, NewRow
    <2>4. QED
      BY <2>3 DEF RowKnown
  <1>3. CASE r \in row
    <2>1. RowKnown(r)
      BY <1>3 DEF IInv, TrailMatchesTables, RowKnown
    <2>2. CASE Recorded(r) \/ r \in unrecorded
      BY <1>1, <2>2 DEF RowKnown, Recorded, Grows
    <2>3. ASSUME NEW g \in Handlers \ {h}, Recording(g), NewRow(g) = r
          PROVE  RowKnown(r)'
      <3>1. call'[g] = call[g]
        BY <1>1, OneAtATime
      <3>2. Recording(g)' /\ (NewRow(g) = r)'
        BY <2>3, <3>1 DEF Recording, NewRow
      <3>3. QED
        BY <3>2 DEF RowKnown
    <2>4. CASE Recording(h) /\ NewRow(h) = r
      <3>1. call[h].pc = "audit" /\ call[h].op \in Inserts
        BY <2>4 DEF Recording
      <3>2. CASE Audit(h)
        <4>1. NewRecord(h) \in audit'
          BY <3>2 DEF Audit
        <4>2. /\ NewRecord(h).tenant = r.tenant /\ NewRecord(h).entity = r.entity
              /\ NewRecord(h).key = r.key
          BY <2>4, <3>1 DEF NewRecord, NewRow, Inserts
        <4>3. QED
          BY <4>1, <4>2 DEF RowKnown, Recorded
      <3>3. CASE Rejected(h) \/ Stop(h)
        <4>1. r \in Unaudited(h)
          BY <2>4, <3>1 DEF Unaudited
        <4>2. QED
          BY <3>3, <4>1 DEF Rejected, Stop, RowKnown
      <3>4. QED
        BY <3>1, <3>2, <3>3
        DEF Act, Refuse, Admit, Query, Sign, Insert, InsertRefused, FindMember, Reply
    <2>5. QED
      BY <2>1, <2>2, <2>3, <2>4 DEF RowKnown
  <1>4. QED
    BY <1>2, <1>3

LEMMA RecordStep ==
    ASSUME IInv, NEW h \in Handlers, Act(h), NEW a \in audit'
    PROVE  RecordEarned(a)'
  <1>1. TypeOK /\ call[h] \in Call /\ CallInv(h) /\ Grows
    BY OneAtATime DEF IInv, TypeOK
  <1>2. CASE a \in audit
    <2>1. RecordEarned(a)
      BY <1>2 DEF IInv, TrailMatchesTables, RecordEarned
    <2>2. QED
      BY <1>1, <2>1 DEF RecordEarned, Grows
  <1>3. CASE a \notin audit
    <2>1. Audit(h) /\ a = NewRecord(h)
      BY <1>3 DEF Act, Refuse, Admit, Query, Sign, Insert, InsertRefused, FindMember, Audit,
         Reply, Rejected, Stop
    <2>2. /\ call[h].pc = "audit" /\ call[h].op \in {"createEmployee", "presign", "impersonate"}
          /\ call[h].token \in held /\ Required(call[h].op) \in call[h].token.permissions
          /\ Scoped(call[h].op) => call[h].tenant = call[h].token.tenant
      BY <1>1, <2>1, NoneAssumption
      DEF Audit, CallInv, InPlace, Admitted, Ops, Inserts
    <2>3. a.tenant = call[h].tenant /\ a.actor = call[h].token.sub /\ a.key = call[h].key
      BY <2>1 DEF NewRecord
    <2>4. call[h].token \in held'
      BY <1>1, <2>2 DEF Grows
    <2>5. CASE call[h].op = "impersonate"
      <3>1. a.entity = "user" /\ <<a.tenant, a.key>> \in Members
        BY <1>1, <2>1, <2>2, <2>3, <2>5 DEF NewRecord, CallInv, Auditable
      <3>2. "tenant.manage" \in call[h].token.permissions
        BY <2>2, <2>5 DEF Required, Inserts
      <3>3. QED
        BY <2>3, <2>4, <3>1, <3>2 DEF RecordEarned
    <2>6. CASE call[h].op # "impersonate"
      <3>1. Recording(h) /\ Scoped(call[h].op)
        BY <2>2, <2>6 DEF Recording, Inserts, Scoped
      <3>2. a.entity = NewRow(h).entity /\ a.entity # "user"
        BY <2>1, <2>2, <2>6 DEF NewRecord, NewRow
      <3>3. [entity |-> a.entity, tenant |-> a.tenant, key |-> a.key] \in row'
        BY <1>1, <2>3, <3>1, <3>2 DEF NewRow, CallInv, Auditable, Grows
      <3>4. "employee.write" \in call[h].token.permissions
        BY <2>2, <2>6 DEF Required, Inserts
      <3>5. QED
        BY <2>2, <2>3, <2>4, <3>1, <3>2, <3>3, <3>4 DEF RecordEarned
    <2>7. QED
      BY <2>5, <2>6
  <1>4. QED
    BY <1>2, <1>3

LEMMA ImpersonationStep ==
    ASSUME IInv, NEW h \in Handlers, Act(h)
    PROVE  ImpersonationRecorded'
  <1>1. CallInv(h) /\ Grows
    BY OneAtATime DEF IInv
  <1>2. SUFFICES ASSUME NEW k \in held', k.impersonatedBy # None
                 PROVE  [tenant |-> k.tenant, actor |-> k.impersonatedBy,
                         entity |-> "user", key |-> k.sub] \in audit'
    BY DEF ImpersonationRecorded
  <1>3. CASE k \in held
    BY <1>1, <1>2, <1>3 DEF IInv, ImpersonationRecorded, Grows
  <1>4. CASE k \notin held
    <2>1. /\ Reply(h) /\ call[h].op = "impersonate" /\ call[h].status = 201
          /\ k = TokenOf(call[h].tenant, call[h].key, call[h].token.sub)
      <3>1. held' = held \/ Reply(h)
        BY DEF Act, Refuse, Admit, Query, Sign, Insert, InsertRefused, FindMember, Audit,
           Rejected, Stop
      <3>2. Reply(h)
        BY <1>4, <3>1
      <3>3. QED
        BY <1>4, <3>2 DEF Reply
    <2>2. [tenant |-> call[h].tenant, actor |-> call[h].token.sub,
           entity |-> "user", key |-> call[h].key] \in audit
      BY <1>1, <2>1, NoneAssumption DEF Reply, CallInv, Signed, InPlace, Ops
    <2>3. k.tenant = call[h].tenant /\ k.impersonatedBy = call[h].token.sub /\ k.sub = call[h].key
      BY <2>1 DEF TokenOf
    <2>4. QED
      BY <1>1, <2>2, <2>3 DEF Grows
  <1>5. QED
    BY <1>3, <1>4

LEMMA InvariantStep == IInv /\ [Next]_vars => IInv'
  <1>1. ASSUME IInv, NEW h \in Handlers, Act(h)
        PROVE  IInv'
    <2>1. TypeOK /\ Grows
      BY <1>1, OneAtATime DEF IInv
    <2>2. TypeOK' /\ ImpersonationRecorded'
      BY <1>1, TypeStep, ImpersonationStep
    <2>3. TrailMatchesTables'
      <3>1. \A r \in row' : RowKnown(r)'
        BY <1>1, RowStep
      <3>2. \A a \in audit' : RecordEarned(a)'
        BY <1>1, RecordStep
      <3>3. QED
        BY <3>1, <3>2 DEF TrailMatchesTables, RowKnown, RecordEarned
    <2>4. Untouched'
      <3>1. policies = "absent" => row' = row
        BY <1>1 DEF Act, Refuse, Admit, Query, Sign, Insert, InsertRefused, FindMember, Audit,
           Reply, Rejected, Stop, Sees, Setting
      <3>2. QED
        BY <1>1, <2>1, <3>1 DEF IInv, Untouched, Grows
    <2>5. ASSUME NEW g \in Handlers
          PROVE  CallInv(g)'
      <3>1. CASE g = h
        BY <1>1, <3>1, CallStep
      <3>2. CASE g # h
        BY <1>1, <2>1, <3>2, OneAtATime, OthersKeep DEF IInv
      <3>3. QED
        BY <3>1, <3>2
    <2>6. QED
      BY <2>2, <2>3, <2>4, <2>5 DEF IInv
  <1>2. ASSUME IInv, UNCHANGED vars
        PROVE  IInv'
    <2>1. Grows /\ call' = call
      BY <1>2 DEF vars, Grows
    <2>2. \A g \in Handlers : CallInv(g)'
      BY <1>2, <2>1, OthersKeep DEF IInv
    <2>3. (TypeOK /\ Untouched /\ TrailMatchesTables /\ ImpersonationRecorded)'
      BY <1>2 DEF vars, IInv, TypeOK, Untouched, TrailMatchesTables, ImpersonationRecorded,
         Recorded, Recording, NewRow
    <2>4. QED
      BY <2>2, <2>3 DEF IInv
  <1>3. QED
    BY <1>1, <1>2 DEF Next, Act

\* The invariant holds of every request the API serves.
THEOREM Invariant == Spec => []IInv
  BY InitInvariant, InvariantStep, PTL DEF Spec

\* Every table, token and request keeps the type it was declared with.
THEOREM TypesKept == Spec => []TypeOK
  <1>1. IInv => TypeOK
    BY DEF IInv
  <1>2. QED
    BY <1>1, Invariant, PTL

\* Whatever the deployment does with the policies, a read answers rows of the
\* tenant its token was signed for (guard and where clause of every controller
\* with a tenant).
THEOREM TenantsKeptApart == Spec => []AnswersStayInTenant
  <1>1. IInv => AnswersStayInTenant
    <2> SUFFICES ASSUME IInv, NEW h \in Handlers,
                        call[h].op # None, Scoped(call[h].op)
                 PROVE  call[h].rows \subseteq {call[h].token.tenant}
      BY DEF AnswersStayInTenant
    <2>1. Admitted(h) /\ Found(h)
      BY DEF IInv, CallInv
    <2>2. QED
      BY <2>1 DEF Admitted, Found
  <1>2. QED
    BY <1>1, Invariant, PTL

\* Where the policies bind the role and the setting is lost on the way, no row
\* of a tenant is read or written (rls.sql and the extension of PrismaService).
THEOREM LostTenantFailsClosed == Spec => []FailsClosed
  <1>1. IInv => FailsClosed
    BY DEF IInv, CallInv, Found, Untouched, FailsClosed
  <1>2. QED
    BY <1>1, Invariant, PTL

\* Tables and audit trail keep in step across the two transactions of a write.
THEOREM TrailKept == Spec => []TrailMatchesTables
  <1>1. IInv => TrailMatchesTables
    BY DEF IInv
  <1>2. QED
    BY <1>1, Invariant, PTL

\* Nobody holds a token of an impersonation that left no record.
THEOREM ImpersonationsRecorded == Spec => []ImpersonationRecorded
  <1>1. IInv => ImpersonationRecorded
    BY DEF IInv
  <1>2. QED
    BY <1>1, Invariant, PTL

\* What the exception filter answers as the client's fault has changed nothing.
THEOREM ClientErrorsAreHarmless == Spec => []ClientErrorChangesNothing
  <1>1. IInv => ClientErrorChangesNothing
    BY DEF IInv, CallInv, Blame, ClientErrorChangesNothing
  <1>2. QED
    BY <1>1, Invariant, PTL
=============================================================================
