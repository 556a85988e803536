------------------------------ MODULE TenantApi ------------------------------
(***************************************************************************)
(* A request to the API from its arrival to its answer: the guards, the    *)
(* tenant they establish, the awaits of the handler against the tables,    *)
(* the audit record written after the fact, and the exception filter.  The *)
(* operations are those of the controllers for employees, files, audit     *)
(* logs, the subscription and administration; the leave, notification and  *)
(* payroll handlers have modules of their own.                             *)
(***************************************************************************)
EXTENDS RowSecurity, Naturals

CONSTANTS
    Handlers,   \* requests that can be in flight at the same time
    Tenants, Users,
    Members,    \* table TenantUser: pairs of a tenant and a user
    Rights,     \* the permissions of each member's role
    Subscribers,\* tenants with a row in Subscription
    Emails,     \* workEmail of employees
    Documents,  \* object keys that can be drawn (bound on uploads)
    Imported,   \* employees stored before the API was used
    Faults,     \* TRUE when an await may throw and the process may stop
    None        \* undefined

VARIABLES
    row,        \* tables Employee and Document
    audit,      \* table AuditLog
    held,       \* the access tokens clients have been answered
    call,       \* what each handler is doing
    unrecorded  \* history: rows imported, or whose request ended before its record

vars == <<policies, row, audit, held, call, unrecorded>>

Permissions == {"employee.read", "employee.write", "audit.read", "billing.manage",
                "tenant.manage"}
Keys == Emails \cup Documents \cup Users
Row == [entity : {"employee", "document"}, tenant : Tenants, key : Keys]

ASSUME MembersAssumption ==
    /\ Members \subseteq Tenants \X Users
    /\ Rights \in [Members -> SUBSET Permissions]
    /\ Subscribers \subseteq Tenants
    /\ Imported \subseteq {r \in Row : r.entity = "employee"}
ASSUME KeysAssumption == Emails \cap Documents = {}
ASSUME FaultsAssumption == Faults \in BOOLEAN

\* The payload of an access token.
Token == [sub : Users, tenant : Tenants, permissions : SUBSET Permissions,
          impersonatedBy : Users \cup {None}]
TokenOf(t, u, by) == [sub |-> u, tenant |-> t, permissions |-> Rights[<<t, u>>],
                      impersonatedBy |-> by]

Record == [tenant : Tenants, actor : Users,
           entity : {"employee", "document", "user"}, key : Keys]

Reads == {"listEmployees", "listAudit", "subscription", "listTenants"}
Inserts == {"createEmployee", "presign"}
Ops == Reads \cup Inserts \cup {"impersonate"}

Call == [pc : {"idle", "query", "find", "sign", "insert", "audit", "answer"},
         op : Ops \cup {None},
         token : Token \cup {None},
         tenant : Tenants \cup {None},  \* the tenant header, or dto.tenantId
         key : Keys \cup {None},
         status : Nat,                  \* of the answer
         rows : SUBSET Tenants,         \* whose rows a read found
         wrote : BOOLEAN]               \* history: something was committed
Idle == [pc |-> "idle", op |-> None, token |-> None, tenant |-> None, key |-> None,
         status |-> 0, rows |-> {}, wrote |-> FALSE]

ASSUME NoneAssumption == None \notin Tenants \cup Keys \cup Token \cup Ops

----------------------------------------------------------------------------
\* Routes and guards

\* The administration controller alone has no TenantContextGuard.
Scoped(op) == op \notin {"listTenants", "impersonate"}

\* @RequirePermissions of each route.
Required(op) ==
    CASE op = "listEmployees" -> "employee.read"
      [] op \in Inserts -> "employee.write"
      [] op = "listAudit" -> "audit.read"
      [] op = "subscription" -> "billing.manage"
      [] op \in {"listTenants", "impersonate"} -> "tenant.manage"

JwtAuthGuard(token) == token # None
\* Mutant of TenantContextGuard: a header is there, and is not compared.
TenantHeaderOnly(op, token, tenant) == Scoped(op) => tenant # None
TenantContextGuard(op, token, tenant) == Scoped(op) => tenant = token.tenant
PermissionsGuard(op, token) == Required(op) \in token.permissions

\* The statuses a request may be turned away with before its handler runs:
\* the throttler first, then the guards (a token may have expired), then the
\* validation of a body.
Refusals(op, token, tenant) ==
    {429, 401} \cup
    IF ~JwtAuthGuard(token) \/ ~TenantContextGuard(op, token, tenant) THEN {}
    ELSE IF ~PermissionsGuard(op, token) THEN {403}
    ELSE IF op \in Reads THEN {} ELSE {400}

\* What a request names besides its tenant: an e-mail, a new object key
\* (randomUUID), a user.
Drawn == {r.key : r \in row} \cup {call[h].key : h \in Handlers}
KeysOf(op) ==
    CASE op = "createEmployee" -> Emails
      [] op = "presign" -> Documents \ Drawn
      [] op = "impersonate" -> Users
      [] op \in Reads -> {None}

FirstAwait(op) ==
    CASE op \in Reads -> "query"
      [] op = "createEmployee" -> "insert"
      [] op = "presign" -> "sign"
      [] op = "impersonate" -> "find"

Refuse(h) ==
    /\ call[h].pc = "idle"
    /\ \E op \in Ops, token \in held \cup {None}, tenant \in Tenants \cup {None} :
        \E status \in Refusals(op, token, tenant) :
            call' = [call EXCEPT ![h] = [Idle EXCEPT !.pc = "answer", !.status = status]]
    /\ UNCHANGED <<policies, row, audit, held, unrecorded>>

Admit(h) ==
    /\ call[h].pc = "idle"
    /\ \E op \in Ops, token \in held, tenant \in Tenants :
        /\ JwtAuthGuard(token)
        /\ TenantContextGuard(op, token, tenant)
        /\ PermissionsGuard(op, token)
        /\ \E key \in KeysOf(op) :
            call' = [call EXCEPT ![h] =
                [Idle EXCEPT !.pc = FirstAwait(op), !.op = op, !.token = token,
                             !.tenant = tenant, !.key = key]]
    /\ UNCHANGED <<policies, row, audit, held, unrecorded>>

\* The tenant the guards of this request entered into the storage.
Entered(h) == IF Scoped(call[h].op) THEN {call[h].tenant} ELSE {}

----------------------------------------------------------------------------
\* The exception filter

Http(status) == [class |-> "http", status |-> status, code |-> "none"]
Prisma(code) == [class |-> "prisma", status |-> 0, code |-> code]
Error == [class |-> "error", status |-> 0, code |-> "none"]

\* Mutant of Problem: every error of Prisma is blamed on the client.
ProblemOrBadRequest(x) ==
    CASE x.class = "http" -> x.status
      [] x.class = "prisma" /\ x.code = "P2002" -> 409
      [] x.class = "prisma" /\ x.code # "P2002" -> 400
      [] x.class = "error" -> 500

\* The status of the problem an exception is answered as.
Problem(x) ==
    CASE x.class = "http" -> x.status
      [] x.class = "prisma" /\ x.code = "P2002" -> 409
      [] x.class = "prisma" /\ x.code = "P2025" -> 404
      [] x.class = "prisma" /\ x.code \notin {"P2002", "P2025"} -> 500
      [] x.class = "error" -> 500

Respond(h, status) == call' = [call EXCEPT ![h].pc = "answer", ![h].status = status]
Throw(h, x) == Respond(h, Problem(x))

----------------------------------------------------------------------------
\* The handlers, one action per await

\* The tenants with rows in the table a read selects from.
Stored(op) ==
    CASE op = "listEmployees" -> {r.tenant : r \in {q \in row : q.entity = "employee"}}
      [] op = "listAudit" -> {a.tenant : a \in audit}
      [] op = "subscription" -> Subscribers
      [] op = "listTenants" -> Tenants

\* Mutant of Where: the query leaves the tenant to the policies.
WhereAnything(h) == Tenants

\* The where clause; table Tenant is read whole and has no policy.
Where(h) == IF Scoped(call[h].op) THEN {call[h].tenant} ELSE Tenants
Readable(h) == {t \in Tenants : call[h].op = "listTenants" \/ Sees(Entered(h), t)}

Query(h) ==
    /\ call[h].pc = "query"
    /\ call' = [call EXCEPT ![h].pc = "answer", ![h].status = 200,
                            ![h].rows = Stored(call[h].op) \cap Where(h) \cap Readable(h)]
    /\ UNCHANGED <<policies, row, audit, held, unrecorded>>

\* getSignedUrl of an upload, or the token of an impersonation: nothing is stored.
Sign(h) ==
    /\ call[h].pc = "sign"
    /\ call' = [call EXCEPT ![h].pc = IF call[h].op = "presign" THEN "insert" ELSE "audit"]
    /\ UNCHANGED <<policies, row, audit, held, unrecorded>>

NewRow(h) == [entity |-> IF call[h].op = "createEmployee" THEN "employee" ELSE "document",
              tenant |-> call[h].tenant, key |-> call[h].key]

Insert(h) ==
    /\ call[h].pc = "insert"
    /\ Sees(Entered(h), call[h].tenant)
    /\ NewRow(h) \notin row
    /\ row' = row \cup {NewRow(h)}
    /\ call' = [call EXCEPT ![h].pc = "audit", ![h].wrote = TRUE]
    /\ UNCHANGED <<policies, audit, held, unrecorded>>

\* The policy refuses the row, or the e-mail is taken in this tenant.
InsertRefused(h) ==
    /\ call[h].pc = "insert"
    /\ IF ~Sees(Entered(h), call[h].tenant) THEN Throw(h, Error)
       ELSE NewRow(h) \in row /\ Throw(h, Prisma("P2002"))
    /\ UNCHANGED <<policies, row, audit, held, unrecorded>>

\* createImpersonationToken looks for the membership; its table has no policy.
FindMember(h) ==
    /\ call[h].pc = "find"
    /\ IF <<call[h].tenant, call[h].key>> \in Members
         THEN call' = [call EXCEPT ![h].pc = "sign"] ELSE Throw(h, Http(404))
    /\ UNCHANGED <<policies, row, audit, held, unrecorded>>

\* Mutant of NewRecord: the actor is read where the request has none.
NewRecordOfNobody(h) ==
    [tenant |-> call[h].tenant, actor |-> None, key |-> call[h].key,
     entity |-> IF call[h].op = "presign" THEN "document" ELSE "employee"]

NewRecord(h) ==
    [tenant |-> call[h].tenant, actor |-> call[h].token.sub, key |-> call[h].key,
     entity |-> CASE call[h].op = "createEmployee" -> "employee"
                  [] call[h].op = "presign" -> "document"
                  [] call[h].op = "impersonate" -> "user"]

\* Mutant of Audit: the answer does not wait for the record.
AuditForgotten(h) ==
    /\ call[h].pc = "audit"
    /\ call' = [call EXCEPT ![h].pc = "answer", ![h].status = 201]
    /\ UNCHANGED <<policies, row, audit, held, unrecorded>>

\* AuditService.record sets the tenant itself, in the transaction of its insert.
Audit(h) ==
    /\ call[h].pc = "audit"
    /\ audit' = audit \cup {NewRecord(h)}
    /\ call' = [call EXCEPT ![h].pc = "answer", ![h].status = 201, ![h].wrote = TRUE]
    /\ UNCHANGED <<policies, row, held, unrecorded>>

\* The answer arrives, with the token an impersonation was for.
Reply(h) ==
    /\ call[h].pc = "answer"
    /\ held' = IF call[h].op = "impersonate" /\ call[h].status = 201
                 THEN held \cup {TokenOf(call[h].tenant, call[h].key, call[h].token.sub)}
                 ELSE held
    /\ call' = [call EXCEPT ![h] = Idle]
    /\ UNCHANGED <<policies, row, audit, unrecorded>>

\* An insert that will not be audited any more.
Unaudited(h) == IF call[h].pc = "audit" /\ call[h].op \in Inserts THEN {NewRow(h)} ELSE {}

\* An await rejects: a broken foreign key (a department, an employee, an
\* actor) or anything else; what was committed stays.
Rejected(h) ==
    /\ Faults /\ call[h].pc \notin {"idle", "answer"}
    /\ \E x \in {Prisma("P2003"), Error} : Throw(h, x)
    /\ unrecorded' = unrecorded \cup Unaudited(h)
    /\ UNCHANGED <<policies, row, audit, held>>

\* The process stops or the answer is lost: the client may send it again.
Stop(h) ==
    /\ Faults /\ call[h].pc # "idle"
    /\ call' = [call EXCEPT ![h] = Idle]
    /\ unrecorded' = unrecorded \cup Unaudited(h)
    /\ UNCHANGED <<policies, row, audit, held>>

Init ==
    /\ policies \in Deployments
    /\ row = Imported /\ unrecorded = Imported
    /\ audit = {}
    /\ held = {TokenOf(m[1], m[2], None) : m \in Members}
    /\ call = [h \in Handlers |-> Idle]

Next == \E h \in Handlers :
    \/ Refuse(h) \/ Admit(h)
    \/ Query(h) \/ Sign(h) \/ Insert(h) \/ InsertRefused(h) \/ FindMember(h) \/ Audit(h)
    \/ Reply(h) \/ Rejected(h) \/ Stop(h)

Spec == Init /\ [][Next]_vars

----------------------------------------------------------------------------
\* Properties

TypeOK ==
    /\ policies \in Deployments
    /\ row \subseteq Row /\ unrecorded \subseteq row
    /\ audit \subseteq Record
    /\ held \subseteq Token
    /\ call \in [Handlers -> Call]

\* The rows in an answer are of the tenant the token was signed for, on every
\* route with a tenant and whether or not the database applies its policies:
\* header, where clause and policy are three sources of one tenant.
AnswersStayInTenant ==
    \A h \in Handlers : call[h].pc = "answer" /\ call[h].op # None /\ Scoped(call[h].op) =>
        call[h].rows \subseteq {call[h].token.tenant}

\* Where the role is bound and the setting does not reach the query, the
\* policies refuse: nothing of a tenant is read and no row is written.
FailsClosed ==
    policies = "absent" =>
        /\ row = Imported
        /\ \A h \in Handlers : call[h].rows # {} => ~Scoped(call[h].op)

Recorded(r) == \E a \in audit : a.tenant = r.tenant /\ a.entity = r.entity /\ a.key = r.key
Recording(h) == call[h].pc = "audit" /\ call[h].op \in Inserts

\* Tables and trail keep in step across two transactions.  A row has its
\* record, or its request is about to write it, or that request failed; a
\* record has its row, and its actor a token that allows what was done.
TrailMatchesTables ==
    /\ \A r \in row : Recorded(r) \/ r \in unrecorded
                      \/ \E h \in Handlers : Recording(h) /\ NewRow(h) = r
    /\ \A a \in audit :
        /\ a.entity # "user" =>
             [entity |-> a.entity, tenant |-> a.tenant, key |-> a.key] \in row
        /\ a.entity = "user" => <<a.tenant, a.key>> \in Members
        /\ \E k \in held :
             /\ k.sub = a.actor
             /\ IF a.entity = "user" THEN "tenant.manage" \in k.permissions
                ELSE "employee.write" \in k.permissions /\ k.tenant = a.tenant

\* Whoever holds a token signed by an impersonation, the trail of the tenant
\* it opens says who asked for it: a failure between signature and record
\* answers no token, and so does an answer that is lost.
ImpersonationRecorded ==
    \A k \in held : k.impersonatedBy # None =>
        [tenant |-> k.tenant, actor |-> k.impersonatedBy, entity |-> "user", key |-> k.sub]
            \in audit

\* An answer that blames the client (4xx) means that its request committed
\* nothing; what fails after a commit is answered 500.  So a client may correct
\* and send again what was refused, while after a 500, or no answer, the row may exist.
ClientErrorChangesNothing ==
    \A h \in Handlers : call[h].pc = "answer" /\ call[h].status \in 400..499 => ~call[h].wrote
=============================================================================
