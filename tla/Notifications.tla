--------------------------- MODULE Notifications ---------------------------
(***************************************************************************)
(* Notifications: POST /notifications writes a row, an audit record and a  *)
(* BullMQ job one after the other; the worker process marks the row of a   *)
(* job SENT; POST /notifications/dispatch marks pending rows SENT without  *)
(* the queue.  The row is in PostgreSQL and the job in Redis: nothing      *)
(* makes the two agree but the order in which they are written.  The       *)
(* worker has a database client of its own, which sets no tenant.          *)
(***************************************************************************)
EXTENDS RowSecurity, Naturals, FiniteSets

CONSTANTS
    Handlers,       \* HTTP calls that can be in flight at the same time
    Workers,        \* jobs the worker processes can run at the same time
    Tenants,        \* of the callers
    Notifications,  \* ids of Notification rows
    Owner,          \* the tenant whose caller creates each of them
    Limit,          \* dispatchPending's limit: 50
    Attempts,       \* attempts of a job: 3
    MaxStalled,     \* BullMQ's maxStalledCount: 1
    Faults,         \* TRUE when an await may throw and processes may stop
    None            \* null

ASSUME LimitsAssumption ==
    /\ Limit \in Nat \ {0} /\ Attempts \in Nat \ {0} /\ MaxStalled \in Nat
    /\ Faults \in BOOLEAN
ASSUME FiniteAssumption == IsFiniteSet(Notifications)
ASSUME OwnerAssumption == Owner \in [Notifications -> Tenants]
ASSUME NoneAssumption == None \notin Tenants \cup Notifications \cup Workers

VARIABLES
    note,       \* table Notification
    audited,    \* table AuditLog: the notifications with a record
    job,        \* the queue: the job of each notification
    call,       \* what each HTTP handler is doing
    work,       \* what each worker slot is doing
    lost,       \* history: notifications whose enqueue failed before the queue
    unseen      \* history: those a worker looked for and the policies hid

vars == <<policies, note, audited, job, call, work, lost, unseen>>

Row == [status : {"ABSENT", "PENDING", "SENT"}, tenant : Tenants \cup {None},
        createdAt : Nat]
NoRow == [status |-> "ABSENT", tenant |-> None, createdAt |-> 0]

\* A completed job is removed, a failed one is kept.
Job == [state : {"none", "waiting", "active", "failed"},
        owner : Workers \cup {None},    \* who holds the lock of an active job
        attempts : Nat, stalls : Nat]
NoJob == [state |-> "none", owner |-> None, attempts |-> 0, stalls |-> 0]
\* Nothing reads the counts of a job that has failed.
FailedJob == [NoJob EXCEPT !.state = "failed"]

Call == [pc : {"idle", "audit", "add", "update"},
         tenant : Tenants \cup {None},
         id : Notifications \cup {None},    \* the row enqueue created
         pending : SUBSET Notifications]    \* what dispatch has yet to update
IdleCall == [pc |-> "idle", tenant |-> None, id |-> None, pending |-> {}]

Work == [pc : {"idle", "find", "update", "complete"}, id : Notifications \cup {None}]
IdleWork == [pc |-> "idle", id |-> None]

Existing == {n \in Notifications : note[n].status # "ABSENT"}

\* cuid(): which unused id it is makes no difference.
FreshId == CHOOSE n \in Notifications : n \notin Existing

\* Mutant of Sent: the third status of the schema, which nothing ever writes.
Failed(n) == note' = [note EXCEPT ![n].status = "FAILED"]

\* The update of dispatch and of the worker alike: no condition on the row.
Sent(n) == note' = [note EXCEPT ![n].status = "SENT"]

----------------------------------------------------------------------------
\* NotificationsService.enqueue

Create(h) ==
    /\ call[h].pc = "idle"
    /\ Existing # Notifications
    /\ LET n == FreshId
           t == Owner[n]
       IN
        /\ Sees({t}, t)
        /\ note' = [note EXCEPT ![n] = [status |-> "PENDING", tenant |-> t,
                                        createdAt |-> Cardinality(Existing) + 1]]
        /\ call' = [call EXCEPT ![h] = [IdleCall EXCEPT !.pc = "audit", !.tenant = t, !.id = n]]
    /\ UNCHANGED <<policies, audited, job, work, lost, unseen>>

Audit(h) ==
    /\ call[h].pc = "audit"
    /\ audited' = audited \cup {call[h].id}
    /\ call' = [call EXCEPT ![h].pc = "add"]
    /\ UNCHANGED <<policies, note, job, work, lost, unseen>>

\* Mutant of AddJob: the call returns and the job is never added.
AddJobForgotten(h) ==
    /\ call[h].pc = "add"
    /\ call' = [call EXCEPT ![h] = IdleCall]
    /\ UNCHANGED <<policies, note, audited, job, work, lost, unseen>>

AddJob(h) ==
    /\ call[h].pc = "add"
    /\ job' = [job EXCEPT ![call[h].id] = [NoJob EXCEPT !.state = "waiting"]]
    /\ call' = [call EXCEPT ![h] = IdleCall]
    /\ UNCHANGED <<policies, note, audited, work, lost, unseen>>

----------------------------------------------------------------------------
\* NotificationsService.dispatchPending


\* The rows findMany selects; the tenant is not in the query.
Pending == {n \in Notifications : note[n].status = "PENDING"}
\* Those of them the policies let a call for tenant t see.
PendingFor(t) == {n \in Pending : Sees({t}, note[n].tenant)}

\* The Limit oldest of them; no two rows are of one age.
Oldest(rows) ==
    {n \in rows : Cardinality({m \in rows : note[m].createdAt < note[n].createdAt}) < Limit}

\* A call arrives and its query is answered: nothing is read or written
\* between the two.  With nothing pending so is the call.
FindPending(h, t) ==
    /\ call[h].pc = "idle"
    /\ IF PendingFor(t) = {} THEN UNCHANGED call
         ELSE call' = [call EXCEPT ![h] = [IdleCall EXCEPT !.pc = "update", !.tenant = t,
                                                          !.pending = Oldest(PendingFor(t))]]
    /\ UNCHANGED <<policies, note, audited, job, work, lost, unseen>>

\* One turn of the loop, oldest first: what was pending when it was read is SENT now.
UpdateNext(h) ==
    /\ call[h].pc = "update"
    /\ \E n \in call[h].pending :
        /\ \A m \in call[h].pending : note[n].createdAt <= note[m].createdAt
        /\ Sent(n)
        /\ call' = [call EXCEPT ![h] =
             IF call[h].pending = {n} THEN IdleCall
             ELSE [call[h] EXCEPT !.pending = @ \ {n}]]
    /\ UNCHANGED <<policies, audited, job, work, lost, unseen>>

\* The await rejects or the API process stops: the call is gone.
Fail(h) ==
    /\ Faults /\ call[h].pc # "idle"
    /\ lost' = IF call[h].pc \in {"audit", "add"} THEN lost \cup {call[h].id} ELSE lost
    /\ call' = [call EXCEPT ![h] = IdleCall]
    /\ UNCHANGED <<policies, note, audited, job, work, unseen>>

----------------------------------------------------------------------------
\* The worker: processNotification under BullMQ

Take(w) ==
    /\ work[w].pc = "idle"
    /\ \E n \in Notifications :
        /\ job[n].state = "waiting"
        /\ job' = [job EXCEPT ![n].state = "active", ![n].owner = w]
        /\ work' = [work EXCEPT ![w] = [pc |-> "find", id |-> n]]
    /\ UNCHANGED <<policies, note, audited, call, lost, unseen>>

\* findUnique: a row that is missing or not PENDING any more ends the job.
FindRow(w) ==
    /\ work[w].pc = "find"
    /\ LET n == work[w].id
           found == Sees({}, note[n].tenant)
       IN  /\ work' = [work EXCEPT ![w].pc =
                IF found /\ note[n].status = "PENDING" THEN "update" ELSE "complete"]
           /\ unseen' = IF found THEN unseen ELSE unseen \cup {n}
    /\ UNCHANGED <<policies, note, audited, job, call, lost>>

UpdateRow(w) ==
    /\ work[w].pc = "update"
    /\ Sent(work[w].id)
    /\ work' = [work EXCEPT ![w].pc = "complete"]
    /\ UNCHANGED <<policies, audited, job, call, lost, unseen>>

\* The job is removed, unless its lock has gone to another worker.
Complete(w) ==
    /\ work[w].pc = "complete"
    /\ job' = IF job[work[w].id].owner = w
                THEN [job EXCEPT ![work[w].id] = NoJob] ELSE job
    /\ work' = [work EXCEPT ![w] = IdleWork]
    /\ UNCHANGED <<policies, note, audited, call, lost, unseen>>

\* Mutant of Retried: removeOnFail, so the last failure removes the job.
RetriedOrRemoved(j) ==
    IF j.attempts + 1 < Attempts
      THEN [j EXCEPT !.state = "waiting", !.owner = None, !.attempts = @ + 1]
      ELSE NoJob

\* What becomes of a job whose processor threw.
Retried(j) ==
    IF j.attempts + 1 < Attempts
      THEN [j EXCEPT !.state = "waiting", !.owner = None, !.attempts = @ + 1]
      ELSE FailedJob

\* processNotification throws: the row keeps its status whatever becomes of the job.
Throw(w) ==
    /\ Faults /\ work[w].pc \in {"find", "update"}
    /\ job' = IF job[work[w].id].owner = w
                THEN [job EXCEPT ![work[w].id] = Retried(@)] ELSE job
    /\ work' = [work EXCEPT ![w] = IdleWork]
    /\ UNCHANGED <<policies, note, audited, call, lost, unseen>>

\* What becomes of a job whose lock expired.
Stalled(j) ==
    IF j.stalls < MaxStalled
      THEN [j EXCEPT !.state = "waiting", !.owner = None, !.stalls = @ + 1]
      ELSE FailedJob

\* The lock of an active job expires, because its worker stopped or only
\* because it was slow: then it goes on with a job another worker may take.
Stall(n) ==
    /\ Faults /\ job[n].state = "active"
    /\ job' = [job EXCEPT ![n] = Stalled(job[n])]
    /\ \/ UNCHANGED work
       \/ work' = [work EXCEPT ![job[n].owner] = IdleWork]
    /\ UNCHANGED <<policies, note, audited, call, lost, unseen>>

Init ==
    /\ policies \in Deployments
    /\ note = [n \in Notifications |-> NoRow]
    /\ job = [n \in Notifications |-> NoJob]
    /\ call = [h \in Handlers |-> IdleCall]
    /\ work = [w \in Workers |-> IdleWork]
    /\ audited = {} /\ lost = {} /\ unseen = {}

HandlerStep(h) == Audit(h) \/ AddJob(h) \/ UpdateNext(h)
WorkerStep(w) == Take(w) \/ FindRow(w) \/ UpdateRow(w) \/ Complete(w)

Next ==
    \/ \E h \in Handlers :
        \/ Create(h) \/ \E t \in Tenants : FindPending(h, t)
        \/ HandlerStep(h) \/ Fail(h)
    \/ \E w \in Workers : WorkerStep(w) \/ Throw(w)
    \/ \E n \in Notifications : Stall(n)

Spec == Init /\ [][Next]_vars

\* The event loops of the API and of the workers run what is ready to run.
Fairness ==
    /\ \A h \in Handlers : WF_vars(HandlerStep(h))
    /\ \A w \in Workers : WF_vars(WorkerStep(w))
FairSpec == Spec /\ Fairness

\* A dispatch call of an administrator of the tenant updates its last row.
DispatchDone(t) ==
    \E h \in Handlers : call[h].tenant = t /\ UpdateNext(h) /\ call'[h] = IdleCall

----------------------------------------------------------------------------
\* Properties

TypeOK ==
    /\ policies \in Deployments
    /\ note \in [Notifications -> Row]
    /\ job \in [Notifications -> Job]
    /\ call \in [Handlers -> Call]
    /\ work \in [Workers -> Work]
    /\ audited \subseteq Notifications /\ lost \subseteq Notifications
    /\ unseen \subseteq Notifications

\* A pending notification is in the queue (waiting, running or kept as failed)
\* or its enqueue is on its way there, or it is forgotten in one of two ways:
\* the enqueue failed, or a worker looked for the row and the policies hid it.
\* Races of two workers on a stalled job and of dispatch with a worker do not
\* add to these.
PendingAccountedFor ==
    \A n \in Notifications : note[n].status = "PENDING" =>
        \/ job[n].state # "none"
        \/ \E h \in Handlers : call[h].pc \in {"audit", "add"} /\ call[h].id = n
        \/ n \in lost
        \/ n \in unseen

\* The workers alone send every notification, unless its enqueue or the last
\* attempt of its job failed, or the policies hid it from them.
SentByWorkers ==
    \A n \in Notifications : note[n].status = "PENDING" ~>
        note[n].status = "SENT" \/ n \in lost \/ job[n].state = "failed" \/ n \in unseen

=============================================================================
