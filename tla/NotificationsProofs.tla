------------------------ MODULE NotificationsProofs ------------------------
(***************************************************************************)
(* Proofs about Notifications for any number of calls, workers, rows and   *)
(* attempts.  A pending row is accounted for by what is known of the rows  *)
(* a call, a job and a worker point at: they exist, so that no new row     *)
(* takes their place, and a job is completed only once its row was seen    *)
(* not to be pending.                                                      *)
(***************************************************************************)
EXTENDS Notifications, FiniteSetTheorems, TLAPS

Exists(n) == n \in Notifications /\ note[n].status # "ABSENT"
Enqueuing(h) == call[h].pc \in {"audit", "add"}

PointsAtRows ==
    /\ \A h \in Handlers : Enqueuing(h) => Exists(call[h].id)
    /\ \A n \in Notifications : job[n].state # "none" => Exists(n)
    /\ \A w \in Workers : work[w].pc # "idle" => Exists(work[w].id)

\* A worker about to complete its job leaves no pending row it could see.
CompletesSent ==
    \A w \in Workers :
        work[w].pc = "complete" => note[work[w].id].status # "PENDING" \/ work[w].id \in unseen

NoneHidden == policies = "off" => unseen = {}

IInv == TypeOK /\ PointsAtRows /\ CompletesSent /\ PendingAccountedFor /\ NoneHidden

LEMMA InitInvariant == Init => IInv
  <1> SUFFICES ASSUME Init PROVE IInv
    OBVIOUS
  <1>1. TypeOK
    BY DEF Init, TypeOK, Row, NoRow, Job, NoJob, Call, IdleCall, Work, IdleWork
  <1>2. PointsAtRows /\ CompletesSent /\ PendingAccountedFor /\ NoneHidden
    BY DEF Init, PointsAtRows, Enqueuing, CompletesSent, PendingAccountedFor, NoneHidden, NoRow, NoJob,
       IdleCall, IdleWork
  <1>3. QED
    BY <1>1, <1>2 DEF IInv

\* Steps that change calls alone: a call that keeps what it points at.
LEMMA CallMoves ==
    ASSUME IInv, NEW h \in Handlers, NEW c \in Call, call' = [call EXCEPT ![h] = c],
           UNCHANGED <<policies, note, audited, job, work, lost, unseen>>,
           Enqueuing(h) => c.pc \in {"audit", "add"} /\ c.id = call[h].id,
           ~Enqueuing(h) => c.pc \notin {"audit", "add"}
    PROVE  IInv'
  <1>1. TypeOK /\ (\A g \in Handlers \ {h} : call'[g] = call[g]) /\ call'[h] = c
    BY DEF IInv, TypeOK
  <1>2. TypeOK'
    BY <1>1 DEF TypeOK
  <1>3. PointsAtRows'
    BY <1>1 DEF IInv, PointsAtRows, Exists, Enqueuing
  <1>4. CompletesSent'
    BY DEF IInv, CompletesSent
  <1>5. PendingAccountedFor'
    <2>1. ASSUME NEW n \in Notifications, note[n].status = "PENDING",
                 NEW g \in Handlers, Enqueuing(g), call[g].id = n
          PROVE  Enqueuing(g)' /\ call'[g].id = n
      BY <1>1, <2>1 DEF Enqueuing
    <2>2. QED
      BY <2>1 DEF IInv, PendingAccountedFor, Enqueuing
  <1>6. QED
    BY <1>2, <1>3, <1>4, <1>5 DEF IInv, NoneHidden

LEMMA CreateStep ==
    ASSUME IInv, NEW h \in Handlers, Create(h)
    PROVE  IInv'
  <1>1. TypeOK /\ PointsAtRows /\ CompletesSent /\ PendingAccountedFor
    BY DEF IInv
  <1>2. PICK n \in Notifications, t \in Tenants :
          /\ note[n].status = "ABSENT"
          /\ note' = [note EXCEPT ![n] = [status |-> "PENDING", tenant |-> t,
                                          createdAt |-> Cardinality(Existing) + 1]]
          /\ call' = [call EXCEPT ![h] =
               [IdleCall EXCEPT !.pc = "audit", !.tenant = t, !.id = n]]
    <2>1. Existing \subseteq Notifications /\ Existing # Notifications
      BY DEF Create, Existing
    <2>2. FreshId \in Notifications /\ FreshId \notin Existing
      BY <2>1 DEF FreshId
    <2>3. note[FreshId].status = "ABSENT"
      BY <2>2 DEF Existing
    <2>4. Owner[FreshId] \in Tenants
      BY <2>2, OwnerAssumption
    <2>5. QED
      BY <2>2, <2>3, <2>4 DEF Create
  <1>3. n \in Notifications /\ note[n].status = "ABSENT"
    BY <1>2
  <1>4. Cardinality(Existing) \in Nat
    BY FiniteAssumption, FS_Subset, FS_CardinalityType DEF Existing
  <1>5. /\ [IdleCall EXCEPT !.pc = "audit", !.tenant = t, !.id = n] \in Call
        /\ [status |-> "PENDING", tenant |-> t, createdAt |-> Cardinality(Existing) + 1] \in Row
    <2>1. [IdleCall EXCEPT !.pc = "audit", !.tenant = t, !.id = n] \in Call
      BY DEF Call, IdleCall
    <2>2. Cardinality(Existing) + 1 \in Nat
      BY <1>4
    <2>3. QED
      BY <2>1, <2>2 DEF Row
  <1>6. /\ note'[n].status = "PENDING" /\ \A m \in Notifications \ {n} : note'[m] = note[m]
        /\ call'[h].pc = "audit" /\ call'[h].id = n
        /\ \A g \in Handlers \ {h} : call'[g] = call[g]
    BY <1>1, <1>2, <1>3 DEF TypeOK, IdleCall
  <1>7. TypeOK'
    BY <1>1, <1>2, <1>5 DEF TypeOK, Create
  <1>8. ASSUME NEW m, Exists(m) PROVE m # n /\ Exists(m)'
    BY <1>3, <1>6, <1>8 DEF Exists
  <1>9. PointsAtRows'
    <2>1. Exists(n)'
      BY <1>3, <1>6 DEF Exists
    <2>2. QED
      BY <1>1, <1>6, <1>8, <2>1 DEF PointsAtRows, Enqueuing, Create
  <1>10. CompletesSent'
    BY <1>1, <1>6, <1>8 DEF PointsAtRows, CompletesSent, Create, Exists
  <1>11. PendingAccountedFor'
    BY <1>1, <1>6 DEF PendingAccountedFor, Create
  <1>12. QED
    BY <1>7, <1>9, <1>10, <1>11 DEF IInv, NoneHidden, Create

LEMMA AddJobStep ==
    ASSUME IInv, NEW h \in Handlers, AddJob(h)
    PROVE  IInv'
  <1>1. TypeOK /\ PointsAtRows /\ CompletesSent /\ PendingAccountedFor
    BY DEF IInv
  <1>2. Exists(call[h].id) /\ call[h].id \in Notifications
    BY <1>1 DEF PointsAtRows, Enqueuing, AddJob, Exists
  <1>3. [NoJob EXCEPT !.state = "waiting"] \in Job /\ IdleCall \in Call
    BY DEF NoJob, Job, IdleCall, Call
  <1>4. /\ job'[call[h].id].state = "waiting"
        /\ \A m \in Notifications \ {call[h].id} : job'[m] = job[m]
        /\ call'[h] = IdleCall /\ \A g \in Handlers \ {h} : call'[g] = call[g]
    BY <1>1, <1>2 DEF TypeOK, AddJob, NoJob
  <1>5. TypeOK'
    BY <1>1, <1>3 DEF TypeOK, AddJob
  <1>6. PointsAtRows' /\ CompletesSent'
    BY <1>1, <1>2, <1>4 DEF PointsAtRows, CompletesSent, Enqueuing, Exists, AddJob, IdleCall
  <1>7. PendingAccountedFor'
    BY <1>1, <1>4 DEF PendingAccountedFor, AddJob
  <1>8. QED
    BY <1>5, <1>6, <1>7 DEF IInv, NoneHidden, AddJob

\* A row that becomes SENT is nobody's concern, whoever sent it.
LEMMA SentStep ==
    ASSUME IInv, NEW n \in Notifications, Sent(n),
           UNCHANGED <<policies, job, audited, lost, unseen>>,
           call' \in [Handlers -> Call], work' \in [Workers -> Work],
           \A h \in Handlers : /\ Enqueuing(h)' <=> Enqueuing(h)
                               /\ Enqueuing(h) => call'[h].id = call[h].id,
           \A w \in Workers : /\ work'[w].id = work[w].id
                              /\ work[w].pc = "idle" <=> work'[w].pc = "idle"
                              /\ work'[w].pc = "complete" =>
                                    work[w].pc = "complete" \/ work[w].id = n
    PROVE  IInv'
  <1>1. TypeOK /\ PointsAtRows /\ CompletesSent /\ PendingAccountedFor
    BY DEF IInv
  <1>2. note[n] \in Row /\ note' = [note EXCEPT ![n].status = "SENT"]
    BY <1>1 DEF TypeOK, Sent
  <1>3. note'[n].status = "SENT" /\ \A m \in Notifications \ {n} : note'[m] = note[m]
    BY <1>1, <1>2 DEF TypeOK, Row
  <1>4. [note[n] EXCEPT !.status = "SENT"] \in Row
    BY <1>2 DEF Row
  <1>5. TypeOK'
    BY <1>1, <1>2, <1>4 DEF TypeOK
  <1>6. \A m : Exists(m) => Exists(m)'
    BY <1>3 DEF Exists
  <1>7. PointsAtRows'
    BY <1>1, <1>6 DEF PointsAtRows
  <1>8. CompletesSent'
    BY <1>1, <1>3 DEF PointsAtRows, CompletesSent, Exists
  <1>9. PendingAccountedFor'
    BY <1>1, <1>3 DEF PendingAccountedFor, Enqueuing
  <1>10. QED
    BY <1>5, <1>7, <1>8, <1>9 DEF IInv, NoneHidden

LEMMA UpdateNextStep ==
    ASSUME IInv, NEW h \in Handlers, UpdateNext(h)
    PROVE  IInv'
  <1>1. PICK n \in call[h].pending :
          /\ Sent(n)
          /\ call' = [call EXCEPT ![h] =
               IF call[h].pending = {n} THEN IdleCall
               ELSE [call[h] EXCEPT !.pending = @ \ {n}]]
    BY DEF UpdateNext
  <1>2. TypeOK /\ call[h] \in Call /\ n \in Notifications
    BY DEF IInv, TypeOK, Call
  <1>3. IdleCall \in Call /\ [call[h] EXCEPT !.pending = @ \ {n}] \in Call
    BY <1>2 DEF Call, IdleCall
  <1>4. call' \in [Handlers -> Call] /\ call[h].pc = "update"
    <2>1. CASE call[h].pending = {n}
      <3>1. call' = [call EXCEPT ![h] = IdleCall]
        BY <1>1, <2>1
      <3>2. QED
        BY <1>2, <1>3, <3>1 DEF TypeOK, UpdateNext
    <2>2. CASE call[h].pending # {n}
      <3>1. call' = [call EXCEPT ![h] = [call[h] EXCEPT !.pending = @ \ {n}]]
        BY <1>1, <2>2
      <3>2. QED
        BY <1>2, <1>3, <3>1 DEF TypeOK, UpdateNext
    <2>3. QED
      BY <2>1, <2>2
  <1>5. call'[h].pc \in {"idle", "update"} /\ \A g \in Handlers \ {h} : call'[g] = call[g]
    BY <1>1, <1>2, <1>4 DEF TypeOK, Call, IdleCall
  <1>6. \A g \in Handlers : /\ Enqueuing(g)' <=> Enqueuing(g)
                            /\ Enqueuing(g) => call'[g].id = call[g].id
    BY <1>4, <1>5 DEF Enqueuing
  <1>7. UNCHANGED <<policies, job, audited, lost, unseen, work>>
    BY DEF UpdateNext
  <1>8. QED
    BY <1>1, <1>2, <1>4, <1>6, <1>7, SentStep DEF TypeOK

LEMMA FailStep ==
    ASSUME IInv, NEW h \in Handlers, Fail(h)
    PROVE  IInv'
  <1>1. TypeOK /\ PointsAtRows /\ CompletesSent /\ PendingAccountedFor
    BY DEF IInv
  <1>2. IdleCall \in Call /\ call'[h] = IdleCall /\ \A g \in Handlers \ {h} : call'[g] = call[g]
    BY <1>1 DEF TypeOK, Fail, Call, IdleCall
  <1>3. lost' \subseteq Notifications
    BY <1>1 DEF TypeOK, Fail, PointsAtRows, Enqueuing, Exists
  <1>4. TypeOK'
    BY <1>1, <1>2, <1>3 DEF TypeOK, Fail
  <1>5. PointsAtRows' /\ CompletesSent'
    BY <1>1, <1>2 DEF PointsAtRows, CompletesSent, Enqueuing, Exists, Fail, IdleCall
  <1>6. PendingAccountedFor'
    BY <1>1, <1>2 DEF PendingAccountedFor, Fail
  <1>7. QED
    BY <1>4, <1>5, <1>6 DEF IInv, NoneHidden, Fail

\* What a worker and its job become together, as long as the job stays, or
\* its row is not pending or was never seen.
LEMMA JobStep ==
    ASSUME IInv, NEW n \in Notifications, Exists(n), NEW j \in Job,
           job' = [job EXCEPT ![n] = j] \/ job' = job, work' \in [Workers -> Work],
           UNCHANGED <<policies, note, audited, call, lost, unseen>>,
           j.state # "none" \/ note[n].status # "PENDING" \/ n \in unseen \/ job' = job,
           \A w \in Workers : work'[w].pc # "idle" => Exists(work'[w].id),
           \A w \in Workers : work'[w].pc = "complete" =>
                note[work'[w].id].status # "PENDING" \/ work'[w].id \in unseen
    PROVE  IInv'
  <1>1. TypeOK /\ PointsAtRows /\ PendingAccountedFor
    BY DEF IInv
  <1>2. /\ TypeOK'
        /\ job' = job \/ job'[n] = j
        /\ \A m \in Notifications \ {n} : job'[m] = job[m]
    BY <1>1 DEF TypeOK
  <1>3. \A m : Exists(m) => Exists(m)'
    BY DEF Exists
  <1>4. PointsAtRows'
    BY <1>1, <1>2, <1>3 DEF PointsAtRows, Enqueuing
  <1>5. CompletesSent'
    BY DEF CompletesSent
  <1>6. PendingAccountedFor'
    BY <1>1, <1>2 DEF PendingAccountedFor
  <1>7. QED
    BY <1>2, <1>4, <1>5, <1>6 DEF IInv, NoneHidden

LEMMA FailedJobType == FailedJob \in Job /\ FailedJob.state # "none"
  BY DEF FailedJob, NoJob, Job

LEMMA RetriedType ==
    ASSUME NEW j \in Job
    PROVE  Retried(j) \in Job /\ Retried(j).state # "none"
  <1>1. j.attempts + 1 \in Nat
    BY DEF Job
  <1>2. [j EXCEPT !.state = "waiting", !.owner = None, !.attempts = @ + 1] \in Job
    BY <1>1 DEF Job
  <1>3. [j EXCEPT !.state = "waiting", !.owner = None, !.attempts = @ + 1].state = "waiting"
    BY DEF Job
  <1>4. QED
    BY <1>2, <1>3, FailedJobType DEF Retried

LEMMA TakeStep ==
    ASSUME IInv, NEW w \in Workers, Take(w)
    PROVE  IInv'
  <1>1. PICK n \in Notifications :
          /\ job[n].state = "waiting"
          /\ job' = [job EXCEPT ![n].state = "active", ![n].owner = w]
          /\ work' = [work EXCEPT ![w] = [pc |-> "find", id |-> n]]
    BY DEF Take
  <1>2. TypeOK /\ PointsAtRows /\ CompletesSent /\ job[n] \in Job
    BY DEF IInv, TypeOK
  <1> DEFINE j == [job[n] EXCEPT !.state = "active", !.owner = w]
  <1>3. j \in Job /\ j.state = "active" /\ job' = [job EXCEPT ![n] = j]
    BY <1>1, <1>2 DEF Job, TypeOK
  <1>4. Exists(n)
    BY <1>1, <1>2 DEF PointsAtRows
  <1>5. [pc |-> "find", id |-> n] \in Work
    BY DEF Work
  <1>6. /\ work' \in [Workers -> Work] /\ work'[w].pc = "find" /\ work'[w].id = n
        /\ \A v \in Workers \ {w} : work'[v] = work[v]
    BY <1>1, <1>2, <1>5 DEF TypeOK
  <1>7. /\ \A v \in Workers : work'[v].pc # "idle" => Exists(work'[v].id)
        /\ \A v \in Workers : work'[v].pc = "complete" =>
                note[work'[v].id].status # "PENDING" \/ work'[v].id \in unseen
    BY <1>2, <1>4, <1>6 DEF PointsAtRows, CompletesSent
  <1>8. UNCHANGED <<policies, note, audited, call, lost, unseen>>
    BY DEF Take
  <1> HIDE DEF j
  <1>9. QED
    BY <1>3, <1>4, <1>6, <1>7, <1>8, JobStep

LEMMA FindRowStep ==
    ASSUME IInv, NEW w \in Workers, FindRow(w)
    PROVE  IInv'
  <1>1. TypeOK /\ PointsAtRows /\ CompletesSent /\ PendingAccountedFor /\ work[w] \in Work
    BY DEF IInv, TypeOK
  <1>2. PICK n : n = work[w].id
    OBVIOUS
  <1>3. n \in Notifications /\ Exists(n)
    BY <1>1, <1>2 DEF PointsAtRows, Exists, FindRow
  <1>4. PICK pc \in {"update", "complete"} :
          /\ work' = [work EXCEPT ![w].pc = pc]
          /\ pc = "complete" => note[n].status # "PENDING" \/ n \in unseen'
    <2>1. work' = [work EXCEPT ![w].pc =
            IF Sees({}, note[n].tenant) /\ note[n].status = "PENDING" THEN "update" ELSE "complete"]
      BY <1>2 DEF FindRow
    <2>2. unseen' = IF Sees({}, note[n].tenant) THEN unseen ELSE unseen \cup {n}
      BY <1>2 DEF FindRow
    <2>3. QED
      BY <2>1, <2>2
  <1>5. /\ UNCHANGED <<policies, note, audited, job, call, lost>>
        /\ unseen \subseteq unseen' /\ unseen' \subseteq unseen \cup {n}
        /\ policies = "off" => unseen' = unseen
    BY <1>2 DEF FindRow, Sees
  <1>6. /\ [work[w] EXCEPT !.pc = pc] \in Work /\ work' \in [Workers -> Work]
        /\ work'[w].pc = pc /\ work'[w].id = n
        /\ \A v \in Workers \ {w} : work'[v] = work[v]
    BY <1>1, <1>2, <1>4 DEF TypeOK, Work
  <1>7. TypeOK'
    BY <1>1, <1>3, <1>5, <1>6 DEF TypeOK
  <1>8. PointsAtRows'
    BY <1>1, <1>3, <1>5, <1>6 DEF PointsAtRows, Enqueuing, Exists
  <1>9. CompletesSent'
    BY <1>1, <1>4, <1>5, <1>6 DEF CompletesSent
  <1>10. PendingAccountedFor'
    BY <1>1, <1>5 DEF PendingAccountedFor
  <1>11. NoneHidden'
    BY <1>5 DEF IInv, NoneHidden
  <1>12. QED
    BY <1>7, <1>8, <1>9, <1>10, <1>11 DEF IInv

LEMMA UpdateRowStep ==
    ASSUME IInv, NEW w \in Workers, UpdateRow(w)
    PROVE  IInv'
  <1>1. TypeOK /\ PointsAtRows /\ work[w] \in Work
    BY DEF IInv, TypeOK
  <1>2. work[w].id \in Notifications
    BY <1>1 DEF PointsAtRows, Exists, UpdateRow
  <1>3. /\ [work[w] EXCEPT !.pc = "complete"] \in Work /\ work' \in [Workers -> Work]
        /\ work'[w].pc = "complete" /\ work'[w].id = work[w].id /\ work[w].pc = "update"
        /\ \A v \in Workers \ {w} : work'[v] = work[v]
    BY <1>1 DEF TypeOK, Work, UpdateRow
  <1>4. UNCHANGED <<policies, job, audited, lost, unseen, call>> /\ Sent(work[w].id)
    BY DEF UpdateRow
  <1>5. call' \in [Handlers -> Call] /\ \A h \in Handlers : Enqueuing(h)' <=> Enqueuing(h)
    BY <1>1, <1>4 DEF TypeOK, Enqueuing
  <1>6. QED
    BY <1>2, <1>3, <1>4, <1>5, SentStep

\* A worker that stops pointing at its job leaves the others as they were.
LEMMA Idles ==
    ASSUME IInv, NEW w, work' = [work EXCEPT ![w] = IdleWork]
    PROVE  /\ work' \in [Workers -> Work]
           /\ \A v \in Workers : work'[v].pc # "idle" => Exists(work'[v].id)
           /\ \A v \in Workers : work'[v].pc = "complete" =>
                   note[work'[v].id].status # "PENDING" \/ work'[v].id \in unseen
  <1>1. TypeOK /\ PointsAtRows /\ CompletesSent /\ IdleWork \in Work /\ IdleWork.pc = "idle"
    BY DEF IInv, Work, IdleWork
  <1>2. /\ work' \in [Workers -> Work]
        /\ \A v \in Workers : work'[v] = work[v] \/ work'[v] = IdleWork
    BY <1>1 DEF TypeOK
  <1>3. ASSUME NEW v \in Workers, work'[v].pc # "idle" PROVE work'[v] = work[v]
    BY <1>1, <1>2, <1>3
  <1>4. QED
    BY <1>1, <1>2, <1>3 DEF PointsAtRows, CompletesSent

LEMMA CompleteStep ==
    ASSUME IInv, NEW w \in Workers, Complete(w)
    PROVE  IInv'
  <1>1. PointsAtRows /\ CompletesSent /\ work[w].pc = "complete"
    BY DEF IInv, Complete
  <1>2. /\ Exists(work[w].id) /\ work[w].id \in Notifications
        /\ note[work[w].id].status # "PENDING" \/ work[w].id \in unseen
    BY <1>1 DEF PointsAtRows, CompletesSent, Exists
  <1>3. NoJob \in Job /\ (job' = [job EXCEPT ![work[w].id] = NoJob] \/ job' = job)
    BY DEF NoJob, Job, Complete
  <1>4. UNCHANGED <<policies, note, audited, call, lost, unseen>>
        /\ work' = [work EXCEPT ![w] = IdleWork]
    BY DEF Complete
  <1>5. QED
    BY <1>2, <1>3, <1>4, Idles, JobStep

LEMMA ThrowStep ==
    ASSUME IInv, NEW w \in Workers, Throw(w)
    PROVE  IInv'
  <1>1. TypeOK /\ PointsAtRows
    BY DEF IInv
  <1>2. Exists(work[w].id) /\ work[w].id \in Notifications
    BY <1>1 DEF PointsAtRows, Exists, Throw
  <1>3. PICK j \in Job :
          j.state # "none" /\ (job' = [job EXCEPT ![work[w].id] = j] \/ job' = job)
    BY <1>1, <1>2, RetriedType DEF TypeOK, Throw
  <1>4. UNCHANGED <<policies, note, audited, call, lost, unseen>>
        /\ work' = [work EXCEPT ![w] = IdleWork]
    BY DEF Throw
  <1>5. QED
    BY <1>2, <1>3, <1>4, Idles, JobStep

LEMMA StalledType ==
    ASSUME NEW j \in Job
    PROVE  Stalled(j) \in Job /\ Stalled(j).state # "none"
  <1>1. j.stalls + 1 \in Nat
    BY DEF Job
  <1>2. [j EXCEPT !.state = "waiting", !.owner = None, !.stalls = @ + 1] \in Job
    BY <1>1 DEF Job
  <1>3. [j EXCEPT !.state = "waiting", !.owner = None, !.stalls = @ + 1].state = "waiting"
    BY DEF Job
  <1>4. QED
    BY <1>2, <1>3, FailedJobType DEF Stalled

LEMMA StallStep ==
    ASSUME IInv, NEW n \in Notifications, Stall(n)
    PROVE  IInv'
  <1>1. TypeOK /\ PointsAtRows /\ CompletesSent /\ job[n] \in Job /\ job[n].state = "active"
    BY DEF IInv, TypeOK, Stall
  <1>2. Stalled(job[n]) \in Job /\ Stalled(job[n]).state # "none"
    BY <1>1, StalledType
  <1>3. job' = [job EXCEPT ![n] = Stalled(job[n])]
    BY DEF Stall
  <1>4. Exists(n)
    BY <1>1 DEF PointsAtRows
  <1>5. /\ work' \in [Workers -> Work]
        /\ \A v \in Workers : work'[v].pc # "idle" => Exists(work'[v].id)
        /\ \A v \in Workers : work'[v].pc = "complete" =>
                note[work'[v].id].status # "PENDING" \/ work'[v].id \in unseen
    <2>1. CASE UNCHANGED work
      BY <1>1, <2>1 DEF TypeOK, PointsAtRows, CompletesSent
    <2>2. CASE work' = [work EXCEPT ![job[n].owner] = IdleWork]
      BY <2>2, Idles
    <2>3. QED
      BY <2>1, <2>2 DEF Stall
  <1>6. UNCHANGED <<policies, note, audited, call, lost, unseen>>
    BY DEF Stall
  <1>7. QED
    BY <1>1, <1>2, <1>3, <1>4, <1>5, <1>6, JobStep

LEMMA Unchanged ==
    ASSUME IInv, UNCHANGED vars
    PROVE  IInv'
  BY DEF vars, IInv, TypeOK, PointsAtRows, CompletesSent, PendingAccountedFor, NoneHidden,
     Enqueuing, Exists

\* The steps of a call that write no notification and no job.
LEMMA QuietStep ==
    ASSUME IInv, NEW h \in Handlers, Audit(h) \/ \E t \in Tenants : FindPending(h, t)
    PROVE  IInv'
  <1>1. TypeOK /\ call[h] \in Call
    BY DEF IInv, TypeOK
  <1>2. CASE Audit(h)
    <2>1. /\ [call[h] EXCEPT !.pc = "add"] \in Call
          /\ call' = [call EXCEPT ![h].pc = "add"] /\ call[h].pc = "audit"
      BY <1>1, <1>2 DEF Audit, Call
    <2>2. /\ call'[h].pc = "add" /\ call'[h].id = call[h].id
          /\ \A g \in Handlers \ {h} : call'[g] = call[g]
      BY <1>1, <2>1 DEF TypeOK, Call
    <2>3. PointsAtRows /\ call[h].id \in Notifications
      BY <2>1 DEF IInv, PointsAtRows, Enqueuing, Exists
    <2>4. TypeOK'
      BY <1>1, <1>2, <2>1, <2>3 DEF TypeOK, Audit
    <2>5. PointsAtRows' /\ CompletesSent'
      BY <1>2, <2>1, <2>2 DEF IInv, PointsAtRows, CompletesSent, Enqueuing, Exists, Audit
    <2>6. PendingAccountedFor'
      BY <1>2, <2>1, <2>2 DEF IInv, PendingAccountedFor, Audit
    <2>7. QED
      BY <1>2, <2>4, <2>5, <2>6 DEF IInv, NoneHidden, Audit
  <1>3. ASSUME NEW t \in Tenants, FindPending(h, t) PROVE IInv'
    <2> DEFINE c == [IdleCall EXCEPT !.pc = "update", !.tenant = t,
                                     !.pending = Oldest(PendingFor(t))]
    <2>1. Oldest(PendingFor(t)) \subseteq Notifications
      BY DEF Oldest, PendingFor, Pending
    <2>2. c \in Call /\ c.pc = "update" /\ call[h].pc = "idle"
      BY <1>3, <2>1 DEF Call, IdleCall, FindPending
    <2>3. call' = [call EXCEPT ![h] = c] \/ call' = call
      BY <1>3 DEF FindPending
    <2>4. UNCHANGED <<policies, note, audited, job, work, lost, unseen>>
      BY <1>3 DEF FindPending
    <2> HIDE DEF c
    <2>5. CASE call' = [call EXCEPT ![h] = c]
      BY <2>2, <2>4, <2>5, CallMoves DEF Enqueuing
    <2>6. CASE call' = call
      BY <2>4, <2>6, Unchanged DEF vars
    <2>7. QED
      BY <2>3, <2>5, <2>6
  <1>4. QED
    BY <1>2, <1>3

LEMMA InvariantStep == IInv /\ [Next]_vars => IInv'
  <1> SUFFICES ASSUME IInv, [Next]_vars PROVE IInv'
    OBVIOUS
  <1>1. CASE UNCHANGED vars
    BY <1>1, Unchanged
  <1>2. CASE Next
    BY <1>2, CreateStep, AddJobStep, UpdateNextStep, FailStep, TakeStep, FindRowStep,
       UpdateRowStep, CompleteStep, ThrowStep, StallStep, QuietStep
       DEF Next, HandlerStep, WorkerStep
  <1>3. QED
    BY <1>1, <1>2

THEOREM Invariant == Spec => []IInv
  BY InitInvariant, InvariantStep, PTL DEF Spec

\* Rows, jobs, calls and workers keep their types.
THEOREM TypesKept == Spec => []TypeOK
  <1>1. IInv => TypeOK
    BY DEF IInv
  <1>2. QED
    BY <1>1, Invariant, PTL

\* A pending notification is in the queue (also as a failed job) or on its way
\* there, or its enqueue failed, or a worker looked for it and a policy hid it,
\* whatever workers stall and whoever dispatches meanwhile.
THEOREM NoneForgotten == Spec => []PendingAccountedFor
  <1>1. IInv => PendingAccountedFor
    BY DEF IInv
  <1>2. QED
    BY <1>1, Invariant, PTL

\* Where the policies do not bind the role of the worker they hide nothing from
\* processNotification: there the last exception of NoneForgotten is void.
THEOREM WorkerSeesAll == Spec => [](policies = "off" => unseen = {})
  <1>1. IInv => (policies = "off" => unseen = {})
    BY DEF IInv, NoneHidden
  <1>2. QED
    BY <1>1, Invariant, PTL
=============================================================================
