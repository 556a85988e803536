--------------------------- MODULE BillingWebhook ---------------------------
(***************************************************************************)
(* POST /billing/webhook: BillingWebhookService copies the subscription    *)
(* events of Stripe into the Subscription table.  Stripe delivers every    *)
(* event at least once, in any order, again until it is answered 200, and  *)
(* sometimes again after that; deliveries are handled concurrently.  The   *)
(* only memory of what was handled is lastWebhookEventId of each row.  The  *)
(* route is public: no guard enters a tenant for its queries.              *)
(***************************************************************************)
EXTENDS RowSecurity, Naturals

CONSTANTS
    Handlers,       \* deliveries being handled at the same time
    Subscriptions,  \* Stripe subscription ids events may name
    Known,          \* those with a Subscription row
    History,        \* the events of the account, in the order they happen
    MaxDuplicates,  \* bound on deliveries of what was already answered
    MaxFailures,    \* bound on deliveries that fail (error, crash, lost answer)
    None            \* null

Events == DOMAIN History
RawStatuses == {"active", "trialing", "canceled", "cancelled", "past_due", "unpaid"}
Event == [type : {"customer.subscription.updated", "other"},
          subscription : Subscriptions \cup {None},
          status : RawStatuses,
          period : Nat]     \* current_period_start and _end, 0 when missing

ASSUME KnownAssumption == Known \subseteq Subscriptions
ASSUME HistoryAssumption ==
    /\ Events \subseteq Nat \ {0}
    /\ History \in [Events -> Event]
ASSUME BoundsAssumption ==
    MaxDuplicates \in Nat /\ MaxFailures \in Nat
ASSUME NoneAssumption == None \notin Subscriptions /\ None \notin Nat

VARIABLES
    row,        \* table Subscription
    call,       \* what each handler is doing
    emitted,    \* the events that have happened
    pending,    \* those Stripe has not been answered 200 for
    delivered,  \* those delivered at least once
    duplicates, \* deliveries so far of events already answered
    failures,   \* deliveries that failed so far
    applied,    \* history: the events written to a row
    disordered  \* history: the subscriptions with a delivery out of turn

vars == <<policies, row, call, emitted, pending, delivered, duplicates, failures,
          applied, disordered>>

Row == [status : {"ACTIVE", "TRIALING", "CANCELED", "PAST_DUE"}, period : Nat,
        lastWebhookEventId : Events \cup {None}]
Call == [pc : {"idle", "duplicate", "current", "update", "answer"},
         event : Events \cup {None}]
Idle == [pc |-> "idle", event |-> None]

Goto(h, pc) == call' = [call EXCEPT ![h].pc = pc]

\* Mutant of mapStripeStatus: Stripe's own word is stored.
statusAsIs(status) == status

mapStripeStatus(status) ==
    CASE status = "active" -> "ACTIVE"
      [] status = "trialing" -> "TRIALING"
      [] status \in {"canceled", "cancelled"} -> "CANCELED"
      [] OTHER -> "PAST_DUE"

\* The events the handler acts on at all.
Relevant(e) ==
    /\ History[e].type = "customer.subscription.updated"
    /\ History[e].subscription # None

----------------------------------------------------------------------------
\* Stripe

Emit ==
    /\ \E e \in Events \ emitted :
        /\ \A f \in Events : f < e => f \in emitted
        /\ emitted' = emitted \cup {e}
        /\ pending' = pending \cup {e}
    /\ UNCHANGED <<policies, row, call, delivered, duplicates, failures, applied, disordered>>

SameSubscription(e, f) == History[e].subscription = History[f].subscription

\* Of e's subscription, nothing before e is unanswered, nothing after it
\* was delivered, and no other delivery is being handled.
InTurn(e) ==
    /\ \A f \in emitted : SameSubscription(e, f) =>
         /\ f < e => f \notin pending
         /\ f > e => f \notin delivered
    /\ \A h \in Handlers : call[h].pc # "idle" => ~SameSubscription(e, call[h].event)

----------------------------------------------------------------------------
\* handleStripeWebhook

\* A delivery arrives with a body, a valid signature, JSON and an event id:
\* those of Stripe have them, any other is refused before the first await.
Receive(h, e) ==
    /\ call[h].pc = "idle"
    /\ e \in emitted
    /\ e \notin pending => duplicates < MaxDuplicates
    /\ duplicates' = IF e \in pending THEN duplicates ELSE duplicates + 1
    /\ delivered' = delivered \cup {e}
    /\ call' = [call EXCEPT ![h] = [pc |-> "duplicate", event |-> e]]
    /\ disordered' = IF InTurn(e) THEN disordered ELSE disordered \cup {History[e].subscription}
    /\ UNCHANGED <<policies, row, emitted, pending, failures, applied>>

\* Mutants of Duplicate: any event recorded for the subscription will do; none will.
DuplicateOfAny(e) == \E s \in Known :
    s = History[e].subscription /\ row[s].lastWebhookEventId # None
DuplicateNever(e) == FALSE

\* The rows the lookups see; they run before the tenant is known, which then
\* makes no difference.
Visible == {s \in Known : Sees({}, s)}

\* findFirst({lastWebhookEventId}): the last event of some subscription.
Duplicate(e) == \E s \in Visible : row[s].lastWebhookEventId = e

FindDuplicate(h) ==
    /\ call[h].pc = "duplicate"
    /\ Goto(h, IF ~Duplicate(call[h].event) /\ Relevant(call[h].event)
                 THEN "current" ELSE "answer")
    /\ UNCHANGED <<policies, row, emitted, pending, delivered, duplicates, failures, applied, disordered>>

\* Mutant of FindCurrent: an unknown subscription is an error.
FindCurrentOrThrow(h) ==
    /\ call[h].pc = "current"
    /\ IF History[call[h].event].subscription \in Visible
         THEN Goto(h, "update") ELSE call' = [call EXCEPT ![h] = Idle]
    /\ UNCHANGED <<policies, row, emitted, pending, delivered, duplicates, failures, applied, disordered>>

\* findFirst({providerSubscriptionId}): an unknown subscription is answered 200.
FindCurrent(h) ==
    /\ call[h].pc = "current"
    /\ Goto(h, IF History[call[h].event].subscription \in Visible THEN "update" ELSE "answer")
    /\ UNCHANGED <<policies, row, emitted, pending, delivered, duplicates, failures, applied, disordered>>

\* What updateMany writes, in one transaction.
Updated(e) == [status |-> mapStripeStatus(History[e].status),
               period |-> History[e].period,
               lastWebhookEventId |-> e]

\* Mutant of Update: updateMany without the subscription id.
UpdateAll(h) ==
    /\ call[h].pc = "update"
    /\ row' = [s \in Known |-> Updated(call[h].event)]
    /\ applied' = applied \cup {call[h].event}
    /\ Goto(h, "answer")
    /\ UNCHANGED <<policies, emitted, pending, delivered, duplicates, failures, disordered>>

\* The transaction sets the tenant of the row that was found before it writes.
Update(h) ==
    /\ call[h].pc = "update"
    /\ row' = [row EXCEPT ![History[call[h].event].subscription] = Updated(call[h].event)]
    /\ applied' = applied \cup {call[h].event}
    /\ Goto(h, "answer")
    /\ UNCHANGED <<policies, emitted, pending, delivered, duplicates, failures, disordered>>

\* {received: true} reaches Stripe, which stops retrying.
Answer(h) ==
    /\ call[h].pc = "answer"
    /\ pending' = pending \ {call[h].event}
    /\ call' = [call EXCEPT ![h] = Idle]
    /\ UNCHANGED <<policies, row, emitted, delivered, duplicates, failures, applied, disordered>>

\* The await rejects, the process stops or the answer is lost: Stripe will
\* deliver again what it was not answered.
Fail(h) ==
    /\ failures < MaxFailures /\ call[h].pc # "idle"
    /\ failures' = failures + 1
    /\ call' = [call EXCEPT ![h] = Idle]
    /\ UNCHANGED <<policies, row, emitted, pending, delivered, duplicates, applied, disordered>>

\* The rows were created with the subscriptions, before their first event.
Init ==
    /\ policies \in Deployments
    /\ row = [s \in Known |-> [status |-> "TRIALING", period |-> 0, lastWebhookEventId |-> None]]
    /\ call = [h \in Handlers |-> Idle]
    /\ emitted = {} /\ pending = {} /\ delivered = {} /\ applied = {}
    /\ disordered = {}
    /\ duplicates = 0 /\ failures = 0

Step(h) == FindDuplicate(h) \/ FindCurrent(h) \/ Update(h) \/ Answer(h)

Next ==
    \/ Emit
    \/ \E h \in Handlers : Step(h) \/ Fail(h) \/ \E e \in Events : Receive(h, e)

Spec == Init /\ [][Next]_vars

\* Stripe delivers what is pending and the event loop runs what is ready.
Fairness ==
    /\ WF_vars(Emit)
    /\ WF_vars(\E h \in Handlers, e \in pending : Receive(h, e))
    /\ \A h \in Handlers : WF_vars(Step(h))
FairSpec == Spec /\ Fairness

----------------------------------------------------------------------------
\* Properties

TypeOK ==
    /\ policies \in Deployments
    /\ row \in [Known -> Row]
    /\ call \in [Handlers -> Call]
    /\ emitted \subseteq Events
    /\ pending \subseteq emitted /\ delivered \subseteq emitted /\ applied \subseteq emitted
    /\ duplicates \in 0..MaxDuplicates /\ failures \in 0..MaxFailures
    /\ disordered \subseteq Subscriptions \cup {None}

\* An event that was answered 200 has been written to its row, if it has one:
\* the update of the subscription that backend/README.md:14 promises, in a
\* transaction that sets the tenant for the policies.  Where they bind the role
\* the lookups before that transaction see no row, and every change is dropped.
AnsweredIsApplied ==
    \A e \in emitted \ pending :
        Relevant(e) /\ History[e].subscription \in Known => e \in applied

\* Where the policies do not bind the role, that promise is kept whatever
\* concurrent or repeated deliveries and failures do: an early answer
\* (duplicate, irrelevant, unknown) never drops a change.
NoEventLost == policies = "off" => AnsweredIsApplied

\* An event is applied once.
AppliedOnce == [][\A h \in Handlers : Update(h) => call[h].event \notin applied]_vars

Shown(r) == IF r.lastWebhookEventId = None THEN 0 ELSE r.lastWebhookEventId

\* While a subscription's events arrive in turn its row never goes back to
\* an earlier one, nor is the one it shows applied again, although deliveries
\* fail and are repeated, and whatever happens to other subscriptions meanwhile.
NeverRegresses ==
    [][\A s \in Known \ disordered :
         /\ Shown(row'[s]) >= Shown(row[s])
         /\ \A h \in Handlers : Update(h) /\ History[call[h].event].subscription = s =>
              call[h].event # Shown(row[s])]_vars

Latest(s) == {e \in Events :
    /\ Relevant(e) /\ History[e].subscription = s
    /\ \A f \in Events : Relevant(f) /\ History[f].subscription = s => f <= e}

\* Every event is answered in the end, in whatever order deliveries come, and
\* every row whose events arrived in turn is at the last state Stripe
\* reported, unless the policies bind the role.
Converges ==
    <>[](/\ emitted = Events /\ pending = {}
         /\ policies = "off" => \A s \in Known \ disordered : \A e \in Latest(s) : row[s] = Updated(e))
=============================================================================
