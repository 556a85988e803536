------------------------ MODULE BillingWebhookProofs ------------------------
(***************************************************************************)
(* Proofs about BillingWebhook for any subscriptions, history of events    *)
(* and number of deliveries at once, repeated or failed.  The invariant    *)
(* says what a delivery has established at each of its awaits, and what a  *)
(* subscription whose deliveries came in turn still has of that.           *)
(***************************************************************************)
EXTENDS BillingWebhook, TLAPS

Of(e) == History[e].subscription
Busy(h) == call[h].pc # "idle"

\* Only what was delivered is applied, and only under its own subscription.
RowsShowApplied ==
    /\ applied \subseteq delivered
    /\ policies # "off" => applied = {}
    /\ \A s \in Known : row[s].lastWebhookEventId # None =>
         row[s].lastWebhookEventId \in applied /\ Of(row[s].lastWebhookEventId) = s

\* What a delivery knows of its event at each await.
Handled(h) == LET c == call[h] IN Busy(h) =>
    /\ c.event \in delivered
    /\ c.pc \in {"current", "update"} => Relevant(c.event)
    /\ c.pc = "update" => policies = "off" /\ Of(c.event) \in Known
    /\ (c.pc = "answer" /\ policies = "off" /\ Relevant(c.event) /\ Of(c.event) \in Known) =>
         c.event \in applied

\* While the deliveries of a subscription come in turn there is one at a time,
\* of the newest event delivered, which the row does not show before its update.
OneInTurn(s) ==
    \A h \in Handlers : Busy(h) /\ Of(call[h].event) = s =>
        /\ \A g \in Handlers : Busy(g) /\ Of(call[g].event) = s => g = h
        /\ \A f \in delivered : Of(f) = s => f <= call[h].event
        /\ call[h].pc \in {"current", "update"} /\ policies = "off" =>
             row[s].lastWebhookEventId # call[h].event

IInv == /\ TypeOK /\ RowsShowApplied /\ NoEventLost
        /\ \A h \in Handlers : Handled(h)
        /\ \A s \in Known \ disordered : OneInTurn(s)

LEMMA EventType ==
    ASSUME NEW e \in Events
    PROVE  /\ e \in Nat \ {0} /\ e # None /\ History[e] \in Event
           /\ Of(e) \in Subscriptions \cup {None}
           /\ Updated(e) \in Row /\ Updated(e).lastWebhookEventId = e
  <1>1. e \in Nat \ {0} /\ e # None /\ History[e] \in Event
    BY HistoryAssumption, NoneAssumption
  <1>2. mapStripeStatus(History[e].status) \in {"ACTIVE", "TRIALING", "CANCELED", "PAST_DUE"}
    BY DEF mapStripeStatus
  <1>3. QED
    BY <1>1, <1>2 DEF Event, Of, Updated, Row

\* Where the policies bind the role a public route sees no row.
LEMMA HiddenRows == policies # "off" => Visible = {}
  BY DEF Visible, Sees, Setting

LEMMA VisibleRows == Visible \subseteq Known
  BY DEF Visible

LEMMA InitInvariant == Init => IInv
  <1> SUFFICES ASSUME Init PROVE IInv
    OBVIOUS
  <1>1. TypeOK
    BY BoundsAssumption DEF Init, TypeOK, Row, Call, Idle
  <1>2. RowsShowApplied /\ NoEventLost
    BY DEF Init, RowsShowApplied, NoEventLost, AnsweredIsApplied
  <1>3. /\ \A h \in Handlers : Handled(h)
        /\ \A s \in Known \ disordered : OneInTurn(s)
    BY DEF Init, Handled, OneInTurn, Busy, Idle
  <1>4. QED
    BY <1>1, <1>2, <1>3 DEF IInv

LEMMA EmitStep ==
    ASSUME IInv, Emit
    PROVE  IInv'
  <1> USE DEF IInv
  <1>1. PICK e \in Events \ emitted : emitted' = emitted \cup {e} /\ pending' = pending \cup {e}
    BY DEF Emit
  <1>2. TypeOK'
    BY <1>1 DEF Emit, TypeOK
  <1>3. RowsShowApplied'
    BY DEF Emit, RowsShowApplied
  <1>4. NoEventLost'
    BY <1>1 DEF Emit, NoEventLost, AnsweredIsApplied
  <1>5. ASSUME NEW h \in Handlers PROVE Handled(h)'
    BY DEF Emit, Handled, Busy
  <1>6. ASSUME NEW s \in Known \ disordered PROVE OneInTurn(s)'
    BY DEF Emit, OneInTurn, Busy
  <1>7. QED
    BY <1>2, <1>3, <1>4, <1>5, <1>6 DEF Emit

LEMMA ReceiveStep ==
    ASSUME IInv, NEW h \in Handlers, NEW e \in Events, Receive(h, e)
    PROVE  IInv'
  <1> USE DEF IInv
  <1>1. /\ call[h].pc = "idle" /\ e \in emitted
        /\ delivered' = delivered \cup {e}
        /\ call' = [call EXCEPT ![h] = [pc |-> "duplicate", event |-> e]]
        /\ UNCHANGED <<policies, row, emitted, pending, failures, applied>>
    BY DEF Receive
  <1>2. TypeOK'
    <2>1. duplicates' \in 0..MaxDuplicates
      BY BoundsAssumption DEF Receive, TypeOK
    <2>2. disordered' \subseteq Subscriptions \cup {None}
      BY EventType DEF Receive, TypeOK, Of
    <2>3. [pc |-> "duplicate", event |-> e] \in Call
      BY DEF Call
    <2>4. QED
      BY <1>1, <2>1, <2>2, <2>3 DEF TypeOK
  <1>3. RowsShowApplied' /\ NoEventLost'
    BY <1>1 DEF RowsShowApplied, NoEventLost, AnsweredIsApplied
  <1>4. /\ call'[h].pc = "duplicate" /\ call'[h].event = e
        /\ \A g \in Handlers \ {h} : call'[g] = call[g]
    BY <1>1 DEF TypeOK
  <1>5. ASSUME NEW g \in Handlers PROVE Handled(g)'
    BY <1>1, <1>4 DEF Handled, Busy
  <1>6. ASSUME NEW s \in Known, s \notin disordered' PROVE OneInTurn(s)'
    <2>1. s \notin disordered /\ OneInTurn(s)
      BY <1>6 DEF Receive
    <2>2. CASE Of(e) # s
      BY <1>1, <1>4, <2>1, <2>2 DEF OneInTurn, Busy
    <2>3. CASE Of(e) = s
      <3>1. InTurn(e)
        BY <1>6, <2>3 DEF Receive, Of
      <3>2. \A g \in Handlers : Busy(g) => Of(call[g].event) # s
        BY <2>3, <3>1 DEF InTurn, SameSubscription, Busy, Of
      <3>3. \A f \in delivered : Of(f) = s => f <= e
        BY <2>3, <3>1, EventType DEF InTurn, SameSubscription, Of, TypeOK
      <3>4. \A g \in Handlers : Busy(g)' /\ Of(call'[g].event) = s => g = h
        BY <1>4, <3>2 DEF Busy
      <3>5. \A f \in delivered' : Of(f) = s => f <= e
        BY <1>1, <3>3, EventType
      <3>6. QED
        BY <1>1, <1>4, <3>4, <3>5 DEF OneInTurn
    <2>4. QED
      BY <2>2, <2>3
  <1>7. QED
    BY <1>2, <1>3, <1>5, <1>6

\* The event of a delivery goes on, or the delivery ends.
LEMMA CallStep ==
    ASSUME IInv, NEW h \in Handlers, Busy(h),
           NEW pc \in {"idle", "duplicate", "current", "update", "answer"},
           \/ call' = [call EXCEPT ![h].pc = pc] /\ pc # "idle"
           \/ call' = [call EXCEPT ![h] = Idle] /\ pc = "idle"
    PROVE  /\ call' \in [Handlers -> Call] /\ call'[h].pc = pc
           /\ pc # "idle" => call'[h].event = call[h].event
           /\ call[h].event \in Events /\ call[h].event \in delivered
           /\ \A g \in Handlers \ {h} : call'[g] = call[g]
  <1>1. call[h] \in Call /\ call \in [Handlers -> Call]
    BY DEF IInv, TypeOK
  <1>2. call[h].event \in delivered /\ call[h].event \in Events
    BY DEF IInv, Handled, TypeOK
  <1>3. CASE call' = [call EXCEPT ![h].pc = pc] /\ pc # "idle"
    BY <1>1, <1>2, <1>3 DEF Call
  <1>4. CASE call' = [call EXCEPT ![h] = Idle] /\ pc = "idle"
    BY <1>1, <1>2, <1>4 DEF Call, Idle
  <1>5. QED
    BY <1>3, <1>4

\* A step that writes no row and answers nothing, from duplicate to current,
\* from current to update, to answer, or to the end of the delivery.
LEMMA ReadStep ==
    ASSUME IInv, NEW h \in Handlers, FindDuplicate(h) \/ FindCurrent(h) \/ Fail(h)
    PROVE  IInv'
  <1> USE DEF IInv
  <1>1. /\ Busy(h)
        /\ UNCHANGED <<policies, row, emitted, pending, delivered, duplicates, applied, disordered>>
    BY DEF FindDuplicate, FindCurrent, Fail, Busy
  <1>2. PICK pc \in {"idle", "current", "update", "answer"} :
          /\ \/ call' = [call EXCEPT ![h].pc = pc] /\ pc # "idle"
             \/ call' = [call EXCEPT ![h] = Idle] /\ pc = "idle"
          /\ pc = "current" => Relevant(call[h].event) /\ ~Duplicate(call[h].event)
          /\ pc = "update" => /\ call[h].pc = "current" /\ Of(call[h].event) \in Visible
          /\ pc = "answer" =>
               \/ call[h].pc = "duplicate"
                  /\ (Duplicate(call[h].event) \/ ~Relevant(call[h].event))
               \/ Of(call[h].event) \notin Visible
    <2>1. CASE FindDuplicate(h)
      BY <2>1 DEF FindDuplicate, Goto
    <2>2. CASE FindCurrent(h)
      BY <2>2 DEF FindCurrent, Goto, Of
    <2>3. CASE Fail(h)
      BY <2>3 DEF Fail
    <2>4. QED
      BY <2>1, <2>2, <2>3
  <1>3. /\ call' \in [Handlers -> Call] /\ call'[h].pc = pc
        /\ pc # "idle" => call'[h].event = call[h].event
        /\ call[h].event \in Events /\ call[h].event \in delivered
        /\ \A g \in Handlers \ {h} : call'[g] = call[g]
    BY <1>1, <1>2, CallStep
  <1>4. TypeOK'
    <2>1. failures' \in 0..MaxFailures
      BY BoundsAssumption DEF FindDuplicate, FindCurrent, Fail, TypeOK
    <2>2. QED
      BY <1>1, <1>3, <2>1 DEF TypeOK
  <1>5. RowsShowApplied' /\ NoEventLost'
    BY <1>1 DEF RowsShowApplied, NoEventLost, AnsweredIsApplied
  <1>6. policies = "off" => Visible = Known
    BY DEF Visible, Sees
  <1>7. Duplicate(call[h].event) => call[h].event \in applied
    BY <1>3, EventType DEF Duplicate, Visible, RowsShowApplied
  <1>8. Handled(h)'
    <2>1. pc = "update" => policies = "off" /\ Of(call[h].event) \in Known /\ Relevant(call[h].event)
      BY <1>1, <1>2, HiddenRows, VisibleRows DEF Handled
    <2>2. QED
      BY <1>1, <1>2, <1>3, <1>6, <1>7, <2>1 DEF Handled, Busy
  <1>9. ASSUME NEW g \in Handlers PROVE Handled(g)'
    <2>1. CASE g # h
      BY <1>1, <1>3, <2>1 DEF Handled, Busy
    <2>2. QED
      BY <1>8, <2>1
  <1>10. ASSUME NEW s \in Known \ disordered PROVE OneInTurn(s)'
    <2>1. OneInTurn(s)
      OBVIOUS
    <2>2. Of(call[h].event) = s /\ policies = "off" /\ pc \in {"current", "update"} =>
            row[s].lastWebhookEventId # call[h].event
      BY <1>1, <1>2, <1>6, <2>1 DEF Duplicate, OneInTurn
    <2>3. \A g \in Handlers : Busy(g)' => Busy(g) /\ call'[g].event = call[g].event
      BY <1>1, <1>3 DEF Busy
    <2>4. QED
      BY <1>1, <1>3, <2>1, <2>2, <2>3 DEF OneInTurn
  <1>11. QED
    BY <1>1, <1>4, <1>5, <1>9, <1>10

LEMMA UpdateStep ==
    ASSUME IInv, NEW h \in Handlers, Update(h)
    PROVE  IInv'
  <1> USE DEF IInv
  <1> DEFINE e == call[h].event
  <1>1. /\ Busy(h) /\ call[h].pc = "update"
        /\ row' = [row EXCEPT ![Of(e)] = Updated(e)] /\ applied' = applied \cup {e}
        /\ call' = [call EXCEPT ![h].pc = "answer"]
        /\ UNCHANGED <<policies, emitted, pending, delivered, duplicates, failures, disordered>>
    BY DEF Update, Busy, Goto, Of
  <1>2. /\ call' \in [Handlers -> Call] /\ call'[h].pc = "answer" /\ call'[h].event = e
        /\ e \in Events /\ e \in delivered
        /\ \A g \in Handlers \ {h} : call'[g] = call[g]
    BY <1>1, CallStep
  <1>3. policies = "off" /\ Of(e) \in Known
    BY <1>1 DEF Handled
  <1> HIDE DEF e
  <1>4. Updated(e) \in Row /\ Updated(e).lastWebhookEventId = e
    BY <1>2, EventType
  <1>5. TypeOK'
    BY <1>1, <1>2, <1>3, <1>4 DEF TypeOK
  <1>6. \A s \in Known : row'[s] = IF s = Of(e) THEN Updated(e) ELSE row[s]
    BY <1>1 DEF TypeOK
  <1>7. RowsShowApplied'
    BY <1>1, <1>2, <1>3, <1>4, <1>6 DEF RowsShowApplied
  <1>8. NoEventLost'
    BY <1>1, <1>3 DEF NoEventLost, AnsweredIsApplied
  <1>9. ASSUME NEW g \in Handlers PROVE Handled(g)'
    <2>1. CASE g = h
      BY <1>1, <1>2, <2>1 DEF Handled
    <2>2. CASE g # h
      BY <1>1, <1>2, <2>2 DEF Handled, Busy
    <2>3. QED
      BY <2>1, <2>2
  <1>10. ASSUME NEW s \in Known \ disordered PROVE OneInTurn(s)'
    <2>1. OneInTurn(s)
      OBVIOUS
    <2>2. \A g \in Handlers : Busy(g)' => Busy(g) /\ call'[g].event = call[g].event
      BY <1>1, <1>2 DEF Busy, e
    <2>3. CASE Of(e) # s
      BY <1>1, <1>2, <1>6, <2>1, <2>2, <2>3 DEF OneInTurn
    <2>4. CASE Of(e) = s
      <3>1. \A g \in Handlers : Busy(g) /\ Of(call[g].event) = s => g = h
        BY <1>1, <2>1, <2>4 DEF OneInTurn, e
      <3>2. QED
        BY <1>1, <1>2, <2>1, <2>2, <3>1 DEF OneInTurn
    <2>5. QED
      BY <2>3, <2>4
  <1>11. QED
    BY <1>1, <1>5, <1>7, <1>8, <1>9, <1>10

LEMMA AnswerStep ==
    ASSUME IInv, NEW h \in Handlers, Answer(h)
    PROVE  IInv'
  <1> USE DEF IInv
  <1>1. /\ Busy(h) /\ call[h].pc = "answer"
        /\ pending' = pending \ {call[h].event}
        /\ call' = [call EXCEPT ![h] = Idle]
        /\ UNCHANGED <<policies, row, emitted, delivered, duplicates, failures, applied, disordered>>
    BY DEF Answer, Busy
  <1>2. /\ call' \in [Handlers -> Call] /\ call'[h].pc = "idle"
        /\ \A g \in Handlers \ {h} : call'[g] = call[g]
    BY <1>1, CallStep
  <1>3. TypeOK' /\ RowsShowApplied'
    BY <1>1, <1>2 DEF TypeOK, RowsShowApplied
  <1>4. NoEventLost'
    BY <1>1 DEF NoEventLost, AnsweredIsApplied, Handled, Of
  <1>5. \A g \in Handlers : Busy(g)' => Busy(g) /\ call'[g] = call[g]
    BY <1>1, <1>2 DEF Busy
  <1>6. ASSUME NEW g \in Handlers PROVE Handled(g)'
    BY <1>1, <1>5 DEF Handled, Busy
  <1>7. ASSUME NEW s \in Known \ disordered PROVE OneInTurn(s)'
    BY <1>1, <1>5 DEF OneInTurn
  <1>8. QED
    BY <1>1, <1>3, <1>4, <1>6, <1>7

LEMMA InvariantStep == IInv /\ [Next]_vars => IInv'
  <1>1. ASSUME IInv, Next PROVE IInv'
    BY <1>1, EmitStep, ReceiveStep, ReadStep, UpdateStep, AnswerStep DEF Next, Step
  <1>2. ASSUME IInv, UNCHANGED vars PROVE IInv'
    BY <1>2 DEF vars, IInv, TypeOK, RowsShowApplied, NoEventLost, AnsweredIsApplied, Handled, OneInTurn, Busy
  <1>3. QED
    BY <1>1, <1>2

\* The invariant holds however Stripe delivers.
THEOREM Invariant == Spec => []IInv
  BY InitInvariant, InvariantStep, PTL DEF Spec

\* Rows, deliveries and Stripe's books keep their types.
THEOREM TypesKept == Spec => []TypeOK
  <1>1. IInv => TypeOK
    BY DEF IInv
  <1>2. QED
    BY <1>1, Invariant, PTL

\* No early answer of handleStripeWebhook drops a change of a known
\* subscription where the policies do not bind the role.
THEOREM EventsKept == Spec => []NoEventLost
  <1>1. IInv => NoEventLost
    BY DEF IInv
  <1>2. QED
    BY <1>1, Invariant, PTL

\* Where the policies bind the role the webhook applies nothing at all: its
\* lookups run before a tenant is set, against backend/README.md:14.
THEOREM BoundAppliesNothing == Spec => [](policies # "off" => applied = {})
  <1>1. IInv => (policies # "off" => applied = {})
    BY DEF IInv, RowsShowApplied
  <1>2. QED
    BY <1>1, Invariant, PTL

\* A subscription whose deliveries come in turn never goes back, nor is the
\* event it shows applied again, whatever becomes of other subscriptions.
THEOREM InTurnNeverRegresses == Spec => NeverRegresses
  <1> DEFINE Ahead == \A s \in Known \ disordered :
         /\ Shown(row'[s]) >= Shown(row[s])
         /\ \A h \in Handlers : Update(h) /\ History[call[h].event].subscription = s =>
              call[h].event # Shown(row[s])
  <1>1. ASSUME IInv, [Next]_vars, NEW s \in Known \ disordered
        PROVE  Shown(row[s]) \in Nat
    BY <1>1, EventType DEF IInv, TypeOK, Row, Shown
  <1>2. ASSUME IInv, NEW h \in Handlers, Update(h), NEW s \in Known \ disordered
        PROVE  /\ Shown(row'[s]) >= Shown(row[s])
               /\ Of(call[h].event) = s => call[h].event # Shown(row[s])
    <2>1. Shown(row[s]) \in Nat
      BY <1>1, <1>2 DEF Next, Step
    <2>2. /\ Busy(h) /\ call[h].pc = "update" /\ call[h].event \in Events
          /\ Handled(h) /\ OneInTurn(s)
          /\ row' = [row EXCEPT ![Of(call[h].event)] = Updated(call[h].event)]
      BY <1>2 DEF Update, Busy, IInv, Handled, TypeOK, Of
    <2>3. CASE Of(call[h].event) # s
      BY <1>2, <2>1, <2>2, <2>3 DEF IInv, TypeOK
    <2>4. CASE Of(call[h].event) = s
      <3>1. Shown(row'[s]) = call[h].event /\ call[h].event \in Nat \ {0}
        BY <1>2, <2>2, <2>4, EventType DEF IInv, TypeOK, Shown
      <3>2. row[s].lastWebhookEventId # None => row[s].lastWebhookEventId <= call[h].event
        BY <1>2, <2>2, <2>4 DEF IInv, RowsShowApplied, OneInTurn
      <3>3. row[s].lastWebhookEventId # call[h].event
        BY <2>2, <2>4 DEF OneInTurn, Handled
      <3>4. QED
        BY <2>1, <3>1, <3>2, <3>3 DEF Shown
    <2>5. QED
      BY <2>3, <2>4
  <1>3. ASSUME IInv, [Next]_vars PROVE Ahead
    <2>1. CASE \E h \in Handlers : Update(h)
      <3>1. PICK h \in Handlers : Update(h)
        BY <2>1
      <3>2. QED
        BY <1>2, <1>3, <3>1 DEF Of
    <2>2. CASE ~\E h \in Handlers : Update(h)
      <3>1. row' = row
        BY <1>3, <2>2 DEF Next, Step, vars, Emit, Receive, FindDuplicate, FindCurrent, Answer, Fail
      <3>2. QED
        BY <1>1, <1>3, <2>2, <3>1
    <2>3. QED
      BY <2>1, <2>2
  <1>4. IInv /\ [Next]_vars => [Ahead]_vars
    BY <1>3
  <1>5. QED
    BY <1>4, Invariant, PTL DEF Spec, NeverRegresses
=============================================================================
