-------------------------- MODULE MCBillingWebhook --------------------------
(* Instances of BillingWebhook for TLC: two changes of a known subscription *)
(* around an event of another type, and events of a second and of an        *)
(* unknown subscription.                                                    *)
EXTENDS BillingWebhook, Sequences, TLC

CONSTANTS s1, s2, s3

updated(s, status, period) ==
    [type |-> "customer.subscription.updated", subscription |-> s,
     status |-> status, period |-> period]
other(s) == [type |-> "other", subscription |-> s, status |-> "active", period |-> 1]

HistoryShort == <<updated(s1, "active", 1), other(s1), updated(s1, "past_due", 1)>>
HistoryLong == <<updated(s1, "active", 1), other(s1), updated(s1, "unpaid", 1),
                 updated(s2, "canceled", 1), updated(s3, "active", 2)>>
=============================================================================
