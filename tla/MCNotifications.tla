-------------------------- MODULE MCNotifications --------------------------
(* Instances of Notifications for TLC: a row of each of two tenants.         *)
EXTENDS Notifications, TLC

CONSTANTS n1, n2, t1, t2

MCOwner == n1 :> t1 @@ n2 :> t2
=============================================================================
