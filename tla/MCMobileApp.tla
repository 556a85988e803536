---------------------------- MODULE MCMobileApp ----------------------------
(* Three logins for two tenants, the last without the permission to approve. *)
EXTENDS MobileApp, TLC

CONSTANTS l1, l2, l3

MCTenantOf == [l \in Logins |-> IF l = l2 THEN "t2" ELSE "t1"]

Symmetry == Permutations(Taps)
=============================================================================
