---------------------------- MODULE MCTenantApi ----------------------------
(* Instances of TenantApi for TLC: an owner of one tenant, a member of      *)
(* another who may do less.                                                 *)
EXTENDS TenantApi, TLC

CONSTANTS t1, t2, u1, u2, e1

MCMembers == {<<t1, u1>>, <<t2, u2>>}
MCRights == [m \in MCMembers |->
    IF m[2] = u1 THEN Permissions ELSE {"employee.read", "employee.write", "audit.read"}]
MCImported == {[entity |-> "employee", tenant |-> t2, key |-> e1]}

Symmetry == Permutations(Handlers)
=============================================================================
