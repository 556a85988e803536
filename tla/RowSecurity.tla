----------------------------- MODULE RowSecurity -----------------------------
(***************************************************************************)
(* What PostgreSQL lets a query of the back end touch.  rls.sql puts one   *)
(* policy on each of nine tables: the tenant of a row must be the setting  *)
(* app.current_tenant.  The extension of PrismaService makes that setting  *)
(* from an AsyncLocalStorage, which TenantContextGuard fills.  A role that *)
(* owns the tables is not bound by their policies, since rls.sql does not  *)
(* force them, and a guard that runs after an awaited guard fills the      *)
(* storage of a context the handler may not inherit; so all three          *)
(* deployments below are considered.                                       *)
(***************************************************************************)
VARIABLE policies   \* how the deployment applies the policies; never changes

Deployments == {"off",      \* the role of the application is not bound by them
                "entered",  \* bound, and what the guard entered reaches the handler
                "absent"}   \* bound, and it does not

\* The setting of a query, as a set of at most one tenant: what the guard
\* entered, and nothing on a route or in a process without that guard.
Setting(entered) == IF policies = "absent" THEN {} ELSE entered

\* Mutant of Sees: the policy lets a query without a setting see every row.
SeesWithoutSetting(entered, tenant) ==
    policies # "off" => Setting(entered) \subseteq {tenant}

\* The policy of each table, for the rows a query reads or writes.
Sees(entered, tenant) == policies # "off" => tenant \in Setting(entered)
=============================================================================
