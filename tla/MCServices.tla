----------------------------- MODULE MCServices -----------------------------
(***************************************************************************)
(* The planning of a DAG, the router of the LLM calls and the services     *)
(* around the engine on small instances.  They share a process and no      *)
(* state, so that a property of one of them does not depend on the others: *)
(* only the one that "which" names moves.  The fairness is the router's;   *)
(* where another one moves, the actions it speaks of are not enabled.      *)
(***************************************************************************)
EXTENDS MCDag, MCLlmRouter, PlanLimits, MCBilling, RefreshTokens, Migrator, StreamQueue

VARIABLE which

MCLimits == [p \in Plans |-> IF p = "pro" THEN 2 ELSE -1]

servicesVars ==
  <<dagVars, routerVars, planVars, billingVars, refreshVars, migratorVars, queueVars>>

ServicesInit ==
  /\ which \in {"dag", "router", "plans", "billing", "tokens", "migrator", "queue"}
  /\ DagInit /\ (which = "dag" \/ dag = <<>>)
  /\ PlanInit /\ (which = "plans" \/ plan = "pro")
  /\ RouterInit /\ BillingInit /\ RefreshInit /\ MigratorInit /\ StreamInit

ServicesNext ==
  /\ UNCHANGED which
  /\ \/ /\ which = "dag" /\ DagNext
        /\ UNCHANGED <<routerVars, planVars, billingVars, refreshVars, migratorVars, queueVars>>
     \/ /\ which = "router" /\ RouterNext
        /\ UNCHANGED <<dagVars, planVars, billingVars, refreshVars, migratorVars, queueVars>>
     \/ /\ which = "plans" /\ PlanNext
        /\ UNCHANGED <<dagVars, routerVars, billingVars, refreshVars, migratorVars, queueVars>>
     \/ /\ which = "billing" /\ BillingNext
        /\ UNCHANGED <<dagVars, routerVars, planVars, refreshVars, migratorVars, queueVars>>
     \/ /\ which = "tokens" /\ RefreshNext
        /\ UNCHANGED <<dagVars, routerVars, planVars, billingVars, migratorVars, queueVars>>
     \/ /\ which = "migrator" /\ MigratorNext
        /\ UNCHANGED <<dagVars, routerVars, planVars, billingVars, refreshVars, queueVars>>
     \/ /\ which = "queue" /\ StreamNext
        /\ UNCHANGED <<dagVars, routerVars, planVars, billingVars, refreshVars, migratorVars>>

ServicesSpec ==
  ServicesInit /\ [][ServicesNext]_<<which, servicesVars>> /\ RouterFairness
=============================================================================
