---------------------------- MODULE StateMachine ----------------------------
(***************************************************************************)
(* The transition tables of backend/app/engine/state_machine.py.           *)
(*                                                                         *)
(* transition_workflow and transition_step return the target when it is in *)
(* the list of the current state and raise InvalidTransitionError when it  *)
(* is not.  Callers below use the two Can... predicates: an action whose   *)
(* code calls transition_x without expecting a refusal has the predicate   *)
(* as a guard, so that a refusal nobody handles shows up as a deadlock;    *)
(* where the code can really be refused the exception is a disjunct.       *)
(***************************************************************************)

WorkflowState ==
  {"pending", "queued", "running", "completed", "failed", "cancelled"}

StepState ==
  {"pending", "running", "completed", "failed", "skipped", "retrying"}

(* The pairs <<current, target>> listed in VALID_WORKFLOW_TRANSITIONS.     *)
VALID_WORKFLOW_TRANSITIONS ==
  {<<"pending", "queued">>,    <<"pending", "cancelled">>,
   <<"queued", "running">>,    <<"queued", "cancelled">>,  <<"queued", "failed">>,
   <<"running", "completed">>, <<"running", "failed">>,    <<"running", "cancelled">>,
   <<"failed", "queued">>}

(* The pairs <<current, target>> listed in VALID_STEP_TRANSITIONS.         *)
VALID_STEP_TRANSITIONS ==
  {<<"pending", "running">>,  <<"pending", "skipped">>,
   <<"running", "completed">>, <<"running", "failed">>, <<"running", "retrying">>,
   <<"failed", "retrying">>,  <<"failed", "pending">>,
   <<"retrying", "running">>}

CanTransitionWorkflow(current, target) ==
  <<current, target>> \in VALID_WORKFLOW_TRANSITIONS

CanTransitionStep(current, target) ==
  <<current, target>> \in VALID_STEP_TRANSITIONS
=============================================================================
