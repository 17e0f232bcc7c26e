------------------------------- MODULE DagRun -------------------------------
(***************************************************************************)
(* What executing a workflow DAG promises, whatever the implementation:    *)
(* steps get done one by one, none before the steps it depends on; the run *)
(* is reported completed when, and only when, every step is done; it may   *)
(* be reported failed at any time; after either nothing more gets done.    *)
(***************************************************************************)
CONSTANTS
  Steps,
  Deps     \* the steps each step depends on

VARIABLES
  done,    \* the steps whose result is available
  phase    \* "running", "completed" or "failed"

vars == <<done, phase>>

Init == done = {} /\ phase = "running"

Complete(s) ==
  /\ phase = "running"
  /\ Deps[s] \subseteq done
  /\ s \notin done
  /\ done' = done \cup {s}
  /\ UNCHANGED phase

Succeed ==
  /\ phase = "running"
  /\ done = Steps
  /\ phase' = "completed"
  /\ UNCHANGED done

Fail ==
  /\ phase = "running"
  /\ phase' = "failed"
  /\ UNCHANGED done

Next == (\E s \in Steps : Complete(s)) \/ Succeed \/ Fail

Spec == Init /\ [][Next]_vars /\ WF_vars(Next)
=============================================================================
