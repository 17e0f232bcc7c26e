-------------------------------- MODULE Resume --------------------------------
(***************************************************************************)
(* execute_workflow called again for a run whose first execution died with *)
(* its process.  executor.py is written for it ("resume from checkpoint":  *)
(* get_completed_steps and the filter on pending_steps), step by step      *)
(* checkpoints are saved for it, but no caller under backend/app makes the *)
(* second call: CallAgain stands for that external caller.                 *)
(*                                                                         *)
(* Nothing survives the process but the tables.  A step that was cut off   *)
(* gets a second step_executions row: stepRow is the latest one, and no    *)
(* older one can say 'completed', because a completed step is not started  *)
(* again.                                                                  *)
(***************************************************************************)
EXTENDS Executor

CONSTANT MaxDeadLetters   \* bound on the dead letters of a step that is tried again

ASSUME MaxDeadLettersAssumption == MaxDeadLetters \in Nat \ {0}

Die ==
  /\ execPc \notin {"returned", "crashed"}
  /\ execPc' = "crashed"
  /\ stepPc' = [s \in Steps |->
                  IF stepPc[s] \in {"idle", "returned"} THEN stepPc[s] ELSE "crashed"]
  /\ UNCHANGED <<storeVars, stepStatus, attempt, outcome, localStatus, level,
                 completed, verdict>>

(* The caller takes up a run that is not finished, as often as its process
   dies.  The locals of execute_workflow and run_step start afresh.          *)
CallAgain ==
  /\ execPc = "crashed"
  /\ run \in {"pending", "running"}
  /\ \A s \in Steps : deadLetter[s] < MaxDeadLetters
  /\ execPc' = "start"
  /\ localStatus' = "queued"
  /\ level' = 0
  /\ completed' = {}
  /\ stepPc' = [s \in Steps |-> "idle"]
  /\ stepStatus' = [s \in Steps |-> "pending"]
  /\ attempt' = [s \in Steps |-> 0]
  /\ outcome' = [s \in Steps |-> "none"]
  /\ UNCHANGED <<storeVars, verdict>>

ResumeNext == Next \/ Die \/ CallAgain

ResumeSpec == Init /\ [][ResumeNext]_vars

-----------------------------------------------------------------------------

(* A step that was recorded as completed is not executed again by a later
   call, wherever the process died: what it did, and what its agent was paid,
   happens once.                                                             *)
CompletedStepsAreNotRepeated ==
  \A s \in Steps : stepRow[s] = "completed" => stepPc[s] # "insert"

(* executor.py:106 and 111: the input of a step is the workflow input merged
   with the outputs of its dependencies.  The outputs come from the local
   dictionary results, which holds the results of this call only.            *)
DependencyOutputsAreMerged ==
  \A s \in Steps : stepPc[s] = "insert" =>
    \A d \in Deps[s] : outcome[d] \in {"completed", "healed"}
=============================================================================
