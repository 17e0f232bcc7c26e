----------------------------- MODULE StepRunner -----------------------------
(***************************************************************************)
(* run_step of backend/app/engine/step_runner.py: one call per step of the *)
(* DAG, each a coroutine of its own that yields at every await.  stepPc is *)
(* the await a call is suspended at; the synchronous code up to the next   *)
(* await belongs to the action that leaves it.                             *)
(*                                                                         *)
(*   insert          INSERT INTO step_executions ... 'running'             *)
(*   attempt         agent.run                                             *)
(*   write_completed UPDATE step_executions SET status = 'completed'       *)
(*   checkpoint      save_checkpoint(... "completed")                      *)
(*   mark_retrying   UPDATE step_executions SET status = 'retrying'        *)
(*   backoff         policy.wait                                           *)
(*   heal            SelfHealer().attempt_heal                             *)
(*   write_healed    UPDATE ... 'completed', error_message 'healed via'    *)
(*   heal_checkpoint save_checkpoint(... "healed")                         *)
(*   write_failed    UPDATE step_executions SET status = 'failed'          *)
(*   dead_letter     INSERT INTO dead_letters                              *)
(*                                                                         *)
(* outcome is what the caller gets: the "status" of the returned dict, or  *)
(* "exception" when run_step raises.  The tracker calls in between are     *)
(* wrapped by SafeExecutionTracker, which swallows every exception, and    *)
(* touch none of these tables.                                             *)
(***************************************************************************)
EXTENDS RunStore

CONSTANT RetryMax   \* step.retry_max

ASSUME RetryMaxAssumption == RetryMax \in Nat

VARIABLES
  stepPc,      \* where the call of run_step for the step is suspended
  stepStatus,  \* its local current_step_status
  attempt,     \* its loop variable
  outcome      \* what it returned

stepVars == <<stepPc, stepStatus, attempt, outcome>>

StepPc ==
  {"idle", "insert", "attempt", "write_completed", "checkpoint",
   "mark_retrying", "backoff", "heal", "write_healed", "heal_checkpoint",
   "write_failed", "dead_letter", "returned", "crashed"}

Outcome == {"none", "completed", "healed", "failed", "exception"}

StepTypeOK ==
  /\ stepPc \in [Steps -> StepPc]
  /\ stepStatus \in [Steps -> StepState]
  /\ attempt \in [Steps -> 0 .. RetryMax]
  /\ outcome \in [Steps -> Outcome]

StepInit ==
  /\ stepPc = [s \in Steps |-> "idle"]
  /\ stepStatus = [s \in Steps |-> "pending"]
  /\ attempt = [s \in Steps |-> 0]
  /\ outcome = [s \in Steps |-> "none"]

Goto(s, pc) == stepPc' = [stepPc EXCEPT ![s] = pc] /\ UNCHANGED outcome

Return(s, o) ==
  /\ stepPc' = [stepPc EXCEPT ![s] = "returned"]
  /\ outcome' = [outcome EXCEPT ![s] = o]

(* Mutant: the status is assigned without asking transition_step.            *)
TransitionUnchecked(s, target) ==
  stepStatus' = [stepStatus EXCEPT ![s] = target]

(* transition_step, where the code relies on it being legal.                 *)
Transition(s, target) ==
  /\ CanTransitionStep(stepStatus[s], target)
  /\ stepStatus' = [stepStatus EXCEPT ![s] = target]

(* RetryPolicy.should_retry; permanent stands for an error whose text names
   validation, unauthorized, forbidden or invalid.                           *)
ShouldRetry(s, permanent) == attempt[s] < RetryMax /\ ~permanent

(* The except block of the retry loop.  The error may reach it with the local
   status already at "completed", when it is not the agent that failed but the
   bookkeeping after it: transition_step then refuses and run_step raises.   *)
HandleError(s, permanent) ==
  \/ /\ ShouldRetry(s, permanent)
     /\ Transition(s, "retrying")
     /\ Goto(s, "mark_retrying")
  \/ /\ ShouldRetry(s, permanent)
     /\ ~CanTransitionStep(stepStatus[s], "retrying")
     /\ Return(s, "exception")
     /\ UNCHANGED stepStatus
  \/ /\ ~ShouldRetry(s, permanent)
     /\ Goto(s, "heal")
     /\ UNCHANGED stepStatus

-----------------------------------------------------------------------------

(* The step becomes RUNNING locally and its row is inserted.                 *)
InsertRow(s) ==
  /\ stepPc[s] = "insert"
  /\ Transition(s, "running")
  /\ \/ InsertStep(s) /\ Goto(s, "attempt") /\ UNCHANGED dbErrors
     \/ /\ StatementFails(s)
        /\ InsertStep(s) \/ UNCHANGED stepRow
        /\ Return(s, "exception")
     \/ ForeignKeyRefuses(s) /\ Return(s, "exception") /\ UNCHANGED stepRow
  /\ UNCHANGED <<run, checkpoint, deadLetter, stats, attempt>>

(* agent.run returns: running -> completed, before anything is written.      *)
AgentSucceeds(s) ==
  /\ stepPc[s] = "attempt"
  /\ Transition(s, "completed")
  /\ Goto(s, "write_completed")
  /\ UNCHANGED <<storeVars, attempt>>

(* agent.run (or get_agent) raises.                                          *)
AgentFails(s) ==
  /\ stepPc[s] = "attempt"
  /\ \E permanent \in BOOLEAN : HandleError(s, permanent)
  /\ UNCHANGED <<storeVars, attempt>>

(* A failure here is also the json.dumps of an output that is not JSON.      *)
WriteCompleted(s) ==
  /\ stepPc[s] = "write_completed"
  /\ \/ /\ UpdateStep(s, "completed")
        /\ Goto(s, "checkpoint")
        /\ UNCHANGED <<dbErrors, stepStatus>>
     \/ /\ StatementFails(s)
        /\ UpdateStep(s, "completed") \/ UNCHANGED stepRow
        /\ \E permanent \in BOOLEAN : HandleError(s, permanent)
  /\ UNCHANGED <<run, checkpoint, deadLetter, stats, attempt>>

(* Mutant: a checkpoint that cannot be saved is ignored.                     *)
SaveCheckpointBestEffort(s) ==
  /\ stepPc[s] = "checkpoint"
  /\ UpsertCheckpoint(s, "completed") \/ UNCHANGED checkpoint
  /\ Return(s, "completed")
  /\ UNCHANGED <<run, stepRow, deadLetter, stats, dbErrors, attempt, stepStatus>>

SaveCheckpoint(s) ==
  /\ stepPc[s] = "checkpoint"
  /\ \/ /\ UpsertCheckpoint(s, "completed")
        /\ Return(s, "completed")
        /\ UNCHANGED <<dbErrors, stepStatus>>
     \/ /\ StatementFails(s)
        /\ UpsertCheckpoint(s, "completed") \/ UNCHANGED checkpoint
        /\ \E permanent \in BOOLEAN : HandleError(s, permanent)
     \/ /\ ForeignKeyRefuses(s)
        /\ UNCHANGED checkpoint
        /\ \E permanent \in BOOLEAN : HandleError(s, permanent)
  /\ UNCHANGED <<run, stepRow, deadLetter, stats, attempt>>

(* Inside the except block: an exception here leaves run_step.               *)
MarkRetrying(s) ==
  /\ stepPc[s] = "mark_retrying"
  /\ \/ UpdateStep(s, "retrying") /\ Goto(s, "backoff") /\ UNCHANGED dbErrors
     \/ /\ StatementFails(s)
        /\ UpdateStep(s, "retrying") \/ UNCHANGED stepRow
        /\ Return(s, "exception")
  /\ UNCHANGED <<run, checkpoint, deadLetter, stats, attempt, stepStatus>>

(* Mutant: the normalisation retrying -> running is missing.                 *)
BackoffStillRetrying(s) ==
  /\ stepPc[s] = "backoff"
  /\ attempt' = [attempt EXCEPT ![s] = @ + 1]
  /\ Goto(s, "attempt")
  /\ UNCHANGED <<storeVars, stepStatus>>

(* Mutant: a retry that does not count.                                      *)
BackoffUncounted(s) ==
  /\ stepPc[s] = "backoff"
  /\ Transition(s, "running")
  /\ Goto(s, "attempt")
  /\ UNCHANGED <<storeVars, attempt>>

(* policy.wait ends; the next iteration normalises retrying to running in the
   local variable only, so the row keeps saying 'retrying'.                  *)
Backoff(s) ==
  /\ stepPc[s] = "backoff"
  /\ Transition(s, "running")
  /\ attempt' = [attempt EXCEPT ![s] = @ + 1]
  /\ Goto(s, "attempt")
  /\ UNCHANGED storeVars

(* attempt_heal answers, or raises and counts as a failure.  The transition is
   not guarded by a try: when the local status is already "completed" it is
   refused and run_step raises.                                              *)
Heal(s) ==
  /\ stepPc[s] = "heal"
  /\ \/ Transition(s, "completed") /\ Goto(s, "write_healed")
     \/ Transition(s, "failed") /\ Goto(s, "write_failed")
     \/ /\ stepStatus[s] # "running"
        /\ Return(s, "exception")
        /\ UNCHANGED stepStatus
  /\ UNCHANGED <<storeVars, attempt>>

WriteHealed(s) ==
  /\ stepPc[s] = "write_healed"
  /\ \/ /\ UpdateStep(s, "completed")
        /\ Goto(s, "heal_checkpoint")
        /\ UNCHANGED dbErrors
     \/ /\ StatementFails(s)
        /\ UpdateStep(s, "completed") \/ UNCHANGED stepRow
        /\ Return(s, "exception")
  /\ UNCHANGED <<run, checkpoint, deadLetter, stats, attempt, stepStatus>>

HealCheckpoint(s) ==
  /\ stepPc[s] = "heal_checkpoint"
  /\ \/ UpsertCheckpoint(s, "healed") /\ Return(s, "healed") /\ UNCHANGED dbErrors
     \/ /\ StatementFails(s)
        /\ UpsertCheckpoint(s, "healed") \/ UNCHANGED checkpoint
        /\ Return(s, "exception")
     \/ ForeignKeyRefuses(s) /\ Return(s, "exception") /\ UNCHANGED checkpoint
  /\ UNCHANGED <<run, stepRow, deadLetter, stats, attempt, stepStatus>>

WriteFailed(s) ==
  /\ stepPc[s] = "write_failed"
  /\ \/ UpdateStep(s, "failed") /\ Goto(s, "dead_letter") /\ UNCHANGED dbErrors
     \/ /\ StatementFails(s)
        /\ UpdateStep(s, "failed") \/ UNCHANGED stepRow
        /\ Return(s, "exception")
  /\ UNCHANGED <<run, checkpoint, deadLetter, stats, attempt, stepStatus>>

WriteDeadLetter(s) ==
  /\ stepPc[s] = "dead_letter"
  /\ \/ InsertDeadLetter(s) /\ Return(s, "failed") /\ UNCHANGED dbErrors
     \/ /\ StatementFails(s)
        /\ InsertDeadLetter(s) \/ UNCHANGED deadLetter
        /\ Return(s, "exception")
     \/ ForeignKeyRefuses(s) /\ Return(s, "exception") /\ UNCHANGED deadLetter
  /\ UNCHANGED <<run, stepRow, checkpoint, stats, attempt, stepStatus>>

RunStep(s) ==
  \/ InsertRow(s)      \/ AgentSucceeds(s)  \/ AgentFails(s)
  \/ WriteCompleted(s) \/ SaveCheckpoint(s) \/ MarkRetrying(s)
  \/ Backoff(s)        \/ Heal(s)           \/ WriteHealed(s)
  \/ HealCheckpoint(s) \/ WriteFailed(s)    \/ WriteDeadLetter(s)

-----------------------------------------------------------------------------

(* A step row that says 'completed' never says anything else again (it can
   only be deleted with its run), although the error handling of the retry
   loop runs again after the write when the checkpoint fails.                *)
CompletedRowIsFinal ==
  [][\A s \in Steps :
       stepRow[s] = "completed" => stepRow'[s] \in {"completed", "absent"}]_
    <<storeVars, stepVars>>

(* The four tables agree with what run_step told the executor: a step it
   reports as done has a completed row, the matching checkpoint and no dead
   letter; a step it reports as failed has a failed row and one dead letter. *)
OutcomeIsRecorded(s) ==
  /\ outcome[s] \in {"completed", "healed"} =>
       /\ stepRow[s] = "completed"
       /\ checkpoint[s] = outcome[s]
       /\ deadLetter[s] = 0
  /\ outcome[s] = "failed" => stepRow[s] = "failed" /\ deadLetter[s] = 1

(* run_step raises only after a statement of that step failed: the state
   machine never refuses the step on its own account.                        *)
RaisesOnlyOnDbError ==
  \A s \in Steps : outcome[s] = "exception" => s \in dbErrors

(* The dead letter queue holds a step at most once, and only steps whose work
   was neither completed nor healed.                                         *)
DeadLetterIsAFailure ==
  \A s \in Steps :
    /\ deadLetter[s] <= 1
    /\ deadLetter[s] = 1 => stepRow[s] \in {"failed", "absent"}
=============================================================================
