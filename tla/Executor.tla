------------------------------ MODULE Executor ------------------------------
(***************************************************************************)
(* execute_workflow of backend/app/engine/executor.py, inside the          *)
(* _safe_execute task trigger_execution starts for it                      *)
(* (backend/app/routes/executions.py), running the steps of StepRunner.    *)
(*                                                                         *)
(* validate_dag and get_parallel_groups (engine/dag.py, modelled in Dag)   *)
(* turn the DAG into groups of equal depth.  The executor starts every     *)
(* step of a group (asyncio.gather), waits for all of them, aborts at the  *)
(* first failure in the group, and goes on to the next group otherwise.    *)
(* It writes the status of the run with unconditional UPDATEs.             *)
(***************************************************************************)
EXTENDS StepRunner

CONSTANTS
  Deps,    \* depends_on, as a set, of every step
  Depth    \* the depth get_parallel_groups gives to every step

(* What Dag guarantees of a DAG that passes validate_dag.                    *)
ASSUME DepsAssumption ==
  /\ Deps \in [Steps -> SUBSET Steps]
  /\ Depth \in [Steps -> Nat]
  /\ \A s \in Steps : \A d \in Deps[s] : Depth[d] < Depth[s]

VARIABLES
  execPc,       \* the await execute_workflow is suspended at
  localStatus,  \* its local current_workflow_status
  level,        \* its loop variable group_idx
  completed,    \* the result of get_completed_steps
  verdict       \* the "status" execute_workflow returned, or "raised"

execVars == <<execPc, localStatus, level, completed, verdict>>
vars == <<storeVars, stepVars, execVars>>

ExecPc ==
  {"start", "write_invalid", "write_running", "load", "dispatch", "gather",
   "write_failed", "write_completed", "write_error", "safe_write",
   "returned", "crashed"}

ExecTypeOK ==
  /\ execPc \in ExecPc
  /\ localStatus \in WorkflowState
  /\ level \in Nat
  /\ completed \subseteq Steps
  /\ verdict \in {"none", "completed", "failed", "raised"}

TypeOK == StoreTypeOK /\ StepTypeOK /\ ExecTypeOK

ExecInit ==
  /\ execPc = "start"
  /\ localStatus = "queued"
  /\ level = 0
  /\ completed = {}
  /\ verdict = "none"

Init == StoreInit /\ StepInit /\ ExecInit

Group(l) == {s \in Steps : Depth[s] = l}

pendingSteps == Group(level) \ completed

(* Mutant: the isinstance(result, Exception) branch is missing.              *)
SucceededUnlessFailed(s) == outcome[s] # "failed"

Succeeded(s) == outcome[s] \in {"completed", "healed"}

(* transition_workflow, where the code relies on it being legal, and in the
   last except block, where a refusal is caught and logged.                  *)
TransitionRun(target) ==
  /\ CanTransitionWorkflow(localStatus, target)
  /\ localStatus' = target

TransitionRunGuarded(target) ==
  localStatus' = IF CanTransitionWorkflow(localStatus, target)
                   THEN target ELSE localStatus

ReturnRun(v) == execPc' = "returned" /\ verdict' = v

(* One UPDATE workflow_runs SET status: its success, or its failure with or
   without effect.                                                           *)
UpdateRunOk(status) == UpdateRun(status) /\ UNCHANGED dbErrors

UpdateRunFails(status) ==
  /\ StatementFails("run")
  /\ UpdateRun(status) \/ UNCHANGED <<run, stats>>

-----------------------------------------------------------------------------

(* validate_dag accepts or refuses the DAG; get_db_pool may raise first.     *)
ValidateDag ==
  /\ execPc = "start"
  /\ \/ TransitionRun("running") /\ execPc' = "write_running" /\ UNCHANGED dbErrors
     \/ TransitionRun("failed") /\ execPc' = "write_invalid" /\ UNCHANGED dbErrors
     \/ StatementFails("run") /\ execPc' = "safe_write" /\ UNCHANGED localStatus
  /\ UNCHANGED <<run, stats, stepTables, stepVars, level, completed, verdict>>

WriteInvalid ==
  /\ execPc = "write_invalid"
  /\ \/ UpdateRunOk("failed") /\ ReturnRun("failed")
     \/ UpdateRunFails("failed") /\ execPc' = "safe_write" /\ UNCHANGED verdict
  /\ UNCHANGED <<stepTables, stepVars, localStatus, level, completed>>

WriteRunning ==
  /\ execPc = "write_running"
  /\ \/ UpdateRunOk("running") /\ execPc' = "load"
     \/ UpdateRunFails("running") /\ execPc' = "safe_write"
  /\ UNCHANGED <<stepTables, stepVars, localStatus, level, completed, verdict>>

(* Mutant: the steps an earlier call completed are not looked up.            *)
LoadNothing ==
  /\ execPc = "load"
  /\ execPc' = "dispatch"
  /\ UNCHANGED <<storeVars, stepVars, localStatus, level, completed, verdict>>

(* Mutant: a step that merely has a row counts as completed.                 *)
LoadStarted ==
  /\ execPc = "load"
  /\ completed' = {s \in Steps : stepRow[s] # "absent"}
  /\ execPc' = "dispatch"
  /\ UNCHANGED <<storeVars, stepVars, localStatus, level, verdict>>

(* get_completed_steps                                                       *)
LoadCompleted ==
  /\ execPc = "load"
  /\ \/ /\ completed' = {s \in Steps : stepRow[s] = "completed"}
        /\ execPc' = "dispatch"
        /\ UNCHANGED dbErrors
     \/ /\ StatementFails("run")
        /\ execPc' = "safe_write"
        /\ UNCHANGED completed
  /\ UNCHANGED <<run, stats, stepTables, stepVars, localStatus, level, verdict>>

(* The pending steps of a group are started, ...                             *)
StartGroup ==
  /\ pendingSteps # {}
  /\ stepPc' = [s \in Steps |-> IF s \in pendingSteps THEN "insert" ELSE stepPc[s]]
  /\ execPc' = "gather"
  /\ UNCHANGED <<storeVars, stepStatus, attempt, outcome, localStatus, level,
                 completed, verdict>>

(* ... or none is pending: "if not pending_steps: continue".                 *)
SkipGroup ==
  /\ pendingSteps = {}
  /\ \E s \in Steps : Depth[s] >= level
  /\ level' = level + 1
  /\ UNCHANGED <<storeVars, stepVars, execPc, localStatus, completed, verdict>>

(* The head of the loop over the groups.                                     *)
DispatchGroup ==
  /\ execPc = "dispatch"
  /\ StartGroup \/ SkipGroup

(* Mutant: range(max_depth) instead of range(max_depth + 1).                 *)
AllGroupsButLastDone ==
  /\ execPc = "dispatch"
  /\ \A s \in Steps : Depth[s] <= level
  /\ TransitionRun("completed")
  /\ execPc' = "write_completed"
  /\ UNCHANGED <<storeVars, stepVars, level, completed, verdict>>

AllGroupsDone ==
  /\ execPc = "dispatch"
  /\ \A s \in Steps : Depth[s] < level
  /\ TransitionRun("completed")
  /\ execPc' = "write_completed"
  /\ UNCHANGED <<storeVars, stepVars, level, completed, verdict>>

(* Mutant: a failed step does not abort the remaining groups.                *)
GatherCarriesOn ==
  /\ execPc = "gather"
  /\ \A s \in pendingSteps : stepPc[s] = "returned"
  /\ level' = level + 1
  /\ execPc' = "dispatch"
  /\ UNCHANGED <<storeVars, stepVars, localStatus, completed, verdict>>

(* asyncio.gather has every result.  A group of one step is awaited directly:
   its exception is not turned into a failed result but reaches the outer
   except block.                                                             *)
GatherGroup ==
  /\ execPc = "gather"
  /\ \A s \in pendingSteps : stepPc[s] = "returned"
  /\ \/ /\ \A s \in pendingSteps : Succeeded(s)
        /\ level' = level + 1
        /\ execPc' = "dispatch"
        /\ UNCHANGED localStatus
     \/ /\ \E s \in pendingSteps : outcome[s] = "exception" /\ pendingSteps = {s}
        /\ TransitionRunGuarded("failed")
        /\ execPc' = "write_error"
        /\ UNCHANGED level
     \/ /\ \E s \in pendingSteps :
             ~Succeeded(s) /\ (outcome[s] = "exception" => pendingSteps # {s})
        /\ TransitionRun("failed")
        /\ execPc' = "write_failed"
        /\ UNCHANGED level
  /\ UNCHANGED <<storeVars, stepVars, completed, verdict>>

(* The two final UPDATEs sit inside the try: a failure reaches its except
   block, which transitions to failed if it can.                             *)
WriteOutcome(pc, status) ==
  /\ execPc = pc
  /\ \/ UpdateRunOk(status) /\ ReturnRun(status) /\ UNCHANGED localStatus
     \/ /\ UpdateRunFails(status)
        /\ TransitionRunGuarded("failed")
        /\ execPc' = "write_error"
        /\ UNCHANGED verdict
  /\ UNCHANGED <<stepTables, stepVars, level, completed>>

WriteFailedRun == WriteOutcome("write_failed", "failed")
WriteCompletedRun == WriteOutcome("write_completed", "completed")

(* Mutant: a failed UPDATE in the except block is swallowed.                 *)
WriteErrorBestEffort ==
  /\ execPc = "write_error"
  /\ UpdateRunOk("failed") \/ UpdateRunFails("failed")
  /\ ReturnRun("failed")
  /\ UNCHANGED <<stepTables, stepVars, localStatus, level, completed>>

WriteError ==
  /\ execPc = "write_error"
  /\ \/ UpdateRunOk("failed") /\ ReturnRun("failed")
     \/ UpdateRunFails("failed") /\ execPc' = "safe_write" /\ UNCHANGED verdict
  /\ UNCHANGED <<stepTables, stepVars, localStatus, level, completed>>

(* execute_workflow raised: _safe_execute marks the run failed and, when that
   fails too, only logs.                                                     *)
SafeWrite ==
  /\ execPc = "safe_write"
  /\ UpdateRunOk("failed") \/ UpdateRunFails("failed")
  /\ ReturnRun("raised")
  /\ UNCHANGED <<stepTables, stepVars, localStatus, level, completed>>

ExecuteWorkflow ==
  \/ ValidateDag   \/ WriteInvalid   \/ WriteRunning      \/ LoadCompleted
  \/ DispatchGroup \/ AllGroupsDone  \/ GatherGroup
  \/ WriteFailedRun \/ WriteCompletedRun \/ WriteError    \/ SafeWrite

StepAction(s) == RunStep(s) /\ UNCHANGED execVars

(* The task is over; nothing is left to do.                                  *)
Finished == execPc \in {"returned", "crashed"} /\ UNCHANGED vars

Next == ExecuteWorkflow \/ (\E s \in Steps : StepAction(s)) \/ Finished

(* Every suspended coroutine is resumed: asyncio runs each ready task, every
   statement returns or raises, the LLM clients agent.run awaits have HTTP
   timeouts, and attempt_heal is taken to end (its time limit alone does not
   make it: Healing).  Nothing else bounds an agent: timeout_seconds of a step
   is read by no code.                                                       *)
Fairness == WF_vars(ExecuteWorkflow) /\ \A s \in Steps : WF_vars(StepAction(s))

Spec == Init /\ [][Next]_vars /\ Fairness

-----------------------------------------------------------------------------

(* A step is started only after every step it depends on has completed or has
   been healed: the parallel groups never let a step run ahead of its inputs. *)
StartedAfterDependencies ==
  \A s \in Steps : stepPc[s] # "idle" =>
    \A d \in Deps[s] : outcome[d] \in {"completed", "healed"} \/ d \in completed

(* When execute_workflow reports success every step of the DAG succeeded, and
   each of them is recorded as completed.                                    *)
CompletedMeansEveryStep ==
  verdict = "completed" =>
    \A s \in Steps :
      /\ outcome[s] \in {"completed", "healed"} \/ s \in completed
      /\ stepRow[s] = "completed"

(* After a failure no further group is started: when the executor has stopped
   with a failed step, nothing that depends on it has run.                   *)
NothingRunsAfterFailure ==
  \A d \in Steps : outcome[d] \in {"failed", "exception"} =>
    \A s \in Steps : Depth[s] > Depth[d] => stepPc[s] = "idle"

(* gather waits for the whole group: once the executor is back no step of the
   run is still executing in the background.                                 *)
NoStepOutlivesTheRun ==
  execPc = "returned" => \A s \in Steps : stepPc[s] \in {"idle", "returned"}

(* The tables tell what happened to every step the executor saw.             *)
OutcomesAreRecorded == \A s \in Steps : OutcomeIsRecorded(s)

(* The local state machine: the status execute_workflow believes in only
   makes moves of VALID_WORKFLOW_TRANSITIONS.                                *)
LocalStatusIsLegal ==
  [][localStatus' # localStatus => CanTransitionWorkflow(localStatus, localStatus')]_vars

(* Without an unhandled database error, the row of the run ends up agreeing
   with what execute_workflow returned.                                      *)
RunRowMatchesVerdict ==
  verdict \in {"completed", "failed"} => run = verdict

(* What the executor promises, without groups, retries, rows or errors: an
   execution of the DAG in dependency order (DagRun).                        *)
AbstractRun == INSTANCE DagRun WITH
  done <- completed \cup {s \in Steps : outcome[s] \in {"completed", "healed"}},
  phase <- CASE verdict = "none" -> "running"
             [] verdict = "completed" -> "completed"
             [] OTHER -> "failed"

ImplementsDagRun == AbstractRun!Spec

(* Every run comes to an end, whatever fails.                                *)
ExecutorReturns == <>(execPc = "returned")
=============================================================================
