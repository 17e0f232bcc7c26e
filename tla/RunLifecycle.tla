---------------------------- MODULE RunLifecycle ----------------------------
(***************************************************************************)
(* One workflow run and everybody who writes its row:                      *)
(*                                                                         *)
(*   - the executor and its steps (Executor, StepRunner);                  *)
(*   - clients calling DELETE /api/executions/{run_id}                     *)
(*     (delete_or_cancel_execution in backend/app/routes/executions.py),   *)
(*     which reads the status and, statement by statement, cancels the run *)
(*     or deletes it;                                                      *)
(*   - the zombie sweeper, the loop of backend/app/main.py and the admin   *)
(*     endpoint, both calling mark_stale_runs_as_zombies;                  *)
(*   - the process itself, which may die and be restarted by the platform. *)
(*     A restart runs the sweeper and the API again, but no code calls     *)
(*     execute_workflow for a run that already exists.                     *)
(***************************************************************************)
EXTENDS Executor

CONSTANTS
  Clients,     \* concurrent callers of the DELETE endpoint, one call each
  MayCrash     \* may the process die?

ASSUME MayCrashAssumption == MayCrash \in BOOLEAN

VARIABLES
  clientPc,    \* the statement each DELETE request is about to issue
  stale,       \* is the run older than stale_after_minutes?
  purged       \* history: a DELETE FROM step_executions took effect

envVars == <<clientPc, stale, purged>>
allVars == <<vars, envVars>>

ClientPc ==
  {"idle", "cancel", "delete_steps", "delete_dead_letters", "delete_run", "done"}

ActiveStatus == {"pending", "queued", "running"}

EnvTypeOK ==
  /\ clientPc \in [Clients -> ClientPc]
  /\ stale \in BOOLEAN
  /\ purged \in BOOLEAN

LifecycleTypeOK == TypeOK /\ EnvTypeOK

LifecycleInit ==
  /\ Init
  /\ clientPc = [c \in Clients |-> "idle"]
  /\ stale = FALSE
  /\ purged = FALSE

engineVars == <<stepVars, execVars>>

ClientGoto(c, pc) == clientPc' = [clientPc EXCEPT ![c] = pc]

-----------------------------------------------------------------------------

(* SELECT status; the branch is chosen on what was read here.                *)
ReadStatus(c) ==
  /\ clientPc[c] = "idle"
  /\ ClientGoto(c, CASE run = "deleted" -> "done"
                     [] run \in ActiveStatus -> "cancel"
                     [] OTHER -> "delete_steps")
  /\ UNCHANGED <<storeVars, engineVars, stale, purged>>

Cancel(c) ==
  /\ clientPc[c] = "cancel"
  /\ UpdateRun("cancelled")
  /\ ClientGoto(c, "done")
  /\ UNCHANGED <<stepTables, dbErrors, engineVars, stale, purged>>

DeleteSteps(c) ==
  /\ clientPc[c] = "delete_steps"
  /\ stepRow' = [s \in Steps |-> "absent"]
  /\ purged' = TRUE
  /\ ClientGoto(c, "delete_dead_letters")
  /\ UNCHANGED <<run, checkpoint, deadLetter, stats, dbErrors, engineVars, stale>>

DeleteDeadLetters(c) ==
  /\ clientPc[c] = "delete_dead_letters"
  /\ deadLetter' = [s \in Steps |-> 0]
  /\ ClientGoto(c, "delete_run")
  /\ UNCHANGED <<run, stepRow, checkpoint, stats, dbErrors, engineVars, stale, purged>>

(* Mutant: checkpoints do not cascade.                                       *)
DeleteRunKeepsCheckpoints(c) ==
  /\ clientPc[c] = "delete_run"
  /\ \/ /\ \A s \in Steps : deadLetter[s] = 0
        /\ run' = "deleted"
        /\ stepRow' = [s \in Steps |-> "absent"]
     \/ /\ \E s \in Steps : deadLetter[s] # 0
        /\ UNCHANGED <<run, stepRow>>
  /\ ClientGoto(c, "done")
  /\ UNCHANGED <<checkpoint, deadLetter, stats, dbErrors, engineVars, stale, purged>>

(* Refused by the foreign key of dead_letters when one was inserted since;
   cascades to step_executions and checkpoints when it is not.               *)
DeleteRun(c) ==
  /\ clientPc[c] = "delete_run"
  /\ \/ /\ \A s \in Steps : deadLetter[s] = 0
        /\ run' = "deleted"
        /\ stepRow' = [s \in Steps |-> "absent"]
        /\ checkpoint' = [s \in Steps |-> "none"]
     \/ /\ \E s \in Steps : deadLetter[s] # 0
        /\ UNCHANGED <<run, stepRow, checkpoint>>
  /\ ClientGoto(c, "done")
  /\ UNCHANGED <<deadLetter, stats, dbErrors, engineVars, stale, purged>>

(* A statement of the request raises and the endpoint answers 500.           *)
ClientFails(c) ==
  /\ DbMayFail
  /\ clientPc[c] \notin {"idle", "done"}
  /\ ClientGoto(c, "done")
  /\ UNCHANGED <<storeVars, engineVars, stale, purged>>

DeleteOrCancel(c) ==
  \/ ReadStatus(c)        \/ Cancel(c)    \/ DeleteSteps(c)
  \/ DeleteDeadLetters(c) \/ DeleteRun(c) \/ ClientFails(c)

(* Ten minutes have passed since created_at.                                 *)
GrowStale ==
  /\ ~stale
  /\ stale' = TRUE
  /\ UNCHANGED <<storeVars, engineVars, clientPc, purged>>

(* Mutant: the sweeper looks for 'running' rows only.                        *)
SweepRunningOnly ==
  /\ stale
  /\ run = "running"
  /\ UpdateRun("failed")
  /\ UNCHANGED <<stepTables, dbErrors, engineVars, envVars>>

(* mark_stale_runs_as_zombies: one conditional UPDATE.                       *)
SweepZombies ==
  /\ stale
  /\ run \in ActiveStatus
  /\ UpdateRun("failed")
  /\ UNCHANGED <<stepTables, dbErrors, engineVars, envVars>>

(* The process dies: every coroutine, the executor's and the clients', is
   gone; the tables stay.                                                    *)
Crash ==
  /\ MayCrash
  /\ execPc \notin {"returned", "crashed"}
  /\ execPc' = "crashed"
  /\ stepPc' = [s \in Steps |->
                  IF stepPc[s] \in {"idle", "returned"} THEN stepPc[s] ELSE "crashed"]
  /\ clientPc' = [c \in Clients |->
                    IF clientPc[c] = "idle" THEN "idle" ELSE "done"]
  /\ UNCHANGED <<storeVars, stepStatus, attempt, outcome, localStatus, level,
                 completed, verdict, stale, purged>>

Engine == (ExecuteWorkflow \/ \E s \in Steps : StepAction(s)) /\ UNCHANGED envVars

LifecycleNext ==
  \/ Engine
  \/ \E c \in Clients : DeleteOrCancel(c)
  \/ GrowStale
  \/ SweepZombies
  \/ Crash
  \/ Finished /\ UNCHANGED envVars

(* The engine is resumed as in Executor; time passes and the sweeper comes
   round every five minutes.  Nobody has to call the DELETE endpoint.        *)
LifecycleFairness ==
  /\ WF_allVars(ExecuteWorkflow /\ UNCHANGED envVars)
  /\ \A s \in Steps : WF_allVars(StepAction(s) /\ UNCHANGED envVars)
  /\ WF_allVars(GrowStale)
  /\ WF_allVars(SweepZombies)

LifecycleSpec == LifecycleInit /\ [][LifecycleNext]_allVars /\ LifecycleFairness

-----------------------------------------------------------------------------

(* A run whose row says 'completed' has a completed row for every step, unless
   somebody is deleting it, whoever wrote the row last.                      *)
CompletedRunHasEveryStep ==
  run = "completed" => purged \/ \A s \in Steps : stepRow[s] = "completed"

(* user_execution_stats counts a run at most once, however often the executor,
   the sweeper and the clients overwrite each other's status.                *)
CountedAtMostOnce == stats["completed"] + stats["failed"] <= 1

(* Once the run row is gone nothing that refers to it is left or written, even
   when its executor is still running.                                       *)
NoOrphanRows ==
  run = "deleted" => \A s \in Steps :
    /\ stepRow[s] = "absent"
    /\ checkpoint[s] = "none"
    /\ deadLetter[s] = 0

(* An executor whose run was deleted under it cannot carry on: the first step
   it starts is refused by the foreign key and the execution ends in failure. *)
DeletedRunStops ==
  \A s \in Steps :
    (run = "deleted" /\ stepPc[s] = "insert")
      ~> (verdict \in {"failed", "raised"} \/ execPc = "crashed")

(* Whatever crashes or fails, no run stays active for ever: it is finished,
   cancelled, swept or deleted.                                              *)
NoZombieForever == <>[](run \notin ActiveStatus)

-----------------------------------------------------------------------------
(* What the repository says of a run and the code does not keep.             *)

(* VALID_WORKFLOW_TRANSITIONS gives 'completed' and 'cancelled' no successor,
   and executor.py:43-45 says writing 'completed' from a cancelled run is
   caught.                                                                   *)
TerminalRunsStayTerminal ==
  [][(run \in {"completed", "cancelled"}) => (run' \in {run, "deleted"})]_allVars
=============================================================================
