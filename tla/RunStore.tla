------------------------------ MODULE RunStore ------------------------------
(***************************************************************************)
(* The PostgreSQL tables one workflow run lives in, and the SQL statements *)
(* the engine and the API issue on them.  Every statement of the code is   *)
(* its own transaction (asyncpg autocommits when no transaction is open),  *)
(* so one statement is one atomic step and everything between two          *)
(* statements may interleave.                                              *)
(*                                                                         *)
(*   workflow_runs.status           run         migration 002              *)
(*   step_executions.status         stepRow     migration 003              *)
(*   checkpoints.state.status       checkpoint  migration 007              *)
(*   number of dead_letters rows    deadLetter  migration 008              *)
(*   user_execution_stats           stats       migration 029              *)
(*                                                                         *)
(* The foreign keys matter: step_executions and checkpoints cascade when   *)
(* the run is deleted, dead_letters forbids the delete, and an INSERT into *)
(* any of the three is refused once the run row is gone.                   *)
(***************************************************************************)
EXTENDS Naturals, StateMachine

CONSTANTS
  Steps,      \* the step names of the DAG
  DbMayFail   \* may a statement fail although it is legal?

ASSUME DbMayFailAssumption == DbMayFail \in BOOLEAN

VARIABLES
  run,         \* status column of the workflow_runs row, or "deleted"
  stepRow,     \* status column of the step's step_executions row, or "absent"
  checkpoint,  \* status stored in the step's checkpoint, or "none"
  deadLetter,  \* number of dead_letters rows of the step
  stats,       \* runs_completed and runs_failed of user_execution_stats
  dbErrors     \* history: the steps ("run" for the executor) that met an error

storeVars == <<run, stepRow, checkpoint, deadLetter, stats, dbErrors>>
stepTables == <<stepRow, checkpoint, deadLetter>>

RunStatus == WorkflowState \cup {"deleted"}
StepRowStatus == StepState \cup {"absent"}

StoreTypeOK ==
  /\ run \in RunStatus
  /\ stepRow \in [Steps -> StepRowStatus]
  /\ checkpoint \in [Steps -> {"none", "completed", "healed"}]
  /\ deadLetter \in [Steps -> Nat]
  /\ stats \in [{"completed", "failed"} -> Nat]
  /\ dbErrors \subseteq Steps \cup {"run"}

(* trigger_execution has inserted the run as 'pending'; nothing else exists. *)
StoreInit ==
  /\ run = "pending"
  /\ stepRow = [s \in Steps |-> "absent"]
  /\ checkpoint = [s \in Steps |-> "none"]
  /\ deadLetter = [s \in Steps |-> 0]
  /\ stats = [k \in {"completed", "failed"} |-> 0]
  /\ dbErrors = {}

(* Mutant: the trigger does not ask for OLD.status = 'running'.              *)
UpdateStatsAlways(status) ==
  stats' = IF status \in {"completed", "failed"}
             THEN [stats EXCEPT ![status] = @ + 1]
             ELSE stats

(* The trigger of migration 029: an UPDATE that takes the row from 'running'
   to 'completed' or 'failed' bumps the matching counter of the owner.       *)
UpdateStats(status) ==
  stats' = IF run = "running" /\ status \in {"completed", "failed"}
             THEN [stats EXCEPT ![status] = @ + 1]
             ELSE stats

(* UPDATE workflow_runs SET status = ... WHERE id = run_id: unconditional,
   and without effect when the row is gone.                                  *)
UpdateRun(status) ==
  /\ run' = IF run = "deleted" THEN run ELSE status
  /\ UpdateStats(status)

(* UPDATE step_executions SET status = ... WHERE id = step_id.               *)
UpdateStep(s, status) ==
  stepRow' = IF stepRow[s] = "absent" THEN stepRow
                                      ELSE [stepRow EXCEPT ![s] = status]

(* Mutant: no foreign key.                                                   *)
NoForeignKey == TRUE

(* The INSERTs; each carries the foreign key to workflow_runs.               *)
RunReferenced == run # "deleted"

InsertStep(s) ==
  RunReferenced /\ stepRow' = [stepRow EXCEPT ![s] = "running"]

UpsertCheckpoint(s, status) ==
  RunReferenced /\ checkpoint' = [checkpoint EXCEPT ![s] = status]

InsertDeadLetter(s) ==
  RunReferenced /\ deadLetter' = [deadLetter EXCEPT ![s] = @ + 1]

(* A statement that raises: the connection or the server fails, or an INSERT
   violates its foreign key.  Whether the statement took effect before the
   connection broke is for the action to say.                                *)
StatementFails(who) == DbMayFail /\ dbErrors' = dbErrors \cup {who}

ForeignKeyRefuses(who) == ~RunReferenced /\ dbErrors' = dbErrors \cup {who}
=============================================================================
