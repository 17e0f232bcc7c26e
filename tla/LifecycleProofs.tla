-------------------------- MODULE LifecycleProofs --------------------------
(***************************************************************************)
(* Proofs about a run and everybody who writes its row (RunLifecycle), and *)
(* about one whose process dies and whose execution is called again        *)
(* (Resume): for every DAG, every number of retries, any number of DELETE  *)
(* requests and of calls, with or without database errors and crashes.     *)
(***************************************************************************)
EXTENDS RunLifecycle, Resume, ExecutorProofs

(* While nobody has deleted a row, a step that the process has not taken with
   it keeps its tables as it does in Executor.                               *)
IntactInv == ~purged => \A s \in Steps : stepPc[s] # "crashed" => StepInv(s)

(* The groups that were gathered, whether or not the executor still runs.    *)
GroupsInv ==
  /\ execPc # "crashed" => ScheduleInv
  /\ \A s \in Steps :
       /\ Depth[s] < level => Succeeded(s)
       /\ Depth[s] > level => stepPc[s] = "idle"
       /\ execPc = "crashed" => stepPc[s] \in {"idle", "returned", "crashed"}

(* Only an executor that has gathered every group writes 'completed', and only
   a client that has deleted the steps' rows goes on to delete the run's.    *)
RowInv ==
  /\ run = "completed" \/ execPc = "write_completed" => \A s \in Steps : Depth[s] < level
  /\ run = "deleted" => purged
  /\ \A c \in Clients : clientPc[c] \in {"delete_dead_letters", "delete_run"} => purged

(* The row says 'running' once at most, and leaves the counters at zero until
   it stops saying so.                                                       *)
StatsInv ==
  /\ stats["completed"] + stats["failed"] <= 1
  /\ run = "running" \/ execPc \in {"start", "write_invalid", "write_running"} =>
       stats["completed"] = 0 /\ stats["failed"] = 0
  /\ execPc \in {"start", "write_invalid", "write_running"} => run # "running"

LifecycleInv ==
  /\ LifecycleTypeOK
  /\ \A s \in Steps : LocalInv(s)
  /\ GroupsInv
  /\ IntactInv
  /\ RowInv
  /\ StatsInv
  /\ NoOrphanRows

-----------------------------------------------------------------------------
(* The engine: execute_workflow and the steps it has started.                *)

(* One action of run_step keeps what it knows without looking at the tables.  *)
LEMMA StepKeepsLocalInv ==
  ASSUME NEW s \in Steps, TypeOK, LocalInv(s), RunStep(s)
  PROVE  LocalInv(s)'
<1> USE DEF TypeOK, StoreTypeOK, StepTypeOK, Goto, Return, HandleError, ShouldRetry, LocalInv,
            RetriesLeft
<1>1. CASE InsertRow(s)       BY <1>1 DEF InsertRow
<1>2. CASE AgentSucceeds(s)   BY <1>2 DEF AgentSucceeds
<1>3. CASE AgentFails(s)      BY <1>3 DEF AgentFails
<1>4. CASE WriteCompleted(s)  BY <1>4 DEF WriteCompleted
<1>5. CASE SaveCheckpoint(s)  BY <1>5 DEF SaveCheckpoint
<1>6. CASE MarkRetrying(s)    BY <1>6 DEF MarkRetrying
<1>7. CASE Backoff(s)         BY <1>7 DEF Backoff
<1>8. CASE Heal(s)            BY <1>8 DEF Heal
<1>9. CASE WriteHealed(s)     BY <1>9 DEF WriteHealed
<1>10. CASE HealCheckpoint(s) BY <1>10 DEF HealCheckpoint
<1>11. CASE WriteFailed(s)    BY <1>11 DEF WriteFailed
<1>12. CASE WriteDeadLetter(s) BY <1>12 DEF WriteDeadLetter
<1> QED
  BY <1>1, <1>2, <1>3, <1>4, <1>5, <1>6, <1>7, <1>8, <1>9, <1>10, <1>11, <1>12 DEF RunStep

(* A step that another one, or the executor, leaves alone.                   *)
LEMMA FrameKeepsLocalInv ==
  ASSUME NEW t \in Steps, LocalInv(t), Frame(t)
  PROVE  LocalInv(t)'
BY DEF Frame, LocalInv, RetriesLeft

(* Dispatching a group starts idle steps, whose rows do not exist.           *)
LEMMA ExecutorKeepsLocalInv ==
  ASSUME TypeOK, ScheduleInv, ExecuteWorkflow, NEW t \in Steps, LocalInv(t)
  PROVE  LocalInv(t)'
<1>1. CASE UNCHANGED stepPc
  BY <1>1, ExecutorFrame, FrameKeepsLocalInv DEF Frame, stepTables
<1>2. CASE execPc = "dispatch" /\ StartGroup
  <2>1. t \in pendingSteps => stepPc[t] = "idle"
    BY <1>2 DEF StartGroup, pendingSteps, Group, ScheduleInv
  <2>2. stepPc'[t] = stepPc[t] \/ (stepPc[t] = "idle" /\ stepPc'[t] = "insert")
    BY <1>2, <2>1 DEF StartGroup
  <2> QED
    BY <1>2, <2>2 DEF StartGroup, LocalInv, RetriesLeft, storeVars
<1> QED
  BY <1>1, <1>2, ExecutorFrame

(* Nothing of the executor moves once it is gone.                            *)
LEMMA EngineIsAlive ==
  ASSUME LifecycleInv, Engine
  PROVE  execPc # "crashed" /\ ScheduleInv
<1>1. CASE ExecuteWorkflow
  BY <1>1 DEF ExecuteWorkflow, ValidateDag, WriteInvalid, WriteRunning, LoadCompleted,
       DispatchGroup, StartGroup, SkipGroup, AllGroupsDone, GatherGroup, WriteFailedRun, WriteCompletedRun,
       WriteOutcome, WriteError, SafeWrite, LifecycleInv, GroupsInv
<1>2. ASSUME NEW s \in Steps, StepAction(s) PROVE execPc # "crashed"
  BY <1>2, StepOutside DEF StepAction, LifecycleInv, LifecycleTypeOK, GroupsInv
<1> QED
  BY <1>1, <1>2 DEF Engine, LifecycleInv, GroupsInv

(* The engine keeps the types and each step's local part.                    *)
LEMMA EngineTypes ==
  ASSUME LifecycleInv, Engine
  PROVE  LifecycleTypeOK' /\ \A t \in Steps : LocalInv(t)'
<1>1. TypeOK /\ \A t \in Steps : LocalInv(t)
  BY DEF LifecycleInv, LifecycleTypeOK
<1>2. EnvTypeOK'
  BY DEF Engine, envVars, LifecycleInv, LifecycleTypeOK, EnvTypeOK
<1>3. CASE ExecuteWorkflow
  BY <1>1, <1>2, <1>3, ExecutorType, EngineIsAlive, ExecutorKeepsLocalInv DEF LifecycleTypeOK
<1>4. ASSUME NEW s \in Steps, StepAction(s)
      PROVE  LifecycleTypeOK' /\ \A t \in Steps : LocalInv(t)'
  <2>1. ASSUME NEW t \in Steps PROVE LocalInv(t)'
    <3>1. CASE t = s
      BY <1>1, <1>4, <3>1, StepKeepsLocalInv DEF StepAction
    <3>2. CASE t # s
      BY <1>1, <1>4, <3>2, StepFrame, FrameKeepsLocalInv DEF StepAction
    <3> QED BY <3>1, <3>2
  <2> QED
    BY <1>1, <1>2, <1>4, <2>1, StepType DEF LifecycleTypeOK, LocalInv
<1> QED
  BY <1>3, <1>4 DEF Engine

(* The engine keeps its schedule.                                            *)
LEMMA EngineGroups ==
  ASSUME LifecycleInv, Engine
  PROVE  GroupsInv'
<1>1. TypeOK /\ ScheduleInv /\ execPc # "crashed" /\ \A t \in Steps : LocalInv(t)
  BY EngineIsAlive DEF LifecycleInv, LifecycleTypeOK
<1>2. ScheduleInv' /\ execPc' # "crashed"
  <2>1. CASE ExecuteWorkflow
    <3>1. execPc' # "crashed"
      BY <1>1, <2>1
         DEF ExecuteWorkflow, ValidateDag, WriteInvalid, WriteRunning, LoadCompleted,
             DispatchGroup, StartGroup, SkipGroup, AllGroupsDone, GatherGroup, WriteFailedRun,
             WriteCompletedRun, WriteOutcome, WriteError, SafeWrite, ReturnRun
    <3> QED BY <1>1, <2>1, <3>1, ExecutorKeepsSchedule
  <2>2. ASSUME NEW s \in Steps, StepAction(s) PROVE ScheduleInv' /\ execPc' # "crashed"
    BY <1>1, <2>2, StepKeepsSchedule DEF StepAction, execVars
  <2> QED BY <2>1, <2>2 DEF Engine
<1> QED
  BY <1>2 DEF GroupsInv, ScheduleInv

(* While nothing has been deleted, the engine keeps the tables in order.     *)
LEMMA EngineIntact ==
  ASSUME LifecycleInv, Engine
  PROVE  IntactInv'
<1> SUFFICES ASSUME ~purged, NEW t \in Steps, stepPc'[t] # "crashed" PROVE StepInv(t)'
  BY DEF IntactInv, Engine, envVars
<1>1. TypeOK /\ ScheduleInv /\ run # "deleted"
  BY EngineIsAlive DEF LifecycleInv, LifecycleTypeOK, RowInv
<1>2. stepPc[t] # "crashed" => StepInv(t)
  BY DEF LifecycleInv, IntactInv
<1>3. CASE ExecuteWorkflow
  <2>1. stepPc[t] # "crashed"
    BY <1>1, <1>3, ExecutorFrame DEF ScheduleInv, StartGroup
  <2> QED
    BY <1>1, <1>2, <1>3, <2>1, ExecutorKeepsStepInv
<1>4. ASSUME NEW s \in Steps, StepAction(s) PROVE StepInv(t)'
  <2>1. CASE t = s
    BY <1>1, <1>2, <1>4, <2>1, StepOutside, StepKeepsStepInv DEF StepAction
  <2>2. CASE t # s
    <3>1. Frame(t)
      BY <1>1, <1>4, <2>2, StepFrame DEF StepAction
    <3> QED
      BY <1>2, <3>1, FrameKeepsStepInv DEF Frame
  <2> QED BY <2>1, <2>2
<1> QED
  BY <1>3, <1>4 DEF Engine

(* The executor writes 'completed' after the last group only.                *)
LEMMA EngineRow ==
  ASSUME LifecycleInv, Engine
  PROVE  RowInv'
<1>1. TypeOK /\ RowInv /\ UNCHANGED envVars
  BY DEF LifecycleInv, LifecycleTypeOK, Engine
<1>2. (run' = "completed" \/ execPc' = "write_completed") => \A s \in Steps : Depth[s] < level'
  <2>1. CASE ExecuteWorkflow
    <3> USE DepsAssumption
        DEF TypeOK, ExecTypeOK, StoreTypeOK, RowInv, ReturnRun, UpdateRunOk, UpdateRunFails,
            UpdateRun, storeVars
    <3>1. CASE ValidateDag
      BY <1>1, <3>1 DEF ValidateDag
    <3>2. CASE WriteInvalid
      BY <1>1, <3>2 DEF WriteInvalid
    <3>3. CASE WriteRunning
      BY <1>1, <3>3 DEF WriteRunning
    <3>4. CASE LoadCompleted
      BY <1>1, <3>4 DEF LoadCompleted
    <3>5. CASE execPc = "dispatch" /\ StartGroup
      BY <1>1, <3>5 DEF StartGroup
    <3>6. CASE execPc = "dispatch" /\ SkipGroup
      BY <1>1, <3>6 DEF SkipGroup
    <3>7. CASE AllGroupsDone
      BY <1>1, <3>7 DEF AllGroupsDone
    <3>8. CASE GatherGroup
      BY <1>1, <3>8 DEF GatherGroup
    <3>9. CASE WriteFailedRun
      BY <1>1, <3>9 DEF WriteFailedRun, WriteOutcome
    <3>10. CASE WriteCompletedRun
      BY <1>1, <3>10 DEF WriteCompletedRun, WriteOutcome
    <3>11. CASE WriteError
      BY <1>1, <3>11 DEF WriteError
    <3>12. CASE SafeWrite
      BY <1>1, <3>12 DEF SafeWrite
    <3> QED
      BY <2>1, <3>1, <3>2, <3>3, <3>4, <3>5, <3>6, <3>7, <3>8, <3>9, <3>10, <3>11, <3>12
         DEF ExecuteWorkflow, DispatchGroup
  <2>2. ASSUME NEW s \in Steps, StepAction(s)
        PROVE  run' = run /\ execPc' = execPc /\ level' = level
    BY <1>1, <2>2, StepOutside DEF StepAction, execVars
  <2> QED
    BY <1>1, <2>1, <2>2 DEF Engine, RowInv
<1>3. run' = "deleted" => run = "deleted"
  <2>1. CASE ExecuteWorkflow
    BY <2>1
       DEF ExecuteWorkflow, ValidateDag, WriteInvalid, WriteRunning, LoadCompleted, DispatchGroup,
       StartGroup,
           SkipGroup, AllGroupsDone, GatherGroup, WriteFailedRun, WriteCompletedRun, WriteOutcome,
           WriteError, SafeWrite, UpdateRunOk, UpdateRunFails, UpdateRun, storeVars
  <2>2. ASSUME NEW s \in Steps, StepAction(s) PROVE run' = run
    BY <1>1, <2>2, StepOutside DEF StepAction
  <2> QED
    BY <2>1, <2>2 DEF Engine
<1> QED
  BY <1>1, <1>2, <1>3 DEF RowInv, envVars

(* One UPDATE of the run's row, whoever issues it, counts at most the run that
   it takes from 'running'.                                                  *)
LEMMA UpdateCounts ==
  ASSUME StoreTypeOK, stats["completed"] + stats["failed"] <= 1,
         run = "running" => stats["completed"] = 0 /\ stats["failed"] = 0,
         NEW status \in WorkflowState, UpdateRun(status)
  PROVE  /\ stats' \in [{"completed", "failed"} -> Nat]
         /\ stats'["completed"] + stats'["failed"] <= 1
         /\ run # "running" => stats' = stats
         /\ status = "running" => stats' = stats
         /\ run' = "running" => status = "running"
  BY DEF UpdateRun, UpdateStats, StoreTypeOK, WorkflowState

(* The engine counts the run once.                                           *)
LEMMA EngineStats ==
  ASSUME LifecycleInv, Engine
  PROVE  StatsInv'
<1>1. TypeOK /\ StoreTypeOK /\ StatsInv
  BY DEF LifecycleInv, LifecycleTypeOK, TypeOK
<1>2. CASE ExecuteWorkflow
  <2> USE DEF StatsInv, ReturnRun, UpdateRunOk, UpdateRunFails, WorkflowState, storeVars
  <2>1. CASE ValidateDag
    BY <1>1, <2>1 DEF ValidateDag
  <2>2. CASE WriteInvalid
    BY <1>1, <2>2, UpdateCounts DEF WriteInvalid
  <2>3. CASE WriteRunning
    BY <1>1, <2>3, UpdateCounts DEF WriteRunning
  <2>4. CASE LoadCompleted
    BY <1>1, <2>4 DEF LoadCompleted
  <2>5. CASE execPc = "dispatch" /\ StartGroup
    BY <1>1, <2>5 DEF StartGroup
  <2>6. CASE execPc = "dispatch" /\ SkipGroup
    BY <1>1, <2>6 DEF SkipGroup
  <2>7. CASE AllGroupsDone
    BY <1>1, <2>7 DEF AllGroupsDone
  <2>8. CASE GatherGroup
    BY <1>1, <2>8 DEF GatherGroup
  <2>9. CASE WriteFailedRun
    BY <1>1, <2>9, UpdateCounts DEF WriteFailedRun, WriteOutcome
  <2>10. CASE WriteCompletedRun
    BY <1>1, <2>10, UpdateCounts DEF WriteCompletedRun, WriteOutcome
  <2>11. CASE WriteError
    BY <1>1, <2>11, UpdateCounts DEF WriteError
  <2>12. CASE SafeWrite
    BY <1>1, <2>12, UpdateCounts DEF SafeWrite
  <2> QED
    BY <1>2, <2>1, <2>2, <2>3, <2>4, <2>5, <2>6, <2>7, <2>8, <2>9, <2>10, <2>11, <2>12
       DEF ExecuteWorkflow, DispatchGroup
<1>3. ASSUME NEW s \in Steps, StepAction(s) PROVE StatsInv'
  <2>1. run' = run /\ stats' = stats /\ execPc' = execPc
    BY <1>1, <1>3, StepOutside DEF StepAction, execVars
  <2> QED BY <1>1, <2>1 DEF StatsInv
<1> QED
  BY <1>2, <1>3 DEF Engine

(* The foreign keys refuse every insert of the engine once the run is gone, and
   its updates find no row.                                                  *)
LEMMA EngineOrphans ==
  ASSUME LifecycleInv, Engine
  PROVE  NoOrphanRows'
<1>1. TypeOK /\ StoreTypeOK /\ NoOrphanRows
  BY DEF LifecycleInv, LifecycleTypeOK, TypeOK
<1>2. CASE ExecuteWorkflow
  <2>1. run' = "deleted" => run = "deleted"
    BY <1>2
       DEF ExecuteWorkflow, ValidateDag, WriteInvalid, WriteRunning, LoadCompleted, DispatchGroup,
       StartGroup,
           SkipGroup, AllGroupsDone, GatherGroup, WriteFailedRun, WriteCompletedRun, WriteOutcome,
           WriteError, SafeWrite, UpdateRunOk, UpdateRunFails, UpdateRun, storeVars
  <2> QED
    BY <1>1, <1>2, <2>1, ExecutorFrame DEF NoOrphanRows, stepTables
<1>3. ASSUME NEW s \in Steps, StepAction(s) PROVE NoOrphanRows'
  <2> SUFFICES ASSUME run = "deleted", NEW t \in Steps
               PROVE  stepRow'[t] = "absent" /\ checkpoint'[t] = "none" /\ deadLetter'[t] = 0
    BY <1>1, <1>3, StepOutside DEF NoOrphanRows, StepAction
  <2> USE DEF StoreTypeOK, NoOrphanRows, InsertStep, UpdateStep, UpsertCheckpoint,
              InsertDeadLetter, RunReferenced, ForeignKeyRefuses, storeVars
  <2>1. CASE InsertRow(s)       BY <1>1, <2>1 DEF InsertRow
  <2>2. CASE AgentSucceeds(s)   BY <1>1, <2>2 DEF AgentSucceeds
  <2>3. CASE AgentFails(s)      BY <1>1, <2>3 DEF AgentFails
  <2>4. CASE WriteCompleted(s)  BY <1>1, <2>4 DEF WriteCompleted
  <2>5. CASE SaveCheckpoint(s)  BY <1>1, <2>5 DEF SaveCheckpoint
  <2>6. CASE MarkRetrying(s)    BY <1>1, <2>6 DEF MarkRetrying
  <2>7. CASE Backoff(s)         BY <1>1, <2>7 DEF Backoff
  <2>8. CASE Heal(s)            BY <1>1, <2>8 DEF Heal
  <2>9. CASE WriteHealed(s)     BY <1>1, <2>9 DEF WriteHealed
  <2>10. CASE HealCheckpoint(s) BY <1>1, <2>10 DEF HealCheckpoint
  <2>11. CASE WriteFailed(s)    BY <1>1, <2>11 DEF WriteFailed
  <2>12. CASE WriteDeadLetter(s) BY <1>1, <2>12 DEF WriteDeadLetter
  <2> QED
    BY <1>3, <2>1, <2>2, <2>3, <2>4, <2>5, <2>6, <2>7, <2>8, <2>9, <2>10, <2>11, <2>12
       DEF StepAction, RunStep
<1> QED
  BY <1>2, <1>3 DEF Engine

(* Every step of the engine keeps the invariant.                             *)
LEMMA EngineInv ==
  ASSUME LifecycleInv, Engine
  PROVE  LifecycleInv'
BY EngineTypes, EngineGroups, EngineIntact, EngineRow, EngineStats, EngineOrphans DEF LifecycleInv

-----------------------------------------------------------------------------
(* The others: clients, the sweeper, time and the end of the process.        *)

(* What deletes rows and leaves the coroutines of the engine alone.          *)
LEMMA EngineIsLeftAlone ==
  ASSUME LifecycleInv, UNCHANGED engineVars, UNCHANGED dbErrors,
         \A s \in Steps : stepRow'[s] \in {stepRow[s], "absent"}
  PROVE  /\ StepTypeOK' /\ ExecTypeOK'
         /\ \A s \in Steps : LocalInv(s)'
         /\ GroupsInv'
<1> USE DEF engineVars, stepVars, execVars
<1>1. StepTypeOK' /\ ExecTypeOK'
  BY DEF LifecycleInv, LifecycleTypeOK, TypeOK, StepTypeOK, ExecTypeOK
<1>2. \A s \in Steps : LocalInv(s)'
  BY DEF LifecycleInv, LocalInv, RetriesLeft
<1>3. GroupsInv'
  BY DEF LifecycleInv, GroupsInv, ScheduleInv, Succeeded
<1> QED
  BY <1>1, <1>2, <1>3

(* An UPDATE of the run's row by a client or the sweeper, or no statement.   *)
LEMMA StatusUpdateInv ==
  ASSUME LifecycleInv, EnvTypeOK', UNCHANGED <<stepTables, dbErrors, engineVars, purged>>,
         \/ \E status \in {"cancelled", "failed"} : UpdateRun(status)
         \/ UNCHANGED <<run, stats>>,
         \A c \in Clients :
           clientPc'[c] \in {"delete_dead_letters", "delete_run"} => clientPc'[c] = clientPc[c]
  PROVE  LifecycleInv'
<1>1. \A s \in Steps : stepRow'[s] = stepRow[s]
  BY DEF stepTables
<1>2. /\ StoreTypeOK /\ StatsInv /\ RowInv /\ NoOrphanRows /\ IntactInv
  BY DEF LifecycleInv, LifecycleTypeOK, TypeOK
<1>3. /\ stats' \in [{"completed", "failed"} -> Nat]
      /\ stats'["completed"] + stats'["failed"] <= 1
      /\ run' = "running" => run = "running" /\ stats' = stats
      /\ run # "running" => stats' = stats
  <2>1. CASE UNCHANGED <<run, stats>>
    BY <1>2, <2>1 DEF StoreTypeOK, StatsInv
  <2>2. ASSUME NEW status \in {"cancelled", "failed"}, UpdateRun(status)
        PROVE  /\ stats' \in [{"completed", "failed"} -> Nat]
               /\ stats'["completed"] + stats'["failed"] <= 1
               /\ run' # "running"
               /\ run # "running" => stats' = stats
    <3>1. status \in WorkflowState /\ status # "running"
      BY DEF WorkflowState
    <3> QED
      BY <1>2, <2>2, <3>1, UpdateCounts DEF StatsInv
  <2> QED
    BY <2>1, <2>2
<1>4. run' \in RunStatus /\ run' \in {run, "cancelled", "failed"} /\ (run = "deleted" => run' = run)
  BY <1>2 DEF UpdateRun, StoreTypeOK, RunStatus, WorkflowState
<1>5. LifecycleTypeOK'
  BY <1>1, <1>2, <1>3, <1>4, EngineIsLeftAlone
     DEF LifecycleTypeOK, TypeOK, StoreTypeOK, stepTables
<1>6. IntactInv'
  BY <1>2, FrameKeepsStepInv DEF IntactInv, Frame, engineVars, stepVars, stepTables
<1>7. RowInv'
  BY <1>2, <1>4 DEF RowInv, engineVars, execVars
<1>8. StatsInv'
  BY <1>2, <1>3, <1>4 DEF StatsInv, engineVars, execVars
<1>9. NoOrphanRows'
  BY <1>2, <1>4 DEF NoOrphanRows, stepTables
<1> QED
  BY <1>1, <1>5, <1>6, <1>7, <1>8, <1>9, EngineIsLeftAlone DEF LifecycleInv

(* The DELETE endpoint, statement by statement.                              *)
LEMMA ClientInv ==
  ASSUME LifecycleInv, NEW c \in Clients, DeleteOrCancel(c)
  PROVE  LifecycleInv'
<1>1. /\ EnvTypeOK /\ StoreTypeOK /\ StatsInv /\ RowInv /\ NoOrphanRows /\ IntactInv
      /\ TypeOK
  BY DEF LifecycleInv, LifecycleTypeOK, TypeOK
<1>2. EnvTypeOK'
  BY <1>1
     DEF DeleteOrCancel, ReadStatus, Cancel, DeleteSteps, DeleteDeadLetters, DeleteRun,
         ClientFails, ClientGoto, EnvTypeOK, ClientPc
<1>3. CASE ReadStatus(c) \/ ClientFails(c)
  BY <1>1, <1>2, <1>3, StatusUpdateInv
     DEF ReadStatus, ClientFails, ClientGoto, EnvTypeOK, storeVars, stepTables
<1>4. CASE Cancel(c)
  BY <1>1, <1>2, <1>4, StatusUpdateInv DEF Cancel, ClientGoto, EnvTypeOK
<1>5. CASE DeleteSteps(c) \/ DeleteDeadLetters(c) \/ DeleteRun(c)
  <2>1. UNCHANGED engineVars /\ UNCHANGED dbErrors /\ UNCHANGED stats
    BY <1>5 DEF DeleteSteps, DeleteDeadLetters, DeleteRun
  <2>2. \A s \in Steps : stepRow'[s] \in {stepRow[s], "absent"}
    BY <1>5 DEF DeleteSteps, DeleteDeadLetters, DeleteRun
  <2>3. StoreTypeOK'
    BY <1>1, <1>5 DEF DeleteSteps, DeleteDeadLetters, DeleteRun, StoreTypeOK, RunStatus,
                      StepRowStatus
  <2>4. purged' /\ run' \in {run, "deleted"}
    BY <1>1, <1>5 DEF DeleteSteps, DeleteDeadLetters, DeleteRun, RowInv
  <2>5. RowInv'
    BY <1>1, <2>1, <2>4 DEF RowInv, engineVars, execVars
  <2>6. StatsInv'
    BY <1>1, <2>1, <2>4 DEF StatsInv, engineVars, execVars
  <2>7. NoOrphanRows'
    <3>1. CASE DeleteSteps(c)
      BY <1>1, <3>1 DEF DeleteSteps, NoOrphanRows
    <3>2. CASE DeleteDeadLetters(c)
      BY <1>1, <3>2 DEF DeleteDeadLetters, NoOrphanRows
    <3>3. CASE DeleteRun(c)
      BY <1>1, <3>3 DEF DeleteRun, NoOrphanRows
    <3> QED BY <1>5, <3>1, <3>2, <3>3
  <2> QED
    BY <1>2, <2>1, <2>2, <2>3, <2>4, <2>5, <2>6, <2>7, EngineIsLeftAlone
       DEF LifecycleInv, LifecycleTypeOK, TypeOK, IntactInv
<1> QED
  BY <1>3, <1>4, <1>5 DEF DeleteOrCancel

(* The end of the process takes every coroutine and leaves the tables.       *)
LEMMA CrashInv ==
  ASSUME LifecycleInv, Crash
  PROVE  LifecycleInv'
<1> USE DEF Crash, storeVars
<1>1. LifecycleTypeOK'
  BY DEF LifecycleInv, LifecycleTypeOK, TypeOK, StoreTypeOK, StepTypeOK, ExecTypeOK, EnvTypeOK,
         StepPc, ExecPc, ClientPc
<1>2. \A s \in Steps : LocalInv(s)'
  BY DEF LifecycleInv, LocalInv, RetriesLeft, LifecycleTypeOK, TypeOK, StepTypeOK
<1>3. GroupsInv'
  BY DEF LifecycleInv, GroupsInv, Succeeded
<1>4. IntactInv'
  BY FrameKeepsStepInv DEF LifecycleInv, IntactInv, Frame
<1>5. RowInv'
  BY DEF LifecycleInv, RowInv, LifecycleTypeOK, EnvTypeOK
<1>6. StatsInv' /\ NoOrphanRows'
  BY DEF LifecycleInv, StatsInv, NoOrphanRows
<1> QED
  BY <1>1, <1>2, <1>3, <1>4, <1>5, <1>6 DEF LifecycleInv

LEMMA LifecycleStart == LifecycleInit => LifecycleInv
<1> SUFFICES ASSUME LifecycleInit PROVE LifecycleInv
  OBVIOUS
<1>1. IInv
  BY InitInv DEF LifecycleInit
<1>2. LifecycleTypeOK
  BY <1>1 DEF IInv, LifecycleTypeOK, LifecycleInit, EnvTypeOK, ClientPc
<1>3. GroupsInv /\ IntactInv /\ \A s \in Steps : LocalInv(s)
  BY <1>1, StepInvIsLocal DEF IInv, VerdictInv, ScheduleInv, GroupsInv, IntactInv
<1>4. RowInv /\ StatsInv /\ NoOrphanRows
  BY DEF LifecycleInit, Init, StoreInit, ExecInit, RowInv, StatsInv, NoOrphanRows
<1> QED
  BY <1>2, <1>3, <1>4 DEF LifecycleInv

(* Every step of a run's life keeps the invariant.                           *)
LEMMA LifecycleStep == LifecycleInv /\ [LifecycleNext]_allVars => LifecycleInv'
<1> SUFFICES ASSUME LifecycleInv, [LifecycleNext]_allVars PROVE LifecycleInv'
  OBVIOUS
<1>1. CASE Engine
  BY <1>1, EngineInv
<1>2. ASSUME NEW c \in Clients, DeleteOrCancel(c) PROVE LifecycleInv'
  BY <1>2, ClientInv
<1>3. CASE GrowStale
  BY <1>3, StatusUpdateInv
     DEF GrowStale, LifecycleInv, LifecycleTypeOK, EnvTypeOK, storeVars, stepTables
<1>4. CASE SweepZombies
  BY <1>4, StatusUpdateInv
     DEF SweepZombies, LifecycleInv, LifecycleTypeOK, EnvTypeOK, envVars
<1>5. CASE Crash
  BY <1>5, CrashInv
<1>6. CASE UNCHANGED allVars
  BY <1>6, StatusUpdateInv
     DEF allVars, vars, envVars, storeVars, stepTables, engineVars, LifecycleInv, LifecycleTypeOK,
         EnvTypeOK
<1> QED
  BY <1>1, <1>2, <1>3, <1>4, <1>5, <1>6 DEF LifecycleNext, Finished, allVars

(* The inductive invariant of a run's life, whoever deletes, cancels or sweeps it
   and whenever its process dies.                                            *)
THEOREM LifecycleInvariant == LifecycleSpec => []LifecycleInv
<1> QED
  BY LifecycleStart, LifecycleStep, PTL DEF LifecycleSpec

(* Every variable keeps its type.                                            *)
THEOREM LifecycleTypes == LifecycleSpec => []LifecycleTypeOK
<1>1. LifecycleInv => LifecycleTypeOK
  BY DEF LifecycleInv
<1> QED
  BY <1>1, LifecycleInvariant, PTL

(* A run that says 'completed' has its steps' rows, unless a client is deleting
   them, although clients, the sweeper and the executor overwrite each other. *)
THEOREM CompletedIsComplete == LifecycleSpec => []CompletedRunHasEveryStep
<1>1. LifecycleInv => CompletedRunHasEveryStep
  <2> SUFFICES ASSUME LifecycleInv, run = "completed", ~purged, NEW s \in Steps
               PROVE  stepRow[s] = "completed"
    BY DEF CompletedRunHasEveryStep
  <2>1. Succeeded(s)
    BY DEF LifecycleInv, RowInv, GroupsInv
  <2>2. stepPc[s] = "returned"
    BY <2>1 DEF LifecycleInv, LocalInv, Succeeded
  <2>3. StepInv(s)
    BY <2>2 DEF LifecycleInv, IntactInv
  <2> QED
    BY <2>1, <2>2, <2>3 DEF StepInv, ReturnedInv, OutcomeIsRecorded, Succeeded
<1> QED
  BY <1>1, LifecycleInvariant, PTL

(* No interleaving of status updates counts a run twice.                     *)
THEOREM CountedOnce == LifecycleSpec => []CountedAtMostOnce
<1>1. LifecycleInv => CountedAtMostOnce
  BY DEF LifecycleInv, StatsInv, CountedAtMostOnce
<1> QED
  BY <1>1, LifecycleInvariant, PTL

(* Nothing refers to a run that is gone, even while its executor still writes. *)
THEOREM NothingIsOrphaned == LifecycleSpec => []NoOrphanRows
<1>1. LifecycleInv => NoOrphanRows
  BY DEF LifecycleInv
<1> QED
  BY <1>1, LifecycleInvariant, PTL

(* The order of the DAG holds in every life of a run: no step starts before its
   dependencies have succeeded, and none after a failure above it.           *)
THEOREM OrderSurvives == LifecycleSpec => [](StartedAfterDependencies /\ NothingRunsAfterFailure)
<1>1. LifecycleInv => StartedAfterDependencies
  <2> SUFFICES ASSUME LifecycleInv, NEW s \in Steps, stepPc[s] # "idle", NEW d \in Deps[s]
               PROVE  outcome[d] \in {"completed", "healed"}
    BY DEF StartedAfterDependencies
  <2>1. d \in Steps /\ Depth[d] < Depth[s] /\ Depth[d] \in Nat /\ Depth[s] \in Nat
    BY DepsAssumption
  <2>2. level \in Nat /\ ~(Depth[s] > level)
    BY DEF LifecycleInv, GroupsInv, LifecycleTypeOK, TypeOK, ExecTypeOK
  <2> QED
    BY <2>1, <2>2 DEF LifecycleInv, GroupsInv, Succeeded
<1>2. LifecycleInv => NothingRunsAfterFailure
  <2> SUFFICES ASSUME LifecycleInv, NEW d \in Steps, outcome[d] \in {"failed", "exception"},
                      NEW s \in Steps, Depth[s] > Depth[d]
               PROVE  stepPc[s] = "idle"
    BY DEF NothingRunsAfterFailure
  <2>1. Depth[d] \in Nat /\ Depth[s] \in Nat /\ level \in Nat
    BY DepsAssumption DEF LifecycleInv, LifecycleTypeOK, TypeOK, ExecTypeOK
  <2>2. ~(Depth[d] < level)
    BY DEF LifecycleInv, GroupsInv, Succeeded
  <2> QED
    BY <2>1, <2>2 DEF LifecycleInv, GroupsInv
<1> QED
  BY <1>1, <1>2, LifecycleInvariant, PTL

-----------------------------------------------------------------------------
(* A run taken up again after its process died (Resume).                     *)

(* The row of a step that is at work exists, and says 'completed' from the
   write on that the checkpoint follows.                                     *)
AtWork(s) ==
  /\ outcome[s] # "none" => stepPc[s] = "returned"
  /\ stepPc[s] \notin {"idle", "insert", "returned", "crashed"} => stepRow[s] # "absent"
  /\ stepPc[s] \in {"checkpoint", "heal_checkpoint"} \/ Succeeded(s) => stepRow[s] = "completed"
  /\ RetriesLeft(s)

(* Of the steps not started in this call, those in completed are the ones an
   earlier call has finished; they stay idle, and the rest of the groups the
   executor has passed succeeded in this one.                                *)
CallInv ==
  /\ execPc \in {"start", "write_invalid", "write_running", "load"} =>
       completed = {} /\ \A s \in Steps : stepPc[s] = "idle"
  /\ \A s \in completed : stepPc[s] = "idle" /\ stepRow[s] = "completed"
  /\ \A s \in Steps :
       /\ Depth[s] < level => Succeeded(s) \/ s \in completed
       /\ Depth[s] > level => stepPc[s] = "idle"
       /\ execPc = "dispatch" /\ Depth[s] = level => stepPc[s] = "idle"
       /\ execPc \in {"dispatch", "gather"} /\ stepPc[s] = "idle" /\ stepRow[s] = "completed" =>
            s \in completed

(* Success is reported after the last group only, and once.                  *)
CallEnds ==
  /\ verdict # "none" => execPc = "returned"
  /\ execPc = "write_completed" \/ verdict = "completed" => \A s \in Steps : Depth[s] < level

ResumeInv ==
  /\ TypeOK
  /\ \A s \in Steps : AtWork(s)
  /\ CallInv
  /\ CallEnds
  /\ CompletedStepsAreNotRepeated

(* One action of run_step keeps what is known of its step's row.             *)
LEMMA StepKeepsAtWork ==
  ASSUME NEW s \in Steps, TypeOK, AtWork(s), RunStep(s)
  PROVE  AtWork(s)'
<1> USE DEF TypeOK, StoreTypeOK, StepTypeOK, Goto, Return, HandleError, ShouldRetry, AtWork,
            Succeeded, RetriesLeft, InsertStep, UpdateStep, storeVars
<1>1. CASE InsertRow(s)       BY <1>1 DEF InsertRow
<1>2. CASE AgentSucceeds(s)   BY <1>2 DEF AgentSucceeds
<1>3. CASE AgentFails(s)      BY <1>3 DEF AgentFails
<1>4. CASE WriteCompleted(s)  BY <1>4 DEF WriteCompleted
<1>5. CASE SaveCheckpoint(s)  BY <1>5 DEF SaveCheckpoint
<1>6. CASE MarkRetrying(s)    BY <1>6 DEF MarkRetrying
<1>7. CASE Backoff(s)         BY <1>7 DEF Backoff
<1>8. CASE Heal(s)            BY <1>8 DEF Heal
<1>9. CASE WriteHealed(s)     BY <1>9 DEF WriteHealed
<1>10. CASE HealCheckpoint(s) BY <1>10 DEF HealCheckpoint
<1>11. CASE WriteFailed(s)    BY <1>11 DEF WriteFailed
<1>12. CASE WriteDeadLetter(s) BY <1>12 DEF WriteDeadLetter
<1> QED
  BY <1>1, <1>2, <1>3, <1>4, <1>5, <1>6, <1>7, <1>8, <1>9, <1>10, <1>11, <1>12 DEF RunStep

(* A step at work keeps the invariant of the run that was taken up again.    *)
LEMMA StepKeepsResume ==
  ASSUME NEW s \in Steps, ResumeInv, StepAction(s)
  PROVE  ResumeInv'
<1>1. RunStep(s) /\ UNCHANGED execVars /\ TypeOK /\ TypeOK' /\ AtWork(s)
  BY StepType DEF ResumeInv, StepAction, AtWork
<1>2. stepPc[s] \notin {"idle", "returned"} /\ stepPc'[s] \notin {"idle", "insert"}
  BY <1>1, StepOutside
<1>3. ASSUME NEW t \in Steps, t # s
      PROVE  Frame(t)
  BY <1>1, <1>3, StepFrame
<1>4. ASSUME NEW t \in Steps PROVE AtWork(t)'
  <2>1. CASE t = s
    BY <1>1, <2>1, StepKeepsAtWork
  <2>2. CASE t # s
    BY <1>3, <2>2 DEF ResumeInv, AtWork, Succeeded, RetriesLeft, Frame
  <2> QED BY <2>1, <2>2
<1>5. CallInv'
  BY <1>1, <1>2, <1>3, DepsAssumption
     DEF ResumeInv, CallInv, AtWork, Succeeded, Frame, execVars, TypeOK, ExecTypeOK
<1>6. CallEnds'
  BY <1>1 DEF ResumeInv, CallEnds, execVars
<1>7. CompletedStepsAreNotRepeated'
  BY <1>2, <1>3 DEF ResumeInv, CompletedStepsAreNotRepeated, Frame
<1> QED
  BY <1>1, <1>4, <1>5, <1>6, <1>7 DEF ResumeInv

(* The loop over the groups starts a step only when no call has completed it. *)
LEMMA ExecutorKeepsCall ==
  ASSUME TypeOK, CallInv, \A s \in Steps : AtWork(s), ExecuteWorkflow
  PROVE  CallInv'
<1> USE DepsAssumption DEF TypeOK, ExecTypeOK, StepTypeOK, CallInv, Succeeded, stepVars,
        storeVars, stepTables, ReturnRun
<1>1. CASE ValidateDag
  BY <1>1 DEF ValidateDag
<1>2. CASE WriteInvalid
  BY <1>2 DEF WriteInvalid
<1>3. CASE WriteRunning
  BY <1>3 DEF WriteRunning
<1>4. CASE LoadCompleted
  BY <1>4 DEF LoadCompleted, AtWork
<1>5. CASE execPc = "dispatch" /\ StartGroup
  BY <1>5 DEF StartGroup, pendingSteps, Group
<1>6. CASE execPc = "dispatch" /\ SkipGroup
  BY <1>6 DEF SkipGroup, pendingSteps, Group
<1>7. CASE AllGroupsDone
  BY <1>7 DEF AllGroupsDone
<1>8. CASE GatherGroup
  BY <1>8 DEF GatherGroup, pendingSteps, Group
<1>9. CASE WriteFailedRun
  BY <1>9 DEF WriteFailedRun, WriteOutcome
<1>10. CASE WriteCompletedRun
  BY <1>10 DEF WriteCompletedRun, WriteOutcome
<1>11. CASE WriteError
  BY <1>11 DEF WriteError
<1>12. CASE SafeWrite
  BY <1>12 DEF SafeWrite
<1> QED
  BY <1>1, <1>2, <1>3, <1>4, <1>5, <1>6, <1>7, <1>8, <1>9, <1>10, <1>11, <1>12
     DEF ExecuteWorkflow, DispatchGroup

(* execute_workflow keeps the invariant of the run that was taken up again.  *)
LEMMA ExecutorKeepsResume ==
  ASSUME ResumeInv, ExecuteWorkflow
  PROVE  ResumeInv'
<1>1. TypeOK /\ TypeOK' /\ CallInv /\ CallInv' /\ \A s \in Steps : AtWork(s)
  BY ExecutorType, ExecutorKeepsCall DEF ResumeInv
<1>2. UNCHANGED <<stepRow, attempt, outcome>>
  BY <1>1, ExecutorFrame DEF stepTables
<1>3. ASSUME NEW s \in Steps
      PROVE  stepPc'[s] = stepPc[s] \/ (s \in pendingSteps /\ stepPc[s] = "idle" /\ stepPc'[s] = "insert")
  <2>1. CASE execPc = "dispatch" /\ StartGroup
    BY <1>1, <2>1 DEF StartGroup, pendingSteps, Group, CallInv
  <2> QED BY <1>1, <2>1, ExecutorFrame
<1>4. \A s \in Steps : AtWork(s)'
  BY <1>1, <1>2, <1>3 DEF AtWork, Succeeded, RetriesLeft
<1>5. CompletedStepsAreNotRepeated'
  <2> SUFFICES ASSUME NEW s \in Steps, stepRow[s] = "completed" PROVE stepPc'[s] # "insert"
    BY <1>2 DEF CompletedStepsAreNotRepeated
  <2>1. stepPc[s] # "insert"
    BY DEF ResumeInv, CompletedStepsAreNotRepeated
  <2>2. CASE execPc = "dispatch" /\ StartGroup
    BY <1>1, <2>1, <2>2 DEF StartGroup, pendingSteps, CallInv, TypeOK, StepTypeOK,
       Group
  <2> QED BY <1>1, <2>1, <2>2, ExecutorFrame
<1>6. CallEnds'
  <2> USE DepsAssumption DEF TypeOK, ExecTypeOK, CallEnds, ReturnRun
  <2>0. CallEnds
    BY DEF ResumeInv
  <2>1. CASE ValidateDag
    BY <1>1, <2>0, <2>1 DEF ValidateDag
  <2>2. CASE WriteInvalid
    BY <1>1, <2>0, <2>2 DEF WriteInvalid
  <2>3. CASE WriteRunning
    BY <1>1, <2>0, <2>3 DEF WriteRunning
  <2>4. CASE LoadCompleted
    BY <1>1, <2>0, <2>4 DEF LoadCompleted
  <2>5. CASE execPc = "dispatch" /\ StartGroup
    BY <1>1, <2>0, <2>5 DEF StartGroup
  <2>6. CASE execPc = "dispatch" /\ SkipGroup
    BY <1>1, <2>0, <2>6 DEF SkipGroup
  <2>7. CASE AllGroupsDone
    BY <1>1, <2>0, <2>7 DEF AllGroupsDone
  <2>8. CASE GatherGroup
    BY <1>1, <2>0, <2>8 DEF GatherGroup
  <2>9. CASE WriteFailedRun
    BY <1>1, <2>0, <2>9 DEF WriteFailedRun, WriteOutcome
  <2>10. CASE WriteCompletedRun
    BY <1>1, <2>0, <2>10 DEF WriteCompletedRun, WriteOutcome
  <2>11. CASE WriteError
    BY <1>1, <2>0, <2>11 DEF WriteError
  <2>12. CASE SafeWrite
    BY <1>1, <2>0, <2>12 DEF SafeWrite
  <2> QED
    BY <2>1, <2>2, <2>3, <2>4, <2>5, <2>6, <2>7, <2>8, <2>9, <2>10, <2>11, <2>12
       DEF ExecuteWorkflow, DispatchGroup
<1> QED
  BY <1>1, <1>4, <1>5, <1>6 DEF ResumeInv

(* The end of the process leaves the tables, and what had been returned.      *)
LEMMA DieKeepsResume ==
  ASSUME ResumeInv, Die
  PROVE  ResumeInv'
<1> USE DEF Die, storeVars, ResumeInv
<1>1. TypeOK'
  BY DEF TypeOK, StoreTypeOK, StepTypeOK, ExecTypeOK, StepPc, ExecPc
<1>2. ASSUME NEW s \in Steps
      PROVE  /\ stepPc'[s] \in {stepPc[s], "crashed"}
             /\ stepPc[s] \in {"idle", "returned"} => stepPc'[s] = stepPc[s]
  OBVIOUS
<1>3. \A s \in Steps : AtWork(s)'
  BY <1>2 DEF AtWork, Succeeded, RetriesLeft
<1>4. CallInv'
  BY <1>2 DEF CallInv, Succeeded, TypeOK, ExecTypeOK
<1>5. CallEnds' /\ CompletedStepsAreNotRepeated'
  BY <1>2 DEF CallEnds, CompletedStepsAreNotRepeated
<1> QED
  BY <1>1, <1>3, <1>4, <1>5

(* A second call starts with locals of its own.                              *)
LEMMA CallAgainKeepsResume ==
  ASSUME ResumeInv, CallAgain
  PROVE  ResumeInv'
<1> USE DEF CallAgain, storeVars, ResumeInv
<1>1. TypeOK'
  BY RetryMaxAssumption
     DEF TypeOK, StoreTypeOK, StepTypeOK, ExecTypeOK, StepPc, ExecPc, StepState, WorkflowState,
         Outcome
<1>2. \A s \in Steps : AtWork(s)'
  BY DEF AtWork, Succeeded, RetriesLeft
<1>3. CallInv'
  BY DepsAssumption DEF CallInv, Succeeded
<1>4. CallEnds' /\ CompletedStepsAreNotRepeated'
  BY DEF CallEnds, CompletedStepsAreNotRepeated
<1> QED
  BY <1>1, <1>2, <1>3, <1>4

LEMMA ResumeStart == Init => ResumeInv
<1> SUFFICES ASSUME Init PROVE ResumeInv
  OBVIOUS
<1>1. TypeOK
  BY InitType
<1>2. /\ \A s \in Steps : AtWork(s)
      /\ CallInv /\ CallEnds /\ CompletedStepsAreNotRepeated
  BY DepsAssumption
     DEF Init, StoreInit, StepInit, ExecInit, AtWork, Succeeded, RetriesLeft, CallInv, CallEnds,
         CompletedStepsAreNotRepeated
<1> QED
  BY <1>1, <1>2 DEF ResumeInv

LEMMA ResumeStep == ResumeInv /\ [ResumeNext]_vars => ResumeInv'
<1> SUFFICES ASSUME ResumeInv, [ResumeNext]_vars PROVE ResumeInv'
  OBVIOUS
<1>1. CASE ExecuteWorkflow
  BY <1>1, ExecutorKeepsResume
<1>2. ASSUME NEW s \in Steps, StepAction(s) PROVE ResumeInv'
  BY <1>2, StepKeepsResume
<1>3. CASE Die
  BY <1>3, DieKeepsResume
<1>4. CASE CallAgain
  BY <1>4, CallAgainKeepsResume
<1>5. CASE UNCHANGED vars
  BY <1>5
     DEF vars, storeVars, stepVars, execVars, ResumeInv, TypeOK, StoreTypeOK, StepTypeOK, ExecTypeOK,
         AtWork, Succeeded, RetriesLeft, CallInv, CallEnds, CompletedStepsAreNotRepeated
<1> QED
  BY <1>1, <1>2, <1>3, <1>4, <1>5 DEF ResumeNext, Next, Finished

(* The inductive invariant of a run whose process dies and whose execution is
   called again, any number of times.                                        *)
THEOREM ResumeInvariant == ResumeSpec => []ResumeInv
<1> QED
  BY ResumeStart, ResumeStep, PTL DEF ResumeSpec

(* A step recorded as completed is never executed again, wherever and however
   often the process died.                                                   *)
THEOREM CompletedOnce == ResumeSpec => []CompletedStepsAreNotRepeated
<1>1. ResumeInv => CompletedStepsAreNotRepeated
  BY DEF ResumeInv
<1> QED
  BY <1>1, ResumeInvariant, PTL

(* The call that reports success has every step recorded as completed, by itself
   or by a call before it.                                                   *)
THEOREM ResumedCompleteness == ResumeSpec => []CompletedMeansEveryStep
<1>1. ResumeInv => CompletedMeansEveryStep
  BY DEF ResumeInv, CallEnds, CallInv, AtWork, Succeeded, CompletedMeansEveryStep
<1> QED
  BY <1>1, ResumeInvariant, PTL

(* A resumed run keeps the order of the DAG: a step starts after its dependencies
   have succeeded in this call or before it, and not after a failure above it. *)
THEOREM ResumedOrder == ResumeSpec => [](StartedAfterDependencies /\ NothingRunsAfterFailure)
<1>1. ResumeInv => StartedAfterDependencies
  <2> SUFFICES ASSUME ResumeInv, NEW s \in Steps, stepPc[s] # "idle", NEW d \in Deps[s]
               PROVE  outcome[d] \in {"completed", "healed"} \/ d \in completed
    BY DEF StartedAfterDependencies
  <2>1. d \in Steps /\ Depth[d] < Depth[s] /\ Depth[d] \in Nat /\ Depth[s] \in Nat
    BY DepsAssumption
  <2>2. level \in Nat /\ ~(Depth[s] > level)
    BY DEF ResumeInv, CallInv, TypeOK, ExecTypeOK
  <2> QED
    BY <2>1, <2>2 DEF ResumeInv, CallInv, Succeeded
<1>2. ResumeInv => NothingRunsAfterFailure
  <2> SUFFICES ASSUME ResumeInv, NEW d \in Steps, outcome[d] \in {"failed", "exception"},
                      NEW s \in Steps, Depth[s] > Depth[d]
               PROVE  stepPc[s] = "idle"
    BY DEF NothingRunsAfterFailure
  <2>1. Depth[d] \in Nat /\ Depth[s] \in Nat /\ level \in Nat
    BY DepsAssumption DEF ResumeInv, TypeOK, ExecTypeOK
  <2>2. ~(Depth[d] < level)
    BY DEF ResumeInv, CallInv, AtWork, Succeeded
  <2> QED
    BY <2>1, <2>2 DEF ResumeInv, CallInv
<1> QED
  BY <1>1, <1>2, ResumeInvariant, PTL
=============================================================================
