---------------------------- MODULE ExecutorProofs ----------------------------
(***************************************************************************)
(* Proofs about Executor for every DAG, every number of retries and with   *)
(* or without database errors.                                             *)
(***************************************************************************)
EXTENDS ExecutorInvariant, TLAPS

(* What a step that is not taking this action keeps.                         *)
Frame(t) ==
  /\ stepPc'[t] = stepPc[t]
  /\ stepStatus'[t] = stepStatus[t]
  /\ attempt'[t] = attempt[t]
  /\ outcome'[t] = outcome[t]
  /\ stepRow'[t] = stepRow[t]
  /\ checkpoint'[t] = checkpoint[t]
  /\ deadLetter'[t] = deadLetter[t]
  /\ dbErrors \subseteq dbErrors'

(* The error handling of the retry loop, taken from a state in which the local
   status and the tables are those of an attempt: types, and where it leads.   *)
LEMMA HandleErrorType ==
  ASSUME NEW s \in Steps, NEW permanent \in BOOLEAN, StepTypeOK,
         HandleError(s, permanent)
  PROVE  /\ stepPc' \in [Steps -> StepPc]
         /\ stepStatus' \in [Steps -> StepState]
         /\ outcome' \in [Steps -> Outcome]
BY DEF HandleError, StepTypeOK, Goto, Return, Transition, StepPc, StepState, Outcome

(* The initial state has the types.                                          *)
LEMMA InitType == Init => TypeOK
BY RetryMaxAssumption
   DEF Init, StoreInit, StepInit, ExecInit, TypeOK, StoreTypeOK, StepTypeOK, ExecTypeOK,
       RunStatus, WorkflowState, StepRowStatus, StepState, StepPc, Outcome, ExecPc

(* One action of run_step keeps the types.                                   *)
LEMMA StepType ==
  ASSUME NEW s \in Steps, TypeOK, RetriesLeft(s), StepAction(s)
  PROVE  TypeOK'
<1> USE DEF Goto, Return, Transition, UpdateStep, InsertStep, UpsertCheckpoint,
            InsertDeadLetter, StatementFails, ForeignKeyRefuses
<1>1. ExecTypeOK'
  BY DEF StepAction, execVars, TypeOK, ExecTypeOK
<1>2. run' = run /\ stats' = stats
  BY DEF StepAction, RunStep, InsertRow, AgentSucceeds, AgentFails, WriteCompleted,
         SaveCheckpoint, MarkRetrying, Backoff, Heal, WriteHealed, HealCheckpoint,
         WriteFailed, WriteDeadLetter, storeVars
<1>3. CASE InsertRow(s)
  BY <1>1, <1>2, <1>3 DEF InsertRow, TypeOK, StoreTypeOK, StepTypeOK, StepPc, StepState,
         Outcome, StepRowStatus
<1>4. CASE AgentSucceeds(s)
  BY <1>1, <1>2, <1>4 DEF AgentSucceeds, TypeOK, StoreTypeOK, StepTypeOK, StepPc, StepState,
         storeVars
<1>5. CASE AgentFails(s)
  BY <1>1, <1>2, <1>5, HandleErrorType DEF AgentFails, TypeOK, StoreTypeOK, StepTypeOK, storeVars
<1>6. CASE WriteCompleted(s)
  <2>1. StepTypeOK'
    BY <1>6, HandleErrorType DEF WriteCompleted, TypeOK, StepTypeOK, StepPc
  <2>2. StoreTypeOK'
    BY <1>6, <1>2 DEF WriteCompleted, TypeOK, StoreTypeOK, StepRowStatus, StepState
  <2> QED BY <1>1, <2>1, <2>2 DEF TypeOK
<1>7. CASE SaveCheckpoint(s)
  <2>1. StepTypeOK'
    BY <1>7, HandleErrorType DEF SaveCheckpoint, TypeOK, StepTypeOK, StepPc, Outcome
  <2>2. StoreTypeOK'
    BY <1>7, <1>2 DEF SaveCheckpoint, TypeOK, StoreTypeOK
  <2> QED BY <1>1, <2>1, <2>2 DEF TypeOK
<1>8. CASE MarkRetrying(s)
  BY <1>1, <1>2, <1>8 DEF MarkRetrying, TypeOK, StoreTypeOK, StepTypeOK, StepPc, StepState,
         Outcome, StepRowStatus
<1>9. CASE Backoff(s)
  BY <1>1, <1>2, <1>9, RetryMaxAssumption
     DEF Backoff, TypeOK, StoreTypeOK, StepTypeOK, StepPc, StepState, RetriesLeft, storeVars
<1>10. CASE Heal(s)
  BY <1>1, <1>2, <1>10 DEF Heal, TypeOK, StoreTypeOK, StepTypeOK, StepPc, StepState, Outcome,
         storeVars
<1>11. CASE WriteHealed(s)
  BY <1>1, <1>2, <1>11 DEF WriteHealed, TypeOK, StoreTypeOK, StepTypeOK, StepPc, StepState,
         Outcome, StepRowStatus
<1>12. CASE HealCheckpoint(s)
  BY <1>1, <1>2, <1>12 DEF HealCheckpoint, TypeOK, StoreTypeOK, StepTypeOK, StepPc, Outcome
<1>13. CASE WriteFailed(s)
  BY <1>1, <1>2, <1>13 DEF WriteFailed, TypeOK, StoreTypeOK, StepTypeOK, StepPc, StepState,
         Outcome, StepRowStatus
<1>14. CASE WriteDeadLetter(s)
  BY <1>1, <1>2, <1>14 DEF WriteDeadLetter, TypeOK, StoreTypeOK, StepTypeOK, StepPc, Outcome
<1> QED
  BY <1>3, <1>4, <1>5, <1>6, <1>7, <1>8, <1>9, <1>10, <1>11, <1>12, <1>13, <1>14
     DEF StepAction, RunStep

(* What the tables cannot disturb follows from the rest.                     *)
LEMMA StepInvIsLocal ==
  ASSUME NEW s \in Steps, StepInv(s)
  PROVE  LocalInv(s)
BY DEF StepInv, LocalInv, RetriesLeft

(* One action of execute_workflow keeps the types.                           *)
LEMMA ExecutorType ==
  ASSUME TypeOK, ExecuteWorkflow
  PROVE  TypeOK'
<1> USE DEF TypeOK, StoreTypeOK, StepTypeOK, ExecTypeOK, UpdateRun, UpdateStats, UpdateRunOk,
            UpdateRunFails, StatementFails, ReturnRun, TransitionRun, TransitionRunGuarded,
            RunStatus, WorkflowState, ExecPc, stepVars, storeVars, stepTables
<1>1. CASE ValidateDag
  BY <1>1 DEF ValidateDag
<1>2. CASE WriteInvalid
  BY <1>2 DEF WriteInvalid
<1>3. CASE WriteRunning
  BY <1>3 DEF WriteRunning
<1>4. CASE LoadCompleted
  BY <1>4 DEF LoadCompleted
<1>5. CASE execPc = "dispatch" /\ StartGroup
  BY <1>5 DEF StartGroup, StepPc
<1>6. CASE execPc = "dispatch" /\ SkipGroup
  BY <1>6 DEF SkipGroup
<1>7. CASE AllGroupsDone
  BY <1>7 DEF AllGroupsDone
<1>8. CASE GatherGroup
  BY <1>8 DEF GatherGroup
<1>9. CASE WriteFailedRun
  BY <1>9 DEF WriteFailedRun, WriteOutcome
<1>10. CASE WriteCompletedRun
  BY <1>10 DEF WriteCompletedRun, WriteOutcome
<1>11. CASE WriteError
  BY <1>11 DEF WriteError
<1>12. CASE SafeWrite
  BY <1>12 DEF SafeWrite
<1> QED
  BY <1>1, <1>2, <1>3, <1>4, <1>5, <1>6, <1>7, <1>8, <1>9, <1>10, <1>11, <1>12
     DEF ExecuteWorkflow, DispatchGroup

(* run_step of one step leaves the locals and the rows of every other step
   alone.                                                                    *)
LEMMA StepFrame ==
  ASSUME NEW s \in Steps, NEW t \in Steps, t # s, TypeOK, RunStep(s)
  PROVE  Frame(t)
<1> USE DEF Frame, TypeOK, StoreTypeOK, StepTypeOK, Goto, Return, Transition, HandleError,
            UpdateStep, InsertStep, UpsertCheckpoint, InsertDeadLetter, StatementFails,
            ForeignKeyRefuses, storeVars
<1>1. CASE InsertRow(s)       BY <1>1 DEF InsertRow
<1>2. CASE AgentSucceeds(s)   BY <1>2 DEF AgentSucceeds
<1>3. CASE AgentFails(s)      BY <1>3 DEF AgentFails
<1>4. CASE WriteCompleted(s)  BY <1>4 DEF WriteCompleted
<1>5. CASE SaveCheckpoint(s)  BY <1>5 DEF SaveCheckpoint
<1>6. CASE MarkRetrying(s)    BY <1>6 DEF MarkRetrying
<1>7. CASE Backoff(s)         BY <1>7 DEF Backoff
<1>8. CASE Heal(s)            BY <1>8 DEF Heal
<1>9. CASE WriteHealed(s)     BY <1>9 DEF WriteHealed
<1>10. CASE HealCheckpoint(s) BY <1>10 DEF HealCheckpoint
<1>11. CASE WriteFailed(s)    BY <1>11 DEF WriteFailed
<1>12. CASE WriteDeadLetter(s) BY <1>12 DEF WriteDeadLetter
<1> QED
  BY <1>1, <1>2, <1>3, <1>4, <1>5, <1>6, <1>7, <1>8, <1>9, <1>10, <1>11, <1>12 DEF RunStep

(* What one step knows of itself survives whatever leaves its row, its locals
   and its checkpoint alone.                                                 *)
LEMMA FrameKeepsStepInv ==
  ASSUME NEW t \in Steps, StepInv(t), Frame(t)
  PROVE  StepInv(t)'
BY DEF Frame, StepInv, InProgress, Recorded, ReturnedInv, OutcomeIsRecorded

(* One action of run_step keeps its own invariant.                           *)
LEMMA StepKeepsStepInv ==
  ASSUME NEW s \in Steps, TypeOK, StepInv(s), run # "deleted", RunStep(s)
  PROVE  StepInv(s)'
<1> USE DEF TypeOK, StoreTypeOK, StepTypeOK, Goto, Return, Transition, HandleError,
            CanTransitionStep, VALID_STEP_TRANSITIONS, ShouldRetry,
            UpdateStep, InsertStep, UpsertCheckpoint, InsertDeadLetter, StatementFails,
            ForeignKeyRefuses, RunReferenced, storeVars,
            StepInv, InProgress, Recorded, ReturnedInv, OutcomeIsRecorded
<1>1. CASE InsertRow(s)       BY <1>1 DEF InsertRow
<1>2. CASE AgentSucceeds(s)   BY <1>2 DEF AgentSucceeds
<1>3. CASE AgentFails(s)      BY <1>3 DEF AgentFails
<1>4. CASE WriteCompleted(s)  BY <1>4 DEF WriteCompleted
<1>5. CASE SaveCheckpoint(s)  BY <1>5 DEF SaveCheckpoint
<1>6. CASE MarkRetrying(s)    BY <1>6 DEF MarkRetrying
<1>7. CASE Backoff(s)         BY <1>7, RetryMaxAssumption DEF Backoff
<1>8. CASE Heal(s)            BY <1>8 DEF Heal
<1>9. CASE WriteHealed(s)     BY <1>9 DEF WriteHealed
<1>10. CASE HealCheckpoint(s) BY <1>10 DEF HealCheckpoint
<1>11. CASE WriteFailed(s)    BY <1>11 DEF WriteFailed
<1>12. CASE WriteDeadLetter(s) BY <1>12 DEF WriteDeadLetter
<1> QED
  BY <1>1, <1>2, <1>3, <1>4, <1>5, <1>6, <1>7, <1>8, <1>9, <1>10, <1>11, <1>12 DEF RunStep

(* What run_step touches outside its own step: only the log of errors; and it
   runs only for a step that was started and has not returned.               *)
LEMMA StepOutside ==
  ASSUME NEW s \in Steps, TypeOK, RunStep(s)
  PROVE  /\ UNCHANGED <<run, stats>>
         /\ stepPc[s] \notin {"idle", "returned", "crashed"}
         /\ stepPc'[s] \notin {"idle", "insert"}
         /\ outcome[s] \in {"completed", "healed"} => outcome'[s] # "none"
<1> USE DEF TypeOK, StoreTypeOK, StepTypeOK, Goto, Return, HandleError, storeVars
<1>1. CASE InsertRow(s)       BY <1>1 DEF InsertRow
<1>2. CASE AgentSucceeds(s)   BY <1>2 DEF AgentSucceeds
<1>3. CASE AgentFails(s)      BY <1>3 DEF AgentFails
<1>4. CASE WriteCompleted(s)  BY <1>4 DEF WriteCompleted
<1>5. CASE SaveCheckpoint(s)  BY <1>5 DEF SaveCheckpoint
<1>6. CASE MarkRetrying(s)    BY <1>6 DEF MarkRetrying
<1>7. CASE Backoff(s)         BY <1>7 DEF Backoff
<1>8. CASE Heal(s)            BY <1>8 DEF Heal
<1>9. CASE WriteHealed(s)     BY <1>9 DEF WriteHealed
<1>10. CASE HealCheckpoint(s) BY <1>10 DEF HealCheckpoint
<1>11. CASE WriteFailed(s)    BY <1>11 DEF WriteFailed
<1>12. CASE WriteDeadLetter(s) BY <1>12 DEF WriteDeadLetter
<1> QED
  BY <1>1, <1>2, <1>3, <1>4, <1>5, <1>6, <1>7, <1>8, <1>9, <1>10, <1>11, <1>12 DEF RunStep

(* The inductive invariant holds before execute_workflow is called.          *)
LEMMA InitInv == Init => IInv
<1> SUFFICES ASSUME Init PROVE IInv
  OBVIOUS
<1>1. TypeOK
  BY InitType
<1>2. \A s \in Steps : StepInv(s)
  BY DEF Init, StoreInit, StepInit, StepInv
<1>3. ScheduleInv
  BY DepsAssumption DEF Init, StepInit, ExecInit, ScheduleInv
<1>4. VerdictInv
  BY DEF Init, StoreInit, ExecInit, VerdictInv
<1> QED
  BY <1>1, <1>2, <1>3, <1>4 DEF IInv

(* A step is at work only while the executor gathers its group, so that the
   schedule is kept.                                                         *)
LEMMA StepKeepsSchedule ==
  ASSUME NEW s \in Steps, TypeOK, ScheduleInv, LocalInv(s), StepAction(s)
  PROVE  ScheduleInv' /\ execPc = "gather"
<1>1. RunStep(s) /\ UNCHANGED execVars
  BY DEF StepAction
<1>2. stepPc[s] \notin {"idle", "returned"} /\ stepPc'[s] # "idle" /\ execPc = "gather"
  BY <1>1, StepOutside DEF ScheduleInv
<1>3. Depth[s] = level
  <2>1. ~ (Depth[s] > level)
    BY <1>2 DEF ScheduleInv
  <2>2. ~ (Depth[s] < level)
    BY <1>2 DEF ScheduleInv, LocalInv, Succeeded
  <2> QED BY <2>1, <2>2, DepsAssumption DEF TypeOK, ExecTypeOK
<1>4. ASSUME NEW t \in Steps, t # s
      PROVE  stepPc'[t] = stepPc[t] /\ outcome'[t] = outcome[t]
  BY <1>4, <1>1, StepFrame DEF Frame
<1> QED
  BY <1>1, <1>2, <1>3, <1>4, DepsAssumption
     DEF ScheduleInv, Succeeded, execVars, TypeOK, ExecTypeOK

(* A step at work keeps the invariant.                                       *)
LEMMA StepActionInv ==
  ASSUME NEW s \in Steps, IInv, StepAction(s)
  PROVE  IInv'
<1>1. RunStep(s) /\ UNCHANGED execVars
  BY DEF StepAction
<1>2. TypeOK' /\ ScheduleInv'
  BY StepType, StepInvIsLocal, StepKeepsSchedule DEF IInv, LocalInv
<1>3. ASSUME NEW t \in Steps PROVE StepInv(t)'
  <2>1. CASE t = s
    BY <2>1, <1>1, StepKeepsStepInv DEF IInv, VerdictInv
  <2>2. CASE t # s
    BY <2>2, <1>1, StepFrame, FrameKeepsStepInv DEF IInv
  <2> QED BY <2>1, <2>2
<1>4. VerdictInv'
  BY <1>1, StepOutside DEF IInv, VerdictInv, execVars
<1> QED
  BY <1>2, <1>3, <1>4 DEF IInv

(* execute_workflow leaves the steps alone, but for starting some.           *)
LEMMA ExecutorFrame ==
  ASSUME TypeOK, ExecuteWorkflow
  PROVE  /\ UNCHANGED <<stepTables, stepStatus, attempt, outcome>>
         /\ (execPc = "dispatch" /\ StartGroup) \/ UNCHANGED stepPc
         /\ dbErrors \subseteq dbErrors'
BY DEF ExecuteWorkflow, ValidateDag, WriteInvalid, WriteRunning, LoadCompleted, DispatchGroup,
       StartGroup,
       SkipGroup, AllGroupsDone, GatherGroup, WriteFailedRun, WriteCompletedRun, WriteOutcome,
       WriteError, SafeWrite, UpdateRunOk, UpdateRunFails, StatementFails, storeVars, stepVars,
       stepTables

(* Dispatching a group or settling the run keeps every step's own invariant. *)
LEMMA ExecutorKeepsStepInv ==
  ASSUME TypeOK, ScheduleInv, ExecuteWorkflow, NEW t \in Steps, StepInv(t)
  PROVE  StepInv(t)'
<1>1. CASE UNCHANGED stepPc
  BY <1>1, ExecutorFrame, FrameKeepsStepInv DEF Frame, stepTables
<1>2. CASE execPc = "dispatch" /\ StartGroup
  <2>1. stepPc'[t] = stepPc[t] \/ (stepPc[t] = "idle" /\ stepPc'[t] = "insert")
    <3>1. t \in pendingSteps => stepPc[t] = "idle"
      BY <1>2 DEF StartGroup, pendingSteps, Group, ScheduleInv
    <3> QED BY <1>2, <3>1 DEF StartGroup
  <2>2. CASE stepPc'[t] = stepPc[t]
    BY <2>2, ExecutorFrame, FrameKeepsStepInv DEF Frame, stepTables
  <2>3. CASE stepPc[t] = "idle" /\ stepPc'[t] = "insert"
    BY <1>2, <2>3 DEF StartGroup, StepInv, storeVars
  <2> QED
    BY <2>1, <2>2, <2>3
<1> QED
  BY <1>1, <1>2, ExecutorFrame

(* The loop over the groups keeps the schedule: shallower groups are gathered,
   deeper ones untouched.                                                    *)
LEMMA ExecutorKeepsSchedule ==
  ASSUME TypeOK, ScheduleInv, \A s \in Steps : LocalInv(s), ExecuteWorkflow
  PROVE  ScheduleInv'
<1> USE DepsAssumption DEF TypeOK, ExecTypeOK, StepTypeOK, ScheduleInv, Succeeded,
        stepVars, storeVars
<1>1. CASE ValidateDag
  BY <1>1 DEF ValidateDag
<1>2. CASE WriteInvalid
  BY <1>2 DEF WriteInvalid, ReturnRun
<1>3. CASE WriteRunning
  BY <1>3 DEF WriteRunning
<1>4. CASE LoadCompleted
  BY <1>4 DEF LoadCompleted, LocalInv
<1>5. CASE execPc = "dispatch" /\ StartGroup
  BY <1>5 DEF StartGroup, pendingSteps, Group
<1>6. CASE execPc = "dispatch" /\ SkipGroup
  BY <1>6 DEF SkipGroup, pendingSteps, Group
<1>7. CASE AllGroupsDone
  BY <1>7 DEF AllGroupsDone
<1>8. CASE GatherGroup
  <2>1. \A t \in Steps : Depth[t] = level <=> t \in pendingSteps
    BY DEF pendingSteps, Group
  <2>2. execPc = "gather" /\ \A t \in pendingSteps : stepPc[t] = "returned"
    BY <1>8 DEF GatherGroup
  <2>3. UNCHANGED <<stepPc, outcome, completed>>
    BY <1>8 DEF GatherGroup
  <2>4. ASSUME NEW t \in Steps PROVE stepPc[t] \in {"idle", "returned"}
    <3>1. CASE Depth[t] < level BY <3>1 DEF LocalInv
    <3>2. CASE Depth[t] = level BY <3>2, <2>1, <2>2
    <3>3. CASE Depth[t] > level BY <3>3
    <3> QED BY <3>1, <3>2, <3>3
  <2>5. CASE (\A t \in pendingSteps : Succeeded(t)) /\ level' = level + 1 /\ execPc' = "dispatch"
    <3>1. ASSUME NEW t \in Steps, Depth[t] < level + 1 PROVE Succeeded(t)
      BY <2>1, <2>5, <3>1
    <3> QED BY <2>3, <2>4, <2>5, <3>1
  <2>6. CASE UNCHANGED level /\ execPc' \in {"write_error", "write_failed"}
    BY <2>3, <2>4, <2>6
  <2> QED
    <3> HIDE DEF ScheduleInv
    <3> QED BY <1>8, <2>5, <2>6 DEF GatherGroup
<1>9. CASE WriteFailedRun
  BY <1>9 DEF WriteFailedRun, WriteOutcome, ReturnRun
<1>10. CASE WriteCompletedRun
  BY <1>10 DEF WriteCompletedRun, WriteOutcome, ReturnRun
<1>11. CASE WriteError
  BY <1>11 DEF WriteError, ReturnRun
<1>12. CASE SafeWrite
  BY <1>12 DEF SafeWrite, ReturnRun
<1> QED
  BY <1>1, <1>2, <1>3, <1>4, <1>5, <1>6, <1>7, <1>8, <1>9, <1>10, <1>11, <1>12
     DEF ExecuteWorkflow, DispatchGroup

(* The executor's writes keep the run's row, the local status and the verdict
   in agreement.                                                             *)
LEMMA ExecutorKeepsVerdict ==
  ASSUME IInv, ExecuteWorkflow
  PROVE  VerdictInv'
<1> USE DEF IInv, TypeOK, StoreTypeOK, ExecTypeOK, VerdictInv, ReturnRun, UpdateRunOk,
        UpdateRunFails, UpdateRun, TransitionRun, TransitionRunGuarded, storeVars
<1>1. CASE ValidateDag
  BY <1>1 DEF ValidateDag
<1>2. CASE WriteInvalid
  BY <1>2 DEF WriteInvalid
<1>3. CASE WriteRunning
  BY <1>3 DEF WriteRunning
<1>4. CASE LoadCompleted
  BY <1>4 DEF LoadCompleted
<1>5. CASE execPc = "dispatch" /\ StartGroup
  BY <1>5 DEF StartGroup
<1>6. CASE execPc = "dispatch" /\ SkipGroup
  BY <1>6 DEF SkipGroup
<1>7. CASE AllGroupsDone
  BY <1>7 DEF AllGroupsDone
<1>8. CASE GatherGroup
  BY <1>8 DEF GatherGroup
<1>9. CASE WriteFailedRun
  BY <1>9 DEF WriteFailedRun, WriteOutcome
<1>10. CASE WriteCompletedRun
  BY <1>10 DEF WriteCompletedRun, WriteOutcome
<1>11. CASE WriteError
  BY <1>11 DEF WriteError
<1>12. CASE SafeWrite
  BY <1>12 DEF SafeWrite
<1> QED
  BY <1>1, <1>2, <1>3, <1>4, <1>5, <1>6, <1>7, <1>8, <1>9, <1>10, <1>11, <1>12
     DEF ExecuteWorkflow, DispatchGroup

(* A step that changes nothing keeps the invariant.                          *)
LEMMA StutterKeepsInv ==
  ASSUME IInv, UNCHANGED vars
  PROVE  IInv'
<1> USE DEF vars, storeVars, stepVars, execVars
<1>1. TypeOK'
  BY DEF IInv, TypeOK, StoreTypeOK, StepTypeOK, ExecTypeOK
<1>2. ASSUME NEW t \in Steps PROVE StepInv(t)'
  BY FrameKeepsStepInv DEF IInv, Frame
<1>3. ScheduleInv'
  BY DEF IInv, ScheduleInv, Succeeded
<1>4. VerdictInv'
  BY DEF IInv, VerdictInv
<1> QED
  BY <1>1, <1>2, <1>3, <1>4 DEF IInv

(* Every step of the program keeps the invariant.                            *)
LEMMA NextInv == IInv /\ [Next]_vars => IInv'
<1> SUFFICES ASSUME IInv, [Next]_vars PROVE IInv'
  OBVIOUS
<1>1. CASE ExecuteWorkflow
  <2>1. TypeOK'
    BY <1>1, ExecutorType DEF IInv
  <2> QED
    BY <1>1, <2>1, StepInvIsLocal, ExecutorKeepsStepInv, ExecutorKeepsSchedule,
       ExecutorKeepsVerdict DEF IInv
<1>2. ASSUME NEW s \in Steps, StepAction(s) PROVE IInv'
  BY <1>2, StepActionInv
<1>3. CASE UNCHANGED vars
  BY <1>3, StutterKeepsInv
<1> QED
  BY <1>1, <1>2, <1>3 DEF Next, Finished

(* The inductive invariant, for every DAG and every number of retries.       *)
THEOREM Invariant == Spec => []IInv
<1> QED
  BY InitInv, NextInv, PTL DEF Spec

(* Types, among them the bounds of every step's attempt and retry counters.  *)
THEOREM TypeCorrect == Spec => []TypeOK
<1>1. IInv => TypeOK
  BY DEF IInv
<1> QED
  BY <1>1, Invariant, PTL

(* The schedule puts a step after the steps it depends on.                   *)
LEMMA DependenciesFirst == IInv => StartedAfterDependencies
<1> SUFFICES ASSUME IInv, NEW s \in Steps, stepPc[s] # "idle", NEW d \in Deps[s]
             PROVE  outcome[d] \in {"completed", "healed"}
  BY DEF StartedAfterDependencies
<1>1. d \in Steps /\ Depth[d] < Depth[s] /\ Depth[d] \in Nat /\ Depth[s] \in Nat
  BY DepsAssumption
<1>2. level \in Nat /\ ~(Depth[s] > level)
  BY DEF IInv, ScheduleInv, TypeOK, ExecTypeOK
<1> QED
  BY <1>1, <1>2 DEF IInv, ScheduleInv, Succeeded

(* No step runs before the steps it depends on have succeeded.               *)
THEOREM DependencyOrder == Spec => []StartedAfterDependencies
<1> QED
  BY DependenciesFirst, Invariant, PTL

(* Success is reported only when every step has succeeded and is recorded.   *)
THEOREM Completeness == Spec => []CompletedMeansEveryStep
<1>1. IInv => CompletedMeansEveryStep
  <2> SUFFICES ASSUME IInv, verdict = "completed", NEW s \in Steps
               PROVE  outcome[s] \in {"completed", "healed"} /\ stepRow[s] = "completed"
    BY DEF CompletedMeansEveryStep
  <2>1. outcome[s] \in {"completed", "healed"}
    BY DEF IInv, VerdictInv, ScheduleInv, Succeeded
  <2>2. stepPc[s] = "returned"
    BY <2>1 DEF IInv, StepInv
  <2> QED
    BY <2>1, <2>2 DEF IInv, StepInv, ReturnedInv, OutcomeIsRecorded
<1> QED
  BY <1>1, Invariant, PTL

(* A failed step stops every deeper group, whatever else its group is doing. *)
THEOREM FailureStops == Spec => []NothingRunsAfterFailure
<1>1. IInv => NothingRunsAfterFailure
  <2> SUFFICES ASSUME IInv, NEW d \in Steps, outcome[d] \in {"failed", "exception"},
                      NEW s \in Steps, Depth[s] > Depth[d]
               PROVE  stepPc[s] = "idle"
    BY DEF NothingRunsAfterFailure
  <2>1. Depth[d] \in Nat /\ Depth[s] \in Nat /\ level \in Nat
    BY DepsAssumption DEF IInv, TypeOK, ExecTypeOK
  <2>2. ~(Depth[d] < level)
    BY DEF IInv, ScheduleInv, Succeeded
  <2> QED
    BY <2>1, <2>2 DEF IInv, ScheduleInv
<1> QED
  BY <1>1, Invariant, PTL

(* The four tables tell the truth about every step the executor heard of, and
   a step raises only because the database failed it.                        *)
THEOREM Bookkeeping ==
  Spec => [](OutcomesAreRecorded /\ RaisesOnlyOnDbError /\ DeadLetterIsAFailure)
<1>1. IInv => OutcomesAreRecorded
  <2> SUFFICES ASSUME IInv, NEW s \in Steps PROVE OutcomeIsRecorded(s)
    BY DEF OutcomesAreRecorded
  <2> QED
    BY DEF IInv, StepInv, ReturnedInv, OutcomeIsRecorded
<1>2. IInv => RaisesOnlyOnDbError
  BY DEF IInv, StepInv, ReturnedInv, RaisesOnlyOnDbError
<1>3. IInv => DeadLetterIsAFailure
  BY DEF IInv, StepInv, ReturnedInv, DeadLetterIsAFailure
<1> QED
  BY <1>1, <1>2, <1>3, Invariant, PTL

(* The run's row and the verdict agree, and no step outlives the run.        *)
THEOREM RunIsSettled == Spec => [](RunRowMatchesVerdict /\ NoStepOutlivesTheRun)
<1>1. IInv => RunRowMatchesVerdict
  BY DEF IInv, VerdictInv, RunRowMatchesVerdict
<1>2. IInv => NoStepOutlivesTheRun
  BY DEF IInv, ScheduleInv, NoStepOutlivesTheRun
<1> QED
  BY <1>1, <1>2, Invariant, PTL

-----------------------------------------------------------------------------

(* run_step of any step leaves a row that is completed as it is.             *)
LEMMA StepKeepsCompletedRow ==
  ASSUME NEW s \in Steps, TypeOK, StepInv(s), RunStep(s), stepRow[s] = "completed"
  PROVE  stepRow'[s] = "completed"
<1> USE DEF TypeOK, StoreTypeOK, StepInv, InProgress, UpdateStep, storeVars
<1>1. CASE InsertRow(s)       BY <1>1 DEF InsertRow
<1>2. CASE AgentSucceeds(s)   BY <1>2 DEF AgentSucceeds
<1>3. CASE AgentFails(s)      BY <1>3 DEF AgentFails
<1>4. CASE WriteCompleted(s)  BY <1>4 DEF WriteCompleted
<1>5. CASE SaveCheckpoint(s)  BY <1>5 DEF SaveCheckpoint
<1>6. CASE MarkRetrying(s)    BY <1>6 DEF MarkRetrying
<1>7. CASE Backoff(s)         BY <1>7 DEF Backoff
<1>8. CASE Heal(s)            BY <1>8 DEF Heal
<1>9. CASE WriteHealed(s)     BY <1>9 DEF WriteHealed
<1>10. CASE HealCheckpoint(s) BY <1>10 DEF HealCheckpoint
<1>11. CASE WriteFailed(s)    BY <1>11 DEF WriteFailed
<1>12. CASE WriteDeadLetter(s) BY <1>12 DEF WriteDeadLetter
<1> QED
  BY <1>1, <1>2, <1>3, <1>4, <1>5, <1>6, <1>7, <1>8, <1>9, <1>10, <1>11, <1>12 DEF RunStep

(* A completed row is never rewritten, neither by the retry loop nor by the
   healer nor by the failure path of its own step or of another.             *)
THEOREM CompletedIsFinal == Spec => CompletedRowIsFinal
<1>1. ASSUME IInv, [Next]_vars, NEW t \in Steps, stepRow[t] = "completed"
      PROVE  stepRow'[t] = "completed"
  <2>1. ASSUME NEW s \in Steps, StepAction(s) PROVE stepRow'[t] = "completed"
    BY <1>1, <2>1, StepFrame, StepKeepsCompletedRow DEF IInv, StepAction, Frame
  <2>2. CASE ExecuteWorkflow
    BY <1>1, <2>2, ExecutorFrame DEF IInv, stepTables
  <2>3. CASE UNCHANGED vars
    BY <1>1, <2>3 DEF vars, storeVars
  <2> QED
    BY <1>1, <2>1, <2>2, <2>3 DEF Next, Finished
<1>2. IInv /\ [Next]_vars =>
        [\A s \in Steps :
           stepRow[s] = "completed" => stepRow'[s] \in {"completed", "absent"}]_<<storeVars, stepVars>>
  BY <1>1
<1> QED
  BY <1>2, Invariant, PTL DEF Spec, CompletedRowIsFinal

(* The local status moves only along VALID_WORKFLOW_TRANSITIONS.             *)
THEOREM LegalStatus == Spec => LocalStatusIsLegal
<1>1. ASSUME [Next]_vars, localStatus' # localStatus
      PROVE  CanTransitionWorkflow(localStatus, localStatus')
  <2>1. CASE ExecuteWorkflow
    BY <1>1, <2>1
       DEF ExecuteWorkflow, ValidateDag, WriteInvalid, WriteRunning, LoadCompleted,
           DispatchGroup, StartGroup, SkipGroup, AllGroupsDone, GatherGroup, WriteFailedRun,
           WriteCompletedRun, WriteOutcome, WriteError, SafeWrite,
           TransitionRun, TransitionRunGuarded
  <2> QED
    BY <1>1, <2>1 DEF Next, StepAction, Finished, vars, execVars
<1>2. [Next]_vars =>
        [localStatus' # localStatus => CanTransitionWorkflow(localStatus, localStatus')]_vars
  BY <1>1
<1> QED
  BY <1>2, PTL DEF Spec, LocalStatusIsLegal

-----------------------------------------------------------------------------

(* The refinement: Steps as they succeed are the done of DagRun, the verdict
   is its phase.                                                             *)
Done == completed \cup {s \in Steps : outcome[s] \in {"completed", "healed"}}

(* A step that has succeeded stays so while another step, or itself, runs.   *)
LEMMA SucceededIsStable ==
  ASSUME NEW s \in Steps, IInv, RunStep(s)
  PROVE  \/ outcome' = outcome
         \/ /\ outcome[s] = "none"
            /\ \E o \in Outcome : outcome' = [outcome EXCEPT ![s] = o]
<1>1. outcome[s] = "none"
  BY StepOutside DEF IInv, StepInv
<1>2. outcome' = outcome \/ \E o \in Outcome : outcome' = [outcome EXCEPT ![s] = o]
  BY DEF RunStep, InsertRow, AgentSucceeds, AgentFails, WriteCompleted, SaveCheckpoint,
         MarkRetrying, Backoff, Heal, WriteHealed, HealCheckpoint, WriteFailed,
         WriteDeadLetter, HandleError, Goto, Return, Outcome
<1> QED
  BY <1>1, <1>2

(* A step of run_step is a Complete of the abstract run, or invisible to it.  *)
LEMMA StepRefines ==
  ASSUME NEW s \in Steps, IInv, IInv', StepAction(s)
  PROVE  [AbstractRun!Next]_AbstractRun!vars
<1>1. UNCHANGED <<completed, verdict, execPc>> /\ RunStep(s)
  BY DEF StepAction, execVars
<1>2. execPc = "gather" /\ verdict = "none" /\ completed = {}
  BY <1>1, StepOutside DEF IInv, ScheduleInv, VerdictInv
<1>3. CASE outcome' = outcome
  BY <1>1, <1>3 DEF AbstractRun!vars
<1>4. ASSUME outcome[s] = "none", NEW o \in Outcome, outcome' = [outcome EXCEPT ![s] = o]
      PROVE  [AbstractRun!Next]_AbstractRun!vars
  <2>1. outcome \in [Steps -> Outcome]
    BY DEF IInv, TypeOK, StepTypeOK
  <2>2. CASE o \notin {"completed", "healed"}
    <3>1. Done' = Done
      BY <1>1, <1>4, <2>1, <2>2 DEF Done
    <3> QED
      BY <1>1, <3>1 DEF AbstractRun!vars, Done
  <2>3. CASE o \in {"completed", "healed"}
    <3>1. Done' = Done \cup {s} /\ s \notin Done
      BY <1>1, <1>2, <1>4, <2>1, <2>3 DEF Done
    <3>2. Deps[s] \subseteq Done
      BY <1>1, <1>2, DependenciesFirst, StepOutside, DepsAssumption
         DEF StartedAfterDependencies, Done, IInv
    <3>3. AbstractRun!Complete(s)
      BY <1>1, <1>2, <3>1, <3>2 DEF AbstractRun!Complete, Done
    <3> QED
      BY <3>3 DEF AbstractRun!Next
  <2> QED BY <2>2, <2>3
<1> QED
  BY <1>1, <1>3, <1>4, SucceededIsStable

(* A step of execute_workflow ends the abstract run, or is invisible to it.   *)
LEMMA ExecutorRefines ==
  ASSUME IInv, IInv', ExecuteWorkflow
  PROVE  [AbstractRun!Next]_AbstractRun!vars
<1>1. UNCHANGED Done
  BY ExecutorFrame DEF IInv, ScheduleInv, Done
<1>2. verdict = "none"
  BY DEF ExecuteWorkflow, ValidateDag, WriteInvalid, WriteRunning, LoadCompleted,
         DispatchGroup, StartGroup, SkipGroup, AllGroupsDone, GatherGroup, WriteFailedRun,
         WriteCompletedRun, WriteOutcome, WriteError, SafeWrite, IInv, VerdictInv
<1>3. CASE verdict' = "none"
  BY <1>1, <1>2, <1>3 DEF AbstractRun!vars, Done
<1>4. CASE verdict' = "completed"
  <2>1. Done = Steps
    BY <1>1, <1>4 DEF IInv, VerdictInv, ScheduleInv, Succeeded, Done
  <2>2. AbstractRun!Succeed
    BY <1>1, <1>2, <1>4, <2>1 DEF AbstractRun!Succeed, Done
  <2> QED BY <2>2 DEF AbstractRun!Next
<1>5. CASE verdict' \in {"failed", "raised"}
  <2>1. AbstractRun!Fail
    BY <1>1, <1>2, <1>5 DEF AbstractRun!Fail, Done
  <2> QED BY <2>1 DEF AbstractRun!Next
<1> QED
  BY <1>3, <1>4, <1>5 DEF IInv, TypeOK, ExecTypeOK

(* The executor implements the abstract run, safety part: whatever it does is
   a step of DagRun or invisible to it.                                      *)
THEOREM Refinement == Spec => AbstractRun!Init /\ [][AbstractRun!Next]_AbstractRun!vars
<1>1. Init => AbstractRun!Init
  BY DEF Init, StepInit, ExecInit, AbstractRun!Init
<1>2. IInv /\ IInv' /\ [Next]_vars => [AbstractRun!Next]_AbstractRun!vars
  <2> SUFFICES ASSUME IInv, IInv', [Next]_vars PROVE [AbstractRun!Next]_AbstractRun!vars
    OBVIOUS
  <2>1. CASE UNCHANGED vars
    BY <2>1 DEF AbstractRun!vars, vars, stepVars, execVars
  <2> QED
    BY <2>1, StepRefines, ExecutorRefines DEF Next, Finished
<1> QED
  BY <1>1, <1>2, Invariant, PTL DEF Spec
=============================================================================
