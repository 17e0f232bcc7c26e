-------------------------- MODULE ExecutorInvariant --------------------------
(***************************************************************************)
(* The inductive invariant of Executor.  Its properties say what is true   *)
(* at the end of a step or of the run; this says what is true at every     *)
(* await in between, which is what makes them hold.  MCExecutor checks it  *)
(* and ExecutorProofs proves it.                                           *)
(***************************************************************************)
EXTENDS Executor

(* The row of the step has been inserted and says nothing final; neither a
   checkpoint nor a dead letter has been written.                            *)
InProgress(s) ==
  /\ stepRow[s] \in {"running", "retrying"}
  /\ checkpoint[s] = "none"
  /\ deadLetter[s] = 0

Recorded(s) ==
  /\ stepRow[s] = "completed"
  /\ checkpoint[s] = "none"
  /\ deadLetter[s] = 0

(* What run_step returned is in the tables, and an exception has a cause.    *)
ReturnedInv(s) ==
  /\ outcome[s] # "none"
  /\ OutcomeIsRecorded(s)
  /\ outcome[s] = "exception" => s \in dbErrors
  /\ deadLetter[s] <= 1
  /\ deadLetter[s] = 1 => stepRow[s] = "failed"

(* The local status, the row, the checkpoint and the dead letter of a step at
   each of its awaits.                                                       *)
StepInv(s) ==
  /\ stepPc[s] # "crashed"
  /\ stepPc[s] # "returned" => outcome[s] = "none" /\ deadLetter[s] = 0
  /\ stepPc[s] \in {"idle", "insert"} =>
       stepStatus[s] = "pending" /\ stepRow[s] = "absent" /\ checkpoint[s] = "none"
  /\ stepPc[s] = "attempt" => stepStatus[s] = "running" /\ InProgress(s)
  /\ stepPc[s] \in {"mark_retrying", "backoff"} =>
       stepStatus[s] = "retrying" /\ attempt[s] < RetryMax /\ InProgress(s)
  /\ stepPc[s] \in {"write_completed", "write_healed"} =>
       stepStatus[s] = "completed" /\ InProgress(s)
  /\ stepPc[s] \in {"checkpoint", "heal_checkpoint"} =>
       stepStatus[s] = "completed" /\ Recorded(s)
  /\ stepPc[s] = "heal" =>
       \/ stepStatus[s] = "running" /\ InProgress(s)
       \/ stepStatus[s] = "completed" /\ s \in dbErrors
  /\ stepPc[s] = "write_failed" => stepStatus[s] = "failed" /\ InProgress(s)
  /\ stepPc[s] = "dead_letter" => stepStatus[s] = "failed" /\ stepRow[s] = "failed"
  /\ stepPc[s] = "returned" => ReturnedInv(s)

(* A retry under way is one that the policy allows.                          *)
RetriesLeft(s) == stepPc[s] \in {"mark_retrying", "backoff"} => attempt[s] < RetryMax

(* The part of it that no other writer of the tables can disturb.            *)
LocalInv(s) ==
  /\ outcome[s] # "none" => stepPc[s] = "returned"
  /\ stepPc[s] \in {"idle", "insert"} => stepRow[s] = "absent"
  /\ RetriesLeft(s)

(* The steps the executor has started, by the group it is at.                *)
ScheduleInv ==
  /\ completed = {}
  /\ execPc \in {"start", "write_invalid", "write_running", "load"} =>
       \A s \in Steps : stepPc[s] = "idle"
  /\ \A s \in Steps :
       /\ Depth[s] < level => Succeeded(s)
       /\ Depth[s] > level => stepPc[s] = "idle"
       /\ execPc # "gather" => stepPc[s] \in {"idle", "returned"}
       /\ execPc = "dispatch" /\ Depth[s] = level => stepPc[s] = "idle"
       /\ execPc = "gather" /\ Depth[s] = level => stepPc[s] # "idle"

(* The verdict, the local status and the row of the run.                     *)
VerdictInv ==
  /\ run # "deleted"
  /\ execPc # "crashed"
  /\ verdict = "none" <=> execPc # "returned"
  /\ verdict = "completed" => \A s \in Steps : Depth[s] < level
  /\ execPc = "write_completed" => \A s \in Steps : Depth[s] < level
  /\ verdict \in {"completed", "failed"} => run = verdict
  /\ execPc \in {"start"} => localStatus = "queued"
  /\ execPc \in {"write_running", "load", "dispatch", "gather"} => localStatus = "running"

IInv ==
  /\ TypeOK
  /\ \A s \in Steps : StepInv(s)
  /\ ScheduleInv
  /\ VerdictInv
=============================================================================
