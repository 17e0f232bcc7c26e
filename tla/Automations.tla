----------------------------- MODULE Automations -----------------------------
(***************************************************************************)
(* The automations of one user: backend/app/routes/automations.py, which   *)
(* publishes, changes, launches and schedules them, the end of their runs  *)
(* in output_dispatch.py, and the review of their results in               *)
(* routes/results.py.  What a run does before its end is Executor's.       *)
(*                                                                         *)
(* An endpoint's lookup and its write are one step: when the automation is *)
(* deleted in between, the write finds no row, and a run that is inserted  *)
(* then looks like one of an automation deleted a moment later.  A review  *)
(* keeps its two steps, and so does the scheduler.  Anything may fail; a   *)
(* launch that fails is one that did not happen.                           *)
(*                                                                         *)
(* Names, looks, counters and the input of a run are left out; the times   *)
(* of a cron expression are every Period ticks.                            *)
(***************************************************************************)
EXTENDS Naturals

CONSTANTS
  AutomationIds, \* bound: the automations that may be published
  Runs,          \* bound: the runs that may be launched
  Reviewers,     \* concurrent reviews
  Period,        \* ticks between two times of the schedule
  LastTick,      \* bound: the time ends here
  Null           \* NULL, None or no row

VARIABLES
  automation, \* the row of each automation, Null when there is none
  published,  \* history: ids that have been given out
  runPc,      \* each run: "none", "running", "dispatch" or "ended"
  runOf,      \* its automation
  sent,       \* the runs whose outputs went to their destinations
  review,     \* approval_status of each run's result, Null without a result
  reviewOf,   \* the result each reviewer has found pending, or Null
  now,        \* the time
  dueRows,    \* the rows of this tick the scheduler has still to launch
  moving      \* the one it has launched and is moving on, or Null

runVars == <<runPc, runOf, sent>>
reviewVars == <<review, reviewOf>>
schedulerVars == <<dueRows, moving>>
automationVars == <<automation, published, runVars, reviewVars, now, schedulerVars>>

Triggers == {"manual", "schedule", "webhook"}

Exists(a) == automation[a] # Null

AutomationsInit ==
  /\ automation = [a \in AutomationIds |-> Null]
  /\ published = {}
  /\ runPc = [r \in Runs |-> "none"]
  /\ runOf \in [Runs -> AutomationIds]
  /\ sent = {}
  /\ review = [r \in Runs |-> Null]
  /\ reviewOf = [p \in Reviewers |-> Null]
  /\ now = 0
  /\ dueRows = {}
  /\ moving = Null

-----------------------------------------------------------------------------

(* publish_automation: only a webhook gets a secret, and nothing sets next_run_at. *)
Publish(a) ==
  /\ a \notin published
  /\ published' = published \cup {a}
  /\ \E trigger \in Triggers, approval, outputs \in BOOLEAN :
       automation' = [automation EXCEPT ![a] =
         [trigger_type |-> trigger, is_active |-> TRUE, requires_approval |-> approval,
          webhook_secret |-> (trigger = "webhook"), output_config |-> outputs,
          next_run_at |-> Null]]
  /\ UNCHANGED <<runVars, reviewVars, now, schedulerVars>>

(* update_automation, whose whitelist has neither next_run_at nor the secret. *)
Update(a) ==
  /\ Exists(a)
  /\ \E trigger \in Triggers, active, approval \in BOOLEAN :
       automation' = [automation EXCEPT ![a] =
         [@ EXCEPT !.trigger_type = trigger, !.is_active = active, !.requires_approval = approval]]
  /\ UNCHANGED <<published, runVars, reviewVars, now, schedulerVars>>

UpdateOutputConfig(a) ==
  /\ Exists(a)
  /\ \E outputs \in BOOLEAN : automation' = [automation EXCEPT ![a].output_config = outputs]
  /\ UNCHANGED <<published, runVars, reviewVars, now, schedulerVars>>

(* The results go with the automation; its runs stay.                        *)
Delete(a) ==
  /\ Exists(a)
  /\ automation' = [automation EXCEPT ![a] = Null]
  /\ review' = [r \in Runs |-> IF runOf[r] = a THEN Null ELSE review[r]]
  /\ UNCHANGED <<published, runVars, reviewOf, now, schedulerVars>>

(* _launch_run: the run is inserted and its task made.                       *)
Launch(a) ==
  /\ \E r \in Runs :
       /\ runPc[r] = "none"
       /\ runPc' = [runPc EXCEPT ![r] = "running"]
       /\ runOf' = [runOf EXCEPT ![r] = a]
  /\ UNCHANGED sent

RunAutomation(a) ==
  /\ Exists(a)
  /\ Launch(a)
  /\ UNCHANGED <<automation, published, reviewVars, now, schedulerVars>>

(* The secret of a webhook goes on to work under another trigger type.       *)
Webhook(a) ==
  /\ Exists(a) /\ automation[a].webhook_secret /\ automation[a].is_active
  /\ Launch(a)
  /\ UNCHANGED <<automation, published, reviewVars, now, schedulerVars>>

(* The execution returns, completed or failed, or it raises.                 *)
RunEnds(r) ==
  /\ runPc[r] = "running"
  /\ \E next \in {"dispatch", "ended"} : runPc' = [runPc EXCEPT ![r] = next]
  /\ UNCHANGED <<automation, published, runOf, sent, reviewVars, now, schedulerVars>>

(* dispatch_outputs, best effort, to whatever the automation is configured for now. *)
Dispatch(r) ==
  /\ runPc[r] = "dispatch"
  /\ runPc' = [runPc EXCEPT ![r] = "ended"]
  /\ \/ /\ Exists(runOf[r]) /\ automation[runOf[r]].output_config
        /\ sent' = sent \cup {r}
     \/ UNCHANGED sent
  /\ UNCHANGED <<automation, published, runOf, reviewVars, now, schedulerVars>>

(* save_result: the client stores a result; approval_status is the column's
   default, whatever the automation requires.                                *)
SaveResult(r) ==
  /\ runPc[r] # "none" /\ review[r] = Null
  /\ Exists(runOf[r])
  /\ review' = [review EXCEPT ![r] = "auto"]
  /\ UNCHANGED <<automation, published, runVars, reviewOf, now, schedulerVars>>

(* approve_or_reject_result: the status is read, ...                         *)
ReadReview(p, r) ==
  /\ reviewOf[p] = Null
  /\ review[r] = "pending"
  /\ reviewOf' = [reviewOf EXCEPT ![p] = r]
  /\ UNCHANGED <<automation, published, runVars, review, now, schedulerVars>>

(* ... and written, if the result is still there.                            *)
WriteReview(p) ==
  /\ reviewOf[p] # Null
  /\ reviewOf' = [reviewOf EXCEPT ![p] = Null]
  /\ LET r == reviewOf[p] IN
       \E action \in {"approved", "rejected"} :
         review' = IF review[r] = Null THEN review ELSE [review EXCEPT ![r] = action]
  /\ UNCHANGED <<automation, published, runVars, now, schedulerVars>>

(* delete_result.  delete_all_results has an aggregate in its RETURNING clause,
   which PostgreSQL refuses, and deletes nothing.                            *)
DeleteResult(r) ==
  /\ review[r] # Null
  /\ review' = [review EXCEPT ![r] = Null]
  /\ UNCHANGED <<automation, published, runVars, reviewOf, now, schedulerVars>>

-----------------------------------------------------------------------------

Due(a, time) ==
  /\ Exists(a)
  /\ automation[a].trigger_type = "schedule" /\ automation[a].is_active
  /\ automation[a].next_run_at # Null
  /\ automation[a].next_run_at <= time

(* The scheduler wakes up.                                                   *)
SchedulerTick ==
  /\ dueRows = {} /\ moving = Null
  /\ now < LastTick
  /\ now' = now + 1
  /\ dueRows' = {a \in AutomationIds : Due(a, now')}
  /\ UNCHANGED <<automation, published, runVars, reviewVars, moving>>

(* One of the rows it has read is launched, or the launch fails.             *)
FireDue(a) ==
  /\ moving = Null
  /\ a \in dueRows
  /\ dueRows' = dueRows \ {a}
  /\ \/ Launch(a) /\ moving' = a
     \/ UNCHANGED <<runVars, moving>>
  /\ UNCHANGED <<automation, published, reviewVars, now>>

(* The next time is written, or is not.                                      *)
MoveOn ==
  /\ moving # Null
  /\ moving' = Null
  /\ \/ Exists(moving) /\ automation' = [automation EXCEPT ![moving].next_run_at = now + Period]
     \/ UNCHANGED automation
  /\ UNCHANGED <<published, runVars, reviewVars, now, dueRows>>

AutomationsNext ==
  \/ \E a \in AutomationIds :
       \/ Publish(a) \/ Update(a) \/ UpdateOutputConfig(a) \/ Delete(a)
       \/ RunAutomation(a) \/ Webhook(a) \/ FireDue(a)
  \/ \E r \in Runs :
       \/ RunEnds(r) \/ Dispatch(r) \/ SaveResult(r) \/ DeleteResult(r)
       \/ \E p \in Reviewers : ReadReview(p, r)
  \/ \E p \in Reviewers : WriteReview(p)
  \/ SchedulerTick \/ MoveOn

AutomationsSpec == AutomationsInit /\ [][AutomationsNext]_automationVars

-----------------------------------------------------------------------------

(* "requires_approval: when true, automation pauses before final action": the
   outputs of a run leave the program only when its result has been approved. *)
PausesBeforeFinalAction ==
  [][\A r \in Runs :
       (r \in sent' \ sent /\ automation[runOf[r]].requires_approval) => review[r] = "approved"
    ]_automationVars
=============================================================================
