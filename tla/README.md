# NexusForge AI: TLA+ models, checks and proofs

This directory holds TLA+ models of the workflow engine of `src/backend/app` and of the
stateful services around it, the TLC configurations that check them on small
instances, and TLAPS proofs of their safety properties for every value of the
constants: every DAG and number of retries, every number of callers, requests,
workers and processes.

    tlc -config MCExecutor.cfg MCExecutor.tla      # one run
    tlapm ExecutorProofs.tla                       # the proofs of a module

## 1. The system

NexusForge runs *workflows*: DAGs of steps, each executed by an LLM agent. The
backend is one asyncio process (FastAPI) over PostgreSQL and Redis; a second
process may serve the same database. Everything a run leaves behind is in five
tables, written one autocommitted statement at a time.

| Component | State | Operations | Hard behaviour |
|---|---|---|---|
| State machine (`engine/state_machine.py`) | none; checks a local status | `transition_workflow`, `transition_step` | it guards a local variable, not the row |
| DAG (`engine/dag.py`) | none | `validate_dag` (Kahn), `get_parallel_groups` (depths) | duplicated, unknown and self dependencies |
| Step runner (`engine/step_runner.py`, `retry_policy.py`, `checkpoint.py`) | local status, attempt; rows of `step_executions`, `checkpoints`, `dead_letters` | `run_step`: attempt, retry, heal, record | every `await` on the database may raise, with or without effect, also inside the handler of an earlier error |
| Executor (`engine/executor.py`) | local status, group, results; row of `workflow_runs` | `execute_workflow` | parallel groups, failures in a group, failing writes on the failure path |
| Run API (`routes/executions.py`) | `workflow_runs` and dependants | trigger, cancel or delete, manual sweep, live stream | reads a status and acts on it later, races with the executor |
| Zombie sweeper (`utils/cleanup.py`) | `workflow_runs` | fail every stale unfinished run | tells stuck from slow by age |
| Statistics (`db/migrations/029`) | `user_execution_stats` | trigger on INSERT and UPDATE | counts an edge that concurrent writers take twice or never |
| Automations (`routes/automations.py`, `integrations/output_dispatch.py`) | `automations` | publish, change, launch, scheduler tick, delivery of the outputs | launch and reschedule are two statements; what asks for approval and what delivers are different modules |
| Healing (`healing/`) | circuit breaker records in Redis or memory | `attempt_heal`, `record_success`, `record_failure` | read-modify-write across awaits, time, key expiry, a time limit that cancels a session once, at any await, and that an agent's retries may swallow |
| Approvals (`routes/results.py`) | `automation_results.approval_status` | approve, reject | check then act |
| Refresh tokens (`auth/refresh.py`) | a key per token and an index per user in Redis, each with its expiry | issue, rotate, revoke | several commands without a transaction, concurrent rotations, expiry |
| Daily quota (`auth/rate_limit.py`) | `runs_today`, `runs_reset_date` | `check_rate_limit` | read, reset and increment are separate transactions; midnight falls between them |
| Billing (`auth/billing.py`) | `processed_stripe_events`, the plans of user and organization | `stripe_webhook` | redelivered, overlapping and reordered events; an event is recorded before its work, which may fail |
| Batch pipeline (`refactor/batch_pipeline.py`) | the files on disk, the report | `execute`: read, fix, write, validate, roll back | files in parallel, failing writes, a file in several batches, a read that drops bytes |
| Migrator (`db/migrator.py`) | `_migrations`, the schema | `run_migrations` | processes that start together, die, lose the answer of a COMMIT |
| Queue (`queue/`) | Redis stream, consumer group, pending lists | produce, read, acknowledge | a failed message is never read again; workers die with a batch in hand |
| WebSockets (`websocket/manager.py`) | the list of a room's sockets | connect, disconnect, broadcast | the list changes while it is iterated; a removal of what is gone raises |
| LLM router (`llm/router.py`) | a breaker per provider, the model of the Ollama provider | `chat`: model, prediction, providers in turn | concurrent calls share breakers and model across awaits; failures, retries, time |
| Agents, swarms, memory, refactoring, synthesis, scanners, integrations | caches, prompts, text | | mostly sequential text processing |

Interactions: the trigger endpoint (or an automation) inserts the run and starts
a task; the task calls `execute_workflow`, which calls `run_step` for each step of
a group at once; a step calls its agent and, when it fails, the healer; all of
them write the tables. Clients of the API and the sweeper write the same row of
`workflow_runs` in between. Redis only carries notifications; the tracker is
wrapped so that its errors are swallowed. Neither changes the engine's state.

What makes each part correct: a DAG is refused exactly when it has a cycle and its
groups respect the dependencies; a step ends with tables that tell what happened,
whatever write failed; the executor starts no step early and none after a
failure, reports success only of complete runs, and always returns; a run is counted
at most once, ends eventually, and leaves nothing behind when deleted. Of the services: a
login is one chain of tokens; a quota holds; an event of Stripe takes
effect at most once; a message is kept until it is handled; a migration is in the schema exactly when it
is recorded; a rollback takes back its own work; a room is the set of its open sockets. The
hazards at their source lines are in `PROJECT.json`.

## 2. Modules

| Module | Models | Correspondence |
|---|---|---|
| `StateMachine` | both transition tables | operators, used as guards by the others |
| `RunStore` | the five tables, one operator per SQL statement | `run`, `stepRow`, `checkpoint`, `deadLetter`, `stats`; a deleted run is the status `"deleted"`; the foreign keys are guards of the INSERTs; `dbErrors` is a history variable |
| `StepRunner` | `run_step` | `stepPc[s]` is the await the coroutine of step `s` is suspended at; one action per await; a statement succeeds, or raises after or before taking effect |
| `Executor` | `execute_workflow` in `_safe_execute` | `execPc`, likewise; `Deps` and `Depth` are what `Dag` computes; `GatherGroup` is the return of `asyncio.gather` |
| `DagRun` | what an executor promises: steps get done in dependency order, success means all of them | the abstract specification of `Executor`, by the mapping `AbstractRun` |
| `RunLifecycle` | the executor, clients cancelling or deleting, the sweeper, a crash | composes `Executor` with `clientPc`, `stale` and `Crash` |
| `Resume` | a second call of `execute_workflow` after a crash | `CallAgain` is external: the code under `app/` never makes it |
| `Dag` | `validate_dag` and `get_parallel_groups` | one action per popped node and per depth; the input is any list of steps the request schema admits |
| `AgentBreaker` | the circuit breaker of `healing/` | `callPc[c]` is the await of a call (read or write of the Redis record), `copy[c]` its changed copy; in memory a call does not yield |
| `AtomicBreaker` | a breaker whose updates are atomic | the abstract specification of the in-memory `AgentBreaker` |
| `LlmRouter` | `LLMRouter.chat`, its breakers, the retries of an agent around it | `callPc[c]` is the await of a call (prediction, provider, pause), `chain[c]` the providers left to it; `errors` and `openFor` are the breakers, by age and time left; `failed` and `passed` are history |
| `Healing` | `SelfHealer.attempt_heal` with the order of its strategies | extends `AgentBreaker`: a session is one of its callers, `healPc[s]` its await, `todo[s]` the strategies left, `overdue[s]` that it has swallowed its cancellation; `EndSession` is every return; what a strategy answers is free within what it may answer |
| `Automations` | automations, scheduler, delivery, results and their review | an endpoint is an action; the scheduler and a review keep their two steps; a run is only its beginning and its end |
| `RefreshTokens` | login, rotation, logout | `pc[r]` is the Redis command a request awaits, `tokenTtl` and `indexTtl` the expiries; `loginOf`, `known`, `ended`, `dropped` are history |
| `PlanLimits` | `check_rate_limit` | `reqPc[r]` is the transaction a request awaits, `row[r]` and `day[r]` what it took; `grants`, `resets`, `overlaps` are history of the day |
| `Billing` | `stripe_webhook`, with Stripe as environment | `workPc[w]` is the await of a request; `happened` and `acked` are Stripe's side; `CheckMember` always raises (`billing.py:205`), so that the UPDATE after it is not modelled |
| `Remediation` | `BatchRemediationPipeline` | `unitPc[u]` is the await of a unit (a file in a batch); a content is who wrote it, whether it parses and whether it is UTF-8; `AsRead` is what the lossy read makes of it; what the owner's files hold is free |
| `Migrator` | `run_migrations` of several processes | `bootPc[p]`, and `touched[p]` the effects in its open transaction |
| `StreamQueue` | `enqueue_task`, `start_worker`, the consumer group | `consumerPc[c]`, `batchOf[c]`; the group is `delivered`, `pendingOf`, `ackedMessages` |
| `Rooms` | one room: `connect`, `disconnect`, `broadcast`, the handler and listener of each socket | `room` is the list itself and `position[s]` the index of a broadcast in it, because the order of removals decides which socket is skipped |
| `Subsequences` | a list comprehension with a condition, `Keep(s, S)` | what `SelectSeq` is to a test, without a recursion, so that what it returns can be proved; used by `Dag`, `LlmRouter` and `Rooms` |
| `ExecutorInvariant`, `ExecutorProofs` | the inductive invariant of `Executor`, and its theorems | |
| `LifecycleProofs` | theorems of `RunLifecycle` and `Resume` | cites the lemmas of `ExecutorProofs` step by step |
| `BreakerProofs` | theorems of `AgentBreaker` and `Healing` | |
| `DagProofs`, `RouterProofs` | theorems of `Dag` and of `LlmRouter` | |
| `AccountProofs` | theorems of `RefreshTokens`, `PlanLimits`, `Billing` | |
| `PlatformProofs` | theorems of `Remediation`, `Migrator`, `StreamQueue`, `Rooms` | |
| `SequenceFacts` | lemmas about sequences, least and greatest numbers, and `Keep` | |

`RunStore` extends `StateMachine`; `StepRunner` extends `RunStore`; `Executor`
extends `StepRunner`; `RunLifecycle` and `Resume` extend `Executor`. `Healing` extends `AgentBreaker`; it
and `LlmRouter` are apart:
the engine meets them as the answer of an agent or of the healer. `Dag` stands alone: what
`Executor` assumes of its constants (`DepsAssumption`) is what `Dag` is proved to deliver
(`PlanIsWhatTheExecutorAssumes`). The services share no
state with one another, with `LlmRouter` or with `Dag`. `MCServices` and `MCRecovery` each check several parts in one
run, in which `which` names the one that moves: `MCServices` the DAG, the router and the services, `MCRecovery` what
happens after a failure (healing, resumption, rollback, broken sockets). The step of such
a part is one action to TLC; its `-coverage` shows that every action of the parts happens. The other `MC` modules give
the constants of one module their values.

An action is the code from one await to the next: asyncio switches tasks nowhere
else. Agents, prompts, outputs, tokens, costs and messages are left out: an agent
answers or raises. `permanent` stands for an error text that `should_retry`
refuses to retry. To the step runner the healer is an answer, success or not; it catches its own
errors.

## 3. Runs

| Run | Instance | Shows |
|---|---|---|
| `executor` | two parallel steps and one that needs both, two retries, any statement may fail | the invariant and all properties of the engine, refinement of `DagRun`, and that the executor returns |
| `lifecycle` | a chain of two steps, two clients, sweeper, crash, failing statements | one count per run, no orphan rows, a run marked completed is complete; a run that was deleted stops, no run stays unfinished for ever |
| `recovery` | two sessions of one step on one circuit, two failures to open it, cooldown 2 and expiry 3 ticks, in memory or in a Redis whose commands may fail; a run of two steps in a chain and one beside, one retry, called again after every death; a batch of two files, one of which may hold anything, and one of it again; three sockets | a circuit opens only after its failures, closes only when due, and in memory the breaker is the atomic one and is kept closed by healed steps; completed steps are not repeated, and a resumed run is still complete; the properties of `Remediation` and `Rooms` |
| `services` | every list of three steps with up to two listed dependencies each, every graph of four steps, malformed lists (6,490 inputs); a classifier with two attempts and a worker of a swarm with one, Ollama and Groq, two errors within 2 ticks open a circuit for 2; two requests of a quota of two, over two days; two deliveries of two purchases and a cancellation; two requests, one login and four tokens; two processes and three migrations; two workers and three messages | a DAG is refused exactly when it is cyclic, the order is topological, groups respect dependencies and are as early as possible; no provider is left out but with an open circuit or on a prediction, every call returns, every circuit closes again although it trips at the first failure after its cooldown; the properties of `PlanLimits`, `Billing`, `RefreshTokens`, `Migrator` and `StreamQueue` |
| `run_terminal`, `resume_inputs`, `breaker_shared`, `router_model`, `approvals`, `webhook_lost`, `heal_forever`, `logout_race` | smallest instance that shows it | eight places where the code does not do what its comments or its documentation say (findings in `PROJECT.json`) |

Three of them are about what a property of the module beside them leaves open. `AppliedAtMostOnce` says nothing of an
event that takes no effect at all: the handler records it in a transaction of its own before the work, and after a failure
the next delivery is answered "replay-ignored" (`webhook_lost`). The time limit of a healing session cancels it once; an
agent's retries take the cancellation for a failed attempt, and the session then waits for Redis commands without a timeout
(`heal_forever`). A logout looks its token up in one command and deletes it in the next; a rotation in between takes the
login along to a new token (`logout_race`).

Seen while modelling, and left without a run of their own, most of them because one await is enough to see them; where a
comment says the opposite, it is quoted:

- the statistics trigger counts the edge that leaves 'running' only: a run that fails validation goes from 'pending' to
  'failed', and one that is cancelled goes from 'cancelled' to 'completed', uncounted, where
  `029_execution_stats_trigger.sql:62` says "run completes";
- nobody writes the status "queued" that `executor.py:45` expects to find; cancelling a run
  starts its later steps all the same (`run_terminal` shows the row being overwritten by
  them); no code resumes the run of a dead process, although `README.md:123` lists resuming;
- with a `REDIS_URL` configured and its server down the breaker keeps nothing, where
  `circuit_breaker.py:4` promises memory;
- no statement sets `next_run_at` of an automation that has not fired yet, so that the
  scheduler never launches one; a webhook's secret survives a change of the trigger type;
- no statement sets `approval_status` to 'pending', so that no result can be reviewed;
  `delete_all_results` has an aggregate in its RETURNING, which PostgreSQL refuses;
- the webhook's check of a membership selects `organization_id` (`billing.py:205`) where the table has `org_id`
  (`031_organizations.sql:20-22`): a purchase for an organization ends in an error after the user's plan is set, and the
  organization never gets its plan; the cancellation looks organizations up by a `stripe_customer_id` that no
  statement writes;
- a reset of the quota that overlaps another request at midnight grants up to one more
  quota (`ExceededOnlyByOverlaps` says exactly when);
- a message whose handler failed "stays in PEL for retry / dead-letter handling" (`worker.py:70`), but no code reads a
  pending list again: `UnhandledStaysPending` says that it is kept, and nothing says that it is ever handled. No code
  starts a worker, and none calls `revoke_all_for_user`;
- the batch pipeline reads with `errors="ignore"` (`batch_pipeline.py:294`): a rollback writes the text back without the
  bytes that are not UTF-8 and reports `rolled_back`, which `BrokenFilesAreReported` makes an exception of. Two calls of
  `execute()` on one project, which `routes/refactor.py` admits, exclude one another by nothing: the properties are
  of one call;
- a WebSocket listener dies of a ValueError when another one has disconnected a socket
  during its broadcast (`manager.py:17-24`); its own client then gets no more events through it
  (the broadcasts of the others still reach it).

**Bounds.** The shape of the executor's loop shows with two groups, one of them
parallel: a failing step beside a working one, a group after it, a group of one
step (awaited without `gather`). Two retries are the least at which "retrying" is
normalised twice. Two clients are the least with both a stale cancel and a
delete in flight. Attempts are bounded by `RetryMax`, dead letters by one per step
(an invariant), the statistics by the writes; `MaxDeadLetters` bounds in `Resume` how often
a failing step is tried again, the number of calls is not bounded. In `recovery` the expiry of three ticks is the least that is longer than the cooldown, and the
cooldown of two the least that can be under way; failures are counted up to the threshold, because the code asks no
more of them; the second file, the second batch and a socket behind a removed one are what overlapping units, a
rollback after another batch's fix and a skipped socket need, and one file with arbitrary contents is enough
because units of different files share nothing. For the router of `services` the window is
not shorter than the cooldown, so that old errors still
count when a circuit closes (60 and 30 seconds in the code), and a cooldown of two ticks is the least that a late failure
can renew; only as many errors are held as the threshold asks for. In `services` two of
each actor are the least that interleave, and the further tokens, the third message and migration are what
a second rotation, a second batch and a file after a failed one need; the quota of two can be half used when midnight (`LastDay` 1) falls, and the plan without a limit is counted up
to `MaxRuns`, which nothing compares it with. A ttl of two ticks lets an index be older than its token. In
`approvals` the time ends at `LastTick`. No state constraint is used. For every safety property of a passing run
a theorem removes these bounds, all but two: the set of healing sessions and that of the
sockets of a room stay finite, as they are. Only the liveness properties rest on the instances.

**Fairness.** Weak fairness of the executor and of every step: asyncio resumes every
task whose await is done, statements return or raise, a healing session is taken to end (an
assumption of `ExecutorReturns` and `DeletedRunStops`; `heal_forever` shows how it may not) and the LLM clients have
timeouts. Nothing else bounds an agent: a step's
`timeout_seconds` is read by no code. In `RunLifecycle` also of the passage of time
and of the sweeper, whose loop survives its errors. Clients, crashes and failing
statements are never fair. In `LlmRouter` weak fairness of the awaits of a call, each of which has a timeout or
a finite pause, and of time; no caller has to call again, and a provider may fail for ever.
In `Healing` the timer of `wait_for`, agents and lookups, time and code that does not yield are fair, a Redis command
is not; only `heal_forever` uses this fairness, and finds that it is not enough. The other services
have safety properties only and no fairness.

`CHECK_DEADLOCK` stays on where a finished run stutters explicitly. It is off in
`services` and `recovery`, whose parts come to an end (a pipeline is done, a room is empty, no token is left to be made), and in
`webhook_lost` and `logout_race`, which run two of these parts alone.

## 4. Proofs

`ExecutorProofs` proves, for every set of steps, every `Deps` and `Depth` with
`DepsAssumption` (a dependency has a smaller depth), every natural `RetryMax` and
whether or not the database fails:

| Theorem | Statement |
|---|---|
| `Invariant` | `Spec => []IInv` |
| `TypeCorrect` | `Spec => []TypeOK` |
| `DependencyOrder` | `Spec => []StartedAfterDependencies` |
| `Completeness` | `Spec => []CompletedMeansEveryStep` |
| `FailureStops` | `Spec => []NothingRunsAfterFailure` |
| `Bookkeeping` | `Spec => [](OutcomesAreRecorded /\ RaisesOnlyOnDbError /\ DeadLetterIsAFailure)` |
| `RunIsSettled` | `Spec => [](RunRowMatchesVerdict /\ NoStepOutlivesTheRun)` |
| `CompletedIsFinal` | `Spec => CompletedRowIsFinal` |
| `LegalStatus` | `Spec => LocalStatusIsLegal` |
| `Refinement` | `Spec => AbstractRun!Init /\ [][AbstractRun!Next]_AbstractRun!vars` |

The properties speak of the end of a step or of a run and are not inductive. `IInv`
adds what holds at each await: `StepInv` (local status, row, checkpoint and dead
letter of a step, by `stepPc`), `ScheduleInv` (shallower groups have succeeded,
deeper ones are idle, by `execPc`) and `VerdictInv` (the local status and the row, by
`execPc`). The proof has a frame lemma (a step touches nothing of another step),
one case per action of `run_step` for the step's own invariant, and one
case per action of `execute_workflow` for schedule and verdict. `StepInv` records
in particular the one irregular path: a write that fails after the agent succeeded
reaches the healer with the local status at "completed", from where the step can only
raise.

`BreakerProofs` proves, for every set of callers and circuits, every threshold, every cooldown and every
longer expiry, whether or not Redis fails (`BreakerAssumption`): `BreakerInvariant`, `BreakerTypes`,
`OpenIsWarranted` (`OpensOnlyAfterFailures`), `CooldownIsServed` (`ExpiryClosesNoCircuit`) and `MemoryIsAtomic`
(`BreakerSpec => ImplementsAtomicBreaker`). Its invariant follows the record of a circuit wherever
it is - in Redis, in memory, in the copy of a suspended call: each of them counts no more failures than were recorded,
is open only when the threshold was reached, and the key of an open circuit has longer to live
than its cooldown.

The same module goes on to `HealingSpec`, for every finite set of sessions (`HealingAssumption`). `SessionStep` shows
that a step of a session is a step of the breaker or the `Cancel` of a call by the timeout, and that keeps the
breaker's invariant (`SessionsKeepBreaker`, hence `SessionsOpenAfterFailures`). `HealedStaysClosed`
proves `HealedStepsStayClosed` from `HealingInvariant`: a call of the breaker is the one its
session waits for (`CallOfSession`), and the failures a circuit counts in memory are those of the sessions that charged it
and are still under way, plus the uncredited ones (`FailuresHaveSessions`). The property alone is not
inductive, because it counts a session before its charge is in memory.

The one step that is not the breaker's own, `Cancel`, changes no record and no expiry, so that its two action
properties carry over as well: `SessionsServeCooldown`
(`HealingSpec => ExpiryClosesNoCircuit`) and `SessionsSeeAtomic` (`HealingSpec => ImplementsAtomicBreaker`).
`HealingTypes` proves the types of a session, and that one that tries has a strategy to try (`TodoInv`).

`LifecycleProofs` proves what survives of a run when clients, the sweeper and the end of the
process write its row too, for every DAG, number of retries and number of DELETE requests:

| Theorem | Statement |
|---|---|
| `LifecycleInvariant` | `LifecycleSpec => []LifecycleInv` |
| `CompletedIsComplete` | `LifecycleSpec => []CompletedRunHasEveryStep` |
| `CountedOnce` | `LifecycleSpec => []CountedAtMostOnce` |
| `NothingIsOrphaned` | `LifecycleSpec => []NoOrphanRows` |
| `OrderSurvives` | dependency order, and nothing runs after a failure, under `LifecycleSpec` |
| `ResumeInvariant` | `ResumeSpec => []ResumeInv` |
| `CompletedOnce` | `ResumeSpec => []CompletedStepsAreNotRepeated` |
| `ResumedCompleteness` | `ResumeSpec => []CompletedMeansEveryStep` |
| `ResumedOrder` | dependency order, and nothing runs after a failure, under `ResumeSpec` |

`IInv` does not hold here: a deletion takes the rows that `StepInv` and `VerdictInv` speak of, and a crash takes the
coroutines. `LifecycleInv` separates the three: what a step knows without the tables
(`LocalInv`) holds always; its tables (`IntactInv`) until the steps' rows are deleted, and for the steps that did not die;
the schedule (`GroupsInv`) while the executor runs, and of it the part that `level` tells also
afterwards. `RowInv` relates the row to the schedule - 'completed' is only ever written after the last
group, whoever wrote the row last - and the deletions to one another: the run's row goes after those of its steps.
`StatsInv` is why a run is counted once although four parties write its end: the trigger counts an edge that leaves
'running', and only one statement makes such an edge possible, before which the row is not 'running'. `ResumeInv` has one invariant
across all calls: `AtWork` for the row of a step under way, and `CallInv`, by which a step not yet reached
in this call whose row says 'completed' is in the set that `get_completed_steps` returned, from where the
loop skips it.

`DagProofs` proves of `validate_dag` and `get_parallel_groups`, for every list of steps over any names with
any lists of dependencies, duplicates and unknown names included (`DagsAssumption`):

| Theorem | Statement |
|---|---|
| `CyclesAreRefused` | `DagSpec => []RefusedExactlyWhenCyclic` |
| `TopologicalOrder` | `DagSpec => []OrderIsTopological` |
| `GroupsAreOrdered`, `GroupsAreTight` | `DagSpec => []GroupsRespectDependencies`, `DagSpec => []GroupsAreEarliest` |
| `DepthsAreThere` | the depth of every dependency is in the dictionary when `get_parallel_groups` looks it up: no KeyError |
| `PlanIsWhatTheExecutorAssumes` | the groups of an accepted DAG satisfy `DepsAssumption` |

The invariant of Kahn's loop (`SortInv`) is that `in_degree[n]` is the number of entries of `depends_on`, duplicates counted, that are not
in the order yet, and that the steps with none are exactly those in the order or in the queue, once each. With
an empty queue every step outside the order then misses another one outside it, and these hold each other up. Conversely a
complete order excludes a cycle: the earliest of its steps would come after another of them. Choosing the
earliest is the only place that asks for induction, and `SequenceFacts!Least` supplies it from
the well-foundedness of `<`. `DepthInv` says that the steps with a depth are a prefix of the order, that a depth stays
below the position, and that a step has a dependency just below it, which is why no depth is skipped and no group empty.

`RouterProofs` proves `FallbackOrder` (`RouterSpec => []FallbackIsInOrder`) for every set of callers and providers, every chain, also one
that names a provider twice, and every threshold and time (`RouterAssumption`). Its invariant has a part per call (`CallOrder`): what is gone from the
chain of a suspended call was failed by it or passed over with its circuit open. Breakers, model and time, which the calls
share, do not occur in it: it is the local chain that makes a call immune to the others.

The services, whose instances `services` and `recovery` check:

| In | For every | Theorems | The inductive invariant adds |
|---|---|---|---|
| `AccountProofs` (`RefreshTokens`) | set of requests, tokens and logins, time to live | `NoFork`, `IndexOutlivesTokens` | a login is in one place: a live token, or the one request that took it with GETDEL (`ChainInv`); a listed token expires no later than the index (`IndexInv`); what a request holds at each await (`SessionInv`) |
| `AccountProofs` (`PlanLimits`) | set of requests, table of plans, number of days | `LimitHolds`, `ExceededByOverlaps` | what was counted is covered by whole quotas and the counter (`Covered`); while a reset is still to come, a quota is left over for what follows it, unless nothing can be counted before it (`Spare`, `Untouched`) |
| `AccountProofs` (`Billing`) | set of requests, events and plans | `EventsApplyOnce` | what is not recorded is not applied, and at most one request past the INSERT is about to apply an event (`OneApplies`) |
| `PlatformProofs` (`Remediation`) | set of files, list of batches, number of workers | `BrokenAreReported`, `RollbackIsOwn` | one batch runs, so that no two units share a file; every content on disk or in a unit's hands that does not parse is accounted for in the report, or was the owner's; what a unit has read is what reading makes of the file |
| `PlatformProofs` (`Migrator`) | set of processes, number of files | `MigrationsApplyOnce` | the primary key: only one open transaction has inserted a name, and no committed row has it (`NamesAreLocked`) |
| `PlatformProofs` (`StreamQueue`) | set of workers, number of messages, batch size | `UnhandledIsPending` | batches are disjoint, and what waits in one is pending and has not been handled |
| `PlatformProofs` (`Rooms`) | finite set of sockets | `RoomIsTrue` | only open sockets are listed, so that none enters twice; a broadcast disconnects lost sockets only (`RoomsInv`) |

None of these properties is inductive: each speaks of the outcome and leaves out what is in flight. Each
module proves its invariants action by action and the type invariants with them (`...Invariant`, `...Types`). The
assumptions are those the modules name (`RefreshAssumption`, `PlanAssumption`, ...), which TLC evaluates in
the runs; `PlanAssumption` excludes a limit of zero, which no plan has. Rooms needs its set to be finite for its types
only: a broadcast's position is bounded by the length of a list without duplicates.

Proved and not run-checked any more, because a stronger invariant of the run implies them:
`TypeOK`, `RaisesOnlyOnDbError`, `DeadLetterIsAFailure`, `NoStepOutlivesTheRun` and `LocalStatusIsLegal` of the
engine, `DependenciesHaveDepths` of `Dag`, and the type invariants of the other modules.

Only model-checked: liveness, which needs fairness and ENABLED and is out of the prover's reach - `ExecutorReturns`,
`NoZombieForever`, `DeletedRunStops`, `ChatReturns`, `CircuitRecloses` - and the
fairness part of the refinement of `DagRun`, whose safety part is `Refinement`. The properties of the eight runs that end in a violation are refuted.

## 5. Not modelled

The parts with status `not_modelled` in `PROJECT.json`, each with its reason. They are most of the
repository's lines, and of one kind: agents, prompts, planners, generators, templates, scanners and
use cases map text to text without shared state; the other routes are CRUD on single rows;
identity is a sequence of checks in one request and cryptography; trackers and metrics only
observe. The models cover the code that keeps state across an await, a process or a request. What such a
model could say of the rest would restate it.

Within the modelled parts:

- token and cost totals, error texts, tracker and Redis notifications, negative `retry_max`, and the INSERT
  part of the statistics trigger;
- the repairs of a healing strategy (an answer), the fixes of the batch pipeline (a content that parses or not) and
  what a migration does (a count);
- the calls of agents on circuits of their own names in `Healing`: only a step of the same name charges
  those;
- `revoke_all_for_user` and the list of revoked access tokens; one-time codes;
- of `Automations`, the wizard's endpoints, which write text into one row, and what a destination does with an
  output. The module is in a violation run only: `FireDue`, `MoveOn`, `ReadReview` and `WriteReview` are
  translated but never enabled, because nothing sets `next_run_at` or 'pending' (section 3), and a passing run
  has to fire every action.

## 6. Plan

Every safety property of a passing run has its theorem. Left for the future, in this order:

1. The scheduler and the reviews in a passing run, with the theorem that a due automation is launched once per tick, when the
   code sets `next_run_at` and 'pending'.
2. The resumption of a run by a second process while the first still works on it, should the code get one: `Resume` calls again only
   after a death.
3. One-time codes and the list of revoked access tokens beside `RefreshTokens`.
4. A negative `retry_max`, which the request schema admits and `RetryMaxAssumption` excludes.
