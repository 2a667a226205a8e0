# Formal models of HQ-QIDS

HQ-QIDS is a hybrid classical/quantum intrusion detection system: a sample is
classified, optionally verified by a quantum classifier, assessed for risk,
answered by a (simulated) defense action, and recorded as an incident. It runs
either inside one process (`IncidentManager.process`) or as a pipeline of
services over Redis Streams. The difficulty is not in the numerics but in the
plumbing: redelivery, crashes between two Redis calls, a circuit breaker shared
by threads, histories replayed after a restart, signal handlers that interrupt
each other. These modules model that part.

Paths below are relative to the repository root; `stream_worker.py` is
`src/runtime/stream_worker.py`, and so on.

## 1. Inventory

| Component | State | Operations | Interacts with | Hard part | Correct when |
|---|---|---|---|---|---|
| Stream stage (`runtime/stream_worker.py`, `idempotency.py`, `dead_letter.py`, `contracts/pipeline_message.py`) | in Redis: stream, consumer group, pending list, idempotency keys, dead-letter stream; in the process: the batch in hand | `run_once`, `recover_pending`, `_process_entry`, `_handle_failure`, `run_forever` | the stages before and after it, through streams only | every Redis call can be the last one a process makes; a slow process loses entries to another; retries are copies | no event is lost, duplicates have a cause, dead letters come after all retries, nothing stays pending |
| Circuit breaker (`routing/circuit_breaker.py`) | per backend: state, failures, opened_at, trial flag | `allow_request`, `record_success`, `record_failure` | router threads | outcomes arrive late and out of order | one trial at a time; recovers |
| Router and jobs (`routing/router.py`, `worker.py`, `job_queue.py`) | jobs and their futures, attempt pool | `route`, `get_result`, `route_and_wait`, `run_job` | breaker, verifier, callers with a 10 s wait | the wait and the job's own time limit are independent | every caller gets a decision; every admitted trial is reported |
| Incident manager (`incident/*`), called by the worker (`runtime/services/incident_worker.py`) or by request threads | event store; in memory snapshots, tracker, sample index, in-flight set | `record_full_lifecycle`, `append_idempotent_skip`, reconstruction, `process` | defense stage before it, dashboard after it; in one process, the whole chain | a crash between two of up to fourteen appends; memory rebuilt from the file; threads that share one counter of rollbacks | replayed states legal, terminal states final, memory equals file, recurrence not forgotten, one call per sample |
| Event stores (`incident/event_store.py`, `runtime/event_store_redis.py`) | file or stream, seen ids | `append`, `read_all` | incident manager | torn line, three-call append, stale memory | append-only, each id once |
| Defense engine (`defense/*`) and worker (`runtime/services/defense_worker.py`) | simulated sources, in memory only; audit, metrics | validate, execute, verify, retry, roll back | risk stage before, incident stage after | action done but not reported; half-failed executions; a second, different answer for the same sample | all or nothing; what was reported healthy stays in effect; every sample answered |
| Hybrid and risk engines (`hybrid/*`), routing rule (`routing/policy.py`), ensemble voting (`detection/ensemble_detector.py`) | none | pure functions | router's decision, detection | thresholds that weights hit exactly; conflicts; missing and failed quantum results | the answer fits the evidence; losing the verifier never makes matters worse |
| Stage services (`runtime/services/*`) | none beyond the stage | `handle` | the stages | composition; repeated results with other evidence | an ingested sample ends as one incident or in a dead-letter stream |
| Result contracts (`contracts/*`) | none | validation in every constructor | what each stage builds from the one before | a probability rebuilt from a label and a confidence; clamps | no accepted message makes a stage raise |
| Agent feedback (`agents/feedback_listener.py`, `environment_engine.py`, `session_correlation.py`) | turns of a run | `run`, `collect_outcome`, `session_escalation_count` | gateway, `incident.updated`, `defense.completed` | skipped updates, interrupted publications, two streams read one after the other | state and escalation are what was recorded; the action beside them is the recorded one unless the defense stage answered twice |
| Application agents (`agents/suzume_traffic_source.py`, `agent_session.py`, `normal_agent.py`, `adversarial_agent.py`, `application_*.py`) | session: token, cookie, last response, sequence number; scenario in use | `execute_action`, `run_session`, features, split, next scenario | an external application over HTTP | lost replies, expired tokens, one refresh and one retry, the refresh nested in an action | an observation tells what the application did; telemetry shows the scenario |
| API and experiments (`api/*`) | experiment registry, background threads | start, list, timeline | incident manager, event store | several processes and threads over one store | what a caller was answered is still there after a restart |
| Launcher (`run.py`) | list of child processes | start, watch, `shutdown` | operating system, Redis, workers | a signal handler that can interrupt itself; children started and not yet listed | it ends, and leaves no child behind without a reason |
| Classical detection, preprocessing, verifiers | model artifacts | inference | | only the combination of probabilities and the results built are modelled | |
| Training and evaluation scripts, frontend, logging and health endpoints | | scripts, display | | not modelled | |

The hazards each component is exposed to are listed, with their lines and the
properties that watch them, in `PROJECT.json`.

## 2. Modules

| Module | Models | Status |
|---|---|---|
| `AtLeastOnce` | what a stage promises its neighbours | abstract specification |
| `StreamWorker` | one stage of the pipeline, every Redis call a step | modelled, checked, proved |
| `StreamWorkerProofs` | its theorems | |
| `CircuitBreaker` | the breaker's methods as functions of its state | modelled |
| `QuantumRouter` | threads calling `route_and_wait` on one breaker, with time | modelled, checked, proved |
| `QuantumRouterProofs` | its theorems | |
| `IncidentLifecycle` | transition table, events of a lifecycle, escalation, replay | modelled |
| `IncidentWorker` | the incident worker over its JSONL file, with crashes and torn lines | modelled, checked, proved |
| `IncidentWorkerProofs` | its theorems | |
| `MCIncidentWorker` | the evidence TLC gives it | |
| `IncidentProcess` | `process()` and experiments on the threads of several server processes | modelled, checked, proved |
| `IncidentProcessProofs` | its theorems | |
| `MCIncidentProcess` | TLC's processes and threads | |
| `RiskAssessment` | ensemble, routing rule, and from evidence and quantum outcome to prediction, status, risk level, action | modelled, proved |
| `Contracts` | what each result contract validates | modelled, checked, proved |
| `AllOrNothing` | what the defense engine promises about a source | abstract specification |
| `DefenseWorker` | the defense worker and engine over the simulated state | modelled, checked, proved |
| `DefenseWorkerProofs` | its theorems, and those of `RiskAssessment` and `Contracts` | |
| `MCDefenseWorker` | the evidence TLC gives it | |
| `Pipeline` | gateway, stages, incident worker and feedback listener | modelled, checked, proved |
| `PipelineProofs` | its theorems | |
| `ApplicationFeatures` | telemetry of a session: features, split, next scenario | modelled, proved |
| `ApplicationSession` | an agent against the application, with lost messages | modelled, checked, proved |
| `ApplicationSessionProofs` | its theorems, and those of `ApplicationFeatures` | |
| `MCApplicationSession` | the scenarios TLC gives it | |
| `Launcher` | `run.py` with its children and signals | modelled, checked, proved |
| `LauncherProofs` | its theorems | |
| `MCLauncher` | TLC's list of workers | |

How they compose: `QuantumRouter` uses `CircuitBreaker`'s methods;
`DefenseWorker` is built on `RiskAssessment` and `Contracts`; `IncidentWorker`
on `IncidentLifecycle`; `ApplicationSession` on `ApplicationFeatures`. A
`StreamWorker` implements `AtLeastOnce`; `Pipeline` takes five such stages and
implements `AtLeastOnce` again, with turns as events.

### StreamWorker

An entry of `stream` is the model's message: an event and its retry count (the
payload is irrelevant). Entries are numbered, `delivered` is the group's
last-delivered id, `pending` its pending list, `idle` the pending entries past
`min_idle_time_ms`. `pc[c]` says which call process `c` makes next:

| Action | Code |
|---|---|
| `Recover` | one turn of `recover_pending`'s loop (XAUTOCLAIM) |
| `Read` | `run_once` (XREADGROUP) |
| `Check`, `Handle`, `Publish`, `MarkProcessed`, `Ack` | the calls of `_process_entry`, in order; `Ack` is also the XACK of the duplicate branch and those of `_handle_failure` |
| `CallFails`, the second branch of `Replied`, `AckReplyLost` | a Redis call in the `try` block fails before, or after, it was applied |
| `Resubmit`, `Bury` | the two branches of `_handle_failure` |
| `Crash`, `Restart` | the process dies (also what an exception outside the `try` block amounts to) and another one is started under a new consumer name |
| `Ingest`, `GrowIdle` | the upstream stage; time |

The pending list forgets who owns an entry: XAUTOCLAIM only asks how long it has
been idle, and no code asks for more. Every `handle()` in the repository returns
a message, so the branch without output is not modelled. `stolen` is a history
variable that the code does not have; only `DuplicatesAccounted` reads it.

### CircuitBreaker, QuantumRouter

A breaker is a record; each method holds the lock for all of its body, so it is
one function applied in one step. Time is in ticks of half a second; only the
time since the breaker opened, up to the cooldown, and the age of each job
matter. `Submit`/`Deny` are `route`; `Complete` is `run_job` returning;
`Resolve` is `_resolve_decision`; `GiveUp` is `route_and_wait` returning the
pending decision. A job submitted while the backend is healthy ends with success
within one attempt; any other may do whatever `run_job` permits, up to
`JobLimit = (retries + 1) * timeout + retries * backoff`. `allow_request`'s last
branch (HALF_OPEN without a trial) is reproduced although no reachable state
takes it: HALF_OPEN is only ever entered with a trial. Requests that the routing
policy does not send to the backend never touch the breaker and are left out.

### IncidentLifecycle, IncidentWorker

`Lifecycle(e, count)` is the sequence of events `record_full_lifecycle` emits for
evidence `e`; `severe` stands for the three escalation conditions other than
failed recovery and recurrence. `store` is the file. `Begin` is the guard of
`handle()` and the counting at the top of `record_full_lifecycle`; `Emit` is
`_emit`, with the transition table as its guard, so a crash or a failed append
can come between any two events; `Finish` rebuilds the snapshot, publishes and
acknowledges; `Skip` is the branch for terminal incidents. `Restart` is
`IncidentManager.__init__`. The stage in front is `AtLeastOnce`'s promise:
results are delivered, redelivered after a fault, and sometimes delivered twice
(`Redeliver`, which also covers a crash between the end of `handle()` and the
acknowledgement). An append that fails may leave a torn line behind, as a full
disk does (`torn`): `_load_from_disk` raises on it, so that a worker that dies
after it cannot start again, and `EveryIncidentSettles` excepts exactly that. The
retry limit and the dead-letter stream
belong to `StreamWorker`; faults are bounded below that limit here. Metrics and
the correlation index are left out.

### RiskAssessment, DefenseWorker

`RiskAssessment` has no state. A probability is a number of two-hundredths, so
that the ensemble's mean of two percentages is exact; floating-point rounding
is not modelled, nor are the clamps to [0,1], which never act as every group of
weights sums to one. The weights, thresholds and the policy's table are those
of `config/`. `Prediction` and `Status` are `build_hybrid_decision`, `Score` and
`RiskLevel` are `assess_risk`, `SelectAction` is `select_action`. `Contracts` has one operator per result
contract: whether its constructor would accept what the stage builds.

`DefenseWorker` takes `risk.assessed` messages. The sample_id is the target of
the action, so samples meet only in the process they share. Stages are at least
once: a sample can be delivered again, with the quantum outcome it had or with
another one, since a rerun of the quantum stage publishes an event of its own.

| Action | Code |
|---|---|
| `Reject` | `process()` up to `_finalize_rejected`: the action is already active |
| `Begin` | selection, validation, first execution |
| `Confirm` | the verification succeeds: `_finalize_executed` |
| `Retry`, `Rollback` | `attempt_recovery`: one turn of its loop; what follows it |
| `Crash`, `Restart` | the process dies, with every simulated source |
| `InjectFailure`, `ClearFailure` | the executor's fault injection, at any moment |
| `Arrive`, `Redeliver` | the stages in front |

`Report` ends a handler: the result is published, or the publication fails and
a copy of the message takes its place, as in `StreamWorker`. Fault injection is
there for tests; it is modelled because it is the only way an execution fails
and so what retry and rollback are written for. Only the rejection that can occur with the
shipped policy is modelled (`simulation_mode` is on, no action is disabled, every
action in the table is known and reversible).

### IncidentProcess

The web server runs a few gunicorn processes with a few threads each
(`Procfile`). The threads of a process share one `IncidentManager`; processes
share only the store. `backend` chooses the store: a JSONL store answers
`read_all` from the memory of its process (`loaded`), a Redis store from the
stream.

| Action | Code |
|---|---|
| `Enter` (in `Submit`, `Session`) | `process()` under `_processing_lock`: skip a settled sample, refuse one in flight, or take it |
| `Chain`, `ChainRaises` | `_run_full_chain` up to the defense, and the first reading of the rollback counter; any stage may raise |
| `Defend` | `defense_engine.process`: verified, recovered by a retry, or rolled back |
| `Emit` | the second reading of the counter, then one append of the lifecycle after the other; each may raise |
| `Finish`, `Leave` | the snapshot and the sample index; the `finally` block |
| `Start` | `create_experiment`; its sessions are calls of `process()` on a thread of its own |
| `Restart` | a process dies with all its threads; its successor rebuilds memory from the store |

The lifecycle is reduced to the first event, a rollback and the terminal one;
`IncidentLifecycle` has the others. `AppendRaises` covers the Redis append that
is stored although the call raises.

### Pipeline

Each stage is a set of accepted, produced, completed and given-up messages, that
is, what `StreamWorker` was shown to implement. A rerun of a stage publishes its
result under a new event_id and, since it asks the verifier again, with evidence
of its own (`Results`). `Turn` and `Abort` are `EnvironmentEngine.run`;
`HandleIncident`, `Interrupt` and `Restart` are the incident worker, reduced to
what the listener can see. `defense.completed` is the input stream of the last
stage, `accepted[Last]`. `Outcomes` is `collect_outcome` for every moment at which
it might look: state and escalation come from the last update, action, risk level
and prediction from the last defense result, read a moment later. A message is
here the identity of its action, risk level and prediction, and `settled` (history)
has those that incidents were recorded with. Which of several defense results is
the last entry is left open: an incident worker that fails puts an older one back
behind a newer one. `CountedEscalations` is the count of a session.

### ApplicationFeatures, ApplicationSession

`ApplicationSession` is one action at a time: `phase` tells whether the next
request is the action's first, the nested refresh or the one retry. `Answer`
stands for the application, which is external: it checks tokens, rotates the
refresh cookie, refuses malformed bodies and unknown ids, and creates what it is
asked for. Either way of losing a message looks the same to the client.
`ApplicationFeatures` computes, from the observations of a session, the features
the classifiers are given, the split of a dataset by session, and the policy's
next scenario. `Burst`, a loop with two counters in the code, is the size of the
largest set of failed authentication attempts with no other attempt between them.
An endpoint is a path without its method (`SamePath` has the actions that share
one); a parent's id in a path is the same throughout a session.

### Launcher

`main()` and `shutdown()` step by step. `handlers` is the stack of running calls
of the signal handler; a signal pushes one at any step, and the `SystemExit`
that the innermost ends in unwinds them all. `fresh` is the child that `Popen`
has started and `_processes` does not have yet. `setup` ranges over every mode
and every combination of what is installed. A child told to stop may never do so.

## 3. Runs

| Run | Instance | Shows |
|---|---|---|
| `stream_worker_reclaim` | 1 event, 2 processes, 1 retry, 1 fault, batches of 2 | `TypeOK`, `NoEventLost`, `DuplicatesAccounted`, `DeadLetterAfterEveryRetry`, `PendingDrains`, and that the group implements `AtLeastOnce`, liveness included, while two processes take entries from each other |
| `stream_worker_dead_letter` | 1 event, 1 process | expected violation of `DeadLetterIsFinal` |
| `quantum_router_qsvm` | 2 callers, QSVM's 5 s timeout | `TypeOK`, `OneTrial` although callers give up; `OnlyGivingUpLocksOut`, `RecoversUnlessLockedOut` |
| `quantum_router_stuck` | as above | expected violation of `Recovers` |
| `incident_worker_replay` | 2 incidents, 2 keys, 3 kinds of evidence, 2 copies, 1 fault | `SnapshotsMatchStore`, `UpdatesTellTheOutcome`, `RecurrenceEscalates`, `ReplayedStateMovesLegally`, `EveryIncidentSettles`, `TypeOK` |
| `incident_worker_count` | 1 incident, 1 fault | expected violation of `CountsDistinctIncidents` |
| `incident_process_threads` | 2 processes with 2 and 1 threads, either store, 2 samples, 1 fault, 1 repeated call | `SettledOnce`, `AnswersSurvive`, `RollbackIsRecorded`, `HeldByItsCall`, `TypeOK` |
| `defense_worker_replay` | 1 sample, 3 kinds of evidence, 3 answers, 3 copies, 1 retry, 1 crash | `ImplementsAllOrNothing`, `HealthyStaysProtected`, `ActionsFollowEvidence`, `ContractsHold`, `EverySampleAnswered`, `TypeOK` |
| `defense_worker_once` | 1 sample, 2 copies | expected violation of `DefendedOnce` |
| `pipeline_turns` | 3 stages, 1 session of 2 turns, threshold 2, 1 fault | `ListenerTellsTheTruth`; the whole implements `AtLeastOnce`, liveness included; `TypeOK` |
| `application_session_faults` | the normal workflow and all 4 scenarios, 3 sessions, 2 faults and 2 expiring tokens in each | `ObservationTellsEffect`, `ParentsAreOwn`, `UnauthorizedHasACause`, `BoundedTraffic`, `TelemetryPattern`, `SessionsEnd`, `TypeOK` |
| `launcher_signals` | 1 worker, every mode and installation, 2 polls, 2 signals, 1 child that dies | `SurvivorsHaveACause`, `ShutdownEnds`, `TypeOK` |

`ActionsFollowEvidence` is four rules in one invariant: nothing is blocked
unless a verifier answered attack, a sample judged normal is neither isolated nor
blocked, a confirmed attack is answered at least as strictly as its fallback, and
of two results with the same kind of outcome the one with more evidence has no
lower risk level and no milder action.

**Bounds.** One event is enough for two processes to compete over, since events
meet only through a batch, and its retry copies fill a batch of two. One retry is the least
with both branches of `_handle_failure`; copies of one event with different retry
counts then exist side by side. A budget of one fault covers every crash
point and every lost reply; failures of `handle()` and reclaims are not bounded.
The router runs use the configured values of `config/routing_policy.json` (in
half seconds), so nothing is scaled except the number of callers: a second one
is enough for a late answer and a denied request. In the incident run two incidents
share a key or do not, the threshold is 2 instead of 3 so that two incidents reach
it, and the evidence takes every branch of the lifecycle: no verification,
successful and failed verification, no recovery, a successful and a failed one,
rollback, escalation by evidence and by recurrence. In the run of `process()`
two threads of a process and one of another meet on one sample; one fault is one
restart or one failed append at every step, and a caller repeats a sample once.
In the defense runs one sample is enough, since no action touches another one's
source; three copies let a rejected duplicate be published again, one retry is
the configured value. The evidence and the answers (normal, undecided, certain
attack) reach every action of the table, an agreement, an override and an
unresolved conflict; the theorems cover all evidence. The pipeline has three
stages, an ordinary one, the defense and the incident worker: the ordinary ones
differ only in their number, which the theorems leave open; one session is
enough since sessions share no correlation key, and two turns reach the
threshold. The scenarios and their actions are those of the code, in full; an
experiment of three sessions reaches an adaptation after an adaptation. One
worker stands for the list, since `_spawn` treats all alike; two signals are one
in the middle of another's `shutdown()`. `CHECK_DEADLOCK FALSE` is set
where the system comes to rest: when everything is settled, every session is
over, no call is bounded for any more, or the launcher has ended.

**Fairness.** A stage's process keeps taking steps (`WF(Step(c))`): `run_forever`
is a loop without a condition. Nothing is assumed of `handle()`, which may fail
each time. An entry held long enough grows idle. A dead process is replaced
(`WF(Restart(c))`): `docker-compose.yml` has no restart policy, so this is
the operator's part, as in `test_worker_restart_recovery.py`. In the router, time
diverges (`SF(Tick)`, since other actions may disable it for a moment), threads
and jobs run, and callers keep coming; the backend is not assumed to be repaired,
`Recovers` only speaks of runs in which it is. The incident worker is one thread
that keeps working: `WF(Step)` over all of its steps, with no fairness between
incidents. The defense worker likewise: `WF(Step)` over the handler's steps and
the restart; whether executions fail is up to the fault injection. In the
pipeline a stage goes on with each message it has accepted until it is settled,
which is `PendingDrains` of `StreamWorker`; nothing makes an environment take
another turn. An agent's session keeps working, whatever the network does to its
requests. `main()` and `shutdown()` are scheduled and their timeouts expire;
children owe nothing, and no signal need come. `IncidentProcess` states no
liveness: a call may raise at every step, and nobody repeats it.

## 4. What the violated runs say

* **A processed event may be dead-lettered.** The `try` block that routes
  exceptions to `_handle_failure` also contains `mark_processed` and XACK. A
  lost reply of either on the last attempt sends to the dead-letter stream an
  event whose result is already published. Nothing is lost, but the dead-letter
  stream is not a list of failures.
* **A half-open breaker can stay so for ever.** The callers' wait (10 s) is
  shorter than a QSVM job can take (three attempts of 5 s and the backoffs). If the
  trial's caller gives up, `half_open_trial_in_flight` is never cleared, and
  every later request is denied until the process restarts. The docstring of
  `get_result` describes the other design, in which the job reports its outcome.
  `OnlyGivingUpLocksOut` shows that nothing else causes it, and
  `RecoversUnlessLockedOut` that short of it the breaker recovers. With VQC's
  timeout it cannot happen (`TrialAlwaysWatched` below).
* **A redelivery can inflate the repeated-incident count.** The count is
  raised before the history is complete, and `handle()` skips only terminal
  incidents. After a crash the rebuilt count already includes the interrupted
  incident; after failed appends, which leave the process running, every retry adds
  one more, and an incident whose recording fails twice reaches the threshold of
  three by itself and is escalated as a repeat.
* **One sample, two defenses.** The exactly-once layers key on the event_id and on
  the flag of the one action that is selected. A sample whose quantum stage ran
  twice has two events, and if the outcomes differ, two actions. Both stay in
  effect (`HealthyStaysProtected`), so the source ends up over-restricted,
  never under-restricted.

A limit of the feedback is part of an invariant and not a run, since no document
claims otherwise. `collect_outcome` joins the last update of an incident with the
last result of the defense stage. If that stage answered twice, the incident worker
records the one and skips the other, and the outcome may have the state of the one
with the action, risk level and prediction of the other: a resolved incident, say,
beside the evidence of an escalation. `ListenerTellsTheTruth` therefore promises the
recorded action only where a single result was published; without that condition
TLC refutes it within a few steps. `AgentRunMetrics` takes these fields for its
confusion matrix and its distribution of actions
(`test_agent_distributed_pipeline.py:83-88`).

One divergence is a theorem and not a run. The threat's weight equals the
threshold of CRITICAL; the unit test that shows strong evidence reaching it
supplies a disagreement the classifiers cannot have at that confidence.
`CriticalNeedsCertainty` proves that consistent evidence reaches CRITICAL, and so
BLOCK, only if every probability is one.

## 5. Proofs

All proofs hold for every value of the constants allowed by the named
assumptions. These say that numbers are numbers, that counts and times that
cannot be zero are not, that each thread belongs to a process
(`ProcessAssumption`), that the sets of incidents and of sessions are finite
(`WorkerAssumption`, `PipelineAssumption`), that the incident worker's messages
are evidence, that an agent's allow-list is a non-empty list of known scenarios,
none named twice (`ApplicationSession`'s `Assumption`), and that the launcher's
workers have names of their own, different from those of its other children
(`LauncherAssumption`). The lists of the last two are literals in `run.py` and in
the agents' constructors.

Most of the invariants are not inductive; the paragraphs below name the
strengthening and what it adds.

`StreamWorkerProofs`:

* `TypeCorrect`: `Safety => []TypeOK`. Inductive with the lemmas on `First`, the
  COUNT of a Redis call.
* `NothingIsLost`: `NoEventLost` is not inductive. Its strengthening says what a
  process knows at each `pc`: between the check and the XACK, the event is
  still open or marked; a process about to acknowledge a superseded entry has put
  a copy behind everything delivered, or that copy was delivered since and is
  in turn pending or accounted for; marked and dead-lettered are never undone.
* `NoEarlyDeadLetter`: the retry counts of an event's entries have no gap, since a
  copy is only made of an entry, with the next count.
* `StageIsAtLeastOnce`: `Safety => Ledger!Safety`, each action mapped to a step
  or a stutter of `AtLeastOnce`; needs that a marked event was published.
* `RepeatsArePaidFor`: `DuplicatesAccounted`, by bookkeeping. A process publishes an
  entry on the entry's own claim or on that of its reclaim (`Claims`). The invariant
  (`Affordable`) bounds an event's results together with the claims still open by one
  more than its reclaims and the faults: publishing spends a claim, copying spends
  one and brings one, and only a fault gives one back. Two processes that have one
  entry in hand go by different claims, since one of them reclaimed it
  (`OneUnclaimed`).

`QuantumRouterProofs`:

* `RouterTypeCorrect`: `TypeOK`, through what each breaker method does to
  each field (`BreakerFields`) and a record invariant (`WellFormed`).
* `OneTrialAtATime` assumes `WaitBudget < Cooldown` (10 s and 30 s): the
  invariant bounds the age of each job by the time the breaker has been open,
  so that all earlier requests are gone when the cooldown ends.
* `AlwaysDecided` and `TrialAlwaysWatched` assume `JobLimit < WaitBudget` (4 s and
  10 s for VQC): a job ends while its caller still waits. For QSVM the
  assumption is false, and `quantum_router_stuck` is what follows. For VQC,
  `TrialAlwaysWatched` rules out the lock-out that `RecoversUnlessLockedOut`
  excepts, so that the breaker recovers from every outage.
* `LockOutHasOneCause`: `OnlyGivingUpLocksOut` for any timeouts, from the same
  record invariant: a step that leaves a trial without a reporter is a caller's
  giving up on a job that still runs.

`DefenseWorkerProofs`, on the functions of the assessment, for all 101 * 101 * 201
observations and every outcome:

* `CriticalNeedsCertainty`: the score is a sum of six numbers (`ScoreFacts`); a
  fallback, an unresolved conflict or any probability below one leaves it short.
* `BlockNeedsQuantumAttack`, `NormalIsLeftConnected`, `ConfirmationRanksHigher`
  follow from it and from the table.
* `MoreEvidenceNeverRanksLower`: with the same kind of outcome, risk level and
  action rise with each of the four probabilities. The score alone does not: an
  answer that settles a conflict takes its weight away. But then the attack is
  confirmed, which has the floor HIGH, and nothing unsettled was CRITICAL; where no
  conflict is settled, what the classifiers' mean gains outweighs what their
  disagreement loses (`ScoreClimbs`). The status is a matter of two probabilities and
  their thresholds (`StatusInNumbers`).
* `SurerMayBeMilder` is the limit of that theorem: evidence that is just enough not
  to be verified gets MONITOR where slightly less, confirmed by the verifier, gets
  ISOLATE. No document claims otherwise.
* `EverythingIsAdmitted`: what detection, routing, verification, hybrid and risk
  engines build from each other passes the validation of every contract, and no
  score reaches its clamp.

and on the worker, assuming only that the observations and answers are probabilities
(`DefenseAssumption`):

* `InvariantHolds`: neither `HealthyStaysProtected` nor all-or-nothing is inductive.
  The strengthening `IInv` says that between the first attempt and the report the
  source is as after one whole or one partial execution (`Working`, from
  `Idempotent`: more attempts add nothing), that a verified source has the whole
  effect (`VerifiedMeansWhole`, because an action already active is
  not begun), and that a restriction seen from outside is complete
  (`Consistent`), so that "already active" means "in effect".
* `DefenseTypeCorrect`, `HealthyStays`, `EngineIsAllOrNothing` follow from it;
  `NoBlockWithoutQuantum`, `NoNormalCutOff`, `ConfirmationCounts`, `EvidenceCounts`,
  together `EvidenceDecides`, and `NoStageRaises` carry the theorems about the assessment to
  every reported result and every message.

`PipelineProofs`, for any number of stages, sessions, turns and faults:

* `TheListenerIsRight`: `ListenerInv` says that every update agrees with how its
  incident ended, that an escalation was told of or interrupted, that every
  message on any stream belongs to an incident the gateway accepted, and that what
  has ended did so with a message of the defense stage, in the state this message
  called for (`Endings`). The last part is what the outcome's action, risk level and
  prediction rest on: an update is never seen without the defense result that led
  to it, and a single result is the recorded one.
* `PipelineIsAtLeastOnce`: `Safety => EndToEnd!Safety`. With `Accounted`, what a
  stage completed it had published before, and what the incident worker published
  is on the updates stream.
* `PipelineTypeCorrect`: `TypeOK` bounds copies and counters, so it is a statement
  about repetitions. `Bounded` says that the messages about a turn on one stream,
  together with those in front of it that are still unpublished (`Waiting`), are at
  most one more than the faults: publishing moves a message from one count to the
  other, and only a repeated publication, a fault, adds one. `PaidFor` says that a
  session's counter and its recorded incidents exceed its ended ones by no more than
  the faults.

`IncidentProcessProofs`, for any number of processes, threads, samples, repeated
calls and faults:

* `OneCallPerSample`: `HeldByItsCall`. `HeldInv` relates the in-flight set to the
  threads past the lock in both directions, and says that no two threads work on
  one incident.
* `NoRollbackIsLost`: `RollbackIsRecorded`. The counter is shared, so a thread may
  see a rollback that is another thread's; the invariant (`InOrder`) says that it
  never misses its own: between the two readings the counter is at least what it
  was, and more if its own action was undone. It also says at which `pc` the
  incident cannot be settled yet and which plan is left to append. Restarts reset
  the counter together with the threads that compare it.
* `OneSettlement` (`SettledOnce`) and `AnswersAreKept` (`AnswersSurvive`): `StoreInv`.
  While a thread works on a sample the index has nothing for it (`AtWork`); what has
  ended, to the knowledge of its process, is in the index or about to be entered by
  the thread that ended it (`Complete`); what is in an index has ended in the store
  and in what the process reads of it, whichever backend it has (`Indexed`,
  `Stored`). The exception in `SettledOnce` is needed exactly where Redis has stored
  an event without telling the process.
* `TypeCorrect` rests on both invariants, as incidents are numbered by the calls.
* The library's least-number principle (`WFMin`) gives the incident that began
  last (`OneBeganLast`), so that the `CHOOSE` of `RebuiltIndex` has a value.

`IncidentWorkerProofs`, for any set of incidents, any evidence, copies and faults
(`WorkerInv`):

* `MemoryIsReplay` (`SnapshotsMatchStore`): `Known` says that a running process that
  takes an incident for ended has of it what a replay of the file would give, and
  that it takes every ended one so, except the one in hand.
* `UpdatesAreFinal` (`UpdatesTellTheOutcome`) and `HistoryMovesLegally`
  (`ReplayedStateMovesLegally`): `AtWork` ties the state the worker goes on from to
  the state replayed from the file, and says that what it has left to emit is a
  legal path that ends in its only terminal state (`Pending`). That
  `Lifecycle` is such a path for all evidence and every count is the lemma
  `LifecycleIsComplete`.
* `RecurrenceIsRemembered` (`RecurrenceEscalates`): the tracker has counted every
  detected incident (`CountedAll`), through failed appends and rebuilding.
* `TypeCorrect`: counters are bounded since every count beyond the incidents in hand
  and ended is paid for by a fault (`Paid`).
* `NothingIsRefused`: neither the transition table nor the snapshot's validation
  refuses anything `record_full_lifecycle` emits, whatever part of a history a crash
  left behind.

`ApplicationSessionProofs`, for any allow-list and any number of sessions, faults
and expiring tokens. `SessionInvariant` is the invariant, the others its readings:

* `StatusIsTrue` (`ObservationTellsEffect`): nothing of the action in hand or of a
  later one has been applied yet (`OneByOne`). An action is repeated only after a
  401, which the application answers without applying anything.
* `ChainHangsTogether` (`ParentsAreOwn`): an id that the session still holds is of
  something it created itself, and a step of the chain is only taken with its parent's
  (`Chained`).
* `RefusalsArePaidFor` (`UnauthorizedHasACause`): each refusal has used up a fault or
  an expiry, and a token that has expired, or a retry under way, one more
  (`Afforded`).
* `TrafficIsBounded` (`BoundedTraffic`): requests since the last observation, by
  phase (`Paced`).
* `TelemetryTells` (`TelemetryPattern`): `ReportIsTrue` says that every observation
  is labelled with the action its step names (`Labelled`), that its status is the
  usual one unless a message was lost, the application failed or a token was refused
  (`Answered`), and that only a workflow something went wrong in skips steps
  (`Complete`). A finished scenario has then been observed in full, and its features
  are counted position by position (`LoginsFail`, `SwitchesShow`, `ProbesShow`). That
  one expired token alone leaves no refusal in an undisturbed session is
  `RefusalsArePaidFor` again (`UsualAnswers`).
* `FeaturesAreShares`: the ranges the feature vector documents, for any window. The
  longest run of failures exists and is no longer than the failures (`BurstFacts`,
  with the library's least-number principle).
* `SplitIsAPartition`: the assertions at the end of `split_by_session` for any number
  of sessions, and which of its parts can be empty.
* `TypeCorrect`: `TypeOK`.

`LauncherProofs`, for any list of workers, any number of polls, deaths and nested
signals (`LauncherInv`):

* `NoUnexplainedSurvivor` (`SurvivorsHaveACause`): what is still to be started is
  neither running nor listed (`Ordered`), the innermost `shutdown()` has seen the end
  of all children before the one it waits for (`Cleared`), and an exit says what it
  left behind (`Explained`). A `shutdown()` that is interrupted never resumes, which
  is why only the innermost one matters.
* `TypeCorrect`: no child is listed twice, from the same ordering.

Only model-checked: every liveness property (`PendingDrains`, the fairness part of
both `ImplementsAtLeastOnce`, `Recovers`, `RecoversUnlessLockedOut`,
`EveryIncidentSettles`, `EverySampleAnswered`, `SessionsEnd`, `ShutdownEnds`;
TLAPS has no ENABLED). Every other invariant and action property of a passing run
is a theorem.

## 6. Not modelled

* The 24 h expiry of idempotency keys and XAUTOCLAIM's internal scan limit;
  entries that do not parse (nothing in the repository publishes one).
* The job queue's own waiting line, the eight attempt threads and attempts that
  hang for ever; the growth of `_pending_decisions`.
* A rollback that another thread counted and a recovering incident then records
  as its own: the history then says more than happened, which no document rules
  out; `RollbackIsRecorded` is the direction that matters.
* The refusal of a second append of one event_id (event_ids are fresh uuids).
* The API's rejected requests, its event stream and the dashboard's summaries,
  which only read; the listener's polling times (an outcome is compared for every
  moment at which it might look, with or without an update).
* The application pipeline that chains the agents' models: it calls the engines
  that `RiskAssessment` models; payload templates and sample generation.
* The defense engine's rejections that the shipped policy rules out and the
  irreversible TERMINATE_SIMULATED_SESSION.
* Metrics, audit records, logs and health endpoints; the read-only correlation
  index.
* Floating-point rounding, feature scaling, the classifiers and the circuit
  simulation: numerical code without a state of the running system. Training and
  evaluation scripts and the frontend.

## 7. Plan

1. `QuantumJobs`: job threads and the shared attempt pool with hanging attempts,
   the one part of the job execution that is only bounded here.
2. `EnvironmentEngine` with the generation of its samples, so that `Pipeline` says
   which evidence a scenario can lead to.
