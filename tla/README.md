# Muldro: a TLA+ model of its execution core

Muldro is an assistant that turns a founder's requests, and events it perceives, into *turns* of an agent and *runs*: graphs of steps
which a background scheduler executes. Their writes go to external services (mail, calendars, CRMs) through MCP tools.
The question is what survives when drivers race, processes die, providers time out and people click at the
wrong moment: is a write done twice, without the human who was asked, before the step it depends on, or never; is an event lost, or a source forgotten?
This directory models the parts of the backend that answer it. All paths below are under `src/backend/src/` unless they start with `src/`.

## 1. Inventory

| Component | State | Operations | Hard behaviour | What makes it correct |
|---|---|---|---|---|
| Idempotency ledger (`services/idempotency/`) | one row per (workspace, identity key): `in_flight`, `completed`, `failed`, stored result | `reserve`, `_resolve_existing`, `record_success`, `mark_failed`, wrapped around the write tools of the autonomous path (`wrapper.py`; `agent_invoker.py:1398`) and around the replay of a prepared action; a chat turn calls its tools without it | three transactions around an external call; double drives, double confirms, crashes | one caller may fire; completed is final; an orphan is never fired again |
| Tool dispatch and MCP retry (`integrations/session_pool.py`, `mcp_errors.py`, `orchestrator/tool_executor.py`, `connectors/mcp_bridge.py`) | circuit state | `execute_tool`, `call_mcp_tool`, `call_tool` | retries of calls that may have taken effect; several error shapes | the answer's shape tells success from failure |
| MCP sessions (`integrations/session_pool.py`, `turn_scope.py`, `local_process_manager.py`) and their breaker (`services/mcp_resilience.py`) | cached clients, a managed process and its reference count, breaker | create, reuse, refresh, discover, clean up, remove, end of turn | a client is closed under a call; creations race with removals; the process dies | no client is orphaned, the process lives as long as its sessions, every call returns |
| Write lock, run lease (`services/write_lock.py`, `services/autonomous_lease.py`) | a Redis key with an owner token and a lifetime | acquire, poll, release | expiry under the holder, failed release, crash | mutual exclusion while the key lives; nobody deletes another's key; bounded wait |
| Transition tables (`services/execution_state.py`) | none | `transition_run`, `transition_step` | callers that need a transition that is not there | finished runs and steps stay finished |
| Run engine (`services/graph_executor.py`, `dag_runner.py`, `step_graph_store.py`, `trust_gate.py`, `user_action_steps.py`, `verification/readback.py`, `reauth_service.py`) | run, steps, checkpoint, approvals, trust | `execute_run`, `resume_run`, `cancel_run`, `execute_dag`, `execute_step` | one long transaction per drive; gate and pause; deferral for re-authorization; step retries | dependency order; a human's decision where one was asked for; trust only for confirmed work |
| Approval and run routes (`api/routes_approvals.py`, `api/routes_history.py`) | the same rows, from API processes | approve, reject, cancel, resume, retry | unlocked reads, then writes behind the driver's lock; two commits in one request | decisions take effect, and only once |
| Scheduler (`services/scheduler/`), startup recovery (`orchestrator/recovery.py`) | claims, retry counts | background tick, health tick, resume reaper, sweeps, expiry | a claim of several runs in one session; tick budgets; rollback | every run is driven to an end, by one driver at a time |
| Trust graduation (`services/trust_engine.py`, `risk_assessor.py`, `trust_gate.py`, `api/routes_trust.py`) | a row of counters and a level per capability and risk; ceilings; cooldowns | evaluate, record, reject, reset, set ceiling | row locks held for a whole drive; rows that two sessions insert; resets beside decisions | a level rests on the record that earns it, no decision is lost, nobody waits for ever |
| Deep runtime and chat (`deep_runtime/`, `orchestrator/agent_invoker.py`, `api/routes_chat.py`) | threads and checkpoints, approval rows | gate, interrupt, resume, reap, sweep | replay of a thread up to a gated call; two resumes; expiry; a sweep beside new pauses | a write happens once, as decided; a pending question can be answered |
| Prepared actions (`services/prepared_actions.py`, `api/routes_approvals_prepared.py`) | approval rows with a recorded payload, the ledger | prepare, confirm, replay | crash or exception between decision, write and record | executed iff the effect happened |
| Perception schedule (`services/perception_policy.py`, `scheduler/perception_tick.py`, `reauth_service.py`) | per source: mode, due time, pending flag, circuit, failures | claim, record outcome, signal, pause, resume, recover | a lease shorter than the cycle; outcomes written to rows that changed meanwhile | no signal is forgotten, every source is polled again |
| Perception cycle (`orchestrator/perception_runner.py`, `connector_poller.py`, `services/event_processor.py`, `connectors/`) | cursors, stored events | read cursor, fetch, deduplicate, store, publish, advance | overlapping cycles, truncated fetches, failures between store and cursor | no item is skipped, none published twice |
| Events (`services/event_bus.py`, `worker.py`, `dead_letter.py`, `scheduler/dlq_tick.py`) | stream, consumer group, dead letters | publish, consume, claim, acknowledge, bury, retry | redelivery, crash between handling and acknowledging, trimming | nothing vanishes, everything settles, retries are bounded |
| World model and memory (`services/world_model.py`, `entity_facts/`, `memory_service/`, `eviction_service.py`) | entities, aliases, facts that supersede one another, memories and their vectors | upsert, record, corroborate, evict | concurrent upserts, rows beside vectors | one current fact; not modelled yet |
| Budget, notifier, OAuth, search, views, frontend | various | various | mostly accounting, read models and language-model work | no protocol properties |

### How they interact

A driver (the background tick or the resume reaper) selects run rows `FOR UPDATE SKIP LOCKED`, takes the run's lease in
Redis, and calls `execute_run` or `resume_run`. The DAG loop works in the tick's database session and commits
once at the end. For each ready step the trust gate decides: run it, ask a human (an approval row and a paused run) or,
when nobody is present, run it in an inner loop that prepares the writes. A step's write goes through the gates of the deep runtime, the write
lock (workspace and capability), then the ledger, then the dispatcher and the session pool; a write of a chat turn goes the same way, but past the ledger. API routes
change the same rows from other processes: approve, reject, cancel, resume, retry, reconnect. The health tick, the sweeps and
startup recovery repair what a dead driver left. Perception ticks poll sources, store what is new and publish it; workers of the event bus
handle it and leave what they cannot handle to the dead letters. A revoked credential pauses sources, defers runs and closes sessions until the founder logs in again.

## 2. Modules

| Module | Subject | Relation |
|---|---|---|
| `IdempotencyLedger` | the wrapper, the ledger and the retry loop under it | refines `WriteOnce` |
| `WriteOnce` | what the ledger promises of a write | abstract; `GatedWrites` implements it as well, for its prepared calls |
| `OwnerLock` | write lock and run lease, one algorithm with two sets of constants | its exclusion is what lets `RunEngine` have one driver |
| `ExecutionState` | the two transition tables | extended by `RunEngine` |
| `RunEngine` | one run: scheduler, DAG loop, gate, approvals, routes, recovery | leaves the gate's verdict open |
| `RunDispatch` | several runs claimed by several schedulers | abstracts a drive to "execute what is left" |
| `Graduation` | the rules of trust, as operators | extended by `TrustRows` |
| `TrustRows` | the transactions that meet on trust rows | has the verdict that `RunEngine` leaves open |
| `GatedWrites` | a turn of the deep runtime, its gates, pauses and prepared writes | uses the ledger as `IdempotencyLedger` shows it |
| `PerceptionPolicy` | the scheduling row of a source, as operators | extended by `Perception` |
| `Perception` | when a source is polled | abstracts a cycle to its answer |
| `Ingestion` | what overlapping cycles do to cursor and events | assumes only that cycles start again and again |
| `EventStream` | a consumer group and the dead letters | what `Ingestion` publishes is delivered here |
| `Sessions` | the MCP sessions of one server | under the calls of `IdempotencyLedger` |
| `LedgerProofs`, `RunProofs`, `DispatchProofs`, `TrustProofs`, `GatedProofs`, `IngestionProofs`, `EventStreamProofs`, `SessionsProofs` | theorems | extend the modules they are about: `DispatchProofs` those of claims and locks (`RunDispatch`, `OwnerLock`), `IngestionProofs` those of a source (`Ingestion`, `Perception`), the others one each. `OwnerLock` and `Perception` have names of their own for state and specification (`LockSpec`, `ScheduleSpec`, ...), so that a module can extend both |
| `MC...` | instances for TLC | |

Definitions whose comment starts with "Faulty:" are plausible mistakes next to the operation they would replace; no
specification uses them. They show that the properties can fail. Some variables are *history*: no guard reads them and they only let a property say what happened before.
Some of these name exceptions, situations in which the code does not keep what the property says (section 3 lists them): the property then says that these are the only ones.

### IdempotencyLedger

A caller is one execution of `_idempotent_execute` (or of `execute_prepared_action`, which shares ledger and
error test). `pc` follows it: `reserve` (the INSERT), `resolve` (the SELECT after an IntegrityError), `reopen` (the
guarded UPDATE), `fire` (the dispatched call), `record`. Each is a transaction or an await of its own, so callers
interleave between any two. `row` and `stored` are the ledger row, `effects` counts what really happened outside.
`FireTransient` is one turn of `call_tool`'s loop, `FireOk`, `FireError` and `FireFailed` the three shapes an answer can have: a
success, a body with `error`, and the envelope of `make_error_response`, which has none. `Crash` is the end of the
process, the step timeout's cancellation, or a ledger write that raises. The branch of `_resolve_existing` for a row that
vanished is not modelled: nothing deletes ledger rows. Keys are model values; what `derive_identity_key` hashes is outside
the model. `Ambiguous` is the set of keys whose tool may report an error after its effect: the ledger's comments hold for the others.

### OwnerLock

`key` is the owner the Redis key names, `ttl` its remaining lifetime, `wait` and `busy` the time an attempt may still poll and a body may
still take. A uuid token is never reused, so while an execution is inside its token is the worker itself, and the key of an execution that
is over is `"stale"`. `TimePasses` is Redis expiry and the passing of time, `HolderDies` the end of the process. The write lock polls (`WaitTimeout` > 0), the lease makes one attempt (0). The run polls; the theorems hold for every `WaitTimeout`.

### RunEngine

`db` is what is committed, `tx` what the driver's session holds. Between `Begin` and `Commit` the row lock is
held (`~Unlocked`) and API writes to the run wait; API reads do not. `pc` is the driver: `dag` (asking for ready steps), `batch` (between steps),
`call` (a step's action runs), `commit`, `escaped` (an exception reached the tick). Actions and code:

- `TickExecute`, `TickResume`, `ReapResume`, `ReapExhausted`: the background tick's two branches and the reaper's two.
- `GetReadySteps`, `NothingReady` (`Finish`, `BlockedByFailure`, `BlockedOtherwise`): `execute_dag`.
- `SettleUngated`, `PauseForApproval`, `StartResumed`, `StartExempt`, `StartCleared`, `StartPrepared`: `execute_step`
  up to the action; the gate's verdict is open, so every level of trust is covered.
- `StepReturns` (with the read-back's verdict, the checkpoint and the trust increment), `StepTimesOut`,
  `StepFails`, `DeferForReauth`, `StepBlowsUp`: what comes back.
- `Commit`, `CommitFails`, `DagRaises`, `RunTimesOut`, `Crash`, `Bookkeep`: how a drive ends.
- `Approve` and `QueueResume` are the two commits of `approve_action`; `QueueFails` the death of the API between them, or its error path.
- `Reject`; `RouteReads` and `CancelRoute`, `ResumeRoute`, `RetryRoute`, `RouteGivesUp`: an unlocked read, then a write that waits for the lock or gives up
  at the 120 s statement timeout.
- `Requeue`, `Recover`, `HealthTick`.

`asked` is history: the gate wanted a human for the step. `Presence` is the
parameter of `DagRunner` of that name; its default is `"absent"` and a comment says nobody is present in practice, but
both values are code paths and both are modelled. Simplifications: one run-route request waits at a time; scheduler
ticks run one after the other in a process, so the health tick is atomic when no driver holds the row; cancellation through
the in-memory event is left out because the route builds its own executor and the driver never sees that event;
`pause_run` has no caller; the plan's status mirror is not kept.

### RunDispatch

A tick claims up to `Limit` pending runs in one SELECT, then drives them in order in the same session. `lock` is
the row lock, `sees` the steps as the drive read them, `note` the retry bookkeeping that waits for the tick's
last commit, `expired` says that a rollback expired the session's instances. `StartDrive` uses the status loaded by the claim
(`expire_on_commit=False`), whatever is committed by now.

### Graduation and TrustRows

`Graduation` translates `graduate_trust`, `apply_rejection`, `record_approval_decision`, `_matrix_lookup` and `evaluate`; the rejection rate is compared by
multiplication, so there are no fractions. `TrustRows` has a row for each risk level of one capability. `get_or_create_trust_state` selects `FOR UPDATE`: `Select` sends
the statement, `Take` gets the row (or inserts it) when nobody else holds it, `Conflict` is the unique key's refusal when somebody inserted it meanwhile. `lock` says who holds a row, `work` is the row in the
open transaction, `credits` the approvals recorded in it. A drive is one transaction, so it keeps its rows until `Commit`; the agent of an unapproved step (`Call`, `InnerGate`) works in a session of its own, for which
the drive's rows are taken. `WaitFails` is PostgreSQL's deadlock detector or `statement_timeout`, `StepTimeout` the step's `wait_for`, `RunTimeout` the run's, `Crash` the process or the sub-tick budget. `ResetRead`
and `ResetWrite` are the unlocked read and the flush of `reset_trust_for_capability`; the ORM writes only columns that change. `tally` counts committed decisions, `torn` the rows a reset wrote over a change it had not read.
Time policies are stored and read by nothing, so they are left out, as is `modified_count`.

### GatedWrites

One turn makes its `N` writes in order. `Ask`, `Prepare`, `Allow` are the verdicts of the permission and trust gates; `OutOfScope`, `ToolDisabled`, `ServerDown`, `LockRefused`, `RepairsSpent`, `ToolAnswersError` the other middleware, by
what they make of the call. `Pause` ends the stream with the thread's checkpoint kept, `Finish` and `DispatchRaises` reap it. A resume is three steps of a request: `ResumeGuard` (the read), `ResumeFlip` (the compare-and-set), `ResumeLoad`; then the thread is
replayed from its checkpoint and the gate finds its own row (`Replay`). `Confirm` ... `ConfirmSettle` are the approval route on prepared work: commit "approved", reserve, call, record, write the outcome. `ExpireRead` and `ExpireWrite`, `ExpireAtStartup`,
`SweepRead` and `SweepReap` are the ticks. `CutOff` is a crash or a client that went away, at any await. LangGraph is external: a checkpoint precedes every superstep and a resume re-enters the call it is at. An answer without effect is taken to say so
(`IdempotencyLedger` has the envelope that does not).

### Perception and PerceptionPolicy

A scheduling row is a record; `PerceptionPolicy` has the WHERE clause of the claim, the lease, outcomes, the circuit and the two sides of re-authorization as operators on it. Times are reduced to whether they have passed (`due`, `cooled`), and the clock is an action.
`Perception` adds the workers: `Claim`, `PollFails` or `PollAnswers`, `Plan` (the agent's policy), `Record`, `Cancel`; signals; the loss and renewal of the credential; `DropTokenless` and `ReauthRecovery` of the tick; `MarkNeedsReauth` and `Reconnect` from outside. `owed` is history: a
signal was accepted and not answered by a poll.

### Ingestion

`head` is what the source has produced, `cursor` what it was read up to. A cycle reads the cursor, fetches at most `Page` items, takes chunks (`DedupChunk`: the SELECT of known keys), stores a chunk in one transaction (`StoreChunk`: a key stored meanwhile refuses all of it, and
what is refused is `lost`), publishes it (`Publish`), and moves the cursor last (`Advance`). `Deliver` is a webhook. `Stop` is every failure, cancellation or crash. `EventKey` may give two items one key, as `make_idempotency_key` does for replies in a Slack thread.

### EventStream

Redis streams are external and modelled by what `EventBus` uses: `Publish` trims to `MaxLen`, `ReadNew` and `ReclaimPending` deliver batches, `pel` counts deliveries of what is pending, `GoesStale` passes the idle limit, also for a message somebody is still working on. A worker goes through its batch:
`HandlerCommits` or `HandlerRaises`, then `Ack`, `RetryLater`, or `GiveUp` and `Bury` (the letter and the acknowledgement; `BuryUnacked` is a crash or a failed XACK between the two, after which the message is buried a second time). `DlqRetry` is the tick over dead letters.

### Sessions

The pool of one server: `cached` and `open` clients per user, the managed process `proc` with `refs`, the breaker `cb`. The pool's lock is held while a session is made (`StartCreate`, `Connect`), not while it is used, so `handle` may be gone when a call comes to it. `cur`, `leaked`, `stale`, `abandoned`, `unready` are history: whose client runs on the present
process, the references that a failed creation or a cancelled close left, those that sessions of an earlier process gave back, the clients that are open and in no entry, and that the wait for the process was cancelled.

`Shut` is what `close_keys`, `refresh_session` and `cleanup_idle` do under the lock: pop, close and release, `Close` to the end and `Cut` up to the await at which it is cancelled. `CancelledError` is no `Exception`, so the handlers of these loops let it through: the client that was being closed may stay open, its reference is not given back, and the keys behind it stay cached. A cancellation inside `_stop` comes after
`_running` has forgotten the process and differs from a completed release only in what the caller does next. `RefreshCut`, `ReaperCut`, `RemoveCut` and `EndTurnCut` are the four callers; `SpawnCut` is the cancelled wait for a new process, `ConnectFails` a creation that raises or is cancelled, with or without a client that was already entered, and `Cancel` a call that waits. A
cancelled discovery still refreshes its session (its `finally`). A removal that is cancelled leaves the server out of the workspace's list and in the pool's configuration; the model lets the next removal follow at once, where the code needs a reload first.

## 3. What TLC checks

| Run | Instance | Shows |
|---|---|---|
| `ledger` | 3 callers, 2 keys, 2 attempts; one key's errors may hide an effect; fair | `EffectAtMostOnce`, `FailedMeansNoEffect`, `OrphanNeverRefired`, `ImplementsWriteOnce`, and `CallReturns`: nobody waits for a row another caller holds |
| `lock` | 3 workers, lifetime 3, bodies of 1, 2 and 4; fair | `MutualExclusion`, `BoundedWait`, `StrandedKeyExpires` |
| `run_present` | two dependent writes, human present, two faults | `DependenciesFirst`, `ReviewedBeforeRun`, `TrustEarned`, `CheckpointAgrees`, `CompletedIsClean`, `EndedStepsStay` |
| `run_absent` | five steps of every kind, nobody present, one fault; fair | `Settles`: the run leaves pending and running |
| `run_unreviewed` | two dependent writes, nobody present, no faults | TLC refutes `ReviewedBeforeRun` (below) |
| `dispatch` | 2 schedulers, 3 runs, claims of 2, the last run always raises, two faults; fair | `OneDriver`, `WorkOnce`, `EveryRunEnds` |
| `trust` | 2 drives of 2 steps, one watched, and a rejection; 2 rows, one of them missing, the other one approval short of the highest level; fair | `LevelEarned`, `CountsKept`, `EveryoneFinishes` |
| `gated` | a turn of 2 writes, present or not, 2 deciding requests, one cut; fair | `AtMostOneWrite`, `AsDecided`, `PendingResumable`, `ApprovedIsWorkedOn`, `ReaperCatches` |
| `perception` | 2 schedulers, circuits that open after 3, 2 or 1 failures, two cycles cancelled; fair | `SignalKept`, `PolledAgain`, `ReauthHeals` |
| `ingestion` | 2 overlapping cycles or webhooks, 3 items of which two share a key, pages and chunks of 2, two faults; fair | `NothingSkipped`, `PublishedOnce`, `EveryItemStored` |
| `events` | 2 workers, 3 messages, one poisonous, a stream of 2, one fault; fair | `NothingVanishes`, `EveryMessageSettles`, `LettersSettle` |
| `sessions` | 2 turns of 2 users, 2 attempts, a breaker that opens at once, one fault; fair | `NoOrphanSession`, `ProcessNotForgotten`, `StoppedWhenUnused`, `EveryCallReturns`, `RevokedSessionsClose` |

The type invariant is proved in the proof modules, alone or with the first invariant, of which it is a conjunct.

**Bounds.** Three callers are one more than the race on a reopen needs (one records a failure while two read it); two
keys show that keys do not disturb one another. Two attempts give a retry and a last attempt. In `OwnerLock`
only the order of lifetime, wait and call matters, and the instance has calls on both sides of the lifetime. Two dependent steps are the least
graph in which order and an earlier success matter; `run_absent` adds a second chain and the other kinds of step. Two faults
let a crash hit the recovery from a crash; the fair run of `RunEngine` has one. `MaxTries`, `MaxRetries` and `ReapMax` are 2, so that each
limit has a case below it and a case at it. Three runs and claims of two leave one run to a second scheduler. In `TrustRows` two rows and two drives are what a lock cycle needs, the third session is what meets an uncommitted insert,
and the record 24 approved, 1 rejected crosses the highest threshold upward and, by a rejection, downward; one reset is enough to tear a row. Two calls and two requests in `GatedWrites` are a double click, a race of a decision with expiry, and a second pause behind a decided first;
prepared rows share nothing, so the instance prepares one. In `Ingestion` three items with pages of two make one fetch truncated, and chunks of two hold an old and a new key together. One fault in `Sessions` is one failed or cancelled step in a history of any length; two faults, without the liveness properties, give two million states and the same result. Two users and two turns make creation, refresh and removal of one session meet; that a session of a dead process, one of its successor and a third one meet takes three users, too many for the fair run, and is left to the theorem. In `EventStream` `MaxLen` below the number of messages makes trimming happen, and two deliveries are a retry and a last one.
Symmetry is not used: the runs with fairness could not.

**Deadlock** is not checked where the system may really be at rest: `RunEngine`, `RunDispatch` and `GatedWrites`, whose runs and turns end. In the others something can always happen.

**Fairness.** `IdempotencyLedger`: the event loop resumes a coroutine that can run and every await returns or
raises; no call and no crash is forced. `OwnerLock`: time passes, the polling loop wakes, a body that may
take no longer returns. `RunEngine`: the scheduler loop (`SchedulerBase.run`) calls its ticks for ever, a drive runs
to its end, and a request that waits for a row lock gets it in the end (PostgreSQL queues waiters), which is
strong fairness because the lock comes and goes. `RunDispatch`: every scheduler keeps ticking. `TrustRows`: drives and requests go on, a step's `wait_for` fires, and PostgreSQL ends waits; a run need not have a budget.
`GatedWrites`: a request that is not cut off goes on, the heartbeat and the sweep come round, decisions age. `Perception`: the clock runs, the scheduler ticks, cycles go on. `Ingestion`: a cycle goes on, and cycles start again (strong fairness: what `PolledAgain` of `Perception` gives).
`EventStream`: consumer loops and the dead-letter tick go on, pending messages grow old. `Sessions`: calls go on, the pool's `asyncio.Lock` is first come, first served (strong fairness), the reaper runs. Faults and decisions of people are never fair.

### Disagreements between code and comments

`run_unreviewed`: a step deferred for re-authorization is left `running`, and the next drive takes it for approved (`services/dag_runner.py:287`), although a comment at line 409 says that withholding the approval makes this unreachable.

The following were met while modelling. The first group is in the models: the property that would forbid it either names it as an exception or is not stated because it fails.

Writes and runs:

- a transport error may hide an effect, and `call_tool` repeats the write (`integrations/session_pool.py:609`): `EffectAtMostOnce` is about the keys outside `Ambiguous`;
- the error envelope has no `error` key and is recorded as completed (`services/idempotency/wrapper.py:107`; `prepared_actions.py:54` says "True iff the effect has happened");
- `approve_action` commits the decision (line 176) and queues the run (236) in two transactions; after a crash in between the step is approved, the second click is answered "already approved", and no tick selects the run;
- rejecting a waiting step needs a transition that is not in the table and raises (`api/routes_approvals.py:544`);
- `running -> timed_out` is missing from the table: the executor's handler raises, the health tick assigns the status directly;
- a cancel request that waited for the row overwrites a completed run (`api/routes_history.py:664`);
- a run in `awaiting_input` or `paused` that the resume route queued is never selected (`services/scheduler/background_tasks_tick.py:58`);
- a run resumed before its approval was decided is completed while the step still waits (`services/dag_runner.py:139`);
- the retry route does not reset failed steps, so the retried run fails again at once; it also tags the run `approval_resume`, so a gate that pauses it later is resumed without a decision;
- a run that keeps raising loses its retry count when another run follows it in the claim (`services/scheduler/background_tasks_tick.py:75`): in `dispatch` the poisonous run is the youngest;
- a run cancelled after it was claimed is driven from its stale status and completed (`background_tasks_tick.py:72`); `WorkOnce` says that its skipped steps stay skipped.

Gated writes:

- the sweep reads the decided rows and the pending ones and deletes afterwards; a thread that pauses again in between loses its checkpoint (`deep_runtime/checkpoint_reaper.py:59`; exception `lost`);
- a stream that fails after the approval row was committed reaps the thread whose question is pending (`lost`);
- startup recovery expires approvals without `decided_at` (`orchestrator/recovery.py:88`), so their checkpoints are never swept, and neither are those of a turn that crashed with nobody present;
- a request cut off after the compare-and-set (`orchestrator/agent_invoker.py:1079`) leaves an approved write that never runs, and one cut off in the confirmation of a prepared write leaves it `approved` (`api/routes_approvals.py:245`; exception `orphans`);
- a prepared write whose tool or record raises goes back to pending although its effect may have happened (exception `unsure`); the ledger row stays in flight and keeps it from running again;
- the heartbeat writes "expired" over a row decided since it read it (`services/heartbeat.py:187`).

Trust:

- a drive's `evaluate` keeps the trust row locked until the drive commits, and the agent of an unapproved step evaluates the same capability in its own session: with the same risk it waits until the step's budget is over. The step times out and nothing is staged, against the comment at `services/dag_runner.py:395` ("The inner deep trust_gate then evaluates the REAL tool call"). PostgreSQL sees no cycle, since half of it is in the process;
- two drives that meet two rows in opposite order deadlock, and the victim loses its whole drive;
- `reset_trust_for_capability` does not lock what it reads and the ORM writes only changed columns: a decision committed in between leaves, for instance, a level without counters (exception `torn`);
- a rejection that loses the race to insert its trust row is lost with its request: the failed flush is caught, the commit raises (`api/routes_approvals.py:566`);
- a rejection can promote: at `first_use` it sets no cooldown and `graduate_trust` is computed afresh, so approvals counted during an earlier cooldown take effect then.

Perception and events:

- `LEASE_TTL_S` is 180 s and its comment says it must exceed the sub-tick budget ("~90s"), which is 300 s; the agent's policy overwrites the lease as well: cycles of one source overlap;
- a cycle that began before a source was paused for re-authorization overwrites `last_error`, and the source is not resumed (`services/scheduler/perception_tick.py:704`): `ReauthHeals` is about rows that say `needs_reauth`;
- one duplicate key gives up a whole chunk and the cursor passes it (`services/event_processor.py:707`; exception `lost`); a Slack key is the thread without the message;
- an event stored and not published before a crash is never published: `PublishedOnce` says at most once;
- items beyond what one poll drains are not fetched later from Slack (the exception in `EveryItemStored`); the GitHub connector moves its cursor even then;
- a dead letter whose write fails is acknowledged all the same, and a trimmed message is gone (exception `dropped`); a handler that kills its process never comes to the count that would bury its message;
- the dead letters of workers carry operations the tick does not know, so they only run out of attempts (`scheduler/dlq_tick.py:24`).

Sessions:

- a creation that fails or is cancelled after `ensure_running` leaks a reference (exception `leaked`), and when that happens after the client was entered (`session_pool.py:353`: in `list_tools` or `_register_discovered_tools`) an open client remains that no entry names and nothing closes (exception `abandoned` of `NoOrphanSession`);
- a cancelled close (`session_pool.py:749`, `:772`, `:792` catch only `Exception`) has popped the entry and gives no reference back, and may leave the client open (the same two exceptions);
- a cancelled wait for a new process (`local_process_manager.py:100`) leaves it running with a count of zero: nobody stops it until somebody uses it and lets it go (exception `unready`);
- a process that died is restarted with a count of one, and sessions of its predecessor give back references that are not theirs, so that a later close may stop it under a live session (`local_process_manager.py:91` calls this a best-effort edge case; exception `stale`, and sessions that may still do so, in `StoppedWhenUnused`);
- ending a turn closes every key it touched, also those other turns use, whatever the docstring of `turn_scope.py` says.

Read, and in no model: the starvation ceiling of the perception policy defeats the failure backoff after 30 minutes; `list_pending` takes the ten newest dead letters, so old ones may starve; a dead letter of a background run is resolved without being executed; only the first of several interrupts of a superstep is shown;
two expired approvals of one run make the health tick's `scalar_one_or_none` raise (`run_health_tick.py:79`); `AnthropicCircuitBreaker` is asked by nobody; the facts of an entity are closed at the time the observation *began*, so two that commit in the other order leave intervals that overlap (`entity_facts/store.py`), a confirmed
read-back recomputes confidence from the first origin and may lower it, and the loser of a race to create an entity drops its attributes (`world_model.py`).

## 4. What is proved

The theorems hold for every set of callers, keys, workers, steps, schedulers, runs, sessions, calls, requests, cycles, turns and users, every dependency graph, every history of a source and every bound. Assumptions are the named
`ASSUME`s of the modules (types, positive bounds, disjoint sets of names; in `TrustRows` that the rows to begin with are earned, which is so for an empty table) and, where said, one more. No property of this list is inductive by itself; what follows says what had to be added and why.

- `LedgerProofs`. The inductive invariant is that a key held by a caller has an `in_flight` row and one holder. `MutualExclusion`,
  `CompletionFinal`, `OrphansStay` follow from it. `AtMostOnce` and `ReopenIsSafe`, which are about the keys outside `Ambiguous`, add that a write which may still be fired (its row absent or failed, its holder in the
  call or about to record an error) has had no effect.
  `Refinement` maps `in_flight` to "claimed" and the holders to the owners, and shows each action to be one of `WriteOnce` or to leave its state alone.
- `RunProofs`. Every step of the specification changes the rows in one of three ways (the session works, the session is committed, somebody else
  stores committed rows), and a row only ever *evolves*: a step succeeds once and stays so, an ended step keeps its status (the upgrade of an unverified one, which `EndedStepsStay` allows, is in the transition table and in no action), a step leaves
  `pending` only when its dependencies have succeeded. `DependenciesHold` and `EndedStepsKept` are inductive over that relation, with the link that
  the session's rows evolve from the committed ones. `ReviewHolds` assumes `Presence = "present"` and strengthens the
  property with: an open approval or a pending click means that the step waits, in the committed rows and in the session, and a running step whose gate
  asked has an approved approval. It needs the assumption: `run_unreviewed` is the other case.

  `CheckpointHolds`, `TrustHolds` and `CompletedHolds` are about what a row records. They need the same of the session's row (it is what `Commit` writes), and that a driver at work has marked
  its run `running`: otherwise a step could fail under the verdict "completed". A change that makes no step succeed and takes no success back (`Minor`) keeps the books whoever makes it; `StepReturns` is the one action that records a success,
  and since its step was `running` the step had earned no trust yet.
- `DispatchProofs`. `SingleDriver` needs that a drive holds lease and row lock of its run; the claim's own lock is gone after the first commit of the tick. `WorkDoneOnce` adds that a drive sees the steps as they are committed, although the status it started from may be
  stale: it reads them when it starts and nobody else commits them while it has the lock.

  The locks themselves: `ReleaseIsSafe` needs the types and that the key never names a worker that is not inside. `Exclusion` is about the workers whose bodies are shorter than the lifetime (`Timely`): one that is inside has the key, and the key has
  longer to live than the worker may still take.
- `TrustProofs`. First the rules: an approval or a rejection of an earned row gives an earned row, also during a cooldown (`ApproveEarns`, `RejectEarns`; the demotion ladder is steep enough for the thresholds). Then the transactions: a row a session has locked is, for that session, the committed one plus the
  credits it has recorded, with an earned level, and a session has credits only in rows it has locked. `LevelsRestOnRecords` and `DecisionsCounted` follow. A reset needs that rows are never deleted.
- `GatedProofs`. The invariant has two halves, for a person present and for nobody. Present: the thread has one active driver, or one pending question, or neither; where either stands nothing later has happened, the checkpoint is there (or the loss is recorded in `lost`), and what a replay
  is about to do was decided. A driver about to pause is not active, since its row may already be decided and the request that decided it be at work. Nobody present: one request replays a call; its place says what the ledger holds and whether the write has happened; a row that can be confirmed
  again has had no effect, or its ledger row is in flight and bars the write. `WriteHappensOnce`, `DoneAsDecided`, `QuestionsKeepTheirThread` and `ApprovalIsFollowed` follow.

  `PreparedWriteOnce` uses the invariant for a refinement: the ledger rows of the calls, the requests between reservation and record, and the writes of prepared calls behave as `WriteOnce` says. The reservation is a claim, the tool's answer the effect, the record settles; a replay that raises or is
  cut off is abandoned, and its claim stays. All the rest of the turn, the routes, the expiry and the sweep leave the abstract state alone, which for `Dispatch` rests on the fact that no prepared call is ever let through to the tool by a gate. TLC has checked it on the instance of `gated`.
- `IngestionProofs`. For `NoneSkipped`: below the cursor a cycle *read*, however old, everything is handled, and below the one it will *write* everything is handled or in its hands. That makes the late write of an old cursor harmless. For `AtMostOncePublished`: what a cycle is about to publish is stored and unsent, and no two
  items at hand share a key, which is what the unique key and the deduplication inside a chunk give.

  `NoSignalForgotten` (`SignalKept` of `Perception`): an accepted signal stays flagged, or a worker has still to poll. With the types the property is inductive once one knows that a record, written by however old a cycle to whatever row it finds, arms a flag again that it found set (`RecordKeepsSignal`).
  `CircuitOpensByFailures` says that an open circuit has had as many consecutive failures as the threshold of some error class, and that only an open circuit has cooled down; success, resume and the trial after a cooldown reset the count and the open circuit together, and the cap on the count
  (`MaxFails`) is no smaller than any threshold.
- `EventStreamProofs`. `NoMessageVanishes` strengthens `NothingVanishes` with two facts: a worker that has a message in hand has one (its batch is a short, non-empty sequence of messages), and what a worker is about to acknowledge was handled. The rest is about batches: a read takes the `Batch` oldest
  messages and passes over what lies between them, so the batch has to be known exactly, by the rank of its members. That ranks in a finite set of numbers are distinct and leave no gap is proved without induction, as an injection of the set into as many numbers. `DropsAreTrimmedOrFailed` is an action
  property: a step adds to `dropped` only messages that the stream had trimmed, unless a command failed in that step.
- `SessionsProofs`. The invariant is two equations: the open clients of a user are the cached one and the abandoned ones, and references plus those given back for an earlier process are the sessions on this process, the leaked references and one for a creation under way. One lemma about `Shut` serves the closes that end (`Closed`: nothing is leaked) and those that are cut (`CutShort`: at most one reference, for a fault). A count of zero with a process is possible only when the wait for it was cancelled. The attempt to prove `StoppedWhenUnused` as first stated failed at `Release` for a good reason: with three users a session of a dead process takes
  the reference of a living one, and the next close stops the process under a session that uses it. TLC confirmed it. The history variable `stale` now names that exception, and `NotStoppedInUse` proves that there is no other.

Only model-checked: everything with fairness (`CallReturns`, `BoundedWait`, `StrandedKeyExpires`, `Settles`, `EveryRunEnds`, `EveryoneFinishes`, `ReaperCatches`, `PolledAgain`, `ReauthHeals`, `EveryItemStored`, `EveryMessageSettles`, `LettersSettle`, `EveryCallReturns`, `RevokedSessionsClose`), which is out of the
prover's reach. Every invariant and every action property that a run checks is also a theorem.

## 5. Not modelled

The definitions stand for about a ninth of the backend's lines; the rest is of four kinds.

- No protocol: prompts, extraction, ranking, embeddings, presentation, read models and view models, schemas, settings and catalogues; the scripts, spikes and migrations; the TypeScript frontend. These are most of the code. They keep no state that two actors change, and a model would restate them line by line.
- Bookkeeping without a guarantee: budget (spend is added up after the fact and only slows polling down), metrics, traces, audit, best-effort notifications.
- External services: OAuth exchanges, webhooks' registration, vector and graph stores, the sandboxed processes; only what a lost credential, a failed call or a dead process does to the modelled parts is there.
- Parts of modelled components: parallel calls in one superstep and the delegates of the lead; what event handlers do; triage and watchers; the durations of drives (the sub-tick budget of 300 s is shorter than a run's timeout of 600 s and ends a drive without bookkeeping, so a slow run starts over on every tick: `Crash` is bounded where the code is not);
  deferred verification, whose tick is built without a read function, so that the steps it looks at stay `completed_unverified` (`EndedStepsStay` leaves it the upgrades of the table; a tick that could read would take a contradicted step out of the checkpointed successes, and `CheckpointAgrees` and `DependenciesFirst` would have to say so); the shutdown of the session pool; `reconcile_run_from_events`, which runs only when the checkpoint disagrees with the steps, and `CheckpointAgrees` excludes that.

## 6. Plan

Done: the ledger and its abstraction, the locks, the run engine and the dispatch of runs, trust, gated and prepared writes, perception and ingestion, the event stream, the sessions; the theorems of section 4. Next, in order:

1. More action properties behind the invariants of section 4 (what a step may never do to a checkpoint, a cursor, a session), and `RunEngine` as an implementation of the drive that `RunDispatch` abstracts.
2. The facts of an entity: superseding chains under concurrent upserts, with intervals.
3. Memories and their vectors: rows, points and dead letters under crashes.
4. Tick budgets: drives with durations, to state when a slow run ends.
