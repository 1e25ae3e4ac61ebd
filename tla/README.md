# Verification of the Lumi job execution core

TLA+ models, TLC runs and TLAPS proofs for the part of the Lumi backend that
executes multi-agent jobs: the task DAG engine, the effect journal, the resource
coordinator, the durable job store with its control requests, the admission of
jobs, plans that are run step by step, and rolling plans that are patched and
replanned while they run.  Source paths below are relative to the repository
(`packages/`, `app/`); `PROJECT.json` relates every definition to the lines it
models.

## 1. The system

A request is planned and frozen into a `JobSpec`, a DAG of nodes.  Admission
grants it a token and a slot; the backend stores the job, starts a coroutine
(`_run_loop`) that calls the task engine, and answers pause, resume, approve and
cancel requests from HTTP handlers, which may run in the same process or in
another one.  The engine launches node tasks; each one reserves its effect in a
PostgreSQL journal, takes channel and resource leases in Redis, runs a worker (a
tool or a language model) and settles the effect.  Every state change is written
to one JSON record per job in Redis.  A long plan is kept outside the job and
handed to the engine window by window (a *rolling* or *logical* plan); a plan the
user wants to confirm is run one step per request.

| Component | State | Operations | Interacts with |
|---|---|---|---|
| Task engine (`packages/execution/.../task_engine.py`) | pending set, running tasks, results | `run`, scheduling pass, collect, stop | control port, lifecycle port, node executor |
| Node executor (`app/.../execution/node.py`) | node of the job, worker context | `execute_node` | journal, coordinator, channel limiter, store |
| Effect journal (`app/repositories/effect_journal_repository.py`, `effects.py`) | a row per idempotency key | reserve, confirm, mark uncertain, abandon, startup sweep | node executors of all processes |
| Resource coordinator (`packages/orchestration/.../resources.py`) | lease hash per key in Redis, local lock table | `claim`: acquire, renew, release | node executors of all processes |
| Job store (`app/.../runtime/state.py`) | the job record, a lock per job and process | `get_job`, `save_job` with merge | everybody |
| Legacy backend and execution loop (`backends/legacy.py`, `execution/*.py`) | table of job coroutines, job objects in memory | submit, cancel, pause, resume, approve; run loop, interrupt, ensure_failed | store, engine, admission, rolling plan |
| Admission (`admission.py`, `admission/`, `submission/submission_guard.py`) | sorted sets in Redis, local tables, a heartbeat per job | reserve, promote, activate, renew, release | submission, loop, requests |
| Step runs (`step_engine.py`, `step_run_service.py`, `step/`) | routing, steps and keys in the job, checkpoints | run next, approve, reject, cancel, recovery plan | store, journal, admission |
| Rolling plan (`planning/logical_plan*.py`) | plan document in Redis, pointer in the job | materialize a window, commit, complete | loop, replanning, patches |
| Plan patches (`scheduling/`) | lock per job, history and revision in the plan | append, replay, wake | clients, rolling plan, resume |
| Replanning and escalation (`recovery/`, `escalation_service.py`) | replan count in the job | replace the tail, ask for an approval | rolling plan, planner |
| Channel limiter, Temporal backend, planning, capabilities, skills, roles, MCP, knowledge, memory, workspace, office, plugins, API, events | see `PROJECT.json` | | |

What is hard in it:

* **Interleaving at awaits.** The engine acts on a control status it read before
  an await; the loop, its node tasks and a save that is merging share one `Job`
  object; confirm and mark-uncertain are a read and a later write; the loop reads
  a plan, and writes it back after other awaits.
* **Two clients of one record.** Saves are optimistic transactions with a merge,
  from several coroutines and processes, with snapshots of any age.  The plan
  document has no such protection.
* **Cancellation.** A cancelled coroutine may be inside a transaction, a
  reservation or a lease; node tasks are tasks of their own; an event stream ends
  with its connection.
* **Endings and beginnings.** A coroutine that is about to end still writes a
  status, releases a slot, checks the record; a resume, an approval or a patch
  comes at that moment.
* **Crashes and lost answers** between an effect and its confirmation, between a
  script and its answer, between the acquisition and the release of a lease or a
  slot, between the state of a step and its checkpoint.
* **Time.** Leases expire while a claim waits; renewal has to be faster than the
  shortest lease on the key; heartbeats keep slots; the sweep judges an intent by
  its age.
* **Limits.** Concurrency widths, quotas per user and system, a token budget over
  windows, three save tries, the graph with nothing ready.

The properties that make each component correct are listed per module below.
The hazards, each at its line, with the properties that cover them, are in
`PROJECT.json` under `hazards`.

## 2. Modules

| Module | Models |
|---|---|
| `DagRun` | abstract: what any engine promises of one job |
| `TaskEngine` | `TaskExecutionEngine.run`, node tasks, control statuses, reruns |
| `EffectJournal` | effect protocol of `execute_node`, the journal, the sweep |
| `ResourceCoordinator` | `claim()`, the three Lua scripts, local locks, time |
| `JobStore` | `save_job`, the loop and node tasks as its clients, the control requests |
| `JobAdmission` | the admission scripts and their local fallback, submission, heartbeat, cleanup, resume, time |
| `StepSequence` | abstract: steps in order, one at a time |
| `StepRun` | run-next streams, node tasks, approvals, checkpoints, the recovery plan |
| `LogicalPlan` | the rolling plan, the loop around it, escalation, replanning, patches, requests |
| `*_proofs` | the theorems about the module they are named after; those about `LogicalPlan` take two, `LogicalPlanEnds_proofs` continues `LogicalPlan_proofs` |
| `MC*` | instances for TLC |

### TaskEngine

`pc` says where `run()` is: validating, before the control read, before the
scheduling pass, at `asyncio.wait`, returned, or left by an exception.  These are
the awaits at which other coroutines change what it read.  `pending`, `running`
and `results` are its local variables, `task` the asyncio task of each node,
`phase` what the lifecycle port was told last, `control` what the control port
would answer and `seen` what it did answer.  One action per branch of the loop
body: the stop branch, the two paused branches, the scheduling pass with
something to wait for (`Launch`), without (`NotConverged`, `Converged`), and the
four ways the wait ends.  The lifecycle notifications inside a branch are awaits
too; what they do to the job record is `JobStore`'s subject, that they may raise
is `Raise`, which leaves the tasks of a partly done pass alive.  `Rerun` is the
service that hands a suspended job back: a node that waits for an approval is
stored as escalated, so that it is a prior result unless the approval named it, and
one that waits for resources is stored as pending.  `ValidateDag` is Kahn's loop
with its counters and its stack, over the nodes as listed; edges are a set, since
`NodeSpec` removes repetitions (`job_spec.py:97-100`).  A node's payload, error text
and metrics are left out.

`DagRun` is the promise: a node becomes active only behind settled dependencies,
stays settled, at most `Width` are active, none when the run is over.  Its state
is refined by: running nodes are active, nodes with a terminal result settled.

### EffectJournal

A row is its status.  An executor's `pc` follows `execute_node`: reserve, wait
for leases, body, acted, then the two statements of confirm or mark-uncertain, or
the abandon statement.  Each statement is one step; a statement whose answer is
lost was committed or not.  Crashes and cancellations happen at every await.
`Act` is the external effect.  `NeedsApproval` comes before it, when the tool asks,
or after it: a workflow body calls several tools and may end in a pending approval
after one of them acted (`workspace_operation.py:201-233`).  The intent is deleted in
both cases, and the approved rerun acts again; `asked` counts how often that
happened.  `GraceExpires` lets an intent become old while its
owner is anywhere, since waiting for leases has no limit.  The row status
`pending`, which the sweep selects and nobody writes, is left out.

### ResourceCoordinator

`hash[k][c]` is the time left on call `c`'s field in the hash of key `k`,
`expiry[k]` the EXPIRE of the hash, `local` the lock table of each process, `via`
how a call holds each key.  Lua scripts are atomic; the sweep of expired fields
inside the acquire script and the EXPIRE that the owner with the shorter lease
imposes on the others are kept.  `Tick` passes time for Redis and the renewal
timers.  A due renewal is not delayed past a tick, except when it fails
(`RenewFails`, which cancels the holder).

### JobStore

`record` is the job in Redis, `copy` the object each holder has: one shared by
the loop and its node tasks, one per request, one for the converging coroutine.
A save goes through the store's lock, WATCH, GET with merge or stamp, and EXEC.
`base` is not in the code: it is the revision of the record an object really
comes from, and lets the properties say that a save is stale.  A cancelled save
leaves the lock, its transaction has landed or has not.  The loop is the engine
seen from the store: control read, launches, collection, stop, outcome, and the
final check of `_run_loop` (`EnsureFailed`).  Nodes are independent and succeed.

### JobAdmission

A table is Redis or the fallback of a process: submission tokens (`inflight`) and
per job the time `left` on its entries and the lists (`listed`) that have one,
because the global list and the list of the user are changed by separate
statements.  `ttl` is what the stamps of a job did to the EXPIRE of the keys it
shares with others: promote and renew set it, activate of a slot that is held only
moves the scores (`admission.py:82-85`), and a key lapses with all its entries.  Each Lua script is one step, and fails or falls back with a fault.
`pc`, `cleanup` and `beat` are the submission and the coroutine of a job, the
release of its slot, and its heartbeat; a resume or approve reads the job and
takes a slot in two steps.  Time counts in heartbeat intervals; what is short
beside an interval happens within it (`Tick`'s guard).  `Races` names two hurries
that the code allows and the checked properties exclude: a request that comes
before the last cleanup is over, and a submission slower than a heartbeat.

### StepRun

A run-next request is an event stream: it claims the lock of the job, loads and
validates the state, marks its step running, saves, asks for capacity, starts the
node in a task of its own (`task`, with its own job `object`), reloads, handles an
escalation, settles, saves, and writes the checkpoints of all steps.  `record` is
the job, with its steps, keys and nodes; `stale` the tasks whose object is behind
it, so that `Merge` applies.  The node's effect passes through a journal row as in
`EffectJournal`, approvals after an effect included.  `Escalate` has the three ways an
escalation is handled: an approval is asked for, the job fails for want of a
fingerprint, or it ends with a question.  `Disconnect` ends a stream and leaves its task; `Crash` ends
everything but the stores.  `Skipped`, `Rescheduled` and `Paused` are the recovery
plan that can be asked for at any time; `EffectStatus` is what the checkpoint says,
because no journal row is found (section 4).  `StepSequence` is refined by: done are
the completed steps of the record, current those marked running.

### LogicalPlan

`plan` is the document in Redis: status of every node, expanded slots, applied
patches, revision, reserved and used budget.  `job` is the record with the nodes of
the window.  `loop` follows `_run_loop` through `continue_job` (refresh, load,
commit, advance, save), the escalation, the replacement of the tail and the final
check, with the job object and the plan it holds across awaits; `patch[c]` follows
`_append` in the same way, under `lock`.  `current` tells whose job object still
has the revision of the record; another one is merged when it is saved.  Nodes are
numbers in the order of the plan: planned ones, then those of replacements, then
those of patches, so that "the ready nodes in order that fit" is a prefix.  The
engine's run is `Launch`, `NodeEnds` and `Outcome`.  A node marked effectful may
end "uncertain" and asks for its approval by suspending the window; any node may
escalate on its own, with a signal for an approval (`Escalate`), for another plan
(`LoadReplan`), or one that ends the job, as a terminal failure of the model does
(`RecoveryEnds`).  A client whose turn with the lock does not come in time is refused,
and so may be a repetition whose first answer was dropped from the bounded history
(`Forgettable`).

`Races` names what the code allows and the pass run excludes; each is the source
of a disagreement in section 4.  *overlap*: a patch is appended while the loop is
between two windows, or while an approval is answered.  *early*: a request comes
while the loop is still ending.  *late*: an approval is answered after the job was
cancelled or rejected.  *lapse*: an append takes longer than the 30 s lease of its
lock, which nobody renews (`locking.py:14,54-59`), and another process appends
meanwhile.  *mixed*: one window has a node that asks for another plan and, later in
the order, one that asks for an approval.

There is one job.  Requests are atomic (their saves are `JobStore`'s subject).
Left out: child slots, the slot an approval takes (`JobAdmission`),
`WAITING_RESOURCES`, critical and isolated nodes, and the Temporal runtimes.

### How the modules meet

`TaskEngine` takes from `JobStore` only a control status that may change at any
time and from `EffectJournal` only that a node task ends with some status;
`EffectJournal` takes from `ResourceCoordinator` that waiting for leases is
unbounded and may be refused or cancelled; `JobStore` takes from `TaskEngine` the
order of a pass; `JobAdmission` takes from the loop that a run ends, with a status
that may need an approval.  `StepRun` carries the effect protocol and the merge of
the store inside it, `LogicalPlan` the merge and the outcome of an engine run.
Each module over-approximates its neighbours in these points, so its safety
properties hold of the composition, with two exceptions that their sections name:
the `Races` of `JobAdmission` and `LogicalPlan`, and the atomic read-and-save of
`StepRun`.  No larger composition is checked.

## 3. Runs

| Run | Question | Bounds |
|---|---|---|
| `engine` | Does the engine account for every node, respect dependencies and width, validate exactly, refine `DagRun`, terminate? | seven acyclic specs on three nodes, of every shape such a graph has (independent, one edge, chain against the id order, joins tolerant and not, fork, triangle) with critical, isolated, aggregating and direct_llm nodes, every cyclic graph on three nodes in two listings, a repeated id and an unlisted dependency; width 2; two calls of `run()` |
| `journal` | Does the effect happen once at most for each approval that was asked for after it, and is the journal honest about it? | one key, three executors dispatched twice each |
| `leases` | Do leases exclude, and does a body keep its lease? | one key; a writer, a long and a short reader in two processes; ticks of ten seconds; two faults |
| `locks` | Do local locks exclude, return to free, and never deadlock? | three claims on two keys in opposite modes |
| `requests` | Are saves accepted and requests answered in one process, is a pause or cancel kept, and is no job failed for nothing? | one node, a cancel and a pause |
| `two_processes` | Are the transactions serial across processes? | one node, a pause and a resume from another process |
| `admission` | Do the quotas hold, does a running job have its slot, do slots come back? | two jobs of one user with one slot; lease of two heartbeats; one fault |
| `steps` | Are steps run in order, each key once, checkpoints behind the record, and steps settled? Does the run refine `StepSequence`? | two steps, the second behind the first; three requests, one repeats a key; a cancel, a restart |
| `reconnects` | Does the effect of a step happen once at most for each approval asked for after it, with lost connections? | two steps, two requests; a cancel, a restart, failing checkpoint writes |
| `plans` | Are windows, budget, replanning and reports right, does every patch wake its job, and does the loop come to rest? | two planned nodes, one replacement, two patches of one node each, one sent twice; two requests of the user; windows of two; a budget of four |

Three nodes are enough for every branch of the pass: something skipped, something
launched, something left.  Keys in the journal do not interact, so one key with
three executors (a settled one, a stale one, a late one) covers the races.  The
widest conflict on a key is between two processes, a short and a long lease.  For
the store, three clients of one record cover a merge, a lost transaction and the
write after it.  Two jobs compete for one slot in admission, so that one is parked
and promoted when the other leaves.  Two steps give a step behind another and a
recovery plan with one step done, one not.  In a rolling plan, two planned nodes
make a window with a success beside a failure; the replacement and the two patches
make a second and a third window, in either order of the patches; five nodes of
cost one against a budget of four make the plan run out.

What the bounds and the instances leave out of a hazard:

* `locks` has neither Redis nor faults, so the fallback after a lost script and a
  second cancel during a release are not exercised there; the theorem about
  `LocksExclude` covers every fault, the second cancel is not modelled.
* `steps` repeats a key while the code still remembers it: `step_engine.py:208` keeps
  the last 50.
* `plans` has `Races = {}` and no crash between the save of the plan and that of the
  job, so "plan and job agree" is checked for requests that do not come at the end of
  the loop.
* `UncertainBlocksRetry` is about rows in doubt; a body that acted and asked for an
  approval leaves no row (section 4).

Type invariants are not among the properties of the runs: those of all seven
concrete modules are theorems (section 5).

Two runs each exhibit a disagreement between the code and what a comment of the
repository says of it:

| Run | What TLC finds |
|---|---|
| `stale_cancel` | a worker's stale save overwrites a cancel from another process: the revision is stamped before EXEC |
| `manual_pause` | a job that once waited for a patch is paused by its user, and the next patch resumes it |

Deadlock is not checked: a job, a node, a claim, a request and a plan end, and the
systems have nothing left to do.  That nothing hangs before is what
`RunTerminates`, `ClaimsEnd`, `RequestsAreAnswered`, `SlotsComeBack`, `StepsSettle`
and `LoopRests` say.

### Fairness

* Engine: weak fairness of the coroutine and of every node task.  The event loop
  schedules both; node timeouts and lease expiry bound the tasks.  No fairness of
  the control plane, nor of exceptions.
* Journal: none.  The sweep runs once, when an API process starts
  (`main.py:134-148`), so that an intent whose executor died later is closed only by
  the next start.
* Coordinator: weak fairness of time, polling, renewal and the end of a body
  (node timeout).  The property is checked without faults.
* Store: weak fairness of requests and of each step of a save; strong fairness of
  the lock, which asyncio hands over in the order of arrival.
* Admission: weak fairness of the short steps of heartbeat, submission and
  cleanup and of the end of a run; strong fairness of time, which goes on however
  often a short step holds it up.  None of requests.
* Step runs: weak fairness of each stream once its request has come, and of each
  node task.  None of requests, approvals, cancels or restarts.
* Rolling plan: weak fairness of the loop as a whole and of each patch request
  that has been sent.  None of the user, of clients, nor of any outcome of a node
  or of the planner.

## 4. Further disagreements

Checking the models with other formulas showed more disagreements of the same
kind.  They are kept here rather than as runs; each is an invariant or action
property that TLC refutes on the instance named.  Those that have a name are
stated in the module, so that adding the name to the `.cfg` reproduces them.

### Engine and journal

* **Two levels of dependents** (`IsolatedFailureIsPartial` of `TaskEngine`, with
  `Specs <- TailSpecs`): behind an isolated failure, a chain of two dependents
  ends as `failed` / `DAG_NOT_CONVERGED`, although the comment at
  `task_engine.py:162` calls such failures isolated and the result partial.
* **Orphans** (`NoTaskOutlivesCancel`): cancelling the coroutine of `run()`
  leaves its node tasks running, which `legacy.py:64` means to prevent.
* **Siblings of a critical failure**: "a returned outcome that is no suspension
  has a result for every node".  The cancelled siblings have none, while
  `task_results.py:40` calls the outcome fully converged.
* **A partial outcome**: the engine's "partial" and "degraded" are no members of
  `JobStatus` (`models.py:27`), so `_apply_job_outcome` (`service.py:127`) raises
  and the loop fails the job.  `LogicalPlan` and `JobStore` have no isolated nodes.
* **The sweep** (`EffectJournal`): "a sweep turns an intent uncertain only if its
  owner has crashed or was cancelled".  An executor that waits for its leases
  longer than the grace period is no orphan, as `effect_journal_repository.py:184`
  says of what it closes; it then acts and confirms an uncertain row.
  `AtMostOnce` and `EffectLeavesTrace` hold all the same.
* **An approval after the effect** (`AbandonsOnlyUnacted` of `EffectJournal`): a
  workflow body that acted may return a pending approval, upon which
  `node.py:365-371` deletes the intent and the approved rerun acts again.  "Remove an
  intent known to have stopped before its tool body started."
  (`runtime/effects.py:107`).

### Coordinator, store, admission

* **Two keys** (`WriteHasLease` of `ResourceCoordinator`, with
  `ClaimsOf <- WriteClaims`): the renewal loop starts only after the last key
  (`resources.py:218`), and waiting for a key is unbounded.  The lease of the
  first key can expire while the claim waits for the second, and the body starts
  all the same; "A write must not proceed without a distributed ownership lease"
  (`resources.py:27`).
* **A cancel that is not final** (`CancelledIsFinal` of `JobStore`): the outcome
  "completed" of a job object that took the revision of a merge replaces the
  cancel (`service.py:127`, against the table in `lifecycle.py:21`).
* **A stale stamp in one process**: with a cancel, a pause and a resume, a save
  that was aborted inside its transaction leaves the shared job object stamped
  with a revision it never saved, and the next save from it passes for fresh.  "A
  stale save never revives a cancelled or interrupted node" fails already with a
  cancel.  `StaleSaveKeepsControl` fails only when a pause has overwritten the
  cancel before; it holds with a cancel and a pause (`requests`).
* **Node progress** (one pause): "a stale save never takes back a completed node"
  fails.  `_merge_conflict` protects cancelled and interrupted nodes only, and its
  docstring (`state.py:43`) speaks of merging node progress.
* **Persisted transitions** (two nodes, one request): "when a save of the loop
  succeeds, the transition it announces is in the record, unless the node was
  stopped" fails.  A save that has merged writes its candidate back over the
  shared object and the changes made in it meanwhile (`state.py:209`).
* **Converged when answered** (one cancel): "once the cancel has answered, no node
  is pending or running" fails.  An orphaned node task saves "running" after it.
* **A lost resume** (a pause and a resume): "once the resume has answered, the job
  is not paused without a coroutine" fails.  The late paused outcome overwrites the
  resume, and no coroutine is started because the old one has not ended
  (`legacy.py:105`).
* **A failed resume** (a pause and a resume): `OnlyStuckJobsFail` fails.  A resume
  between the paused outcome and the last check of the loop makes the job
  "running", and the check fails it (`execution_loop_service.py:146`).
* **A resume before the cleanup** (`RunningHasSlot` of `JobAdmission`, with
  `Races = {"early resume"}`): the resume finds the slot still held and is
  admitted; the old coroutine's cleanup (`job_finalizer.py:64`) then gives the
  slot away, although the job was "re-admitted before it may execute another
  node" (`orchestrator.py:353`).
* **A slot that lapses** (`ResumedHasFreshSlot` of `JobAdmission`): after a crash
  while the job waits for an approval its slot is still in Redis; activate finds it,
  moves the scores and sets no EXPIRE (`admission.py:82-85`), so the key may be gone
  before the first renewal while the job runs.  "Acquire a fresh active slot when a
  suspended job is resumed." (`admission.py:227`).
* **Heartbeats at the wrong moment**: between the release and the stop in
  `suspend_capacity` (`job_finalizer.py:64-65`) a heartbeat finds no lease and
  interrupts the suspended job; during a slow submission (`"slow submit"`) it
  finds no job yet and releases the slot.  A job admitted locally while Redis
  failed is interrupted by its first heartbeat after Redis is back.
* **Counts of the guard**: a crashed job stays "running" in the store and counts
  in `SubmissionGuard` for ever; a parked plan is "pending" and counts against
  `AGENT_USER_ACTIVE_JOB_LIMIT`, though `submission/service.py:599` says it takes
  no admission slot.

### Step runs

* **Endings that are not final** (`EndedIsFinal` of `StepRun`): the `save_state`
  of a step that was running writes its own status over a cancel
  (`step_run_service.py:251-285`, against `state.py:43`); an approval answered
  after a rejection or a cancel makes the job active again.
* **A lost connection** leaves the node task running with a job object that
  later overwrites the routing another stream has saved: with disconnects a key
  may start two node tasks (`KeysRunOnce` is checked without them).
* **Escalations**: an outcome "escalated" is settled as success
  (`step_engine.py:390`); an approval that comes between the save of the
  escalation and the save of the settled step starts the whole DAG.
* **Checkpoints**: their versions restart at 1, because `coordinator.load()` is
  never called (`checkpoint.py:12`); after an approval "running" is refused as a
  regression although `checkpoint.py:97` means to allow it.
* **The recovery plan** (`RecoveryIsSafe` of `StepRun`): after a crash between the
  effect of a step and its checkpoint the step is offered for a rerun.  The plan looks
  the node's idempotency key up (`recovery_plan.py:158-159`) in a map that is keyed by
  tool and hash of the parameters (`job_recovery_service.py:110-118`), so no row is
  found, although what is "confirmed" is to be skipped, not run again (`recovery_plan.py:12`,
  `:323`).  What is in doubt is looked up by step id in the same map.  No production
  code calls the service yet.
* **Lacking resources**: the waiting_resources path does not give the request key
  back, so the repeated request is refused.

### Rolling plans

All on the instance of `plans`, with the `Races` named.

* **A lost patch** (`PatchesStick`, `{"overlap"}` or `{"lapse"}`): the loop reads the plan, a
  patch is appended and answered, the loop writes its copy back.  `continue_job`
  takes no lock, although `docs/TEMPORAL_MANIFEST_MIGRATION.md:157-159` says that
  the lock keeps writers from overwriting the shared plan.  The Temporal activities
  load the plan before a frontier and save it after
  (`temporal/logical_read_activities/frontier_effects.py`).  With "lapse" a patch of
  another process comes after the lease of the lock has expired and one of the two is
  overwritten; within a process the local mutex has no expiry.
* **A budget that is forgotten** (`BudgetHolds`, `{"mixed"}`, with a `Limit` of 2): the
  first escalated node of the window asks for another plan, a later one waits for an
  approval.  `coordination.py:46` falls through to the replacement of the tail, which
  resets the reservations (`logical_plan.py:339`) of nodes that were run and not
  counted as used.
* **A patch over a cancel**: a patch that read the job while it was paused saves that
  copy after a cancel; `_merge_conflict` (`state.py:45`) protects a control status
  against other statuses only, and "paused" replaces "cancelled".
* **A second approval** (`CompletedNeverReruns`, `{"overlap"}`): a patch saves the
  job it read before the approval, which restores the awaiting flag; the node,
  meanwhile completed, can be approved and run again.
* **A resume while the loop ends** (`ReportsAreTrue`, `{"early"}`): the job is
  failed by the last check, or stays "running" without a loop.
* **A late approval** (`ReportsAreTrue`, `{"late"}`): it revives a cancelled job,
  whose plan has a failed node that the window no longer has; the loop then
  reports "completed".
* **A cancel between two windows**: the record says completed or failed for a
  moment, so the cancel is a no-op (`legacy.py:50`); its event stream is sealed
  and its slot released all the same (`control_service.py`), while the loop goes
  on with the next window.
* **Smaller ones**: a reopened escalation is committed, and counted as used, twice;
  a replacement keeps five entries of the history and a patch nineteen, so an older
  patch is no longer known and its repetition is refused rather than replayed; a gate
  whose body acted before it asked for its approval says "pending" and is not seen by
  the check of effects before a replacement; a critical failure
  commits its cancelled siblings as "running", which no count includes; a slot
  that depends on a replaced node is never ready and silently dropped.

## 5. Proofs

All for arbitrary constants, under the assumptions the modules declare; what a
theorem assumes beyond them is in its statement.

**Engine** (`NodesAssumption`: nodes are a finite set of numbers, their order that
of the sorted ids; `WidthAssumption`, `SpecsAssumption`, `MaxRunsAssumption`).
`EngineInv` strengthens the properties by `Partition` (pending, running and
settled nodes partition the graph), `TasksMatch` (the tasks that are alive are
those of `running`, so the width of the dictionary is that of the system),
`OutcomeAtReturn` and `StrictCause` (until a run fails for good, a skipped node
has a dependency that failed, not one that is merely suspended).
`NoTaskOutlivesRun` is not inductive without `TasksMatch`, nor `SkipHasCause`
without `StrictCause`, because a rerun forgets suspended results.  From it follow
type correctness, accounting, gating, the width, the finality of results across
runs, and, step by step, the refinement of `DagRun`.

**Journal** (`KeyOfAssumption`, `MaxDispatchAssumption`).  `AtMostOnce` says that an
effect is repeated by nothing but an approval that was asked for after it (`asked`).
It is not inductive: a fresh reservation may act because a missing row means that
every effect so far was followed by such a request (`EffectLeavesTrace`), a row has one owner (`SoleOwner`), the owner's row is there
and not confirmed (`OwnerHasRow`), and where the owner stands says whether it has
acted (`NotYetActed`, `HasActed`).  `JournalInv` is their conjunction.

**Coordinator** (`KeysAssumption`, `CallsAssumption`, `SettingsAssumption`; any
number of calls, keys, processes and faults).  `LocksExclude` and `NothingLeaks`
follow from one invariant: where a call stands says which keys it holds and how
(`Places`), the reader count of a local lock is at least the number of readers that
hold it, and a writer that holds it is alone (`ReadersCounted`, `WriterAlone`), and
without a fault every count, flag and field in Redis belongs to a call that will
release it (`LocksAccounted`, `FieldsAccounted`).
The types and these two hold without further conditions.  `LeasesExclude` and
`BodyKeepsLease` need two, stated in the theorems: each claim has one key, and its
lease outlasts the cap on the renewal interval.  Without the first they fail
(`WriteHasLease` in section 4).  `LeaseInv` says that the due time of a renewal is
always nearer than the end of the field and of the hash.

**Store** (`RequestsAssumption`, `NodesAssumption`, `StoresAssumption`; where a
theorem does not say `OneStore`, all clients in one process, it holds for any spread
of the clients over processes).  `RevisionsAreSerial` is not inductive: that a successful EXEC
writes the next revision depends on what happened since the WATCH.  `StoreInv` adds
that a save knows where its client continues (`SavesContinue`), that the revision
under WATCH is never ahead of the record (`WatchBehindRecord`), and that a stamped
candidate is ahead of the revision under WATCH and at most one ahead of the record
(`StampNextToRecord`); EXEC succeeds when the two revisions are equal, which leaves
the next one.  A cancelled save that lands all the same is covered by the same
facts.  That a stale snapshot can pass for a fresh one all the same is what
`stale_cancel` shows.

The transactions guarantee no more than the serial revisions; the rest comes from the
lock, the merge and the order in which the loop saves.

* `LocksHold`: a client in a save holds the lock of its store, and whoever holds a
  lock is in a save (`LockInv`), whoever is cancelled wherever.
* `SavesGoThrough` (`OneStore`): a client that holds the lock is alone with the
  record, so that a save merges at most once and its second try goes through
  (`OneSaver`).
* `NoneIsFailed` (no resume, any number of processes): the check after a run finds
  no job "running", because the loop has saved the outcome and all that others save
  over it is a control status (`OutcomeInv`), and no node task is left that could
  save the loop's object (`LoopInv`).
* `StaleSavesKeepControl` (`OneStore`, no resume): a stale save that is merged gives
  way to the control status (`MergedKeeps`).  One that is not merged comes from an
  object that an aborted save has stamped ahead of what it knows; only the end of a
  cancelled or interrupted run leaves such an object, and it says that status
  (`AheadControls`).  That needs to know which stamp belongs to which save
  (`Stamped`) and that an object as fresh as the record agrees with it (`Synced`,
  `Controlled`).

The hypotheses are needed: a resume breaks `OnlyStuckJobsFail` and, in one process,
`StaleSaveKeepsControl` (section 4), two processes break the latter (`stale_cancel`)
and a save can lose its transaction to another one as often as it is tried.

**Admission** (`JobsAssumption`, `LimitsAssumption`, `LeaseAssumption`; all
`Races` and any number of faults).  `QuotasHold` is inductive together with the
types (`IInv`) once every script and every local operation is seen as a function
of the tables: a list grows by one job at a time, and only after it was counted
(`RoomForOne`), or by a job it has already, since whatever renews an entry has
found it in both lists.  The rest is that the two lists of a table may lose
entries in separate statements, and that the sets counted are finite.
`RunningHasSlot` is proved for `Races = {}` (section 4 shows how each race breaks it;
it uses `ProcessesAssumption` too, that "redis" names no process).  `Slotted` says of
each job where its coroutine, its cleanup and its heartbeat can be at the same time:
while it runs, its heartbeat is alive and its entries last until the next beat, unless
it was admitted again with the slot it had and is not renewed yet (`Unrenewed`); who
may start it again has found the heartbeat stopped and the cleanup before it over.
An operation changes the entries of one job only, which is what makes this local.

**Step runs** (all assumptions of the module).  `EffectsOnce` holds with every fault,
disconnects included.  `StepInv` strengthens it by: one
task at most has the effect of a step in hand (`OneHolder`), while it has, the row
says so and where the task stands says whether the effect took place
(`HolderHasRow`), and what a row says of its effect is true (`RowsAreTrue`).
`KeysRunOnce` is proved for runs without disconnects (`KeyInv`): one stream at a
time is past the lock and waits while its task works (`OneStream`), no copy of the
job that may be saved lacks a key of a started task (`KeysKept`), and a request
that has not started its task has a key nobody started one with (`NewKey`).
`CheckpointNeverAhead` and the refinement of `StepSequence` follow from one invariant
(`OrderInv`), without disconnects as well, since a stream that was closed leaves a
task that saves later: whatever has left "pending" has only completed steps before it
(`Ordered`), in the record, in what a stream is about to save and in what a task
holds; the state a stream is about to save differs from the record in its own step
only (`InStep`), and checkpoints are written from a state that is the record's.

**Rolling plan** (nodes are a finite set of numbers, estimates are naturals).  The
types hold for all `Races`; `BudgetHolds` is proved for `Races = {}`, since section 4
shows how it is lost otherwise.  The budget is a sum
over a set of nodes, so the facts about sums come first; the induction over the size
of a set is an argument about the smallest set for which a fact fails.  The invariant
has six parts.  `Turns`: one append at a time and none between two windows, hence the
plan that the loop or a patch will write back is made from the one in the store.  `Stops`: the job object of a running loop knows
every node that a cancel stopped, that of a patch none that the record does not have.
`Windows`: a node that was handed out is in every job object that may still be saved.
`Cleared`: a tail is replaced only when nothing is handed out.  `AllTried`: a node
that is escalated or waits for an approval was run before.  `Paid`: what was run, or
may be run by whoever holds the job, costs no more than what the plan has used and
reserved; what of it is not handed out any more is paid from used alone; and all of
it is within the limit.  `BudgetHolds` alone is not inductive: a job object that lacks
a node that was handed out would let a commit miss it, and the node would be paid for
by nobody.

`ReportsAreTrue`, `CompletedNeverReruns` and `EffectsNotReplanned` need what the nodes
became, for `Races = {}` again (`PatchesAreNamed`: no patch is `None`;
`EffectfulAreNodes`).  That is written in five places: the plan, the record, the
loop's job object, the copy of a patch, and, as history, `past`.  The invariant `EInv`
says how far each may be behind: between two windows the loop has the record
(`LoopIsRecord`), a committed window has come back (`WindowIsBack`), the plan has what
a node became unless its window is not committed yet (`InPlan`), and a copy may take a
node that ended for pending or for cancelled, but for nothing else (`Knows`).  While a
window runs, what the loop has still to launch is pending in every copy
(`PendingIsPending`), so that a merge brings nothing back, and the node that waits for
an approval has not ended (`Questions`).  `StillAskable` says that what is escalated in
a job object that may still be recovered is a node of the present window, so that a
question is never asked again about a node that completed since.

The invariants, action properties and refinements that a passing run checks are each
stated by a theorem, with two exceptions that only TLC checks: `ValidationIsExact`,
whose loop is a recursion over states that no proof here unfolds, and
`PatchesWakeTheJob`.  Only model-checked are the liveness properties (`RunTerminates`,
`ClaimsEnd`, `RequestsAreAnswered`, `SlotsComeBack`, `StepsSettle`, `LoopRests`):
fairness and ENABLED are out of the prover's reach.  The
theorems with a hypothesis of their own say less than a run where the run has none:
`requests` checks one process with a cancel and a pause, `admission`, `steps` and
`plans` run under the hypotheses of their theorems.  That the hypotheses cannot be
dropped is also TLC's answer (section 4), not a theorem.

## 6. What is not modelled

* In the modelled components: node payloads, results, timestamps, metrics and
  error texts; `create_job`, `delete_job`, indexes and the in-memory store; retries
  of a node attempt; what callers do with a `StateConflictError`; a second job
  coroutine next to node tasks that the first one left alive; the synthesis of the
  final answer; pausing a step run, and the loop that finishes a completed one;
  the recovery of an ordinary failed job; child slots and Temporal signals of
  patches; queue positions and cluster-wide admission settings.
* The event log (`services/job_event_log.py`): read, not modelled.  Each run-next
  stream restarts its sequence at 1, the snapshot's last sequence is never set, and
  sealing is checked before a separate append.
* Components listed as not modelled in `PROJECT.json`: Temporal workflows, whose
  semantics belong to the Temporal server; planning, roles and skills, which are
  driven by a language model and enter the models as the outcome of a node or a
  replacement for a tail; knowledge, workspace, office, MCP, which are I/O and data
  processing; and the ones planned below.

## 7. Plan

In order:

1. `LeasesExclude` for claims on several keys whose waits are shorter than their
   leases, and `RunningHasSlot` with requests that wait for the cleanup.
2. `ChannelLimiter` (`runner.py`, `channel_limits.py`) and the retries of
   `engine.py` as operators with a bound.
3. Job recovery after a restart (`job_recovery_service.py`,
   `failed_job_replan_service.py`) with `JobStore`'s record.
4. The event log, with the streams of `StepRun` as its writers.
5. Capability leases (`services/capability_lease*.py`).

## 8. Running it

`tlc -config MCTaskEngine.cfg MCTaskEngine` and so on for each run;
`tlapm TaskEngine_proofs.tla` for a proof module.  `PROJECT.json` lists runs,
mutants (a plausible defect of the code under which each property fails),
findings, hazards and theorems.
