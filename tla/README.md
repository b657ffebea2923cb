# RLER: a TLA+ model of its training and rollout control plane

RLER trains a software-engineering agent with reinforcement learning. The
repository is a fork of *slime* (`slime/`: Ray, Megatron, SGLang), an agent
(`agent/swe_agent/`), the training programs that join the two
(`slime/train_agent/`, `slime/train_async.py`), and pipelines that build experience and
rubric banks (`experience/`, `rubric/`). Most of it is numerical code,
model calls and files of text. What is hard to test is the control plane: a
training driver, a rollout manager, a validation actor, an exporter, a health
monitor, hundreds of rollout processes that each run a branching search with
threads of its own, and a job that is killed and requeued; they share a data
cursor, a checkpoint directory, container images and a policy version. That is what
this directory models, checks with TLC and partly proves with TLAPS.

Paths below are relative to the repository root.

## 1. Inventory

Parts in bold are modelled.

### Training

| Part | State | Operations | Talks to |
|---|---|---|---|
| **Source-instance cursor** `slime/slime/rollout/data_source.py` | `sample_group_index`, `sample_offset`, `epoch_id`, the two validation cursors | `get_samples`, `mark_validation_scheduled`, `acknowledge_validation`, `save`, `load` | called inside the rollout manager |
| **Source-attempt validation** `slime/slime/ray/rollout.py` (`RolloutManager`, `AsyncValidationManager`) | `_train_validation_refs`, the cursor | `generate`, `_schedule_train_validation`, `_poll_train_validations`, `drain_train_validations`, `save`, `load` | one actor called by the driver; a second one evaluates |
| **Naive rollout collector** `slime/train_agent/collect_naive_rollout_async.py` | `_PENDING`, `_BUFFER`, `_SOURCE_RETRY_TASKS`, `_REPLAY_PENDING_TASKS`, `_SOURCE_BUDGET_EXHAUSTED`, `_VALIDATION_PARTIAL_STATE`, the counters of a call | `generate_rollout`, `_drop_stale_buffer`, `_harvest_ready`, `_submit_until_full`, `_queue_source_retry`, `_pop_groups`, `checkpoint_state_dict`, `load_checkpoint_state_dict`, `discard_terminal_source_work` | rollout workers; the cursor; the manager |
| **Endpoint reservations** (in the naive collector) | `_ENDPOINT_INFLIGHT`, `_endpoints_picked` and `_released_branch_indices` of a task, marker files | `_pick_least_loaded_endpoints`, `_release_endpoints`, `_refresh_branch_slots`, `_reset_branch_done_dir` | workers leave the markers |
| **Node worker** `_NaiveNodeWorker` (in the naive collector) | `_executor`, `_executor_rebuild_lock` | `_submit_with_rebuild`, `_submit_validation_once` | concurrent calls of one Ray actor |
| **Lanes rollout collector** `slime/train_agent/collect_lanes_rollout_async.py` | `_PENDING`, `_VARIANCE_RESAMPLE_TASKS`, `_BUFFER`, and the rest as above | the same operations, with two groups per instance, capacity given back before a task ends, and a prefetch after each batch | as the naive collector |
| **Instance-budget driver** `slime/train_async.py` | `last_completed_rollout_id`, the prefetched future, `terminal_source_budget_reached` | take a batch, prefetch, train, save, broadcast, final validation, final save | the manager, the actors, the files |
| **Checkpoint files and auto-resume** `slime/train_async.py`, `slime/train_agent/run/grpo.py`, `slime/train_agent/scripts/export_validation_checkpoints.py` | `iter_N/`, the tracker, `global_dataset_state_dict_N.pt[.staged]`, validation markers, HF exports | stage, save, commit, prune, mark, export, resume | four processes on one directory |
| **Policy version file** `agent/swe_agent/policy_version.py` | committed and target version, `updating`, `transition_id` | begin, commit, fail, read, `assert_policy_staleness` | written by the driver, read by every rollout process |
| **Weight broadcast** `slime/slime/backends/megatron_utils/update_weight/` | which weights each engine serves | pause, send, continue | the engines |
| **Engine servers and health monitoring** `slime/slime/ray/rollout.py`, `slime/slime/utils/health_monitor.py`, `slime/slime/backends/megatron_utils/actor.py` | `all_engines`, `num_new_engines`, the monitor's pause flag, the ranks' connection | start, check, kill, recover, pause, resume, reconnect | the driver's broadcast |
| Fully asynchronous worker `slime/slime/rollout/fully_async_rollout.py` | a thread, its tasks, an output queue | start, produce, consume, stop | the data source |

### Rollouts

| Part | State | Operations | Talks to |
|---|---|---|---|
| **Trajectory search** `agent/swe_agent/trajectory_search.py` | nodes, frontier, sessions, container images, manifest, four executors | rounds of sampling and selection, background evaluation, terminal sessions, sweep, resume | containers; a run directory |
| **Parallel search** `agent/swe_agent/trajectory_search_parallel.py` | parents, root and beam group, judges, the record | Lane A, Lane B, Lane C, `on_policy_done`, `save` | the lanes collector, which gives capacity back at `on_policy_done` |
| **Bundles** `agent/swe_agent/lane_to_grpo_bundle.py` | none | which groups of a record are exported | the collector |
| **Usage ledger** `agent/swe_agent/usage.py` | the lines of a file, a tracker's offset and sums, the resume window | append a request or an outcome, read on, commit an update, resume | every rollout process appends; the collectors append and read |
| Agent loop, environments, judges | sessions | one step, one request | models and containers |

### How they interact

One update of the instance-budget loop: the driver has the batch of
`generate(r)` in hand; it stages the cursor if update `r` will be saved;
it launches `generate(r+1)`; it trains; it saves the model, publishes the cursor and
prunes; it waits for `generate(r+1)` and only then broadcasts the weights of
update `r`. Meanwhile `generate(r+1)` runs the collector, which leaves groups in
flight between calls. When the cursor meets a validation boundary the collector
raises, the manager marks the checkpoint the engines serve, hands the boundary
to the validation actor, and calls the collector again. Between two rollouts the manager
replaces engines the monitor has killed, and the broadcast reconnects to them.
One group, or one instance of the lanes, is a process that runs a
search; it gives endpoints back through marker files or `on_policy_done` before it returns.

### What is hard, and what makes each part correct

* The cursor stops *at* every boundary, never behind one; a restart neither skips a
  prompt nor repeats a boundary; a boundary that was scheduled is acknowledged.
* Every source instance drawn is trained or given up exactly once, although its
  group may go stale, be filtered, be interrupted by a boundary, or be restored after
  a crash; a batch holds only groups at most one update old. With lanes the same holds
  for each of the two groups of an instance.
* Whenever the job dies there is an intact pair of model and cursor to resume from,
  and no file operation takes it back; a checkpoint that validation marked stays
  until it is exported.
* A reservation of an endpoint is given back once, for a branch that is over; a
  process pool that breaks is replaced once, however many calls see it break.
* While `generate()` runs every engine serves the version the file names; a
  training group has tokens of one version; an engine that died and came back
  serves what the others do.
* The frontier of a search can be restored from images that still exist; what a search
  opened is closed however it ends; a lane does not fork from a checkpoint that another
  lane deleted; capacity is given back when no session of the policy is left.

`PROJECT.json` lists these hazards at their lines under `hazards`, with the
property that covers each, and says why when none does.

### Not modelled

| Part | Why |
|---|---|
| Fully asynchronous worker | a rollout function that agent training does not call; within reach, left out for its lesser weight |
| Agent loop, environments, judges, experience retrieval | decided by model output and containers; no protocol state of their own |
| Experience and rubric bank pipelines | sequential stages over files of text and one numeric optimisation |
| Megatron and SGLang backends, weight formats | numerical kernels and GPU collectives |
| Upstream rollout functions, adapters, plugins, examples, tools, docker patches, frozen banks | not called by agent training, vendored, one-shot, or data |

The modelled definitions stand for about a tenth of the lines of the
repository. The larger part of it (kernels, parallel layouts, weight conversion, argument
tables, prompt texts, parsers of model output, viewers and reports) has
no state that another actor shares and no order of steps to get wrong, so a
state machine of it would check nothing. The complete list is under
`components` in `PROJECT.json`.

## 2. Plan

1. `DataSource`, `TrainValidation`: the cursor and everyone who moves it. *Done, proved.*
2. `SourceLedger` (abstract) and `NaiveCollector` (detailed, implements it). *Done; sources,
   freshness and the refinement proved.*
3. `CheckpointStore`: files, crashes and resume. *Done, proved.*
4. `PolicyVersion`: the file and the requests. *Done, proved.*
5. `WorkerPool`: the rebuild of a broken process pool. *Done, proved.* `EndpointSlots`:
   reservations of engine endpoints. *Done, proved.*
6. `EngineRecovery`: health monitor, recovery and reconnection. *Done, proved.*
7. `LanesCollector`: instances with two groups, capacity apart from work in flight. *Done,
   proved.*
8. `TrajectorySearch`: the sequential search with images, executors and
   resume. *Done, proved.* `ParallelSearch`: the three lanes of one instance and the
   export of their record. *Done, proved.*
9. `UsageLedger`: the file of requests and outcomes, beside the naive collector. *Done,
   proved.*
10. Left: `FullyAsync`, the worker thread and its bounded queue; and the
   driver, `TrainValidation` and `CheckpointStore` composed, so that the staged cursor
   and the model directory of one checkpoint are related directly.

"Proved" is said of the safety properties; what stays with TLC is listed at the end of
section 5.

## 3. Modules

| Module | Models | Size of the state |
|---|---|---|
| `DataSource` | `RolloutDataSource`: cursor arithmetic as operators | used by the next |
| `TrainValidation` | manager, validation actor, staging, commit, crash | 10 variables |
| `SourceLedger` | abstract: instances drawn, trained, dropped, checkpointed | 4 variables |
| `NaiveCollector` | the collector, its workers' answers, the driver around it, crash | 15 variables |
| `LanesCollector` | the collector of the lanes, its driver, boundaries, crash | 16 variables |
| `EndpointSlots` | reservations, markers, validation, restart | 9 variables |
| `WorkerPool` | the threads of one node worker and its executor | 7 variables |
| `CheckpointStore` | the driver's file operations, the marker, the exporter's passes, the launcher, failure and crash | 21 variables |
| `PolicyVersion` | the version file, the engines, the rollout processes, crash | 9 variables |
| `EngineRecovery` | the monitor thread, the manager's recovery, the ranks of the trainer | 12 variables |
| `TrajectorySearch` | one sequential search: loop, executors, images, kill and resume | 14 variables |
| `ParallelSearch` | one instance: Lane A, forks, judges, evaluator, record, export | 7 variables |
| `UsageLedger` | rollout processes, collector, tracker and the file between them, crash | 14 variables |
| `OrderedSets` | sorted numbers and list comprehensions, without recursion: used by both searches | none |
| `TrainValidationProofs`, `NaiveCollectorProofs`, `CheckpointStoreProofs`, `LanesCollectorProofs`, `UsageLedgerProofs` | theorems about the modules they are named after | |
| `EndpointSlotsProofs` | theorems about `EndpointSlots` and `WorkerPool`, the two halves of a node worker | |
| `EngineRecoveryProofs` | theorems about `EngineRecovery` and `PolicyVersion`, which share the engines | |
| `SearchProofs` | theorems about `ParallelSearch` and `TrajectorySearch` | |
| `MC...` | instances for TLC; `MCPolicyVersion` also declares the symmetry of engines and of rollouts | |

`map` in `PROJECT.json` names the lines each definition translates. The
definitions called `Bug...` are plausible slips in the definition that follows them; no
specification uses them. `mutants` says which property each one breaks, which is how we
know that the property depends on the code.

### DataSource and TrainValidation

The cursor's fields keep their names in the code. `GetSamples(n)` is
`get_samples`: its guards are the three exceptions of that method and its IF is
the epoch wrap. `TrainValidation` adds the manager. An actor call runs to its
end before the next one starts, so `pc` says which call is running and the actions
are the points at which another process can get in between: a draw, a boundary, the
return. `_train_validation_refs` is the set `refs`; the validation actor moves a
boundary of it to `finished` in dispatch order, and `Poll` reaps the finished
prefix. `ScheduleTrainValidation` has two outcomes because a dispatch that raises
is acknowledged at once, like a deferred one. `CrashAndLoad` is `load()`, with
its rule that a pass that had been scheduled is acknowledged instead of replayed.

### NaiveCollector and SourceLedger

`pc` follows `generate_rollout`: harvest, submit, check, and the ways out. A
*group* is a record of its source, its resample count, the rollout id and
the policy version it was dispatched under, and whether the weights changed while it ran. What its
rollouts did is abstracted to the answer `_harvest_ready` distinguishes:
stale or mismatched, invalid, filtered (with or without reward variance),
valid. Any dispatched group may answer with any of them at any harvest. The driver is
reduced to what the collector sees of it: `UpdateWeights` between two calls,
`DiscardTerminal` after the last batch, `Checkpoint`. `_pop_groups` shuffles, so
`ReturnBatch` takes any `Batch` groups of the buffer.

`SourceLedger` is the contract: instances are drawn in order, each one is open
until it is trained or dropped, a restart goes back to the last checkpoint.
`KeepsLedger` is the refinement: `drawn <- cursor, trained <- accepted, dropped <-
closed`, so that the five places where a group can wait are invisible.

Assumptions: `--update-weights-interval 1` and source-attempt evaluation, as the
launcher sets them; a dispatch is never refused during `generate()`, which is
`CommittedIsServed` of `PolicyVersion`.

### LanesCollector

A task explores one source and owes a root and, with depth 2, a beam group
(`kinds`); `_expected_usage_group_specs` is `Expected`. Each group of a task
that returns is valid, stale, invalid or filtered for itself, and a group without
reward variance is resampled by a task that asks for that kind alone. `active` says whether
a task still holds endpoints: `PolicyDone` is `on_policy_done` of
`ParallelSearch`, after which the task counts against `Overlap` only. The buffer is a
sequence, popped in order. A call goes on submitting at `prefetch`, after
`PopBatch`; a boundary it meets there waits in `boundary` for the next call. A boundary met before the batch is
popped interrupts the call, and `partial` says what was interrupted.

### EndpointSlots

`task` is `_PENDING`, by task index; `slot` and `released` of a task belong to
the driver, `over`, `returned` and `retried` to the worker, and the two sides meet in
`ready`, the marker files, alone. Every driver operation that calls
`_refresh_branch_slots` includes it. `ready` survives `CrashAndLoad`, and
rollout ids and task indices go back to the checkpoint's, so a new task can
find a marker directory of its own name. `WorkerRetries` is the retry of
`WorkerPool`, seen from the task. Which source a task samples is left
to `NaiveCollector`; so are the queue of retries, whose tasks get a new index
anyway, and the groups that the target refuses, for which `Dispatch` just does not happen.

`BeginEval` lets a validation share the counts with training. That is `RolloutManager.eval`, which runs in the
process of the collector (`rollout.py:970-999`). Under source-attempt control the passes run in
`AsyncValidationManager` (`rollout.py:431-444`), an actor whose module globals, and so whose counts, are its own;
its behaviours are those without `BeginEval`, which the module contains.

### WorkerPool

One action is one statement of `_submit_with_rebuild` that another thread can
see: the read of `self._executor`, the submission, the end of the wait, taking the lock,
shutting the old executor down, building a new one, leaving the lock. Executors are
numbered as they are built. `_submit_validation_once` is the same up to the end of
the lock, where it raises. `Break` is the library's: a child process dies, and the
executor is broken for all. That `submit` on a broken executor raises
`BrokenProcessPool` also when the executor was shut down is how CPython has it.

### CheckpointStore

One action is one file operation, so that a crash falls between any two. Files are
functions of the checkpoint id to the *life* that wrote them: the second life of a
job trains the same ids again with other weights, and a pair whose halves are from
two lives would be a silent error. `intact` is separate from `model`
because the resume rule looks at the existence of a directory only, while a save and a
removal need time to fill and to empty it. `generating` says whether a
`generate()` call is in flight, which is when the manager may write a marker
beside the driver's save and prune.

The exporter works in passes, as `main` of `export_validation_checkpoints.py` does: `ListMarked` reads the
marked checkpoints once, into `listed` and `todo`; the pass takes `todo` in order; a
conversion takes time (`Convert`, `Publish`) and may fail (`Defer`), which puts the checkpoint into `pending` until the
next pass. `TouchStop` is the launcher, which creates the stop file once the driver has ended, successfully or not
(`DriverRaises`), and then waits for the exporter; `EndPass` leaves for good when it sees that file at the end of a pass,
whatever is pending. `ReleaseSource` is `--release-source-marker`. `Crash` also stands for the requeue of a job that failed.

Assumptions: `--async-save` off, `--num-rollout` given (so no epoch trigger of
the save interval), and an exporter that dies with the job only; its exit code (`failures`) only leads to a
warning and is left out. With `SaveInterval`
above 1 an interrupted prune or save of an earlier life can leave a directory that
a later life neither overwrites nor completes; the runs and the theorems
therefore have an interval of 1, the launcher's default.

### PolicyVersion

The file is one record, because it is read and replaced as a whole. An engine
serves one version; `paused` is the pause around the broadcast. A rollout pins
`file.committed`, checks it before and after every request, and collects in
`used` the versions that really produced its tokens. `Start` resumes from any
update the run got to, so that the file may name a newer version than the job
that comes up.

### EngineRecovery

`engines` is the list `all_engines` that three parties share; an actor that is
replaced stays in `actor`, dead or alive, because ranks and the monitor may
still hold it in a copy of the list. The monitor is a thread: it copies
the list, checks one engine after the other, and kills one by clearing its entry; `paused`
and `wait` are its two events. Recovery counts the cleared entries, starts new
actors for what is cleared by then, and compares the numbers. Each rank of the trainer reads the list and
`num_new_engines` in a call of its own, decides whether to reconnect, and joins the
broadcast; rank 0 clears the number afterwards. `late` remembers a
death the recovery in progress could not know of: the code does not claim to survive
it, and `RecordedDeathIsSurvived` says that any other one is survived.

### TrajectorySearch

A node is a number; the record `mem` holds the runner's fields that the control
flow reads, `disk` the files a resume reads, `queue` the four
executors, whose jobs run in order of submission and one at a time where the code has one
worker. `nodeImages` and `sessions` are what exists in the container runtime. A round samples `M`
branches over its parents, ends each (submitted, exhausted, cut at the checkpoint, dead), selects a
frontier, commits an image for each member and sweeps the others. Scores are a
free choice, which covers every selection strategy. A round may raise, which goes through the
`finally` block, or the process is killed, which does not; both can be resumed. Either may happen when part of the
chosen branches are committed and none is cached yet (`CommittedSoFar`). What the sweep knows of depends on the
container: docker lists the repository of the task, whoever filled it; for singularity it looks at the snapshot cache of
the runner, so that `Sweep` leaves what a raised round or a killed predecessor committed. `inherited` are the checkpoints
that were there when the process started. Commands to the container runtime are assumed to work: an `image ls` that
fails ends a sweep early, and the next one makes up for it unless it was the last. Its
initial state and next-state relation are `RunnerInit` and `RunnerNext`, so that one module
can extend this search and the next.

### ParallelSearch

`main` follows `run()`; parents, forks and judges advance beside it, bounded by the
worker limits. `images` are the checkpoints that exist: Lane A adds its parents', `FinishGroup`
removes those a beam was forked from, `Cleanup` the root's. `record` is the
`InstanceRecord` as far as `completed`, skips and exports depend on it.
`Exported` is the filter of `lane_to_grpo_bundle.py`. What the policy answers and how a beam is scored
are free choices.

### UsageLedger

`ledger` is the file, one record per line; an append is one step because it holds a file
lock. A request costs one token, and "dropped" stands for the outcomes the tracker counts as
drops. A group is what `usage_group_id` names: attempt of the job, source, try. The
collector's decisions are those of `NaiveCollector`, taken freely here, because only what
each of them writes matters: the outcome of a group, at the harvest, when its batch is returned,
when it goes stale, when a replay takes its place, at the partial tail, at the terminal discard.
`strays` are the tasks the last one cancels, whose processes may go on. `orphaned` is history: the lines
behind the checkpoint that a resumed job started from. The tracker keeps which lines it has `seen`, so that its sums can be compared
with a count over the file.

## 4. Runs

| Run | Question | Bounds |
|---|---|---|
| `validation` | Do the two cursors stay in order, is every boundary dispatched once and acknowledged in the end, through failed passes, drains and crashes? | 3 prompts, budget 7, interval 2: two epoch wraps, three boundaries, a last cursor that is not one |
| `collector` | Is every source in one place, is the batch fresh, the update balanced, can an interrupted batch be resumed, does a run that must spend its budget end, and is the ledger kept? | 6 sources, interval 3, batch 2, 1 pending + 1 tail, 4 updates, 1 resample, budget required: a batch that wraps a boundary, a carried group that goes stale, a batch that spends the budget exactly |
| `lanes_collector` | The same for the two groups of each instance, with the prefetch after a batch | budget 4, interval 2, batch 2, oversampling 3, 1 pending, overlap 1, 3 updates, 1 resample, root and beam |
| `endpoint_slots` | Is each reservation given back once, for a branch that is over? | 2 endpoints, groups of 2 branches, 1 pending + 1 tail, 2 task indices, 2 rollouts, any number of restarts, validations of 3 rows in 2 batches |
| `worker_pool` | Is a broken pool replaced once, does every call return? | 2 training calls, 1 validation call, any number of tasks each, 3 breaks |
| `checkpoints` | Is there an intact pair after every crash, are markers kept, and exported before the exporter is gone? | 4 updates, 2 lives, retain 2, save every update, budget required, markers released |
| `policy_version` | Do the engines serve what the file names; are training groups of one version? | 2 engines, 2 rollouts, 4 updates, 2 lives |
| `engine_recovery` | Do replaced engines serve current weights, do the ranks decide alike, which deaths are survived? | 3 engines, 2 ranks, 3 rollouts, 3 deaths |
| `trajectory_search` | Can the frontier always be restored, is everything closed, are parents evaluated first? | 2 rounds, 2 branches, 2 parents, 1 exception, 1 kill, 1 resume; three configurations: docker without ground truth, singularity with it, docker with ground truth, the gate and a beam of two |
| `parallel_search` | Do lanes share checkpoints safely, is capacity given back in time, is a completed record whole, does every run end? | four configurations: depth 2; a resampled beam of three; root only, to the end, without a judge; root only with the evaluator on submit |
| `usage_ledger` | Is the cost of a run attributed exactly, charged once, and settled at the end? | 2 sources, batch 1, 1 more try each, 2 requests, 2 lives: a request before or after its outcome, before or after the checkpoint, from a cancelled task |
| `search_retry` | see Findings | as `trajectory_search` without kills |

Why the bounds suffice. The staleness rule compares with the previous update only,
so four updates hold a group that is fresh, one that is one behind and one that is
two behind, under a first broadcast, a steady state and a last one. Boundaries interact with their
neighbour only. A checkpoint interacts with the one being written, the one being
served and the one being pruned; a life with the leftovers of the life before it, which may
have ended at any step. What a third life could meet is left to the proofs, which have no bound on lives; of the
liveness property, which is not proved, a life only takes over `marked`, `hf` and `owed`. Names are exchangeable in `PolicyVersion`
only, where no liveness is checked, so that is the one place with symmetry.
Two breaks decide the fate of one call; the third falls into another call's
rebuild. Two tasks compete for the endpoints, and a restart gives both indices a second owner.
Three engines let one be dead before the recovery, one die in it, and one live; three
rollouts are a first connection, a recovery and a rollout after it. The second round of a
search is the first whose frontier depends on images and files of an earlier one; a resume
starts from either. Where a module is proved, the bounds do not matter for the
properties that are. Bounds that the code does not have are the constants `MaxLives`, `MaxBreaks`, `MaxTasks`,
`MaxRollouts`, `MaxDeaths`, `MaxRaises`, `MaxKills`, `MaxResumes`, `MaxTries`, `MaxRequests`, and the small values
of `ResampleLimit` (3 in the code) and of the launcher's numbers.

`CHECK_DEADLOCK FALSE` is set where the system really stops: `EndpointSlots` (the run ends
with `Discard`), `CheckpointStore` (a job that is done or refused),
`PolicyVersion` (a failed driver with no life left, and one that has
made its last update), `LanesCollector` (the run is over), `EngineRecovery` (the last rollout, or
a recovery whose assertion fails), `TrajectorySearch` and `ParallelSearch` (the search exits).
The other runs check for deadlock.

### What they show

* `BoundariesExact`, `BoundaryCanBeScheduled`, `DrainReachesCursor`: the
  `ValueError`s of the cursor methods and the `RuntimeError`s of
  `generate` and `drain_train_validations` are unreachable.
  `NoReplayedValidation`, `ScheduledIsAcknowledged`: a boundary is
  evaluated at most once in a history and never forgotten in it.
* `ExactlyOnce`, `CheckpointExactlyOnce`, `KeepsLedger`: no source is lost or
  trained twice. `FreshBatch` is stronger than the stale=1 contract: no
  group in the buffer was running across an update, because everything that was is discarded as
  stale or mismatched, or was dispatched after it. `UpdateConserved`, `BoundaryResumable`: the
  accounting checks of a call hold, also when a boundary interrupted it.
  `Terminates`: a run that must spend its budget ends; by `ExactlyOnce` it leaves no source open.
* `GroupsConserved`, `LaneBatchFresh`: each group of each instance is in one
  place, and is never trained stale. `PartialResumable`, `NoTrainingPastBoundary`: a batch that waits
  for a boundary is whole when it is continued, and nothing is trained before that boundary was scheduled.
* `ResumePointIntact`, `ResumePointNeverFalls`: a crash between
  any two file operations leaves a pair, never an older one than before. `MarkedIsKept`:
  with two checkpoints retained a marked one is whole until its export is published, and an export has the weights of its
  own checkpoint. `MarkedIsExported`: every marked checkpoint is exported, in this life or a later one, unless the exporter
  has left after a last pass that failed on it or had made its list before it was marked; nothing else
  makes the exporter miss one (a stop file in mid-pass, a release of markers, a prune, a restart). That the exception is
  real, and more than the exporter's docstring says, is among the observations below.
* `OneLivePool`, `EveryCallReturns`: the lock and the identity check suffice, and nobody
  waits for an executor that was shut down.
* `SlotsConserved`: no interleaving of markers, harvest, validation, the end of the run and
  restarts leaks a reservation or gives it back twice. `ReleasedIsOver`: markers of a dead
  life release nothing.
* `CommittedIsServed` holds through failed broadcasts, crashes and
  restarts from older checkpoints. `AcceptedGroupIsPure`: although the request checks let
  a request run across an update, no training group with mixed tokens is
  accepted.
* `ServesCurrentWeights`: an engine that answers and is on the list has the weights of the
  last broadcast whenever a rollout runs. `RanksAgree`: the ranks read a shared list at different times
  and still all reconnect or none does. `RecordedDeathIsSurvived`: recovery stops the run only for a death it
  could not have known of; a kill by the monitor between the count and the restart is such a death (see the observations).
* `FrontierRestorable`: every image the frontier needs exists, until the search is over. `NothingLeaks`:
  a process that succeeds leaves no open session, no checkpoint of its own, and of its predecessors' only such as it never
  had in its cache; with docker, a process that ends by itself, by an exception too, leaves no checkpoint at all.
  `ParentEvaluatedFirst`: the
  evaluation of a branch finds its parent's judge file.
* `ForkPointAlive`, `PolicyDoneIsQuiet`: no session starts from a deleted checkpoint or after the
  policy was reported done. `CompletedIsWhole`, `EveryRunEnds`.
* `DroppedCostExact`: the tracker adds up line by line what a count over all the lines it has read gives, in whatever
  order requests and outcomes come. `ChargedOnce`: a replayed attempt is not paid for
  twice. `SettledAtStop`: no group that cost something ends without an outcome, when a run ends by its budget; a run that
  reaches `--num-rollout` with groups still pending is not modelled.

### Fairness

* `TrainValidation`: weak fairness of the manager, because the driver always waits on
  some manager call until it is done; weak fairness of `FinishValidation`, because a
  validation pass has a wall-clock limit. None for crashes or for commits.
* `NaiveCollector`: weak fairness of the collector; strong fairness of an answer,
  because every branch of a rollout runs under a wall-clock limit; strong fairness of
  an answer that decides (valid or invalid), without which a group could be
  sampled again for ever, which the code does not prevent; and
  only finitely many crashes.
* `WorkerPool`: weak fairness of each call's steps: a thread that can run does, and a
  task ends, because every branch of a rollout runs under a wall-clock limit. None for new
  calls or for breaks. Weak fairness of taking the lock is enough although Python's
  locks are not fair, because each break sends a call through the lock once.
* `CheckpointStore`: weak fairness of the driver and of the exporter, two loops of
  separate processes, and of the launcher's `touch`, the command after the driver's. Weak fairness of the exporter is
  fairness of its steps together: that a conversion succeeds is not assumed, nor that a crash or a failure
  of the driver happens. Lives are finite.
* `ParallelSearch`: weak fairness of the lanes, whose sessions and judge calls have step and
  time limits. The evaluator of submitted patches is an external program; that it
  answers is a premise of `EveryRunEnds`, not an assumption of the specification.

### Findings

1. *`search_retry`*: an exception in a round after the first leaves the sequential search through
   a `finally` block that removes every image before it saves the manifest. The manifest
   still names the frontier of the round before, and resuming it announces
   that it retries the interrupted round; the images that round would start from are gone.
   A kill, which skips the block, can be resumed (`FrontierRestorable`).

Further observations, met while modelling, that no run reports:

* With `--checkpoint-retain-latest 1` the pruner may choose the checkpoint the engines serve before the manager marks
  it (`train_async.py:301-313`) and delete it afterwards (line 331); a validation checkpoint is lost, although the
  docstring (line 176) promises to keep it. TLC shows it with `Retain = 1` in `MCCheckpointStore.cfg`. The launcher retains two, where `MarkedIsKept` holds.
* `export_validation_checkpoints.py:1-7` says that the exporter converts each checkpoint carrying a marker. One that is
  marked during the last pass, by the final validation of the driver say, or whose conversion fails in it, is not converted
  (lines 96-105, 125-131), unless the job runs again. `GivenUp` is that case; without it `MarkedIsExported` is violated.
* With singularity the sandboxes of a round that raised before its branches were cached (`trajectory_search.py:2850`,
  `:2952`), and those a killed process left, are removed by nobody: the sweep only looks into its own cache (lines
  1858-1871), while docker's lists the repository. The last conjunct of `NothingLeaks` is violated without its condition
  on the container.
* `configure_usage_resume_window` (`usage.py:199-204`) says that orphaned events never enter the metrics. After a
  second resume they do: the prefix of the newer checkpoint contains the lines the first resume skipped. `Checkpoint` and
  `NewTracker` of `UsageLedger` show how. A retry that was queued at the checkpoint is replayed with its accounting off although that attempt was
  never charged (`collect_naive_rollout_async.py:951`, `:2027`). No collector writes the reason "zero_variance", so
  `zero_variance_dropped_tokens` stays zero.
* A crash between the removal of a checkpoint and of its cursor leaves a cursor file that no later
  prune looks for (`NoOrphanedData` of `CheckpointStore` does not hold). It is harmless for recovery.
* A task that is submitted again after its process pool broke repeats every branch, but the markers of
  its first run are still there, and the driver releases the reservations of
  branches that are running again (`OnlyCompletedIsReleased` of `EndpointSlots` does not hold). The
  counts recover when the group returns; until then more branches run on the endpoints than are counted.
* The docstring of `policy_version.py` (lines 3-6) says that a trajectory is accepted only when all its
  requests ran under the pinned version. A validation rollout that spans one
  update is accepted with tokens of two (`AcceptedUnderPinnedVersion`); training groups keep the promise.
* `slime/docs/en/advanced/fault-tolerance.md:25` says that an engine that times out is restarted; a death
  between the count of the dead and the comparison stops the run instead (`TimedOutIsRestarted`). A pause and resume during
  the monitor's first wait skips that wait (`health_monitor.py:97`, `:127`).
* `ParallelSearchConfig` does not ask for `step_limit > k`. When a parent's `k` steps reach the limit, `_run_fork_group` of
  the beam raises at the first parent without steps (`trajectory_search_parallel.py:1395`), after branches of parents before
  it were started; the wrapper counts the group as over and `on_policy_done` fires while they run, although the docstring
  of `run()` says that every group's rollouts have completed by then. TLC shows it with `k = limit = 2`, `m = p = 2` and
  depth 2 in `MCParallelSearch`. The launchers use 20 and 120.
* In the parallel search, a beam that cannot run is skipped without `on_policy_done`; its endpoints come back when
  the task is harvested. An exception of `_apply_collapse_rewards` after the judge's scores were stored exports the
  group with those scores. `--lanes-gt-on-submit` sets an environment variable that nothing reads.
* In the lanes collector, with the pipelined driver every task carried past its first rollout is two updates old when it
  returns, and dropped; the replay after a restart does not look at `max_pending` (line 1146); a replayed
  task hands `suppress_usage_accounting` on to later resamples.

## 5. Proofs

All theorems hold for every value of the constants that the module's named assumption allows.

`TrainValidationProofs` proves, for every dataset size, budget, interval and
mode, from the assumptions `DataSourceAssumption` (the three numbers are positive) and
`DeferAssumption` (the mode is a Boolean) alone:

| Theorem | Statement |
|---|---|
| `TypeCorrectness` | `Spec => []TypeOK` |
| `CursorOrder` | `Spec => []BoundariesExact` |
| `PromptOrder` | `Spec => []SamePromptAfterRestart` |
| `NoSpinOnBoundary` | `Spec => []BoundaryCanBeScheduled` |
| `DrainComplete` | `Spec => []DrainReachesCursor` |
| `ValidationOnce` | `Spec => NoReplayedValidation`, an action property |

The argument is one inductive invariant,

    IInv == TypeOK /\ BoundariesExact /\ SamePromptAfterRestart
            /\ RefsScheduled /\ Accounted /\ DeferSettled /\ DrainScheduled

`BoundariesExact` is not inductive by itself. That polling acknowledges no
more than was scheduled needs `RefsScheduled`; that the final drain reaches its cursor needs
`Accounted` (what is scheduled and not acknowledged is in flight) and
`DrainScheduled`; that a restart in deferred mode finds nothing open needs `DeferSettled`.
`SamePromptAfterRestart` relates the three fields of the cursor. The proof of
`IInv /\ [Next]_vars => IInv'` has one step per action; the arithmetic of
boundaries is in `BoundaryRange` and `BoundaryStep`, and `LiveFields`
relates the variables to the record that is written to a file.

`NaiveCollectorProofs` proves, for every budget, interval, batch size, lookahead,
number of updates, resample limit and mode (`CollectorAssumption`):

| Theorem | Statement |
|---|---|
| `TypeCorrectness` | `Spec => []TypeOK` |
| `SourcesExactlyOnce` | `Spec => []ExactlyOnce` |
| `SavedExactlyOnce` | `Spec => []CheckpointExactlyOnce` |
| `BatchIsFresh` | `Spec => []FreshBatch` |
| `PolicyNotFromFuture` | `Spec => []NoFuturePolicy` |
| `UpdatesConserved` | `Spec => []UpdateConserved` |
| `BoundariesResumable` | `Spec => []BoundaryResumable` |
| `ImplementsLedger` | `Spec => KeepsLedger`, the refinement of `SourceLedger` |

The invariant has three parts, each kept by a lemma with one step per action.
`TypeInv` adds to the types that the work is finite (cardinalities are numbers), that a running call
has an update to collect for, and that nothing is preserved between
calls. `OnceInv` is `ExactlyOnce` with `CheckpointExactlyOnce`: the first needs the second after a
restart. Both partitions are unfolded once (`Places`, `SavedPlaces`); a step then moves the sources of one set to another, and small lemmas say what
queueing, dispatching and a weight update do to the sources of a set. `FreshInv` says that a group
carries labels no newer than the present, and that one under which the weights changed is at
least two versions behind afterwards, so that the staleness rule removes it.
On top of it stands a second one, `CallInv`. `CountInv` extends the balance of
`group_outcome_stats` to every point of a call; a valid answer keeps it because `ExactlyOnce` puts no group
in flight and in the buffer at once. `ResumeInv` says that an unscheduled boundary is the
cursor itself (`BoundaryStep`: a draw reaches a boundary or stays in its interval), that restored work is
dispatched before anything is preserved, and that what a boundary preserves is not stale, which is also why
a resumed call stays balanced.
For the refinement, `WaitingIsOpen` places every waiting source among the open ones of the ledger, and
`SourcesCount` makes a batch of groups a batch of as many sources.

`EndpointSlotsProofs` proves, for any endpoints, group size, lookahead, validation size and
number of restarts (`SlotsAssumption`):

| Theorem | Statement |
|---|---|
| `ReservationsConserved` | `Spec => []SlotsConserved` |
| `MarkersAreOwn` | `Spec => []ReleasedIsOver` |

`SlotsConserved` is an equation between a counter and two cardinalities. `IndexInv` (a new task takes nobody's
index, a replay finds nothing pending) says which reservations a step adds or removes, `UnreserveHeld` that
releasing held ones never meets the floor at zero, `CountThrough` that reservations are as many as picks. A replay lays the branches
of all tasks in a row: `SpotOneToOne` and, by counting, `SpotOnto` show that each gets its own pick. `MarkerInv`
is `ReleasedIsOver` for the markers still to be read as well, which is what a restart could break.

It also proves, about `WorkerPool`, for any set of calls, any part of them validation, and any
number of breaks (`PoolAssumption`):

| Theorem | Statement |
|---|---|
| `ReplacedOnce` | `PoolSpec => []OneLivePool` |
| `FailuresHaveCause` | `PoolSpec => []FailureHasCause`: a failure that reaches the driver has two different broken executors behind it, or one under validation, and the first of them has been replaced |

Its invariant adds `CallInv`: the lock is held by exactly the call between `Acquire`
and `Release`; from its repair on a call's executor is broken, and once the call has been through the
lock that executor is not the current one. Rebuilding keeps it because no other call can be at
`retired`. Nothing is said of the executor of the retry: a training call that fails on it
raises at once (`collect_naive_rollout_async.py:1435-1436`) and leaves it in place, for the next call to repair.

`EngineRecoveryProofs` proves, for any engines, ranks, rollouts and deaths (`EngineAssumption`):

| Theorem | Statement |
|---|---|
| `CurrentWeights` | `Spec => []ServesCurrentWeights` |
| `RanksDecideAlike` | `Spec => []RanksAgree` |
| `OnlyUnrecordedDeathsStop` | `Spec => []RecordedDeathIsSurvived` |

Its invariant has `CountInv` (the number of new engines is zero from a broadcast to the next recovery, and while
ranks read it, it says what they decided), `GroupInv` (without new engines everyone listed is in the group, and the list rank 0 has
read differs from the current one by cleared entries only),
`MonitorInv` (the monitor's copy tells the truth about the entries it has not come to), `FirstInv` (before the first
rollout nothing is cleared) and `SurvivalInv` (as long as `late` is "none", what recovery counted is what it starts).

It also proves, about `PolicyVersion`, for any engines, rollout processes, updates and lives (`PolicyAssumption`):

| Theorem | Statement |
|---|---|
| `PolicyTypes` | `PolicySpec => []PolicyTypeOK` |
| `CommittedWeightsServed` | `PolicySpec => []CommittedIsServed` |
| `TrainingGroupsPure` | `PolicySpec => []AcceptedGroupIsPure` |

`DriverInv` follows the driver: what it is about to serve, or serves, is the update before the call
or the one before that, and from the announcement to the commit the file is its own.
`RolloutInv` says of a rollout in flight that whenever the engines answer, their
weights lie between its pin and the driver's target; purity then needs the last check alone, because a
training rollout is accepted only under an unchanged version.

`CheckpointStoreProofs` proves, for any number of updates, lives and retained checkpoints, with or without the
exhaustion requirement (`StoreAssumption`), when every update is saved (`SaveInterval = 1`, the launcher's default):

| Theorem | Statement |
|---|---|
| `RecoveryPointWhole` | `Spec => []ResumePointIntact` |
| `RecoveryPointAdvances` | `Spec => ResumePointNeverFalls` |
| `MarkedCheckpointsStay` | `Retain # 1 => (Spec => []MarkedIsKept)` |

`PointSame` says why only `CommitData` moves the recovery point: every other step publishes no cursor and leaves the
point's own files and the tracker's reach alone. For that, `DriverInv` keeps the driver on the recovery point or on
the update behind it, `DataInv` has no cursor beyond the point (else naming a half-saved directory in the tracker
would publish it with a foreign cursor), `StampInv` tells a resumed life from one that has trained, and `PruneInv` keeps the point out of the
targets. For the third theorem, `ServedInv` says that what the engines serve is the newest checkpoint or the one
before (`SecondKept`: a retention of two or more spares both), and `ExportInv` that the exporter only works on updates up to the
recovery point, whose directories are not written again, so that an export goes on matching its checkpoint. With `Retain = 1` the theorem is false (see the observations above).

`LanesCollectorProofs` proves, for every budget, interval, batch size, lookahead, number of updates, resample limit and
topology (`LanesAssumption`), all that the run checks:

| Theorem | Statement |
|---|---|
| `GroupsAreConserved` | `Spec => []GroupsConserved` |
| `LaneBatchIsFresh` | `Spec => []LaneBatchFresh` |
| `NoBatchPastBoundary` | `Spec => NoTrainingPastBoundary`, an action property |
| `PartialIsResumable` | `Spec => []PartialResumable` |

What a queue or a buffer has to account for is its `Cover`, and `Apart` says that no two places share a group; the lemmas
on both (`ApartConcat`, `ApartSplit`) serve queue and buffer alike. `OnceInv` is `GroupsConserved` with its
cardinalities replaced by `Apart`, which, unlike the count, survives a cut; `RowsAre` and `AgainIs` say what a
harvest adds, group by group. `FreshBufferIs` gives the recursion of `FreshBuffer` its meaning: that the recursive
function exists and what it returns is shown by `UpTo`, an induction up to a bound taken from the well-foundedness of
finite sets, without an operator parameter. `FreshInv` is as in `NaiveCollector`. `TrainedInv` (a checkpoint has trained
no more than the run) is all the boundary property needs besides the types. `PartialInv` follows `partial`: it is empty
outside a call, restored work is dispatched before anything can be preserved, and no raised boundary lies beyond the cursor
(`BoundaryMonotonic`).

`SearchProofs` proves, about `ParallelSearch`, for any set of configurations (`ParallelAssumption`: any topology,
any number of branches, parents and steps, judge and evaluator on or off):

| Theorem | Statement |
|---|---|
| `SearchInvariance` | `Spec => []SearchInv`, the inductive invariant |
| `ForkPointsAlive` | `Spec => []ForkPointAlive` |
| `CompletedRecordsAreWhole` | `Spec => []CompletedIsWhole` |
| `PolicyDoneMeansQuiet` | `(\A c \in Configs : c.k < c.limit)` implies `Spec => []PolicyDoneIsQuiet` |

`MainInv` says where `run()` stands and what that says of Lane A and of the groups; `ImageInv` that the root's checkpoint
outlives every group that was started and a parent's the beam; `GroupInv` and `JudgeInv` follow one group each, so that
the lemma of a step only looks at the group that moves; `RecordInv` is what a completed record has seen. The last theorem
needs `LostInv` (a group that raised had no branches under way), which is true only while a parent's steps leave some for
its branches: see the observations above. `ForkPlan` deals branches out by division; that each number of the plan names a
parent that can go on is `NthMember`.

About `TrajectorySearch` it proves, for any number of rounds, branches, parents, raises, kills and resumes
(`SearchAssumption`), all that the run checks:

| Theorem | Statement |
|---|---|
| `RunnerInvariance` | `RunnerSpec => []RunnerInv`, the inductive invariant |
| `FrontierStaysRestorable` | `RunnerSpec => []FrontierRestorable` |
| `NothingIsLeaked` | `RunnerSpec => []NothingLeaks` |
| `ParentsAreEvaluatedFirst` | `RunnerSpec => ParentEvaluatedFirst`, an action property |

`FrontierInv` is `FrontierRestorable` carried through a round, where the chosen branches are not yet swept: a branch that is
not chosen is dropped before the sweep, and what the frontier keeps from the round before was resumable. `LeakInv` says that
outside a round only terminal evaluations have sessions, and that an outcome is settled in the `finally` block only;
`SweepInv` that the checkpoints a process made are in its snapshot cache, unless it raised or was killed in between.
`EvalInv` is the order of evaluations: `Evaluated(k)` are the nodes that are judged once the first `k` waiting rounds
are, the judge cache holds no more than all waiting rounds will provide, and a waiting round's primary parent is in what the
rounds before it provide. Taking the head of the queue shifts that order by one (`EvaluateRoundHolds`); a kill empties
queue and cache together, and `LoadManifest` fills the cache from the judge files alone. `InOrder` and `Filter` of
`OrderedSets` get their meaning from `NthMember`, and that from `Greatest` and `FromTo`, an induction between two bounds
taken from the well-foundedness of finite sets.

`UsageLedgerProofs` proves, for any number of sources, tries, requests and lives (`LedgerAssumption`), all that the run checks:

| Theorem | Statement |
|---|---|
| `LedgerInvariance` | `Spec => []LedgerInv`, the inductive invariant |
| `NoAttemptChargedTwice` | `Spec => []ChargedOnce` |
| `EveryCostHasAnOutcome` | `Spec => []SettledAtStop` |
| `DroppedCostIsExact` | `Spec => []DroppedCostExact` |

`HeldInv` gives a source to one task at most. `ChargeInv` says that no source was charged beyond the try its task has
reached, and before it when the task waits to be sampled again; that is what keeps two groups of one attempt apart.
`SettleInv` says that a group with a request has an outcome or is still with a task that will write one. Both are said
twice, of the lines a job that goes on builds on (`Live`) and of those that it falls back to when it dies now
(`Durable`): a restart turns the second into the first. `TrackerInv` is a separate invariant: what a tracker has added up
is `Exact`ly a count over the lines it has seen. It rests on `ReadExact`, an induction along the lines of one read
(`Read` is a recursive function for that reason), and on what one request or one outcome does to
the count of its group.

Model-checked only: liveness (`ScheduledIsAcknowledged`, `Terminates`,
`MarkedIsExported`, `EveryCallReturns`, `EveryRunEnds`), which needs fairness and ENABLED and is out of this prover's
reach. `InterruptedRoundRetried` is false and so only TLC's. Every invariant and every action property that a passing run
checks is a theorem. No module declares a RECURSIVE operator.

## 6. Running

    tlc -workers 2 -config MCNaiveCollector.cfg MCNaiveCollector
    tlapm TrainValidationProofs.tla
    tlapm NaiveCollectorProofs.tla
    tlapm EndpointSlotsProofs.tla
    tlapm EngineRecoveryProofs.tla
    tlapm CheckpointStoreProofs.tla
    tlapm LanesCollectorProofs.tla
    tlapm SearchProofs.tla
    tlapm UsageLedgerProofs.tla
