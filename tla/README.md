# A specification of the Transaction Risk ML platform

TLA+ modules for the parts of `transaction-risk-ml` that are hard to test: the
request path of the API, the store of prediction events and labels, the
model registry, the way of a model from files through training and release to
the cluster. Every definition is translated from the source; `PROJECT.json`
maps each to its lines. Paths below are relative to the repository.

| Module | Models | Checked by | Proved in |
| --- | --- | --- | --- |
| `PredictionServing` | `app/main.py` (`predict`, lifespan), `app/services/reliability.py` | `MCPredictionServing`, `MCService` | `PredictionServing_proofs` |
| `EventIntake` | what `PredictionEventStore` promises per event (abstract) | `MCService` | |
| `EventWriter` | queue, writer and shutdown of `ml/monitoring/store.py` | `MCService` | `EventWriter_proofs` |
| `FeedbackStore` | tables of `ml/monitoring/store.py`, labels, snapshot | `MCFeedbackStore` | `FeedbackStore_proofs` |
| `ModelRegistry` | `ml/tracking/registry.py` over `ml/tracking/client.py` | `MCModelRegistry` | `ModelRegistry_proofs` |
| `ReleaseLifecycle` | `ModelRegistry` with `pipelines/export_model_bundle.py`, `rollout_model.py`, `app/services/model_provider.py` | `MCReleaseLifecycle` | `ReleaseLifecycle_proofs` |
| `TrainingData` | the processed files: `pipelines/run_pipeline.py` and its parts, `prepare_retraining_manifest.py`, `ml/training/dataset.py`, `ml/tracking/lineage.py` | `MCTraining` | `TrainingData_proofs` |
| `DataPreparation` | checks, splits and samples: `ml/data/validation.py`, `ml/features/schema.py`, `ml/data/split.py`, `ml/training/sampling.py` | `MCTraining`, `MCTrainingData` | `TrainingData_proofs` |
| `TrainingRun` | `pipelines/train_models.py`, `retrain_model.py`, registering in MLflow | `MCTraining`, `MCTrainingRun` | `TrainingRun_proofs` |
| `ModelSelection` | `ml/evaluation/`, the gate of `ml/training/retraining.py`, what `ml/training/config.py` lets pass | `MCTraining`, `MCTrainingRun` | `ModelSelection_proofs`, `TrainingRun_proofs` |

To run: `tlc -workers 2 -config <X>.cfg <MC module>.tla`, `tlapm <M>_proofs.tla`.
No run takes longer than three minutes on two cores.

## 1. The system

### Components, state, operations

* **API process** (`app/main.py`). One event loop. *State*: the provider's model,
  the idempotency table, the prediction semaphore, the event queue. *Operations*:
  predict, submit a label, startup, shutdown. Authentication, body limit and
  request-id middleware, health routes and metrics keep no state that a decision
  depends on.
* **Idempotency store** (`reliability.py:29-97`). *State*: entries with fingerprint,
  expiry and a result future. *Operations*: acquire (purge, look up, evict, add),
  complete, fail, clear.
* **Prediction executor** (`reliability.py:100-141`). *State*: a bounded semaphore
  and the running `to_thread` tasks. *Operations*: run, shutdown.
* **Prediction event store** (`ml/monitoring/store.py`). *State*: a bounded queue, the
  writer's batch, loss counters, and two SQLite tables shared with other processes.
  *Operations*: enqueue, the writer, record_label, close, read_snapshot.
* **Monitoring job** (`pipelines/run_monitoring.py`). A scheduled process: reads a
  snapshot of the tables, groups it by model version, writes reports.
* **Model registry** (`ml/tracking/`). *State*, in MLflow: versions with tags, and the
  aliases candidate, staging and production. *Operations*: register, promote, roll back.
* **Training** (`pipelines/train_models.py`) registers and validates a version;
  **retraining** (`retrain_model.py`, `ml/training/retraining.py`) does so against a
  frozen, approved manifest and compares with the version in production.
* **Release** (`export_model_bundle.py`, `rollout_model.py`) writes a bundle of the version
  in production, patches the deployment, waits for readiness and otherwise restores
  both Kubernetes and the registry.
* **Model provider** (`app/services/model_provider.py`) loads a bundle or an alias, once.
* **Data pipeline** (`pipelines/run_pipeline.py`, `ml/data`, `ml/features`) cleans, builds
  features, splits by time; **selection** (`ml/evaluation`) picks a model and a threshold.

### Interactions

`predict` → idempotency store → executor → provider → `enqueue` → writer → tables ←
label submissions ← monitoring job. Training → registry ← promotion, rollback;
registry → export → rollout → (on failure) rollback. Calls inside the API process share
one event loop and threads; everything else shares storage without any protocol
beyond SQLite's write lock: MLflow offers no compare-and-set.

### What is hard, and what makes a component correct

| Component | Hard | Correct when |
| --- | --- | --- |
| Request path | a thread nobody can stop, timers racing answers, lookups by id after an await, two limits at once | slots and entries are neither lost nor duplicated, replays are faithful, everyone is answered |
| Event writer | full queue, retry, shutdown during a write, crash | each event is stored, refused or given up, and every loss is counted |
| Tables | concurrent label retries, two purging processes, reports read in several transactions | labels stand while retained, are final, and reports do not hide omissions |
| Registry | check-then-act over single calls, tags written one by one, compensation, killed operators | aliases name only validated versions, failures leave the alias alone, rollback restores the replaced version |
| Release | alias read twice, patch applied but reported failed, crash between patch and check | only validated models are loaded, releases never change, a recovery that reports success leaves cluster and registry in agreement |
| Retraining, training | incumbent changes during the comparison, registration before validation, tags written one by one | nothing unvalidated becomes promotable, run, version and alias agree |
| Files | nothing locks them; hashing, matching and reading are apart | what is trained on is what was approved |
| Data, selection | boundaries, ties, rounding, a crash between two written splits | splits partition the data in time order, the chosen threshold is best |

`PROJECT.json` lists every hazard at its line with the properties that cover it.

## 2. The modules

### PredictionServing

One process, a set of HTTP requests, discrete monotonic time. The store's asyncio lock
never encloses an await, so that a handler is atomic between its real suspension points:
`pc[r]` is where it is suspended (`queued` for a slot, `scoring`, `waiting` for another
request's result). An action is a handler's run from one such point to the next, with
all the store and executor calls on the way: `AdmitScoring` is acquire, preparing the
frame, taking the slot and starting the thread; `OwnerScores` is the `finally` block,
handing over the event, `store.complete` and the response.

| State | Code |
| --- | --- |
| `entries`, `expiresAt`, `future`, `resolvedBy` | `_entries`, `expires_at`, the result future and who set it |
| `permits`, `thread`, `orphaned` | the semaphore, the `to_thread` tasks, tasks with the releasing callback |
| `pc`, `deadline`, `joined`, `answer`, `servedBy` | the handler, its `wait_for`, the shared future, its response |
| `phase`, `closeBy` | lifespan: accepting, draining, closing the store, waiting for threads, stopped |
| `telemetry` | whether the prediction's event was queued or dropped |

An entry and its future are named by the request that made them: `complete` and `fail`
look an entry up by id, and may find another request's. A timer is served at most `Lag`
ticks late and never early; `TimerFired` leaves open whether the timeout or an answer of
the same instant wins. A handler cancelled from outside is not modelled: the
server lets accepted requests finish.

### EventIntake and EventWriter

`EventIntake` is the promise, one `status` per event; `EventWriter` the
queue, the batch, the thread that writes it and `close`. `Crash` is the end of the process and
the start of the next one on the same tables; events of earlier processes
are `past`. The queue is a set, since order changes no event's fate. The
refinement mapping `statusBar` reads an event's status off where it is; an
event cancelled at shutdown may still be stored when its thread commits, which is
why `Store` of `EventIntake` accepts abandoned events.

### FeedbackStore

The tables under everything that works on them: `PersistEvents` (insert
and purge, one transaction, possibly long after the prediction), a label
submission split at its statements, and `read_snapshot` with its clock read once and
its SELECTs as transactions of their own. `lock` is SQLite's write lock held across
statements. ISO timestamps compare like the instants they name, so times are numbers.
`accepted` is a history variable: what the last accepted submission for an id said.

### ModelRegistry

Operators who each run one promotion or rollback at a time; `pc` is the next registry
call, and every call is a step. Of the promotion's tags the model keeps the ones a
decision reads: `standing` (candidate_status), `previousAny`
(promotion.previous_version) and `previousIn` (the same, per stage), in the order they are
written. `PromotionFails` and `RollbackFails` are a failing call and lead to the
compensation; `Abort` is a killed process or a failing compensation. Versions are READY, as
MLflow leaves them. `validated` stands for the signature and serving tags, `rejected` also
for a failed quality gate. `settled`, `replaced` and `held` are
history variables. `Duties` says who may work on which alias.

### ReleaseLifecycle

Extends `ModelRegistry`: every action of it is there, and a rollout is one more operator,
`Guard`, whose recovery is the very `Rollback` of that module. `bundle` is the release
directories, `reader` the processes that export or serve, `cluster` the deployment's version and the
one its last revision replaced, `rollout` the rollout's next step with the flag
`rollout_started` and the errors collected so far.

A reader resolves the alias for its tags (`Resolve`) and again by name for the model
(`LoadModel`); report and metadata of a directory are of the version it is named after, so the
directory is represented by the version of its model. `EndExport` fills the directory, removes it
after an error, or leaves it `Partial` when killed. `PatchUnacknowledged` is a patch
that took effect and is reported as failed; `Undo` is `kubectl rollout undo`, which swaps the two
revisions; `RestoreRegistry` and `RegistryRollback` are the rollback in the registry, call by call.
`rollout.calm` is history: nobody worked on production when the rollout was validated.

### TrainingData and DataPreparation

`store` says for each part under the processed path which job wrote its files; Spark gives files names
no other job uses, so a part's content is that job, or `Absent` between the deletion of
`mode("overwrite")` and the commit. A pipeline (`job`) has the parts it will write in `todo`. A load
(`load`) is an approval or a controlled training: `at` counts the steps of `Training`, `listed` is the
file index of each data frame, `found` the manifest being built, `frame` the rows in memory, one split read
after the other. A read of
a listed file that is gone fails; `lineage.json` keeps its name and is read twice, for the time
ranges and for its hash. Listing one directory, and hashing all files, are single steps. A training
on unapproved data takes the same steps without a manifest to match; the model leaves it out.

`DataPreparation` is pure. Where the result depends on a hash, on floating point, or on an approximate
quantile, an operator is the set of possible results: a hash sample is any subset, the cut
`int(n * ratio)` may fall one short, a quantile is any time that occurs.

### TrainingRun and ModelSelection

A version stands for one training, its MLflow run and the version it may register. `pc` is the next
call; every write to MLflow is a step, a set of version tags one step per tag. `CallFails` is a
failing call or a refusing check at any step, `Kill` the end of the process; a write that
takes effect and is reported as failed is that write followed by `CallFails`. `Select` applies
`Candidate` of `ModelSelection` to what the models predict of any sample of the validation rows;
`Gate` compares any test metrics with any of an incumbent, because the incumbent's model and its
tags are read apart. `MoveProduction` is all that training can see of promotions and rollbacks.
`local` says whose models and report lie in the fixed paths and, as history, who wrote there last.

The refinement `Registry` maps training onto `ModelRegistry` without operators: its tags become
`standing` and `validated`, so that `Validate` there is what training does here.

`ModelSelection` has scores as whole numbers and ratios as pairs compared by cross
multiplication, never as floating point. Both ranking metrics are represented by the number of pairs in the
right order, that is roc_auc; pr_auc may rank models otherwise, and no property depends on the
difference. Ties are resolved as Python's `max` does.
`Configurations` is what `load_model_config` accepts: at least one threshold, sorted and unique,
costs that are not negative, known strategies and metrics. The loops over thresholds and models are
`BestOf`, a fold over the positions of a sequence.

## 3. What the runs show

| Run | Question | Result |
| --- | --- | --- |
| `serving` | slots, threads, entries and replays under all interleavings | holds |
| `service` | everyone is answered, shutdown ends, slots come back; losses are counted, `EventIntake` is implemented, accepted events are stored, close returns | holds |
| `serving_short_ttl` | the same replays when entries expire before predictions end | violated |
| `feedback` | labels and reports under concurrent purging and writing | holds |
| `feedback_final` | a label is final | violated |
| `registry` | only validated versions; failures leave aliases alone; rollback restores what was replaced | holds |
| `registry_stale_audit` | the last of these when calls fail | violated |
| `registry_concurrent` | an expected version guards a rollback | violated |
| `release` | exports, servers and a rollout with its recovery, while operators promote and roll back | holds |
| `training` | pipelines overwrite files during approval and training; trainings fail or die at every call while production moves: tags, runs and alias agree, `ModelRegistry` is implemented; checks, splits, samples and thresholds over all small inputs | holds |
| `features_infinite` | an infinite amount or balance is never published | violated |
| `training_diagnostic` | no version is registered with a diagnostic threshold | violated |

`service` and `training` each explore two modules that share no variable: a behaviour moves the
variables of one of them while the other is at rest (`awake`). For the modules this loses nothing:
the request path may find every event queued or dropped, whatever the writer does, and the
writer may be given events, closed or killed at any time; `TrainingRun` learns from any sample, and
neither reads nor writes what `TrainingData` keeps.

The violated ones are real disagreements between the code and what it says of itself:

* **Short ttl.** `Settings` relates no two of its values. When the ttl is at most queue plus
  prediction timeout, `_purge_expired` drops an entry in use, another payload may take its id,
  and the first handler's `complete` answers the second's request. The theorems below
  state exactly which ttl excludes it (`TtlCoversPrediction`); the defaults do.
* **Labels are final only while retained.** A label is purged by its own `label_time`, which
  the client chooses; afterwards the id accepts another outcome.
* **Stale audit.** A promotion's compensation restores the alias, not the tags.
* **Concurrent promotion.** `expected_current_version` is checked, then the alias written.
* **Infinite features.** `validate_feature_values` promises to reject non-finite values and tests
  for null and NaN. `PublishedRowsSound`, which holds, leaves infinity to `FeaturesFinite`.
* **Diagnostic thresholds.** A retraining without an eligible threshold goes on with one "solely to record
  a rejected retraining attempt", but what rejects it is the policy's minimum recall, and nothing compares
  that with the configuration's. `OnlyPassedRegistered` is about the policies that ask for no less,
  `DiagnosticOnlyRejected` about all.

Two properties of `registry` say for which aliases they hold: `Orderly` excludes a
killed process (its promotion moved the alias and never wrote the tag that a
rollback reads, which then falls back to the other stage's) and aliases two
operators worked on at once. `AliasesValidated` holds without any such condition.

What the runs that hold say less of than one might hope is in their statements:

* **An alias is read twice.** The model in a server or a directory may be another version's than
  the tags, threshold and report are of: TLC finds such a directory in 17 states. Two things are left.
  `LoadedValidated`: the model is validated. `BundlesWerePromoted`: the version a directory is named
  after had the production alias, and the model in it is of a version that a promotion gave an alias,
  but with `--alias staging` this may be one that never was in production.
* **Reports count what is retained.** Nothing keeps `window_days` below `retention_days`, nor a job
  short. `CountsCoverRows` is silent once the job has run for so long that rows of its window may have
  been purged meanwhile (`WindowRetained`).
* **Mixed splits go unnoticed.** `WholeUnlessDisturbed` says when splits are of one job. After a pipeline was
  killed, or two overlapped, they need not be, and can be approved and trained on, with their true hashes.
* **The local pair has no repair.** `LocalPairWhole` follows the training that wrote there last: a training that
  dies between models and report parts the two for good, until another gets past both.
* **One approval tag serves both stages.** A staging promotion of the version in production
  makes export and rollout refuse it, hence `v \notin held["staging"]` in `ApprovalShared`.
* **A rollout looks once.** `_validate_registry_release` looks for the predecessor that a
  rollback would need. A promotion of that very version to production may have moved the alias and
  marked it without having written the predecessor yet: what is found is then the
  predecessor of an earlier promotion to staging, and when the promotion goes on to write
  "none" the way back is gone. Hence `rollout.calm` in `RollbackStaysPossible`. The shortest such
  history has four sessions, one more than the run allows: it was found when
  the property was to be proved.
* **Recovery trusts the records.** `RestoredTogether` needs that what the cluster ran before
  is what the registry recorded as the predecessor, which nothing in the code checks. A patch that
  is reported failed but took effect is not undone either, and the rollout then says that the
  deployment was unchanged; it is one of the mishaps that `Orderly` excludes.
* **The staged pipelines do not run the domain check.** `PublishedRowsSound` lets negative balances
  past `build_features`.
* **Three rows are not enough.** With 70/15/15 the split of fewer than seven rows may be refused:
  the second part of `SplitsSound`.

### Bounds, and why they are enough

* `serving`: three requests, ids and payloads chosen freely, so that an owner, a joiner and
  a stranger exist at once; one slot, so that the second prediction queues; two entries, so
  that the third request meets a full store; `LastArrival` lets a request come after an
  entry expired, `Horizon` lets every timer and the shutdown end. `Ttl` = 3 is the least
  that covers queue and prediction (1 + 1) and is itself reached.
* `service`: two requests, with `Lag` = 1 and no symmetry. `Ttl` = 5 for the same reason; `Horizon` = 10
  lies beyond the last deadline of requests that come by `LastArrival` = 1, so that time never stops
  before a timer. Four events against a queue of two and batches of two: one batch being
  written, a full queue, and a refused event.
* `feedback`: two ids, two submissions, `MaxEvents` = 1 so that rows are left out, `Retention` = 2
  and a clock of four ticks, so that labels and events expire while a job or a late write is
  under way; `JobSpan` = 2 lets a job outlast what `WindowRetained` asks for.
* `registry`: three versions (the new one, the one replaced, and another), two
  stages, two operators on production, and four operations, as many as the shortest way to
  read the wrong tag takes. `MaxFailures` and `MaxMishaps` = 1: one failing call
  leads to compensation, one mishap to a half-done operation. The violated runs let one
  operator do six operations.

* `release`: two versions, one to replace the other; two readers, so that two exports meet in one
  directory; one operator on both stages and the rollout; three sessions: two promotions, so that
  there is a predecessor, and one rollback. `MaxFaults` = 1: one failed call or one mishap, and
  `MaxAtOnce` = 2: the hazards are each between two processes; a
  server takes one of the places until it is stopped.
* `training`, the files: `MaxJobs` = 2, so that one pipeline overwrites or runs into another; `MaxLoads` = 2: an approval, then
  a training; one kill; two processes at once. `features_infinite` needs the initial states only.
  The pure operators are evaluated in the initial states: every combination of what the checks tell
  apart in a row, on both routes; up to five rows with three times, and 7 to 20 rows in three
  shapes, to be split; up to six rows to be sampled.
* `training`, the registry: two trainings, the first of which may be a candidate, in production or dead when the
  second runs; the theorems are for any number. Four
  validation rows (two frauds), three models, a hash sample of at most three
  rows, so that a class may be missing, and two policies, as strict as the configuration and less
  strict. `ThresholdIsBest` covers all predictions of four rows with one to three frauds and scores from 0 to 3,
  under 48 configurations of costs, strategies and minimum recalls.

Symmetry is used for safety only. Deadlock is not checked for the runs of the registry, of releases, files and trainings, whose
operations are bounded; `Quiet` of `PredictionServing` is an idle or stopped server.

### Fairness

* `LoopFairness`: the event loop runs every ready handler, callback and timer in
  the end, and time passes. The model's threads, clients and the
  operator owe nothing: `EveryRequestAnswered` and `ShutdownCompletes` hold with a model that
  never returns, because every wait has a timeout. Only `SlotsComeBack` has `ModelReturns` for a
  premise.
* `WriterFairness`, `CloseFairness`: the writer task, its threads and the grace timer go on. How a
  write ends is the storage's choice; `AcceptedIsStored` has `StorageRecovers` for a premise: the
  writer tries for ever, and a storage that fails for ever stores nothing.

## 4. What is proved

For every value of the constants, from the named assumptions in the modules.

* `PredictionServing_proofs`. `TypeCorrect`, then `SlotAccounting`: the slots free
  and the predictions holding one add up to the limit; `ThreadLimit` follows since
  a running thread holds a slot. `ReplaysAreFaithful`, `OneOwner` and `WaitersAreServed` assume
  `TtlCoversPrediction` and rest on one inductive invariant, `OwnershipInv`. The
  properties are not inductive alone: that `complete(id)` reaches the caller's own entry
  needs that the entry is still in the table (`OwnersHaveEntries`), which needs that its
  owner answers before it expires (`OwnersInTime`), which in turn bounds deadlines by the time of
  admission; that no other entry has the id (`OneEntryPerId`); that a settled future holds the response
  of its own request (`ResultsSettled`); that a joiner has its owner's id and payload
  (`WaitersMatch`); and that nothing is in a handler when the table is cleared
  (`DrainedBeforeClosing`). `LossIsJustified` follows from it too: `fail(id)` removes the caller's own entry.
  `RefusalIsLoad` holds of any ttl; its invariant, `StoreInv`, says that the table never exceeds
  its limit, that a request not begun left no trace in it, and that an unsettled entry has a handler at
  work (`NoAbandonedEntry`): a table in which nothing can be evicted is full of such.
* `EventWriter_proofs`. `EventsInOnePlace` needs besides `WriterInv` what the thread that writes a
  batch has done of it, also after its writer was cancelled (`ThreadInv`). From the same
  invariant `WriterImplementsIntake` shows step by step that the writer implements
  `EventIntake` under `statusBar`. `LossesAreCounted` adds `DroppedInv`: after a shutdown the counter
  exceeds the losses by the part of the abandoned batch that was written none the less.
* `FeedbackStore_proofs`. `SubmissionsExclude`: a submission past its first statement holds the
  write lock, so no other can insert under it. `LabelsStand` and `LateIsUnlabeled` need `LabelInv`: a
  label that joins an event still there is there too (`JoinedKept`), because whoever purges
  the label purges the event with it, by a clock that is never ahead (`JobClock`).
  `CountsCover` needs `CountInv`: the rows a report has read stay in its window until it ends
  (`JobInTime`), and what is in the window cannot have been purged as long as `WindowRetained`, so later
  counts cover them; without it the property promises nothing, and no assumption on the constants is needed.
* `ModelRegistry_proofs`. `TypeCorrect`; then `OnlyValidatedServe`: no alias names a
  rejected or unvalidated version, whatever races, fails or dies. The invariant `SoundInv` says
  that whatever an alias can be given comes from a version that passed the checks: the
  version of an operation past them, the alias it read, and the audit tags. `SoundGrows` says
  that such a version stays sound. `FailuresLeaveNoTrace` rests on `AliasInv`: as long as the
  stage is `Orderly`, an operation knows the alias it found (`Knows`) and a compensation puts it back. `RollbacksRestore`
  rests on `AuditInv`: without failures the tags of a version at rest name what its last promotion
  replaced, and the tag of another stage is read only when no tag of this one exists.
* `ReleaseLifecycle_proofs` extends the previous. Every step of a release is a step of the registry, leaves it
  alone, or counts a mishap (`RegistryMoves`), so that the registry's invariants hold here too.
  `OnlyValidatedLoaded` adds that what readers and directories hold is sound; `ReleasesStand` that a
  directory being written has one writer (`WriterInv`); `OnlyPromotedExported` that the approval tag is
  written only after the alias moved, which is where the order of a promotion's calls matters
  (`PromotedInv`), and that whatever has an alias, or can come back to one, was promoted (`GivenAll`).
  `ApprovalFound`, `WayBackStaysOpen` and `RecoveryIsTogether` are about what a rollout reads long before it
  acts on it. `ApprovedInv`: while production is `Orderly`, whatever is recorded, remembered or named by an
  alias carries the tag of production or was in staging, but for a version that has the alias and
  not yet the tag; that set only grows. `RecoveryInv` follows the predecessor through a rollout: no version is
  recorded as its own predecessor (`OtherThanItself`); the version in production, and every version it can
  come back to, has a recorded predecessor also after failed calls (`WholeTags`); the rollback is at
  work exactly while the rollout restores, on the rollout's version (`GuardKnows`); the
  predecessor that a calm rollout found stays recorded (`PredecessorKept`); and where the rollout is tells
  what the deployment runs (`ClusterKnows`).
* `TrainingRun_proofs`. `TrainingTyped`, for any samples, metrics, configuration and policies: it
  uses nothing of `ModelSelection`. `PromotableServed` and `RunsAgree` are inductive together with
  what has been written when the training under way is at a given step (`Progress`), that
  nothing has of trainings not begun (`Fresh`), and that the tag of the serving check comes after
  serving (`ServedFirst`). `TrainingImplementsRegistry` maps every step to
  `Validate` of `ModelRegistry` or to a stutter.
  `LocalPairsWhole` adds where the training that wrote last is, or how it ended (`LocalInv`). `PassedRegistered` carries the choice from `Select` to the gate and the verdict
  from there on (`GateInv`), and needs of `ModelSelection` that a diagnostic choice misses the configured
  recall (`CandidateKnown`): the gate compares that very recall with the policy's.
* `ModelSelection_proofs`. `ThresholdChosen` and `CandidateKnown`, for predictions of any rows, any
  thresholds and models. A fold over positions is a recursive function on the subsets of `1..n`; that it exists
  (`FoldExists`) and what it finds is proved by the least counterexample (`LeastNatural`,
  `AllNaturals`), since the library's induction theorems cannot be instantiated here. That asking
  for more recall never raises the threshold needs that the thresholds rise and that recall falls
  with them. `ThresholdsBest` takes the run's predictions as instances.
* `TrainingData_proofs`. `DataTyped`, and `ApprovedIsTrainedOn` for any number of pipelines. In place
  of a lock there is this argument (`StoreInv`): a job writes each part once and never again, so what a part held and
  holds no longer never comes back (`Final`, `Gone`). Hence of any two readings of a
  part either both saw one content, or the first is gone for good and the later file read fails
  (`FilesFound`, `Matched`). The two readings of `lineage.json` may differ in a manifest
  approved, but then no training can match it (`Honest`, `RangesFound`).
  `SplitsWhole` adds `WholeInv`: a pipeline that has been alone since it started has written every part it
  no longer has to write, and only such a one makes up for a disturbance.
  The operators of `DataPreparation` are proved for all inputs. `SplitSound`: row numbers are a ranking of
  the rows (`RowNumberOrders`) onto 1 to n (`RowNumberOnto`, by the pigeonhole principle), hence every
  part has rows and none is before the part before it; `SevenRowsEnough` bounds what rounding
  takes away. `SampleSound` counts frauds and chosen rows. `SplitsMadeSound`, `FraudsKept`
  and `RowsPublishedSound` state what the run evaluates: the first two are instances.

The assumptions are those on the constants, at their declarations. None bounds a number of actors or
of steps:

* finite sets of actors and events, markers that are not versions or labels, positive limits;
* `TtlCoversPrediction` (a hypothesis of four theorems of serving, which
  the code's defaults satisfy and its validation does not enforce);
* `ProductionAssumption`: the stages are staging and production, as `promote_registered_model` and
  `rollback_registered_model` refuse any other;
* `ConfigAssumption`: the configuration is one that `load_model_config` returns, the policies' limits are
  ratios that can be compared (`PoliciesAssumption`), and samples are finite, of three models
  as the configuration names them, and sampling keeps rows that exist (`SamplesAssumption`).

Every safety property, action property and refinement of a passing run is stated by a theorem. What is
only model-checked is liveness: `EveryRequestAnswered`, `ShutdownCompletes`, `SlotsComeBack`, `AcceptedIsStored` and
`CloseReturns`, since the prover handles neither fairness nor `ENABLED`. The checks of the gate, the choice
between models beyond `CandidateKnown`, and the metrics are definitions without a property of their own.

## 5. Not modelled

* Spark transformations, feature builders and scikit-learn training: functions of one input without
  interaction, numeric beyond what TLC can enumerate. `TrainingRun` takes their results as
  constants. Metrics other than those a decision compares, and profiling, only report.
* Configuration parsing (`ml/training/config.py`, `Settings`): pure validation, apart from the
  relations the code does not check, which `serving_short_ttl` and `training_diagnostic` are about.
* Loading a local bundle into the provider: model and report are read one after the other without
  a version to compare. `LocalPairWhole` is about what trainings leave there.
* The reports of the monitoring job beyond its snapshot: segments and statuses are pure
  aggregations of the rows. Its temporary file of the latest summary has a fixed name; schedules
  keep jobs apart.
* Retraining's evidence files and the model card: written once, read by people.
* Metrics and logging influence nothing. Manifests under `deployment/` are
  configuration; each replica has an idempotency store of its own.

Nine hazards have no property, for the reasons given with them in `PROJECT.json`. Of five the model has the
steps, and nothing in the code that would prevent or detect the outcome: an operator killed between alias
and audit tags, the second readings of the alias by export and by servers, a patch that takes effect
unacknowledged, and splits mixed by a crash. Four lie beyond it: the incumbent's second reading, a hash
sample that loses a class, the provider's local pair, the monitoring job's temporary file.

## 6. Plan

In this order.

1. An abstract `IdempotentService` (each id gets at most one scored answer while it is remembered)
   and `PredictionServing` as its implementation, proved under `TtlCoversPrediction`.
2. The provider's local bundle, composed with `TrainingRun`: what a server may combine.
3. `MonitoringJob`: segments and report status over `FeedbackStore`'s rows.
