# Formal verification of the inspection application

TLA+ specifications of the back end of the production inspection application,
TLC configurations that model-check them on small instances, and TLAPS proofs of
the properties that matter most. Paths are relative to the repository.

    tlc -workers 2 -config run_recovery.cfg MCRunOrchestration   # one run
    tlapm CatalogProofs.tla                                      # one proof module

`PROJECT.json` lists the runs with their properties, the mutations each property
detects, the source lines of every definition, the hazards, the findings and the
theorems.

## 1. Inventory

The application is a Python back end (FastAPI over SQLite and a data directory), a React
front end and an Electron shell that forwards the front end's requests to the back end;
`npm run dev` starts the three side by side. An inspection *run* has four stages:
reconstruction and inference in parallel, then validation, then publication.

| Part | State | Operations | What makes it correct |
|---|---|---|---|
| Run orchestration (`services/run_orchestration.py`, `database/repositories.py`) | run row, control row (lease, cancellation), a checkpoint per stage, evidence files; per call a pool of stage workers | `execute`, `request_cancellation` | one owner at a time; the gate precedes publication; attempts survive restarts; terminal runs stay; every call ends |
| Run command dispatcher (`api/commands.py`) | `_active`, a semaphore of slots, a one-thread pool | `start`, `submit`, `cancel`, `close`, `_execute`, `_finished` | slots are neither lost nor given back twice; accepted runs are executed; a stop ends |
| Run routes (`api/routes.py`) | none (rows) | create, start, cancel, list | a check made in one transaction stays true when it is used |
| Event broker (`api/events.py`) | a ring of events and a counter, in memory | `publish`, `read` | a client is informed of every run or told of a gap |
| Pipeline lifecycle (`services/pipeline_lifecycle.py`, `core/configuration.py`) | pipeline rows, contract files | `create_draft`, `validate`, `approve_and_activate` | rows and files agree; at most one active revision |
| Model catalogue (`services/model_import.py`, `services/model_library.py`) | model rows, model directories | `import_bundle`, `archive`, `delete_archived` | rows and directories agree; referenced models stay |
| Model jobs, reconstruction jobs (`api/model_jobs.py`, `api/reconstruction_jobs.py`) | job tables, one-thread pools | submit, complete, trim, progress, close | an outcome stays; accepted jobs end; unfinished jobs stay known |
| Acquisition intake, center reference library, configuration store, rendering (publication) | staging and final files or directories | intake, install, save, render | what is published is whole; directories are never replaced; staging goes |
| Database backup (`database/backup.py`, `database/engine.py`) | database file, write-ahead log, backup file | backup, restore, commit, checkpoint | no commit lost, no damaged file in place; a restore takes effect |
| ONNX worker (`inference/onnx_worker.py`) | `_state`, `_session` | `start`, `infer`, `close` | batches run on a warm GPU session nobody takes away |
| Model bundles (`services/model_validation.py`, `domain/model_bundle.py`) | none | validate | what is imported can be run and sliced for |
| Sliced inference, projection (`inference/sahi.py`, `inference/projection.py`) | none | windows, batches, merge; footprints, deduplication | complete coverage; each detection is evidence of one result |
| Reconstruction (`services/offline_reconstruction.py`, `reconstruction/*`) | work directories | a sequence of stages; evidence, fit, gates; canvas and tiles; center completion | judged by held-out points; bad joins do not decide; tiles add up; only the opening is filled |
| Front end, Electron bridge | shown job, saved session, polling loops | submit, poll, abort, forward with a timeout | what is shown as complete is on disk; polling ends |

How they interact: routes call the dispatchers and services on request threads;
a dispatcher runs one job at a time on its worker thread, and the run
dispatcher's job is `execute`, which has a pool of its own; a done callback gives
the slot back. All of them share the SQLite database through short transactions,
and the data directory, which no transaction covers. Clients learn of progress by
polling events, jobs and rows.

What is hard here:

- **Transactions that read and then write.** SQLite takes its lock at the first
  write, so a decision can be stale when it is written down. This shapes the
  lease, the status of runs, and both state machines of the catalogue.
- **Two stores.** Files are saved before, moved before, or removed after the row
  that describes them; either half can fail, and the process can die between.
- **Overlapping executions.** A lease can lapse under a live call.
- **One exception type with two causes.** `RunCancelled` is raised for a user's
  request and for the sibling of a failed stage.
- **Callbacks outside the lock.** A future can be done before its callback is added.
- **Volatile beside durable.** Queue, slots, jobs and events die with the process;
  rows, leases and files do not.
- **Answers that are lost or late.** The bridge gives up on a request the service
  carries out; an aborted polling loop goes on.
- **Merging by growth.** A union of detections grows while others are compared
  with it, so that the order of the comparisons could matter.

Every hazard, with its line and the properties that cover it or the reason why
none does, is in `PROJECT.json` under `hazards`.

## 2. Modules

    RunContract <--implements-- RunOrchestration --> RunOrchestrationProofs
                                      |
                              MCRunOrchestration
    RunService ------------------------------------> RunServiceProofs
    MCRecords
       |-- EventPolling (extends EventBroker) ------> EventProofs
       |-- Catalog ---------------------------------> CatalogProofs
    MCJobs ----------------------------------------> JobProofs
       |-- ModelJobs
       |-- ReconstructionDesk
    MCArtifacts -----------------------------------> ArtifactProofs
       |-- Publication --implements--> AtomicTarget
       |-- DatabaseFiles
       |-- OnnxWorker
       |-- ImagingSamples
             |-- SliceGrid, Slices, DiscPredictions --+
             |-- DiscCanvas, CenterOpening -----------+--> ImagingProofs, which
             |-- CycleJoins, DiscCalibration ---------+    ArtifactProofs instantiates
             |-- ModelBundle -------------------------+
             |-- ScreenAlignment
    DuplicateMerge (below Slices, DiscPredictions) --> MergeProofs, which
                                                       ImagingProofs instantiates
    Sorting (below Slices, DiscPredictions, CycleJoins, DiscCalibration)

RunService is the dispatcher with the routes and the lifespan of the application; the
path of its worker through `execute()` is a summary of RunOrchestration.
`MCRecords`, `MCJobs` and `MCArtifacts` put components that share no state into one instance
each: a behaviour is about one of them (`part`), the others stay as they start.

### RunOrchestration, RunContract

One run. Each member of `Owners` is one call of `execute()` by whatever process,
with the program counter of its main thread (`pc`) and of the worker of each
stage (`wpc`). `status`, `cancelRequested`, `lease` and `ckpt` are the columns of
`inspection_runs`, `run_controls` and `run_stage_checkpoints`; `file` is the
content of the evidence files. Actions carry the name of the method they model:
`AcquireRead`/`AcquireWrite` for `_acquire`, `MarkRunning…`, `SubmitStage`
and `Invalidate…` for `_resume_or_submit` and `_completed_evidence`, `Worker…`
for `_execute_stage`, `AwaitTick` and `LeaseLost` for one round of
`_await_futures` with its heartbeat, `Drain` for the exit of the pool, `Mark…` and
`Release…` for the way out.

A transaction is one step, unless it decides a write by what it has read; then
it is a read step and a write step. `StageEvidence` is reduced to the
reconstruction output it derives from, which is what the gate, publication and
the checksums tell apart. The environment requests cancellation, lets leases run
out, kills a process, damages a file and makes a transaction fail. Each kind of
fault has its bound in `MaxFaults`.

`RunContract` is what the rest of the application relies on: stages are accepted
in order, a run is completed only with all four, cancelled only on request, and
then stays so. `RunOrchestration` implements it through the mapping in
`Promise`, as long as calls do not overlap.

### RunService

Several runs, the threads that serve requests (`at`, `for`), the dispatcher
(`pool`, `queue`, `active`, `slots`, callbacks and futures) and its worker
(`job`, `jobAt`). A route that checks a status and acts on it is two steps;
`submit` creates the future under the lock (`Submit`) and adds the callback
outside it (`Register`). The worker's path through `execute()` is reduced to the
steps that write the run row. Stops, crashes and restarts of the process lose
everything but rows and leases.

### EventBroker, EventPolling

The ring, its gap test and its batches as the code computes them (`Newer` is the rest of
the ring behind the last event that is not newer, which is the code's filter because the
numbers in the ring ascend: `RingIsContiguous`); and a client
that polls with a limit, keeps its cursor over a restart of the process, and reads
the durable state when a gap is reported. The front end declares that poll
(`inspectionApi.events`) and no page calls it yet: `EventPolling` states what the
API offers to such a client.

### Catalog

Rows (`model`, `pipe`, `uses`) and files (`files`, `contract`) of models and of
the revisions of one pipeline. Request threads go through `create_draft`,
`validate` and `approve_and_activate`; the single worker thread of the model jobs
imports, archives and deletes. Foreign key, unique index and primary key are the
guards `RowAccepted` and `StillSingle`. Failing transactions and the death of the
process can hit every window. `ModelLifecycleService` (approve and activate of
models) is wired to no route, so those states of a model do not occur.

### ModelJobs

The job table (`table`, from identifiers to the status and the place in the order of
insertion), the executor's queue and worker, and
per submission where its request thread is (`phase`). `_submit` is two critical
sections with the registration of the done callback between them: `Submit`,
`Register`, `Reply`. The operation may end anywhere in between (`EndOperation`);
`callback` says on which thread `_complete` then runs. The operations themselves
are `Catalog`'s.

### ReconstructionDesk

One user's reconstruction across four programs: the page (`page`, `mounted`,
`shown`, `session`), its polling loops with their abort controllers (`monitors`),
the bridge that gives up on a request (`PostFails`, `PollFails`), and the service
with its job table, worker thread and the artifacts of each stage (`files`). The
answer of a poll is taken when the service gives it and used when the page gets it
(`AnswerPoll`, `TakeAnswer`), with everything in between. `Abort` is what the code's
`AbortController` does: the bridge takes no signal, so only a loop in its pause
hears it. A loop that posts is created by `Reconstruct`, and the one a mounted
page starts for a saved session by `Mount`.

### Publication, AtomicTarget

Six operations write beside a target and replace it: intake of an acquisition, the
rendering of artifacts, the preview, the completed preview, the configuration, the
reference image. They share one protocol, and the sets `CreateOnly`, `OfDirectory`,
`Copying`, `Synced` and `ReadingBack` say where they differ. Callers overlap, copies
go wrong, the process dies, alone or with the machine. `AtomicTarget` is what a
reader may rely on, and `Published` the refinement. No operation forces the directory
of its target to the disk after `os.replace`, so a power failure can take the
replacement back: `disk` is what may then be found under the name, the target as it was
at any time since the machine was started, or torn where the content was not forced to
the disk either. The abstract specification says so (`Revert`): that `save()` or
`install()` has returned does not mean that its file survives a power failure, only that
what is there is not torn. Staging files may come back in the same way; that they can
be removed while the machine runs (`unlink`, `rmtree`) is assumed.

### DatabaseFiles

Database file, write-ahead log and backup as the sets of commits they hold. What
SQLite does with its log is external and modelled from `engine.py`'s use of it. A crash
is the death of the process only: with `synchronous=NORMAL` a power failure can lose the
last commits, and `CommittedKept` says nothing of it. A restore under an open
connection leaves that connection on a file nobody opens again (`"orphaned"`).

### OnnxWorker

`_state`, `_session` and, per thread, the method it is in. The lock is held through
`start` and `infer`, whose steps (session, each warm-up run, the batch) are separate
actions that may fail; `close` waits for it like the others.

### Sorting, SliceGrid, Slices, DuplicateMerge, DiscPredictions

`Sorting` is `sorted(..., key=...)`: each place gets its rank, the number of places with a
smaller key, or an equal key further to the front; the item of rank *n* is the *n*-th. A
comprehension with a condition keeps the order of the places it selects, and
`statistics.median` takes the middle. Stated by ranks, without a sorting algorithm, the
definitions are the ones the proofs reason about.

`SliceGrid` has the windows of a frame and their batches, `Slices` what becomes of the
detections that come back: `map_and_merge_detections` up to the sorted result;
`DiscPredictions` projects boxes of several frames onto the disc and merges what shows the
same place. Both merge by the same scheme, `DuplicateMerge`: the strongest item grows over
the rest, pass after pass, until a pass adds nothing (the model makes as many passes as
there are items, of which those after the last change do nothing). Confidences are whole
numbers, thresholds fractions; frames on the disc are shifted, not rotated.

### DiscCanvas, ScreenAlignment, CenterOpening

`DiscCanvas`: origin and size of the native canvas, which frames a tile skips, its
coverage, weight and provenance, the box of a tile in the preview; for frames shifted
by half pixels. `ScreenAlignment`: the median rotation of each cyclic shift, residuals,
the choice among candidates, with and without a commissioned offset; in whole units.
`CenterOpening`: the uncovered component around the centre of the disc, its gates, and
what is filled. A covered but black pixel counts as uncovered, in the code and here.

### CycleJoins, DiscCalibration

The decisions around the numerics of a cycle. `CycleJoins`: which correspondences
count, how they are split into fitted and held-out ones (`Ordered`, `HeldOut`,
`Fitted`, `Bounded` as index arithmetic), when a join passes, when a cycle is approved
and what the report says. `DiscCalibration`: which joins vote for the rotation centre
and which of them are outliers; centres lie on a line, so that distances are whole
numbers.

### ModelBundle

What `validate_model_bundle` requires of a bundle, what the configurations of the
worker and of the slicing require of an imported one, and which batches the worker
then accepts: three files whose conditions must fit together.

## 3. Runs

| Run | Instance | Question |
|---|---|---|
| `run_recovery` | 2 calls, 2 attempts, 2 stage faults, one crash, one damaged file, one failed transaction | What holds as long as no lease lapses under a live call: types, exclusive ownership, retry budget, evidence, settled checkpoints, gated publication, and the contract |
| `run_overlap` | 2 calls, 1 attempt, one lapsed lease or one pair of racing acquisitions | What still holds when two calls work on the run at once: the gate, no cancellation without a request |
| `run_liveness` | 2 calls, 2 attempts, 2 stage faults, one failed transaction, every output passing; fair, no symmetry | Does every call leave `execute()`, and the run the state running? |
| `service` | 2 threads, 2 runs, 2 slots, 2 start requests per run, one crash, stop or failed transaction, fair | Slots, cancellation of queued runs, terminal runs, events, the queue, the stop |
| `records` | ring of 3, polls of 2, 6 events, one restart, fair poll; 2 models, 2 threads, 2 revisions, 2 crashes or failed transactions | Is a client informed, and does it reach the end of the stream? Do rows and files agree, are references kept, is one revision active? |
| `jobs` | 3 submissions to a table of 2; one reconstruction, 2 page instances, 2 polling loops, one restart; fair | Does an accepted job end, once, and stay known until then; does polling end; is what is shown complete on disk? |
| `artifacts` | 3 callers and one crash or power failure; 3 commits, 2 crashes or damaged copies; 3 threads, 2 warm-up runs, batches of 1 or 2; all inputs of `ImagingSamples` | Publication, backup and restore, the worker under its lock, and the algorithms around images |
| `run_outcome_revoked`, `run_stale_gate`, `restore_stale_log`, `screens_gate`, `catalog_demoted` | small | Statements of the documentation that the code does not keep: section 5 |

`artifacts` takes the algorithms through about 170 000 inputs. Frames of up to 11 by
6 pixels with slices of 4: shorter than a slice, a multiple of the stride, and neither.
Three detections, or three predictions, of two classes and confidences: enough for a
union to grow over one that was passed over. Three frames at half-pixel shifts, tiles
of 1 to 3 pixels. Two joins of 18 to 31 correspondences, around the minimum of 20 and
past the bounds on fitted and held-out points, so that each division is refused, complete
and cut somewhere. Eight joins that vote for a centre, half of
them arbitrary. Ten screens, unevenly spaced as in the documentation, turned by every
multiple of six degrees with errors up to nine. Previews of 5 by 5 pixels with every
subset of the pixels around the centre. Bundles with up to a few of their conditions
broken, and frames of 1 to 6 windows.

Its properties, by part: `Published`, `StagingOwned` (Publication); `CommittedKept`,
`CleanRestoreHolds` (DatabaseFiles); `RunsOnWarmSession` (OnnxWorker);
`SlicesAccounted` (Slices); `EvidenceKept` (DiscPredictions); `CanvasAccounted`
(DiscCanvas, CenterOpening); `CycleJudged` (CycleJoins, DiscCalibration);
`ScreensAligned` (ScreenAlignment); `BundleRuns` (ModelBundle). Each is stated, and
explained, in the module of its part.

**Bounds.** Two calls, two request threads and one worker are enough for each
race of the code, all of which are between two parties; a third call of
`execute()` would meet the same rows. Two attempts give one retry and one
exhausted budget. Of two reconstruction outputs one passes the gate
and one does not. Two stage faults hit both parallel stages, or one
stage twice; one crash, one damaged file and one failed transaction may each
fall anywhere, in all combinations. Two slots and two runs let the dispatcher be
full, empty and half full, and two start requests per run let a run be queued a
second time while, or after, it is executed. A ring of 3 with polls of 2
overflows before, inside and after a batch. Two revisions let an activation
replace another one; two breaks let a crash follow a failure. In `run_recovery`,
`run_overlap` and `run_stale_gate` the calls are interchangeable, and
their permutations are a symmetry; the liveness runs use none.

Three callers of one target put a third between
two that have both found it absent; three submissions are one more than the job table
keeps; two page instances let a loop outlive the page that started it. `run_overlap`
is cut to behaviours with a lapsed lease *or* racing acquisitions, the latter without a
cancellation request (`OneOverlap`): either one makes two calls overlap.

**Deadlock** is checked in the runs of RunOrchestration, RunService, EventPolling and
Catalog. A state where all calls have ended, or the bounds allow no further request,
repeats itself (`AllEnded`, `AtRest`, `Quiet`); any other state without a step would be
reported. In the runs of MCJobs and MCArtifacts behaviours end for good, when every
submission has been made or the one input has been taken: there it is off, and `jobs`
has liveness properties instead (`AcceptedEnds`, `MonitorsEnd`).

**Type invariants.** `TypeOK` is defined in every module with state. It is checked in
`run_recovery`, and proved for RunOrchestration, RunService, EventPolling, Catalog,
Publication, DatabaseFiles and OnnxWorker; the runs of the others spend their properties
on something else. The two dispatchers of MCJobs have their types in the invariants of
`JobProofs`.

**Fairness.** `Fairness` of RunOrchestration: threads are scheduled and stage
operations return (they are bounded computations), and a lease nobody renews
expires. Starting a call, a request and a fault are never forced. RunService: the
same for the worker and for requests in service; a server that is down is started
again by whoever runs the application (`LifespanStart`). EventPolling: the client
goes on polling. ModelJobs: the worker thread runs, and so does a request thread past
its submission. ReconstructionDesk: the worker runs, timers of the page go off, and a
request is answered or given up, which the bridge's timeout guarantees; that the
service is ever up, or answers, is not assumed.

## 4. Proofs

Every safety invariant and every action property of RunOrchestration, RunService,
EventPolling, Catalog, ModelJobs, ReconstructionDesk, Publication, DatabaseFiles and
OnnxWorker that a run checks is a theorem, as are the two refinements, and so is every
property of the algorithms around images but one (`ScreensAligned`). The theorems hold
for every number of calls, requests, runs, models, threads, pages, commits, faults and
crashes, for every size of queue, ring and table, and for frames, slices, tiles, batches,
detections, predictions and joins of every size and number.

**Assumptions.** Each is named and evaluated by TLC in the run of its module.
`ConstantsAssumption`, `CatalogAssumption`, `ServiceAssumption`, `JobsAssumption`,
`BrokerAssumption`, `PollingAssumption` and `ArtifactsAssumption` say that placeholders
(`None`, `NoRun`, `Nothing`, ...) are none of the values they stand beside, that bounds
are numbers, and that sizes the constructors check (slots, ring, table, batch, warm-up
runs) are at least 1. `MaxAttempts \in 1..3` is what the constructor of the orchestrator
accepts. Where a property needs that something did not happen it says so itself:
`Undisturbed` (no lease lapsed under a live call, no acquisitions raced) is a state of the
fault counters, and each theorem with it also covers the behaviours up to the first such
fault. `RunKeepsContract` has `[]Undisturbed` as its hypothesis: with overlapping calls
the refinement fails (F1, `run_overlap`).

**RunOrchestrationProofs** is built in layers, each inductive on top of those before it.

- `TypeInv`: beside `TypeOK`, the next stage exists where a stage is submitted, and a
  worker about to count an attempt has one left. From it `TypeCorrect`.
- `GateInv` adds to `GatedValidation` that evidence in the hands of a validation worker
  has passed the gate. From it `GateHolds`.
- `CancelInv` follows the exception back to its cause: a call about to record a
  cancellation has a durable request, or its first error came first. From it
  `CancelledRunsWereRequested`.
- `HoldsLiveLease`: the lease of a call inside `execute()` is its own *and* unexpired,
  since only the second half keeps the next call out. From it `OneCallAtATime`.
- `PoolInv` and `StatusInv`: what a call's program counter says of its futures and
  workers, and of the row of the run. Outside the pool a call has no worker left; the run
  it executes is *running*, since nobody else has ended it.
- `LedgerInv`: the attempts of a row against those of the worker that writes it. It is
  what makes `RetryBudget` inductive: between counting an attempt and performing it the
  row is one ahead. From it `AttemptsAreCounted`, over all calls together, crashed ones
  included, as long as they do not overlap.
- `CompletedHasEvidence` needs the layers above and no more (`CompletedRunsHaveEvidence`).
- `SettledInv`: a row says *running* only while a worker is in an attempt at it. From it
  `EndedRunsAreSettled`, without crashes and failing transactions.
- `Sequenced`: a stage has a future only if the stages it needs are done. With
  `EvidenceInv`, which chains the evidence of each row to the file it was derived from, it
  gives `PublishedHasPassed` as long as no file is damaged (with damage: F2).
- `RunKeepsContract`: `Init` maps to the contract's, and every action to `Accept` of a
  stage, to an outcome, or to a stutter.

**RunServiceProofs.** `OutcomeInv`: the worker knows the status of the run it works on
(`WorkerKnows`), a completion is told only of a completed run, and a run whose
cancellation was acknowledged before it was taken up cannot be on the path to completion
(`Barred`). From it `OutcomesAreFinal`, `CompletionsAreTrue` and `BarredRunsEnd`.
`FutureInv`: an active run is queued, with the worker, or done, one of them only; its
callback has one caller, the worker or the thread that has still to register it; and slots
and active runs add up. From it `NoSlotIsLost` and, since a bound on the slots is not
inductive by itself, `TypeCorrect`.

**EventProofs.** `RingIsContiguous`: the ring has ascending numbers without holes that end
before `nextSequence`. `EventInv` relates it to the client: the last event of a run in the
ring is the last it was told of (`LastIsTold`), a run has one there until the ring drops
its first event (`ToldIsThere`), and for a client that follows, the next poll reports a
gap, or the last type of each run is known or still to be read (`Followed`). From it
`GapsAreReported`. The greatest index in a set, which `Learned` picks, exists by
well-founded induction over a set of numbers (`LeastNumber`).

**JobProofs** is about MCJobs. `ModelInv`: whatever the dispatcher has of a request it has
of an accepted one (`OfAccepted`), and an accepted one is in the table, unfinished, until
its callback has run, on whichever thread that is (`KeptUnfinished`). From it
`UnfinishedJobsAreKept`. `ServerInv`: what waits is queued, and the artifacts of the
stages a job has left behind exist. `PageInv` carries this to the page: an answer under
way, and what is shown, says *completed* only of a job that is whole on disk; that nothing
is taken away there (`ServerKeeps`) is why an answer may be late. From it
`ShownJobsAreComplete`; from both `JobOutcomesAreKept`.

**ArtifactProofs** is about MCArtifacts; `PartsStep` takes a step to one of Publication,
DatabaseFiles or OnnxWorker, or to none. `PublicationInv`: a staging file is there from
`Stage` to `Replace` or `Raise` only, and whole once checked, until the process dies. From
it `StagingIsOwned`, and the refinement `TargetsAreAtomic` of AtomicTarget, of which
`Replace` is a `Publish` and a power failure a `Revert`. `LineageInv`: the log completes the
database file to the commits made, until a restore, and each backup is the state of some
moment. From it `CommitsAreKept`. `RestoreInv`: what is about to be restored is what the
backup holds. From it `CleanRestoresHold`. `LockInv`: one thread is inside `start` or
`infer`, and knows state and session there. From it `BatchesRunWarm`. `CountInv` adds that
the warm-up counts from nothing, and with it all three have `TypeCorrect`.

**CatalogProofs.** Two invariants over the types. `FilesInv`: only the
worker thread changes models and directories, so what it has read of its model
stays true until it is done (`JobAgrees`); from it `AvailableModelsHaveFiles`, with
crashes, and `DirectoriesMatchRows`, until the first crash. `PipelineInv`: the
lock admits one creator (`OneCreates`), of a revision that is new (`CreatesNew`),
whose file is saved before its row (`SavedFirst`), and other threads touch saved
revisions only (`ChangesSaved`); from it `ContractFilesMatch` and
`AtMostOneActive`. `PipelineModelsExist` needs both.

**MergeProofs** is about the grouping loop that `inference/sahi.py` and
`inference/projection.py` share, for any test of duplicates, any way to join them, and any
number of items. `GroupsAccount`: the loop puts every item into exactly one group, makes
each result from the first item of its group by joining the others to it one after
another, and ends a group only when nothing that is left is a duplicate of its result.

The loop is three folds, one in the other. What a fold computes is proved in two steps
that replace an induction theorem. The fold of the community modules is a recursive
function with `CHOOSE`; its definition is unrolled into a sequence of values `h[0]`,
`h[1]`, ... of which each follows from the one before. An invariant of that sequence then
holds because a least place where it fails (`LeastNumber`) would follow a place where it
holds. The same argument serves the sums, the cardinalities and the medians below.
`AlikeAreMergedAlike`: if the test of duplicates and the join respect a relation of the
items, two lists alike place by place give results alike place by place.

**ImagingProofs** is about the definitions without state, for all their arguments.

- `FramesAreCovered`, `BatchesKeepOrder`, `FramesAreSliced` (`Covered`, of `SliceGrid`
  and `Slices`): for any frame and any slice size of at least 2 (with 1 the stride is 0,
  which the code cannot take either) the windows cover each pixel, stay inside and differ;
  the batches hold them in order and once, none empty or over the size.
- `ImportedBundlesRun` (`Runs`), for any bundle, batch size and number of windows.
- `DetectionsAreAccounted` (`DetectionsAccounted`), for any frame and any detections: what
  the loop makes of groups is carried over to boxes. A union is no larger than its members
  need, since each of its edges is an edge of one of them; two detections that overlap are
  in one result, or in two of which the other is no weaker, since the sort puts the
  stronger one first (`GroupsAccount` with `StrongestFirst` as the order).
- `DetectionOrderIsIgnored` (`OrderIgnored`), for any threshold over 0 and at most 1,
  which is what the code demands (`inference/sahi.py:45`, `:199`): a list and its reverse
  have the same sort keys, place by place, since the sort leaves only detections of one
  shape as they came; the loop respects shapes (`AlikeAreMergedAlike`), so the results
  have the same boxes. They name the same slices too: a detection is a duplicate of each
  box that contains it, so that no result is missing a part a later one has.
- `EvidenceIsKept` (`EvidenceKept`), for any predictions and any provenance map: each
  visible prediction is evidence of one result, and the results do not depend on the order
  of the predictions, because their keys contain the prediction they stand for, so that
  the sort has only one outcome (`SortedIs`).
- `OnlyOpeningIsFilled` (`OnlyOpeningFilled`), for any preview, coverage, centre and
  reference. What the recursion that grows the component returns is read off its last
  step (`ComponentIs`): the recursion ends on any preview, because the pixels that are
  not in the component yet become fewer at each step but the last.
- `FramesAreWhole` (`FramesFit`), `TilesLoseNothing` (`TileExact`), `TilesMakeCanvas`
  (`TilesPartition`): the canvas reaches from the first to the last pixel of any frame, on
  each axis a frame shows as many coordinates as it has, a frame whose bounds end before a
  tile, or begin after it, has no valid pixel there, with the half-pixel rounding of both,
  and a coordinate lies in one tile of its axis.
- `CanvasIsOne` (`OneCanvas`) puts these together, for any number of frames that the
  8-bit count of the code can hold: the maps that tiles of any size write, and the sums
  of the report, are those of the canvas taken whole, and the boxes of the tiles in the
  preview are not empty, lie inside it and leave nothing out. The sum over the tiles of a
  row, then of a column, is the sum over the canvas.
- `EvidenceIsDivided` (`FairlyDivided`): the places that a limit leaves grow strictly,
  from the first to the last (`PlacesSpread`, `BoundedIs`); every `Stride`-th place is
  held out, the last one in the last stretch (`HeldOutIs`), and a fitted place lies inside
  a stretch, past its first place (`FittedPlace`, `FittedIs`). `Stride` and `MaximumFit`
  are at least 2, as `reconstruction/dense_evidence.py:83-86` demands; a limit of one
  held-out point is let through there, and refuses every join (`BoundedByOne`).
- `ApprovalIsHeldOut` (`ApprovedByHeldOut`), for any number of joins and whatever the
  solver made of them. Its hypothesis `Arranged`, that the sort rearranges the points, is
  what `OrderedIs` proves of them.
- `CyclesAreJudged` (`Judged`) is the whole: in addition, something is fitted between any
  two places held out, the channel with the most correspondences decides, and points found
  in another order make the same report. Its assumption `Limits` has one part the code
  does not check, `2 * (MaximumHeldOut - 1) < MaximumFit`: between two held-out places
  there is a fitted one only if thinning leaves more fitted places than stretches. The
  code's limits are 300 and 100 (`reconstruction/dense_evidence.py:72-73`), and the
  condition holds for them by far.
- `CentersAgree` (`Agreed`), for any attempts: if more than half of the candidates are
  within the tolerance of each other, the median lies among them, then the distances of
  more than half of them from it are small, so that the limit keeps all of them, and the
  median of what is kept lies among them again (`MedianIs`: no more than half are below,
  or above, a median).

**ArtifactProofs** takes these to the run. `Proved` is ImagingProofs with the constants of
ImagingSamples; a lemma for each definition (`Same...`) says that the instance in
MCArtifacts is the one the theorem is about, and one for each part (`...Input`) that its
samples meet the theorem's hypotheses. `InputTaken` says that an input is one of the
samples. From them `BundlesRun`, `SlicesAreAccounted`, `DiscEvidenceIsKept`,
`CanvasesAreOne` and `CyclesJudged`, which state the invariants of the run.

**Model-checked only.** Liveness (`EveryCallEnds`, `RunSettles`, `AcceptedIsExecuted`,
`StopEnds`, `CatchesUp`, `AcceptedEnds`, `MonitorsEnd`): fairness and ENABLED are beyond
this prover. `ScreensAligned`: that a plan has the right turn is a fact about the
spacing of the ten screens of the profile (for evenly spaced ones it is false), and the
run goes through all their turns. The violations of section 5 are counterexamples.

## 5. Findings

Each is a run that ends in a counterexample to a sentence of the documentation.

- **F1 `run_outcome_revoked`** — a call that has lost its lease records *failed*
  over the outcome of the call that took the run over; a cancelled or completed run
  can then be started again.
- **F2 `run_stale_gate`** — when the reconstruction evidence is lost after
  validation, a resumed run reconstructs anew and publishes on the validation of
  the old reconstruction.
- **F3 `restore_stale_log`** — a restore replaces the database file and leaves the
  write-ahead log of a crashed service beside it; the next connection replays that
  log over the restored file. After a clean stop there is no log and the restore holds
  (`CleanRestoreHolds`).
- **F4 `screens_gate`** — without a commissioned offset the residual gates are taken at
  the median rotation, and the rotation applied is that one moved by whole multiples of
  36 degrees; screens that are not exactly 36 degrees apart may then be over the
  limits of an accepted plan. The approved lower profile has an offset
  (`services/center_reference_library.py:217`) and is not concerned.
- **F5 `catalog_demoted`** — of two validations of a draft, both of which have read it
  as a draft, the later one writes *validated* over whatever the state is by then
  (`services/pipeline_lifecycle.py:117`): a revision activated in between is active no
  longer, and no other is.

Further behaviour of the code that the models contain, and that the properties are
stated around:

- Two coordinators that both read a free lease both take it, since the update does not
  look at what was read (`database/repositories.py:231`); `race` in the fault budget.
- Reading back an attempt count and writing the row are two transactions
  (`services/run_orchestration.py:460`); with a lapsed lease an attempt can be lost.
- A run whose process died keeps the status *running*, and the only route to the
  dispatcher refuses that status (`api/routes.py:402`).
- A restarted broker numbers its events from 1 again (`api/events.py:17`): a client that
  keeps its cursor gets nothing, and is told of no gap, until the numbers have passed it.
  `Informed` is about clients that have followed a process from its first event, and
  `CatchesUp` holds of such a client without its having seen anything.
- A draft whose model was read as valid can be saved after `archive` has counted the
  references (`services/model_library.py:38`) and before it writes *retired*: the model of
  a saved pipeline is then retired, though docs/architecture/MODEL_BUNDLE_IMPORT.md:90 has
  it that it cannot be. `AvailableHasFiles` and `PipelinesHaveModels` hold all the same.
- A process that dies between moving an imported bundle into place and adding its row
  leaves a directory that blocks the identifier (`services/model_import.py:73`).
- A client that polled an empty broker and comes back after the ring has overflowed is
  told of no gap, since `after_sequence` 0 never has one (`api/events.py:52`).
- A model job that has ended may be trimmed before its submission takes the lock again,
  which then raises KeyError (`key_error` in ModelJobs).
- Finished reconstruction jobs are never removed (`api/reconstruction_jobs.py:46`). The
  answer of a POST that is lost leaves a job nobody polls; the user can start a second
  one, since only a shown job blocks the button. An aborted loop outside its pause polls
  on to its end, though docs/architecture/OFFLINE_RECONSTRUCTION_WORKBENCH.md:36-37 has
  leaving the page stop it.
- A render that fails while reading back its result raises after it has published, and its
  retry is refused; two previews at a time can replace each other's file.
- A model with a static batch dimension refuses the short last batch of a frame
  (`inference/sahi.py:169`); `BundleRuns` names it as the only batch refused.
- A join with exactly the minimum of 20 correspondences is accepted as evidence and has 4
  held-out points, under the 5 its gate asks for.
- `completed` merges are not compared with unions that grow later, so two results of a
  frame may overlap; `DetectionsAccounted` claims a detection for one of no lower
  confidence.
- Covered but black pixels are taken for uncovered by the center completion, and its count
  of changed acquired pixels uses the same mask and is always 0
  (`reconstruction/preview_center.py:277`).

## 6. Not modelled

- Numerics: features, optical flow, least squares, pose graphs, rotated warps,
  interpolation and colour: floating point over real images. `registration.py`,
  `pose_graph.py` and `placement.py` consist of little else.
- Contents of contracts and manifests beyond `ModelBundle` (domain classes): immutable
  values checked at construction; they enter as guards.
- `ModelLifecycleService`: no route and no part of the runtime calls it.
- The Alembic migrations and record types, logging, HTTP error texts, layout, and the
  status context and pipeline page of the front end.
- `time`: a lease is live or not, and expires at any moment it may; a timeout may strike
  whenever a request is under way.

RunService is the application that `create_app` builds around a run dispatcher, as
the API tests configure it. The desktop composition in `app/runtime.py` still passes
`commands=None` (line 47): there the run commands answer 503, so RunService
describes that composition once a dispatcher is wired in. In the same way OnnxWorker,
Slices and DiscPredictions describe the inference path the unit tests exercise.

## 7. Plan

Done, in this order, because a run's outcome is what the application is for:
RunContract, RunOrchestration and its proofs; RunService; EventBroker and
EventPolling; Catalog and its proofs; the job dispatchers with their clients (MCJobs);
files, database, worker and algorithms (MCArtifacts); then the proofs of section 4, the
core first.

Left: `ScreensAligned` as a theorem, which takes a general condition on the spacing of
the screens that the profile meets; the liveness properties, for a prover that knows
ENABLED; and the parts of section 6, of which the numerics would need error bounds
before a model could say something of them that a unit test does not.
