# Formal model of the time-series anomaly-detection API

This directory holds TLA+ specifications of the API in `src/app`, the TLC
configurations that model-check them, and theorems about them that the TLAPS
proof system checks. Paths below are relative to the repository.

Sections: [inventory](#1-inventory-of-the-system),
[modules](#2-modules-and-how-they-correspond-to-the-code),
[runs](#3-what-the-runs-check), [proofs](#4-what-is-proved),
[divergences](#5-where-documentation-and-code-disagree),
[scope](#6-what-is-not-modelled), [plan](#7-plan), [use](#8-running-it).

## 1. Inventory of the system

A FastAPI application, one process, one event loop thread, a bounded pool of
worker threads. Every handler is a plain `def` and runs in a worker thread; the
middlewares are `async` and run on the event loop. Persistent state is a
directory tree; there is no database.

| Component | State | Operations | Interaction |
|---|---|---|---|
| `ModelRepository` (`repository/model_repository.py`) | `storage/<series>/<detector>/index.json` and per version `model.joblib`, `metadata.json` | `save`, `load`, `load_metadata`, `get_index`, `version_exists`, `list_all` | called by `ModelService`, shared by all threads, no lock of its own |
| `ModelService` (`services/model_service.py`) | none (one per request) | `train`, `predict`, `get_series_info`, `get_model_detail`, `get_version_metadata`, `get_plot_data`, `list_model_summaries`, `list_series` | takes the lock of a series in `train`, no lock to read |
| `LockManager` (`utils/concurrency.py`) | dictionary of locks, meta lock | `get_lock` | shared by all threads |
| `MetricsService` (`services/metrics_service.py`) | counters and latency windows per path, lock | `record`, `snapshot` | `record` on the event loop, `snapshot` in a worker thread |
| Middlewares (`main.py`, `api/middleware.py`) | request id in a context variable | around every request | `metrics_middleware` records metrics; each sets a header |
| Error handlers (`api/error_handlers.py`) | none | exception to status code | the handler of `Exception` is outside the middlewares |
| Worker pool (anyio and FastAPI, external) | threads in use, queue | run a dependency, a handler, a response | whatever blocks in a handler keeps its thread |
| `ValidationService` | settings | seven rules, first failure wins | before the lock, in `train` |
| Routes, schemas | none | parse, call the service | |
| Detectors (`domain/models.py`) | fitted parameters | `fit`, `predict` | flag the training points in `train` |
| Plot (`api/routes/plot.py`) | pyplot's registry of figures | render | concurrent plots share the registry |
| Configuration, logging, scripts, deployment | static | | |

What is hard, and what makes each component correct:

* **Store.** A fit is nine file-system accesses under a lock; it may stop after
  any of them, by an `OSError` or because the process dies, and nothing is ever
  cleaned up. Readers take no lock and make up to five accesses of their own.
  Correct means: an index never names a version that cannot be served; versions
  are numbered without gaps or repetitions; what a fit acknowledged stays;
  published files never change; a read of the latest version never fails, never
  mixes two fits, and is never older than what was published when it was asked.
* **Lock manager.** The lock of a series is created on first use, in several
  steps of a `defaultdict`. Correct means: one lock per series for ever, fits of
  a series exclude each other, fits of different series never wait for each
  other, and no exit from the critical section keeps the lock.
* **Listing.** A walk over directories that change meanwhile is no snapshot.
  Correct means: it does not fail, shows nothing unpublished and nothing stale,
  and misses nothing that was published when it was asked.
* **Metrics.** `record` and `snapshot` meet on different threads, and `record`
  blocks the event loop. Correct means: no request is lost or counted twice, a
  snapshot is one moment of the history, and the event loop never waits for
  something that needs the event loop.

* **Worker pool.** A fit that waits for the lock of its series keeps a thread that
  others need, and every request comes back to the queue up to three times.
  Correct means: a full pool can always go on, everybody is answered, and reads
  suffer only when as many fits hang as there are threads.
* **Training data.** Each rule relies on the ones before it, and what is saved of
  the data relies on all of them, while no setting is validated. Correct means:
  the answer is the first rule broken, in the order of the checks, the report is that of an ordered series,
  and a detector calls few of its training points anomalous.
* **Plots.** pyplot keeps its figures in a global registry without a lock, and a
  figure is closed only on success. Correct means: only failing plots leave
  figures behind, and an image shows its own series.

The complete list of hazards, with the line where each bites and the property
that covers it, is the `hazards` list of `PROJECT.json`.

## 2. Modules and how they correspond to the code

| Module | Models |
|---|---|
| `ModelStore` | `train` and `save` access by access, and the read handlers, over one mutex per series |
| `ModelRegistry` | what the store promises: lineages of trainings that only grow |
| `StoreRefinement` | the mapping by which `ModelStore` implements `ModelRegistry` |
| `LockManager` | `get_lock` with the steps of the `defaultdict`, and the `with` block of `train` |
| `KeyedMutex` | a mutex per series: what `LockManager` implements and `ModelStore` is written over |
| `ModelListing` | `GET /models` and the model count of `GET /healthcheck` beside the fits of `ModelStore` |
| `RequestMetrics` | `metrics_middleware`, `MetricsService`, the latency report of `GET /healthcheck` |
| `WorkerPool` | the requests of `ModelStore` on a bounded pool of threads |
| `TrainingData` | the checks of `POST /fit` in their order, and what is derived from the data |
| `PlotFigures` | the drawing half of `GET /plot` over pyplot's registry |
| `ModelStoreProofs`, `StoreRefinementProofs`, `LockManagerProofs`, `ModelListingProofs`, `RequestMetricsProofs`, `TrainingDataProofs`, `WorkerPoolProofs`, `PlotFiguresProofs` | the theorems |
| `MCModelStore`, `MCStoreRefinement`, `MCModelListing`, `MCRequestMetrics`, `MCWorkerPool`, `MCTrainingData`, `MCPlotFigures` | small instances for TLC |

Composition: `ModelListing`, `StoreRefinement` and `WorkerPool` extend
`ModelStore`, and every behaviour of `WorkerPool` is one of `ModelStore` (a
theorem). `TrainingData` refines what `ModelStore` abstracts to the input
`data \in {"valid", "invalid"}` of a fit, and `PlotFigures` starts where the read
of a plot in `ModelStore` answers 200. Further,
`LockManager` instantiates `KeyedMutex` and `StoreRefinement` instantiates
`ModelRegistry`. The variable `lock` of `ModelStore` is the `owner` of
`KeyedMutex`; that the code's lock manager provides it is a theorem.

**ModelStore.** `dirs`, `model`, `meta`, `tmp`, `index` are the storage tree:
which version directories exist and what the four kinds of file hold. A file
that was opened for writing and not yet written holds `Torn`. The content of a
whole model or metadata file is the identity of the fit that wrote it, which is
all the properties need: whose training, not which numbers. `pc` is where the
handler of a request is; each action is one access to the file system or the
lock. `floor` and `prov` are history: the latest version when the request was
submitted, and the fits whose files went into its answer.

| Actions | Code |
|---|---|
| `Accept`, `Reject` | detector and data checks that precede the lock |
| `Acquire`, `NextVersion`, `Release`, `RefuseSeries` | `ModelService.train`, `_next_version` |
| `Mkdir`, `OpenModel`, `DumpModel`, `OpenMeta`, `WriteMeta`, `ReadIndex`, `OpenTmp`, `WriteTmp`, `Replace` | `ModelRepository.save`, `_write_index_atomically` |
| `WriteFault` | an exception inside the `with` block (an `OSError` of any access of the fit, the two reads of the index included; at `mkdir` it also stands for a `fit()` that raises): the lock is released, the files stay, the answer is 500 |
| `Resolve`, `CheckDir`, `CheckFiles`, `LoadModel`, `LoadMeta`, `LoadMetaAgain` | `_resolve_version`, `version_exists`, `load`, `load_metadata`, and the second metadata read of `get_model_detail` |
| `Restart` | the process dies and is started again (`restart: unless-stopped` in `docker-compose.yml`) |

A restart loses threads and locks and keeps files as they were written. Loss of
power, where written data may not have reached the disk, is not modelled (the
code calls no `fsync`). A version that a client asks for is the number of a label
here, while `version_exists` takes any string. The 200 of a plot is that of its
data; drawing them is `PlotFigures`.

**LockManager.** `locks` is the dictionary, `metaHolder` the meta lock, `made`
the lock objects created. Lookup, creation and insertion are steps of their own,
as in `defaultdict.__missing__`, so that what the meta lock is for shows.

**ModelListing.** `WalkRoot`, `WalkSeries`, `WalkSpace` are the three loops of
`list_all`, one directory listing or index read each; what a walk has still to
visit is a set, taken in the order of `sorted()` (`IsFirst`). `Summarise` is one
turn of the loop of `list_model_summaries`. A directory that a fit has begun to create
may be listed before its version directory exists. `LoseMetadata` removes a
`metadata.json` from outside, the case for which the code has a strict and a
tolerant mode; it is external to the code.

**RequestMetrics.** `loop` is the request whose middleware the event loop is
running: after `call_next` a middleware does not await, so it keeps the loop
until it returns, also while it waits for the metrics lock. `Answer` is that
return of `metrics_middleware`; `request_id_middleware`, which runs after it in a
step of its own, and the headers of both share no state and are left out. Each
statement of `record` and each turn of the loop of `snapshot` is an action.
`Percentile95` is `numpy.percentile(., 95)` exactly, in twentieths. `log` is
history, one entry per `record` in the order of the lock; what the counters
should be is defined as a function of it (`Expected`), by counting and summing
its entries and not by following the code.

**WorkerPool.** `visit` is what a request needs a thread for (its dependency, its
handler, its response), `queue` the order in which the limiter serves them.
`Busy` is the set of running handlers: there is no variable for the threads. A
handler step is a step of `ModelStore`, unchanged; `Begin` needs a free thread,
and the step that ends a handler with 200 queues again, because FastAPI validates
or streams the response on a thread. A streamed plot takes a thread for each chunk,
one after another, which are one visit here. Exceptions are answered by the event loop.

**TrainingData.** A request passes the checks of `Checks` one at a time; `Refuses`
says when each fails and `Refusal` how it is answered. The order is the code's;
two documents give other ones (section 5). Values and timestamps are
integers, so that mean, variance, median and percentile are compared exactly,
after multiplying out their denominators; only where the code's floats would be
equal does rounding decide, and there the model allows either outcome (`tie`).
The order that numpy sorts a series into is given by its places
(`OrderStatistic`). The scores of an isolation forest are arbitrary numbers, one per
value. `Broken`
restates every rule without following the code: the variance by pairwise
distances, the median by counting, the flat tail by its length, order over all
pairs.

**PlotFigures.** `figs` is pyplot's registry. `plt.subplots` is up to four steps:
choose the number after the largest, look it up, and on a hit write what was found
back into the registry (`Activate`: `get_fig_manager` calls `set_active`), on a miss
make a figure and register it. The write comes after the lookup, so that a figure
can return that was closed in between. `plt.close(fig)` is two steps (search the
number of the figure, remove the entry of that number); nothing locks them. A
figure is named after the plot that made it. `Drawing` is what a plot draws, in
order, so that an image may show a part of somebody else's. A plot may fail
because of its data or because another plot is at work; nothing in the route
closes its figure then. The behaviour of pyplot is taken from version 3.9.0, which
`pyproject.toml` pins.

**The sections "Bugs this code could have"** hold variants of single definitions:
a dropped lock, a swallowed error, a label from the wrong place. They are part
of no specification. `PROJECT.json` pairs each with the property that must fail
when it stands in for the definition it names, which shows that the property
depends on that line of the code.

## 3. What the runs check

| Run | Instance | Shows |
|---|---|---|
| `store` | 3 requests: fits of `s/gaussian`, `s/isolation_forest` or `t/gaussian`; predictions, details, version metadata and plots of the latest, first and second version; refused ones (unsupported detector, invalid data, unsafe series); 3 versions, 1 restart, 1 failing access | of fits `PublishedComplete`, `Contiguous`, `FitDurable`, `LockDiscipline`, `AppendOnly`, `PublishedImmutable`, that `StoreInv` is invariant; of reads `LatestServed`, `PinnedServed`, that `ReadsInv` is invariant; and the refinement of the registry (`ImplementsRegistry`, `RegistryInv`) |
| `lock_manager` | 3 threads, 2 series, 3 lock objects, calls without bound | `MutualExclusion`, `NoCrossBlocking`, `StableLock`, `ImplementsMutex`, `SeriesProgress` |
| `listing` | 2 fits and 1 listing (5 kinds), 1 restart, 1 failing access, 1 lost file | `ListingTrue`, `ListingComplete`, `ListingFailsOnLossOnly`, `ModelCountBetween` |
| `metrics` | 3 requests to three paths, 3 outcomes, 2 durations, window of 1 | `CountersTrue`, `CountedOnce`, `SnapshotIsOneMoment`, `LoopNeverWaitsForItself`, `MetricsTypeOK`, and that `MetricsInv` is invariant |
| `worker_pool` | 3 requests (fits of one series, valid or not, and predictions), 2 threads, 1 restart, 1 failing access | `ReadsOutlastFits`, `EveryArrivalEnds`, `PoolAlive`, and that `PoolInv` is invariant |
| `training_data` | all series of up to 3 points in any order with missing values; all increasing series of up to 4 points under 108 settings; malformed bodies; series of 9 to 22 points for the flags | `FailFast`, `EdgeSettings`, `QualityTrue`, `FewFlagged` |
| `plot_figures` | 3 plots: flagged points, plain points that cannot be drawn, scores | `FiguresAccounted`, `ImageIsOwn`, and that `PlotInv` is invariant |
| `claim_*` | small | one counterexample each, see section 5 |

Why the bounds are enough. Three fits are the least with which two can meet on a
lock while a third is elsewhere, and with which a label can be reused after a
failure and published after that. A read makes at most five accesses, and two
fits around it are the least that can move "latest" under it. One restart and one
failing access reach every intermediate state of the disk; a second of either
would start from a disk that has the same form, since remains of a failed save
are always those of the one unpublished version. Three threads and two series
are the least for a race on the first lock beside a bystander. The lock run has
no bound on the number of calls. A latency window of one evicts at the second
request. Two threads and three requests are the least with which the pool is
full, one of its threads waits for the other, and somebody queues behind both.
The rules look at two neighbours, at a window of at most two, or at the middle of
at most three intervals, so that series of four points meet each of their cases;
a gaussian flag takes more than ten points and a second one twenty, which is why
the series for the flags go to 22. Two plots race for a figure, and a third is
the least that can find what a failed one has left. All safety properties of the
store, its listing, the lock manager, the metrics, the pool and the plots are
also proved without any of these bounds.

Symmetry: requests are interchangeable, and `Permutations(Requests)` is used in
runs that check only safety.

Fairness. `LockManager!FairSpec` assumes weak fairness of the steps of each
thread: the operating system schedules runnable threads. No strong fairness is
assumed of taking a lock, because `threading.Lock` promises no order among
waiters. A single fit can therefore be overtaken for ever in `LockManager`, whose
threads call without end, and `SeriesProgress` only says that somebody gets in.

`WorkerPool!PoolFairness` assumes that the limiter serves the head of its queue
when a thread is free, and that the threads of *reads* run. Of fits it assumes
nothing: a detector may compute, and a disk may hang, for as long as they like.
Under that alone `ReadsOutlastFits` holds: reads are answered as long as fewer
fits have been sent than there are threads. `EveryArrivalEnds` states the
fairness of the fits' threads as its own hypothesis; since requests are finitely
many, each of them ends, although nothing orders the waiters of a lock.

`RequestMetrics`, `TrainingData` and `PlotFigures` have finitely many requests and
no way to undo a step; the absence of deadlock, which TLC checks in every run
here, is their liveness.

## 4. What is proved

All proofs are for any values of the constants: any number of requests, series,
detectors, versions, restarts and failures. The assumptions are the named
`ASSUME`s of the modules: the marks for "no file", "torn" and "nobody" are not
requests, versions are positive, a menu holds well-formed descriptors.

* **`ModelStoreProofs`** proves `StoreInv` inductive (`StoreInvariant`) and reads
  off it `TypeCorrect`, `LockIsDisciplined`, `IndexIsComplete`,
  `VersionsContiguous`, `FitsAreDurable`, and the step properties
  `IndexAppendOnly` and `PublishedIsImmutable`. None of the properties is
  inductive alone. That the index is complete at the commit point needs the
  progress of the save (`SaveOf`: what the files behind a save hold). That needs
  that no other save of the namespace is under way, hence `LockDiscipline`. That
  a save never touches a published version needs that its version is the
  successor of the latest, hence `Contiguous`. That an acknowledged fit keeps its
  files needs `Authors`: whoever wrote a file has that namespace and version as
  its own. Even `TypeOK`, which says that `index.json` is never half written,
  needs the lock, because all saves share one `index.json.tmp`. Its second part
  proves `ReadsInv` inductive relative to `StoreInv` (`ReadsInvariant`), and from it `LatestIsServed` and `PinnedIsServed`. The argument: what a read has
  resolved is published, published versions are complete and immutable, so what
  it finds at each later access is what it would have found at once.
* **`StoreRefinementProofs`** proves that the store implements `ModelRegistry`
  (`StoreImplementsRegistry`) and that answers stay true and no training is
  published twice (`RegistryHolds`). The replacement of `index.json` maps to the
  commit, and may, because the label of a save is the successor of the latest
  version and nobody else is in the namespace (`ReplaceCommits`). The step that
  answers 200 maps to serving, because the invariants hold of the state it leads
  to (`AnswersAreRight`). Submission maps to asking; every other step stutters.
  One more assumption: the mark `NotBegun` is not a wish.
* **`LockManagerProofs`** proves `LockInv` inductive, `ManagerExcludes`,
  `ManagerSeparates`, `ManagerIsStable`, and that the lock manager implements
  `KeyedMutex` (`ManagerImplementsMutex`): acquiring maps to entering, leaving to
  leaving, the steps of `get_lock` after the call to stuttering.
* **`ModelListingProofs`** proves `ListInv` inductive (`ListInvariant`) and from it
  `ListingFailsAfterLoss`, `ListingIsTrue`, `ListingIsComplete` and
  `ModelCountIsBetween`. The store's invariant does not survive the loss of a
  file: it says that published versions have their metadata. It is therefore
  stated of `whole`, the metadata files with what was removed put back
  (`Store == INSTANCE ModelStoreProofs WITH meta <- whole`). Every step of a fit, a
  failure or a restart is a step of that store, and a loss is none, so the lemmas
  about the store apply unchanged; `Intact` says that what is on disk differs from
  `whole` by removed files only. Of a listing, `ListOf` says that the walk is split
  at every moment into what it has found, the rest of the current series and the
  series still to come, that a namespace that had a model when the listing was
  asked for is in one of the three, and that what was found is published and no
  older than that. No order of the walk is needed.
* **`RequestMetricsProofs`** proves `RequestInv` inductive, hence `LoopIsSafe` and
  `AnswersAreCounted`, and then `MetricsInv`, hence `MetricsTypes`,
  `CountersAreTrue` and `SnapshotsAreMoments`. `CountersTrue` alone is silent
  while a record is half made; `RecordInv` says which of its four effects it has had
  by then. `SnapInv` says that what a snapshot has seen so far are entries of the
  history as long as it was when the snapshot took the lock. The totals are sums
  over the records of a path: that adding a record adds its duration is shown by
  well-founded induction over the subsets of a finite set, and the window by
  numbering the records of a path. `PercentileIsTrue` proves of `Percentile95`, for
  a window of any length, that at most a twentieth of the durations, rounded up,
  lies above it and at most nineteen twentieths below; that a window can be sorted
  at all is part of it.
* **`TrainingDataProofs`** is about series of any length, any settings and any
  scores. `DataInvariant` says that a request has passed the checks before the one
  it is at, and that its answer is that of the first that refused it.
  `FirstRuleDecides` (`FailFast`) then needs that each check, where the earlier ones
  have passed, refuses exactly what the rule is there to refuse (`RuleIs`). That is
  where the statistics come in: the variance is the squared distance of all pairs
  (`DistancesAddUp`, adding the pairs one by one), numpy's median is the middle of
  the least and greatest value with no more than half of the series on either side
  (`MediansAre`), comparing neighbours finds every disorder only because equal
  timestamps were refused before (`DisorderIs`), and `values[-w:]` is the tail of
  `w` values, or all of them for `w = 0` (`TrailingIs`). `EdgesAreAsStated` is
  `EdgeSettings`, by the same lemmas and that a series without two values has no
  spread. `QualityIsTrue` needs that accepted timestamps increase. `FewAreFlagged`
  is Cantelli's inequality for three deviations, from the sum of the squares of
  `m * d + V` over the deviations `d`, and for the forest the place of an
  interpolated percentile. Sums over a series are sums over a finite set of its
  places; that they can be taken in any order is shown by well-founded induction
  over the subsets. That a series has a value at each place of its ascending
  order (`OrderStatisticIs`) is part of it.
* **`WorkerPoolProofs`** proves that `WorkerPool` implements `ModelStore`
  (`PoolImplementsStore`: the steps of a handler are its steps, the queue
  stutters), which brings `LockDiscipline` to the pool, and from it that a full
  pool can go on (`PoolStaysAlive`): if every thread waited for a lock, the
  holder of one would be among them, and a holder does not wait. `PoolInvariant`
  is inductive because a request leaves the queue exactly when it gets a thread.
* **`PlotFiguresProofs`** proves `PlotInv` inductive, and from it
  `FiguresAreAccounted` and `ImagesAreOwn`. The registry survives its races
  because all plots that have one figure have one number (`Handed`), so that the
  entry a plot removes is that of its own figure, or not needed any more, and
  because whoever puts a figure into the registry, its maker or a plot that had
  found it, has yet to close it or has failed (`Registered`). An image is mixed only
  by a race because between the choice of a number and its lookup everything at
  that number is new: what is found there was put there meanwhile (`Handed`).

Every safety property that a passing run checks is a theorem. Only model-checked
is liveness (`ReadsOutlastFits`, `EveryArrivalEnds`, `SeriesProgress`), which is out
of the prover's reach. TLC also compares `Percentile95` with its definition for all
windows of up to five values below four (an assumption of `MCRequestMetrics`).

## 5. Where documentation and code disagree

Each is a run in which TLC violates the documented statement.

* `claim_missing_404`: ARCHITECTURE.md:351 says a missing `metadata.json` is
  mapped to 404; nothing handles `FileNotFoundError`, so `/predict` answers 500.
  It takes no corruption: `version_exists` looks at the directory, which a fit
  creates first. Only a version that is not published yet is affected
  (`PinnedServed` is about the published ones).
* `claim_written_once`: ARCHITECTURE.md:308 says `metadata.json` is written once
  per version. The next fit reuses the label of an interrupted one and overwrites
  its files. Published versions are immutable (`PublishedImmutable`).
* `claim_series_parallel`: ARCHITECTURE.md:44 says that training of different
  series is fully parallel. A fit waits for its lock on a worker thread, so that
  fits of one series can fill the pool (40 threads unless configured) and hold up
  a fit of another series whose lock is free. `NoCrossBlocking` is about the
  locks, where the statement does hold.

* `claim_documented_order`: docs/ai/skills.md:249 gives the order in which the rules
  are enforced, non-finite values last. The code looks for them right after the
  number of points, so that a missing value beside a repeated timestamp is
  answered `INVALID_VALUES`. The repository's README.md:31 lists the rules in yet
  another order, without saying that it is one. `FailFast` is about the order of the code.
* `claim_series_counted`: healthcheck.py:63 says the count of trained series is
  returned. `series_trained` is the number of (series, detector) pairs with an
  index, so that a series trained with both detectors counts twice. What does hold
  of the number is `ModelCountBetween`.

Noted without a run: ARCHITECTURE.md:399 says `X-Response-Time-Ms` is set on every
request, while an unexpected exception passes both middlewares and is answered by
Starlette's outermost handler, with neither that header nor `X-Request-ID`; two
concurrent plots can be handed one figure and show each other's points, which no
document excludes (`ImageIsOwn` says when); a `timestamp` that is no date passes
validation, is trained, and makes every plot of it answer 500 and leak a figure;
`scripts/compare_detectors.py` says it puts anomalies at regular positions
throughout the test set and leaves its last third without any; healthcheck.py:65 says the latency metrics are computed from
all requests, while the p95 covers the last `MAX_LATENCY_SAMPLES` per path
(ARCHITECTURE.md:90 says so), and is an average of per-path percentiles weighted
by all-time counts.

## 6. What is not modelled

* Floating point: rounding beyond a tie, overflow (finite values whose squares
  overflow give an infinite deviation that passes every rule), and the forest of
  scikit-learn, whose scores are arbitrary here. `mean`, `std`, `min_value` and
  `max_value` of the quality report restate numpy.
* A negative `flat_line_window` (`values[-w:]` then drops the first values), and
  other settings that are not numbers of their range.
* Pixels, titles, colours and axis formats of a plot; a restart during a plot
  (the registry is in memory and is gone with its plots).
* Parsing and validation of request bodies, except the length check: generated by
  pydantic. Version strings that are no label.
* Failing accesses of reads (an `OSError` there answers 500 and changes nothing),
  response headers and request identifiers.
* Files changed from outside, except for the lost `metadata.json` of
  `ModelListing`; loss of power; several processes over one storage directory
  (the locks are per process, and ARCHITECTURE.md says one process).
* That the dictionaries of locks and of metrics grow with every identifier and
  path ever requested: a bound over all inputs, which no finite instance shows.
* Scripts (offline experiments on random series), logging, packaging.

## 7. Plan

Done: every component of `src/app` that keeps state or decides an answer, with
theorems for all its safety properties.

What could follow, most useful first:

1. Theorems that join the modules: that `TrainingData` decides what `ModelStore`
   takes as the input `data` of a fit, and the registry's promise for the requests
   of `WorkerPool`.
2. The rolling threshold of `scripts/drift_analysis.py` against a definition by
   windows.

## 8. Running it

In this directory: `tlc -workers 2 -config Store.cfg MCStoreRefinement` and so
on, the module and configuration of each run being listed in `PROJECT.json`; the
longest (`Store.cfg`, `WorkerPool.cfg`) take about two minutes each.
`tlapm ModelStoreProofs.tla` checks the proofs of a module.
