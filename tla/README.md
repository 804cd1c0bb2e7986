# Verification of kubetest-alt

kubetest-alt runs tests on Kubernetes. A `Test` and its templates are resolved into a
`TestRun`, which is reconciled into Jobs; a Job's pod runs a tool under an entry wrapper, and
the operator turns what the wrapper left behind into a verdict, a row of run history and
webhook deliveries. This directory holds TLA+ models of that machinery, TLC configurations
that check them on small instances, and proofs checked by TLAPS. Paths below are relative to
the repository root, which the manifest (`PROJECT.json`) calls `src/`.

## 1. Inventory

| Component | State it keeps | Operations | What is hard | What makes it correct |
|---|---|---|---|---|
| TestRun reconciler, `internal/controller/testrun_controller.go`, `phases.go`, `stages.go` | the TestRun's status; in memory `persistedRuns`, `dispatchedRuns` | finalizer, setup, create / observe Job, verdict, persist, announce, clean up, expire, abort | three informer caches that lag independently; optimistic locking; crash between any two writes; calls whose answer is lost | a verdict is earned, final and recorded, and announced once at most; a Job is never left behind |
| Composite runs, `composite.go` | `status.steps` of the parent; children are TestRuns | walk the plan, create children, retry, time out, abort, aggregate | the walk restarts from a cached parent and listed children after every crash | steps in order, one try at a time, step verdicts final, no child left running |
| Composer, `internal/composer/aggregate.go` | none | Aggregate, ParentPhase, ChildNeedsRetry, ShouldRunNext, ResolveGraph | several functions that must agree about negative, optional, error and abort | each against its definition, over all small inputs |
| Admission, `concurrency.go`; `latest_run.go` | none; `Test.status.latestRun` | Allow / Forbid / Replace among runs of a Test, `notBefore` | decides from a lagging cache | Forbid: one run at a time, and no run waits for ever; Replace stops the older runs |
| Definitions: resolver, expressions, compiler, pod policy, validation webhook, Test controller | the Test's Ready condition; `resolvedSpec` | merge, evaluate, validate, compile | templates, Test and run are edited between admission, setup and compilation | the policy holds for every pod; Ready is true |
| Parallel workers, `parallel.go`; services, `services.go` | per-worker step results; worker Jobs, service pods | create, observe, fold, tear down | verdict in memory before the write | each worker counted once; a missing Job is really missing |
| Entry wrapper, `pkg/executor`, `internal/scraper` | result.json, termination message, artifacts | fetch content, run tool, judge, scrape, upload | killed at any point; reports of earlier tries | a pass was earned; the pod ends |
| Log streaming, `internal/logstream`, `apiserver/chunk_reader.go` | ring, subscribers, chunk sequence, cursor object | publish, flush, resume, finalize, read | operator restart between chunk and cursor; slow subscribers | nobody gets lines missing or out of order; a stop loses nothing |
| Outbound webhooks, `internal/webhookdelivery` | bounded queue | enqueue, deliver with retries | drop-oldest while workers drain | a new event is never the one dropped; each job has an outcome |
| Scheduler, `internal/scheduler` | none (deterministic run names) | tick | replicas, missed fires, schedule edits | one run per instant, none missed, none backfired |
| Triggers, `testtrigger_*.go` | informers by reference count; gates in memory | register, deliver, gate, evaluate, fire | failing starts and fires, restarts, moving triggers | informers follow triggers; a gate fires or expires |
| Run history, `internal/store`; retention, `internal/retention`; `apiserver/handlers_runs.go`, `handlers_delete_run.go` | rows, test cases, monthly partitions, objects | save, delete, comment, list by page, drop months | all of them at once, with crashes between statements | pages cover everything once; no object is stranded; young rows and comments stay |
| API server's abort, `handlers_abort.go` | none | patch `spec.abort` | interleaves with the operator | an abort stops the run |
| Metrics, storage clients, control center, UI, CLI, generated code | - | counters, I/O, presentation | - | not modelled (section 6) |

The components interact through the Kubernetes API (objects and watches), the store and
object storage. The reconciler calls the composer, compiler and store directly; webhooks and
log tailers are handed over and run on their own; scheduler and triggers create TestRuns.

## 2. Modules

| Module | Models | Run through |
|---|---|---|
| `TestRunLifecycle` | the reconcile of one leaf TestRun against API server, Job controller, store, abort and delete handlers | `MCTestRunLifecycle` |
| `RunContract` | what the operator promises about one run: the abstract specification `TestRunLifecycle` implements | |
| `Composite` | the reconcile of one composite TestRun; uses `Composer` for its decisions | `MCComposite` |
| `Composer` | the pure functions of composition | `MCComposer`, `MCDecisions` |
| `Admission` | several runs of one Test until they are set up; `latestRun` | `MCAdmission` |
| `Resolver`, `Compiler` | pure functions: from Test, templates and configuration to a resolved spec, and on to pods | `MCDecisions` |
| `Definitions` | users editing Test, templates and run; validation; Test controller; setup and Job creation (on `Compiler`, which is on `Resolver`) | `MCDecisions` |
| `Workers` | the reconcile of a `spec.parallel` run with its services | `MCPods` |
| `Wrapper` | one pod: fetcher, wrapper, verdict, scrape, result | `MCWrapper`, `MCPods` |
| `LogStream` | tailer, registry, subscriber, stored chunks, reader | `MCLogStream` |
| `WebhookDelivery` | `dispatchWebhooks`, the queue and its workers | `MCWebhookDelivery`, `MCEvents` |
| `Scheduler`, `Triggers` | the operator's own sources of TestRuns | `MCEvents` (both) |
| `History` | store, retention, delete handler, comments, paging | `MCHistory` |
| `TestRunLifecycleProofs`, `CompositeProofs`, `AdmissionProofs`, `WorkersProofs`, `LogStreamProofs`, `HistoryProofs`, `EventProofs` (of `Scheduler`, `Triggers` and `WebhookDelivery`), `PodProofs` (of `Wrapper`, `Definitions` and the pure decisions) | the theorems of section 4 | |

### Time, caches and failures

In `TestRunLifecycle`, `Composite` and `Admission` an object the operator reads from an
informer cache is the **sequence of its versions since the cached one**: a cached read is the
head, the live object the last entry, a watch event drops the head. The watches are
independent, so Job and pod may be seen in either order. A write names the version it was
computed from and is accepted only if that is still the last one; otherwise, or if the call
fails, or if it succeeds and its answer is lost, the reconcile is tried again. `Workers`,
`Definitions`, `Triggers` and `History` keep the live object and the cached copy, which a
watch event replaces; `Workers` compares a revision at the write.

A reconcile is cut at its writes: reads up to and including the first write are one step,
every later write is another. Between any two the operator may crash: memory is lost and the
caches are filled by a fresh list. One reconcile runs at a time, as `MaxConcurrentReconciles`
is left at 1. How often the environment interferes (crashes, failing calls, users, outsiders)
is bounded by a record of budgets, a constant of each module, spent in the guard of the action.

### TestRunLifecycle and the code

| Code | Actions |
|---|---|
| `reconcile` up to the terminal check | `ForgetGone`, `Finalize`, `RemoveFinalizer`, `AddFinalizer`, `ReconcileTerminal`, `ExpireFinished` |
| `reconcileAbort` | `ReconcileAbort` |
| `setup`, `waitForPriors`, `waitForNotBefore` | `SetupFails`, `SetupWaits`, `SetupQueues` |
| `observeOrCreateJob`, `existsLive`, `createJob` | `OrphanJobMissing`, `CreateJobFails`, `CreateJob`, `WriteJobName` |
| `inspectJob` | `InspectInfra`, `InspectConcluded`, `WriteStages`, `ObserveRunning` |
| `terminalAndDeleteJob`, `persistFinished`, `dispatchWebhooks` | first write in the callers (`TerminalAndDeleteJob`), then `Persist`, `DispatchWebhooks`, `DeleteJob` |
| `abortRun`, `deleteRun` | `UserAbort`, `PurgeObjects`, `PurgeRun`, `PurgeRow` |
| entry wrapper, Job controller, kubelet, garbage collector | `ToolEnds`, `WrapperDies`, `PodCreated` ... `CollectPod` |

Abstractions: a phase, a reason and one value for the derived stages stand for the status;
`spec` says that `resolvedSpec` is set; `ToolEnds` tells passed from failed only (the
wrapper may also report error or aborted, which take the same path); whether a TTL or a
`notBefore` has passed is left open; `said` and `sent` are history variables. The store,
`APIReader`, log registry and webhook dispatcher are assumed to be wired, as `cmd/operator`
does. The run is nobody's child (expiry leaves children to their parent). A second TestRun of
the same name is in `WebhookDelivery`, admission in `Admission`; `SetupWaits` takes no
position on when it is granted. Services of a run that is not parallel are not in any module.

### Composite and Composer

`Promote`, `List`, `SkipStep`, `TakeRecorded`, `EnterStep`, `CreateChild`, `Gather`,
`WriteProgress`, `StopChild`, `TimeOut` and `Finish` are `reconcileComposite` cut at its
API calls; `ReconcileAbort` is `reconcileAbort` for a composite run. A child is a phase per
try (`kids`): it is decided once, which `TestRunLifecycle` shows of every run, and being
asked to stop (`asked`) does not say that it stops. `late` and `settled` stand for the
clock compared with a step's `timeout` and `delay`. Children are listed live, as
`listChildRuns` does. Per-child entries of `status.steps` are abstracted to `Written`: an
update that changes nothing the model keeps may still make a new version.

The composer's functions are operators; `Walk` is a recursive function over the remaining
depth, of functions from Tests and from the sets being visited. `MCComposer` enumerates
inputs, one state per input. `GraphSound` compares the verdict about a graph with what it
means: a composition never ends when some Tests each include one of them and the root is
among them, and nests too deep when there is a path of more than `MaxDepth` inclusions.

### Admission

`Create`, `UserAbort` and `NotBeforePasses` are the world; `Reconcile` is `waitForNotBefore`,
`waitForPriors` (`DecideConcurrency`, `forbidBlocks`, `SelectPriorsToAbort`), one abort patch
per prior, the setup write, `recordLatestRun` at setup and at the end. Everything a run does
after its setup is the step that ends it. `latest` and `known` are `Test.status.latestRun`
and the cached copy the next patch is computed from.

### Resolver, Compiler, Definitions

A spec maps fields to values; the fields the code merges alike are one class (first template
wins, merged by key, appended, replaced by the Test's). Texts are token sequences, so that an
expression, an escaped one and a value that spells one can be told apart. `f ++ g` is `f`,
and `g` where `f` says nothing; the combinations of a matrix are a recursive function over the
sorted keys. Where the code returns at the first error the operator is a chain of IFs. `Compiler` has the
pod policy, the merge of the run's pod override, labels, volumes and mount paths, test data,
`ParallelWorkers` with matrices and shards, and the service replicas. `Definitions` puts
state around them: `ApplyTest` goes through the validating webhook (templates have none, and
`cmd/operator/main.go:420` can switch the webhooks off: `PodsAsPromised` is about an operator
with them on), `ReconcileTest` computes readiness from what the caches show, writes it unless
the cached Test already has it, and is queued by the watches of Tests (a new generation only)
and of the templates they use (`SeeTemplate`, whose List of the Tests may fail), `SetupRun` resolves and checks, `StartServices` and
`CreateJobOf` compile from the stored spec and the override of the time, which users may edit
in between; what cannot be compiled ends the run, or that worker of a parallel one. `missed`
is a history variable: the last pass wrote nothing although the live condition is another, or
an event came to nothing.

### Workers

A pass reads caches, creates what is missing, writes the status once and then deletes the
Jobs of the workers that finished in it; these are three steps. `PassWorkers` is the loop of
`reconcileParallel` with `reconcileWorker`, `createWorker`, `workerResult`, `finishWorker`
and `aggregateWorkers`; `StartService` and `ServiceNotReady` are `ensureServices`, `PassAbort`
with `stopWorkers` the abort. A Job is its state and what its wrapper left. `Refusals` are the
workers whose Job the compiler or the API server refuses, which `createWorker` ends without
one. `Orphaned` is the branch of a Job gone from the cache: the live read finds it, finds
nothing (step `orphan`) or fails (`unread`); the code writes `OrphanJobMissing` for both, and
the model keeps them apart for the properties. A worker's test counts come with every verdict
but error.

### Wrapper

`Clone` ... `CheckEmptyMounts` are the fetcher, `LoadRequest` ... `UploadResult` are
`Entry.Execute` in its order: tries (`ToolExits`, `ToolDoesNotStart`, `ToolIsKilled`, `Again`,
`LastTry`), `Classify`, the scrape with a context of its own after a signal, the termination
message, result.json, the upload. A try may leave, remove or write each report; what a
report says and which try wrote it is all that is kept of it. `Deadline`, `Sigterm` and
`Kill` may come at any moment. `ReadBack` is what the operator takes for the verdict.
`FindJTL` prefers `out.jtl` and refuses to choose between others. `cut` and `touched` are
history: whether the context had ended when the last try did, and whether that try left the
reports otherwise than it found them. The working directory
starts without reports: one that is checked in with the repository is not modelled.

### LogStream

A line travels in three pieces, so that a read, a disconnect or a crash can fall inside it. A
read brings any number of pieces: `Read` is one turn of `consume`'s loop, which holds back what
is new, and `EndRead` publishes all of it as one frame.
`EnsureTailer` reads the cursor and starts (or wipes and starts over); the tailer opens,
reads, filters what a reconnect replays, publishes (ring first, then subscribers: two steps),
flushes by size or tick, stores the chunk and then the cursor, and finalizes. `OpenReader` ...
`EndRound` is the API server's reader, which polls the stored chunks. A storage call fails by
itself or because `Stop` has cancelled the context it uses (`FlushPending`, `SaveCursor`); the
flush of `finalize` has a context of its own. `told` is history: all that the tailer ever
published.

### WebhookDelivery

`EndRun` is the status write, through `terminalAndDeleteJob` or through `transitionTerminal`
alone; `DispatchWebhooks` checks `dispatchedRuns` (keyed by name and phase) and lists the
Webhooks; `Enqueue`, `MakeRoom` and `Resend` are its three selects; `TakeJob` and `Attempt`
are a worker.

### Scheduler and Triggers

A unit of the scheduler's time is a minute. `Evaluate` chooses the instant (`prevSchedule`,
the lookback, the missed-fire window), `CreateRun` creates the run under the instant's name.
In `Triggers`, `ReconcileTrigger` registers and releases informers; `Deliver` and
`HandleEvent` are the events' two ends; `StartEvaluate`, `Fire`, `FireFails`, `FireSkipped`
and `NotReady` are one walk over the gates, in evaluation intervals. They share no state
with each other or with the webhooks, so a behaviour of `MCEvents` is one of the scheduler's,
of the triggers' or of the webhooks', with the other two at rest; `MCPods` does the same with
`Workers` and `Wrapper`.

### History

Every SQL statement and every request is a step. `PersistFinished` ... `SaveTestCases` are
`persistFinished` (partition, row, test cases); `StartPass` ... `PruneAudit` retention's pass
(list a month's runs, remove objects one by one, drop the partitions, prune the audit log);
`StartDelete` ... `DeleteRow` the delete handler; `FirstPage`, `CollectClusterRuns` and
`MergeStoreRuns` are `listRuns` with its cursor. `shown` is what the cache has of `cr`.
`UserDelete` is `kubectl delete`, also of a live run (`dying`), which then ends in `finalize`
without a row. A terminal TestRun is saved however old it is, and time passes during a save.
`loose` is history: the runs deleted that way before their row was written, and those whose
row was written after retention had read which runs its month has.
The client's `pager` keeps what it was given and, for the properties, the rows that a page
left out because the cluster read had shown their runs as live (`passed`).

## 3. Runs

| Run | Instance | States | Shows |
|---|---|---|---|
| `lifecycle_faults` | TTL on, one crash and one fault, lag 2, fair | 600,181 | `TypeOK`; `AnnouncedOnce`, `VerdictEarned`, `OrphanOnlyIfLost`, `TerminalIsFinal`, `CleanupAfterVerdict`, `ExpireOnlyRecorded`; `EventuallyDecided` |
| `lifecycle_users` | TTL off; abort, delete, purge, touch and loss once each; lag 1, fair | 841,936 | `RefinesContract`, `FinalizerGuardsJob`, `EventuallyRecorded` |
| `composite` | four plans, three pairs of interferences, lag 1, fair | 373,785 | `ChildrenInTurn`, `PassedIsEarned`, `EndsOnce` |
| `decisions` | composer: 4 children, 4 steps, 3 Tests, depth 1; texts of 3 tokens with values that spell references; matrices and shards of 2 keys, up to 4 values; 8 versions of a Test, 3 of each of 2 templates, 2 edits, or 1 beside a run | 243,178 | `CompositionSound`, `ValuesReadOnce`, `WorkersCoverLists`, `PodsAsPromised`, `ReadyUnlessMissed` |
| `admission` | 3 runs; Forbid and Replace; crash and `notBefore`, a fault, or abort and a stale Test; lag 2 | 254,540 | `ForbidExclusive`, `ReplaceKept`, `LatestIsNewest`, `EveryRunHasItsTurn` |
| `events` | scheduler: 7 minutes, two schedules, two replicas, outages of up to 3 minutes; triggers: 2 triggers, 2 kinds, 4 specs; webhooks: 3 runs, two of one name, 2 Webhooks, queue of 2, one worker | 216,337 | `ScheduleKept`, `GatesKeepTime`, `WatchesFollow`; `FreshestKept`, `EveryJobSettles` |
| `pods` | 2 workers; an error, a crash, a removed Job with a stuck pod, an abort, a bad service; a refused Job beside an error. One pod; exit code, JUnit and JTL; 2 reports, one of them `out.jtl`, 2 retries, 2 upload attempts; failures, signal, kill | 1,519,078 | `ResultsAddUp`, `OrphanIsReal`, `EventuallyEnds`; `PassIsEarned`, `ReportedIsStored`, `AttemptsTell`, `PodEnds` |
| `logstream` | 3 lines, two of one timestamp, one that arrives in pieces, in reads of any size; chunk, ring and subscriber queue of 2; crash, failing call, broken connection in pairs | 1,247,122 | `LinesInOrder`, `EndsFlushed` |
| `history` | 3 runs, pages of 2, months of 2 ticks, retention of 2, 5 instants; a pass beside two of delete, expiry, kubectl, comment, crash, failure and a second pass | 3,912,512 | `PagesCoverAll`, `NoneStranded`, `HistoryKept` |
| `unannounced` | the webhooks with two runs, one of which may end by `transitionTerminal` alone | | violates `EveryEndIsAnnounced` |
| `reevaluated` | texts of one token, values that spell references | | violates `ValuesLandVerbatim` |
| `stale_report` | one pod with two reports and no failure | | violates `StaleNeverPasses` |

Properties with several parts are conjunctions of named parts, each commented in its module:
`ChildrenInTurn` of `OneTryAtATime`, `StepsInOrder` and `NoneLeftRunning`; `EndsOnce` of
`VerdictsFinal` and `EventuallyEnds`; `ScheduleKept` of `FiredOnce`, `NoneMissed` and
`NoBackfire`; `LinesInOrder` of what is stored, what a subscriber and what a reader sees.

Six more promises of the repository are stated in the modules and broken; TLC finds the
counterexample when the property is put into a configuration of section 3 with these values:

| Property | Configuration |
|---|---|
| `EachPhaseAnnounced` | `lifecycle_faults.cfg`, `Budget <- Undisturbed` |
| `ReadyIsTrue` | `decisions.cfg`, `TestPool <- StaleTests`, `TemplatePool <- StaleTemplates`, `ListMayFail = FALSE`, `MaxRunEdits = 0` |
| `GivenUpIsGone` | `pods.cfg` |
| `NothingOrphaned` | `history.cfg`, `HistoryBudgets <- Expiring` |
| `FinalChunkLanded` | `logstream.cfg`, `Budgets <- Undisturbed` |
| `JoinsExactly` | `logstream.cfg`, `Budgets <- Joining` |

Next to each broken promise the runs check what the code does keep of it: `AnnouncedOnce`,
`ValuesReadOnce`, `PassIsEarned`, `ReadyUnlessMissed`, `OrphanIsReal`, `NoneStranded`,
`EndsFlushed` and `LinesInOrder` hold, with the exception named in the formula (`missed`,
`loose`, `failed`, the step `unread`) and not ruled out by a bound.

What some properties do not cover: `EventuallyRecorded` is checked without failing calls
(with one, and the TTL off, the save is not retried); `PassedIsEarned` leaves skipped steps
out, so a run that passes because a step was skipped is not its business; `LatestIsNewest`
holds while the patches succeed against a current Test (`quiet`); no state of `events` has
two triggers of one kind of which one leaves, which `ReferencesMatch` covers for any number.

**Why the bounds are enough.** `MaxLag` bounds how many versions the caches may be behind. A
lag of 2 lets the Job be created and `jobName` be written before either is seen, the shortest
history in which the cache misleads the orphan check; a crash and a fault together reach
every pair of "done but not remembered"; one run suffices where the code handles runs
independently. Graphs of three Tests at depth 1 hold diamonds, cycles behind legal branches
and paths one too long. The four plans of `composite` use every setting of a step between
them; a step with both a timeout and a retry is left out, because there `NoneLeftRunning`
does not hold (see below). Three runs are the fewest with one that waits for two; a queue of
two is full when a third job comes and has a second place to lose the wrong job from; three lines with a repeated timestamp are the fewest
where the replay filter has to count; pages of two over three runs have a boundary that a run
can cross; two months in five instants let retention drop one while the other is written;
two retries give a try between the first and the last; two reports are the fewest of which one
can be taken away and the other left (two failing calls are tried with the exit code only and one
with JUnit, as uploads do not ask where the verdict came from).

Deadlock is not checked: a run that is over, a queue that is empty or a clock at its bound
has nothing left to do.

**Fairness.** Weak fairness only, of what the code or the platform goes on doing: the work
queue is served and a call returns, with an error if need be (`Reconcile`, the passes of
`Workers`, `ReconcileTrigger`, `ReconcileTest`); informers deliver (every watch action); pods
are scheduled and tools end or hit `activeDeadlineSeconds` (`ClusterProgress`, `PodStarts`,
`WorkerEnds`), except in `Wrapper`, where the tool may run for ever and only the wrapper's own
steps and its timeout are fair; goroutines run on (the tailer, the delivery workers,
`StartEvaluate` and the gates' turns). In `Composite` the parent is requeued every
`compositeRequeue` and time passes; in `Admission` `notBefore` passes. No fairness is assumed
of users, crashes, faults or the loss of a Job. In the runs with a bounded lag a write that
would exceed it waits for a watch event, which is fair. In `Definitions` the fairness of the
Test controller is stated of `queued` alone, which only `ReconcileTest` clears. The
scheduler's and history's properties are safety properties and need none.

### Where the code does not keep what the repository says

`PROJECT.json` quotes the line each contradicts. Where a run or a property is named, TLC finds
the counterexample; the others were met while modelling.

- **Unannounced ends.** A run that ends in setup, compilation or as an orphan, or as a
  composite, goes through `transitionTerminal` alone and fires no webhook (`unannounced`). A
  run recreated under a name whose earlier run ended alike fires none either, for another
  reason: its key is still in `dispatchedRuns` (with `Runs <- MCRuns` and nothing else
  `EveryEndIsAnnounced` is violated that way; the run does not show it).
- **Phases on the way** (queued, running, paused) are offered as webhook events and promised by
  a comment, and nothing announces them (`EachPhaseAnnounced`).
- **A Ready condition stays wrong** when a pass takes the lagging status of the Test for the
  condition it would write (`ReadyIsTrue`); so does one whose event's List failed.
- **A worker whose Job is there is given up** when the live read fails for any reason
  (`GivenUpIsGone`).
- **Objects without a row**: one saved while retention drops its month (`NothingOrphaned`), and those
  of a live run deleted with kubectl.
- **A stale report passes a run** when the try that follows takes its own report away or
  leaves it unreadable (`stale_report`).
- **A config value that spells a worker's reference** is substituted again (`reevaluated`).
- **StopTailer cancels a flush under way** and returns with its lines given up (`FinalChunkLanded`).
- **A late subscriber is given a frame twice**: `publish` appends to the ring before it takes
  the lock (`JoinsExactly`).
- **Abort misses a Job** the cache does not show yet: the run ends, the Job runs on.
- **MissingResult with a verdict**: the upload failed and the Job's end is seen before the pod's.
- **A Job is created twice**: crash before `jobName` is written, and the Job's deletion is
  seen before the run's end.
- **A deleted row returns**: a reconcile still reads the terminal TestRun from the cache.
- **A failed save is not retried** with the TTL off: nothing requeues the terminal run. (In
  `lifecycle_users`, TTL off, no call fails, and `EventuallyRecorded` holds.)
- **Step timeout leaks a retry** created in the pass that finds it expired, and **is
  forgotten** by a crash or a refused write: the step becomes aborted, not failed, and a step
  that one pass skipped runs in the next, or the other way round. With the plan of a timed
  step, a plain step and an `always` step `StepsInOrder` and `NoneLeftRunning` do not hold.
- **A page of runs is not exact**: rows of runs that the cluster read showed as live are left
  out and no further rows are read in their place, so the cursor may pass over runs
  (`MergeIsExact` does not hold with four runs, `Limit` 2 and a cache behind by one).
- **Enqueue drops a job from a queue with room**: a worker takes one between the select that
  finds the queue full and the one that drops (`DropsOnlyWhenFull` does not hold).
- **A service that fails mid-run** ends a parallel run without stopping its workers.
- **A gate whose fire fails** outlives its timeout while its conditions hold.
- **Webhook status** is never written, and the queue is lost at shutdown.
- **Test cases without a row**: a delete between the row's and the cases' save.
- **result.json after SIGTERM** is uploaded with a context that has ended.
- **A tool that cannot be started** is judged by an earlier try's report and tried again.
- **artifacts.report** of a parallel Test keeps its worker references; `artifacts.paths` do not.
- **Templates**: the first wins, not the last; a Test's files do not replace a template's git
  source; test data of both at one path end the run as CompileError.

Smaller ones: retries ignore a step's parallelism cap (`composite.go:163-167` against
`api/v1alpha1/test_types.go:179-182`); when an aborted and an errored child meet, the first
wins, where the comments list abort first; an optional step that errors makes later steps be
skipped while the run passes; two Forbid runs of one second may overlap when name order is
not creation order, and a run created for later may overlap with any (`ForbidExclusive`
leaves it out); two Replace runs created together abort each other; the log reader's one
final round after the run's end can miss the final chunk; limits on workers and replicas are
checked in Tests, not in templates.

## 4. Proofs

Each theorem is proved from the named assumption of its module alone (the constants are sets,
naturals and functions of the right kind), so for every number of runs, workers, steps,
replicas or pages, every budget of crashes, faults and users, and any cache lag. None of the
properties is inductive: a reconcile acts on an old version of the world and on its own copy,
so each module has an inductive invariant (`Inv`, proved in its theorem `Invariance`) that
says what the copies may be wrong about. TLC checked the invariants before they were proved.

### TestRunLifecycle

| Theorem | Statement |
|---|---|
| `TypeCorrect` | `Spec => []TypeOK` |
| `AnnouncedAtMostOnce` | `Spec => []AnnouncedOnce` |
| `VerdictsAreEarned` | `Spec => []VerdictEarned` |
| `FinalizerHolds` | `Spec => []FinalizerGuardsJob` |
| `OrphansAreLost` | `Spec => []OrphanOnlyIfLost` |
| `VerdictFinal` | `Spec => TerminalIsFinal` |
| `ExpiryIsRecorded` | `Spec => ExpireOnlyRecorded` |
| `CleanupIsLast` | `Spec => CleanupAfterVerdict` |
| `Refinement` | `Spec => RefinesContract` |

- `VersionsInv`: every version in `runs` is sane (a running run is set up, a run that is gone
  was being deleted) and the live run *follows* it: its phase was reached from that version's,
  and a decided phase is kept. This is what makes a decision on a stale read harmless: either
  the write is refused, or the version was the live one.
- `CopyInv`: the reconcile's copy is the version it claims to be, and what its place in the
  code says of it (between the terminal write and the cleanup, the copy is terminal).
- `SentInv`: before the webhook step of a reconcile that has decided the run, nothing was
  announced. Only the one accepted terminal write leads there, hence at most one announcement.
- `PersistInv`: what memory calls persisted is in the history, or was purged after the run
  was deleted.
- `FinalizerGuardsJob` itself and `VerdictInv`: every verdict found in storage, in any
  version of the pod or in the run was reached by the wrapper.
- `OrphanInv`, for `OrphansAreLost`: while no outsider has removed a Job, a live run that names
  its Job, or is about to, and is neither decided nor being deleted has it in the cluster.
  `existsLive` looks there before the verdict, so a verdict computed from a stale read is one
  whose write is refused.

`TypeInv` strengthens `TypeOK` by a typed terminal phase at the labels that use it. Each
part has one lemma per group of actions; `InvStep` puts them together, `ContractStep` maps
each step to a step of `RunContract` or a stutter.

### Composite

| Theorem | Statement |
|---|---|
| `PassesAreEarned` | `Spec => []PassedIsEarned` |
| `VerdictsStay` | `Spec => VerdictsFinal` (the safety half of `EndsOnce`) |
| `TriesInTurn` | `Spec => []OneTryAtATime` |
| `UntimedInTurn` | `Spec => [](Untimed => ChildrenInTurn)` |

Every version of the parent is `Ordered` (a step is entered only when the earlier ones are
decided, and skipped exactly when they say so) and `Earned` (a verdict is the aggregate of the
step's children, all of them over for good, or it is the `failed` of a timeout); the walk's
copy `Extends` the version it was read from; what was listed is still true (`SeenInv`), and a
later try exists only because each earlier one failed (`TriesInv`). A child that is over is
never created or ended again (`OverStep`), so a verdict, once earned, stays earned whatever
list it came from: `AllDoneFacts` shows that an old list in which a step is done agrees with
the children of now.

`UntimedInTurn` is about the plans without step timeouts. `TurnsInv` says that a step that has
a child is not one that the children of the earlier steps skip, and that each earlier step is
over or skipped by them; what is recorded does not come into it, so a lost record cannot
break it. With a timeout the record decides and may be lost, and the property does not hold
of every plan (section 3), so the hypothesis is needed. `StopInv` covers the abort.

### Admission

| Theorem | Statement |
|---|---|
| `ForbidIsExclusive` | `InTurn` implies `Spec => []ForbidExclusive` |
| `ReplaceIsKept` | `Spec => ReplaceKept` |
| `LatestRunIsNewest` | `Spec => []LatestIsNewest` |

`CacheInv`: runs appear in the cache in the order they were created, and the live state
follows what the cache shows. `ForbidInv`: when a run is set up, the older ones are over, which
carries over from the cache because being over is final and a younger run in the cache means
the older ones are there too. `ReplaceInv`: while a run walks over its priors, each older run
is still on the list, or asked, or over. `InTurn` (name order within a second is creation
order) is needed: without it two Forbid runs may overlap (section 3).

### Workers

| Theorem | Statement |
|---|---|
| `ResultsAlwaysAddUp` | `Spec => []ResultsAddUp` |
| `OrphansAreReal` | `Spec => []OrphanIsReal` |

`SoundInv`: the run, its cached copy and the status a pass is about to write count what
workers really did, each once. `MissingInv`: a Job that the status or the cache expects is
missing only because an outsider removed it, the run is aborted, or the worker is done.
`FreshWrite`: a write that will be accepted was computed from the status as it is, so a Job
deleted by an earlier pass is that of a worker recorded as done.

### Wrapper (`PodProofs`)

| Theorem | Statement |
|---|---|
| `PassesAreEarned` | `WrapperSpec => []PassIsEarned` |
| `StoredAsReported` | `WrapperSpec => []ReportedIsStored` |
| `AttemptsAreTold` | `WrapperSpec => AttemptsTell` |

The invariant gives each stage what the stages before it have established: `Placed`,
`Earned` (the phase is the one the exit code or the reports make, and a try that did not pass
left reports that do not make a pass: the next one's pass needs them changed), `StoredInv`,
`Told`. There may be any number of report files.

### Definitions and the pure decisions (`PodProofs`)

| Theorem | Statement |
|---|---|
| `PodsArePromised` | `MCSpec => []PodsAsPromised` |
| `CompositionIsSound` | `MCSpec => []CompositionSound` |
| `WorkersCover` | `MCSpec => []WorkersCoverLists` |
| `ValuesAreReadOnce` | `MCSpec => []ValuesReadOnce` |

`PodsArePromised` is about an edited world: Test, templates, override and parameters may
change between admission, setup and each Job, for any pools of them. `RunInv` says that a run
that was set up stores a spec that the policy allowed, and that the override of the time was
allowed whenever it was written; `PodsInv` that the pods there are keep the promise. Together
they carry `CheckPod` and `CheckContainer` through `SubstituteInSpec` and `MergePodConfig`,
which leave the guarded fields alone (`GuardedFacts`) or take them from an allowed override.

The other three are about functions of one input, whatever its size; `InputInv` says which
inputs are picked. What a recursive function computes is shown without an induction rule:
where some level were wrong there would be a least wrong one (`LeastOf`), which follows from
the level before it.

- Graphs: what `Walk` answers at a level of depth is what the paths of that length say
  (`WalkAnswered`); a graph whose every path ends within the limit has no endless set, since
  an endless set has paths of every length (`GraphFacts`).
- Workers: the combinations of a matrix are as many as `CombinationCount` and all different
  (`CombosDistinct`), put end to end they are blocks of one size (`FlattenBlocks`), and part
  `j` of a list of `L` values begins at `j * L \div per` (`StartFacts`): monotone from 0 to
  `L`, with steps that differ by at most one.
- Texts: a text that is evaluated and then filled with a worker's references is filled piece
  by piece (`SubstituteFlat`), and each token comes out as what it is rendered to at once,
  filled (`TokenFacts`). The values may spell anything. The tokens are those of `Tokens`, one
  of each kind that `Eval` tells apart.

### LogStream

| Theorem | Statement |
|---|---|
| `LinesAreInOrder` | `Spec => []LinesInOrder` |
| `StopIsFlushed` | `Spec => StopFlushes` (the safety half of `EndsFlushed`) |

They hold for every log (with timestamps that repeat, and lines that arrive in pieces), every
way it is cut into reads, every chunk, ring and queue size and number of attempts. What a read
holds back counts as if it were pending and in the ring (`Held`, `RingHeld`): a turn of
`consume` extends both, and `EndRead` leaves them as they are. `PlaceInv`: a position, a timestamp and
how many lines of it were seen, is the place of one line (`LineAt`). `StreamInv`: a connection
has published what lies between the position it was opened with and what it has judged of the
replay, and its counter is the number of lines of that timestamp it has seen. `StoreInv`: the
stored chunks ascend without a gap, and the cursor covers all of them or all but the last,
which a crash kept it from covering. `TailInv` says the same of what would be stored if the
tailer flushed now, so that one that starts over from the cursor writes the last chunk again
without leaving a gap. `ToldInv`: while no call has failed, what was published is stored,
pending or in the frame at hand. `RingInv` and `FanInv`: the ring's lines do not go back, skip
none and end with the frame that is being published. `SubInv`: a subscriber has every line
from its first up to the position, but for the frame that is being handed out, and either that
frame follows what it was given or it has been given the ring alone, which ends with it.
`ReadInv`: a reader has the first chunks.

### WebhookDelivery (`EventProofs`)

`FreshestIsKept` proves `Spec => FreshestKept` when reconciles run one at a time (`Sole`; the
operator leaves `MaxConcurrentReconciles` at 1). `Once` and `Waiting` say that a job is in one
place and untried while it waits, `Room` that between `MakeRoom` and `Resend` the queue has
a place; with two reconcilers another could fill it.

### History

| Theorem | Statement |
|---|---|
| `NothingStranded` | `HistorySpec => []NoneStranded` |
| `HistoryIsKept` | `HistorySpec => HistoryKept` |
| `PagesCover` | `HistorySpec => []PagesCoverAll` |

`RowInv`: a run with objects that is leaving the cluster, or that memory takes for written,
has its row or is `loose`; `DeleterInv` and `JobInv`: a row goes only after the run's objects,
in the delete handler and in retention, unless it was written after retention had read the
month (then it is `loose`); `ClusterInv`: the cache is behind the cluster, and a run that a
save is under way for has ended. `PagerInv`: each run that was there throughout was given, is
still after the cursor, or is older than a row that was passed over.

### Scheduler and Triggers (`EventProofs`)

| Theorem | Statement |
|---|---|
| `ScheduleIsKept` | `SchedulerSpec => ScheduleKept` |
| `SchedulerInvariance` | `SchedulerSpec => []SchedulerInv` |
| `ReferencesMatch` | `TriggersSpec => []RefsMatch` (the safety half of `WatchesFollow`) |
| `FiresAreApart` | `TriggersSpec => FiresAreSpaced` (the safety half of `GatesKeepTime`) |

`CountInv`: fires and removals of an instant add up to the run that is there, as the name is
the instant's. `PendingInv`: a replica is about to create the last instant of the schedule it
read. `Followed`: an instant that was the last one at a minute that was not missed is fired.

### What the proofs corrected

Attempts that failed showed that two properties had been true of the instance only.
`FreshestKept` had said that a job is dropped only when the queue is full, which a queue of
one cannot tell from the truth; `PagesCoverAll` had said that the merge is exact, which takes
four runs to refute. Both now say what the code guarantees, and what it does not is under
`DropsOnlyWhenFull` and `MergeIsExact` and in section 3. The same went for `ChildrenInTurn` of
plans with a timeout before two other steps. `LinesInOrder` and `WorkersCoverLists` are stated
by the places of lines and values instead of by comparing whole sequences, which says the same
and can be reasoned about. A CASE whose guards overlapped, which TLC reads in order and the
language does not, was found where a quoted reference names what is deferred; such operators
are IFs now.

### Only model-checked

- Liveness (`EventuallyDecided`, `EventuallyRecorded`, `EventuallyEnds`, `EveryRunHasItsTurn`,
  `EveryJobSettles`, `GateSettles`, `RegistrationFollows`, `ReadyUnlessMissed`, `EventuallyClosed`,
  `PodEnds`): fairness and ENABLED are out of the prover's reach.
- `ChildrenInTurn` for the plan with a timeout that `composite` has.

## 5. Plan

Modelling has reached the components that keep state. What is left, in this order:

1. Proofs: every invariant that a run checks has its theorem; how far `ChildrenInTurn` goes
   for plans whose last step alone has a timeout and no retries.
2. Services in the reconcile of an ordinary leaf run, and the deletion of a composite's
   children.

## 6. Not modelled

- Metrics: counters in memory that no decision reads.
- Storage clients (`pkg/storage`), the Kubernetes client, Postgres itself: external; a call
  succeeds, fails, or succeeds and its answer is lost where the code could tell.
- Formats: JUnit XML, JTL, YAML, cron and quantity syntax, webhook payloads, log wording,
  resource names. The models keep what the parsers conclude.
- Read handlers that format one object, OpenAPI, control center, UI, CLI, API client:
  presentation; they change nothing the operator reads except through the handlers modelled.
- API types and generated copies: declarations.
- Known hazards without a property, each with its reason, are in `PROJECT.json`: services and
  Jobs left by a crash after the final write, an abort with a stale cache and same-second
  creation. Besides: gates are lost in a restart, a scheduled run
  that expires within the missed-fire window is fired again (`FiredOnce` allows for it), and
  a schedule edit may fire for an instant before the edit.

## 7. Running

    tlc -workers 2 -config lifecycle_faults.cfg MCTestRunLifecycle
    tlc -workers 2 -config history.cfg MCHistory
    for m in *Proofs.tla; do tlapm $m; done

The run table of `PROJECT.json` names module and configuration of each run.
