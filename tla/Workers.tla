------------------------------- MODULE Workers -------------------------------
(***************************************************************************)
(* A spec.parallel run after its setup: internal/controller/parallel.go    *)
(* and services.go.  One Job per worker, created once the run's services   *)
(* are ready; verdicts folded into the run's status as workers finish.     *)
(*                                                                         *)
(* A pass of the reconciler reads the caches, may create objects as it     *)
(* goes, writes the status once, under optimistic concurrency, and deletes *)
(* the Jobs of the workers that finished in it.  These are three steps,    *)
(* with the watches, other writers and operator crashes between them.  The *)
(* services are one replica pod; worker pods are part of their Job.        *)
(***************************************************************************)
EXTENDS Naturals, FiniteSets

CONSTANTS
    N,              \* workers 1 .. N
    HasServices,    \* values of "the spec has services"
    Refusals,       \* values of the set of workers whose Job the compiler or the API server refuses
    WorkerBudgets   \* how often each of these may happen in a behaviour

\* error: the API server or the result store cannot be reached in a pass.  crash: the operator
\* dies.  remove: an outsider (or the Job's TTL) deletes a Job.  stuck: a pod cannot
\* start, or its wrapper is stopped, fails or leaves no verdict.  bad: the service replica fails, or is not ready in time.  abort: spec.abort.
WorkerKinds == {"error", "crash", "remove", "stuck", "bad", "abort"}

ASSUME WorkersAssumption ==
    /\ N \in Nat \ {0} /\ HasServices \subseteq BOOLEAN /\ Refusals \subseteq SUBSET (1 .. N)
    /\ WorkerBudgets \subseteq [WorkerKinds -> Nat]

W == 1 .. N
Ran == {"passed", "failed", "aborted"}  \* verdicts that come with the counts of a worker's tests
Verdicts == Ran \cup {"error"}
\* error with OrphanJobMissing: the live read found no Job, or failed.
Lost == {"orphan", "unread"}
StepDone == Verdicts \cup Lost
RunDone == Verdicts

(***************************************************************************)
(* A Job: "none", "waiting", "running", "stuck", or "done" with what its   *)
(* wrapper left: a verdict, or "none" when result.json is malformed or     *)
(* missing and the pod status has no summary either.                       *)
(***************************************************************************)
NoJob == [state |-> "none", left |-> "none"]
Job(state) == [state |-> state, left |-> "none"]

VARIABLES
    run, runCache,      \* [phase, steps, counts, abort, refused, rev] at the API server and in the cache
    jobs, jobCache,     \* the worker Jobs, and the cache of them
    service, serviceCache,  \* "absent", "starting", "ready", "bad" or "none needed"
    pass,               \* the pass under way
    removed,            \* history: the workers whose Job an outsider deleted
    ended,              \* history: the verdicts a worker's executions came to
    budget

workersVars == <<run, runCache, jobs, jobCache, service, serviceCache, pass, removed, ended, budget>>
objectVars == <<jobs, jobCache, service, serviceCache>>

Idle == [step |-> "idle"]
Spend(kind) == budget[kind] > 0 /\ budget' = [budget EXCEPT ![kind] = @ - 1]

WorkersInit ==
    /\ \E refused \in Refusals :
         run = [phase |-> "queued", steps |-> [w \in W |-> ""], counts |-> 0, abort |-> FALSE,
                refused |-> refused, rev |-> 0]
    /\ runCache = run
    /\ jobs = [w \in W |-> NoJob] /\ jobCache = jobs
    /\ service \in {IF s THEN "absent" ELSE "none needed" : s \in HasServices} /\ serviceCache = service
    /\ pass = Idle /\ removed = {} /\ ended = [w \in W |-> {}]
    /\ budget \in WorkerBudgets

-----------------------------------------------------------------------------
(* The verdicts.                                                           *)

\* workerResult, with its three sources; nothing left is an error.
WorkerResult(job) == IF job.left \in Verdicts THEN job.left ELSE "error"

\* finishWorker: the step's verdict, and whether its tests are added to the run's.
FinishWorker(verdict, counted) == [step |-> verdict, counted |-> counted]
KeepStep(step) == [step |-> step, counted |-> FALSE]

HasCounts(verdict) == verdict \in Ran

\* Variant: a worker that was aborted is not counted among the failed.
AggregateFailed(st) ==
    IF \E w \in W : st.steps[w] \in {"error"} \cup Lost THEN "error"
    ELSE IF \E w \in W : st.steps[w] = "failed" THEN "failed" ELSE "passed"

\* aggregateWorkers
AggregateWorkers(st) ==
    IF \E w \in W : st.steps[w] \in {"error"} \cup Lost THEN "error"
    ELSE IF \E w \in W : st.steps[w] \in {"failed", "aborted"} THEN "failed" ELSE "passed"

-----------------------------------------------------------------------------
(* reconcileWorker, on the status st that the pass has read; blind are the *)
(* workers whose live read fails.                                          *)

Unfinished(st, w) == st.steps[w] \notin StepDone

\* Variant: a Job that is gone is waited for.
OrphanedIsAwaited(st, w, blind) == KeepStep(st.steps[w])

\* Gone from the cache after it was created: only a live read that finds the Job keeps it.
Orphaned(st, w, blind) ==
    IF w \in blind THEN FinishWorker("unread", FALSE)
    ELSE IF jobs[w] = NoJob THEN FinishWorker("orphan", FALSE) ELSE KeepStep(st.steps[w])

ReadsLive(st) == {w \in W : Unfinished(st, w) /\ jobCache[w] = NoJob /\ st.steps[w] # ""}

\* createWorker is due.  What is refused ends the worker, without a Job; otherwise the Job
\* is created, if its name is free.
Due(st, w) == Unfinished(st, w) /\ jobCache[w] = NoJob /\ st.steps[w] = ""
Creates(st, w) == Due(st, w) /\ w \notin st.refused
CreateWorker(st, w) == IF Creates(st, w) THEN KeepStep("queued") ELSE FinishWorker("error", FALSE)

WorkerStatus(st, w, blind) ==
    LET job == jobCache[w] IN
    IF ~Unfinished(st, w) THEN KeepStep(st.steps[w])
    ELSE IF job = NoJob THEN (IF st.steps[w] = "" THEN CreateWorker(st, w) ELSE Orphaned(st, w, blind))
    ELSE IF job.state = "stuck" THEN FinishWorker("error", FALSE)
    ELSE IF job.state = "done" THEN FinishWorker(WorkerResult(job), HasCounts(WorkerResult(job)))
    ELSE IF job.state = "running" THEN KeepStep("running")
    ELSE KeepStep(st.steps[w])

\* The loop over the workers: each one's step depends on its own Job alone.
StatusAfter(st, blind) ==
    [st EXCEPT !.steps = [w \in W |-> WorkerStatus(st, w, blind).step],
               !.counts = @ + Cardinality({w \in W : WorkerStatus(st, w, blind).counted})]

\* The pass under way: the status it will write, if it differs, and the Jobs it deletes
\* after the write.
Passing(st, del) == [step |-> "write", status |-> st, delete |-> del]

FinishedIn(st) == {w \in W : Unfinished(runCache, w) /\ st.steps[w] \in StepDone /\ jobCache[w] # NoJob}

\* reconcileParallel once the services are ready: every worker, then the run's phase.  A
\* worker that createWorker ended is taken for finished in the next pass.
PassWorkers ==
    /\ pass = Idle /\ runCache.phase \notin RunDone /\ ~runCache.abort
    /\ serviceCache \in {"ready", "none needed"}
    /\ \E blind \in SUBSET ReadsLive(runCache) :
         LET st   == StatusAfter(runCache, blind)
             done == \A w \in W : st.steps[w] \in StepDone /\ ~Due(runCache, w)
             next == [st EXCEPT !.phase = IF done THEN AggregateWorkers(st) ELSE "running"]
         IN  /\ next # runCache
             /\ pass' = Passing(next, FinishedIn(st))
             /\ IF blind = {} THEN UNCHANGED budget ELSE Spend("error")
    /\ jobs' = [w \in W |-> IF Creates(runCache, w) /\ jobs[w] = NoJob THEN Job("waiting") ELSE jobs[w]]
    /\ UNCHANGED <<run, runCache, jobCache, service, serviceCache, removed, ended>>

\* One of several workers fails: those before it have created their Jobs, and the status
\* they built is dropped.
PassBroken ==
    /\ pass = Idle /\ runCache.phase \notin RunDone /\ ~runCache.abort
    /\ serviceCache \in {"ready", "none needed"} /\ Spend("error")
    /\ \E k \in 0 .. N - 1 :
          jobs' = [w \in W |-> IF w <= k /\ Creates(runCache, w) /\ jobs[w] = NoJob THEN Job("waiting") ELSE jobs[w]]
    /\ UNCHANGED <<run, runCache, jobCache, service, serviceCache, pass, removed, ended>>

-----------------------------------------------------------------------------
(* ensureServices and teardownServices.                                    *)

\* The replica is created when the cache has none, and waited for.
StartService ==
    /\ pass = Idle /\ runCache.phase \notin RunDone /\ ~runCache.abort
    /\ serviceCache = "absent" /\ service = "absent"
    /\ service' = "starting"
    /\ UNCHANGED <<run, runCache, jobs, jobCache, serviceCache, pass, removed, ended, budget>>

\* serviceFailure or the timeout: transitionTerminal, with the workers' Jobs left alone.
ServiceNotReady ==
    /\ pass = Idle /\ runCache.phase \notin RunDone /\ ~runCache.abort /\ serviceCache = "bad"
    /\ pass' = Passing([runCache EXCEPT !.phase = "error"], {})
    /\ UNCHANGED <<run, runCache, objectVars, removed, ended, budget>>

\* reconcileAbort: stopWorkers from the cache, before the status is written.
PassAbort ==
    /\ pass = Idle /\ runCache.phase \notin RunDone /\ runCache.abort
    /\ jobs' = [w \in W |-> IF jobCache[w] # NoJob THEN NoJob ELSE jobs[w]]
    /\ pass' = Passing([runCache EXCEPT !.phase = "aborted"], {})
    /\ UNCHANGED <<run, runCache, jobCache, service, serviceCache, removed, ended, budget>>

-----------------------------------------------------------------------------
(* The end of a pass.                                                      *)

\* Variant: the Jobs are deleted whatever became of the write.
DeletesAnyway(w) == w \in pass.delete

\* finishedJobs is emptied when the write fails.
DeletesAfter(w) == w \in pass.delete /\ run.rev = pass.status.rev

\* Status().Update, under the resourceVersion that was read.
WriteStatus ==
    /\ pass.step = "write"
    /\ \/ /\ run.rev = pass.status.rev
          /\ run' = [pass.status EXCEPT !.rev = @ + 1]
       \/ /\ run.rev # pass.status.rev /\ UNCHANGED run
    /\ pass' = [step |-> "delete", delete |-> {w \in W : DeletesAfter(w)},
                 teardown |-> run.rev = pass.status.rev /\ pass.status.phase \in RunDone]
    /\ UNCHANGED <<runCache, objectVars, removed, ended, budget>>

\* The write fails for another reason: nothing is deleted, the pass is repeated.
WriteFails ==
    /\ pass.step = "write" /\ Spend("error") /\ pass' = Idle
    /\ UNCHANGED <<run, runCache, objectVars, removed, ended>>

\* After the write: teardownServices once the run has ended, and deleteWorkerJobs.
DeleteWorkerJobs ==
    /\ pass.step = "delete" /\ pass' = Idle
    /\ jobs' = [w \in W |-> IF w \in pass.delete THEN NoJob ELSE jobs[w]]
    /\ service' = IF pass.teardown /\ service # "none needed" THEN "absent" ELSE service
    /\ UNCHANGED <<run, runCache, jobCache, serviceCache, removed, ended, budget>>

OperatorCrash ==
    /\ Spend("crash") /\ pass' = Idle
    /\ runCache' = run /\ jobCache' = jobs /\ serviceCache' = service
    /\ UNCHANGED <<run, jobs, service, removed, ended>>

-----------------------------------------------------------------------------
(* The cluster.                                                            *)

WatchRun ==
    /\ runCache # run /\ runCache' = run
    /\ UNCHANGED <<run, objectVars, pass, removed, ended, budget>>

WatchJob(w) ==
    /\ jobCache[w] # jobs[w] /\ jobCache' = [jobCache EXCEPT ![w] = jobs[w]]
    /\ UNCHANGED <<run, runCache, jobs, service, serviceCache, pass, removed, ended, budget>>

WatchService ==
    /\ serviceCache # service /\ serviceCache' = service
    /\ UNCHANGED <<run, runCache, jobs, jobCache, service, pass, removed, ended, budget>>

\* A worker's pod starts, or cannot.
PodStarts(w) ==
    /\ jobs[w].state = "waiting"
    /\ \/ jobs' = [jobs EXCEPT ![w] = Job("running")] /\ UNCHANGED budget
       \/ Spend("stuck") /\ jobs' = [jobs EXCEPT ![w] = Job("stuck")]
    /\ UNCHANGED <<run, runCache, jobCache, service, serviceCache, pass, removed, ended>>

\* The wrapper ends, at the latest by activeDeadlineSeconds.
WorkerEnds(w) ==
    /\ jobs[w].state = "running"
    /\ \/ \E left \in Verdicts :
             /\ jobs' = [jobs EXCEPT ![w] = [state |-> "done", left |-> left]]
             /\ ended' = [ended EXCEPT ![w] = @ \cup {left}]
             /\ IF left \in {"passed", "failed"} THEN UNCHANGED budget ELSE Spend("stuck")
       \/ Spend("stuck") /\ jobs' = [jobs EXCEPT ![w] = Job("done")] /\ UNCHANGED ended
    /\ UNCHANGED <<run, runCache, jobCache, service, serviceCache, pass, removed>>

RemoveJob(w) ==
    /\ jobs[w] # NoJob /\ Spend("remove")
    /\ jobs' = [jobs EXCEPT ![w] = NoJob] /\ removed' = removed \cup {w}
    /\ UNCHANGED <<run, runCache, jobCache, service, serviceCache, pass, ended>>

ServiceReady ==
    /\ service = "starting" /\ service' = "ready"
    /\ UNCHANGED <<run, runCache, jobs, jobCache, serviceCache, pass, removed, ended, budget>>

ServiceBad ==
    /\ service \in {"starting", "ready"} /\ Spend("bad") /\ service' = "bad"
    /\ UNCHANGED <<run, runCache, jobs, jobCache, serviceCache, pass, removed, ended>>

RequestAbort ==
    /\ ~run.abort /\ run.phase \notin RunDone /\ Spend("abort")
    /\ run' = [run EXCEPT !.abort = TRUE, !.rev = @ + 1]
    /\ UNCHANGED <<runCache, objectVars, pass, removed, ended>>

WorkersNext ==
    \/ PassWorkers \/ PassBroken \/ StartService \/ ServiceNotReady \/ PassAbort
    \/ WriteStatus \/ WriteFails \/ DeleteWorkerJobs \/ OperatorCrash
    \/ WatchRun \/ WatchService \/ ServiceReady \/ ServiceBad \/ RequestAbort
    \/ \E w \in W : WatchJob(w) \/ PodStarts(w) \/ WorkerEnds(w) \/ RemoveJob(w)

WorkersFairness ==
    /\ WF_workersVars(PassWorkers) /\ WF_workersVars(StartService) /\ WF_workersVars(ServiceNotReady)
    /\ WF_workersVars(PassAbort) /\ WF_workersVars(WriteStatus) /\ WF_workersVars(DeleteWorkerJobs)
    /\ WF_workersVars(WatchRun) /\ WF_workersVars(WatchService) /\ WF_workersVars(ServiceReady)
    /\ \A w \in W : WF_workersVars(WatchJob(w)) /\ WF_workersVars(PodStarts(w)) /\ WF_workersVars(WorkerEnds(w))

Spec == WorkersInit /\ [][WorkersNext]_workersVars /\ WorkersFairness

-----------------------------------------------------------------------------
(* Correctness.                                                            *)

\* A run passes only if every worker's wrapper really came to passed; a step that says
\* failed or aborted has an execution that came to it.
PassNeedsEveryWorker ==
    \A w \in W :
        /\ run.phase = "passed" => "passed" \in ended[w]
        /\ run.steps[w] \in Ran => run.steps[w] \in ended[w]

\* A worker is given up as OrphanJobMissing only if someone other than the operator deleted
\* its Job, or the live read of it failed in the pass that gave it up: the Job is kept until
\* the verdict is in the status, whatever conflicts, failed writes and crashes come between
\* (reconcileWorker, deleteWorkerJobs).
OrphanIsReal == \A w \in W : run.steps[w] = "orphan" => w \in removed

\* reconcileWorker's comment on a worker it gives up: "Created earlier, gone now (and not
\* because it finished)".  It does not hold: any error of the live read gives up a worker
\* whose Job is there.
GivenUpIsGone == \A w \in W : run.steps[w] \in Lost => w \in removed

\* The run's test counts are those of the workers that finished with some, each once.
CountedOnce == run.counts = Cardinality({w \in W : run.steps[w] \in Ran})

\* What the run says is what its workers did.
ResultsAddUp == PassNeedsEveryWorker /\ CountedOnce

\* Every run ends, also when Jobs disappear, pods cannot start, services fail and the
\* operator restarts.
EventuallyEnds == <>(run.phase \in RunDone)
=============================================================================
