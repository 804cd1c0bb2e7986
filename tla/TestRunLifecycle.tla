------------------------- MODULE TestRunLifecycle -------------------------
(***************************************************************************)
(* The life of one leaf TestRun: the reconciler of                         *)
(* internal/controller/testrun_controller.go against the Kubernetes API    *)
(* server, the Job controller, the run-history store and the API server's  *)
(* abort and delete handlers.                                              *)
(*                                                                         *)
(* Each of the three objects the reconciler works on is kept as the        *)
(* sequence of its versions since the one in the operator's informer       *)
(* cache: the head is what a cached read returns, the last entry is the    *)
(* live object, a resourceVersion is an index, and a watch event drops the *)
(* head.  The three watches are independent.  A Status().Update or Update  *)
(* names the version it was computed from and is refused unless that is    *)
(* still the last one.                                                     *)
(*                                                                         *)
(* One reconcile runs at a time (MaxConcurrentReconciles is 1).  It is cut *)
(* at its writes: everything from the cached reads up to and including the *)
(* first write is one step, every later write is a step of its own, and    *)
(* the operator may crash between any two.                                 *)
(***************************************************************************)
EXTENDS Integers, Sequences

CONSTANTS
    TTLEnabled,     \* FinishedRunTTL > 0: finished runs are deleted from the cluster
    Budget          \* how often each of these may happen

\* crash: the operator dies.  fault: a call of the operator to the API server, the
\* store or object storage fails.  touch: someone else writes the TestRun (a comment,
\* a label).  loss: someone else removes the Job.  abort, delete, purge: the user does.
Kinds == {"crash", "fault", "touch", "loss", "abort", "delete", "purge"}

ASSUME LifecycleAssumption == TTLEnabled \in BOOLEAN /\ Budget \in [Kinds -> Nat]

VARIABLES
    runs,       \* versions of the TestRun
    jobs,       \* versions of the Job named after the run
    pods,       \* versions of the newest pod carrying the run's run-id label
    stored,     \* result.json in object storage
    said,       \* verdicts the wrapper has reached (history variable)
    row,        \* the phase in the run's run-history row, "" without a row
    pc,         \* the reconcile's next write, "idle" between reconciles
    mem,        \* the reconcile's copy of the TestRun and the version it has
    inHand,     \* terminalAndDeleteJob was given the Job
    due,        \* the run's key is in the work queue, or will be after a delay
    persisted,  \* persistedRuns has the run
    dispatched, \* phases of the run in dispatchedRuns
    sent,       \* the events handed to the webhook dispatcher, in order
    tail,       \* the log registry has a tailer for the run
    purge,      \* the API server's deleteRun handler
    left        \* what is left of the bounds

podVars == <<pods, stored, said>>           \* what the pod leaves behind
memory == <<persisted, dispatched, tail>>   \* what the operator's process remembers
vars == <<runs, jobs, pods, stored, said, row, pc, mem, inHand,
          due, persisted, dispatched, sent, tail, purge, left>>

-----------------------------------------------------------------------------
Verdicts == {"passed", "failed"}
TerminalPhases == {"passed", "failed", "error", "aborted"}
IsTerminalPhase(p) == p \in TerminalPhases
Phases == {"", "queued", "running"} \cup TerminalPhases

PodStates == {"absent", "pending", "pullError", "running", "oomKilled", "done"}
Reasons == {"", "Waiting", "SetupFailed", "CompileError", "OrphanJobMissing", "Infra",
            "MalformedResult", "MissingResult", "JobDeadline", "Aborted"}
Run == [phase : Phases, reason : Reasons, spec : BOOLEAN, jobName : BOOLEAN,
        stages : PodStates \cup {"", "waiting", "closed"}, abort : BOOLEAN,
        ip : Nat, fin : BOOLEAN, deleting : BOOLEAN, gone : BOOLEAN]
Job == [gen : Nat, state : {"absent", "active", "succeeded", "failed", "expired"}]
Pod == [gen : Nat, state : PodStates, verdict : Verdicts \cup {""}]

Last(s) == s[Len(s)]
Live == Last(runs)
LiveJob == Last(jobs)
LivePod == Last(pods)
Cached == runs[1]
CachedJob == jobs[1]
CachedPod == pods[1]

NewRun == [phase |-> "", reason |-> "", spec |-> FALSE, jobName |-> FALSE, stages |-> "",
           abort |-> FALSE, ip |-> 0, fin |-> FALSE, deleting |-> FALSE, gone |-> FALSE]

NoMem == [ver |-> 0, run |-> NewRun, ip |-> 0]

Init ==
    /\ runs = <<NewRun>>
    /\ jobs = <<[gen |-> 0, state |-> "absent"]>>
    /\ pods = <<[gen |-> 0, state |-> "absent", verdict |-> ""]>>
    /\ stored = "" /\ said = {} /\ row = ""
    /\ pc = "idle" /\ mem = NoMem /\ inHand = FALSE
    /\ due = TRUE /\ persisted = FALSE /\ dispatched = {} /\ sent = <<>>
    /\ tail = FALSE /\ purge = "idle"
    /\ left = Budget

-----------------------------------------------------------------------------
(* The API server, seen from the operator.                                 *)

Spend(kind) == left[kind] > 0 /\ left' = [left EXCEPT ![kind] = @ - 1]

\* Variant: an update without optimistic locking.
CommitUnlocked(ver, r) == runs' = Append(runs, r) /\ UNCHANGED left

\* A write computed from version ver is accepted.
Commit(ver, r) == ver = Len(runs) /\ runs' = Append(runs, r) /\ UNCHANGED left

\* The caller sees an error: a conflict, a call that failed, or a call that
\* succeeded and whose answer was lost.
Refused(ver, r) ==
    \/ ver # Len(runs) /\ UNCHANGED <<runs, left>>
    \/ ver = Len(runs) /\ Spend("fault") /\ runs' \in {runs, Append(runs, r)}

\* A Delete of the TestRun: it names no version; without finalizers the object
\* goes at once, otherwise deletionTimestamp is set.
DeleteRun ==
    runs' = IF Live.gone \/ Live.deleting THEN runs
            ELSE Append(runs, [Live EXCEPT !.deleting = TRUE, !.gone = ~Live.fin])

\* deleteJobBackground: IgnoreNotFound(Delete(job)), by name.
DeleteJobBackground ==
    jobs' = IF LiveJob.state = "absent" THEN jobs
            ELSE Append(jobs, [LiveJob EXCEPT !.state = "absent"])

-----------------------------------------------------------------------------
(* Reading the cluster: phases.go.                                         *)

InspectJob(job) == CASE job.state = "succeeded" -> "JobSucceeded"
                     [] job.state \in {"failed", "expired"} -> "JobFailed"
                     [] OTHER -> "JobStillRunning"

AnalyzePod(pod) == pod.state \in {"pullError", "oomKilled"}
IsPodRunning(pod) == pod.state = "running"
\* Variant: a wrapper that left no summary is taken at its Job's word.
ResultFromExitCode(pod) ==
    IF pod.state = "done" THEN (IF pod.verdict = "" THEN "passed" ELSE pod.verdict) ELSE ""
ResultFromTermination(pod) == IF pod.state = "done" THEN pod.verdict ELSE ""
\* The reason of the error phase; a Job that exceeded its deadline says so.
FallbackPhaseFromJobFailure(job) == IF job.state = "expired" THEN "JobDeadline" ELSE "MissingResult"

-----------------------------------------------------------------------------
(* The beginning and the end of a reconcile, and its helpers.              *)

Begin == pc = "idle" /\ due

\* A key added while its reconcile runs is handled again after it.
End(requeue) == /\ pc' = "idle" /\ mem' = NoMem /\ inHand' = FALSE
                /\ due' = ((pc # "idle" /\ due) \/ requeue)

\* The reconcile goes on with its write at label l.
Goto(l, ver, r, ip) == /\ pc' = l /\ mem' = [ver |-> ver, run |-> r, ip |-> ip]
                       /\ due' = (pc # "idle" /\ due)

Ended(r, phase, reason) ==
    [r EXCEPT !.phase = phase, !.reason = reason,
              !.stages = IF @ = "" THEN @ ELSE "closed"]

\* transitionTerminal on its own: nothing follows the write.
TransitionTerminal(ver, r, phase, reason) ==
    LET e == Ended(r, phase, reason) IN
    /\ \/ Commit(ver, e) /\ End(FALSE)
       \/ Refused(ver, e) /\ End(TRUE)
    /\ UNCHANGED <<jobs, podVars, row, memory, sent, purge>>

\* Variant: the Job is deleted before the status is written.
DeleteJobAndTerminal(ver, r, phase, reason, job) ==
    LET e == Ended(r, phase, reason) IN
    /\ \/ Commit(ver, e) /\ Goto("persist", ver + 1, e, 0) /\ inHand' = job
       \/ Refused(ver, e) /\ End(TRUE)
    /\ IF job THEN DeleteJobBackground ELSE UNCHANGED jobs
    /\ UNCHANGED <<podVars, row, memory, sent, purge>>

\* terminalAndDeleteJob up to its first write; the rest follows at "persist".
TerminalAndDeleteJob(ver, r, phase, reason, job) ==
    LET e == Ended(r, phase, reason) IN
    /\ \/ Commit(ver, e) /\ Goto("persist", ver + 1, e, 0) /\ inHand' = job
       \/ Refused(ver, e) /\ End(TRUE)
    /\ UNCHANGED <<jobs, podVars, row, memory, sent, purge>>

\* Variant: the run is remembered whatever the store answered.
PersistOnceTried(phase) ==
    IF persisted THEN UNCHANGED <<row, persisted, left>>
    ELSE /\ persisted' = TRUE
         /\ \/ row' = phase /\ UNCHANGED left
            \/ Spend("fault") /\ row' \in {row, phase}

\* persistFinished: the row is an upsert; test cases are a second write, and
\* the run is remembered only after both.
PersistFinished(phase) ==
    IF persisted THEN UNCHANGED <<row, persisted, left>>
    ELSE \/ row' = phase /\ persisted' = TRUE /\ UNCHANGED left
         \/ Spend("fault") /\ row' \in {row, phase} /\ UNCHANGED persisted

-----------------------------------------------------------------------------
(* reconcile, in the order of its early returns.                           *)

\* The TestRun is gone from the cache.
ForgetGone ==
    /\ Begin /\ Cached.gone
    /\ persisted' = FALSE /\ End(FALSE)
    /\ UNCHANGED <<runs, jobs, podVars, row, dispatched, sent, tail, purge, left>>

\* finalize up to the Job's deletion.  (Without our finalizer a TestRun with a
\* deletionTimestamp is gone, so finalize's own early return is ForgetGone.)
Finalize ==
    /\ Begin /\ ~Cached.gone /\ Cached.deleting
    /\ tail' = FALSE /\ persisted' = FALSE
    /\ \/ /\ IF CachedJob.state = "absent" THEN UNCHANGED jobs ELSE DeleteJobBackground
          /\ Goto("removeFinalizer", 1, Cached, 0)
          /\ UNCHANGED <<left, inHand>>
       \/ /\ CachedJob.state # "absent" /\ Spend("fault")
          /\ UNCHANGED jobs \/ DeleteJobBackground
          /\ End(TRUE)
    /\ UNCHANGED <<runs, podVars, row, dispatched, sent, purge>>

RemoveFinalizer ==
    LET e == [mem.run EXCEPT !.fin = FALSE, !.gone = TRUE] IN
    /\ pc = "removeFinalizer"
    /\ \/ Commit(mem.ver, e) /\ End(FALSE)
       \/ Refused(mem.ver, e) /\ End(TRUE)
    /\ UNCHANGED <<jobs, podVars, row, memory, sent, purge>>

AddFinalizer ==
    LET e == [Cached EXCEPT !.fin = TRUE] IN
    /\ Begin /\ ~Cached.gone /\ ~Cached.deleting /\ ~Cached.fin
    /\ \/ Commit(1, e) /\ End(FALSE)
       \/ Refused(1, e) /\ End(TRUE)
    /\ UNCHANGED <<jobs, podVars, row, memory, sent, purge>>

\* Variant: the finalizer is not waited for.
HeldWithoutFinalizer == Begin /\ ~Cached.gone /\ ~Cached.deleting

\* The reconcile is past deletion and the finalizer.
Held == Begin /\ ~Cached.gone /\ ~Cached.deleting /\ Cached.fin

\* Variant: a terminal reconcile announces the run as well.
ReconcileTerminalAnnounces ==
    /\ Held /\ IsTerminalPhase(Cached.phase)
    /\ PersistFinished(Cached.phase)
    /\ Goto("webhook", 1, Cached, 0)
    /\ UNCHANGED <<runs, jobs, podVars, inHand, dispatched, sent, tail, purge>>

\* Variant: a terminal run is left alone altogether.
ReconcileTerminalFrozen ==
    /\ Held /\ IsTerminalPhase(Cached.phase)
    /\ End(FALSE)
    /\ UNCHANGED <<runs, jobs, podVars, row, memory, sent, purge, left>>

\* A terminal run: persistFinished, then expireFinished.
ReconcileTerminal ==
    /\ Held /\ IsTerminalPhase(Cached.phase)
    /\ PersistFinished(Cached.phase)
    /\ Goto("expire", 1, Cached, 0)
    /\ UNCHANGED <<runs, jobs, podVars, inHand, dispatched, sent, tail, purge>>

\* Whether FinishedRunTTL has passed since finishedAt is left open.
ExpireFinished ==
    /\ pc = "expire"
    /\ \/ ~TTLEnabled /\ End(FALSE) /\ UNCHANGED <<runs, left>>
       \/ TTLEnabled /\ End(TRUE) /\ UNCHANGED <<runs, left>>
       \/ TTLEnabled /\ persisted /\ DeleteRun /\ End(FALSE) /\ UNCHANGED left
       \/ /\ TTLEnabled /\ persisted /\ Spend("fault")
          /\ UNCHANGED runs \/ DeleteRun
          /\ End(TRUE)
    /\ UNCHANGED <<jobs, podVars, row, memory, sent, purge>>

Open == Held /\ ~IsTerminalPhase(Cached.phase)

\* reconcileAbort of a leaf run: the Job it deletes is the one in the cache.
ReconcileAbort ==
    /\ Open /\ Cached.abort
    /\ TerminalAndDeleteJob(1, Cached, "aborted", "Aborted", CachedJob.state # "absent")

\* Variant: setup is entered whether or not the run was set up before.
AlwaysUnresolved == Open /\ ~Cached.abort
Unresolved == Open /\ ~Cached.abort /\ ~Cached.spec

\* setup finds a missing Test, template, policy violation, test datum or volume.
SetupFails == Unresolved /\ TransitionTerminal(1, Cached, "error", "SetupFailed")

\* waitForNotBefore and waitForPriors; with nothing new to say, no write.
SetupWaits ==
    LET e == [Cached EXCEPT !.phase = "queued", !.reason = "Waiting", !.stages = "waiting"] IN
    /\ Unresolved /\ Cached # e
    /\ Commit(1, e) \/ Refused(1, e)
    /\ End(TRUE)
    /\ UNCHANGED <<jobs, podVars, row, memory, sent, purge>>

\* Variant: a failed status write is not retried.
SetupQueuesOnce ==
    LET e == [Cached EXCEPT !.phase = "queued", !.reason = "", !.spec = TRUE] IN
    /\ Unresolved
    /\ Commit(1, e) \/ Refused(1, e)
    /\ End(FALSE)
    /\ UNCHANGED <<jobs, podVars, row, memory, sent, purge>>

SetupQueues ==
    LET e == [Cached EXCEPT !.phase = "queued", !.reason = "", !.spec = TRUE] IN
    /\ Unresolved
    /\ \/ Commit(1, e) /\ End(FALSE)
       \/ Refused(1, e) /\ End(TRUE)
    /\ UNCHANGED <<jobs, podVars, row, memory, sent, purge>>

Resolved == Open /\ ~Cached.abort /\ Cached.spec

\* Variant: the cache's NotFound is believed.
OrphanJobMissingByCache ==
    /\ Resolved /\ CachedJob.state = "absent" /\ Cached.jobName
    /\ TransitionTerminal(1, Cached, "error", "OrphanJobMissing")

\* observeOrCreateJob, no Job in the cache though jobName says there was one:
\* a live read confirms it before the run is given up.
OrphanJobMissing ==
    /\ Resolved /\ CachedJob.state = "absent" /\ Cached.jobName
    /\ LiveJob.state = "absent"
    /\ TransitionTerminal(1, Cached, "error", "OrphanJobMissing")

\* createJob: a spec that does not compile, or a Job the API server rejects.
CreateJobFails ==
    /\ Resolved /\ CachedJob.state = "absent" /\ ~Cached.jobName
    /\ TransitionTerminal(1, Cached, "error", "CompileError")

\* createJob: AlreadyExists is success.
Create == jobs' = IF LiveJob.state = "absent"
                  THEN Append(jobs, [gen |-> LiveJob.gen + 1, state |-> "active"])
                  ELSE jobs

CreateJob ==
    /\ Resolved /\ CachedJob.state = "absent" /\ ~Cached.jobName
    /\ \/ Create /\ Goto("jobName", 1, Cached, 0) /\ UNCHANGED <<left, inHand>>
       \/ Spend("fault") /\ (Create \/ UNCHANGED jobs) /\ End(TRUE)
    /\ UNCHANGED <<runs, podVars, row, memory, sent, purge>>

WriteJobName ==
    LET e == [mem.run EXCEPT !.jobName = TRUE] IN
    /\ pc = "jobName"
    /\ \/ Commit(mem.ver, e) /\ End(FALSE)
       \/ Refused(mem.ver, e) /\ End(TRUE)
    /\ UNCHANGED <<jobs, podVars, row, memory, sent, purge>>

\* inspectJob.
Inspecting == Resolved /\ CachedJob.state # "absent"

InspectInfra ==
    /\ Inspecting /\ AnalyzePod(CachedPod)
    /\ TerminalAndDeleteJob(1, [Cached EXCEPT !.stages = CachedPod.state],
                            "error", "Infra", TRUE)

\* Variant: the phase of result.json is taken without validating it.
InspectUnvalidated ==
    LET verdict == IF stored # "" THEN stored ELSE ResultFromTermination(CachedPod) IN
    /\ Inspecting /\ ~AnalyzePod(CachedPod) /\ InspectJob(CachedJob) # "JobStillRunning"
    /\ IF verdict = ""
       THEN TerminalAndDeleteJob(1, Cached, "error", FallbackPhaseFromJobFailure(CachedJob), TRUE)
       ELSE TerminalAndDeleteJob(1, [Cached EXCEPT !.stages = CachedPod.state], verdict, "", TRUE)

InspectConcluded ==
    LET verdict == IF stored # "" THEN stored ELSE ResultFromTermination(CachedPod) IN
    /\ Inspecting /\ ~AnalyzePod(CachedPod) /\ InspectJob(CachedJob) # "JobStillRunning"
    /\ CASE verdict = "malformed" ->
              TerminalAndDeleteJob(1, Cached, "error", "MalformedResult", TRUE)
         [] verdict = "" ->
              TerminalAndDeleteJob(1, Cached, "error", FallbackPhaseFromJobFailure(CachedJob), TRUE)
         [] OTHER ->
              TerminalAndDeleteJob(1, [Cached EXCEPT !.stages = CachedPod.state],
                                   verdict, "", TRUE)

StillRunning == Inspecting /\ ~AnalyzePod(CachedPod) /\ InspectJob(CachedJob) = "JobStillRunning"

NewStages == CachedPod.state # "absent" /\ Cached.stages # CachedPod.state

WriteStages ==
    LET e == [Cached EXCEPT !.stages = CachedPod.state] IN
    /\ StillRunning /\ NewStages
    /\ \/ /\ Commit(1, e)
          /\ IF IsPodRunning(CachedPod)
             THEN Goto("running", 2, e, CachedPod.gen) /\ UNCHANGED inHand
             ELSE End(TRUE)
       \/ Refused(1, e) /\ End(TRUE)
    /\ UNCHANGED <<jobs, podVars, row, memory, sent, purge>>

\* The pod is Running: tail its log, and say so once (and again for a new pod IP).
MarkRunning(ver, r, ip) ==
    LET e == [r EXCEPT !.phase = "running", !.ip = ip] IN
    /\ tail' = TRUE /\ End(TRUE)
    /\ IF e = r THEN UNCHANGED <<runs, left>> ELSE Commit(ver, e) \/ Refused(ver, e)
    /\ UNCHANGED <<jobs, podVars, row, persisted, dispatched, sent, purge>>

ObserveRunning ==
    \/ /\ StillRunning /\ ~NewStages /\ IsPodRunning(CachedPod)
       /\ MarkRunning(1, Cached, CachedPod.gen)
    \/ pc = "running" /\ MarkRunning(mem.ver, mem.run, mem.ip)

-----------------------------------------------------------------------------
(* terminalAndDeleteJob after the terminal phase is written.               *)

Persist ==
    /\ pc = "persist"
    /\ PersistFinished(mem.run.phase)
    /\ pc' = "webhook"
    /\ UNCHANGED <<runs, jobs, podVars, mem, inHand, due, dispatched, sent, tail,
                   purge>>

\* dispatchWebhooks, then StopTailer.  A failed List is logged and forgotten.
DispatchWebhooks ==
    LET phase == mem.run.phase IN
    /\ pc = "webhook"
    /\ \/ /\ phase \notin dispatched
          /\ sent' = Append(sent, phase) /\ dispatched' = dispatched \cup {phase}
          /\ UNCHANGED left
       \/ phase \in dispatched /\ UNCHANGED <<sent, dispatched, left>>
       \/ phase \notin dispatched /\ Spend("fault") /\ UNCHANGED <<sent, dispatched>>
    /\ tail' = FALSE
    /\ IF inHand THEN pc' = "deleteJob" /\ UNCHANGED <<mem, inHand, due>> ELSE End(FALSE)
    /\ UNCHANGED <<runs, jobs, podVars, row, persisted, purge>>

\* Best effort: a failure is logged, not retried.
DeleteJob ==
    /\ pc = "deleteJob"
    /\ \/ DeleteJobBackground /\ UNCHANGED left
       \/ Spend("fault") /\ (DeleteJobBackground \/ UNCHANGED jobs)
    /\ End(FALSE)
    /\ UNCHANGED <<runs, podVars, row, memory, sent, purge>>

\* A crash loses the process's memory; the new process lists every object.
Crash ==
    /\ Spend("crash")
    /\ pc' = "idle" /\ mem' = NoMem /\ inHand' = FALSE /\ due' = TRUE
    /\ runs' = <<Live>> /\ jobs' = <<LiveJob>> /\ pods' = <<LivePod>>
    /\ persisted' = FALSE /\ dispatched' = {} /\ tail' = FALSE
    /\ UNCHANGED <<stored, said, row, sent, purge>>

-----------------------------------------------------------------------------
(* Informers.  Every delivery puts the run's key in the work queue.        *)

operator == <<pc, mem, inHand, persisted, dispatched, sent, tail>>

\* The versions after the cached one; a copy older than the cache has version 0.
RunEvent ==
    /\ Len(runs) > 1 /\ runs' = Tail(runs) /\ due' = TRUE
    /\ mem' = [mem EXCEPT !.ver = IF @ = 0 THEN 0 ELSE @ - 1]
    /\ UNCHANGED <<jobs, podVars, row, pc, inHand, memory, sent, purge, left>>
JobEvent == /\ Len(jobs) > 1 /\ jobs' = Tail(jobs) /\ due' = TRUE
            /\ UNCHANGED <<runs, podVars, row, operator, purge, left>>
PodEvent == /\ Len(pods) > 1 /\ pods' = Tail(pods) /\ due' = TRUE
            /\ UNCHANGED <<runs, jobs, stored, said, row, operator, purge, left>>

-----------------------------------------------------------------------------
(* The API server's handlers and other writers of the TestRun.             *)

\* abortRun and requestAbort: a merge patch, so no version is named; the run
\* they read as not terminal may have ended since.
UserAbort ==
    /\ ~Live.gone /\ ~Live.abort /\ Spend("abort")
    /\ runs' = Append(runs, [Live EXCEPT !.abort = TRUE])
    /\ UNCHANGED <<jobs, podVars, row, operator, due, purge>>

\* kubectl delete.
UserDelete ==
    /\ ~Live.gone /\ ~Live.deleting /\ Spend("delete") /\ DeleteRun
    /\ UNCHANGED <<jobs, podVars, row, operator, due, purge>>

Touch ==
    /\ ~Live.gone /\ Spend("touch")
    /\ runs' = Append(runs, Live)
    /\ UNCHANGED <<jobs, podVars, row, operator, due, purge>>

\* deleteRun: of a finished run, the objects, then the TestRun, then the row.
PurgeObjects ==
    /\ purge = "idle" /\ IsTerminalPhase(Live.phase) /\ (~Live.gone \/ row # "")
    /\ Spend("purge") /\ stored' = "" /\ purge' = "run"
    /\ UNCHANGED <<runs, jobs, pods, said, row, operator, due>>
PurgeRun ==
    /\ purge = "run" /\ DeleteRun /\ purge' = "row"
    /\ UNCHANGED <<jobs, podVars, row, operator, due, left>>
PurgeRow ==
    /\ purge = "row" /\ row' = "" /\ purge' = "done"
    /\ UNCHANGED <<runs, jobs, podVars, operator, due, left>>

-----------------------------------------------------------------------------
(* The Job controller, the kubelet and the wrapper, as the code relies on  *)
(* them: backoffLimit 0, so a Job has one pod.                             *)

outside == <<runs, row, operator, due, purge>>

SetPod(state, verdict) ==
    pods' = Append(pods, [gen |-> LiveJob.gen, state |-> state, verdict |-> verdict])

PodCreated ==
    /\ LiveJob.state = "active" /\ LivePod.gen # LiveJob.gen
    /\ SetPod("pending", "")
    /\ UNCHANGED <<outside, jobs, stored, said, left>>
\* The Job's pod is in one of the given states.
PodIn(states) == LiveJob.state = "active" /\ LivePod.gen = LiveJob.gen /\ LivePod.state \in states
PodPullError ==
    /\ PodIn({"pending"}) /\ SetPod("pullError", "")
    /\ UNCHANGED <<outside, jobs, stored, said, left>>
PodRuns ==
    /\ PodIn({"pending", "pullError"}) /\ SetPod("running", "")
    /\ UNCHANGED <<outside, jobs, stored, said, left>>
\* The tool ends: the wrapper uploads result.json and leaves the verdict in its
\* termination message; the upload may fail, or the wrapper be killed after it.
ToolEnds ==
    /\ PodIn({"running"})
    /\ \E v \in Verdicts :
         /\ said' = said \cup {v}
         /\ \/ SetPod("done", v) /\ stored' \in {stored, v, "malformed"}
            \/ SetPod("done", "") /\ stored' = v
    /\ UNCHANGED <<outside, jobs, left>>
WrapperDies ==
    /\ PodIn({"running"})
    /\ SetPod("done", "") \/ SetPod("oomKilled", "")
    /\ UNCHANGED <<outside, jobs, stored, said, left>>
JobConcludes ==
    /\ PodIn({"done", "oomKilled"})
    /\ jobs' = Append(jobs, [LiveJob EXCEPT !.state = IF LivePod.verdict = "" THEN "failed"
                                                      ELSE "succeeded"])
    /\ UNCHANGED <<outside, podVars, left>>
JobDeadline ==
    /\ PodIn({"pending", "pullError", "running"})
    /\ jobs' = Append(jobs, [LiveJob EXCEPT !.state = "expired"])
    /\ SetPod("absent", "")
    /\ UNCHANGED <<outside, stored, said, left>>
\* ttlSecondsAfterFinished, or someone else deleting the Job.
JobLost ==
    /\ LiveJob.state # "absent" /\ Spend("loss") /\ DeleteJobBackground
    /\ UNCHANGED <<outside, podVars>>
\* Garbage collection along owner references: run -> Job -> pod.
CollectJob ==
    /\ Live.gone /\ LiveJob.state # "absent" /\ DeleteJobBackground
    /\ UNCHANGED <<outside, podVars, left>>
CollectPod ==
    /\ LiveJob.state = "absent" /\ LivePod.state # "absent"
    /\ SetPod("absent", "")
    /\ UNCHANGED <<outside, jobs, stored, said, left>>

-----------------------------------------------------------------------------
\* The steps that call transitionTerminal.
Decides ==
    \/ ReconcileAbort \/ SetupFails \/ OrphanJobMissing \/ CreateJobFails
    \/ InspectInfra \/ InspectConcluded
Reconcile ==
    \/ Decides
    \/ ForgetGone \/ Finalize \/ RemoveFinalizer \/ AddFinalizer
    \/ ReconcileTerminal \/ ExpireFinished
    \/ SetupWaits \/ SetupQueues \/ CreateJob \/ WriteJobName
    \/ WriteStages \/ ObserveRunning
    \/ Persist \/ DispatchWebhooks \/ DeleteJob
Informers == RunEvent \/ JobEvent \/ PodEvent
UserActions == UserAbort \/ UserDelete \/ Touch \/ PurgeObjects \/ PurgeRun \/ PurgeRow
Cluster ==
    \/ PodCreated \/ PodPullError \/ PodRuns \/ ToolEnds \/ WrapperDies
    \/ JobConcludes \/ JobDeadline \/ JobLost \/ CollectJob \/ CollectPod

Next == Reconcile \/ Crash \/ Informers \/ UserActions \/ Cluster

Spec == Init /\ [][Next]_vars

-----------------------------------------------------------------------------
(* Fairness: the work queue is drained, the watches deliver, the operator's *)
(* calls return; the scheduler, kubelet and Job controller make progress.   *)
(* Each disjunct of a reconcile excludes the others but for outcomes that   *)
(* the environment picks.                                                   *)

ClusterProgress == PodCreated \/ PodRuns \/ ToolEnds \/ WrapperDies \/ JobConcludes \/ JobDeadline
Fairness == /\ WF_vars(Reconcile) /\ WF_vars(ClusterProgress)
            /\ WF_vars(RunEvent) /\ WF_vars(JobEvent) /\ WF_vars(PodEvent)
FairSpec == Spec /\ Fairness

-----------------------------------------------------------------------------
(* Properties.                                                             *)

Labels == {"idle", "removeFinalizer", "expire", "jobName", "running", "persist", "webhook",
           "deleteJob"}

ObjectsTyped ==
    /\ runs \in Seq(Run) /\ Len(runs) > 0
    /\ jobs \in Seq(Job) /\ Len(jobs) > 0
    /\ pods \in Seq(Pod) /\ Len(pods) > 0
OutcomeTyped ==
    /\ stored \in Verdicts \cup {"", "malformed"}
    /\ said \in SUBSET Verdicts
    /\ row \in TerminalPhases \cup {""}
    /\ sent \in Seq(TerminalPhases)
    /\ purge \in {"idle", "run", "row", "done"}
    /\ left \in [Kinds -> Nat]
ProcessTyped ==
    /\ pc \in Labels
    /\ mem \in [ver : Nat, run : Run, ip : Nat]
    /\ inHand \in BOOLEAN /\ due \in BOOLEAN
    /\ persisted \in BOOLEAN /\ tail \in BOOLEAN
    /\ dispatched \in SUBSET TerminalPhases

\* Every variable has its type.
TypeOK == ObjectsTyped /\ OutcomeTyped /\ ProcessTyped

\* The event announced for the run, "" while there is none.
Announced == IF sent = <<>> THEN "" ELSE Last(sent)

\* The lifecycle implements RunContract: a phase read from a stale cache, a retried
\* reconcile or a restart never changes a verdict, history and the webhook repeat it.
Contract == INSTANCE RunContract WITH
    phase <- Live.phase, recorded <- row, announced <- Announced, gone <- Live.gone
RefinesContract == Contract!Spec

\* "Terminal phases are frozen": once the live TestRun has a terminal phase, no
\* step changes its phase or its reason.
TerminalIsFinal ==
    [][IsTerminalPhase(Live.phase) =>
         Live'.phase = Live.phase /\ Live'.reason = Live.reason]_vars

\* terminalAndDeleteJob and finalize: but for someone else removing it, a Job
\* disappears only once the run's terminal phase is written or the run is deleted.
CleanupAfterVerdict ==
    [][LiveJob.state # "absent" /\ LiveJob'.state = "absent" /\ left'["loss"] = left["loss"]
         => IsTerminalPhase(Live.phase) \/ Live.deleting]_vars

\* expireFinished: the operator deletes a TestRun on its own only when run
\* history has its verdict.
ExpireOnlyRecorded ==
    [][pc = "expire" /\ pc' = "idle" /\ ~Live.deleting /\ Live'.deleting
         => row = Live.phase]_vars

\* dispatchWebhooks: no phase of a run is announced twice over all the operator's
\* lives, and the end that is announced is the phase the run keeps.
AnnouncedOnce ==
    \A i \in DOMAIN sent :
        /\ \A j \in DOMAIN sent : sent[j] = sent[i] => j = i
        /\ IsTerminalPhase(sent[i]) => sent[i] = Live.phase

\* webhookDedupKey: "a queued->running->passed sequence fires three separate deliveries per
\* subscriber".  It does not hold: only terminalAndDeleteJob calls dispatchWebhooks.
EachPhaseAnnounced ==
    \A p \in {"queued", "running"} :
        Live.phase = p ~> \E i \in DOMAIN sent : sent[i] = p

\* inspectJob: passed and failed are verdicts the wrapper reached, never made up
\* from the Job, a stale pod or an earlier read.
VerdictEarned == Live.phase \in Verdicts => Live.phase \in said

\* observeOrCreateJob: OrphanJobMissing is said only of a Job someone else removed;
\* cache lag, the operator's own cleanup and its restarts never look like it.
OrphanOnlyIfLost == Live.reason = "OrphanJobMissing" => left["loss"] < Budget["loss"]

\* reconcile adds the finalizer before any real work: a run that has a Job cannot
\* leave the cluster without finalize.
FinalizerGuardsJob == LiveJob.state # "absent" => Live.fin \/ Live.gone

\* Every run is eventually decided or deleted: "never eternal running".
EventuallyDecided == <>(IsTerminalPhase(Live.phase) \/ Live.gone)

\* A decided run reaches run history, unless it is deleted first.
EventuallyRecorded ==
    IsTerminalPhase(Live.phase) ~> (row = Live.phase \/ Live.deleting)
=============================================================================
