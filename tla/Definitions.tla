---------------------------- MODULE Definitions ----------------------------
(***************************************************************************)
(* A Test and its templates while they are being edited: the admission     *)
(* webhooks that check what is written (internal/webhook/v1alpha1), the    *)
(* Test controller that says whether the Test can run                      *)
(* (internal/controller/test_controller.go), and a run that is set up from *)
(* what the operator's caches show and whose Jobs are compiled later       *)
(* (setup and createJob of testrun_controller.go).                         *)
(***************************************************************************)
EXTENDS Compiler

CONSTANTS
    TestPool,           \* the specs users write for the Test, by version
    TemplatePool,       \* the specs they write for each template, by version
    ConfigPool,         \* the configurations a run may ask for
    PodPool,            \* the pod overrides a run may ask for
    OperatorEnv,        \* the environment the operator exposes to expressions
    Objects,            \* the ConfigMaps and Secrets there are
    MaxParallelWorkers, \* workers a run may start
    MaxServiceReplicas, \* replicas a run's services may start
    ListMayFail,        \* whether the cache's List of the Tests may fail
    MaxEdits,           \* bound: writes by users
    MaxRunEdits         \* bound: writes of them where there is a run
ASSUME CapAssumption == {MaxParallelWorkers, MaxServiceReplicas, MaxEdits, MaxRunEdits} \subseteq Nat

VARIABLES
    test, gen,      \* the Test's version and its generation
    tmpl,           \* the version of each template there is
    seen,           \* what the operator's caches show of test, gen, cond and tmpl
    queued,         \* whether the Test controller has the Test to do
    missed,         \* history: the condition was last left alone when it was to change
    cond,           \* the Ready condition: reason, message and observedGeneration
    run,            \* the run: phase, reason, config, pod, resolved spec
    pods,           \* the pods created for it so far: Jobs in order, the workers tried for
                    \* them, service replicas
    edits
dvars == <<test, gen, tmpl, seen, queued, missed, cond, run, pods, edits>>

-----------------------------------------------------------------------------
(* The validating webhook for Tests. Templates have none.                  *)

ValidRetry(r) == r # Unset => r >= 1

\* A verdict is [from, max], max the errorRateMax in percent or Unset.
ValidVerdict(v) ==
    v # Unset => /\ v.from \in {"exitCode", "junit", "jtl"}
                 /\ v.max # Unset => v.from = "jtl" /\ v.max \in 0 .. 100

\* The number of combinations of a matrix, in whatever order its keys are counted.
CombinationCount(matrix) ==
    LET total[n \in 0 .. Len(KeyOrder)] ==
        IF n = 0 THEN 1
        ELSE IF KeyOrder[n] \in DOMAIN matrix THEN total[n - 1] * Len(matrix[KeyOrder[n]])
        ELSE total[n - 1]
    IN  total[Len(KeyOrder)]

RequestedReplicas(svc) == (IF svc.count = Unset THEN 1 ELSE svc.count) * CombinationCount(svc.matrix)

ValidServices(services) ==
    services # Unset =>
      /\ \A s \in DOMAIN services :
           /\ services[s].image # Unset
           /\ services[s].count # Unset => services[s].count >= 1
           /\ \A k \in DOMAIN services[s].matrix : services[s].matrix[k] # <<>>
      /\ FoldFunction(LAMBDA svc, n : RequestedReplicas(svc) + n, 0, services) <= MaxServiceReplicas

RequestedWorkers(p) ==
    CombinationCount(p.matrix)
      * (CASE p.count # Unset -> p.count
           [] p.count = Unset /\ p.shards # <<>> ->
                IF p.maxCount = Unset THEN Longest(p.shards) ELSE Min({Longest(p.shards), p.maxCount})
           [] OTHER -> 1)

ValidParallel(p) ==
    p # Unset =>
      /\ p.maxCount # Unset => p.count = Unset /\ p.shards # <<>>
      /\ \A k \in DOMAIN p.matrix : p.matrix[k] # <<>>
      /\ \A k \in DOMAIN p.shards : p.shards[k] # <<>>
      /\ RequestedWorkers(p) <= MaxParallelWorkers

\* Where test data may be mounted.
DataPath(p) == /\ p \notin {<<>>, DataDir, RepoDir}
               /\ ~\E dir \in PlatformDirs : IsPrefix(dir, p)

ValidContent(s) ==
    /\ s.git # Unset => s.git # "nowhere"
    /\ Cardinality({f \in {"git", "files", "tarball"} : s[f] \notin {Unset, <<>>}}) <= 1
    /\ \A i \in DOMAIN s.files : ~s.files[i].from
    /\ \A i \in DOMAIN s.testData :
         LET d == s.testData[i] IN
         /\ d.kind \in {"configMap", "secret"}
         /\ d.at = Unset \/ d.items = <<>>
         /\ d.at # Unset => DataPath(d.at)
         /\ \A j \in DOMAIN d.items : DataPath(d.items[j])
    /\ IsInjective(TestDataMounts(s.testData))

\* A step is [tests, condition, retry].
ValidComposite(s) ==
    /\ \A f \in {"image", "command", "args", "use", "git", "verdict", "metrics", "services",
                 "parallel", "retry"} : s[f] = Unset
    /\ \A f \in {"files", "tarball", "testData"} : s[f] = <<>>
    /\ \A i \in DOMAIN s.steps : /\ s.steps[i].tests # <<>>
                                 /\ s.steps[i].condition \in {"", "passed", "always"}
                                 /\ ValidRetry(s.steps[i].retry)

ValidLeaf(s) ==
    /\ s.use = Unset => s.image # Unset /\ (s.command # Unset \/ s.args # Unset)
    /\ ValidVerdict(s.verdict) /\ ValidRetry(s.retry)
    /\ ValidServices(s.services) /\ ValidParallel(s.parallel) /\ ValidContent(s)

ValidTest(s) ==
    /\ IF s.steps # Unset THEN ValidComposite(s) ELSE ValidLeaf(s)
    /\ s.concurrencyPolicy \in {"Allow", "Forbid", "Replace"}
    /\ s.schedule # "not cron"
    /\ CheckPod(s.serviceAccountName, s.volumes) /\ CheckContainer(s.securityContext)

\* The defaulting webhook.
Defaulted(s) == [s EXCEPT !.concurrencyPolicy = Or(@, "Allow")]

Overrides(pod) == CheckPod(IF "serviceAccountName" \in DOMAIN pod THEN pod.serviceAccountName ELSE Unset,
                           Overriding(pod, "volumes"))

\* The versions of the Test that are let in.
Admitted == {v \in DOMAIN TestPool : ValidTest(Defaulted(TestPool[v]))}

-----------------------------------------------------------------------------
(* What the Test controller and the resolver make of a version v of the    *)
(* Test with the templates in st.                                          *)

Stores == UNION {{st \in [names -> UNION {DOMAIN TemplatePool[n] : n \in names}] :
                    \A n \in names : st[n] \in DOMAIN TemplatePool[n]} : names \in SUBSET DOMAIN TemplatePool}
Stored(st) == [n \in DOMAIN st |-> TemplatePool[n][st[n]]]

\* The condition's reason, and what its message names.
Readiness(v, st) ==
    LET s == Defaulted(TestPool[v])
        says(reason, message) == [reason |-> reason, message |-> message]
    IN
    IF TemplateMissing(s, Stored(st))
    THEN says("TemplateMissing", Head(SelectSeq(Uses(s), LAMBDA n : n \notin DOMAIN st)))
    ELSE LET merged == MergeTemplates(s, Stored(st)) IN
         IF CheckContent(merged) # "" THEN says(CheckContent(merged), "")
         ELSE IF MissingMainPath(merged) THEN says("ParameterMissing", MainPathParam(merged.config))
         ELSE says("Resolved", "")

ErrorOf(v, st, c) == ResolveError(Defaulted(TestPool[v]), c, Stored(st), OperatorEnv)
SpecOf(v, st, c) == Resolve(Defaulted(TestPool[v]), c, Stored(st), OperatorEnv)

-----------------------------------------------------------------------------
(* Users.                                                                  *)

Edit == /\ edits < IF run.phase = "none" THEN MaxEdits ELSE MaxRunEdits
        /\ edits' = edits + 1

ApplyTest ==
    /\ Edit
    /\ test' \in Admitted \ {test} /\ gen' = gen + 1
    /\ UNCHANGED <<tmpl, seen, queued, missed, cond, run, pods>>

ApplyTemplate ==
    /\ Edit
    /\ \E n \in DOMAIN TemplatePool : \E v \in DOMAIN TemplatePool[n] : tmpl' = Only(n, v) ++ tmpl
    /\ tmpl' # tmpl
    /\ UNCHANGED <<test, gen, seen, queued, missed, cond, run, pods>>

DeleteTemplate ==
    /\ Edit
    /\ \E n \in DOMAIN tmpl : tmpl' = [m \in DOMAIN tmpl \ {n} |-> tmpl[m]]
    /\ UNCHANGED <<test, gen, seen, queued, missed, cond, run, pods>>

CreateRun ==
    /\ run.phase = "none" /\ edits <= MaxRunEdits
    /\ \E c \in ConfigPool, p \in PodPool :
         /\ Overrides(p)
         /\ run' = [run EXCEPT !.phase = "new", !.config = c, !.pod = p]
    /\ UNCHANGED <<test, gen, tmpl, seen, queued, missed, cond, pods, edits>>

\* The override can be rewritten while the run is going; its webhook checks it again.
EditRun ==
    /\ Edit
    /\ run.phase \in {"new", "queued"}
    /\ \E p \in PodPool : Overrides(p) /\ p # run.pod /\ run' = [run EXCEPT !.pod = p]
    /\ UNCHANGED <<test, gen, tmpl, seen, queued, missed, cond, pods>>

-----------------------------------------------------------------------------
(* The Test controller.                                                    *)

\* Watch events bring the caches up to date; a Test with a new generation is queued, one
\* whose status alone has changed is not.
SeeTest ==
    /\ <<seen.gen, seen.cond>> # <<gen, cond>>
    /\ seen' = [seen EXCEPT !.test = test, !.gen = gen, !.cond = cond]
    /\ queued' = (queued \/ seen.gen # gen)
    /\ UNCHANGED <<test, gen, tmpl, missed, cond, run, pods, edits>>

TestUses(s, n) == n \in Range(Uses(s))

Differs(store, other, n) ==
    \/ (n \in DOMAIN store) # (n \in DOMAIN other)
    \/ n \in DOMAIN store \cap DOMAIN other /\ store[n] # other[n]

\* The Tests that use a template are queued, if the List of them succeeds.
SeeTemplate ==
    /\ \E n \in DOMAIN TemplatePool, listed \in IF ListMayFail THEN BOOLEAN ELSE {TRUE} :
         /\ Differs(tmpl, seen.tmpl, n)
         /\ seen' = [seen EXCEPT !.tmpl =
                       [m \in (DOMAIN @ \ {n}) \cup (DOMAIN tmpl \cap {n}) |-> IF m = n THEN tmpl[m] ELSE @[m]]]
         /\ queued' = (queued \/ (listed /\ TestUses(TestPool[seen.test], n)))
         /\ missed' = (missed \/ (~listed /\ TestUses(TestPool[seen.test], n)))
    /\ UNCHANGED <<test, gen, tmpl, cond, run, pods, edits>>

ConditionFor(v, st, g) == [gen |-> g] ++ Readiness(v, st)

\* The condition is patched unless the cached Test has it already.
ReconcileTest ==
    /\ queued /\ queued' = FALSE
    /\ \E new \in {ConditionFor(seen.test, seen.tmpl, seen.gen)} :
         /\ cond' = IF seen.cond = new THEN cond ELSE new
         /\ missed' = (cond' # new)
    /\ UNCHANGED <<test, gen, tmpl, seen, run, pods, edits>>

-----------------------------------------------------------------------------
(* The TestRun reconciler.                                                 *)

\* Variant: only the Test's and the run's own words are checked, as at admission.
PolicyOnWritten(spec, pod) == Overrides(pod)

PolicyCheck(spec, pod) ==
    CheckPod(spec.serviceAccountName, spec.volumes) /\ Overrides(pod) /\ CheckContainer(spec.securityContext)

TestDataMissing(spec) == \E i \in DOMAIN spec.testData : spec.testData[i].name \notin Objects

\* A volume is [kind, source], source Unset if it needs no object.
VolumeMissing(spec, pod) ==
    LET vols == IF "volumes" \in DOMAIN pod THEN pod.volumes ELSE spec.volumes
    IN  \E i \in DOMAIN vols : vols[i].source \notin Objects \cup {Unset}

\* Why a run with this resolved spec cannot start, or "".
SetupError(spec, pod) ==
    IF ~PolicyCheck(spec, pod) THEN "PolicyDenied"
    ELSE IF TestDataMissing(spec) THEN "TestDataMissing"
    ELSE IF VolumeMissing(spec, pod) THEN "VolumeSourceMissing" ELSE ""

Refused(reason) == run' = [run EXCEPT !.phase = "error", !.reason = reason]

SetupRun ==
    /\ run.phase = "new"
    /\ \/ \E error \in {ErrorOf(seen.test, seen.tmpl, run.config)} \ {""} :
            Refused(IF error = "InvalidConfig" THEN error ELSE "ResolveFailed")
       \/ /\ ErrorOf(seen.test, seen.tmpl, run.config) = ""
          /\ \E spec \in {SpecOf(seen.test, seen.tmpl, run.config)} :
               IF SetupError(spec, run.pod) # "" THEN Refused(SetupError(spec, run.pod))
               ELSE run' = [run EXCEPT !.phase = "queued", !.spec = spec]
    /\ UNCHANGED <<test, gen, tmpl, seen, queued, missed, cond, pods, edits>>

\* The workers whose Jobs a run needs; one with no references for an ordinary run.
WorkersOf(spec) ==
    IF spec.parallel = Unset THEN << <<>> >>
    ELSE LET ws == ParallelWorkers(spec.parallel) IN [i \in DOMAIN ws |-> WorkerValues(ws[i])]

\* The services start first, with the override of the time.
StartServices ==
    /\ run.phase = "queued" /\ run.spec.services # Unset /\ pods.services = {}
    /\ pods' = [pods EXCEPT !.services = ServicePods(run.spec, run.pod, "run")]
    /\ UNCHANGED <<test, gen, tmpl, seen, queued, missed, cond, run, edits>>

Uncompiled(spec, job) == ContentError(spec) \/ ~Accepted(job)

\* The Jobs follow one by one.  What cannot be compiled, or is refused by the API server,
\* ends the run, but of a parallel run only that worker.
CreateJobOf ==
    /\ run.phase = "queued" /\ run.spec.steps = Unset
    /\ run.spec.services # Unset => pods.services # {}
    /\ \E workers \in {WorkersOf(run.spec)} :
         \E job \in {CompilePod(run.spec, run.pod, "run", workers[pods.tried + 1])} :
           IF Uncompiled(run.spec, job) /\ run.spec.parallel = Unset
           THEN Refused("CompileError") /\ UNCHANGED pods
           ELSE /\ pods' = [pods EXCEPT !.tried = @ + 1,
                                        !.jobs = IF Uncompiled(run.spec, job) THEN @ ELSE Append(@, job)]
                /\ run' = IF pods.tried + 1 = Len(workers) THEN [run EXCEPT !.phase = "running"] ELSE run
    /\ UNCHANGED <<test, gen, tmpl, seen, queued, missed, cond, edits>>

DefInit ==
    /\ test \in Admitted /\ gen = 1 /\ tmpl \in Stores
    /\ cond = [reason |-> "", message |-> "", gen |-> 0]
    /\ seen = [test |-> test, gen |-> gen, cond |-> cond, tmpl |-> tmpl]
    /\ queued = TRUE /\ missed = FALSE
    /\ run = [phase |-> "none", reason |-> "", config |-> <<>>, pod |-> <<>>, spec |-> Blank]
    /\ pods = [jobs |-> <<>>, tried |-> 0, services |-> {}]
    /\ edits = 0

Caches == SeeTest \/ SeeTemplate
DefNext ==
    \/ ApplyTest \/ ApplyTemplate \/ DeleteTemplate \/ CreateRun \/ EditRun
    \/ Caches \/ ReconcileTest \/ SetupRun \/ StartServices \/ CreateJobOf

\* Watch events arrive, and the Test controller works through its queue: only ReconcileTest
\* takes the Test out of it.
DefFairness == WF_dvars(Caches) /\ WF_queued(queued /\ queued' = FALSE)

-----------------------------------------------------------------------------
(* Properties.                                                             *)

\* Whatever is edited between admission, setup and each Job, every pod the operator creates
\* keeps to the platform's policy, the test's pods carry the run-id by which they are found,
\* and no service replica does (podpolicy.Check, mergeLabels, CompileServices).
PodsAsPromised ==
    LET mine == {pods.jobs[i] : i \in DOMAIN pods.jobs}
        bounded(p) == CheckPod(p.pod.serviceAccountName, p.pod.volumes)
    IN  /\ \A p \in mine : /\ bounded(p) /\ CheckContainer(p.securityContext)
                           /\ p.labels["run-id"] = "run" /\ p.labels["managed-by"] = "kubetest-alt"
        /\ \A p \in pods.services : bounded(p) /\ "run-id" \notin DOMAIN p.labels

\* Nothing is on its way to the Test controller.
CaughtUp == ~queued /\ seen.gen = gen /\ seen.tmpl = tmpl

\* The Test controller and the resolver, which judge a definition apart, agree: a Test it
\* calls not ready has no run that goes without its own configuration, and a Test it calls
\* ready has no run refused for its templates, its content or its main path
\* (readiness against Resolve).
ReadyIsHonest ==
    CaughtUp =>
      IF cond.reason # "Resolved" THEN ErrorOf(test, tmpl, <<>>) # ""
      ELSE \A c \in ConfigPool : \E error \in {ErrorOf(test, tmpl, c)} :
             /\ error \notin {"TemplateMissing", "ContentConflict", "InlineNotSupported"}
             /\ error = "BadConfig" => c # <<>>

\* Once the edits stop, the Ready condition says what the Test and its templates now are,
\* however the events of the two were ordered, and says it honestly; only a pass that takes
\* a lagging status for the condition it would write, or an event whose Tests could not be
\* listed, leaves another (TestReconciler's watches, testsUsing, readiness).
ReadyUnlessMissed ==
    <>[](missed \/ (cond = ConditionFor(test, tmpl, gen) /\ ReadyIsHonest))

\* "A template change re-evaluates the Tests that use it" (SetupWithManager), and once the
\* edits stop the condition is the right one for good.  It does not hold: a pass that reads
\* the Test from before its own last patch may find the condition it would write there, and
\* patch nothing; the status event that follows is filtered out.
ReadyIsTrue == <>[](cond = ConditionFor(test, tmpl, gen))
=============================================================================
