--------------------------- MODULE WorkersProofs ---------------------------
(***************************************************************************)
(* Proofs about Workers: for any number of workers and any budget of       *)
(* failed calls, crashes, outside deletions, stuck pods and aborts.        *)
(***************************************************************************)
EXTENDS Workers, FiniteSetTheorems, TLAPS

-----------------------------------------------------------------------------
(* The inductive invariant.                                                *)

Steps == StepDone \cup {"", "queued", "running"}
Run == [phase : {"queued", "running"} \cup RunDone, steps : [W -> Steps], counts : Nat,
        abort : BOOLEAN, refused : SUBSET W, rev : Nat]
WorkerJob == [state : {"none", "waiting", "running", "stuck", "done"}, left : {"none"} \cup Verdicts]
Write == [step : {"write"}, status : Run, delete : SUBSET W]
Delete == [step : {"delete"}, delete : SUBSET W, teardown : BOOLEAN]

TypeInv ==
    /\ run \in Run /\ runCache \in Run
    /\ jobs \in [W -> WorkerJob] /\ jobCache \in [W -> WorkerJob]
    /\ pass \in {Idle} \cup Write \cup Delete
    /\ removed \in SUBSET W /\ ended \in [W -> SUBSET Verdicts]

Counted(st) == {w \in W : st.steps[w] \in Ran}

\* A status says nothing its workers did not do, and counts each once.
Sound(st, executions) ==
    /\ \A w \in Counted(st) : st.steps[w] \in executions[w]
    /\ st.phase = "passed" => \A w \in W : st.steps[w] = "passed"
    /\ st.counts = Cardinality(Counted(st))

SoundInv ==
    /\ Sound(run, ended) /\ Sound(runCache, ended)
    /\ pass.step = "write" => Sound(pass.status, ended)
    /\ \A w \in W : /\ jobs[w].left # "none" => jobs[w].left \in ended[w]
                    /\ jobCache[w].left # "none" => jobCache[w].left \in ended[w]

\* The cache lags; at the same resourceVersion it is the same object.
CacheInv ==
    /\ runCache.rev <= run.rev
    /\ runCache.rev = run.rev => runCache = run

\* The operator has no part in the absence of w's Job unless the run is being aborted.
Excused(w) == w \in removed \/ run.abort

\* A Job that is missing although the status expects it, or although the cache has it.
MissingInv ==
    \A w \in W : jobs[w] = NoJob =>
        /\ run.steps[w] \in {"queued", "running"} => Excused(w)
        /\ jobCache[w] # NoJob => Excused(w) \/ run.steps[w] \in StepDone

\* What the pass under way will write, if the write is not refused.
FreshWrite ==
    pass.step = "write" /\ pass.status.rev = run.rev =>
        /\ pass.status.abort = run.abort
        /\ \A w \in W :
              /\ run.steps[w] \in StepDone => pass.status.steps[w] = run.steps[w]
              /\ pass.status.steps[w] = "orphan" => w \in removed
              /\ pass.status.steps[w] \in {"queued", "running"} /\ jobs[w] = NoJob => Excused(w)

PassInv ==
    /\ pass.step = "write" => /\ pass.status.rev <= run.rev
                              /\ \A w \in pass.delete : pass.status.steps[w] \in StepDone
    /\ pass.step = "delete" => \A w \in pass.delete : run.steps[w] \in StepDone
    /\ FreshWrite

OrphanInv == \A w \in W : (run.steps[w] = "orphan" \/ runCache.steps[w] = "orphan") => w \in removed

\* A cached abort is a live one.
AbortInv == runCache.abort => run.abort

Inv == TypeInv /\ SoundInv /\ CacheInv /\ AbortInv /\ MissingInv /\ PassInv /\ OrphanInv

-----------------------------------------------------------------------------
(* The status a pass builds.                                               *)

\* What reconcileWorker makes of one worker.
LEMMA WorkerStatusFacts ==
    ASSUME TypeInv, SoundInv, NEW w \in W, NEW blind
    PROVE  /\ WorkerStatus(runCache, w, blind).step \in Steps
           /\ WorkerStatus(runCache, w, blind).counted <=>
                 /\ WorkerStatus(runCache, w, blind).step \in Ran
                 /\ runCache.steps[w] \notin Ran
           /\ runCache.steps[w] \in StepDone => WorkerStatus(runCache, w, blind).step = runCache.steps[w]
           /\ WorkerStatus(runCache, w, blind).step \in Ran =>
                 WorkerStatus(runCache, w, blind).step \in ended[w]
           /\ WorkerStatus(runCache, w, blind).step = "orphan" =>
                 \/ runCache.steps[w] = "orphan"
                 \/ runCache.steps[w] \in {"queued", "running"} /\ jobs[w] = NoJob
           /\ WorkerStatus(runCache, w, blind).step \in {"queued", "running"} =>
                 \/ Creates(runCache, w)
                 \/ runCache.steps[w] \in {"queued", "running"}
                 \/ jobCache[w] # NoJob /\ runCache.steps[w] \notin StepDone
<1> DEFINE job == jobCache[w]
           step == runCache.steps[w]
           new == WorkerStatus(runCache, w, blind)
<1>1. step \in Steps /\ job \in WorkerJob
  BY DEF TypeInv, Run
<1>2. step \in Ran => step \in ended[w]
  BY DEF SoundInv, Sound, Counted
<1>3. job.left # "none" => job.left \in ended[w]
  BY DEF SoundInv
<1>4. CASE step \in StepDone
  <2>1. new = KeepStep(step)
    BY <1>4 DEF WorkerStatus, Unfinished
  <2>2. new.step = step /\ ~new.counted
    BY <2>1 DEF KeepStep
  <2> HIDE DEF new
  <2> QED  BY <1>1, <1>2, <1>4, <2>2 DEF StepDone, Verdicts, Ran, Lost, new
<1>5. CASE step \notin StepDone /\ job = NoJob /\ step = ""
  <2>1. new = CreateWorker(runCache, w)
    BY <1>5 DEF WorkerStatus, Unfinished
  <2>2. /\ ~new.counted
        /\ new.step = IF Creates(runCache, w) THEN "queued" ELSE "error"
    BY <2>1 DEF CreateWorker, FinishWorker, KeepStep
  <2> HIDE DEF new
  <2> QED  BY <1>5, <2>2 DEF Steps, StepDone, Verdicts, Ran, new
<1>6. CASE step \notin StepDone /\ job = NoJob /\ step # ""
  <2>1. new = Orphaned(runCache, w, blind)
    BY <1>6 DEF WorkerStatus, Unfinished
  <2>2. step \in {"queued", "running"}
    BY <1>1, <1>6 DEF Steps
  <2>3. /\ ~new.counted
        /\ new.step = IF w \in blind THEN "unread" ELSE IF jobs[w] = NoJob THEN "orphan" ELSE step
    BY <2>1 DEF Orphaned, FinishWorker, KeepStep
  <2> HIDE DEF new
  <2> QED  BY <2>2, <2>3 DEF Steps, StepDone, Verdicts, Ran, Lost, new
<1>7. CASE step \notin StepDone /\ job # NoJob /\ job.state = "stuck"
  <2>1. new = FinishWorker("error", FALSE)
    BY <1>7 DEF WorkerStatus, Unfinished
  <2>2. new.step = "error" /\ ~new.counted
    BY <2>1 DEF FinishWorker
  <2> HIDE DEF new
  <2> QED  BY <1>7, <2>2 DEF Steps, StepDone, Verdicts, Ran, new
<1>8. CASE step \notin StepDone /\ job # NoJob /\ job.state = "done"
  <2>1. new = FinishWorker(WorkerResult(job), HasCounts(WorkerResult(job)))
    BY <1>8 DEF WorkerStatus, Unfinished
  <2>2. /\ WorkerResult(job) \in Verdicts
        /\ WorkerResult(job) \in Ran => WorkerResult(job) = job.left /\ job.left # "none"
    BY <1>1 DEF WorkerResult, WorkerJob, Verdicts, Ran
  <2>3. step \notin Ran
    BY <1>8 DEF StepDone, Verdicts
  <2>4. /\ new.counted = HasCounts(WorkerResult(job))
        /\ new.step = WorkerResult(job)
    BY <2>1 DEF FinishWorker
  <2>5. HasCounts(WorkerResult(job)) <=> WorkerResult(job) \in Ran
    BY DEF HasCounts
  <2> HIDE DEF new
  <2> QED  BY <1>3, <1>8, <2>2, <2>3, <2>4, <2>5 DEF Steps, StepDone, Verdicts, Ran, new
<1>9. CASE step \notin StepDone /\ job # NoJob /\ job.state = "running"
  <2>1. new = KeepStep("running")
    BY <1>9 DEF WorkerStatus, Unfinished
  <2>2. new.step = "running" /\ ~new.counted
    BY <2>1 DEF KeepStep
  <2> HIDE DEF new
  <2> QED  BY <1>9, <2>2 DEF Steps, Ran, new
<1>10. CASE step \notin StepDone /\ job # NoJob /\ job.state \notin {"stuck", "done", "running"}
  <2>1. new = KeepStep(step)
    BY <1>10 DEF WorkerStatus, Unfinished
  <2>2. new.step = step /\ ~new.counted
    BY <2>1 DEF KeepStep
  <2>3. step \notin Ran /\ step # "orphan"
    BY <1>10 DEF StepDone, Verdicts, Lost
  <2> HIDE DEF new
  <2> QED  BY <1>1, <1>10, <2>2, <2>3 DEF new
<1> QED  BY <1>4, <1>5, <1>6, <1>7, <1>8, <1>9, <1>10

LEMMA WorkersFinite == IsFiniteSet(W)
  BY FS_Interval, WorkersAssumption DEF W

\* A worker's tests are counted in the pass that finishes it, and in no other.
LEMMA CountsAddUp ==
    ASSUME TypeInv, SoundInv, NEW blind
    PROVE  /\ StatusAfter(runCache, blind) \in Run
           /\ StatusAfter(runCache, blind).counts = Cardinality(Counted(StatusAfter(runCache, blind)))
<1> DEFINE st == StatusAfter(runCache, blind)
           new == {w \in W : WorkerStatus(runCache, w, blind).counted}
<1>1. /\ st.phase = runCache.phase /\ st.abort = runCache.abort /\ st.rev = runCache.rev
      /\ st.steps = [w \in W |-> WorkerStatus(runCache, w, blind).step]
      /\ st.counts = runCache.counts + Cardinality(new)
  BY DEF StatusAfter, TypeInv, Run
<1>2. Counted(st) = Counted(runCache) \cup new /\ Counted(runCache) \cap new = {}
  <2>1. ASSUME NEW w \in W
        PROVE  st.steps[w] \in Ran <=> runCache.steps[w] \in Ran \/ WorkerStatus(runCache, w, blind).counted
    BY <1>1, WorkerStatusFacts DEF StepDone, Verdicts
  <2>2. ASSUME NEW w \in W, WorkerStatus(runCache, w, blind).counted PROVE runCache.steps[w] \notin Ran
    BY <2>2, WorkerStatusFacts
  <2> QED  BY <2>1, <2>2 DEF Counted
<1>3. IsFiniteSet(Counted(runCache)) /\ IsFiniteSet(new)
  BY WorkersFinite, FS_Subset DEF Counted
<1>4. Cardinality(Counted(runCache)) \in Nat /\ Cardinality(new) \in Nat
  BY <1>3, FS_CardinalityType
<1> HIDE DEF new, st
<1>5. Cardinality(Counted(st)) = Cardinality(Counted(runCache)) + Cardinality(new)
  <2>1. Cardinality(Counted(runCache) \cup new)
          = Cardinality(Counted(runCache)) + Cardinality(new) - Cardinality(Counted(runCache) \cap new)
    BY <1>3, FS_Union
  <2>2. Cardinality(Counted(runCache) \cap new) = 0
    BY <1>2, FS_EmptySet
  <2> QED  BY <1>2, <1>4, <2>1, <2>2
<1>6. runCache.counts = Cardinality(Counted(runCache))
  BY DEF SoundInv, Sound
<1>7. st.counts \in Nat
  BY <1>1, <1>4, <1>6
<1>8. st.steps \in [W -> Steps]
  BY <1>1, WorkerStatusFacts
<1>9. st \in Run
  BY <1>7, <1>8 DEF st, StatusAfter, TypeInv, Run
<1> QED  BY <1>1, <1>5, <1>6, <1>9 DEF st

-----------------------------------------------------------------------------
(* The passes.                                                             *)

LEMMA PassTyped ==
    ASSUME TypeInv
    PROVE  /\ pass.step = "write" => pass \in Write /\ pass.status \in Run /\ pass.delete \subseteq W
           /\ pass.step = "delete" => pass \in Delete /\ pass.delete \subseteq W
           /\ pass = Idle => pass.step = "idle"
<1>1. pass \in Write => pass.step = "write" /\ pass.status \in Run /\ pass.delete \subseteq W
  BY DEF Write
<1>2. pass \in Delete => pass.step = "delete" /\ pass.delete \subseteq W
  BY DEF Delete
<1>3. pass = Idle => pass.step = "idle"
  BY DEF Idle
<1> QED  BY <1>1, <1>2, <1>3 DEF TypeInv

LEMMA PassingTyped ==
    ASSUME NEW st \in Run, NEW del \in SUBSET W
    PROVE  /\ Passing(st, del) \in Write /\ Passing(st, del).step = "write"
           /\ Passing(st, del).status = st /\ Passing(st, del).delete = del
  BY DEF Passing, Write

LEMMA PassWorkersStep == ASSUME Inv, PassWorkers PROVE Inv'
<1>0. PICK blind \in SUBSET ReadsLive(runCache) :
         LET st   == StatusAfter(runCache, blind)
             done == \A w \in W : st.steps[w] \in StepDone /\ ~Due(runCache, w)
             next == [st EXCEPT !.phase = IF done THEN AggregateWorkers(st) ELSE "running"]
         IN  pass' = Passing(next, FinishedIn(st))
  BY Zenon DEF PassWorkers
<1> DEFINE st == StatusAfter(runCache, blind)
           done == \A w \in W : st.steps[w] \in StepDone /\ ~Due(runCache, w)
           phase == IF done THEN AggregateWorkers(st) ELSE "running"
           next == [st EXCEPT !.phase = phase]
<1>1. /\ pass = Idle /\ runCache.phase \notin RunDone /\ ~runCache.abort
      /\ pass' = Passing(next, FinishedIn(st))
      /\ jobs' = [w \in W |-> IF Creates(runCache, w) /\ jobs[w] = NoJob THEN Job("waiting") ELSE jobs[w]]
      /\ run' = run /\ runCache' = runCache /\ jobCache' = jobCache /\ removed' = removed /\ ended' = ended
  <2>1. pass' = Passing(next, FinishedIn(st))
    BY <1>0, Zenon
  <2> HIDE DEF next, st
  <2> QED  BY <2>1, Zenon DEF PassWorkers
<1>2. TypeInv /\ SoundInv /\ st \in Run /\ st.counts = Cardinality(Counted(st))
  BY CountsAddUp DEF Inv
<1>3. /\ st.abort = runCache.abort /\ st.rev = runCache.rev
      /\ st.steps = [w \in W |-> WorkerStatus(runCache, w, blind).step]
  BY <1>2 DEF StatusAfter, TypeInv, Run
<1> HIDE DEF st
<1>4. /\ phase \in {"running", "passed", "failed", "error"}
      /\ phase = "passed" => \A w \in W : st.steps[w] = "passed"
  BY DEF AggregateWorkers, StepDone, Verdicts, Ran, Lost
<1> HIDE DEF phase
<1>5. /\ next \in Run /\ next.steps = st.steps /\ next.counts = st.counts /\ next.phase = phase
      /\ next.abort = runCache.abort /\ next.rev = runCache.rev
  BY <1>2, <1>3, <1>4 DEF Run, RunDone, Verdicts, Ran
<1> HIDE DEF next
<1>6. /\ pass' \in Write /\ pass'.step = "write" /\ pass'.status = next /\ pass'.delete = FinishedIn(st)
      /\ FinishedIn(st) \in SUBSET W
  <2>1. FinishedIn(st) \in SUBSET W
    BY DEF FinishedIn
  <2> QED  BY <1>1, <1>5, <2>1, PassingTyped
<1>7. TypeInv'
  <2>1. Job("waiting") \in WorkerJob
    BY DEF Job, WorkerJob
  <2>2. (jobs \in [W -> WorkerJob])'
    BY <1>1, <1>2, <2>1 DEF TypeInv
  <2> QED  BY <1>1, <1>2, <1>6, <2>2 DEF TypeInv
<1>8. SoundInv'
  <2>1. Sound(next, ended)
    <3>1. \A w \in Counted(next) : next.steps[w] \in ended[w]
      BY <1>2, <1>3, <1>5, WorkerStatusFacts DEF Counted
    <3>2. next.counts = Cardinality(Counted(next))
      BY <1>2, <1>5 DEF Counted
    <3> QED  BY <1>4, <1>5, <3>1, <3>2 DEF Sound
  <2>2. ASSUME NEW w \in W PROVE jobs'[w].left # "none" => jobs'[w].left \in ended[w]
    BY <1>1, <1>2 DEF SoundInv, Job
  <2> QED  BY <1>1, <1>2, <1>6, <2>1, <2>2 DEF SoundInv
<1>9. CacheInv' /\ OrphanInv' /\ AbortInv'
  BY <1>1 DEF Inv, CacheInv, OrphanInv, AbortInv
<1>10. ASSUME NEW w \in W PROVE jobs'[w] = NoJob => jobs[w] = NoJob /\ ~Creates(runCache, w)
  BY <1>1 DEF Job, NoJob
<1>11. MissingInv'
  BY <1>1, <1>10 DEF Inv, MissingInv, Excused
<1>12. PassInv'
  <2>1. \A w \in FinishedIn(st) : next.steps[w] \in StepDone
    BY <1>5 DEF FinishedIn
  <2>2. runCache.rev <= run.rev
    BY DEF Inv, CacheInv
  <2>3. ASSUME runCache.rev = run.rev, NEW w \in W
        PROVE  /\ run.steps[w] \in StepDone => next.steps[w] = run.steps[w]
               /\ next.steps[w] = "orphan" => w \in removed
               /\ next.steps[w] \in {"queued", "running"} /\ jobs'[w] = NoJob => w \in removed
    <3>1. runCache = run
      BY <2>3 DEF Inv, CacheInv
    <3>2. next.steps[w] = WorkerStatus(runCache, w, blind).step
      BY <1>3, <1>5
    <3>3. run.steps[w] = "orphan" => w \in removed
      BY DEF Inv, OrphanInv
    <3>4. jobs[w] = NoJob =>
            /\ run.steps[w] \in {"queued", "running"} => w \in removed
            /\ jobCache[w] # NoJob /\ run.steps[w] \notin StepDone => w \in removed
      BY <1>1, <3>1 DEF Inv, MissingInv, Excused
    <3> QED  BY <1>2, <1>10, <3>1, <3>2, <3>3, <3>4, WorkerStatusFacts
  <2>4. ASSUME runCache.rev = run.rev PROVE next.abort = run.abort
    BY <1>5, <2>4 DEF Inv, CacheInv
  <2> QED  BY <1>1, <1>5, <1>6, <2>1, <2>2, <2>3, <2>4 DEF PassInv, FreshWrite, Excused
<1> QED  BY <1>7, <1>8, <1>9, <1>11, <1>12 DEF Inv

\* The Jobs made before a worker's error are Jobs all the same.
LEMMA PassBrokenStep == ASSUME Inv, PassBroken PROVE Inv'
<1>1. PICK k \in 0 .. N - 1 :
        jobs' = [w \in W |-> IF w <= k /\ Creates(runCache, w) /\ jobs[w] = NoJob THEN Job("waiting") ELSE jobs[w]]
  BY DEF PassBroken
<1>2. /\ run' = run /\ runCache' = runCache /\ jobCache' = jobCache /\ pass' = pass
      /\ removed' = removed /\ ended' = ended
  BY DEF PassBroken
<1>3. ASSUME NEW w \in W
      PROVE  /\ jobs'[w] = jobs[w] \/ jobs'[w] = Job("waiting")
             /\ jobs'[w] = NoJob => jobs[w] = NoJob
  BY <1>1 DEF Job, NoJob
<1>4. TypeInv'
  <2>1. Job("waiting") \in WorkerJob
    BY DEF Job, WorkerJob
  <2>2. (jobs \in [W -> WorkerJob])'
    BY <1>1, <2>1 DEF Inv, TypeInv
  <2> QED  BY <1>2, <2>2 DEF Inv, TypeInv
<1>5. SoundInv'
  BY <1>2, <1>3 DEF Inv, SoundInv, Job
<1>6. CacheInv' /\ OrphanInv' /\ AbortInv'
  BY <1>2 DEF Inv, CacheInv, OrphanInv, AbortInv
<1>7. MissingInv'
  BY <1>2, <1>3 DEF Inv, MissingInv, Excused
<1>8. PassInv'
  BY <1>2, <1>3 DEF Inv, PassInv, FreshWrite, Excused
<1> QED  BY <1>4, <1>5, <1>6, <1>7, <1>8 DEF Inv

\* A pass that ends the run as it stands in the cache, whatever it does to the Jobs first.
LEMMA EndingStep ==
    ASSUME Inv, pass = Idle, runCache.phase \notin RunDone, NEW phase \in {"error", "aborted"},
           pass' = Passing([runCache EXCEPT !.phase = phase], {}),
           run' = run, runCache' = runCache, jobCache' = jobCache, removed' = removed, ended' = ended,
           jobs' \in [W -> WorkerJob],
           \A w \in W : jobs'[w] = jobs[w] \/ (jobs'[w] = NoJob /\ run.abort)
    PROVE  Inv'
<1> DEFINE next == [runCache EXCEPT !.phase = phase]
<1>1. /\ next \in Run /\ next.steps = runCache.steps /\ next.counts = runCache.counts
      /\ next.abort = runCache.abort /\ next.rev = runCache.rev /\ next.phase # "passed"
  BY DEF Inv, TypeInv, Run, RunDone, Verdicts, Ran
<1>2. pass' = Passing(next, {})
  OBVIOUS
<1> HIDE DEF next
<1>3. pass' \in Write /\ pass'.step = "write" /\ pass'.status = next /\ pass'.delete = {}
  BY <1>1, <1>2, PassingTyped
<1>4. TypeInv'
  BY <1>3 DEF Inv, TypeInv
<1>5. SoundInv'
  <2>1. Sound(next, ended)
    <3>1. Sound(runCache, ended)
      BY DEF Inv, SoundInv
    <3> QED  BY <1>1, <3>1 DEF Sound, Counted
  <2>2. ASSUME NEW w \in W PROVE jobs'[w].left # "none" => jobs'[w].left \in ended[w]
    BY DEF Inv, SoundInv, NoJob
  <2> QED  BY <1>3, <2>1, <2>2 DEF Inv, SoundInv
<1>6. CacheInv' /\ OrphanInv' /\ AbortInv'
  BY DEF Inv, CacheInv, OrphanInv, AbortInv
<1>7. MissingInv'
  BY DEF Inv, MissingInv, Excused
<1>8. PassInv'
  <2>1. runCache.rev <= run.rev /\ (runCache.rev = run.rev => runCache = run)
    BY DEF Inv, CacheInv
  <2>2. ASSUME runCache.rev = run.rev, NEW w \in W
        PROVE  /\ run.steps[w] \in StepDone => next.steps[w] = run.steps[w]
               /\ next.steps[w] = "orphan" => w \in removed
               /\ next.steps[w] \in {"queued", "running"} /\ jobs'[w] = NoJob => w \in removed \/ run.abort
    BY <1>1, <2>1, <2>2 DEF Inv, OrphanInv, MissingInv, Excused
  <2> QED  BY <1>1, <1>3, <2>1, <2>2 DEF PassInv, FreshWrite, Excused
<1> QED  BY <1>4, <1>5, <1>6, <1>7, <1>8 DEF Inv

LEMMA ServiceNotReadyStep == ASSUME Inv, ServiceNotReady PROVE Inv'
<1>1. /\ pass = Idle /\ runCache.phase \notin RunDone
      /\ pass' = Passing([runCache EXCEPT !.phase = "error"], {})
      /\ run' = run /\ runCache' = runCache /\ jobCache' = jobCache /\ removed' = removed /\ ended' = ended
      /\ jobs' = jobs
  BY DEF ServiceNotReady, objectVars
<1>2. jobs' \in [W -> WorkerJob]
  BY <1>1 DEF Inv, TypeInv
<1> QED  BY <1>1, <1>2, EndingStep

LEMMA PassAbortStep == ASSUME Inv, PassAbort PROVE Inv'
<1>1. /\ pass = Idle /\ runCache.phase \notin RunDone
      /\ pass' = Passing([runCache EXCEPT !.phase = "aborted"], {})
      /\ run' = run /\ runCache' = runCache /\ jobCache' = jobCache /\ removed' = removed /\ ended' = ended
      /\ jobs' = [w \in W |-> IF jobCache[w] # NoJob THEN NoJob ELSE jobs[w]]
  BY DEF PassAbort
<1>2. NoJob \in WorkerJob
  BY DEF NoJob, WorkerJob
<1>3. jobs' \in [W -> WorkerJob]
  BY <1>1, <1>2 DEF Inv, TypeInv
<1>4. run.abort
  BY DEF PassAbort, Inv, AbortInv
<1>5. \A w \in W : jobs'[w] = jobs[w] \/ (jobs'[w] = NoJob /\ run.abort)
  BY <1>1, <1>4
<1> QED  BY <1>1, <1>3, <1>5, EndingStep

-----------------------------------------------------------------------------
(* The end of a pass.                                                      *)

LEMMA WriteStatusStep == ASSUME Inv, WriteStatus PROVE Inv'
<1>1. /\ pass.step = "write" /\ pass \in Write /\ pass.status \in Run /\ pass.delete \subseteq W
      /\ run \in Run /\ TypeInv
  BY PassTyped DEF WriteStatus, Inv, TypeInv
<1>2. /\ pass' = [step |-> "delete", delete |-> {w \in W : DeletesAfter(w)},
                 teardown |-> run.rev = pass.status.rev /\ pass.status.phase \in RunDone]
      /\ runCache' = runCache /\ jobs' = jobs /\ jobCache' = jobCache /\ removed' = removed /\ ended' = ended
  BY DEF WriteStatus, objectVars
<1>3. pass' \in Delete /\ pass'.step = "delete" /\ pass'.delete = {w \in W : DeletesAfter(w)}
  BY <1>2 DEF Delete
<1>4. CASE run.rev # pass.status.rev
  <2>1. run' = run
    BY <1>4 DEF WriteStatus
  <2>2. pass'.delete = {}
    BY <1>3, <1>4 DEF DeletesAfter
  <2>3. TypeInv'
    BY <1>1, <1>2, <1>3, <2>1 DEF TypeInv
  <2>4. (SoundInv /\ CacheInv /\ OrphanInv)'
    BY <1>2, <1>3, <2>1 DEF Inv, SoundInv, CacheInv, OrphanInv
  <2>5. (MissingInv /\ AbortInv)'
    BY <1>2, <1>3, <2>1 DEF Inv, MissingInv, Excused, AbortInv
  <2>6. PassInv'
    BY <1>3, <2>2 DEF PassInv, FreshWrite
  <2> QED  BY <2>3, <2>4, <2>5, <2>6 DEF Inv
<1>5. CASE run.rev = pass.status.rev
  <2>1. run' = [pass.status EXCEPT !.rev = @ + 1]
    BY <1>5 DEF WriteStatus
  <2>2. run.rev \in Nat /\ pass.status.rev \in Nat /\ runCache.rev \in Nat
    BY <1>1 DEF Run, Inv, TypeInv
  <2>3. /\ run' \in Run /\ run'.steps = pass.status.steps /\ run'.counts = pass.status.counts
        /\ run'.phase = pass.status.phase /\ run'.abort = pass.status.abort /\ run'.rev = run.rev + 1
    BY <1>1, <1>5, <2>1, <2>2 DEF Run
  <2>4. TypeInv'
    BY <1>1, <1>2, <1>3, <2>3 DEF TypeInv
  <2>5. SoundInv'
    <3>1. Sound(pass.status, ended)
      BY <1>1 DEF Inv, SoundInv
    <3>2. Sound(run', ended)
      BY <2>3, <3>1 DEF Sound, Counted
    <3> QED  BY <1>2, <1>3, <3>2 DEF Inv, SoundInv
  <2>6. CacheInv'
    <3>1. runCache.rev < run'.rev
      BY <2>2, <2>3 DEF Inv, CacheInv
    <3> QED  BY <1>2, <2>2, <2>3, <3>1 DEF CacheInv
  <2>7. FreshWrite /\ \A w \in pass.delete : pass.status.steps[w] \in StepDone
    BY <1>1 DEF Inv, PassInv
  <2>8. MissingInv'
    BY <1>1, <1>2, <1>5, <2>3, <2>7 DEF Inv, MissingInv, FreshWrite, Excused, StepDone, Verdicts
  <2>9. OrphanInv'
    BY <1>1, <1>2, <1>5, <2>3, <2>7 DEF Inv, OrphanInv, FreshWrite
  <2>10. PassInv'
    <3>1. \A w \in pass'.delete : run'.steps[w] \in StepDone
      BY <1>3, <2>3, <2>7 DEF DeletesAfter
    <3> QED  BY <1>3, <3>1 DEF PassInv, FreshWrite
  <2>11. AbortInv'
    BY <1>1, <1>2, <1>3, <1>5, <2>3, <2>7 DEF Inv, AbortInv, FreshWrite
  <2> QED  BY <2>4, <2>5, <2>6, <2>8, <2>9, <2>10, <2>11 DEF Inv
<1> QED  BY <1>4, <1>5

\* The pass is dropped, and the caches go on, or start anew from what is live.
LEMMA DroppedStep ==
    ASSUME Inv, pass' = Idle, run' = run, jobs' = jobs, removed' = removed, ended' = ended,
           runCache' \in {run, runCache}, jobCache' \in {jobs, jobCache}
    PROVE  Inv'
<1>1. pass'.step = "idle"
  BY DEF Idle
<1>2. TypeInv'
  BY DEF Inv, TypeInv
<1>3. SoundInv'
  BY <1>1 DEF Inv, SoundInv
<1>4. (CacheInv /\ AbortInv /\ OrphanInv)'
  <2>1. run.rev \in Nat
    BY DEF Inv, TypeInv, Run
  <2> QED  BY <2>1 DEF Inv, CacheInv, AbortInv, OrphanInv
<1>5. MissingInv'
  BY DEF Inv, MissingInv, Excused
<1>6. PassInv'
  BY <1>1 DEF PassInv, FreshWrite
<1> QED  BY <1>2, <1>3, <1>4, <1>5, <1>6 DEF Inv

LEMMA WriteFailsStep == ASSUME Inv, WriteFails PROVE Inv'
  BY DroppedStep DEF WriteFails, objectVars

LEMMA OperatorCrashStep == ASSUME Inv, OperatorCrash PROVE Inv'
  BY DroppedStep DEF OperatorCrash

\* The Jobs that are deleted are those of workers whose verdict is in the status.
LEMMA DeleteWorkerJobsStep == ASSUME Inv, DeleteWorkerJobs PROVE Inv'
<1>1. /\ pass.step = "delete" /\ pass' = Idle
      /\ jobs' = [w \in W |-> IF w \in pass.delete THEN NoJob ELSE jobs[w]]
      /\ run' = run /\ runCache' = runCache /\ jobCache' = jobCache /\ removed' = removed /\ ended' = ended
  BY DEF DeleteWorkerJobs
<1>2. pass'.step = "idle"
  BY <1>1 DEF Idle
<1>3. NoJob \in WorkerJob /\ NoJob.left = "none"
  BY DEF NoJob, WorkerJob
<1>4. (jobs \in [W -> WorkerJob])'
  BY <1>1, <1>3 DEF Inv, TypeInv
<1>5. TypeInv'
  BY <1>1, <1>4 DEF Inv, TypeInv
<1>6. SoundInv'
  BY <1>1, <1>2, <1>3 DEF Inv, SoundInv
<1>7. (CacheInv /\ AbortInv /\ OrphanInv)'
  BY <1>1 DEF Inv, CacheInv, AbortInv, OrphanInv
<1>8. \A w \in pass.delete : run.steps[w] \in StepDone
  BY <1>1 DEF Inv, PassInv
<1>9. MissingInv'
  <2>1. \A w \in W : run.steps[w] \in StepDone => run.steps[w] \notin {"queued", "running"}
    BY DEF StepDone, Verdicts, Ran, Lost
  <2> QED  BY <1>1, <1>8, <2>1 DEF Inv, MissingInv, Excused
<1>10. PassInv'
  BY <1>2 DEF PassInv, FreshWrite
<1> QED  BY <1>5, <1>6, <1>7, <1>9, <1>10 DEF Inv

-----------------------------------------------------------------------------
(* The watches and the cluster.                                            *)

\* Caches that catch up disturb no pass under way.
LEMMA WatchStep ==
    ASSUME Inv, run' = run, jobs' = jobs, pass' = pass, removed' = removed, ended' = ended,
           runCache' \in {run, runCache},
           jobCache' \in [W -> WorkerJob], \A w \in W : jobCache'[w] \in {jobs[w], jobCache[w]}
    PROVE  Inv'
<1>1. TypeInv'
  BY DEF Inv, TypeInv
<1>2. SoundInv'
  BY DEF Inv, SoundInv
<1>3. (CacheInv /\ AbortInv /\ OrphanInv)'
  <2>1. run.rev \in Nat
    BY DEF Inv, TypeInv, Run
  <2> QED  BY <2>1 DEF Inv, CacheInv, AbortInv, OrphanInv
<1>4. MissingInv'
  BY DEF Inv, MissingInv, Excused
<1>5. PassInv'
  BY DEF Inv, PassInv, FreshWrite, Excused
<1> QED  BY <1>1, <1>2, <1>3, <1>4, <1>5 DEF Inv

LEMMA WatchRunStep == ASSUME Inv, WatchRun PROVE Inv'
<1>1. jobCache \in [W -> WorkerJob]
  BY DEF Inv, TypeInv
<1> QED  BY <1>1, WatchStep DEF WatchRun, objectVars

LEMMA WatchJobStep == ASSUME Inv, NEW w \in W, WatchJob(w) PROVE Inv'
<1>1. jobCache' \in [W -> WorkerJob] /\ \A v \in W : jobCache'[v] \in {jobs[v], jobCache[v]}
  BY DEF Inv, TypeInv, WatchJob
<1> QED  BY <1>1, WatchStep DEF WatchJob

\* The services' steps touch nothing that the invariant speaks of.
LEMMA ServicesStep ==
    ASSUME Inv, StartService \/ WatchService \/ ServiceReady \/ ServiceBad PROVE Inv'
<1>1. /\ run' = run /\ runCache' = runCache /\ jobs' = jobs /\ jobCache' = jobCache /\ pass' = pass
      /\ removed' = removed /\ ended' = ended
  BY DEF StartService, WatchService, ServiceReady, ServiceBad
<1>2. jobCache \in [W -> WorkerJob]
  BY DEF Inv, TypeInv
<1> QED  BY <1>1, <1>2, WatchStep

\* A Job that runs, gets stuck or ends is still there, and what it leaves it came to.
LEMMA JobRunsStep ==
    ASSUME Inv, run' = run, runCache' = runCache, jobCache' = jobCache, pass' = pass, removed' = removed,
           NEW w \in W, NEW job \in WorkerJob, job # NoJob, jobs' = [jobs EXCEPT ![w] = job],
           ended' \in [W -> SUBSET Verdicts], \A v \in W : ended[v] \subseteq ended'[v],
           job.left # "none" => job.left \in ended'[w]
    PROVE  Inv'
<1>1. jobs \in [W -> WorkerJob]
  BY DEF Inv, TypeInv
<1>2. ASSUME NEW v \in W PROVE jobs'[v] = IF v = w THEN job ELSE jobs[v]
  BY <1>1
<1>3. (jobs \in [W -> WorkerJob])'
  BY <1>1
<1>4. TypeInv'
  BY <1>3 DEF Inv, TypeInv
<1>5. SoundInv'
  <2>1. ASSUME NEW st, Sound(st, ended) PROVE Sound(st, ended')
    BY <2>1 DEF Sound, Counted
  <2>2. ASSUME NEW v \in W
        PROVE  /\ jobs'[v].left # "none" => jobs'[v].left \in ended'[v]
               /\ jobCache[v].left # "none" => jobCache[v].left \in ended'[v]
    BY <1>2 DEF Inv, SoundInv
  <2> QED  BY <2>1, <2>2 DEF Inv, SoundInv
<1>6. (CacheInv /\ AbortInv /\ OrphanInv)'
  BY DEF Inv, CacheInv, AbortInv, OrphanInv
<1>7. MissingInv'
  BY <1>2 DEF Inv, MissingInv, Excused
<1>8. PassInv'
  BY <1>2 DEF Inv, PassInv, FreshWrite, Excused
<1> QED  BY <1>4, <1>5, <1>6, <1>7, <1>8 DEF Inv

LEMMA PodStartsStep == ASSUME Inv, NEW w \in W, PodStarts(w) PROVE Inv'
<1>1. /\ run' = run /\ runCache' = runCache /\ jobCache' = jobCache /\ pass' = pass
      /\ removed' = removed /\ ended' = ended
      /\ \E job \in {Job("running"), Job("stuck")} : jobs' = [jobs EXCEPT ![w] = job]
  BY DEF PodStarts
<1>2. PICK job \in {Job("running"), Job("stuck")} : jobs' = [jobs EXCEPT ![w] = job]
  BY <1>1
<1>3. job \in WorkerJob /\ job # NoJob /\ job.left = "none"
  BY DEF Job, NoJob, WorkerJob
<1>4. ended \in [W -> SUBSET Verdicts]
  BY DEF Inv, TypeInv
<1> QED  BY <1>1, <1>2, <1>3, <1>4, JobRunsStep

LEMMA WorkerEndsStep == ASSUME Inv, NEW w \in W, WorkerEnds(w) PROVE Inv'
<1>1. /\ run' = run /\ runCache' = runCache /\ jobCache' = jobCache /\ pass' = pass /\ removed' = removed
  BY DEF WorkerEnds
<1>2. ended \in [W -> SUBSET Verdicts]
  BY DEF Inv, TypeInv
<1>3. ASSUME NEW left \in Verdicts,
             jobs' = [jobs EXCEPT ![w] = [state |-> "done", left |-> left]],
             ended' = [ended EXCEPT ![w] = @ \cup {left}]
      PROVE  Inv'
  <2>1. /\ [state |-> "done", left |-> left] \in WorkerJob /\ [state |-> "done", left |-> left] # NoJob
        /\ [state |-> "done", left |-> left].left = left
    BY DEF WorkerJob, NoJob
  <2>2. /\ ended' \in [W -> SUBSET Verdicts] /\ left \in ended'[w]
        /\ \A v \in W : ended[v] \subseteq ended'[v]
    BY <1>2, <1>3
  <2> QED  BY <1>1, <1>3, <2>1, <2>2, JobRunsStep
<1>4. ASSUME jobs' = [jobs EXCEPT ![w] = Job("done")], ended' = ended PROVE Inv'
  <2>1. Job("done") \in WorkerJob /\ Job("done") # NoJob /\ Job("done").left = "none"
    BY DEF Job, NoJob, WorkerJob
  <2> QED  BY <1>1, <1>2, <1>4, <2>1, JobRunsStep
<1> QED  BY <1>3, <1>4 DEF WorkerEnds

LEMMA RemoveJobStep == ASSUME Inv, NEW w \in W, RemoveJob(w) PROVE Inv'
<1>1. /\ run' = run /\ runCache' = runCache /\ jobCache' = jobCache /\ pass' = pass /\ ended' = ended
      /\ jobs' = [jobs EXCEPT ![w] = NoJob] /\ removed' = removed \cup {w}
  BY DEF RemoveJob
<1>2. NoJob \in WorkerJob /\ NoJob.left = "none"
  BY DEF NoJob, WorkerJob
<1>3. ASSUME NEW v \in W PROVE jobs'[v] = IF v = w THEN NoJob ELSE jobs[v]
  BY <1>1 DEF Inv, TypeInv
<1>4. TypeInv'
  BY <1>1, <1>2 DEF Inv, TypeInv
<1>5. SoundInv'
  BY <1>1, <1>2, <1>3 DEF Inv, SoundInv
<1>6. (CacheInv /\ AbortInv /\ OrphanInv)'
  BY <1>1 DEF Inv, CacheInv, AbortInv, OrphanInv
<1>7. MissingInv'
  BY <1>1, <1>3 DEF Inv, MissingInv, Excused
<1>8. PassInv'
  BY <1>1, <1>3 DEF Inv, PassInv, FreshWrite, Excused
<1> QED  BY <1>4, <1>5, <1>6, <1>7, <1>8 DEF Inv

\* An abort outdates the cache and the pass under way.
LEMMA RequestAbortStep == ASSUME Inv, RequestAbort PROVE Inv'
<1>1. /\ run' = [run EXCEPT !.abort = TRUE, !.rev = @ + 1]
      /\ runCache' = runCache /\ jobs' = jobs /\ jobCache' = jobCache /\ pass' = pass
      /\ removed' = removed /\ ended' = ended
  BY DEF RequestAbort, objectVars
<1>2. run \in Run /\ run.rev \in Nat /\ runCache.rev \in Nat /\ (pass.step = "write" => pass.status.rev \in Nat)
  BY PassTyped DEF Inv, TypeInv, Run
<1>3. /\ run' \in Run /\ run'.abort = TRUE /\ run'.rev = run.rev + 1 /\ run'.steps = run.steps
      /\ run'.phase = run.phase /\ run'.counts = run.counts
  <2>1. run.rev + 1 \in Nat
    BY <1>2
  <2> QED  BY <1>1, <1>2, <2>1 DEF Run
<1>4. TypeInv'
  BY <1>1, <1>3 DEF Inv, TypeInv
<1>5. SoundInv'
  BY <1>1, <1>3 DEF Inv, SoundInv, Sound, Counted
<1>6. CacheInv'
  <2>1. runCache.rev < run'.rev
    BY <1>2, <1>3 DEF Inv, CacheInv
  <2> QED  BY <1>1, <1>2, <1>3, <2>1 DEF CacheInv
<1>7. (AbortInv /\ OrphanInv)'
  BY <1>1, <1>3 DEF Inv, AbortInv, OrphanInv
<1>8. MissingInv'
  BY <1>1, <1>3 DEF Inv, MissingInv, Excused
<1>9. PassInv'
  <2>1. pass.step = "write" => pass.status.rev < run'.rev
    BY <1>2, <1>3 DEF Inv, PassInv
  <2>2. pass'.step = "write" => pass'.status.rev <= run'.rev /\ pass'.status.rev # run'.rev
    BY <1>1, <1>2, <1>3, <2>1
  <2> QED  BY <1>1, <1>3, <2>2 DEF Inv, PassInv, FreshWrite
<1> QED  BY <1>4, <1>5, <1>6, <1>7, <1>8, <1>9 DEF Inv

-----------------------------------------------------------------------------
(* The theorems.                                                           *)

LEMMA InvInit == WorkersInit => Inv
<1> SUFFICES ASSUME WorkersInit PROVE Inv
  OBVIOUS
<1>0. PICK refused \in Refusals :
         run = [phase |-> "queued", steps |-> [w \in W |-> ""], counts |-> 0, abort |-> FALSE,
                refused |-> refused, rev |-> 0]
  BY DEF WorkersInit
<1>1. /\ run = [phase |-> "queued", steps |-> [w \in W |-> ""], counts |-> 0, abort |-> FALSE,
                refused |-> refused, rev |-> 0]
      /\ refused \in SUBSET W
      /\ runCache = run /\ jobs = [w \in W |-> NoJob] /\ jobCache = jobs
      /\ pass = Idle /\ removed = {} /\ ended = [w \in W |-> {}]
  BY <1>0, WorkersAssumption DEF WorkersInit, W
<1>2. run \in Run /\ NoJob \in WorkerJob /\ NoJob.left = "none" /\ pass.step = "idle"
  BY <1>1 DEF Run, Steps, NoJob, WorkerJob, Idle
<1>3. TypeInv
  BY <1>1, <1>2 DEF TypeInv
<1>4. SoundInv
  <2>1. Counted(run) = {}
    BY <1>1 DEF Counted, Ran
  <2>2. Cardinality({}) = 0
    BY FS_EmptySet
  <2>3. Sound(run, ended)
    BY <1>1, <2>1, <2>2 DEF Sound
  <2> QED  BY <1>1, <1>2, <2>3 DEF SoundInv
<1>5. CacheInv /\ AbortInv /\ OrphanInv /\ MissingInv
  <2>1. CacheInv
    <3>1. run.rev \in Nat
      BY <1>2 DEF Run
    <3>2. runCache = run
      BY <1>1
    <3> QED  BY <3>1, <3>2 DEF CacheInv
  <2>2. AbortInv /\ OrphanInv /\ MissingInv
    BY <1>1 DEF AbortInv, OrphanInv, MissingInv
  <2> QED  BY <2>1, <2>2
<1>6. PassInv
  BY <1>2 DEF PassInv, FreshWrite
<1> QED  BY <1>3, <1>4, <1>5, <1>6 DEF Inv

LEMMA InvStep == Inv /\ [WorkersNext]_workersVars => Inv'
<1>1. ASSUME Inv, WorkersNext PROVE Inv'
  BY <1>1, PassWorkersStep, PassBrokenStep, ServicesStep, ServiceNotReadyStep, PassAbortStep,
     WriteStatusStep, WriteFailsStep, DeleteWorkerJobsStep, OperatorCrashStep, WatchRunStep,
     RequestAbortStep, WatchJobStep, PodStartsStep, WorkerEndsStep, RemoveJobStep
     DEF WorkersNext
<1>2. ASSUME Inv, UNCHANGED workersVars PROVE Inv'
  <2>1. jobCache \in [W -> WorkerJob]
    BY <1>2 DEF Inv, TypeInv
  <2> QED  BY <1>2, <2>1, WatchStep DEF workersVars
<1> QED  BY <1>1, <1>2

\* The inductive invariant: the statuses are sound, the cache lags the API server, a Job is
\* missing only for a reason, and a pass whose write is accepted is up to date.
THEOREM Invariance == Spec => []Inv
  BY InvInit, InvStep, PTL DEF Spec

\* What the run says is what its workers did: a pass needs every worker's, a verdict an
\* execution that came to it, and each worker's tests are counted once, whatever conflicts,
\* crashes and repeated passes there are.
THEOREM ResultsAlwaysAddUp == Spec => []ResultsAddUp
<1>1. Inv => ResultsAddUp
  <2> SUFFICES ASSUME Inv PROVE ResultsAddUp
    OBVIOUS
  <2>1. Sound(run, ended)
    BY DEF Inv, SoundInv
  <2>2. CountedOnce
    BY <2>1 DEF Sound, Counted, CountedOnce
  <2>3. PassNeedsEveryWorker
    BY <2>1 DEF Sound, Counted, PassNeedsEveryWorker, Ran
  <2> QED  BY <2>2, <2>3 DEF ResultsAddUp
<1> QED  BY <1>1, Invariance, PTL

\* The operator never mistakes its own deletion of a finished worker's Job, a stale cache or
\* a lost write for an outsider's deletion: with a live read that succeeds, only a Job that
\* an outsider removed gives its worker up.
THEOREM OrphansAreReal == Spec => []OrphanIsReal
<1>1. Inv => OrphanIsReal
  BY DEF Inv, OrphanInv, OrphanIsReal
<1> QED  BY <1>1, Invariance, PTL
=============================================================================
