---------------------- MODULE TestRunLifecycleProofs ----------------------
(* Proofs about TestRunLifecycle.                                        *)
EXTENDS TestRunLifecycle, TLAPS

-----------------------------------------------------------------------------
(* Versions: what appending and dropping the head do to a sequence.        *)

LEMMA AppendFacts ==
    ASSUME NEW S, NEW s \in Seq(S), NEW e \in S
    PROVE  /\ Append(s, e) \in Seq(S)
           /\ Len(Append(s, e)) = Len(s) + 1
           /\ Last(Append(s, e)) = e
           /\ \A i \in 1 .. Len(s) : Append(s, e)[i] = s[i]
  BY DEF Last

LEMMA TailFacts ==
    ASSUME NEW S, NEW s \in Seq(S), Len(s) > 1
    PROVE  /\ Tail(s) \in Seq(S)
           /\ Len(Tail(s)) = Len(s) - 1
           /\ Last(Tail(s)) = Last(s)
           /\ \A i \in 1 .. Len(s) - 1 : Tail(s)[i] = s[i + 1]
<1>1. Tail(s) \in Seq(S) /\ Len(Tail(s)) = Len(s) - 1
  OBVIOUS
<1>2. \A i \in 1 .. Len(s) - 1 : Tail(s)[i] = s[i + 1]
  OBVIOUS
<1>3. Last(Tail(s)) = Last(s)
  BY <1>1, <1>2 DEF Last
<1> QED  BY <1>1, <1>2, <1>3

LEMMA SingleFacts ==
    ASSUME NEW S, NEW e \in S
    PROVE  /\ <<e>> \in Seq(S) /\ Len(<<e>>) = 1 /\ Last(<<e>>) = e
           /\ <<e>>[1] = e
  BY DEF Last

LEMMA HeadFacts ==
    ASSUME NEW S, NEW s \in Seq(S), Len(s) > 0
    PROVE  s[1] \in S /\ Last(s) \in S /\ Len(s) \in Nat /\ Len(s) >= 1
  BY DEF Last

LEMMA NextIndex == \A n \in Nat : \A i \in 1 .. n + 1 : i = n + 1 \/ i \in 1 .. n
  OBVIOUS

LEMMA EmptyFacts == ASSUME NEW S PROVE <<>> \in Seq(S)
  OBVIOUS

LEMMA AppendTyped ==
    ASSUME NEW S, NEW s \in Seq(S)
    PROVE  \A e \in S : Append(s, e) \in Seq(S) /\ Len(Append(s, e)) > 0
  OBVIOUS

-----------------------------------------------------------------------------
(* Type correctness.                                                       *)

\* What the reconcile has in hand while it ends a run is a verdict.
EndingTyped == pc \in {"persist", "webhook"} => IsTerminalPhase(mem.run.phase)

TypeInv == TypeOK /\ EndingTyped

LEMMA Current ==
    ASSUME TypeOK
    PROVE  /\ Live \in Run /\ Cached \in Run
           /\ LiveJob \in Job /\ CachedJob \in Job
           /\ LivePod \in Pod /\ CachedPod \in Pod
           /\ Len(runs) \in Nat /\ Len(jobs) \in Nat /\ Len(pods) \in Nat
  BY HeadFacts DEF TypeOK, ObjectsTyped, Live, Cached, LiveJob, CachedJob, LivePod, CachedPod

LEMMA NewRunTyped == NewRun \in Run /\ NoMem \in [ver : Nat, run : Run, ip : Nat]
  BY DEF NewRun, NoMem, Run, Phases, Reasons, PodStates

\* Ending a run keeps it a TestRun.
LEMMA EndedTyped ==
    ASSUME NEW r \in Run, NEW p \in TerminalPhases, NEW q \in Reasons
    PROVE  Ended(r, p, q) \in Run /\ Ended(r, p, q).phase = p
  BY DEF Run, Ended, Phases

LEMMA SpendTyped ==
    ASSUME left \in [Kinds -> Nat], NEW k \in Kinds, Spend(k)
    PROVE  left' \in [Kinds -> Nat]
  BY DEF Spend

LEMMA CommitTyped ==
    ASSUME TypeOK, NEW ver, NEW r \in Run, Commit(ver, r) \/ Refused(ver, r)
    PROVE  runs' \in Seq(Run) /\ Len(runs') > 0 /\ left' \in [Kinds -> Nat]
<1>1. runs \in Seq(Run) /\ Len(runs) > 0 /\ left \in [Kinds -> Nat]
  BY DEF TypeOK, ObjectsTyped, OutcomeTyped
<1>2. Append(runs, r) \in Seq(Run) /\ Len(Append(runs, r)) > 0
  BY <1>1
<1>3. Spend("fault") => left' \in [Kinds -> Nat]
  BY <1>1, SpendTyped DEF Kinds
<1> QED  BY <1>1, <1>2, <1>3 DEF Commit, Refused

LEMMA EndTyped ==
    ASSUME due \in BOOLEAN, NEW b \in BOOLEAN, End(b)
    PROVE  /\ pc' \in Labels /\ mem' \in [ver : Nat, run : Run, ip : Nat]
           /\ inHand' \in BOOLEAN /\ due' \in BOOLEAN /\ EndingTyped'
<1>1. pc' = "idle" /\ mem' = NoMem /\ inHand' = FALSE
  BY DEF End
<1>2. due' \in BOOLEAN
  BY DEF End
<1>3. EndingTyped'
  BY <1>1 DEF EndingTyped
<1> QED  BY <1>1, <1>2, <1>3, NewRunTyped DEF Labels

LEMMA GotoTyped ==
    ASSUME due \in BOOLEAN, NEW l \in Labels, NEW v \in Nat, NEW r \in Run, NEW ip \in Nat,
           l \in {"persist", "webhook"} => IsTerminalPhase(r.phase),
           Goto(l, v, r, ip)
    PROVE  /\ pc' \in Labels /\ mem' \in [ver : Nat, run : Run, ip : Nat]
           /\ due' \in BOOLEAN /\ EndingTyped'
  BY DEF Goto, EndingTyped

LEMMA DeleteRunTyped ==
    ASSUME TypeOK, DeleteRun
    PROVE  runs' \in Seq(Run) /\ Len(runs') > 0
<1>1. runs \in Seq(Run) /\ Len(runs) > 0
  BY DEF TypeOK, ObjectsTyped
<1>2. [Live EXCEPT !.deleting = TRUE, !.gone = ~Live.fin] \in Run
  BY Current DEF Run
<1>3. \A r \in Run : Append(runs, r) \in Seq(Run) /\ Len(Append(runs, r)) > 0
  BY <1>1
<1> QED  BY <1>1, <1>2, <1>3 DEF DeleteRun

LEMMA JobsTyped ==
    ASSUME TypeOK, DeleteJobBackground \/ Create \/ UNCHANGED jobs
    PROVE  jobs' \in Seq(Job) /\ Len(jobs') > 0
<1>1. jobs \in Seq(Job) /\ Len(jobs) > 0
  BY DEF TypeOK, ObjectsTyped
<1>2. [LiveJob EXCEPT !.state = "absent"] \in Job
  BY Current DEF Job
<1>3. [gen |-> LiveJob.gen + 1, state |-> "active"] \in Job
  BY Current DEF Job
<1>4. \A j \in Job : Append(jobs, j) \in Seq(Job) /\ Len(Append(jobs, j)) > 0
  BY <1>1
<1> QED  BY <1>1, <1>2, <1>3, <1>4 DEF DeleteJobBackground, Create

LEMMA SetPodTyped ==
    ASSUME TypeOK, NEW st \in PodStates, NEW v \in Verdicts \cup {""}, SetPod(st, v)
    PROVE  pods' \in Seq(Pod) /\ Len(pods') > 0
<1>1. pods \in Seq(Pod) /\ Len(pods) > 0
  BY DEF TypeOK, ObjectsTyped
<1>2. [gen |-> LiveJob.gen, state |-> st, verdict |-> v] \in Pod
  BY Current DEF Job, Pod
<1>3. \A d \in Pod : Append(pods, d) \in Seq(Pod) /\ Len(Append(pods, d)) > 0
  BY <1>1, AppendTyped
<1> QED  BY <1>2, <1>3 DEF SetPod

LEMMA PersistTyped ==
    ASSUME TypeOK, NEW p \in TerminalPhases, PersistFinished(p)
    PROVE  row' \in TerminalPhases \cup {""} /\ persisted' \in BOOLEAN /\ left' \in [Kinds -> Nat]
<1>1. row \in TerminalPhases \cup {""} /\ persisted \in BOOLEAN /\ left \in [Kinds -> Nat]
  BY DEF TypeOK, OutcomeTyped, ProcessTyped
<1>2. Spend("fault") => left' \in [Kinds -> Nat]
  BY <1>1, SpendTyped DEF Kinds
<1> QED  BY <1>1, <1>2 DEF PersistFinished

\* A step that only writes the TestRun and ends the reconcile.
LEMMA WriteTyped ==
    ASSUME TypeInv, NEW ver, NEW e \in Run, Commit(ver, e) \/ Refused(ver, e),
           End(TRUE) \/ End(FALSE),
           UNCHANGED <<jobs, podVars, row, memory, sent, purge>>
    PROVE  TypeInv'
<1>1. runs' \in Seq(Run) /\ Len(runs') > 0 /\ left' \in [Kinds -> Nat]
  BY CommitTyped DEF TypeInv
<1>2. ObjectsTyped' /\ OutcomeTyped'
  BY <1>1 DEF TypeInv, TypeOK, ObjectsTyped, OutcomeTyped, podVars
<1>3. ProcessTyped' /\ EndingTyped'
  BY EndTyped DEF TypeInv, TypeOK, ProcessTyped, memory
<1> QED  BY <1>2, <1>3 DEF TypeInv, TypeOK

LEMMA TransitionTyped ==
    ASSUME TypeInv, NEW ver, NEW r \in Run, NEW p \in TerminalPhases, NEW q \in Reasons,
           TransitionTerminal(ver, r, p, q)
    PROVE  TypeInv'
  BY EndedTyped, WriteTyped DEF TransitionTerminal

LEMMA TerminalTyped ==
    ASSUME TypeInv, NEW ver \in Nat, NEW r \in Run, NEW p \in TerminalPhases, NEW q \in Reasons,
           NEW b \in BOOLEAN, TerminalAndDeleteJob(ver, r, p, q, b)
    PROVE  TypeInv'
<1> DEFINE e == Ended(r, p, q)
<1>1. e \in Run /\ e.phase = p
  BY EndedTyped
<1>2. CASE Commit(ver, e) /\ Goto("persist", ver + 1, e, 0) /\ inHand' = b
  <2>1. runs' \in Seq(Run) /\ Len(runs') > 0 /\ left' \in [Kinds -> Nat]
    BY <1>1, <1>2, CommitTyped DEF TypeInv
  <2>2. ObjectsTyped' /\ OutcomeTyped'
    BY <2>1 DEF TerminalAndDeleteJob, TypeInv, TypeOK, ObjectsTyped, OutcomeTyped, podVars
  <2>3. ProcessTyped' /\ EndingTyped'
    <3>1. due \in BOOLEAN
      BY DEF TypeInv, TypeOK, ProcessTyped
    <3>2. /\ pc' \in Labels /\ mem' \in [ver : Nat, run : Run, ip : Nat]
          /\ due' \in BOOLEAN /\ EndingTyped'
      BY <1>1, <1>2, <3>1, GotoTyped DEF IsTerminalPhase, Labels
    <3> QED  BY <1>2, <3>2 DEF TerminalAndDeleteJob, TypeInv, TypeOK, ProcessTyped, memory
  <2> QED  BY <2>2, <2>3 DEF TypeInv, TypeOK
<1>3. CASE Refused(ver, e) /\ End(TRUE)
  BY <1>1, <1>3, WriteTyped DEF TerminalAndDeleteJob
<1> QED  BY <1>2, <1>3 DEF TerminalAndDeleteJob

LEMMA TypeInit == Init => TypeInv
<1> SUFFICES ASSUME Init PROVE TypeInv
  OBVIOUS
<1>1. /\ <<NewRun>> \in Seq(Run) /\ Len(<<NewRun>>) > 0
  BY NewRunTyped
<1>2. [gen |-> 0, state |-> "absent"] \in Job
  BY DEF Job
<1>3. [gen |-> 0, state |-> "absent", verdict |-> ""] \in Pod
  BY DEF Pod, PodStates
<1>4. ObjectsTyped
  <2>1. \A j \in Job : <<j>> \in Seq(Job) /\ Len(<<j>>) > 0
    BY SingleFacts
  <2>2. \A p \in Pod : <<p>> \in Seq(Pod) /\ Len(<<p>>) > 0
    BY SingleFacts
  <2>3. jobs \in Seq(Job) /\ Len(jobs) > 0
    BY <1>2, <2>1, Zenon DEF Init
  <2>4. pods \in Seq(Pod) /\ Len(pods) > 0
    BY <1>3, <2>2, Zenon DEF Init
  <2> QED  BY <1>1, <2>3, <2>4, Zenon DEF Init, ObjectsTyped
<1>5. OutcomeTyped
  <2>1. sent = <<>>
    BY DEF Init
  <2>2. sent \in Seq(TerminalPhases)
    BY <2>1, EmptyFacts, Zenon
  <2>3. left \in [Kinds -> Nat]
    BY LifecycleAssumption DEF Init
  <2> QED  BY <2>2, <2>3 DEF Init, OutcomeTyped
<1>6. ProcessTyped /\ EndingTyped
  BY NewRunTyped DEF Init, ProcessTyped, Labels, EndingTyped
<1> QED  BY <1>4, <1>5, <1>6 DEF TypeInv, TypeOK

\* Steps that decide the run.
LEMMA TypeDecides ==
    ASSUME TypeInv, Decides
    PROVE  TypeInv'
<1> USE Current DEF TypeInv
<1>1. [Cached EXCEPT !.stages = CachedPod.state] \in Run
  BY DEF Run, Pod
<1>2. CASE ReconcileAbort
  BY <1>2, TerminalTyped DEF ReconcileAbort, TerminalPhases, Reasons
<1>3. CASE SetupFails
  BY <1>3, TransitionTyped DEF SetupFails, TerminalPhases, Reasons
<1>4. CASE OrphanJobMissing
  BY <1>4, TransitionTyped DEF OrphanJobMissing, TerminalPhases, Reasons
<1>5. CASE CreateJobFails
  BY <1>5, TransitionTyped DEF CreateJobFails, TerminalPhases, Reasons
<1>6. CASE InspectInfra
  BY <1>1, <1>6, TerminalTyped DEF InspectInfra, TerminalPhases, Reasons
<1>7. CASE InspectConcluded
  <2> DEFINE verdict == IF stored # "" THEN stored ELSE ResultFromTermination(CachedPod)
  <2>1. stored \in Verdicts \cup {"", "malformed"}
    BY DEF TypeOK, OutcomeTyped
  <2>2. verdict \in Verdicts \cup {"", "malformed"}
    BY <2>1 DEF ResultFromTermination, Pod
  <2>3. CASE verdict = "malformed"
    BY <1>7, <2>3, TerminalTyped DEF InspectConcluded, TerminalPhases, Reasons
  <2>4. CASE verdict = ""
    BY <1>7, <2>4, TerminalTyped
    DEF InspectConcluded, TerminalPhases, Reasons, FallbackPhaseFromJobFailure
  <2>5. CASE verdict \in Verdicts
    BY <1>1, <1>7, <2>5, TerminalTyped DEF InspectConcluded, TerminalPhases, Reasons, Verdicts
  <2> QED  BY <2>2, <2>3, <2>4, <2>5
<1> QED  BY <1>2, <1>3, <1>4, <1>5, <1>6, <1>7 DEF Decides

\* Writes of the TestRun that leave the run open.
LEMMA TypeWrites ==
    ASSUME TypeInv,
           RemoveFinalizer \/ AddFinalizer \/ SetupWaits \/ SetupQueues \/ WriteJobName
    PROVE  TypeInv'
<1>0. Cached \in Run /\ mem.run \in Run
  BY Current DEF TypeInv, TypeOK, ProcessTyped
<1>1. CASE RemoveFinalizer
  <2>1. [mem.run EXCEPT !.fin = FALSE, !.gone = TRUE] \in Run
    BY <1>0 DEF Run
  <2> QED  BY <1>1, <2>1, WriteTyped DEF RemoveFinalizer
<1>2. CASE AddFinalizer
  <2>1. [Cached EXCEPT !.fin = TRUE] \in Run
    BY <1>0 DEF Run
  <2> QED  BY <1>2, <2>1, WriteTyped DEF AddFinalizer
<1>3. CASE SetupWaits
  <2>1. [Cached EXCEPT !.phase = "queued", !.reason = "Waiting", !.stages = "waiting"] \in Run
    BY <1>0 DEF Run, Phases, Reasons
  <2> QED  BY <1>3, <2>1, WriteTyped DEF SetupWaits
<1>4. CASE SetupQueues
  <2>1. [Cached EXCEPT !.phase = "queued", !.reason = "", !.spec = TRUE] \in Run
    BY <1>0 DEF Run, Phases, Reasons
  <2> QED  BY <1>4, <2>1, WriteTyped DEF SetupQueues
<1>5. CASE WriteJobName
  <2>1. [mem.run EXCEPT !.jobName = TRUE] \in Run
    BY <1>0 DEF Run
  <2> QED  BY <1>5, <2>1, WriteTyped DEF WriteJobName
<1> QED  BY <1>1, <1>2, <1>3, <1>4, <1>5

LEMMA TypeFinish ==
    ASSUME TypeInv, ForgetGone \/ Finalize \/ ReconcileTerminal \/ ExpireFinished
    PROVE  TypeInv'
<1> USE DEF TypeInv
<1>0. due \in BOOLEAN /\ left \in [Kinds -> Nat] /\ Cached \in Run
  BY Current DEF TypeOK, ProcessTyped, OutcomeTyped
<1>1. CASE ForgetGone
  <2>1. ObjectsTyped' /\ OutcomeTyped'
    BY <1>1 DEF ForgetGone, TypeOK, ObjectsTyped, OutcomeTyped, podVars
  <2>2. ProcessTyped' /\ EndingTyped'
    BY <1>0, <1>1, EndTyped DEF ForgetGone, TypeOK, ProcessTyped
  <2> QED  BY <2>1, <2>2 DEF TypeOK
<1>2. CASE Finalize
  <2>1. jobs' \in Seq(Job) /\ Len(jobs') > 0
    BY <1>2, JobsTyped DEF Finalize
  <2>2. left' \in [Kinds -> Nat]
    BY <1>0, <1>2, SpendTyped DEF Finalize, Kinds
  <2>3. ObjectsTyped' /\ OutcomeTyped'
    BY <1>2, <2>1, <2>2 DEF Finalize, TypeOK, ObjectsTyped, OutcomeTyped, podVars
  <2>4. (Goto("removeFinalizer", 1, Cached, 0) /\ UNCHANGED inHand) \/ End(TRUE)
    BY <1>2 DEF Finalize
  <2>5. /\ pc' \in Labels /\ mem' \in [ver : Nat, run : Run, ip : Nat]
        /\ due' \in BOOLEAN /\ EndingTyped' /\ inHand' \in BOOLEAN
    <3>1. CASE End(TRUE)
      BY <1>0, <3>1, EndTyped
    <3>2. CASE Goto("removeFinalizer", 1, Cached, 0) /\ UNCHANGED inHand
      BY <1>0, <3>2, GotoTyped DEF Labels, TypeOK, ProcessTyped
    <3> QED  BY <2>4, <3>1, <3>2
  <2>6. ProcessTyped'
    BY <1>2, <2>5 DEF Finalize, TypeOK, ProcessTyped
  <2> QED  BY <2>3, <2>5, <2>6 DEF TypeOK
<1>3. CASE ReconcileTerminal
  <2>1. row' \in TerminalPhases \cup {""} /\ persisted' \in BOOLEAN /\ left' \in [Kinds -> Nat]
    BY <1>3, PersistTyped DEF ReconcileTerminal, IsTerminalPhase
  <2>2. ObjectsTyped' /\ OutcomeTyped'
    BY <1>3, <2>1 DEF ReconcileTerminal, TypeOK, ObjectsTyped, OutcomeTyped, podVars
  <2>3. /\ pc' \in Labels /\ mem' \in [ver : Nat, run : Run, ip : Nat]
        /\ due' \in BOOLEAN /\ EndingTyped'
    BY <1>0, <1>3, GotoTyped DEF ReconcileTerminal, Labels
  <2>4. ProcessTyped'
    BY <1>3, <2>1, <2>3 DEF ReconcileTerminal, TypeOK, ProcessTyped
  <2> QED  BY <2>2, <2>3, <2>4 DEF TypeOK
<1>4. CASE ExpireFinished
  <2>1. runs' \in Seq(Run) /\ Len(runs') > 0
    <3>1. UNCHANGED runs \/ DeleteRun
      BY <1>4 DEF ExpireFinished
    <3> QED  BY <3>1, DeleteRunTyped DEF TypeOK, ObjectsTyped
  <2>2. left' \in [Kinds -> Nat]
    BY <1>0, <1>4, SpendTyped DEF ExpireFinished, Kinds
  <2>3. ObjectsTyped' /\ OutcomeTyped'
    BY <1>4, <2>1, <2>2 DEF ExpireFinished, TypeOK, ObjectsTyped, OutcomeTyped, podVars
  <2>4. End(TRUE) \/ End(FALSE)
    BY <1>4 DEF ExpireFinished
  <2>5. ProcessTyped' /\ EndingTyped'
    BY <1>0, <1>4, <2>4, EndTyped DEF ExpireFinished, TypeOK, ProcessTyped, memory
  <2> QED  BY <2>3, <2>5 DEF TypeOK
<1> QED  BY <1>1, <1>2, <1>3, <1>4

LEMMA TypeJob ==
    ASSUME TypeInv, CreateJob \/ DeleteJob
    PROVE  TypeInv'
<1> USE DEF TypeInv
<1>0. due \in BOOLEAN /\ left \in [Kinds -> Nat] /\ Cached \in Run /\ inHand \in BOOLEAN
  BY Current DEF TypeOK, ProcessTyped, OutcomeTyped
<1>1. jobs' \in Seq(Job) /\ Len(jobs') > 0
  <2>1. DeleteJobBackground \/ Create \/ UNCHANGED jobs
    BY DEF CreateJob, DeleteJob
  <2> QED  BY <2>1, JobsTyped
<1>2. left' \in [Kinds -> Nat]
  <2>1. UNCHANGED left \/ Spend("fault")
    BY DEF CreateJob, DeleteJob
  <2> QED  BY <1>0, <2>1, SpendTyped DEF Kinds
<1>3. UNCHANGED <<runs, podVars, row, memory, sent, purge>>
  BY DEF CreateJob, DeleteJob
<1>4. ObjectsTyped' /\ OutcomeTyped'
  BY <1>1, <1>2, <1>3 DEF TypeOK, ObjectsTyped, OutcomeTyped, podVars
<1>5. \/ Goto("jobName", 1, Cached, 0) /\ UNCHANGED inHand
      \/ End(TRUE) \/ End(FALSE)
  BY DEF CreateJob, DeleteJob
<1>6. /\ pc' \in Labels /\ mem' \in [ver : Nat, run : Run, ip : Nat]
      /\ due' \in BOOLEAN /\ EndingTyped' /\ inHand' \in BOOLEAN
  <2>1. CASE End(TRUE) \/ End(FALSE)
    BY <1>0, <2>1, EndTyped
  <2>2. CASE Goto("jobName", 1, Cached, 0) /\ UNCHANGED inHand
    BY <1>0, <2>2, GotoTyped DEF Labels
  <2> QED  BY <1>5, <2>1, <2>2
<1>7. ProcessTyped'
  BY <1>3, <1>6 DEF TypeOK, ProcessTyped, memory
<1> QED  BY <1>4, <1>6, <1>7 DEF TypeOK

LEMMA TypeObserve ==
    ASSUME TypeInv, WriteStages \/ ObserveRunning
    PROVE  TypeInv'
<1> USE DEF TypeInv
<1>0. /\ due \in BOOLEAN /\ left \in [Kinds -> Nat] /\ Cached \in Run /\ inHand \in BOOLEAN
      /\ mem.run \in Run /\ mem.ip \in Nat /\ CachedPod \in Pod
  BY Current DEF TypeOK, ProcessTyped, OutcomeTyped
<1>1. CASE WriteStages
  <2> DEFINE e == [Cached EXCEPT !.stages = CachedPod.state]
  <2>1. e \in Run /\ CachedPod.gen \in Nat
    BY <1>0 DEF Run, Pod
  <2>2. CASE End(TRUE)
    BY <1>1, <2>1, <2>2, WriteTyped DEF WriteStages
  <2>3. CASE Commit(1, e) /\ Goto("running", 2, e, CachedPod.gen) /\ UNCHANGED inHand
    <3>1. runs' \in Seq(Run) /\ Len(runs') > 0 /\ left' \in [Kinds -> Nat]
      BY <2>1, <2>3, CommitTyped
    <3>2. ObjectsTyped' /\ OutcomeTyped'
      BY <1>1, <3>1 DEF WriteStages, TypeOK, ObjectsTyped, OutcomeTyped, podVars
    <3>3. /\ pc' \in Labels /\ mem' \in [ver : Nat, run : Run, ip : Nat]
          /\ due' \in BOOLEAN /\ EndingTyped'
      BY <1>0, <2>1, <2>3, GotoTyped DEF Labels
    <3>4. ProcessTyped'
      BY <1>0, <1>1, <2>3, <3>3 DEF WriteStages, TypeOK, ProcessTyped, memory
    <3> QED  BY <3>2, <3>3, <3>4 DEF TypeOK
  <2> QED  BY <1>1, <2>2, <2>3 DEF WriteStages
<1>2. ASSUME NEW ver, NEW r \in Run, NEW ip \in Nat, MarkRunning(ver, r, ip)
      PROVE  TypeInv'
  <2> DEFINE e == [r EXCEPT !.phase = "running", !.ip = ip]
  <2>1. e \in Run
    BY DEF Run, Phases
  <2>2. runs' \in Seq(Run) /\ Len(runs') > 0 /\ left' \in [Kinds -> Nat]
    <3>1. CASE UNCHANGED <<runs, left>>
      BY <3>1 DEF TypeOK, ObjectsTyped, OutcomeTyped
    <3>2. CASE Commit(ver, e) \/ Refused(ver, e)
      BY <2>1, <3>2, CommitTyped
    <3> QED  BY <1>2, <3>1, <3>2 DEF MarkRunning
  <2>3. ObjectsTyped' /\ OutcomeTyped'
    BY <1>2, <2>2 DEF MarkRunning, TypeOK, ObjectsTyped, OutcomeTyped, podVars
  <2>4. End(TRUE)
    BY <1>2 DEF MarkRunning
  <2>5. ProcessTyped' /\ EndingTyped'
    BY <1>0, <1>2, <2>4, EndTyped DEF MarkRunning, TypeOK, ProcessTyped
  <2> QED  BY <2>3, <2>5 DEF TypeOK
<1>3. CASE ObserveRunning
  <2>1. CachedPod.gen \in Nat
    BY <1>0 DEF Pod
  <2> QED  BY <1>0, <1>2, <1>3, <2>1 DEF ObserveRunning
<1> QED  BY <1>1, <1>3

LEMMA TypeEnding ==
    ASSUME TypeInv, Persist \/ DispatchWebhooks
    PROVE  TypeInv'
<1> USE DEF TypeInv
<1>0. /\ due \in BOOLEAN /\ left \in [Kinds -> Nat] /\ inHand \in BOOLEAN
      /\ mem \in [ver : Nat, run : Run, ip : Nat]
      /\ sent \in Seq(TerminalPhases) /\ dispatched \in SUBSET TerminalPhases
  BY DEF TypeOK, ProcessTyped, OutcomeTyped
<1>1. mem.run.phase \in TerminalPhases
  BY DEF EndingTyped, IsTerminalPhase, Persist, DispatchWebhooks
<1>2. CASE Persist
  <2>1. row' \in TerminalPhases \cup {""} /\ persisted' \in BOOLEAN /\ left' \in [Kinds -> Nat]
    BY <1>1, <1>2, PersistTyped DEF Persist
  <2>2. ObjectsTyped' /\ OutcomeTyped'
    BY <1>2, <2>1 DEF Persist, TypeOK, ObjectsTyped, OutcomeTyped, podVars
  <2>3. ProcessTyped' /\ EndingTyped'
    BY <1>1, <1>2, <2>1 DEF Persist, TypeOK, ProcessTyped, Labels, EndingTyped, IsTerminalPhase
  <2> QED  BY <2>2, <2>3 DEF TypeOK
<1>3. CASE DispatchWebhooks
  <2>1. left' \in [Kinds -> Nat]
    <3>1. UNCHANGED left \/ Spend("fault")
      BY <1>3 DEF DispatchWebhooks
    <3> QED  BY <1>0, <3>1, SpendTyped DEF Kinds
  <2>2. sent' \in Seq(TerminalPhases) /\ dispatched' \in SUBSET TerminalPhases
    <3>1. Append(sent, mem.run.phase) \in Seq(TerminalPhases)
      BY <1>0, <1>1, AppendTyped
    <3>2. sent' \in {sent, Append(sent, mem.run.phase)}
      BY <1>3 DEF DispatchWebhooks
    <3>3. dispatched' \in {dispatched, dispatched \cup {mem.run.phase}}
      BY <1>3 DEF DispatchWebhooks
    <3> QED  BY <1>0, <1>1, <3>1, <3>2, <3>3
  <2>3. ObjectsTyped' /\ OutcomeTyped'
    BY <1>3, <2>1, <2>2 DEF DispatchWebhooks, TypeOK, ObjectsTyped, OutcomeTyped, podVars
  <2>4. /\ pc' \in Labels /\ mem' \in [ver : Nat, run : Run, ip : Nat]
        /\ inHand' \in BOOLEAN /\ due' \in BOOLEAN /\ EndingTyped'
    <3>1. CASE End(FALSE)
      BY <1>0, <3>1, EndTyped
    <3>2. CASE pc' = "deleteJob" /\ UNCHANGED <<mem, inHand, due>>
      BY <1>0, <3>2 DEF Labels, EndingTyped
    <3> QED  BY <1>3, <3>1, <3>2 DEF DispatchWebhooks
  <2>5. ProcessTyped'
    BY <1>3, <2>2, <2>4 DEF DispatchWebhooks, TypeOK, ProcessTyped
  <2> QED  BY <2>3, <2>4, <2>5 DEF TypeOK
<1> QED  BY <1>2, <1>3

\* The operator's process is not touched by what the others do, but for its queue.
LEMMA OutsideTyped ==
    ASSUME TypeInv, UNCHANGED operator, due' \in BOOLEAN
    PROVE  ProcessTyped' /\ EndingTyped'
  BY DEF TypeInv, TypeOK, ProcessTyped, EndingTyped, operator

LEMMA TypeCrash == ASSUME TypeInv, Crash PROVE TypeInv'
<1> USE DEF TypeInv
<1>1. runs' \in Seq(Run) /\ Len(runs') > 0
  BY Current, SingleFacts DEF Crash
<1>2. jobs' \in Seq(Job) /\ Len(jobs') > 0
  BY Current, SingleFacts DEF Crash
<1>3. pods' \in Seq(Pod) /\ Len(pods') > 0
  BY Current, SingleFacts DEF Crash
<1>4. left' \in [Kinds -> Nat]
  BY SpendTyped DEF Crash, Kinds, TypeOK, OutcomeTyped
<1>5. OutcomeTyped'
  BY <1>4 DEF Crash, TypeOK, OutcomeTyped
<1>6. ProcessTyped' /\ EndingTyped'
  BY NewRunTyped DEF Crash, ProcessTyped, Labels, EndingTyped
<1> QED  BY <1>1, <1>2, <1>3, <1>5, <1>6 DEF TypeOK, ObjectsTyped

LEMMA TypeInformers == ASSUME TypeInv, Informers PROVE TypeInv'
<1> USE DEF TypeInv
<1>0. /\ runs \in Seq(Run) /\ jobs \in Seq(Job) /\ pods \in Seq(Pod)
      /\ Len(runs) > 0 /\ Len(jobs) > 0 /\ Len(pods) > 0
      /\ mem \in [ver : Nat, run : Run, ip : Nat]
  BY DEF TypeOK, ObjectsTyped, ProcessTyped
<1>1. CASE RunEvent
  <2>1. runs' \in Seq(Run) /\ Len(runs') > 0
    BY <1>0, <1>1, TailFacts DEF RunEvent
  <2>2. mem' \in [ver : Nat, run : Run, ip : Nat] /\ mem'.run = mem.run
    <3> DEFINE v == IF mem.ver = 0 THEN 0 ELSE mem.ver - 1
    <3>1. mem' = [mem EXCEPT !.ver = v]
      BY <1>1 DEF RunEvent
    <3>2. v \in Nat
      BY <1>0
    <3> HIDE DEF v
    <3> QED  BY <1>0, <3>1, <3>2
  <2>3. ObjectsTyped' /\ OutcomeTyped'
    BY <1>1, <2>1 DEF RunEvent, TypeOK, ObjectsTyped, OutcomeTyped, podVars
  <2>4. ProcessTyped' /\ EndingTyped'
    BY <1>1, <2>2 DEF RunEvent, TypeOK, ProcessTyped, EndingTyped, memory
  <2> QED  BY <2>3, <2>4 DEF TypeOK
<1>2. CASE JobEvent
  <2>1. jobs' \in Seq(Job) /\ Len(jobs') > 0
    BY <1>0, <1>2, TailFacts DEF JobEvent
  <2>2. ObjectsTyped' /\ OutcomeTyped'
    BY <1>2, <2>1 DEF JobEvent, TypeOK, ObjectsTyped, OutcomeTyped, podVars, operator
  <2> QED  BY <1>2, <2>2, OutsideTyped DEF JobEvent, TypeOK
<1>3. CASE PodEvent
  <2>1. pods' \in Seq(Pod) /\ Len(pods') > 0
    BY <1>0, <1>3, TailFacts DEF PodEvent
  <2>2. ObjectsTyped' /\ OutcomeTyped'
    BY <1>3, <2>1 DEF PodEvent, TypeOK, ObjectsTyped, OutcomeTyped, operator
  <2> QED  BY <1>3, <2>2, OutsideTyped DEF PodEvent, TypeOK
<1> QED  BY <1>1, <1>2, <1>3 DEF Informers

LEMMA TypeUsers == ASSUME TypeInv, UserActions PROVE TypeInv'
<1> USE DEF TypeInv
<1>0. due \in BOOLEAN /\ left \in [Kinds -> Nat] /\ runs \in Seq(Run) /\ Len(runs) > 0
  BY DEF TypeOK, ObjectsTyped, ProcessTyped, OutcomeTyped
<1>1. ProcessTyped' /\ EndingTyped'
  <2>1. UNCHANGED operator /\ UNCHANGED due
    BY DEF UserActions, UserAbort, UserDelete, Touch, PurgeObjects, PurgeRun, PurgeRow
  <2> QED  BY <1>0, <2>1, OutsideTyped
<1>2. runs' \in Seq(Run) /\ Len(runs') > 0
  <2>1. [Live EXCEPT !.abort = TRUE] \in Run /\ Live \in Run
    BY Current DEF Run
  <2>2. \A r \in Run : Append(runs, r) \in Seq(Run) /\ Len(Append(runs, r)) > 0
    BY <1>0, AppendTyped
  <2>3. CASE UserAbort
    BY <2>1, <2>2, <2>3 DEF UserAbort
  <2>4. CASE Touch
    BY <2>1, <2>2, <2>4 DEF Touch
  <2>5. CASE UserDelete \/ PurgeRun
    BY <2>5, DeleteRunTyped DEF UserDelete, PurgeRun
  <2>6. CASE PurgeObjects \/ PurgeRow
    BY <1>0, <2>6 DEF PurgeObjects, PurgeRow
  <2> QED  BY <2>3, <2>4, <2>5, <2>6 DEF UserActions
<1>3. left' \in [Kinds -> Nat]
  <2>1. UNCHANGED left \/ Spend("abort") \/ Spend("delete") \/ Spend("touch") \/ Spend("purge")
    BY DEF UserActions, UserAbort, UserDelete, Touch, PurgeObjects, PurgeRun, PurgeRow
  <2> QED  BY <1>0, <2>1, SpendTyped DEF Kinds
<1>4. /\ UNCHANGED <<jobs, pods, said, sent>>
      /\ stored' \in {stored, ""} /\ row' \in {row, ""}
      /\ purge' \in {purge, "run", "row", "done"}
  BY DEF UserActions, UserAbort, UserDelete, Touch, PurgeObjects, PurgeRun, PurgeRow,
         operator, podVars
<1>5. ObjectsTyped' /\ OutcomeTyped'
  BY <1>2, <1>3, <1>4 DEF TypeOK, ObjectsTyped, OutcomeTyped
<1> QED  BY <1>1, <1>5 DEF TypeOK

LEMMA TypeCluster == ASSUME TypeInv, Cluster PROVE TypeInv'
<1> USE DEF TypeInv
<1>0. /\ due \in BOOLEAN /\ left \in [Kinds -> Nat]
      /\ jobs \in Seq(Job) /\ Len(jobs) > 0 /\ pods \in Seq(Pod) /\ Len(pods) > 0
      /\ stored \in Verdicts \cup {"", "malformed"} /\ said \in SUBSET Verdicts
  BY DEF TypeOK, ObjectsTyped, ProcessTyped, OutcomeTyped
<1>1. UNCHANGED outside
  BY DEF Cluster, PodCreated, PodPullError, PodRuns, ToolEnds, WrapperDies, JobConcludes,
         JobDeadline, JobLost, CollectJob, CollectPod
<1>2. ProcessTyped' /\ EndingTyped'
  BY <1>0, <1>1, OutsideTyped DEF outside
<1>3. left' \in [Kinds -> Nat]
  <2>1. UNCHANGED left \/ Spend("loss")
    BY DEF Cluster, PodCreated, PodPullError, PodRuns, ToolEnds, WrapperDies, JobConcludes,
           JobDeadline, JobLost, CollectJob, CollectPod
  <2> QED  BY <1>0, <2>1, SpendTyped DEF Kinds
<1>4. /\ stored' \in Verdicts \cup {"", "malformed"}
      /\ said' \in SUBSET Verdicts
  BY <1>0 DEF Cluster, PodCreated, PodPullError, PodRuns, ToolEnds, WrapperDies, JobConcludes,
              JobDeadline, JobLost, CollectJob, CollectPod, podVars
<1>5. jobs' \in Seq(Job) /\ Len(jobs') > 0
  <2>1. \A s \in {"succeeded", "failed", "expired"} : [LiveJob EXCEPT !.state = s] \in Job
    BY Current DEF Job
  <2>2. \A j \in Job : Append(jobs, j) \in Seq(Job) /\ Len(Append(jobs, j)) > 0
    BY <1>0, AppendTyped
  <2>3. CASE JobConcludes \/ JobDeadline
    BY <2>1, <2>2, <2>3 DEF JobConcludes, JobDeadline
  <2>4. CASE JobLost \/ CollectJob
    BY <2>4, JobsTyped DEF JobLost, CollectJob
  <2>5. CASE UNCHANGED jobs
    BY <1>0, <2>5
  <2> QED  BY <2>3, <2>4, <2>5 DEF Cluster, PodCreated, PodPullError, PodRuns, ToolEnds,
                                   WrapperDies, CollectPod
<1>6. pods' \in Seq(Pod) /\ Len(pods') > 0
  <2>1. \A st \in PodStates, v \in Verdicts \cup {""} :
            SetPod(st, v) => pods' \in Seq(Pod) /\ Len(pods') > 0
    BY SetPodTyped
  <2>2. \/ UNCHANGED pods
        \/ \E st \in PodStates, v \in Verdicts \cup {""} : SetPod(st, v)
    BY DEF Cluster, PodCreated, PodPullError, PodRuns, ToolEnds, WrapperDies, JobConcludes,
           JobDeadline, JobLost, CollectJob, CollectPod, podVars, PodStates
  <2> QED  BY <1>0, <2>1, <2>2
<1>7. ObjectsTyped' /\ OutcomeTyped'
  BY <1>1, <1>3, <1>4, <1>5, <1>6
     DEF TypeOK, ObjectsTyped, OutcomeTyped, outside, operator
<1> QED  BY <1>2, <1>7 DEF TypeOK

LEMMA TypeStep == TypeInv /\ [Next]_vars => TypeInv'
<1> SUFFICES ASSUME TypeInv, [Next]_vars PROVE TypeInv'
  OBVIOUS
<1>1. CASE Reconcile
  BY <1>1, TypeDecides, TypeWrites, TypeFinish, TypeJob, TypeObserve, TypeEnding DEF Reconcile
<1>2. CASE UNCHANGED vars
  BY <1>2 DEF vars, TypeInv, TypeOK, ObjectsTyped, OutcomeTyped, ProcessTyped, EndingTyped
<1> QED  BY <1>1, <1>2, TypeCrash, TypeInformers, TypeUsers, TypeCluster DEF Next

\* Type correctness of the lifecycle, for every budget and either TTL setting: in
\* particular the phase that inspectJob takes from result.json or the termination
\* message is always a phase of the API.
THEOREM TypeCorrect == Spec => []TypeOK
<1>1. Spec => []TypeInv
  BY TypeInit, TypeStep, PTL DEF Spec
<1>2. TypeInv => TypeOK
  BY DEF TypeInv
<1> QED  BY <1>1, <1>2, PTL

-----------------------------------------------------------------------------
(* The inductive invariant.  Its heart is Follows: what every version of the  *)
(* TestRun leaves true for all later ones.  A reconcile works on an old       *)
(* version, from the cache or from memory; Follows is what it may conclude    *)
(* from that version about the live TestRun.                                  *)

\* A version a may be followed, sooner or later, by the version b.
Follows(a, b) ==
    /\ IsTerminalPhase(a.phase) => b.phase = a.phase /\ b.reason = a.reason
    /\ a.deleting => b.deleting
    /\ a.gone => b.gone
    /\ a.fin => b.fin \/ b.gone

\* What each version satisfies by itself.
Sane(r) ==
    /\ r.phase = "" => ~r.spec
    /\ r.phase = "running" => r.spec
    /\ r.gone => r.deleting

\* The moves of the phase from one version to the next.
PhaseMove(a, b) ==
    \/ b.phase = a.phase
    \/ /\ ~a.gone /\ ~b.gone
       /\ \/ a.phase = "" /\ b.phase = "queued"
          \/ a.phase = "queued" /\ b.phase = "running"
          \/ ~IsTerminalPhase(a.phase) /\ IsTerminalPhase(b.phase)

Writable(a, b) == Follows(a, b) /\ Sane(b) /\ PhaseMove(a, b)

\* From a to b the run is not decided.
Stays(a, b) == b.phase = a.phase \/ ~IsTerminalPhase(b.phase)

VersionsInv == \A i \in 1 .. Len(runs) : Sane(runs[i]) /\ Follows(runs[i], Live)

\* The reconcile's copy is the version it says it is, and Live follows it.
CopyInv ==
    /\ pc # "idle" =>
         /\ Sane(mem.run) /\ ~mem.run.gone /\ Follows(mem.run, Live)
         /\ mem.ver # 0 => mem.ver <= Len(runs) /\ mem.run = runs[mem.ver]
    /\ pc = "running" => mem.run.phase \in {"queued", "running"} /\ mem.run.spec
    /\ pc = "removeFinalizer" => mem.run.deleting
    /\ pc \in {"persist", "webhook", "deleteJob", "expire"} => IsTerminalPhase(mem.run.phase)

\* Between the terminal write and the webhook, nothing has been announced.
SentInv ==
    /\ sent # <<>> => Len(sent) = 1 /\ IsTerminalPhase(Live.phase) /\ sent[1] = Live.phase
    /\ pc \in {"persist", "webhook"} => sent = <<>>

\* What is remembered as persisted is in the history, or was erased after the run.
PersistInv ==
    /\ persisted => IsTerminalPhase(Live.phase) /\ (row = Live.phase \/ purge \in {"row", "done"})
    /\ purge \in {"row", "done"} => Live.deleting

\* Every verdict to be found anywhere was reached by the wrapper.
VerdictInv ==
    /\ stored \in Verdicts => stored \in said
    /\ \A i \in 1 .. Len(pods) : pods[i].verdict \in Verdicts => pods[i].verdict \in said
    /\ VerdictEarned

Inv == VersionsInv /\ CopyInv /\ SentInv /\ PersistInv /\ FinalizerGuardsJob /\ VerdictInv

LEMMA FollowsFacts ==
    /\ \A a : Follows(a, a) /\ PhaseMove(a, a)
    /\ \A a, b, c : Follows(a, b) /\ Follows(b, c) => Follows(a, c)
  BY DEF Follows, PhaseMove

\* What a step may do to the versions of the TestRun.
Appends == \E r \in Run : runs' = Append(runs, r) /\ Writable(Live, r)
Keeps == \E r \in Run : runs' = Append(runs, r) /\ Writable(Live, r) /\ Stays(Live, r)
Forgets == Len(runs) > 1 /\ runs' = Tail(runs)
Relists == runs' = <<Live>>
Moves == UNCHANGED runs \/ Appends \/ Forgets \/ Relists

LEMMA KeepsAppends == Keeps => Appends
  BY DEF Keeps, Appends

LEMMA VersionsStep ==
    ASSUME TypeOK, VersionsInv, Moves
    PROVE  VersionsInv' /\ Follows(Live, Live') /\ PhaseMove(Live, Live')
<1>0. runs \in Seq(Run) /\ Len(runs) \in Nat /\ Len(runs) > 0 /\ Live = runs[Len(runs)]
  BY DEF TypeOK, ObjectsTyped, Live, Last
<1>1. CASE UNCHANGED runs
  <2>1. Live' = Live
    BY <1>1 DEF Live, Last
  <2>2. VersionsInv'
    BY <1>1, <2>1 DEF VersionsInv
  <2> QED  BY <2>1, <2>2, FollowsFacts
<1>2. CASE Appends
  <2>1. PICK r \in Run : runs' = Append(runs, r) /\ Writable(Live, r)
    BY <1>2 DEF Appends
  <2>2. /\ Len(runs') = Len(runs) + 1 /\ Live' = r
        /\ \A i \in 1 .. Len(runs) : runs'[i] = runs[i]
    BY <1>0, <2>1, AppendFacts DEF Live
  <2>3. runs'[Len(runs) + 1] = r
    BY <2>2 DEF Live, Last
  <2>4. ASSUME NEW i \in 1 .. Len(runs')
        PROVE  Sane(runs'[i]) /\ Follows(runs'[i], r)
    <3>1. CASE i = Len(runs) + 1
      BY <2>1, <2>3, <3>1, FollowsFacts DEF Writable
    <3>2. CASE i \in 1 .. Len(runs)
      BY <2>1, <2>2, <3>2, FollowsFacts DEF Writable, VersionsInv
    <3> QED  BY <1>0, <2>2, <3>1, <3>2
  <2> QED  BY <2>1, <2>2, <2>4 DEF VersionsInv, Writable
<1>3. CASE Forgets
  <2>1. /\ Len(runs') = Len(runs) - 1 /\ Live' = Live
        /\ \A i \in 1 .. Len(runs) - 1 : runs'[i] = runs[i + 1]
    BY <1>0, <1>3, TailFacts DEF Forgets, Live
  <2>2. \A i \in 1 .. Len(runs') : Sane(runs'[i]) /\ Follows(runs'[i], Live)
    <3>1. ASSUME NEW i \in 1 .. Len(runs')
          PROVE  i \in 1 .. Len(runs) - 1 /\ i + 1 \in 1 .. Len(runs)
      BY <1>0, <2>1
    <3> QED  BY <2>1, <3>1 DEF VersionsInv
  <2> QED  BY <2>1, <2>2, FollowsFacts DEF VersionsInv
<1>4. CASE Relists
  <2>1. Len(runs') = 1 /\ Live' = Live /\ runs'[1] = Live
    BY <1>4, Current, SingleFacts DEF Relists, Live
  <2>2. Sane(Live)
    BY <1>0 DEF VersionsInv
  <2>3. \A i \in 1 .. Len(runs') : runs'[i] = Live
    BY <2>1
  <2> QED  BY <2>1, <2>2, <2>3, FollowsFacts DEF VersionsInv
<1> QED  BY <1>1, <1>2, <1>3, <1>4 DEF Moves

\* What the reconcile knows from the version in its cache.
LEMMA CacheFacts ==
    ASSUME TypeOK, VersionsInv
    PROVE  /\ Cached \in Run /\ Live \in Run /\ Sane(Cached) /\ Sane(Live)
           /\ Follows(Cached, Live)
           /\ 1 = Len(runs) => Cached = Live
  BY Current DEF VersionsInv, Cached, Live, Last, TypeOK, ObjectsTyped

\* A versioned write goes through only on the live version.
LEMMA WriteMoves ==
    ASSUME TypeOK, NEW ver, NEW r, Commit(ver, r) \/ Refused(ver, r),
           ver = Len(runs) => r \in Run /\ Writable(Live, r)
    PROVE  Moves
  BY DEF Commit, Refused, Moves, Appends

LEMMA WriteKeeps ==
    ASSUME TypeOK, NEW ver, NEW r, Commit(ver, r) \/ Refused(ver, r),
           ver = Len(runs) => r \in Run /\ Writable(Live, r) /\ Stays(Live, r)
    PROVE  UNCHANGED runs \/ Keeps
  BY DEF Commit, Refused, Keeps

LEMMA DeleteMoves ==
    ASSUME TypeOK, VersionsInv, DeleteRun
    PROVE  UNCHANGED runs \/ Keeps
<1> DEFINE e == [Live EXCEPT !.deleting = TRUE, !.gone = ~Live.fin]
<1>1. e \in Run /\ e.deleting = TRUE /\ e.gone = ~Live.fin /\ e.phase = Live.phase
      /\ e.reason = Live.reason /\ e.fin = Live.fin /\ e.spec = Live.spec
  BY Current DEF Run
<1>2. ~Live.gone => Writable(Live, e) /\ Stays(Live, e)
  BY <1>1, CacheFacts DEF Writable, Stays, Follows, Sane, PhaseMove, IsTerminalPhase, TerminalPhases
<1> QED  BY <1>1, <1>2 DEF DeleteRun, Keeps

\* The terminal write of an open run, with or without the last stages.
LEMMA EndMoves ==
    ASSUME TypeOK, VersionsInv, Open, NEW p \in TerminalPhases, NEW q \in Reasons, NEW r,
           r \in {Cached, [Cached EXCEPT !.stages = CachedPod.state]},
           Commit(1, Ended(r, p, q)) \/ Refused(1, Ended(r, p, q))
    PROVE  Moves
<1> DEFINE e == Ended(r, p, q)
<1>0. Cached \in Run /\ CachedPod \in Pod /\ ~Cached.gone /\ ~IsTerminalPhase(Cached.phase)
  BY Current DEF Open, Held
<1>1. /\ r \in Run /\ r.fin = Cached.fin /\ r.deleting = Cached.deleting
      /\ r.gone = Cached.gone /\ r.spec = Cached.spec
  BY <1>0 DEF Run, Pod
<1>2. /\ e \in Run /\ e.phase = p /\ e.reason = q /\ e.fin = Cached.fin
      /\ e.deleting = Cached.deleting /\ e.gone = Cached.gone /\ e.spec = Cached.spec
  BY <1>1, EndedTyped DEF Ended, Run
<1>3. Writable(Cached, e)
  BY <1>0, <1>2 DEF Writable, Follows, Sane, PhaseMove, IsTerminalPhase, TerminalPhases
<1>4. 1 = Len(runs) => e \in Run /\ Writable(Live, e)
  BY <1>2, <1>3, CacheFacts
<1> HIDE DEF e
<1> QED  BY <1>4, WriteMoves DEF e

LEMMA TerminalShape ==
    ASSUME NEW r, NEW p, NEW q, NEW b, TerminalAndDeleteJob(1, r, p, q, b)
    PROVE  /\ Commit(1, Ended(r, p, q)) \/ Refused(1, Ended(r, p, q))
           /\ pc' = "idle" \/ (Commit(1, Ended(r, p, q)) /\ Goto("persist", 2, Ended(r, p, q), 0))
           /\ UNCHANGED <<jobs, podVars, row, memory, sent, purge>>
<1>1. 1 + 1 = 2
  OBVIOUS
<1> QED  BY <1>1 DEF TerminalAndDeleteJob, End

\* Every step that decides a run writes the cached version with a terminal phase, and
\* if it goes on, it does so at "persist".
Decision(r, p, q) ==
    /\ Commit(1, Ended(r, p, q)) \/ Refused(1, Ended(r, p, q))
    /\ pc' = "idle" \/ (Commit(1, Ended(r, p, q)) /\ Goto("persist", 2, Ended(r, p, q), 0))
    /\ UNCHANGED <<jobs, podVars, row, memory, sent, purge>>

LEMMA DecidesShape ==
    ASSUME TypeOK, Decides
    PROVE  /\ Open
           /\ \E p \in TerminalPhases, q \in Reasons,
                 r \in {Cached, [Cached EXCEPT !.stages = CachedPod.state]} :
                 /\ Decision(r, p, q)
                 /\ p \in Verdicts => p = stored \/ p = CachedPod.verdict
<1>0. \A r, p, q, b : TerminalAndDeleteJob(1, r, p, q, b) => Decision(r, p, q)
  BY TerminalShape DEF Decision
<1>1. \A r, p, q : TransitionTerminal(1, r, p, q) => Decision(r, p, q)
  BY DEF TransitionTerminal, Decision, End
<1>2. CASE ReconcileAbort
  BY <1>0, <1>2 DEF ReconcileAbort, TerminalPhases, Reasons, Verdicts
<1>3. CASE SetupFails \/ OrphanJobMissing \/ CreateJobFails
  BY <1>1, <1>3 DEF SetupFails, OrphanJobMissing, CreateJobFails, Unresolved, Resolved,
                    TerminalPhases, Reasons, Verdicts
<1>4. CASE InspectInfra
  BY <1>0, <1>4 DEF InspectInfra, Inspecting, Resolved, TerminalPhases, Reasons, Verdicts
<1>5. CASE InspectConcluded
  <2> DEFINE verdict == IF stored # "" THEN stored ELSE ResultFromTermination(CachedPod)
  <2>1. Open
    BY <1>5 DEF InspectConcluded, Inspecting, Resolved
  <2>2. /\ verdict \in Verdicts \cup {"", "malformed"}
        /\ verdict = "" \/ verdict = stored \/ verdict = CachedPod.verdict
    BY Current DEF ResultFromTermination, Pod, TypeOK, OutcomeTyped
  <2>3. CASE verdict \in {"malformed", ""}
    <3>1. FallbackPhaseFromJobFailure(CachedJob) \in Reasons
      BY DEF FallbackPhaseFromJobFailure, Reasons
    <3> QED  BY <1>0, <1>5, <2>1, <2>3, <3>1
             DEF InspectConcluded, TerminalPhases, Reasons, Verdicts
  <2>4. CASE verdict \in Verdicts
    <3>1. verdict \in TerminalPhases /\ "" \in Reasons /\ verdict # ""
      BY <2>4 DEF Verdicts, TerminalPhases, Reasons
    <3>2. TerminalAndDeleteJob(1, [Cached EXCEPT !.stages = CachedPod.state], verdict, "", TRUE)
      BY <1>5, <2>4 DEF InspectConcluded, Verdicts
    <3> HIDE DEF verdict
    <3> QED  BY <1>0, <2>1, <2>2, <3>1, <3>2
  <2> QED  BY <2>2, <2>3, <2>4
<1> QED  BY <1>2, <1>3, <1>4, <1>5 DEF Decides

LEMMA DecidesMoves ==
    ASSUME TypeOK, VersionsInv, Decides
    PROVE  Open /\ Moves
  BY DecidesShape, EndMoves DEF Decision

\* The writes that leave the run open are computed from the cached version.
LEMMA CachedMoves ==
    ASSUME TypeOK, VersionsInv, AddFinalizer \/ SetupWaits \/ SetupQueues \/ WriteStages
    PROVE  UNCHANGED runs \/ Keeps
<1>0. Cached \in Run /\ CachedPod \in Pod /\ Sane(Cached)
  BY Current, CacheFacts
<1>1. ASSUME NEW e \in Run, Writable(Cached, e), Stays(Cached, e), Commit(1, e) \/ Refused(1, e)
      PROVE  UNCHANGED runs \/ Keeps
  BY <1>1, WriteKeeps, CacheFacts
<1>2. CASE AddFinalizer
  <2> DEFINE e == [Cached EXCEPT !.fin = TRUE]
  <2>1. /\ e \in Run /\ e.phase = Cached.phase /\ e.reason = Cached.reason /\ e.fin = TRUE
        /\ e.deleting = Cached.deleting /\ e.gone = Cached.gone /\ e.spec = Cached.spec
    BY <1>0 DEF Run
  <2>2. Writable(Cached, e) /\ Stays(Cached, e)
    BY <1>0, <2>1 DEF Writable, Stays, Follows, Sane, PhaseMove, IsTerminalPhase, TerminalPhases
  <2> QED  BY <1>1, <1>2, <2>1, <2>2 DEF AddFinalizer
<1>3. CASE SetupWaits
  <2> DEFINE e == [Cached EXCEPT !.phase = "queued", !.reason = "Waiting", !.stages = "waiting"]
  <2>1. /\ e \in Run /\ e.phase = "queued" /\ e.fin = Cached.fin
        /\ e.deleting = Cached.deleting /\ e.gone = Cached.gone /\ e.spec = Cached.spec
    BY <1>0 DEF Run, Phases, Reasons
  <2>2. ~Cached.spec /\ ~Cached.gone /\ ~IsTerminalPhase(Cached.phase)
    BY <1>3 DEF SetupWaits, Unresolved, Open, Held
  <2>3. Cached.phase \in {"", "queued"}
    BY <1>0, <2>2 DEF Sane, Run, Phases, IsTerminalPhase
  <2>4. Writable(Cached, e) /\ Stays(Cached, e)
    BY <1>0, <2>1, <2>2, <2>3 DEF Writable, Stays, Follows, Sane, PhaseMove, IsTerminalPhase, TerminalPhases
  <2> QED  BY <1>1, <1>3, <2>1, <2>4 DEF SetupWaits
<1>4. CASE SetupQueues
  <2> DEFINE e == [Cached EXCEPT !.phase = "queued", !.reason = "", !.spec = TRUE]
  <2>1. /\ e \in Run /\ e.phase = "queued" /\ e.fin = Cached.fin
        /\ e.deleting = Cached.deleting /\ e.gone = Cached.gone /\ e.spec = TRUE
    BY <1>0 DEF Run, Phases, Reasons
  <2>2. ~Cached.spec /\ ~Cached.gone /\ ~IsTerminalPhase(Cached.phase)
    BY <1>4 DEF SetupQueues, Unresolved, Open, Held
  <2>3. Cached.phase \in {"", "queued"}
    BY <1>0, <2>2 DEF Sane, Run, Phases, IsTerminalPhase
  <2>4. Writable(Cached, e) /\ Stays(Cached, e)
    BY <1>0, <2>1, <2>2, <2>3 DEF Writable, Stays, Follows, Sane, PhaseMove, IsTerminalPhase, TerminalPhases
  <2> QED  BY <1>1, <1>4, <2>1, <2>4 DEF SetupQueues
<1>5. CASE WriteStages
  <2> DEFINE e == [Cached EXCEPT !.stages = CachedPod.state]
  <2>1. /\ e \in Run /\ e.phase = Cached.phase /\ e.reason = Cached.reason
        /\ e.fin = Cached.fin /\ e.deleting = Cached.deleting /\ e.gone = Cached.gone
        /\ e.spec = Cached.spec
    BY <1>0 DEF Run, Pod
  <2>2. Writable(Cached, e) /\ Stays(Cached, e)
    BY <1>0, <2>1 DEF Writable, Stays, Follows, Sane, PhaseMove, IsTerminalPhase, TerminalPhases
  <2> QED  BY <1>1, <1>5, <2>1, <2>2 DEF WriteStages
<1> QED  BY <1>2, <1>3, <1>4, <1>5

\* The later writes of a reconcile are computed from its copy.
LEMMA CopyFacts ==
    ASSUME TypeOK, CopyInv, pc # "idle"
    PROVE  /\ mem.run \in Run /\ Sane(mem.run) /\ ~mem.run.gone /\ Follows(mem.run, Live)
           /\ mem.ver = Len(runs) => mem.run = Live
<1>1. Len(runs) > 0 /\ mem.run \in Run
  BY DEF TypeOK, ObjectsTyped, ProcessTyped
<1> QED  BY <1>1 DEF CopyInv, Live, Last

LEMMA CopyMoves ==
    ASSUME TypeOK, VersionsInv, CopyInv, RemoveFinalizer \/ WriteJobName \/ ObserveRunning
    PROVE  UNCHANGED runs \/ Keeps
<1>0. Cached \in Run /\ CachedPod \in Pod /\ Sane(Cached) /\ mem.run \in Run
  BY Current, CacheFacts DEF TypeOK, ProcessTyped
<1>1. CASE RemoveFinalizer
  <2> DEFINE e == [mem.run EXCEPT !.fin = FALSE, !.gone = TRUE]
  <2>1. pc = "removeFinalizer" /\ mem.run.deleting
    BY <1>1 DEF RemoveFinalizer, CopyInv
  <2>2. /\ e \in Run /\ e.phase = mem.run.phase /\ e.reason = mem.run.reason /\ e.fin = FALSE
        /\ e.deleting = mem.run.deleting /\ e.gone = TRUE /\ e.spec = mem.run.spec
    BY <1>0 DEF Run
  <2>3. Writable(mem.run, e) /\ Stays(mem.run, e)
    BY <2>1, <2>2, CopyFacts DEF Writable, Stays, Follows, Sane, PhaseMove, IsTerminalPhase, TerminalPhases
  <2>4. Commit(mem.ver, e) \/ Refused(mem.ver, e)
    BY <1>1 DEF RemoveFinalizer
  <2> HIDE DEF e
  <2> QED  BY <2>1, <2>2, <2>3, <2>4, CopyFacts, WriteKeeps
<1>2. CASE WriteJobName
  <2> DEFINE e == [mem.run EXCEPT !.jobName = TRUE]
  <2>1. pc = "jobName"
    BY <1>2 DEF WriteJobName
  <2>2. /\ e \in Run /\ e.phase = mem.run.phase /\ e.reason = mem.run.reason
        /\ e.fin = mem.run.fin
        /\ e.deleting = mem.run.deleting /\ e.gone = mem.run.gone /\ e.spec = mem.run.spec
    BY <1>0 DEF Run
  <2>3. Writable(mem.run, e) /\ Stays(mem.run, e)
    BY <2>1, <2>2, CopyFacts DEF Writable, Stays, Follows, Sane, PhaseMove, IsTerminalPhase, TerminalPhases
  <2>4. Commit(mem.ver, e) \/ Refused(mem.ver, e)
    BY <1>2 DEF WriteJobName
  <2> HIDE DEF e
  <2> QED  BY <2>1, <2>2, <2>3, <2>4, CopyFacts, WriteKeeps
<1>3. ASSUME NEW ver, NEW r \in Run, NEW ip \in Nat, MarkRunning(ver, r, ip),
             Sane(r), ~r.gone, r.phase \in {"queued", "running"}, r.spec,
             ver = Len(runs) => r = Live
      PROVE  UNCHANGED runs \/ Keeps
  <2> DEFINE e == [r EXCEPT !.phase = "running", !.ip = ip]
  <2>1. /\ e \in Run /\ e.phase = "running" /\ e.reason = r.reason /\ e.fin = r.fin
        /\ e.deleting = r.deleting /\ e.gone = r.gone /\ e.spec = r.spec
    BY <1>3 DEF Run, Phases
  <2>2. Writable(r, e) /\ Stays(r, e)
    BY <1>3, <2>1 DEF Writable, Stays, Follows, Sane, PhaseMove, IsTerminalPhase, TerminalPhases
  <2>3. UNCHANGED runs \/ Commit(ver, e) \/ Refused(ver, e)
    BY <1>3 DEF MarkRunning
  <2> HIDE DEF e
  <2> QED  BY <1>3, <2>1, <2>2, <2>3, WriteKeeps DEF Keeps
<1>4. CASE pc = "running" /\ MarkRunning(mem.ver, mem.run, mem.ip)
  <2>1. mem.run.phase \in {"queued", "running"} /\ mem.run.spec /\ mem.ip \in Nat
    BY <1>4 DEF CopyInv, TypeOK, ProcessTyped
  <2> QED  BY <1>3, <1>4, <2>1, CopyFacts
<1>5. CASE StillRunning /\ MarkRunning(1, Cached, CachedPod.gen)
  <2>1. ~Cached.gone /\ Cached.spec /\ ~IsTerminalPhase(Cached.phase)
    BY <1>5 DEF StillRunning, Inspecting, Resolved, Open, Held
  <2>2. Cached.phase \in {"queued", "running"} /\ CachedPod.gen \in Nat
    BY <1>0, <2>1 DEF Sane, Run, Pod, Phases, IsTerminalPhase
  <2> QED  BY <1>0, <1>3, <1>5, <2>1, <2>2, CacheFacts
<1> QED  BY <1>1, <1>2, <1>4, <1>5 DEF ObserveRunning

LEMMA UsersMove ==
    ASSUME TypeOK, VersionsInv, UserActions
    PROVE  UNCHANGED runs \/ Keeps
<1>0. Live \in Run /\ Sane(Live)
  BY CacheFacts
<1>1. CASE UserAbort
  <2> DEFINE e == [Live EXCEPT !.abort = TRUE]
  <2>1. /\ e \in Run /\ e.phase = Live.phase /\ e.reason = Live.reason /\ e.fin = Live.fin
        /\ e.deleting = Live.deleting /\ e.gone = Live.gone /\ e.spec = Live.spec
    BY <1>0 DEF Run
  <2>2. Writable(Live, e) /\ Stays(Live, e)
    BY <1>0, <2>1 DEF Writable, Stays, Follows, Sane, PhaseMove, IsTerminalPhase, TerminalPhases
  <2> QED  BY <1>1, <2>1, <2>2 DEF UserAbort, Keeps
<1>2. CASE Touch
  BY <1>0, <1>2, FollowsFacts DEF Touch, Keeps, Writable, Stays
<1>3. CASE UserDelete \/ PurgeRun
  BY <1>3, DeleteMoves DEF UserDelete, PurgeRun
<1>4. CASE PurgeObjects \/ PurgeRow
  BY <1>4 DEF PurgeObjects, PurgeRow
<1> QED  BY <1>1, <1>2, <1>3, <1>4 DEF UserActions

\* Every step of the system moves the versions of the TestRun as Moves allows, and only
\* the steps in Decides decide it.
LEMMA StepMoves ==
    ASSUME TypeOK, VersionsInv, CopyInv, Next
    PROVE  Moves /\ (Decides \/ UNCHANGED runs \/ Keeps \/ Forgets \/ Relists)
<1>1. CASE ForgetGone \/ Finalize \/ ReconcileTerminal \/ CreateJob \/ Persist
           \/ DispatchWebhooks \/ DeleteJob
  BY <1>1 DEF ForgetGone, Finalize, ReconcileTerminal, CreateJob, Persist, DispatchWebhooks,
              DeleteJob, Moves
<1>2. CASE ExpireFinished
  <2>1. UNCHANGED runs \/ DeleteRun
    BY <1>2 DEF ExpireFinished
  <2> QED  BY <2>1, DeleteMoves, KeepsAppends DEF Moves
<1>3. CASE Decides
  BY <1>3, DecidesMoves
<1>4. CASE Reconcile
  BY <1>1, <1>2, <1>3, <1>4, CachedMoves, CopyMoves, KeepsAppends DEF Reconcile, Moves
<1>5. CASE Crash
  BY <1>5 DEF Crash, Moves, Relists
<1>6. CASE Informers
  BY <1>6 DEF Informers, RunEvent, JobEvent, PodEvent, Moves, Forgets
<1>7. CASE Cluster
  <2>1. UNCHANGED outside
    BY <1>7 DEF Cluster, PodCreated, PodPullError, PodRuns, ToolEnds, WrapperDies, JobConcludes,
           JobDeadline, JobLost, CollectJob, CollectPod
  <2> QED  BY <2>1 DEF outside, Moves
<1>8. CASE UserActions
  BY <1>8, UsersMove, KeepsAppends DEF Moves
<1> QED  BY <1>4, <1>5, <1>6, <1>7, <1>8 DEF Next

\* The part of CopyInv that depends on what the reconcile is about to do.
CopyFits(l, r) ==
    /\ l = "running" => r.phase \in {"queued", "running"} /\ r.spec
    /\ l = "removeFinalizer" => r.deleting
    /\ l \in {"persist", "webhook", "deleteJob", "expire"} => IsTerminalPhase(r.phase)

LEMMA IdleCopy == ASSUME pc' = "idle" PROVE CopyInv'
  BY DEF CopyInv

\* The copy stays right while others write the TestRun.
LEMMA CopyKept ==
    ASSUME TypeOK, VersionsInv, CopyInv, UNCHANGED mem, UNCHANGED runs \/ Appends,
           pc # "idle", CopyFits(pc', mem.run)
    PROVE  CopyInv'
<1>1. Follows(Live, Live')
  BY VersionsStep DEF Moves
<1>2. Sane(mem.run) /\ ~mem.run.gone /\ Follows(mem.run, Live')
  BY <1>1, CopyFacts, FollowsFacts
<1>3. mem.ver # 0 => mem.ver <= Len(runs') /\ mem.run = runs'[mem.ver]
  <2>0. runs \in Seq(Run) /\ mem.ver \in Nat
    BY DEF TypeOK, ObjectsTyped, ProcessTyped
  <2>1. CASE UNCHANGED runs
    BY <2>1 DEF CopyInv
  <2>2. CASE Appends
    <3>1. Len(runs') = Len(runs) + 1 /\ \A i \in 1 .. Len(runs) : runs'[i] = runs[i]
      BY <2>0, <2>2, AppendFacts DEF Appends
    <3>2. mem.ver # 0 => mem.ver <= Len(runs) /\ mem.run = runs[mem.ver]
      BY DEF CopyInv
    <3> QED  BY <2>0, <3>1, <3>2
  <2> QED  BY <2>1, <2>2
<1> QED  BY <1>2, <1>3 DEF CopyInv, CopyFits

\* A reconcile goes on from the cached version, having written nothing to the TestRun ...
LEMMA GotoCached ==
    ASSUME TypeOK, VersionsInv, UNCHANGED runs, NEW l, NEW ip, Goto(l, 1, Cached, ip),
           ~Cached.gone, CopyFits(l, Cached)
    PROVE  CopyInv'
<1>1. pc' = l /\ mem'.run = Cached /\ mem'.ver = 1 /\ Live' = Live
  BY DEF Goto, Live, Last
<1>2. 1 <= Len(runs') /\ Cached = runs'[1]
  BY DEF TypeOK, ObjectsTyped, Cached
<1> QED  BY <1>1, <1>2, CacheFacts DEF CopyInv, CopyFits

\* ... or from the version it has just written.
LEMMA GotoWritten ==
    ASSUME TypeOK, VersionsInv, NEW e \in Run, Commit(1, e), NEW l, NEW ip, Goto(l, 2, e, ip),
           Sane(e), ~e.gone, CopyFits(l, e)
    PROVE  CopyInv'
<1>1. pc' = l /\ mem'.run = e /\ mem'.ver = 2
  BY DEF Goto
<1>2. runs \in Seq(Run) /\ Len(runs) = 1 /\ runs' = Append(runs, e)
  BY DEF TypeOK, ObjectsTyped, Commit
<1>3. Len(runs') = 2 /\ Live' = e
  <2>1. Len(Append(runs, e)) = Len(runs) + 1 /\ Last(Append(runs, e)) = e
    BY <1>2, AppendFacts
  <2>2. Live' = Last(runs')
    BY DEF Live
  <2> QED  BY <1>2, <2>1, <2>2
<1>4. runs'[2] = e
  BY <1>3 DEF Live, Last
<1> QED  BY <1>1, <1>3, <1>4, FollowsFacts DEF CopyInv, CopyFits

LEMMA TerminalCopy ==
    ASSUME TypeOK, VersionsInv, Decides
    PROVE  CopyInv'
<1>0. Open /\ Cached \in Run /\ CachedPod \in Pod /\ ~Cached.gone /\ Sane(Cached)
  BY DecidesMoves, CacheFacts, Current DEF Open, Held
<1>1. \/ pc' = "idle"
      \/ \E p \in TerminalPhases, q \in Reasons,
            r \in {Cached, [Cached EXCEPT !.stages = CachedPod.state]} :
            Commit(1, Ended(r, p, q)) /\ Goto("persist", 2, Ended(r, p, q), 0)
  BY DecidesShape DEF Decision
<1>2. ASSUME NEW p \in TerminalPhases, NEW q \in Reasons,
             NEW r \in {Cached, [Cached EXCEPT !.stages = CachedPod.state]},
             Commit(1, Ended(r, p, q)), Goto("persist", 2, Ended(r, p, q), 0)
      PROVE  CopyInv'
  <2>1. /\ r \in Run /\ r.deleting = Cached.deleting
        /\ r.gone = Cached.gone /\ r.spec = Cached.spec
    BY <1>0 DEF Run, Pod
  <2>2. Ended(r, p, q) \in Run /\ Ended(r, p, q).phase = p /\ Ended(r, p, q).gone = Cached.gone
    BY <2>1, EndedTyped DEF Ended, Run
  <2>3. Sane(Ended(r, p, q))
    BY <1>0, <2>2 DEF Sane, TerminalPhases
  <2> QED  BY <1>0, <1>2, <2>2, <2>3, GotoWritten DEF CopyFits, IsTerminalPhase
<1> QED  BY <1>1, <1>2, IdleCopy

LEMMA CopyStep ==
    ASSUME TypeOK, VersionsInv, CopyInv, Next
    PROVE  CopyInv'
<1>0. pc # "idle" => CopyFits(pc, mem.run)
  BY DEF CopyInv, CopyFits
<1>1. CASE ForgetGone \/ RemoveFinalizer \/ AddFinalizer \/ ExpireFinished \/ SetupWaits
           \/ SetupQueues \/ WriteJobName \/ ObserveRunning \/ DeleteJob
  <2>1. pc' = "idle"
    BY <1>1 DEF ForgetGone, RemoveFinalizer, AddFinalizer, ExpireFinished, SetupWaits,
                SetupQueues, WriteJobName, ObserveRunning, MarkRunning, DeleteJob, End
  <2> QED  BY <2>1, IdleCopy
<1>2. CASE Finalize
  <2>1. UNCHANGED runs /\ ~Cached.gone /\ Cached.deleting
    BY <1>2 DEF Finalize
  <2>2. Goto("removeFinalizer", 1, Cached, 0) \/ pc' = "idle"
    BY <1>2 DEF Finalize, End
  <2> QED  BY <2>1, <2>2, GotoCached, IdleCopy DEF CopyFits
<1>3. CASE ReconcileTerminal
  BY <1>3, GotoCached DEF ReconcileTerminal, Held, CopyFits
<1>4. CASE CreateJob
  <2>1. UNCHANGED runs /\ ~Cached.gone
    BY <1>4 DEF CreateJob, Resolved, Open, Held
  <2>2. Goto("jobName", 1, Cached, 0) \/ pc' = "idle"
    BY <1>4 DEF CreateJob, End
  <2> QED  BY <2>1, <2>2, GotoCached, IdleCopy DEF CopyFits
<1>5. CASE WriteStages
  <2> DEFINE e == [Cached EXCEPT !.stages = CachedPod.state]
  <2>0. /\ Cached \in Run /\ CachedPod \in Pod /\ Sane(Cached) /\ ~Cached.gone /\ Cached.spec
        /\ ~IsTerminalPhase(Cached.phase)
    BY <1>5, CacheFacts, Current DEF WriteStages, StillRunning, Inspecting, Resolved, Open, Held
  <2>1. /\ e \in Run /\ e.phase = Cached.phase /\ e.deleting = Cached.deleting
        /\ e.gone = Cached.gone /\ e.spec = Cached.spec
    BY <2>0 DEF Run, Pod
  <2>2. Cached.phase \in {"queued", "running"}
    BY <2>0 DEF Sane, Run, Phases, IsTerminalPhase
  <2>3. Sane(e) /\ ~e.gone /\ CopyFits("running", e)
    BY <2>0, <2>1, <2>2 DEF Sane, CopyFits
  <2>4. (Commit(1, e) /\ Goto("running", 2, e, CachedPod.gen)) \/ pc' = "idle"
    BY <1>5 DEF WriteStages, End
  <2> HIDE DEF e
  <2> QED  BY <2>1, <2>3, <2>4, GotoWritten, IdleCopy
<1>6. CASE Persist
  BY <1>0, <1>6, CopyKept DEF Persist, CopyFits
<1>7. CASE DispatchWebhooks
  <2>1. pc' = "idle" \/ (pc' = "deleteJob" /\ UNCHANGED mem)
    BY <1>7 DEF DispatchWebhooks, End
  <2>2. pc = "webhook" /\ UNCHANGED runs
    BY <1>7 DEF DispatchWebhooks
  <2> QED  BY <1>0, <2>1, <2>2, CopyKept, IdleCopy DEF CopyFits
<1>8. CASE RunEvent
  <2>0. runs \in Seq(Run) /\ Len(runs) > 1 /\ mem \in [ver : Nat, run : Run, ip : Nat]
        /\ pc' = pc /\ runs' = Tail(runs)
    BY <1>8 DEF RunEvent, TypeOK, ObjectsTyped, ProcessTyped
  <2> DEFINE v == IF mem.ver = 0 THEN 0 ELSE mem.ver - 1
  <2>1. mem' = [mem EXCEPT !.ver = v]
    BY <1>8 DEF RunEvent
  <2>2. v \in Nat /\ (v # 0 => v = mem.ver - 1 /\ mem.ver > 1)
    BY <2>0
  <2> HIDE DEF v
  <2>3. mem'.ver = v /\ mem'.run = mem.run
    BY <2>0, <2>1
  <2>4. /\ Len(runs') = Len(runs) - 1 /\ Live' = Live
        /\ \A i \in 1 .. Len(runs) - 1 : runs'[i] = runs[i + 1]
    BY <2>0, TailFacts DEF Live
  <2>5. CASE pc = "idle"
    BY <2>0, <2>5, IdleCopy
  <2>6. CASE pc # "idle"
    <3>1. mem.ver # 0 => mem.ver <= Len(runs) /\ mem.run = runs[mem.ver]
      BY <2>6 DEF CopyInv
    <3>2. v # 0 => v <= Len(runs') /\ mem.run = runs'[v]
      BY <2>0, <2>2, <2>4, <3>1
    <3> QED  BY <1>0, <2>0, <2>3, <2>4, <2>6, <3>2, CopyFacts DEF CopyInv, CopyFits
  <2> QED  BY <2>5, <2>6
<1>9. CASE Crash
  BY <1>9, IdleCopy DEF Crash
<1>10. CASE JobEvent \/ PodEvent \/ UserActions \/ Cluster
  <2>1. UNCHANGED <<pc, mem>>
    BY <1>10 DEF JobEvent, PodEvent, UserActions, UserAbort, UserDelete, Touch, PurgeObjects,
           PurgeRun, PurgeRow, Cluster, PodCreated, PodPullError, PodRuns, ToolEnds, WrapperDies,
           JobConcludes, JobDeadline, JobLost, CollectJob, CollectPod, outside, operator
  <2>2. UNCHANGED runs \/ Appends
    <3>1. CASE JobEvent \/ PodEvent \/ Cluster
      BY <3>1 DEF JobEvent, PodEvent, Cluster, PodCreated, PodPullError, PodRuns, ToolEnds,
             WrapperDies, JobConcludes, JobDeadline, JobLost, CollectJob, CollectPod, outside
    <3>2. CASE UserActions
      BY <3>2, UsersMove, KeepsAppends
    <3> QED  BY <1>10, <3>1, <3>2
  <2>3. CASE pc = "idle"
    BY <2>1, <2>3, IdleCopy
  <2>4. CASE pc # "idle"
    BY <1>0, <2>1, <2>2, <2>4, CopyKept
  <2> QED  BY <2>3, <2>4
<1> QED
  BY <1>1, <1>2, <1>3, <1>4, <1>5, <1>6, <1>7, <1>8, <1>9, <1>10, TerminalCopy
     DEF Next, Reconcile, Informers

-----------------------------------------------------------------------------
(* The other parts of the invariant.  LiveStep sums up what the previous part *)
(* showed about a step.                                                       *)

LEMMA LiveStep ==
    ASSUME TypeOK, VersionsInv, CopyInv, Next
    PROVE  /\ VersionsInv' /\ CopyInv'
           /\ Follows(Live, Live') /\ PhaseMove(Live, Live')
           /\ Decides \/ Stays(Live, Live')
<1>0. runs \in Seq(Run) /\ Len(runs) > 0 /\ Live \in Run
  BY Current DEF TypeOK, ObjectsTyped
<1>1. UNCHANGED runs => Live' = Live
  BY DEF Live, Last
<1>2. Forgets => Live' = Live
  BY <1>0, TailFacts DEF Forgets, Live
<1>3. Relists => Live' = Live
  BY <1>0, SingleFacts DEF Relists, Live
<1>4. Keeps => Stays(Live, Live')
  <2>1. \A r \in Run : runs' = Append(runs, r) => Live' = r
    BY <1>0, AppendFacts DEF Live
  <2> QED  BY <2>1 DEF Keeps
<1> QED  BY <1>1, <1>2, <1>3, <1>4, StepMoves, VersionsStep, CopyStep DEF Stays

LEMMA SentStep ==
    ASSUME TypeOK, VersionsInv, CopyInv, SentInv, Next
    PROVE  SentInv'
<1>0. Follows(Live, Live')
  BY LiveStep
<1>1. \/ Decides \/ Persist \/ DispatchWebhooks
      \/ UNCHANGED sent /\ (pc' = pc \/ pc' \notin {"persist", "webhook"})
  <2>1. CASE UserActions \/ Cluster \/ JobEvent \/ PodEvent
    BY <2>1 DEF UserActions, UserAbort, UserDelete, Touch, PurgeObjects, PurgeRun, PurgeRow,
       Cluster, PodCreated, PodPullError, PodRuns, ToolEnds, WrapperDies, JobConcludes,
       JobDeadline, JobLost, CollectJob, CollectPod, JobEvent, PodEvent, outside, operator
  <2>2. CASE RunEvent \/ Crash
    BY <2>2 DEF RunEvent, Crash
  <2>3. CASE ForgetGone \/ RemoveFinalizer \/ AddFinalizer \/ ExpireFinished \/ SetupWaits
             \/ SetupQueues \/ WriteJobName \/ ObserveRunning \/ DeleteJob
    BY <2>3 DEF ForgetGone, RemoveFinalizer, AddFinalizer, ExpireFinished, SetupWaits,
                SetupQueues, WriteJobName, ObserveRunning, MarkRunning, DeleteJob, End
  <2>4. CASE Finalize \/ ReconcileTerminal \/ CreateJob \/ WriteStages
    BY <2>4 DEF Finalize, ReconcileTerminal, CreateJob, WriteStages, End, Goto
  <2> QED  BY <2>1, <2>2, <2>3, <2>4 DEF Next, Reconcile, Informers
<1>2. ASSUME UNCHANGED sent
      PROVE  sent' # <<>> =>
               Len(sent') = 1 /\ IsTerminalPhase(Live'.phase) /\ sent'[1] = Live'.phase
  BY <1>0, <1>2 DEF SentInv, Follows
<1>3. CASE Decides
  <2>1. UNCHANGED sent /\ (pc' = "idle" \/ \E e : Commit(1, e) /\ Goto("persist", 2, e, 0))
    BY <1>3, DecidesShape DEF Decision
  <2>2. CASE pc' = "idle"
    BY <1>2, <2>1, <2>2 DEF SentInv
  <2>3. CASE \E e : Commit(1, e) /\ Goto("persist", 2, e, 0)
    <3>1. 1 = Len(runs)
      BY <2>3 DEF Commit
    <3>2. ~IsTerminalPhase(Cached.phase)
      BY <1>3, DecidesShape DEF Open
    <3>3. sent = <<>>
      BY <3>1, <3>2, CacheFacts DEF SentInv
    <3> QED  BY <1>2, <2>1, <3>3 DEF SentInv
  <2> QED  BY <2>1, <2>2, <2>3
<1>4. CASE Persist
  BY <1>2, <1>4 DEF Persist, SentInv
<1>5. CASE DispatchWebhooks
  <2>1. pc = "webhook" /\ sent = <<>> /\ UNCHANGED runs
    BY <1>5 DEF DispatchWebhooks, SentInv
  <2>2. IsTerminalPhase(mem.run.phase) /\ Live.phase = mem.run.phase
    BY <2>1 DEF CopyInv, Follows
  <2>3. Live' = Live
    BY <2>1 DEF Live, Last
  <2>4. sent' \in {sent, Append(sent, mem.run.phase)}
    BY <1>5 DEF DispatchWebhooks
  <2>5. Len(Append(<<>>, mem.run.phase)) = 1 /\ Append(<<>>, mem.run.phase)[1] = mem.run.phase
    OBVIOUS
  <2>6. pc' \notin {"persist", "webhook"}
    BY <1>5 DEF DispatchWebhooks, End
  <2> QED  BY <2>1, <2>2, <2>3, <2>4, <2>5, <2>6 DEF SentInv
<1> QED  BY <1>1, <1>2, <1>3, <1>4, <1>5 DEF SentInv

LEMMA PersistStep ==
    ASSUME TypeOK, VersionsInv, CopyInv, PersistInv, Next
    PROVE  PersistInv'
<1>0. Follows(Live, Live')
  BY LiveStep
<1>1. ASSUME persisted' \in {persisted, FALSE}, UNCHANGED <<row, purge>>
      PROVE  PersistInv'
  <2>1. persisted' => persisted
    BY <1>1
  <2>2. IsTerminalPhase(Live.phase) => Live'.phase = Live.phase
    BY <1>0 DEF Follows
  <2>3. Live.deleting => Live'.deleting
    BY <1>0 DEF Follows
  <2> QED  BY <1>1, <2>1, <2>2, <2>3 DEF PersistInv
<1>2. ASSUME NEW p, PersistFinished(p), UNCHANGED <<runs, purge>>,
             IsTerminalPhase(p), Live.phase = p
      PROVE  PersistInv'
  <2>1. Live' = Live
    BY <1>2 DEF Live, Last
  <2>2. \/ UNCHANGED <<row, persisted>>
        \/ row' = p
        \/ UNCHANGED <<row, persisted>>
    BY <1>2 DEF PersistFinished
  <2> QED  BY <1>2, <2>1, <2>2 DEF PersistInv
<1>3. CASE Persist
  <2>1. pc = "persist" /\ PersistFinished(mem.run.phase) /\ UNCHANGED <<runs, purge>>
    BY <1>3 DEF Persist
  <2>2. IsTerminalPhase(mem.run.phase) /\ Live.phase = mem.run.phase
    BY <2>1 DEF CopyInv, Follows
  <2> QED  BY <1>2, <2>1, <2>2
<1>4. CASE ReconcileTerminal
  <2>1. /\ IsTerminalPhase(Cached.phase) /\ PersistFinished(Cached.phase)
        /\ UNCHANGED <<runs, purge>>
    BY <1>4 DEF ReconcileTerminal
  <2>2. Live.phase = Cached.phase
    BY <2>1, CacheFacts DEF Follows
  <2> QED  BY <1>2, <2>1, <2>2
<1>5. CASE PurgeRun
  <2>1. DeleteRun /\ purge' = "row" /\ UNCHANGED <<row, persisted>>
    BY <1>5 DEF PurgeRun, operator
  <2>2. Live'.deleting
    <3> DEFINE e == [Live EXCEPT !.deleting = TRUE, !.gone = ~Live.fin]
    <3>1. e \in Run /\ e.deleting = TRUE
      BY Current DEF Run
    <3>2. CASE Live.gone \/ Live.deleting
      <4>1. Live.deleting
        BY <3>2, CacheFacts DEF Sane
      <4> QED  BY <1>0, <4>1 DEF Follows
    <3>3. CASE ~(Live.gone \/ Live.deleting)
      <4>1. runs' = Append(runs, e) /\ runs \in Seq(Run)
        BY <2>1, <3>3 DEF DeleteRun, TypeOK, ObjectsTyped
      <4>2. Live' = e
        BY <3>1, <4>1, AppendFacts DEF Live
      <4> QED  BY <3>1, <4>2
    <3> QED  BY <3>2, <3>3
  <2> QED  BY <1>0, <2>1, <2>2 DEF PersistInv, Follows
<1>6. CASE PurgeRow
  <2>1. purge = "row" /\ purge' = "done" /\ UNCHANGED persisted
    BY <1>6 DEF PurgeRow, operator
  <2> QED  BY <1>0, <2>1 DEF PersistInv, Follows
<1>7. CASE PurgeObjects
  <2>1. purge = "idle" /\ purge' = "run" /\ UNCHANGED <<persisted, row>>
    BY <1>7 DEF PurgeObjects, operator
  <2> QED  BY <1>0, <2>1 DEF PersistInv, Follows
<1>8. CASE Decides
  <2>1. UNCHANGED <<row, memory, purge>>
    BY <1>8, DecidesShape DEF Decision
  <2> QED  BY <1>1, <2>1 DEF memory
<1>9. CASE Crash \/ Informers \/ UserAbort \/ UserDelete \/ Touch \/ Cluster
  <2>1. persisted' \in {persisted, FALSE} /\ UNCHANGED <<row, purge>>
    BY <1>9 DEF Crash, Informers, RunEvent, JobEvent, PodEvent, UserAbort, UserDelete, Touch,
       Cluster, PodCreated, PodPullError, PodRuns, ToolEnds, WrapperDies, JobConcludes,
       JobDeadline, JobLost, CollectJob, CollectPod, outside, operator, memory
  <2> QED  BY <1>1, <2>1
<1>10. CASE ForgetGone \/ Finalize \/ RemoveFinalizer \/ AddFinalizer \/ ExpireFinished
            \/ SetupWaits \/ SetupQueues \/ CreateJob \/ WriteJobName \/ WriteStages
            \/ ObserveRunning \/ DispatchWebhooks \/ DeleteJob
  <2>1. persisted' \in {persisted, FALSE} /\ UNCHANGED <<row, purge>>
    BY <1>10 DEF ForgetGone, Finalize, RemoveFinalizer, AddFinalizer, ExpireFinished,
       SetupWaits, SetupQueues, CreateJob, WriteJobName, WriteStages, ObserveRunning,
       MarkRunning, DispatchWebhooks, DeleteJob, memory
  <2> QED  BY <1>1, <2>1
<1> QED
  BY <1>3, <1>4, <1>5, <1>6, <1>7, <1>8, <1>9, <1>10 DEF Next, Reconcile, UserActions

LEMMA FinalizerStep ==
    ASSUME TypeOK, VersionsInv, CopyInv, FinalizerGuardsJob, Next
    PROVE  FinalizerGuardsJob'
<1>0. Follows(Live, Live')
  BY LiveStep
<1>1. ASSUME LiveJob'.state # "absent" => LiveJob.state # "absent"
      PROVE  FinalizerGuardsJob'
  BY <1>0, <1>1 DEF FinalizerGuardsJob, Follows
<1>2. jobs \in Seq(Job) /\ Len(jobs) > 0 /\ LiveJob \in Job
  BY Current DEF TypeOK, ObjectsTyped
<1>3. ASSUME UNCHANGED jobs PROVE FinalizerGuardsJob'
  <2>1. LiveJob' = LiveJob
    BY <1>3 DEF LiveJob, Last
  <2> QED  BY <1>1, <2>1
<1>4. ASSUME DeleteJobBackground PROVE FinalizerGuardsJob'
  <2> DEFINE e == [LiveJob EXCEPT !.state = "absent"]
  <2>1. e \in Job /\ e.state = "absent"
    BY <1>2 DEF Job
  <2>2. CASE jobs' = Append(jobs, e)
    <3>1. LiveJob' = e
      BY <1>2, <2>1, <2>2, AppendFacts DEF LiveJob
    <3> QED  BY <1>1, <2>1, <3>1
  <2> QED  BY <1>3, <1>4, <2>2 DEF DeleteJobBackground
<1>5. CASE Crash
  <2>1. LiveJob' = LiveJob
    BY <1>2, <1>5, SingleFacts DEF Crash, LiveJob
  <2> QED  BY <1>1, <2>1
<1>6. CASE JobEvent
  <2>1. LiveJob' = LiveJob
    BY <1>2, <1>6, TailFacts DEF JobEvent, LiveJob
  <2> QED  BY <1>1, <2>1
<1>7. CASE RunEvent \/ PodEvent \/ UserActions
  <2>1. UNCHANGED jobs
    BY <1>7 DEF RunEvent, PodEvent, UserActions, UserAbort, UserDelete, Touch, PurgeObjects,
                PurgeRun, PurgeRow
  <2> QED  BY <1>3, <2>1
<1>8. CASE Cluster
  <2>1. CASE JobConcludes \/ JobDeadline
    <3>1. LiveJob.state = "active"
      BY <2>1 DEF JobConcludes, JobDeadline, PodIn
    <3> QED  BY <1>1, <3>1
  <2>2. CASE JobLost \/ CollectJob
    BY <1>4, <2>2 DEF JobLost, CollectJob
  <2>3. CASE UNCHANGED jobs
    BY <1>3, <2>3
  <2> QED  BY <1>8, <2>1, <2>2, <2>3 DEF Cluster, PodCreated, PodPullError, PodRuns, ToolEnds,
                                         WrapperDies, CollectPod
<1>9. CASE CreateJob
  <2>1. UNCHANGED runs /\ Cached.fin
    BY <1>9 DEF CreateJob, Resolved, Open, Held
  <2>2. Live.fin \/ Live.gone
    BY <2>1, CacheFacts DEF Follows
  <2>3. Live' = Live
    BY <2>1 DEF Live, Last
  <2> QED  BY <2>2, <2>3 DEF FinalizerGuardsJob
<1>10. CASE Decides
  <2>1. UNCHANGED jobs
    BY <1>10, DecidesShape DEF Decision
  <2> QED  BY <1>3, <2>1
<1>11. CASE Finalize \/ DeleteJob
  <2>1. UNCHANGED jobs \/ DeleteJobBackground
    BY <1>11 DEF Finalize, DeleteJob
  <2> QED  BY <1>3, <1>4, <2>1
<1>12. CASE ForgetGone \/ RemoveFinalizer \/ AddFinalizer \/ ExpireFinished \/ SetupWaits
            \/ SetupQueues \/ WriteJobName \/ WriteStages \/ ObserveRunning \/ Persist
            \/ DispatchWebhooks \/ ReconcileTerminal
  <2>1. UNCHANGED jobs
    BY <1>12 DEF ForgetGone, RemoveFinalizer, AddFinalizer, ExpireFinished, SetupWaits,
       SetupQueues, WriteJobName, WriteStages, ObserveRunning, MarkRunning, Persist,
       DispatchWebhooks, ReconcileTerminal
  <2> QED  BY <1>3, <2>1
<1> QED
  BY <1>5, <1>6, <1>7, <1>8, <1>9, <1>10, <1>11, <1>12 DEF Next, Reconcile, Informers

\* Where verdicts come from: the wrapper adds to said what it leaves behind.
LEMMA SourcesStep ==
    ASSUME TypeOK, VerdictInv, Next
    PROVE  /\ said \subseteq said'
           /\ stored' \in Verdicts => stored' \in said'
           /\ \A i \in 1 .. Len(pods') : pods'[i].verdict \in Verdicts => pods'[i].verdict \in said'
<1>0. pods \in Seq(Pod) /\ Len(pods) > 0 /\ LivePod \in Pod /\ LiveJob \in Job
  BY Current DEF TypeOK, ObjectsTyped
<1>1. ASSUME said \subseteq said', UNCHANGED pods
      PROVE  \A i \in 1 .. Len(pods') : pods'[i].verdict \in Verdicts => pods'[i].verdict \in said'
  BY <1>1 DEF VerdictInv
<1>2. ASSUME said \subseteq said', NEW st \in PodStates, NEW v \in Verdicts \cup {""},
             SetPod(st, v), v \in Verdicts => v \in said'
      PROVE  \A i \in 1 .. Len(pods') : pods'[i].verdict \in Verdicts => pods'[i].verdict \in said'
  <2> DEFINE e == [gen |-> LiveJob.gen, state |-> st, verdict |-> v]
  <2>1. e \in Pod /\ e.verdict = v
    BY <1>0 DEF Pod, Job
  <2>2. pods' = Append(pods, e)
    BY <1>2 DEF SetPod
  <2> HIDE DEF e
  <2>3. /\ Len(pods') = Len(pods) + 1 /\ Last(pods') = e
        /\ \A i \in 1 .. Len(pods) : pods'[i] = pods[i]
    BY <1>0, <2>1, <2>2, AppendFacts
  <2>4. pods'[Len(pods) + 1] = e
    BY <2>3 DEF Last
  <2>5. ASSUME NEW i \in 1 .. Len(pods')
        PROVE  pods'[i].verdict \in Verdicts => pods'[i].verdict \in said'
    <3>1. CASE i = Len(pods) + 1
      BY <1>2, <2>1, <2>4, <3>1
    <3>2. CASE i \in 1 .. Len(pods)
      BY <1>2, <2>3, <3>2 DEF VerdictInv
    <3>3. i = Len(pods) + 1 \/ i \in 1 .. Len(pods)
      <4>1. Len(pods) \in Nat /\ i \in 1 .. Len(pods) + 1
        BY <2>3, Current
      <4> QED  BY <4>1, NextIndex, Zenon
    <3> QED  BY <3>1, <3>2, <3>3
  <2> QED  BY <2>5
<1>3. ASSUME UNCHANGED podVars
      PROVE  /\ said \subseteq said'
             /\ stored' \in Verdicts => stored' \in said'
             /\ \A i \in 1 .. Len(pods') :
                  pods'[i].verdict \in Verdicts => pods'[i].verdict \in said'
  BY <1>1, <1>3 DEF podVars, VerdictInv
<1>4. CASE Cluster
  <2>1. CASE PodCreated \/ PodPullError \/ PodRuns \/ WrapperDies \/ JobDeadline \/ CollectPod
    <3>1. UNCHANGED <<stored, said>> /\ \E st \in PodStates : SetPod(st, "")
      BY <2>1 DEF PodCreated, PodPullError, PodRuns, WrapperDies, JobDeadline, CollectPod,
                  PodStates
    <3> QED  BY <1>2, <3>1 DEF VerdictInv, Verdicts
  <2>2. CASE ToolEnds
    <3>1. PICK v \in Verdicts :
            /\ said' = said \cup {v}
            /\ \/ SetPod("done", v) /\ stored' \in {stored, v, "malformed"}
               \/ SetPod("done", "") /\ stored' = v
      BY <2>2 DEF ToolEnds
    <3>2. said \subseteq said' /\ v \in said'
      BY <3>1
    <3>3. stored' \in Verdicts => stored' \in said'
      BY <3>1, <3>2 DEF VerdictInv, Verdicts
    <3>4. "done" \in PodStates
      BY DEF PodStates
    <3>5. PICK w \in {v, ""} : SetPod("done", w)
      BY <3>1
    <3>6. w \in Verdicts \cup {""} /\ (w \in Verdicts => w \in said')
      BY <3>2 DEF Verdicts
    <3>7. \A i \in 1 .. Len(pods') : pods'[i].verdict \in Verdicts => pods'[i].verdict \in said'
      BY <1>2, <3>2, <3>4, <3>5, <3>6
    <3> QED  BY <3>2, <3>3, <3>7
  <2>3. CASE JobConcludes \/ JobLost \/ CollectJob
    BY <1>3, <2>3 DEF JobConcludes, JobLost, CollectJob
  <2> QED  BY <1>4, <2>1, <2>2, <2>3 DEF Cluster
<1>5. CASE Crash
  <2>1. pods' = <<LivePod>> /\ UNCHANGED <<stored, said>>
    BY <1>5 DEF Crash
  <2>2. Len(pods') = 1 /\ pods'[1] = LivePod
    BY <1>0, <2>1, SingleFacts
  <2>3. LivePod = pods[Len(pods)] /\ Len(pods) \in 1 .. Len(pods)
    BY <1>0 DEF LivePod, Last
  <2> QED  BY <2>1, <2>2, <2>3 DEF VerdictInv
<1>6. CASE PodEvent
  <2>1. UNCHANGED <<stored, said>> /\ Len(pods) > 1 /\ pods' = Tail(pods)
    BY <1>6 DEF PodEvent
  <2>2. Len(pods') = Len(pods) - 1 /\ \A i \in 1 .. Len(pods) - 1 : pods'[i] = pods[i + 1]
    BY <1>0, <2>1, TailFacts
  <2>3. \A i \in 1 .. Len(pods') : i + 1 \in 1 .. Len(pods)
    BY <1>0, <2>2
  <2> QED  BY <2>1, <2>2, <2>3 DEF VerdictInv
<1>7. CASE PurgeObjects
  <2>1. UNCHANGED <<pods, said>> /\ stored' = ""
    BY <1>7 DEF PurgeObjects
  <2> QED  BY <1>1, <2>1 DEF Verdicts
<1>8. CASE RunEvent \/ JobEvent \/ UserAbort \/ UserDelete \/ Touch \/ PurgeRun \/ PurgeRow
  BY <1>3, <1>8 DEF RunEvent, JobEvent, UserAbort, UserDelete, Touch, PurgeRun, PurgeRow
<1>9. CASE Decides
  BY <1>3, <1>9, DecidesShape DEF Decision
<1>10. CASE ForgetGone \/ Finalize \/ RemoveFinalizer \/ AddFinalizer \/ ReconcileTerminal
            \/ ExpireFinished \/ SetupWaits \/ SetupQueues \/ CreateJob \/ WriteJobName
            \/ WriteStages \/ ObserveRunning \/ Persist \/ DispatchWebhooks \/ DeleteJob
  <2>1. UNCHANGED podVars
    BY <1>10 DEF ForgetGone, Finalize, RemoveFinalizer, AddFinalizer, ReconcileTerminal,
       ExpireFinished, SetupWaits, SetupQueues, CreateJob, WriteJobName, WriteStages,
       ObserveRunning, MarkRunning, Persist, DispatchWebhooks, DeleteJob
  <2> QED  BY <1>3, <2>1
<1> QED
  BY <1>4, <1>5, <1>6, <1>7, <1>8, <1>9, <1>10 DEF Next, Reconcile, Informers, UserActions

LEMMA VerdictStep ==
    ASSUME TypeOK, VersionsInv, CopyInv, VerdictInv, Next
    PROVE  VerdictInv'
<1>1. Live'.phase \in Verdicts => Live'.phase \in said \cup said'
  <2>1. CASE Live'.phase = Live.phase
    BY <2>1 DEF VerdictInv, VerdictEarned
  <2>2. CASE Live'.phase # Live.phase /\ Decides
    <3>1. PICK p \in TerminalPhases, q \in Reasons,
               r \in {Cached, [Cached EXCEPT !.stages = CachedPod.state]} :
                 /\ Commit(1, Ended(r, p, q)) \/ Refused(1, Ended(r, p, q))
                 /\ p \in Verdicts => p = stored \/ p = CachedPod.verdict
      BY <2>2, DecidesShape DEF Decision
    <3>2. runs \in Seq(Run) /\ r \in Run /\ CachedPod = pods[1] /\ 1 \in 1 .. Len(pods)
      <4>1. Cached \in Run /\ CachedPod \in Pod /\ runs \in Seq(Run) /\ CachedPod = pods[1]
        BY Current DEF TypeOK, ObjectsTyped, CachedPod
      <4>2. [Cached EXCEPT !.stages = CachedPod.state] \in Run
        BY <4>1 DEF Run, Pod
      <4>3. 1 \in 1 .. Len(pods)
        BY DEF TypeOK, ObjectsTyped
      <4> QED  BY <4>1, <4>2, <4>3
    <3>3. Ended(r, p, q) \in Run /\ Ended(r, p, q).phase = p
      BY <3>2, EndedTyped
    <3>4. runs' \in {runs, Append(runs, Ended(r, p, q))}
      BY <3>1 DEF Commit, Refused
    <3>5. Live' = Live \/ Live' = Ended(r, p, q)
      <4>1. runs' = runs => Live' = Live
        BY DEF Live, Last
      <4>2. runs' = Append(runs, Ended(r, p, q)) => Live' = Ended(r, p, q)
        BY <3>2, <3>3, AppendFacts DEF Live
      <4> QED  BY <3>4, <4>1, <4>2
    <3>6. Live'.phase = p
      BY <2>2, <3>3, <3>5
    <3> QED  BY <3>1, <3>2, <3>6 DEF VerdictInv
  <2>3. CASE Live'.phase # Live.phase /\ Stays(Live, Live')
    BY <2>3 DEF Stays, IsTerminalPhase, TerminalPhases, Verdicts
  <2> QED  BY <2>1, <2>2, <2>3, LiveStep
<1> QED  BY <1>1, SourcesStep DEF VerdictInv, VerdictEarned

-----------------------------------------------------------------------------
(* The invariant holds, and what follows from it.                            *)

LEMMA InvInit == Init => Inv
<1> SUFFICES ASSUME Init PROVE Inv
  OBVIOUS
<1>1. /\ runs = <<NewRun>> /\ pc = "idle" /\ sent = <<>> /\ persisted = FALSE
      /\ purge = "idle" /\ stored = ""
  BY DEF Init
<1>2. Len(runs) = 1 /\ runs[1] = NewRun /\ Live = NewRun
  BY <1>1, NewRunTyped, SingleFacts DEF Live
<1>3. Sane(NewRun) /\ Follows(NewRun, NewRun)
  BY FollowsFacts DEF Sane, NewRun
<1>4. VersionsInv
  BY <1>2, <1>3 DEF VersionsInv
<1>5. CopyInv /\ SentInv /\ PersistInv
  BY <1>1 DEF CopyInv, SentInv, PersistInv
<1>6. FinalizerGuardsJob
  <2> DEFINE e == [gen |-> 0, state |-> "absent"]
  <2>1. jobs = <<e>>
    BY DEF Init
  <2>2. LiveJob = e
    BY <2>1, SingleFacts DEF LiveJob
  <2> QED  BY <2>2 DEF FinalizerGuardsJob
<1>7. VerdictInv
  <2> DEFINE e == [gen |-> 0, state |-> "absent", verdict |-> ""]
  <2>1. pods = <<e>>
    BY DEF Init
  <2>2. Len(pods) = 1 /\ pods[1] = e
    BY <2>1, SingleFacts
  <2>3. e.verdict = ""
    OBVIOUS
  <2>4. "" \notin Verdicts /\ Live.phase = ""
    BY <1>2 DEF Verdicts, NewRun
  <2>5. \A i \in 1 .. Len(pods) : pods[i].verdict = ""
    <3>1. pods[1].verdict = ""
      BY <2>2, <2>3
    <3>2. \A i \in 1 .. 1 : i = 1
      OBVIOUS
    <3> QED  BY <2>2, <3>1, <3>2, Zenon
  <2> QED  BY <1>1, <2>4, <2>5 DEF VerdictInv, VerdictEarned
<1> QED  BY <1>4, <1>5, <1>6, <1>7 DEF Inv

LEMMA InvStep == TypeInv /\ Inv /\ [Next]_vars => Inv'
<1> SUFFICES ASSUME TypeInv, Inv, [Next]_vars PROVE Inv'
  OBVIOUS
<1>1. CASE Next
  BY <1>1, LiveStep, SentStep, PersistStep, FinalizerStep, VerdictStep DEF Inv, TypeInv
<1>2. CASE UNCHANGED vars
  <2>1. Live' = Live /\ LiveJob' = LiveJob
    BY <1>2 DEF vars, Live, LiveJob, Last
  <2>2. VersionsInv' /\ CopyInv' /\ SentInv' /\ PersistInv'
    BY <1>2, <2>1 DEF vars, Inv, VersionsInv, CopyInv, SentInv, PersistInv
  <2>3. FinalizerGuardsJob' /\ VerdictInv'
    BY <1>2, <2>1 DEF vars, Inv, FinalizerGuardsJob, VerdictInv, VerdictEarned
  <2> QED  BY <2>2, <2>3 DEF Inv
<1> QED  BY <1>1, <1>2

\* The inductive invariant holds of the lifecycle.
THEOREM Invariance == Spec => [](TypeInv /\ Inv)
<1>1. Init => TypeInv /\ Inv
  BY TypeInit, InvInit
<1>2. TypeInv /\ Inv /\ [Next]_vars => (TypeInv /\ Inv)'
  BY TypeStep, InvStep
<1> QED  BY <1>1, <1>2, PTL DEF Spec

\* dispatchWebhooks announces no phase of a run twice, and an end as the phase the run keeps,
\* however often the operator restarts and loses dispatchedRuns.
THEOREM AnnouncedAtMostOnce == Spec => []AnnouncedOnce
<1>1. TypeInv /\ Inv => AnnouncedOnce
  <2> SUFFICES ASSUME TypeInv, Inv PROVE AnnouncedOnce
    OBVIOUS
  <2>1. CASE sent = <<>>
    BY <2>1 DEF AnnouncedOnce
  <2>2. CASE sent # <<>>
    <3>1. Len(sent) = 1 /\ sent[1] = Live.phase /\ sent \in Seq(TerminalPhases)
      BY <2>2 DEF Inv, SentInv, TypeInv, TypeOK, OutcomeTyped
    <3>2. DOMAIN sent = 1 .. 1
      BY <3>1
    <3> QED  BY <3>1, <3>2 DEF AnnouncedOnce
  <2> QED  BY <2>1, <2>2
<1> QED  BY <1>1, Invariance, PTL

\* inspectJob never makes a verdict up: passed or failed is what a wrapper reached.
THEOREM VerdictsAreEarned == Spec => []VerdictEarned
<1>1. Inv => VerdictEarned
  BY DEF Inv, VerdictInv
<1> QED  BY <1>1, Invariance, PTL

\* A run with a Job carries the finalizer until it is gone, so finalize sees it.
THEOREM FinalizerHolds == Spec => []FinalizerGuardsJob
<1>1. Inv => FinalizerGuardsJob
  BY DEF Inv
<1> QED  BY <1>1, Invariance, PTL

\* No step changes the phase or the reason of a run whose live phase is terminal.
THEOREM VerdictFinal == Spec => TerminalIsFinal
<1>1. TypeInv /\ Inv /\ [Next]_vars =>
        [IsTerminalPhase(Live.phase) =>
           Live'.phase = Live.phase /\ Live'.reason = Live.reason]_vars
  <2> SUFFICES ASSUME TypeInv, Inv, Next, IsTerminalPhase(Live.phase)
               PROVE  Live'.phase = Live.phase /\ Live'.reason = Live.reason
    OBVIOUS
  <2> QED  BY LiveStep DEF Inv, TypeInv, Follows
<1> QED  BY <1>1, Invariance, PTL DEF Spec, TerminalIsFinal

\* expireFinished deletes a TestRun only when the row in run history has its phase.
THEOREM ExpiryIsRecorded == Spec => ExpireOnlyRecorded
<1>1. TypeInv /\ Inv /\ [Next]_vars =>
        [pc = "expire" /\ pc' = "idle" /\ ~Live.deleting /\ Live'.deleting
           => row = Live.phase]_vars
  <2> SUFFICES ASSUME TypeInv, Inv, Next, pc = "expire", pc' = "idle", ~Live.deleting,
                      Live'.deleting
               PROVE  row = Live.phase
    OBVIOUS
  <2>1. ExpireFinished \/ UNCHANGED Live
    <3>1. CASE Crash
      <4>1. Live' = Live
        BY <3>1, Current, SingleFacts DEF Crash, TypeInv, Live
      <4> QED  BY <4>1
    <3>2. CASE Informers \/ UserActions \/ Cluster
      <4>1. pc' = pc
        BY <3>2 DEF Informers, RunEvent, JobEvent, PodEvent, UserActions, UserAbort, UserDelete,
           Touch, PurgeObjects, PurgeRun, PurgeRow, Cluster, PodCreated, PodPullError, PodRuns,
           ToolEnds, WrapperDies, JobConcludes, JobDeadline, JobLost, CollectJob, CollectPod,
           outside, operator
      <4> QED  BY <4>1
    <3>3. CASE Decides
      BY <3>3, DecidesShape DEF Open, Held, Begin, TypeInv
    <3>4. CASE Reconcile /\ ~Decides
      BY <3>4 DEF Reconcile, ForgetGone, Finalize, RemoveFinalizer, AddFinalizer,
         ReconcileTerminal, SetupWaits, SetupQueues, CreateJob, WriteJobName, WriteStages,
         ObserveRunning, Persist, DispatchWebhooks, DeleteJob, StillRunning, Inspecting,
         Unresolved, Resolved, Open, Held, Begin
    <3> QED  BY <3>1, <3>2, <3>3, <3>4 DEF Next
  <2>2. UNCHANGED runs => UNCHANGED Live
    BY DEF Live, Last
  <2>3. persisted
    BY <2>1, <2>2 DEF ExpireFinished
  <2> QED  BY <2>3 DEF Inv, PersistInv
<1> QED  BY <1>1, Invariance, PTL DEF Spec, ExpireOnlyRecorded

\* The operator removes a Job only of a run that is decided or being deleted.
LEMMA CleanupStep ==
    ASSUME TypeInv, Inv, Next, LiveJob.state # "absent", LiveJob'.state = "absent",
           left'["loss"] = left["loss"]
    PROVE  IsTerminalPhase(Live.phase) \/ Live.deleting
<1>0. jobs \in Seq(Job) /\ Len(jobs) > 0 /\ LiveJob \in Job /\ left \in [Kinds -> Nat]
  BY Current DEF TypeInv, TypeOK, ObjectsTyped, OutcomeTyped
<1>1. ~UNCHANGED jobs
  BY DEF LiveJob, Last
<1>2. CASE Finalize
  BY <1>2, CacheFacts DEF Finalize, Follows, Inv, TypeInv
<1>3. CASE DeleteJob
  <2>1. pc = "deleteJob"
    BY <1>3 DEF DeleteJob
  <2> QED  BY <2>1 DEF Inv, CopyInv, Follows
<1>4. CASE CreateJob
  BY <1>1, <1>4 DEF CreateJob, Create
<1>5. CASE Crash
  BY <1>0, <1>5, SingleFacts DEF Crash, LiveJob
<1>6. CASE JobEvent
  BY <1>0, <1>6, TailFacts DEF JobEvent, LiveJob
<1>7. CASE JobLost
  BY <1>0, <1>7 DEF JobLost, Spend, Kinds
<1>8. CASE CollectJob
  BY <1>8, CacheFacts DEF CollectJob, Sane, Inv, TypeInv
<1>9. CASE JobConcludes \/ JobDeadline
  <2>1. PICK st \in {"succeeded", "failed", "expired"} : jobs' = Append(jobs, [LiveJob EXCEPT !.state = st])
    BY <1>9 DEF JobConcludes, JobDeadline
  <2>2. [LiveJob EXCEPT !.state = st] \in Job /\ [LiveJob EXCEPT !.state = st].state = st
    BY <1>0 DEF Job
  <2>3. LiveJob' = [LiveJob EXCEPT !.state = st]
    BY <1>0, <2>1, <2>2, AppendFacts DEF LiveJob
  <2> QED  BY <2>2, <2>3
<1>10. CASE Decides
  BY <1>1, <1>10, DecidesShape DEF Decision, TypeInv
<1>11. CASE RunEvent \/ PodEvent \/ UserActions
  BY <1>1, <1>11 DEF RunEvent, PodEvent, UserActions, UserAbort, UserDelete, Touch,
     PurgeObjects, PurgeRun, PurgeRow
<1>12. CASE ForgetGone \/ RemoveFinalizer \/ AddFinalizer \/ ExpireFinished \/ SetupWaits
            \/ SetupQueues \/ WriteJobName \/ WriteStages \/ ObserveRunning \/ Persist
            \/ DispatchWebhooks \/ ReconcileTerminal
  BY <1>1, <1>12 DEF ForgetGone, RemoveFinalizer, AddFinalizer, ExpireFinished, SetupWaits,
     SetupQueues, WriteJobName, WriteStages, ObserveRunning, MarkRunning, Persist,
     DispatchWebhooks, ReconcileTerminal
<1>13. CASE PodCreated \/ PodPullError \/ PodRuns \/ ToolEnds \/ WrapperDies \/ CollectPod
  BY <1>1, <1>13 DEF PodCreated, PodPullError, PodRuns, ToolEnds, WrapperDies, CollectPod
<1> QED
  BY <1>2, <1>3, <1>4, <1>5, <1>6, <1>7, <1>8, <1>9, <1>10, <1>11, <1>12, <1>13
     DEF Next, Reconcile, Informers, Cluster

\* A Job disappears, but for someone else removing it, only after the terminal phase is
\* written or the run is deleted: terminalAndDeleteJob, finalize, garbage collection.
THEOREM CleanupIsLast == Spec => CleanupAfterVerdict
<1>1. TypeInv /\ Inv /\ [Next]_vars =>
        [LiveJob.state # "absent" /\ LiveJob'.state = "absent" /\ left'["loss"] = left["loss"]
           => IsTerminalPhase(Live.phase) \/ Live.deleting]_vars
  BY CleanupStep
<1> QED  BY <1>1, Invariance, PTL DEF Spec, CleanupAfterVerdict

-----------------------------------------------------------------------------
(* Orphans.  While nobody else has removed the Job, a run whose status names  *)
(* a Job, or is about to, has one until it is decided or deleted.             *)

Tracked == Live.jobName \/ pc = "jobName"
Undecided == ~IsTerminalPhase(Live.phase) /\ ~Live.deleting

OrphanInv ==
    /\ left["loss"] <= Budget["loss"]
    /\ left["loss"] = Budget["loss"] =>
         /\ Live.reason # "OrphanJobMissing"
         /\ Tracked /\ Undecided => LiveJob.state # "absent"

\* What is left of a bound only shrinks.
LEMMA SpentStep ==
    ASSUME TypeOK, Next
    PROVE  left'["loss"] \in Nat /\ left'["loss"] <= left["loss"]
<1>1. left \in [Kinds -> Nat] /\ "loss" \in Kinds
  BY DEF TypeOK, OutcomeTyped, Kinds
<1>2. ASSUME NEW k, Spend(k) PROVE left'["loss"] \in Nat /\ left'["loss"] <= left["loss"]
  BY <1>1, <1>2 DEF Spend
<1>3. \A ver, r : Commit(ver, r) \/ Refused(ver, r) => UNCHANGED left \/ Spend("fault")
  BY DEF Commit, Refused
<1>4. CASE Decides
  BY <1>1, <1>2, <1>3, <1>4, DecidesShape DEF Decision
<1>5. CASE RemoveFinalizer \/ AddFinalizer \/ SetupWaits \/ SetupQueues \/ WriteJobName
           \/ WriteStages \/ ObserveRunning
  <2>1. UNCHANGED left \/ Spend("fault")
    BY <1>5 DEF RemoveFinalizer, AddFinalizer, SetupWaits, SetupQueues, WriteJobName,
       WriteStages, ObserveRunning, MarkRunning, Commit, Refused
  <2> QED  BY <1>1, <1>2, <2>1
<1>6. CASE ForgetGone \/ Finalize \/ ReconcileTerminal \/ ExpireFinished \/ CreateJob \/ Persist
           \/ DispatchWebhooks \/ DeleteJob
  <2>1. UNCHANGED left \/ Spend("fault")
    BY <1>6 DEF ForgetGone, Finalize, ReconcileTerminal, ExpireFinished, CreateJob, Persist,
       DispatchWebhooks, DeleteJob, PersistFinished
  <2> QED  BY <1>1, <1>2, <2>1
<1>7. CASE Crash \/ Informers \/ UserActions \/ Cluster
  <2>1. UNCHANGED left \/ \E k \in Kinds : Spend(k)
    BY <1>7 DEF Crash, Informers, RunEvent, JobEvent, PodEvent, UserActions, UserAbort,
       UserDelete, Touch, PurgeObjects, PurgeRun, PurgeRow, Cluster, PodCreated, PodPullError,
       PodRuns, ToolEnds, WrapperDies, JobConcludes, JobDeadline, JobLost, CollectJob,
       CollectPod, Kinds
  <2> QED  BY <1>1, <1>2, <2>1
<1> QED  BY <1>4, <1>5, <1>6, <1>7 DEF Next, Reconcile

\* A version that a write replaces the live one with names a Job and blames its loss only
\* where the live one did.
Blameless(r) == r.jobName = Live.jobName /\ r.reason \in {Live.reason} \cup (Reasons \ {"OrphanJobMissing"})

LEMMA WriteLive ==
    ASSUME TypeOK, NEW ver, NEW r, Commit(ver, r) \/ Refused(ver, r),
           ver = Len(runs) => r \in Run
    PROVE  Live' = Live \/ (ver = Len(runs) /\ Live' = r)
<1>0. runs \in Seq(Run)
  BY DEF TypeOK, ObjectsTyped
<1>1. UNCHANGED runs => Live' = Live
  BY DEF Live, Last
<1>2. r \in Run /\ runs' = Append(runs, r) => Live' = r
  BY <1>0, AppendFacts DEF Live
<1> QED  BY <1>1, <1>2 DEF Commit, Refused

LEMMA DecidesLive ==
    ASSUME TypeOK, VersionsInv, Decides, Live' # Live
    PROVE  /\ Live'.jobName = Live.jobName
           /\ Live'.reason = "OrphanJobMissing" => OrphanJobMissing /\ Cached = Live
<1>0. Cached \in Run /\ CachedPod \in Pod
  BY Current
<1>1. ASSUME NEW r \in {Cached, [Cached EXCEPT !.stages = CachedPod.state]},
             NEW p \in TerminalPhases, NEW q \in Reasons, Decision(r, p, q)
      PROVE  Cached = Live /\ Live'.jobName = Live.jobName /\ Live'.reason = q
  <2>1. r \in Run /\ r.jobName = Cached.jobName
    BY <1>0 DEF Run, Pod
  <2>2. Ended(r, p, q) \in Run /\ Ended(r, p, q).jobName = Cached.jobName
        /\ Ended(r, p, q).reason = q
    BY <2>1, EndedTyped DEF Ended, Run
  <2>3. 1 = Len(runs) /\ Live' = Ended(r, p, q)
    BY <1>1, <2>2, WriteLive DEF Decision
  <2> QED  BY <2>2, <2>3, CacheFacts
<1>2. \A r, p, q, b : TerminalAndDeleteJob(1, r, p, q, b) => Decision(r, p, q)
  BY TerminalShape DEF Decision
<1>3. \A r, p, q : TransitionTerminal(1, r, p, q) => Decision(r, p, q)
  BY DEF TransitionTerminal, Decision, End
<1>4. CASE OrphanJobMissing
  BY <1>1, <1>3, <1>4 DEF OrphanJobMissing, TerminalPhases, Reasons
<1>5. CASE SetupFails \/ CreateJobFails
  BY <1>1, <1>3, <1>5 DEF SetupFails, CreateJobFails, TerminalPhases, Reasons
<1>6. CASE ReconcileAbort \/ InspectInfra
  BY <1>1, <1>2, <1>6 DEF ReconcileAbort, InspectInfra, TerminalPhases, Reasons
<1>7. CASE InspectConcluded
  <2> DEFINE verdict == IF stored # "" THEN stored ELSE ResultFromTermination(CachedPod)
  <2>1. verdict \in Verdicts \cup {"", "malformed"}
    BY Current DEF ResultFromTermination, Pod, TypeOK, OutcomeTyped
  <2>2. CASE verdict \in {"malformed", ""}
    <3>1. FallbackPhaseFromJobFailure(CachedJob) \in Reasons \ {"OrphanJobMissing"}
      BY DEF FallbackPhaseFromJobFailure, Reasons
    <3> QED  BY <1>1, <1>2, <1>7, <2>2, <3>1 DEF InspectConcluded, TerminalPhases, Reasons
  <2>3. CASE verdict \in Verdicts
    <3>1. verdict \in TerminalPhases /\ "" \in Reasons
      BY <2>3 DEF Verdicts, TerminalPhases, Reasons
    <3>2. TerminalAndDeleteJob(1, [Cached EXCEPT !.stages = CachedPod.state], verdict, "", TRUE)
      BY <1>7, <2>3 DEF InspectConcluded, Verdicts
    <3> HIDE DEF verdict
    <3> QED  BY <1>1, <1>2, <3>1, <3>2
  <2> QED  BY <2>1, <2>2, <2>3
<1> QED  BY <1>4, <1>5, <1>6, <1>7 DEF Decides

\* Only WriteJobName names the Job, and only OrphanJobMissing blames its loss.
LEMMA BlameStep ==
    ASSUME TypeOK, VersionsInv, CopyInv, Next, Live' # Live
    PROVE  \/ Decides
           \/ pc = "jobName" /\ Live'.reason = Live.reason
           \/ Blameless(Live')
<1>0. /\ Live \in Run /\ Cached \in Run /\ CachedPod \in Pod /\ mem.run \in Run
      /\ mem.ip \in Nat /\ runs \in Seq(Run) /\ Len(runs) > 0
  BY Current DEF TypeOK, ProcessTyped, ObjectsTyped
<1>1. UNCHANGED runs => FALSE
  BY DEF Live, Last
<1>2. ASSUME NEW e \in Run, Commit(1, e) \/ Refused(1, e), e.jobName = Cached.jobName,
             e.reason \in {Cached.reason} \cup (Reasons \ {"OrphanJobMissing"})
      PROVE  Blameless(Live')
  BY <1>2, WriteLive, CacheFacts DEF Blameless
<1>3. ASSUME NEW e \in Run, pc # "idle", Commit(mem.ver, e) \/ Refused(mem.ver, e),
             e.jobName = mem.run.jobName, e.reason = mem.run.reason
      PROVE  Blameless(Live')
  BY <1>3, WriteLive, CopyFacts DEF Blameless
<1>4. ASSUME DeleteRun PROVE Blameless(Live')
  <2> DEFINE e == [Live EXCEPT !.deleting = TRUE, !.gone = ~Live.fin]
  <2>1. e \in Run /\ e.jobName = Live.jobName /\ e.reason = Live.reason
    BY <1>0 DEF Run
  <2>2. runs' = Append(runs, e)
    BY <1>1, <1>4 DEF DeleteRun
  <2>3. Live' = e
    BY <1>0, <2>1, <2>2, AppendFacts DEF Live
  <2> HIDE DEF e
  <2> QED  BY <2>1, <2>3 DEF Blameless
<1>5. CASE AddFinalizer
  <2> DEFINE e == [Cached EXCEPT !.fin = TRUE]
  <2>1. e \in Run /\ e.jobName = Cached.jobName /\ e.reason = Cached.reason
    BY <1>0 DEF Run
  <2> QED  BY <1>2, <1>5, <2>1 DEF AddFinalizer
<1>6. CASE SetupWaits
  <2> DEFINE e == [Cached EXCEPT !.phase = "queued", !.reason = "Waiting", !.stages = "waiting"]
  <2>1. e \in Run /\ e.jobName = Cached.jobName /\ e.reason \in Reasons \ {"OrphanJobMissing"}
    BY <1>0 DEF Run, Phases, Reasons
  <2> QED  BY <1>2, <1>6, <2>1 DEF SetupWaits
<1>7. CASE SetupQueues
  <2> DEFINE e == [Cached EXCEPT !.phase = "queued", !.reason = "", !.spec = TRUE]
  <2>1. e \in Run /\ e.jobName = Cached.jobName /\ e.reason \in Reasons \ {"OrphanJobMissing"}
    BY <1>0 DEF Run, Phases, Reasons
  <2> QED  BY <1>2, <1>7, <2>1 DEF SetupQueues
<1>8. CASE WriteStages
  <2> DEFINE e == [Cached EXCEPT !.stages = CachedPod.state]
  <2>1. e \in Run /\ e.jobName = Cached.jobName /\ e.reason = Cached.reason
    BY <1>0 DEF Run, Pod
  <2> QED  BY <1>2, <1>8, <2>1 DEF WriteStages
<1>9. CASE RemoveFinalizer
  <2> DEFINE e == [mem.run EXCEPT !.fin = FALSE, !.gone = TRUE]
  <2>1. e \in Run /\ e.jobName = mem.run.jobName /\ e.reason = mem.run.reason
    BY <1>0 DEF Run
  <2> QED  BY <1>3, <1>9, <2>1 DEF RemoveFinalizer
<1>10. CASE WriteJobName
  <2> DEFINE e == [mem.run EXCEPT !.jobName = TRUE]
  <2>1. e \in Run /\ e.reason = mem.run.reason
    BY <1>0 DEF Run
  <2>2. pc = "jobName" /\ (Commit(mem.ver, e) \/ Refused(mem.ver, e))
    BY <1>10 DEF WriteJobName
  <2> HIDE DEF e
  <2>3. mem.ver = Len(runs) /\ Live' = e
    BY <2>1, <2>2, WriteLive
  <2> QED  BY <2>1, <2>2, <2>3, CopyFacts
<1>11. CASE ObserveRunning
  <2>1. ASSUME NEW r \in Run, NEW ip \in Nat
        PROVE  /\ [r EXCEPT !.phase = "running", !.ip = ip] \in Run
               /\ [r EXCEPT !.phase = "running", !.ip = ip].jobName = r.jobName
               /\ [r EXCEPT !.phase = "running", !.ip = ip].reason = r.reason
    BY DEF Run, Phases
  <2>2. CASE pc = "running" /\ MarkRunning(mem.ver, mem.run, mem.ip)
    BY <1>0, <1>1, <1>3, <2>1, <2>2 DEF MarkRunning
  <2>3. CASE MarkRunning(1, Cached, CachedPod.gen)
    <3>1. CachedPod.gen \in Nat
      BY <1>0 DEF Pod
    <3> QED  BY <1>0, <1>1, <1>2, <2>1, <2>3, <3>1 DEF MarkRunning
  <2> QED  BY <1>11, <2>2, <2>3 DEF ObserveRunning
<1>12. CASE ForgetGone \/ Finalize \/ ReconcileTerminal \/ CreateJob \/ Persist
            \/ DispatchWebhooks \/ DeleteJob
  BY <1>1, <1>12 DEF ForgetGone, Finalize, ReconcileTerminal, CreateJob, Persist,
              DispatchWebhooks, DeleteJob
<1>13. CASE ExpireFinished
  BY <1>1, <1>4, <1>13 DEF ExpireFinished
<1>14. CASE Crash
  BY <1>0, <1>14, SingleFacts DEF Crash, Live
<1>15. CASE Informers
  <2>1. RunEvent
    BY <1>1, <1>15 DEF Informers, JobEvent, PodEvent
  <2> QED  BY <1>0, <2>1, TailFacts DEF RunEvent, Live
<1>16. CASE Cluster
  <2>1. UNCHANGED outside
    BY <1>16 DEF Cluster, PodCreated, PodPullError, PodRuns, ToolEnds, WrapperDies, JobConcludes,
           JobDeadline, JobLost, CollectJob, CollectPod
  <2> QED  BY <1>1, <2>1 DEF outside
<1>17. CASE UserActions
  <2>1. CASE UserAbort
    <3> DEFINE e == [Live EXCEPT !.abort = TRUE]
    <3>1. e \in Run /\ e.jobName = Live.jobName /\ e.reason = Live.reason
      BY <1>0 DEF Run
    <3>2. runs' = Append(runs, e)
      BY <2>1 DEF UserAbort
    <3> HIDE DEF e
    <3>3. Live' = e
      BY <1>0, <3>1, <3>2, AppendFacts DEF Live
    <3> QED  BY <3>1, <3>3 DEF Blameless
  <2>2. CASE Touch
    BY <1>0, <2>2, AppendFacts DEF Touch, Live
  <2>3. CASE UserDelete \/ PurgeRun
    BY <1>4, <2>3 DEF UserDelete, PurgeRun
  <2>4. CASE PurgeObjects \/ PurgeRow
    BY <1>1, <2>4 DEF PurgeObjects, PurgeRow
  <2> QED  BY <1>17, <2>1, <2>2, <2>3, <2>4 DEF UserActions
<1> QED
  BY <1>5, <1>6, <1>7, <1>8, <1>9, <1>10, <1>11, <1>12, <1>13, <1>14, <1>15, <1>16, <1>17
     DEF Next, Reconcile

\* The reconcile comes to write jobName only from createJob.
LEMMA NamingStep ==
    ASSUME TypeOK, Next, pc' = "jobName", pc # "jobName"
    PROVE  LiveJob'.state # "absent"
<1>0. jobs \in Seq(Job) /\ Len(jobs) > 0 /\ LiveJob \in Job
  BY Current DEF TypeOK, ObjectsTyped
<1>1. CASE CreateJob
  <2>1. Create
    BY <1>1 DEF CreateJob, End
  <2>2. CASE LiveJob.state = "absent"
    <3> DEFINE j == [gen |-> LiveJob.gen + 1, state |-> "active"]
    <3>1. j \in Job /\ j.state = "active"
      BY <1>0 DEF Job
    <3>2. jobs' = Append(jobs, j)
      BY <2>1, <2>2 DEF Create
    <3> HIDE DEF j
    <3>3. LiveJob' = j
      BY <1>0, <3>1, <3>2, AppendFacts DEF LiveJob
    <3> QED  BY <3>1, <3>3
  <2>3. CASE LiveJob.state # "absent"
    <3>1. jobs' = jobs
      BY <2>1, <2>3 DEF Create
    <3> QED  BY <2>3, <3>1 DEF LiveJob, Last
  <2> QED  BY <2>2, <2>3
<1>2. CASE Decides
  BY <1>2, DecidesShape DEF Decision, Goto
<1>3. CASE Crash \/ Informers \/ UserActions \/ Cluster
  <2>1. pc' \in {pc, "idle"}
    BY <1>3 DEF Crash, Informers, RunEvent, JobEvent, PodEvent, UserActions, UserAbort, UserDelete,
       Touch, PurgeObjects, PurgeRun, PurgeRow, Cluster, PodCreated, PodPullError, PodRuns,
       ToolEnds, WrapperDies, JobConcludes, JobDeadline, JobLost, CollectJob, CollectPod,
       outside, operator
  <2> QED  BY <2>1
<1>4. CASE ForgetGone \/ Finalize \/ RemoveFinalizer \/ AddFinalizer \/ ReconcileTerminal
           \/ ExpireFinished \/ SetupWaits \/ SetupQueues \/ WriteJobName \/ WriteStages
           \/ ObserveRunning \/ Persist \/ DispatchWebhooks \/ DeleteJob
  BY <1>4 DEF ForgetGone, Finalize, RemoveFinalizer, AddFinalizer, ReconcileTerminal,
     ExpireFinished, SetupWaits, SetupQueues, WriteJobName, WriteStages, ObserveRunning,
     MarkRunning, Persist, DispatchWebhooks, DeleteJob, End, Goto
<1> QED  BY <1>1, <1>2, <1>3, <1>4 DEF Next, Reconcile

LEMMA OrphanStep ==
    ASSUME TypeInv, Inv, OrphanInv, Next
    PROVE  OrphanInv'
<1>0. /\ left["loss"] \in Nat /\ Budget["loss"] \in Nat /\ Live \in Run /\ Cached \in Run
      /\ left'["loss"] \in Nat /\ left'["loss"] <= left["loss"]
      /\ TypeOK /\ VersionsInv /\ CopyInv
  BY SpentStep, Current, LifecycleAssumption DEF TypeInv, TypeOK, OutcomeTyped, Kinds, Inv
<1>1. SUFFICES ASSUME left'["loss"] = Budget["loss"]
               PROVE  /\ Live'.reason # "OrphanJobMissing"
                      /\ (Tracked /\ Undecided => LiveJob.state # "absent")'
  BY <1>0 DEF OrphanInv
<1>2. /\ left["loss"] = Budget["loss"] /\ left'["loss"] = left["loss"]
      /\ Live.reason # "OrphanJobMissing"
      /\ Tracked /\ Undecided => LiveJob.state # "absent"
  BY <1>0, <1>1 DEF OrphanInv
<1>3. Live'.reason # "OrphanJobMissing"
  <2>1. CASE Live' = Live
    BY <1>2, <2>1
  <2>2. CASE Decides /\ Live' # Live
    <3>1. SUFFICES ASSUME OrphanJobMissing, Cached = Live PROVE FALSE
      BY <1>0, <2>2, DecidesLive
    <3>2. Live.jobName /\ ~IsTerminalPhase(Live.phase) /\ ~Live.deleting /\ LiveJob.state = "absent"
      BY <3>1 DEF OrphanJobMissing, Resolved, Open, Held
    <3> QED  BY <1>2, <3>2 DEF Tracked, Undecided
  <2>3. CASE ~Decides /\ Live' # Live
    BY <1>0, <1>2, <2>3, BlameStep DEF Blameless
  <2> QED  BY <2>1, <2>2, <2>3
<1>4. ASSUME Tracked', Undecided' PROVE LiveJob'.state # "absent"
  <2>1. Undecided
    BY <1>0, <1>4, LiveStep DEF Undecided, Follows
  <2>2. CASE Tracked
    BY <1>2, <2>1, <2>2, CleanupStep DEF Undecided
  <2>3. CASE ~Tracked
    <3>1. Live'.jobName = Live.jobName
      BY <1>0, <2>3, DecidesLive, BlameStep DEF Tracked, Blameless
    <3>2. pc' = "jobName" /\ pc # "jobName"
      BY <1>4, <2>3, <3>1 DEF Tracked
    <3> QED  BY <1>0, <3>2, NamingStep
  <2> QED  BY <2>2, <2>3
<1> QED  BY <1>3, <1>4

\* observeOrCreateJob blames a missing Job only when someone else removed it: however
\* far the cache lags and however often the operator restarts, a run whose status names a
\* Job has one until the operator wrote its verdict or the run is deleted.
THEOREM OrphansAreLost == Spec => []OrphanOnlyIfLost
<1>1. Init => OrphanInv
  <2>1. ASSUME Init PROVE OrphanInv
    <3>1. Live = NewRun /\ left = Budget /\ pc = "idle"
      BY <2>1, NewRunTyped, SingleFacts DEF Init, Live
    <3>2. Budget["loss"] \in Nat
      BY LifecycleAssumption DEF Kinds
    <3>3. NewRun.jobName = FALSE /\ NewRun.reason = ""
      BY DEF NewRun
    <3>4. ~Tracked /\ Live.reason # "OrphanJobMissing"
      BY <3>1, <3>3 DEF Tracked
    <3> QED  BY <3>1, <3>2, <3>4 DEF OrphanInv
  <2> QED  BY <2>1
<1>2. TypeInv /\ Inv /\ OrphanInv /\ [Next]_vars => OrphanInv'
  <2> SUFFICES ASSUME TypeInv, Inv, OrphanInv, [Next]_vars PROVE OrphanInv'
    OBVIOUS
  <2>1. CASE Next
    BY <2>1, OrphanStep
  <2>2. CASE UNCHANGED vars
    BY <2>2 DEF vars, OrphanInv, Tracked, Undecided, Live, LiveJob, Last
  <2> QED  BY <2>1, <2>2
<1>3. TypeInv /\ OrphanInv => OrphanOnlyIfLost
  <2>1. ASSUME TypeInv PROVE left["loss"] \in Nat /\ Budget["loss"] \in Nat
    BY <2>1, LifecycleAssumption DEF TypeInv, TypeOK, OutcomeTyped, Kinds
  <2> QED  BY <2>1 DEF OrphanInv, OrphanOnlyIfLost
<1> QED  BY <1>1, <1>2, <1>3, Invariance, PTL DEF Spec

-----------------------------------------------------------------------------
(* The lifecycle implements RunContract.                                     *)

\* What a step does to the row and to the announcement.
LEMMA OutcomeStep ==
    ASSUME TypeOK, Inv, Next
    PROVE  \/ UNCHANGED <<row, sent>>
           \/ UNCHANGED <<runs, sent>> /\ IsTerminalPhase(Live.phase) /\ row' = Live.phase
           \/ UNCHANGED <<runs, sent>> /\ row' = ""
           \/ /\ UNCHANGED <<runs, row>> /\ IsTerminalPhase(Live.phase)
              /\ sent = <<>> /\ sent' = Append(sent, Live.phase)
<1>1. CASE Persist
  <2>1. pc = "persist" /\ PersistFinished(mem.run.phase) /\ UNCHANGED <<runs, sent>>
    BY <1>1 DEF Persist
  <2>2. IsTerminalPhase(mem.run.phase) /\ Live.phase = mem.run.phase
    BY <2>1 DEF Inv, CopyInv, Follows
  <2> QED  BY <2>1, <2>2 DEF PersistFinished
<1>2. CASE ReconcileTerminal
  <2>1. /\ IsTerminalPhase(Cached.phase) /\ PersistFinished(Cached.phase)
        /\ UNCHANGED <<runs, sent>>
    BY <1>2 DEF ReconcileTerminal
  <2>2. Live.phase = Cached.phase
    BY <2>1, CacheFacts DEF Inv, Follows
  <2> QED  BY <2>1, <2>2 DEF PersistFinished
<1>3. CASE DispatchWebhooks
  <2>1. pc = "webhook" /\ UNCHANGED <<runs, row>>
    BY <1>3 DEF DispatchWebhooks
  <2>2. IsTerminalPhase(mem.run.phase) /\ Live.phase = mem.run.phase /\ sent = <<>>
    BY <2>1 DEF Inv, CopyInv, SentInv, Follows
  <2> QED  BY <1>3, <2>1, <2>2 DEF DispatchWebhooks
<1>4. CASE PurgeRow
  BY <1>4 DEF PurgeRow, operator
<1>5. CASE Decides
  BY <1>5, DecidesShape DEF Decision
<1>6. CASE ForgetGone \/ Finalize \/ RemoveFinalizer \/ AddFinalizer \/ ExpireFinished
           \/ SetupWaits \/ SetupQueues \/ CreateJob \/ WriteJobName \/ WriteStages
           \/ ObserveRunning \/ DeleteJob
  BY <1>6 DEF ForgetGone, Finalize, RemoveFinalizer, AddFinalizer, ExpireFinished, SetupWaits,
     SetupQueues, CreateJob, WriteJobName, WriteStages, ObserveRunning, MarkRunning, DeleteJob
<1>7. CASE Crash \/ Informers \/ UserAbort \/ UserDelete \/ Touch \/ PurgeObjects \/ PurgeRun
           \/ Cluster
  BY <1>7 DEF Crash, Informers, RunEvent, JobEvent, PodEvent, UserAbort, UserDelete, Touch,
     PurgeObjects, PurgeRun, Cluster, PodCreated, PodPullError, PodRuns, ToolEnds, WrapperDies,
     JobConcludes, JobDeadline, JobLost, CollectJob, CollectPod, outside, operator
<1> QED
  BY <1>1, <1>2, <1>3, <1>4, <1>5, <1>6, <1>7 DEF Next, Reconcile, UserActions

\* Every step of the lifecycle is a step of the contract or leaves it alone.
LEMMA ContractStep ==
    TypeInv /\ Inv /\ TypeInv' /\ [Next]_vars => [Contract!Next]_(Contract!vars)
<1> SUFFICES ASSUME TypeInv, Inv, TypeInv', [Next]_vars
             PROVE  [Contract!Next]_(Contract!vars)
  OBVIOUS
<1>1. UNCHANGED runs => UNCHANGED Live
  BY DEF Live, Last
<1>2. UNCHANGED sent => UNCHANGED Announced
  BY DEF Announced, Last
<1>3. CASE UNCHANGED vars
  BY <1>1, <1>2, <1>3 DEF vars, Contract!vars
<1>4. CASE Next /\ UNCHANGED <<row, sent>>
  <2>1. Follows(Live, Live') /\ PhaseMove(Live, Live')
    BY <1>4, LiveStep DEF Inv, TypeInv
  <2>2. Live.gone \in BOOLEAN /\ Live'.gone \in BOOLEAN
    <3>1. Live \in Run
      BY Current DEF TypeInv
    <3>2. Live' \in Run
      <4>1. runs' \in Seq(Run) /\ Len(runs') > 0
        BY DEF TypeInv, TypeOK, ObjectsTyped
      <4> QED  BY <4>1, HeadFacts DEF Live
    <3> QED  BY <3>1, <3>2 DEF Run
  <2>3. CASE Live'.phase = Live.phase
    <3>1. CASE Live'.gone = Live.gone
      BY <1>2, <1>4, <2>3, <3>1 DEF Contract!vars
    <3>2. CASE Live'.gone = TRUE
      BY <1>2, <1>4, <2>3, <3>2 DEF Contract!Next, Contract!Remove
    <3> QED  BY <2>1, <2>2, <3>1, <3>2 DEF Follows
  <2>4. CASE Live'.phase # Live.phase
    <3>1. /\ ~Live.gone /\ Live'.gone = Live.gone
          /\ \/ Live.phase = "" /\ Live'.phase = "queued"
             \/ Live.phase = "queued" /\ Live'.phase = "running"
             \/ Live.phase \notin TerminalPhases /\ Live'.phase \in TerminalPhases
      BY <2>1, <2>2, <2>4 DEF PhaseMove, IsTerminalPhase
    <3>2. UNCHANGED <<row, Announced>>
      BY <1>2, <1>4
    <3> QED  BY <3>1, <3>2 DEF Contract!Next, Contract!Queue, Contract!Start, Contract!Decide,
                               Contract!Terminal, TerminalPhases
  <2> QED  BY <2>3, <2>4
<1>5. CASE UNCHANGED <<runs, sent>> /\ IsTerminalPhase(Live.phase) /\ row' = Live.phase
  BY <1>1, <1>2, <1>5 DEF Contract!Next, Contract!Record, Contract!Terminal, IsTerminalPhase,
                          TerminalPhases
<1>6. CASE UNCHANGED <<runs, sent>> /\ row' = ""
  BY <1>1, <1>2, <1>6 DEF Contract!Next, Contract!Erase
<1>7. CASE /\ UNCHANGED <<runs, row>> /\ IsTerminalPhase(Live.phase)
           /\ sent = <<>> /\ sent' = Append(sent, Live.phase)
  <2>1. Announced = ""
    BY <1>7 DEF Announced
  <2>2. Announced' = Live.phase
    <3>1. Append(<<>>, Live.phase) # <<>> /\ Last(Append(<<>>, Live.phase)) = Live.phase
      BY DEF Last
    <3> QED  BY <1>7, <3>1 DEF Announced
  <2> QED  BY <1>1, <1>7, <2>1, <2>2 DEF Contract!Next, Contract!Announce, Contract!Terminal,
                                         IsTerminalPhase, TerminalPhases
<1> QED  BY <1>3, <1>4, <1>5, <1>6, <1>7, OutcomeStep DEF TypeInv

\* The reconciler against the API server, with its caches, crashes and lost calls,
\* implements RunContract: one decision, repeated faithfully by history and webhook.
THEOREM Refinement == Spec => RefinesContract
<1>1. Init => Contract!Init
  <2> SUFFICES ASSUME Init PROVE Contract!Init
    OBVIOUS
  <2>1. runs = <<NewRun>> /\ row = "" /\ sent = <<>>
    BY DEF Init
  <2>2. Live = NewRun
    BY <2>1, NewRunTyped, SingleFacts DEF Live
  <2> QED  BY <2>1, <2>2 DEF Contract!Init, Announced, NewRun
<1> QED
  BY <1>1, ContractStep, Invariance, PTL DEF Spec, RefinesContract, Contract!Spec

=============================================================================
