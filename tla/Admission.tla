------------------------------ MODULE Admission ------------------------------
(***************************************************************************)
(* How the runs of one Test are admitted: spec.notBefore, the Test's       *)
(* concurrencyPolicy (internal/controller/concurrency.go), the setup that  *)
(* applies it, and Test.status.latestRun (latest_run.go).                  *)
(*                                                                         *)
(* The operator reconciles one TestRun at a time, from an informer cache   *)
(* that follows the API server's TestRuns in order but late: versions is   *)
(* the sequence of their states, the first the cached one.  A reconcile is *)
(* cut at its writes.  Everything a run does after its setup is one step,  *)
(* RunEnds (TestRunLifecycle, Composite and Workers have its detail).      *)
(***************************************************************************)
EXTENDS Integers, Sequences, FiniteSets

CONSTANTS
    Runs,       \* the runs, numbered in the order of their creation
    Orders,     \* possible orders of (creationTimestamp, name): a run's place in it
    Policies,   \* possible concurrencyPolicy values of the Test
    MaxLag,     \* bound on the versions the cache is behind
    Budgets     \* how often each of these may happen in a behaviour

\* crash: the operator dies.  fault: one of its calls fails.  later: a run is created with
\* spec.notBefore.  abort: a user aborts a run.  stale: the cached Test is behind.
Kinds == {"crash", "fault", "later", "abort", "stale"}

ASSUME AdmissionAssumption ==
    /\ Runs \subseteq Nat \ {0} /\ IsFiniteSet(Runs)
    /\ \A o \in Orders : o \in [Runs -> Nat] /\ \A a, b \in Runs : o[a] = o[b] => a = b
    /\ Policies \subseteq {"Allow", "Forbid", "Replace"}
    /\ MaxLag \in Nat /\ Budgets \subseteq [Kinds -> Nat]

VARIABLES
    order, policy,  \* of this behaviour
    versions,       \* states of the TestRuns since the cached one
    due,            \* the runs whose notBefore has passed, or that have none
    pc, self, todo, \* the reconcile: where it is, of which run, the priors it still has to abort
    seen,           \* the TestRuns as it listed them
    latest,         \* Test.status.latestRun
    known,          \* the cached Test.status.latestRun
    begun,          \* history: the runs in the order their setup was written
    quiet,          \* history: every setup and verdict so far was recorded in latestRun
    left

vars == <<order, policy, versions, due, pc, self, todo, seen, latest, known, begun, quiet, left>>
chosen == <<order, policy>>
walk == <<pc, self, todo, seen>>
testStatus == <<latest, known>>
history == <<begun, quiet>>

Phases == {"none", "", "queued", "running", "done"}
NoRun == [phase |-> "none", resolved |-> FALSE, abort |-> FALSE, later |-> FALSE]
NoLatest == [name |-> 0, phase |-> ""]
None == 0

Live == versions[Len(versions)]
Cached == versions[1]
Terminal(p) == p.phase = "done"
Exists(p) == p.phase # "none"

Init ==
    /\ order \in Orders /\ policy \in Policies
    /\ versions = <<[r \in Runs |-> NoRun]>>
    /\ due = {} /\ pc = "idle" /\ self = None /\ todo = {} /\ seen = [r \in Runs |-> NoRun]
    /\ latest = NoLatest /\ known = NoLatest /\ begun = <<>> /\ quiet = TRUE
    /\ left \in Budgets

Spend(kind) == left[kind] > 0 /\ left' = [left EXCEPT ![kind] = @ - 1]

Write(r, p) == Len(versions) <= MaxLag /\ versions' = Append(versions, [Live EXCEPT ![r] = p])

\* A status update is refused when the run has changed since it was cached, or fails.
Update(mem, r, p) == mem[r] = Live[r] /\ Write(r, p) /\ UNCHANGED left
Refused(mem, r) ==
    /\ UNCHANGED versions
    /\ IF mem[r] = Live[r] THEN Spend("fault") ELSE UNCHANGED left
Unseen == [r \in Runs |-> NoRun]
At(p, r) == pc' = p /\ self' = r /\ todo' = {} /\ seen' = Unseen
End == At("idle", None)

-----------------------------------------------------------------------------
(* concurrency.go.                                                         *)

\* waitingForSchedule
WaitingForSchedule(p, r) == ~p.resolved /\ p.later /\ r \notin due

\* listPriorRuns, without the runs scheduled for later and without self.
Priors(r) == {q \in Runs \ {r} : Exists(Cached[q]) /\ ~WaitingForSchedule(Cached[q], q)}

QueuedBefore(a, b) == order[a] < order[b]

\* Variant: a waiting run blocks whatever its age.
ForbidBlocksAny(q, r) == ~Terminal(Cached[q])

\* Variant: only runs that have started block.
ForbidBlocksStarted(q, r) == ~Terminal(Cached[q]) /\ Cached[q].resolved

ForbidBlocks(q, r) == ~Terminal(Cached[q]) /\ (Cached[q].resolved \/ QueuedBefore(q, r))
ActivePriors(r) == {q \in Priors(r) : ~Terminal(Cached[q])}

DecideConcurrency(r) ==
    CASE policy = "Forbid" -> IF \E q \in Priors(r) : ForbidBlocks(q, r) THEN "wait" ELSE "proceed"
      [] policy = "Replace" /\ ActivePriors(r) # {} -> "replace"
      [] OTHER -> "proceed"

\* Variant: only runs that have started are replaced.
StartedPriorsToAbort(r) == {q \in ActivePriors(r) : Cached[q].resolved}

SelectPriorsToAbort(r) == ActivePriors(r)

-----------------------------------------------------------------------------
(* The reconcile.                                                          *)

Create(r) ==
    /\ ~Exists(Live[r]) /\ \A q \in Runs : q < r => Exists(Live[q])
    /\ \/ Write(r, [NoRun EXCEPT !.phase = ""]) /\ due' = due \cup {r} /\ UNCHANGED left
       \/ Write(r, [NoRun EXCEPT !.phase = "", !.later = TRUE]) /\ Spend("later") /\ UNCHANGED due
    /\ UNCHANGED <<chosen, walk, testStatus, history>>

UserAbort(r) ==
    /\ Exists(Live[r]) /\ ~Terminal(Live[r]) /\ ~Live[r].abort /\ Spend("abort")
    /\ Write(r, [Live[r] EXCEPT !.abort = TRUE])
    /\ UNCHANGED <<chosen, due, walk, testStatus, history>>

NotBeforePasses(r) ==
    /\ Exists(Live[r]) /\ r \notin due
    /\ due' = due \cup {r}
    /\ UNCHANGED <<chosen, versions, walk, testStatus, history, left>>

\* The informers: TestRuns move on one version; the cached Test may be left behind.
WatchRuns ==
    /\ Len(versions) > 1 /\ versions' = Tail(versions)
    /\ UNCHANGED <<chosen, due, walk, testStatus, history, left>>

WatchTest ==
    /\ known # latest /\ known' = latest
    /\ UNCHANGED <<chosen, versions, due, walk, latest, history, left>>

\* The status patch of recordLatestRun is computed against the cached Test: a field that
\* is the same there is not sent.
Patched(old, next) ==
    [name |-> IF old.name = next.name THEN latest.name ELSE next.name,
     phase |-> IF old.phase = next.phase THEN latest.phase ELSE next.phase]

\* Variant: a run that ends is made the latest whichever run is.
EveryRunIsLatest(r, phase, started) == Patched(known, [name |-> r, phase |-> phase])

\* A run that has started becomes the latest, one that has ended only updates itself.
LatestAfter(r, phase, started) ==
    IF ~started /\ known # NoLatest /\ known.name # r THEN latest
    ELSE Patched(known, [name |-> r, phase |-> phase])

\* recordLatestRun; best effort.
RecordLatestRun(r, phase, started) ==
    \/ /\ latest' = LatestAfter(r, phase, started) /\ known' = latest'
       /\ UNCHANGED <<quiet, left>>
    \/ /\ latest' = LatestAfter(r, phase, started) /\ UNCHANGED known
       /\ Spend("stale") /\ quiet' = FALSE
    \/ Spend("fault") /\ UNCHANGED testStatus /\ quiet' = FALSE

Idle(r) == pc = "idle" /\ Exists(Cached[r]) /\ ~Terminal(Cached[r])

\* transitionTerminal, of an abort or of a setup that fails.
Ends(r) == Cached[r].abort \/ (~Cached[r].resolved /\ ~WaitingForSchedule(Cached[r], r))

TransitionTerminal(r) ==
    /\ Idle(r) /\ Ends(r)
    /\ Cached[r] = Live[r] /\ Write(r, [Live[r] EXCEPT !.phase = "done"])
    /\ IF Cached[r].abort THEN UNCHANGED left ELSE Spend("fault")
    /\ At("latestEnd", r)
    /\ UNCHANGED <<chosen, due, testStatus, history>>

\* waitForNotBefore and waitForPriors keep the run queued.
Waits(r) == WaitingForSchedule(Cached[r], r) \/ DecideConcurrency(r) = "wait"
Wait(r) ==
    /\ Idle(r) /\ ~Cached[r].abort /\ ~Cached[r].resolved /\ Cached[r].phase # "queued"
    /\ Waits(r)
    /\ Update(Cached, r, [Live[r] EXCEPT !.phase = "queued"])
    /\ UNCHANGED <<chosen, due, walk, testStatus, history>>

Setup(r) == Idle(r) /\ ~Cached[r].abort /\ ~Cached[r].resolved /\ ~WaitingForSchedule(Cached[r], r)

\* setup under Replace: the priors are asked to abort one after the other.
SetupReplaces(r) ==
    /\ Setup(r) /\ DecideConcurrency(r) = "replace"
    /\ pc' = "replace" /\ self' = r /\ todo' = SelectPriorsToAbort(r) /\ seen' = Cached
    /\ UNCHANGED <<chosen, versions, due, testStatus, history, left>>

\* requestAbort: nothing when the cached prior is already asked to; a spec patch otherwise.
RequestAbort ==
    /\ pc = "replace" /\ todo # {}
    /\ \E q \in todo :
         \/ /\ IF seen[q].abort THEN UNCHANGED versions
               ELSE Write(q, [Live[q] EXCEPT !.abort = TRUE])
            /\ todo' = todo \ {q} /\ UNCHANGED <<pc, self, seen, left>>
         \/ Spend("fault") /\ End /\ UNCHANGED versions
    /\ UNCHANGED <<chosen, due, testStatus, history>>

\* The rest of setup: the snapshot is written, then latestRun.
Snapshot(mem, r) ==
    \/ /\ Update(mem, r, [mem[r] EXCEPT !.phase = "queued", !.resolved = TRUE])
       /\ At("latestStart", r)
       /\ begun' = Append(begun, r)
       /\ UNCHANGED quiet
    \/ Refused(mem, r) /\ End /\ UNCHANGED history

SetupProceeds(r) ==
    /\ Setup(r) /\ DecideConcurrency(r) = "proceed"
    /\ Snapshot(Cached, r)
    /\ UNCHANGED <<chosen, due, testStatus>>

Replaced ==
    /\ pc = "replace" /\ todo = {}
    /\ Snapshot(seen, self)
    /\ UNCHANGED <<chosen, due, testStatus>>

RecordStarted ==
    /\ pc = "latestStart" /\ RecordLatestRun(self, "queued", TRUE) /\ End
    /\ UNCHANGED <<chosen, versions, due, begun>>

RecordEnded ==
    /\ pc = "latestEnd" /\ RecordLatestRun(self, "done", FALSE) /\ End
    /\ UNCHANGED <<chosen, versions, due, begun>>

\* Everything after setup, up to the terminal write.
RunEnds(r) ==
    /\ Idle(r) /\ Cached[r].resolved /\ ~Cached[r].abort
    /\ Update(Cached, r, [Live[r] EXCEPT !.phase = "done"])
    /\ At("latestEnd", r)
    /\ UNCHANGED <<chosen, due, testStatus, history>>

Crash ==
    /\ pc # "idle" /\ Spend("crash") /\ End
    /\ quiet' = FALSE
    /\ UNCHANGED <<chosen, versions, due, testStatus, begun>>

Reconcile ==
    \/ \E r \in Runs : TransitionTerminal(r) \/ Wait(r) \/ SetupReplaces(r) \/ SetupProceeds(r) \/ RunEnds(r)
    \/ RequestAbort \/ Replaced \/ RecordStarted \/ RecordEnded

Next ==
    \/ \E r \in Runs : Create(r) \/ UserAbort(r) \/ NotBeforePasses(r)
    \/ WatchRuns \/ WatchTest \/ Crash \/ Reconcile

\* The watch delivers, the work queue is served, runs end and time passes.  A run writes
\* at most four times, so a queue that is served reaches every run.
Fairness ==
    /\ WF_vars(WatchRuns) /\ WF_vars(Reconcile)
    /\ \A r \in Runs : WF_vars(NotBeforePasses(r))
Spec == Init /\ [][Next]_vars /\ Fairness

-----------------------------------------------------------------------------
(* Correctness.                                                            *)

Active(r) == Live[r].resolved /\ ~Terminal(Live[r])

\* Under Forbid two runs of the Test are never active together, although the second is
\* admitted from a cache that may not show that the first was: the older run's mere
\* existence blocks the younger one.  (A run created for later is past its place in the
\* order when it comes due, see the README.)
ForbidExclusive ==
    policy = "Forbid" =>
        \A a, b \in Runs : Active(a) /\ Active(b) /\ a # b => Live[a].later \/ Live[b].later

\* Under Replace, when a run is admitted every run created before it, other than for
\* later, has ended or has been asked to abort.
ReplaceAbortsOlder ==
    [][\A r \in Runs : policy = "Replace" /\ ~Live[r].resolved /\ Live'[r].resolved =>
          \A q \in Runs : q < r /\ ~Live[q].later => Live'[q].abort \/ Terminal(Live'[q])]_vars

\* A run scheduled for later is not aborted in favour of another before its time.
ScheduledIsLeftAlone ==
    [][\A r \in Runs : WaitingForSchedule(Live[r], r) /\ ~Live[r].abort /\ Live'[r].abort
          => left'.abort # left.abort]_vars

\* Replace: the older runs go, and only those whose time has come.
ReplaceKept == ReplaceAbortsOlder /\ ScheduledIsLeftAlone

\* While latestRun's writes succeed and the cached Test is current, latestRun names the run
\* admitted last, and an older run that ends late does not take its place.
LatestIsNewest ==
    (quiet /\ pc = "idle" /\ begun # <<>>) => latest.name = begun[Len(begun)]

\* Every run created is admitted or ended at some point: waiting runs do not block each
\* other forever (forbidBlocks: "the oldest waiting run always proceeds").
EveryRunHasItsTurn == \A r \in Runs : Exists(Live[r]) ~> (Live[r].resolved \/ Terminal(Live[r]))
=============================================================================
