------------------------------ MODULE Composite ------------------------------
(***************************************************************************)
(* The reconcile of a composite TestRun, internal/controller/composite.go: *)
(* the walk over the steps of its snapshotted plan, which creates child    *)
(* TestRuns, tries failed ones again, stops a step at its timeout and      *)
(* records one verdict per step until the parent's own phase is decided.   *)
(*                                                                         *)
(* The parent is read from the informer cache and kept as the sequence of  *)
(* its versions since the cached one, as in TestRunLifecycle; children are *)
(* listed from the API server, bypassing the cache.  The walk is cut at    *)
(* its API calls; the operator may crash between any two of them.          *)
(***************************************************************************)
EXTENDS Composer, FiniteSets

CONSTANTS
    Plans,      \* the plans a run may have been given
    Budgets     \* how often each of these may happen in a behaviour

\* crash: the operator dies.  fault: one of its calls fails.  touch: someone else
\* writes the parent.  abort: the user aborts it.
Kinds == {"crash", "fault", "touch", "abort"}

\* A step: its expected children 1 .. kids in order, and its settings; cap 0 is unlimited.
Step == [kids : Nat \ {0}, cap : Nat, retries : Nat, optional : BOOLEAN, always : BOOLEAN,
         negative : BOOLEAN, timeout : BOOLEAN, delay : BOOLEAN]

ASSUME CompositeAssumption ==
    /\ \A p \in Plans : p \in Seq(Step) /\ Len(p) > 0
    /\ Budgets \subseteq [Kinds -> Nat]

VARIABLES
    plan,       \* spec.steps of the resolvedSpec snapshot
    parents,    \* versions of the parent
    kids,       \* the phase of each try of each child; "none" before it is created
    asked,      \* the tries whose spec.abort is set
    late,       \* the steps whose timeout has passed since they were marked running
    settled,    \* the steps whose delay has passed since the parent was started
    pc,         \* where the walk is, "idle" between reconciles
    mem,        \* the reconcile's copy of the parent and its version
    seen,       \* the children as last listed
    at,         \* the step the walk is at
    todo,       \* children the walk is about to create or to stop
    left        \* what is left of the bounds

vars == <<plan, parents, kids, asked, late, settled, pc, mem, seen, at, todo, left>>
walk == <<pc, mem, seen, at, todo>>
clock == <<late, settled>>

-----------------------------------------------------------------------------
Steps == DOMAIN plan
StepPhases == {"", "running", "skipped"} \cup Verdict
Parent == [phase : {"queued", "running"} \cup Verdict, abort : BOOLEAN, steps : Seq(StepPhases)]

\* <<i, k, n>> is try n of expected child k of step i.
Tries == UNION {{i} \X (1 .. plan[i].kids) \X (0 .. plan[i].retries) : i \in Steps}
Of(i) == {c \in Tries : c[1] = i}

Live == parents[Len(parents)]
Cached == parents[1]
NoMem == [ver |-> 0, run |-> [phase |-> "queued", abort |-> FALSE, steps |-> <<>>]]

Init ==
    /\ plan \in Plans
    /\ parents = <<[phase |-> "queued", abort |-> FALSE, steps |-> [i \in Steps |-> ""]]>>
    /\ kids = [c \in Tries |-> "none"]
    /\ asked = {} /\ late = {} /\ settled = {}
    /\ pc = "idle" /\ mem = NoMem /\ seen = kids /\ at = 1 /\ todo = {}
    /\ left \in Budgets

Spend(kind) == left[kind] > 0 /\ left' = [left EXCEPT ![kind] = @ - 1]

\* An update that changes nothing the model keeps may or may not make a new version:
\* it may have changed what the parent says of one child.
Written(r) == IF r = Live THEN {parents, Append(parents, r)} ELSE {Append(parents, r)}
Commit(ver, r) == ver = Len(parents) /\ parents' \in Written(r) /\ UNCHANGED left
Refused(ver, r) ==
    \/ ver # Len(parents) /\ UNCHANGED <<parents, left>>
    \/ ver = Len(parents) /\ Spend("fault") /\ parents' \in Written(r) \cup {parents}

\* The reconcile is over: every one of these returns is followed by a requeue.
End == pc' = "idle" /\ mem' = NoMem /\ at' = 1 /\ todo' = {} /\ seen' = [c \in Tries |-> "none"]

Remember(r) == mem' = [mem EXCEPT !.run = r]
Recorded(v) == [mem.run EXCEPT !.steps[at] = v]
NextStep(r) == Remember(r) /\ at' = at + 1 /\ pc' = "step" /\ todo' = {}

-----------------------------------------------------------------------------
(* The children.                                                           *)

Exists(list, c) == list[c] # "none"
Terminal(phase) == phase \in Verdict

\* latestAttempt: the number of child k's newest try in the list, -1 without one.
LatestAttempt(list, i, k) ==
    LET tries == {n \in 0 .. plan[i].retries : Exists(list, <<i, k, n>>)}
    IN  IF tries = {} THEN -1 ELSE CHOOSE n \in tries : \A m \in tries : m <= n
LatestPhase(list, i, k) ==
    IF LatestAttempt(list, i, k) = -1 THEN "none" ELSE list[<<i, k, LatestAttempt(list, i, k)>>]

InFlight(list, i) == {c \in Of(i) : Exists(list, c) /\ ~Terminal(list[c])}

\* Variant: children are created without regard to the list.
MissingWhenNotOpen(list, i) ==
    {<<i, k, IF LatestAttempt(list, i, k) < plan[i].retries THEN LatestAttempt(list, i, k) + 1
             ELSE plan[i].retries>> : k \in 1 .. plan[i].kids}

\* Variant: off by one at the cap.
MissingBelowCap(list, i) ==
    LET absent == {k \in 1 .. plan[i].kids : LatestAttempt(list, i, k) = -1}
        cap == IF plan[i].cap = 0 THEN plan[i].kids ELSE plan[i].cap
    IN  {<<i, k, 0>> : k \in {j \in absent : Cardinality({m \in absent : m <= j})
                                              < cap - Cardinality(InFlight(list, i))}}

\* ensureStepChildren: the first children without any try, as many as the cap leaves room for.
Missing(list, i) ==
    LET absent == {k \in 1 .. plan[i].kids : LatestAttempt(list, i, k) = -1}
        cap == IF plan[i].cap = 0 THEN plan[i].kids ELSE plan[i].cap
        room == cap - Cardinality(InFlight(list, i))
    IN  IF plan[i].delay /\ i \notin settled THEN {}
        ELSE {<<i, k, 0>> : k \in {j \in absent : Cardinality({m \in absent : m < j}) < room}}

\* gatherOutcomes: the children to try again, and whether the step is done.
Again(list, i) ==
    {<<i, k, LatestAttempt(list, i, k) + 1>> :
       k \in {j \in 1 .. plan[i].kids :
                /\ LatestAttempt(list, i, j) \in 0 .. plan[i].retries - 1
                /\ ChildNeedsRetry(LatestPhase(list, i, j), plan[i].negative)}}
AllDone(list, i) ==
    Again(list, i) = {} /\ \A k \in 1 .. plan[i].kids : Terminal(LatestPhase(list, i, k))

-----------------------------------------------------------------------------
(* reconcileComposite.                                                     *)

Open == pc = "idle" /\ ~Terminal(Cached.phase)

\* Promote to running on the first pass, then list the children.
Promote ==
    LET e == [Cached EXCEPT !.phase = "running"] IN
    /\ Open /\ ~Cached.abort /\ Cached.phase # "running"
    /\ \/ Commit(1, e) /\ pc' = "list" /\ mem' = [ver |-> Len(parents'), run |-> e]
          /\ UNCHANGED <<seen, at, todo>>
       \/ Refused(1, e) /\ End
    /\ UNCHANGED <<plan, kids, asked, clock>>
List ==
    /\ \/ Open /\ ~Cached.abort /\ Cached.phase = "running" /\ mem' = [ver |-> 1, run |-> Cached]
       \/ pc = "list" /\ UNCHANGED mem
    /\ seen' = kids /\ pc' = "step" /\ at' = 1 /\ todo' = {}
    /\ UNCHANGED <<plan, parents, kids, asked, clock, left>>

\* The verdicts of the steps before this one; a skipped step has none.
Before == [j \in 1 .. at - 1 |-> IF Terminal(mem.run.steps[j]) THEN mem.run.steps[j] ELSE ""]
Skipped == ShouldSkip(Before, [j \in 1 .. at - 1 |-> plan[j].optional], plan[at].always)
AtStep == pc = "step" /\ at \in Steps

SkipStep ==
    /\ AtStep /\ Skipped /\ NextStep(Recorded("skipped"))
    /\ UNCHANGED <<plan, parents, kids, asked, clock, seen, left>>

\* recordedStepVerdict: a step that has its verdict keeps it.
HasVerdict == Terminal(mem.run.steps[at])
TakeRecorded ==
    /\ AtStep /\ ~Skipped /\ HasVerdict /\ NextStep(mem.run)
    /\ UNCHANGED <<plan, parents, kids, asked, clock, seen, left>>

EnterStep ==
    /\ AtStep /\ ~Skipped /\ ~HasVerdict
    /\ pc' = "make" /\ todo' = Missing(seen, at)
    /\ UNCHANGED <<plan, parents, kids, asked, clock, mem, seen, at, left>>

\* Children are taken in the order of the list.
Precedes(c, d) == \/ c[1] < d[1]
                  \/ c[1] = d[1] /\ (c[2] < d[2] \/ (c[2] = d[2] /\ c[3] <= d[3]))
Chosen == CHOOSE c \in todo : \A d \in todo : Precedes(c, d)
Made(c) == kids' = IF Exists(kids, c) THEN kids ELSE [kids EXCEPT ![c] = "open"]

\* createChild: AlreadyExists is success.
CreateChild ==
    /\ pc \in {"make", "retry"} /\ todo # {}
    /\ \/ /\ Made(Chosen) /\ todo' = todo \ {Chosen}
          /\ UNCHANGED <<pc, mem, seen, at, left>>
       \/ Spend("fault") /\ (Made(Chosen) \/ UNCHANGED kids) /\ End
    /\ UNCHANGED <<plan, parents, asked, clock>>

\* List again if children were missing, then aggregate, retry or go on waiting.
Gather ==
    LET list == IF Cardinality({c \in Of(at) : Exists(seen, c)}) < plan[at].kids
                THEN kids ELSE seen
        outcomes == [k \in 1 .. plan[at].kids |-> LatestPhase(list, at, k)]
    IN
    /\ pc = "make" /\ todo = {}
    /\ seen' = list
    /\ IF AllDone(list, at)
       THEN NextStep(Recorded(Aggregate(outcomes, plan[at].negative)))
       ELSE pc' = "retry" /\ todo' = Again(list, at) /\ UNCHANGED <<mem, at>>
    /\ UNCHANGED <<plan, parents, kids, asked, clock, left>>

\* The step is in flight: say so, then look at its timeout.
WriteProgress ==
    LET existing == mem.run.steps[at]
        e == IF existing = "" THEN Recorded("running") ELSE mem.run
    IN
    /\ pc = "retry" /\ todo = {}
    /\ \/ /\ Commit(mem.ver, e)
          /\ IF plan[at].timeout /\ existing # "" /\ at \in late
             THEN /\ pc' = "stopStep" /\ todo' = InFlight(seen, at)
                  /\ mem' = [ver |-> Len(parents'), run |-> e] /\ UNCHANGED <<seen, at>>
             ELSE End
       \/ Refused(mem.ver, e) /\ End
    /\ UNCHANGED <<plan, kids, asked, clock>>

\* reconcileAbort of a composite run: stop every child, then end.
ReconcileAbort ==
    /\ Open /\ Cached.abort
    /\ pc' = "stopAll" /\ mem' = [ver |-> 1, run |-> Cached] /\ seen' = kids /\ at' = 1
    /\ todo' = UNION {InFlight(kids, i) : i \in Steps}
    /\ UNCHANGED <<plan, parents, kids, asked, clock, left>>

\* abortStepChildren: requestAbort of the children listed as not terminal.
StopChild ==
    /\ pc \in {"stopStep", "stopAll"} /\ todo # {}
    /\ \/ /\ asked' = asked \cup {Chosen} /\ todo' = todo \ {Chosen}
          /\ UNCHANGED <<pc, mem, seen, at, left>>
       \/ Spend("fault") /\ asked' \in {asked, asked \cup {Chosen}} /\ End
    /\ UNCHANGED <<plan, parents, kids, clock>>

\* The verdict of a step that timed out is written with the next status.
TimeOut ==
    /\ pc = "stopStep" /\ todo = {} /\ NextStep(Recorded("failed"))
    /\ UNCHANGED <<plan, parents, kids, asked, clock, seen, left>>

\* transitionTerminal.
Finish ==
    LET all == [i \in Steps |-> IF Terminal(mem.run.steps[i]) THEN mem.run.steps[i] ELSE ""]
        phase == IF pc = "stopAll" THEN "aborted"
                 ELSE ParentPhase(all, [i \in Steps |-> plan[i].optional])
        e == [mem.run EXCEPT !.phase = phase]
    IN
    /\ \/ pc = "stopAll" /\ todo = {}
       \/ pc = "step" /\ at \notin Steps
    /\ Commit(mem.ver, e) \/ Refused(mem.ver, e)
    /\ End
    /\ UNCHANGED <<plan, kids, asked, clock>>

Reconcile ==
    \/ Promote \/ List \/ SkipStep \/ TakeRecorded \/ EnterStep \/ CreateChild \/ Gather
    \/ WriteProgress \/ ReconcileAbort \/ StopChild \/ TimeOut \/ Finish

-----------------------------------------------------------------------------
(* The rest of the system.                                                 *)

ParentEvent ==
    /\ Len(parents) > 1 /\ parents' = Tail(parents)
    /\ mem' = [mem EXCEPT !.ver = IF @ = 0 THEN 0 ELSE @ - 1]
    /\ UNCHANGED <<plan, kids, asked, clock, pc, seen, at, todo, left>>

Crash ==
    /\ Spend("crash") /\ parents' = <<Live>> /\ End
    /\ UNCHANGED <<plan, kids, asked, clock>>

\* A child is a TestRun of its own: it is decided once, and asking it to abort does not
\* say that it does.
ChildEnds ==
    /\ \E c \in Tries : kids[c] = "open" /\ \E v \in Verdict : kids' = [kids EXCEPT ![c] = v]
    /\ UNCHANGED <<plan, parents, asked, clock, walk, left>>

\* The time since startedAt, of the step's record or of the parent, exceeds the timeout
\* or the delay of a step.
Elapse ==
    /\ \E i \in Steps :
         \/ /\ plan[i].timeout /\ Live.steps[i] = "running"
            /\ late' = late \cup {i} /\ UNCHANGED settled
         \/ /\ plan[i].delay /\ Live.phase = "running"
            /\ settled' = settled \cup {i} /\ UNCHANGED late
    /\ clock' # clock
    /\ UNCHANGED <<plan, parents, kids, asked, walk, left>>

UserAbort ==
    /\ ~Live.abort /\ Spend("abort") /\ parents' = Append(parents, [Live EXCEPT !.abort = TRUE])
    /\ UNCHANGED <<plan, kids, asked, clock, walk>>
Touch ==
    /\ Spend("touch") /\ parents' = Append(parents, Live)
    /\ UNCHANGED <<plan, kids, asked, clock, walk>>

Next == Reconcile \/ ParentEvent \/ Crash \/ ChildEnds \/ Elapse \/ UserAbort \/ Touch

Spec == Init /\ [][Next]_vars

\* The run is requeued every compositeRequeue, the watch delivers, children end, time passes.
Fairness == /\ WF_vars(Reconcile) /\ WF_vars(ParentEvent)
            /\ WF_vars(ChildEnds) /\ WF_vars(Elapse)
FairSpec == Spec /\ Fairness

-----------------------------------------------------------------------------
(* Properties.                                                             *)

\* recordedStepVerdict: "once a step has a terminal verdict it is final", and so is the
\* phase of the parent, whatever the cache, a crash or a late child say.
VerdictsFinal ==
    [][/\ \A i \in Steps : Live.steps[i] \in Verdict \cup {"skipped"}
                             => Live'.steps[i] = Live.steps[i]
       /\ Terminal(Live.phase) => Live'.phase = Live.phase]_vars

\* steps[].retry: a child has one try running at a time, and another try only after one
\* that failed.
OneTryAtATime ==
    \A c \in Tries : c[3] > 0 /\ Exists(kids, c)
      => ChildNeedsRetry(kids[<<c[1], c[2], c[3] - 1>>], plan[c[1]].negative)

\* The steps run one after another: when a step has a child, nothing of the steps before
\* it runs that was not asked to stop.
StepsInOrder ==
    \A c, d \in Tries : c[1] < d[1] /\ Exists(kids, d) /\ kids[c] = "open" => c \in asked

\* A composite run passes only if each step that counts and was not skipped is done and
\* the latest try of each of its children went as the step expects.
PassedIsEarned ==
    Live.phase = "passed" =>
      \A i \in Steps : plan[i].optional \/ Live.steps[i] = "skipped"
        \/ \A k \in 1 .. plan[i].kids :
             LatestPhase(kids, i, k) = (IF plan[i].negative THEN "failed" ELSE "passed")

\* When a composite run has ended and its reconcile is over, each child that still runs
\* has been asked to stop.
NoneLeftRunning ==
    Terminal(Live.phase) /\ pc = "idle" => \A c \in Tries : kids[c] = "open" => c \in asked

\* A composite run ends.
EventuallyEnds == <>Terminal(Live.phase)

\* Children run in turn: step after step, try after try, and none past the end.
ChildrenInTurn == OneTryAtATime /\ StepsInOrder /\ NoneLeftRunning

\* A composite run ends, once.
EndsOnce == VerdictsFinal /\ EventuallyEnds
=============================================================================
