--------------------------- MODULE AdmissionProofs ---------------------------
(***************************************************************************)
(* Proofs about Admission: for any set of runs, any lag of the cache and   *)
(* any budget of crashes, failed calls, aborts and scheduled runs.         *)
(***************************************************************************)
EXTENDS Admission, TLAPS

-----------------------------------------------------------------------------
(* The inductive invariant.                                                *)

RunState == [phase : Phases, resolved : BOOLEAN, abort : BOOLEAN, later : BOOLEAN]
States == [Runs -> RunState]
Latest == [name : Runs \cup {None}, phase : {"", "queued", "done"}]

WalkTyped ==
    /\ due \subseteq Runs /\ todo \subseteq Runs /\ seen \in States
    /\ pc \in {"idle", "replace", "latestStart", "latestEnd"} /\ self \in Runs \cup {None}
    /\ pc # "idle" => self \in Runs
    /\ latest \in Latest /\ known \in Latest
    /\ begun \in Seq(Runs) /\ quiet \in BOOLEAN /\ left \in [Kinds -> Nat]

TypeInv == versions \in Seq(States) /\ Len(versions) > 0 /\ WalkTyped

\* Runs are created in their order, and admitted or aborted after they are.
Ordered(v) ==
    \A r \in Runs : /\ v[r].resolved \/ v[r].abort => Exists(v[r])
                    /\ Exists(v[r]) => \A q \in Runs : q < r => Exists(v[q])

\* What is never taken back.
Follows(v, w) ==
    \A r \in Runs : /\ Exists(v[r]) => Exists(w[r]) /\ w[r].later = v[r].later
                    /\ Terminal(v[r]) => Terminal(w[r])
                    /\ v[r].resolved => w[r].resolved
                    /\ v[r].abort => w[r].abort

\* The cache shows a state that the API server's has moved on from.
CacheInv == \A k \in 1 .. Len(versions) : Ordered(versions[k]) /\ Follows(versions[k], Live)

\* The older runs that a run under Forbid and under Replace is admitted after.
OlderOver(r) == \A q \in Runs : q < r /\ ~Live[q].later => Terminal(Live[q])
OlderGo(r) == \A q \in Runs : q < r /\ ~Live[q].later => Live[q].abort \/ Terminal(Live[q])

ForbidInv == policy = "Forbid" => \A r \in Runs : Live[r].resolved => OlderOver(r)

\* While priors are asked to abort, each older run is still to be asked, or was, or is over.
ReplaceInv ==
    pc = "replace" =>
        /\ policy = "Replace" /\ Follows(seen, Live) /\ Exists(seen[self]) /\ ~Terminal(seen[self])
        /\ \A q \in todo : q # self /\ Exists(Live[q]) /\ ~WaitingForSchedule(Live[q], q)
        /\ \A q \in Runs : q < self /\ ~Live[q].later => q \in todo \/ Live[q].abort \/ Terminal(Live[q])

LatestInv ==
    quiet =>
        /\ known = latest
        /\ pc = "latestStart" => begun # <<>> /\ begun[Len(begun)] = self
        /\ pc # "latestStart" /\ begun # <<>> => latest.name = begun[Len(begun)]

Inv == TypeInv /\ CacheInv /\ ReplaceInv

\* The runs queue in the order they were created in.
Agrees == \A a, b \in Runs : a < b => order[a] < order[b]

\* What a step may write of a run: nothing is taken back, a run is created after the older
\* ones and not as an admitted one, and it is admitted and aborted only as the policy says.
Permitted(r, p) ==
    /\ Exists(p)
    /\ Exists(Live[r]) => p.later = Live[r].later
    /\ ~Exists(Live[r]) => ~p.resolved /\ ~p.abort /\ \A q \in Runs : q < r => Exists(Live[q])
    /\ Terminal(Live[r]) => Terminal(p)
    /\ Live[r].resolved => p.resolved
    /\ Live[r].abort => p.abort
    /\ p.resolved /\ ~Live[r].resolved =>
          /\ policy = "Forbid" /\ Agrees => OlderOver(r)
          /\ policy = "Replace" => OlderGo(r)

\* Only a user aborts a run before its time.
AbortsInTime(r, p) ==
    p.abort /\ ~Live[r].abort => left'.abort # left.abort \/ ~WaitingForSchedule(Live[r], r)

Permits(r, p) == Write(r, p) /\ Permitted(r, p) /\ AbortsInTime(r, p)

-----------------------------------------------------------------------------
(* Lemmas about the versions.                                              *)

LEMMA FollowsItself == \A v \in States : Follows(v, v)
BY DEF Follows

LEMMA FollowsOn ==
    ASSUME NEW u \in States, NEW v \in States, NEW w \in States, Follows(u, v), Follows(v, w)
    PROVE  Follows(u, w)
BY DEF Follows

LEMMA TwoEnds ==
    ASSUME TypeInv, CacheInv
    PROVE  /\ Live \in States /\ Cached \in States /\ Len(versions) \in Nat \ {0}
           /\ Ordered(Live) /\ Ordered(Cached) /\ Follows(Cached, Live)
<1>1. versions \in Seq(States) /\ Len(versions) \in Nat /\ Len(versions) > 0
  BY DEF TypeInv
<1>2. 1 \in 1 .. Len(versions) /\ Len(versions) \in 1 .. Len(versions)
  BY <1>1
<1>3. versions[1] \in States /\ versions[Len(versions)] \in States
  BY <1>1, <1>2
<1>4. QED
  BY <1>1, <1>2, <1>3 DEF CacheInv, Live, Cached

\* A write the API server accepts: a version more, that goes on from the last.
LEMMA Written ==
    ASSUME TypeInv, CacheInv, NEW r \in Runs, NEW p \in RunState, Write(r, p),
           Follows(Live, [Live EXCEPT ![r] = p]), Ordered([Live EXCEPT ![r] = p])
    PROVE  /\ versions' \in Seq(States) /\ Len(versions') > 0
           /\ Live' = [Live EXCEPT ![r] = p] /\ CacheInv'
<1> DEFINE w == [Live EXCEPT ![r] = p]
<1>1. /\ Live \in States /\ versions \in Seq(States) /\ Len(versions) \in Nat
      /\ w \in States
  BY TwoEnds DEF TypeInv, States
<1>2. versions' = Append(versions, w)
  BY DEF Write
<1> HIDE DEF w
<1>3. versions' \in Seq(States) /\ Len(versions') = Len(versions) + 1
  BY <1>1, <1>2
<1>4. \A k \in 1 .. Len(versions) : versions'[k] = versions[k]
  BY <1>1, <1>2
<1>5. versions'[Len(versions) + 1] = w
  BY <1>1, <1>2
<1>6. Live' = w
  BY <1>3, <1>5 DEF Live
<1>7. ASSUME NEW k \in 1 .. Len(versions') PROVE Ordered(versions'[k]) /\ Follows(versions'[k], w)
  <2>1. CASE k = Len(versions) + 1
    BY <2>1, <1>1, <1>5, FollowsItself DEF w
  <2>2. CASE k # Len(versions) + 1
    <3>1. k \in 1 .. Len(versions)
      BY <2>2, <1>1, <1>3
    <3>2. versions'[k] = versions[k] /\ versions[k] \in States
      BY <3>1, <1>1, <1>4
    <3>3. Ordered(versions[k]) /\ Follows(versions[k], Live)
      BY <3>1 DEF CacheInv
    <3>4. Follows(Live, w)
      BY DEF w
    <3>5. QED
      BY <3>2, <3>3, <3>4, <1>1, FollowsOn
  <2>3. QED
    BY <2>1, <2>2
<1>8. CacheInv'
  BY <1>6, <1>7 DEF CacheInv
<1>9. QED
  BY <1>1, <1>3, <1>6, <1>8 DEF w

\* The cache catches up by a version.
LEMMA Watched ==
    ASSUME TypeInv, CacheInv, Len(versions) > 1, versions' = Tail(versions)
    PROVE  versions' \in Seq(States) /\ Len(versions') > 0 /\ Live' = Live /\ CacheInv'
<1>1. versions \in Seq(States) /\ Len(versions) \in Nat /\ versions # <<>>
  BY DEF TypeInv
<1>2. versions' \in Seq(States) /\ Len(versions') = Len(versions) - 1
  BY <1>1
<1>3. \A k \in 1 .. Len(versions') : versions'[k] = versions[k + 1]
  BY <1>1
<1>4. Live' = Live
  BY <1>1, <1>2, <1>3 DEF Live
<1>5. \A k \in 1 .. Len(versions') : k + 1 \in 1 .. Len(versions)
  BY <1>1, <1>2
<1>6. CacheInv'
  BY <1>3, <1>4, <1>5 DEF CacheInv
<1>7. QED
  BY <1>1, <1>2, <1>4, <1>6

\* The values a run is given.
LEMMA Fields ==
    ASSUME NEW p \in RunState
    PROVE  /\ \A ph \in Phases :
                /\ [p EXCEPT !.phase = ph] \in RunState
                /\ [p EXCEPT !.phase = ph].phase = ph
                /\ [p EXCEPT !.phase = ph].resolved = p.resolved
                /\ [p EXCEPT !.phase = ph].abort = p.abort
                /\ [p EXCEPT !.phase = ph].later = p.later
           /\ [p EXCEPT !.abort = TRUE] \in RunState
           /\ [p EXCEPT !.abort = TRUE].phase = p.phase
           /\ [p EXCEPT !.abort = TRUE].resolved = p.resolved
           /\ [p EXCEPT !.abort = TRUE].abort = TRUE
           /\ [p EXCEPT !.abort = TRUE].later = p.later
           /\ [p EXCEPT !.phase = "queued", !.resolved = TRUE] \in RunState
           /\ [p EXCEPT !.phase = "queued", !.resolved = TRUE].phase = "queued"
           /\ [p EXCEPT !.phase = "queued", !.resolved = TRUE].resolved = TRUE
           /\ [p EXCEPT !.phase = "queued", !.resolved = TRUE].abort = p.abort
           /\ [p EXCEPT !.phase = "queued", !.resolved = TRUE].later = p.later
BY DEF RunState, Phases

IsNew(n) == n \in RunState /\ n.phase = "" /\ ~n.resolved /\ ~n.abort

LEMMA NewFields ==
    /\ IsNew([NoRun EXCEPT !.phase = ""])
    /\ IsNew([NoRun EXCEPT !.phase = "", !.later = TRUE])
BY DEF IsNew, RunState, Phases, NoRun

LEMMA RunFields ==
    ASSUME NEW v \in States, NEW r \in Runs
    PROVE  /\ v[r] \in RunState /\ v[r].phase \in Phases /\ v[r].resolved \in BOOLEAN
           /\ v[r].abort \in BOOLEAN /\ v[r].later \in BOOLEAN
BY DEF States, RunState

\* A permitted write goes on from the last version.
LEMMA PermittedGoesOn ==
    ASSUME TypeInv, CacheInv, NEW r \in Runs, NEW p \in RunState, Permitted(r, p)
    PROVE  Follows(Live, [Live EXCEPT ![r] = p]) /\ Ordered([Live EXCEPT ![r] = p])
<1> DEFINE w == [Live EXCEPT ![r] = p]
<1>1. Live \in States /\ Ordered(Live)
  BY TwoEnds
<1>2. w[r] = p /\ \A q \in Runs : q # r => w[q] = Live[q]
  BY <1>1 DEF States
<1> HIDE DEF w
<1>3. Follows(Live, w)
  BY <1>2 DEF Follows, Permitted
<1>4. \A q \in Runs : Exists(Live[q]) => Exists(w[q])
  BY <1>2 DEF Permitted
<1>5. ASSUME NEW a \in Runs
      PROVE  /\ w[a].resolved \/ w[a].abort => Exists(w[a])
             /\ Exists(w[a]) => \A q \in Runs : q < a => Exists(w[q])
  <2>1. CASE a = r
    <3>1. \A q \in Runs : q < r => Exists(Live[q])
      BY <1>1 DEF Permitted, Ordered
    <3>2. QED
      BY <2>1, <3>1, <1>2, <1>4 DEF Permitted
  <2>2. CASE a # r
    BY <2>2, <1>1, <1>2, <1>4 DEF Ordered
  <2>3. QED
    BY <2>1, <2>2
<1>6. Ordered(w)
  BY <1>5 DEF Ordered
<1>7. QED
  BY <1>3, <1>6 DEF w

-----------------------------------------------------------------------------
(* What each step writes.                                                  *)

\* The cache that shows a run shows every older run, and what it has of one that was not
\* created for later is enough to block on or to abort.
LEMMA OlderIsPrior ==
    ASSUME TypeInv, CacheInv, NEW r \in Runs, NEW q \in Runs, q < r, Exists(Cached[r]),
           ~Live[q].later
    PROVE  q \in Priors(r) /\ (Terminal(Cached[q]) => Terminal(Live[q]))
<1>1. Ordered(Cached) /\ Follows(Cached, Live)
  BY TwoEnds
<1>2. Exists(Cached[q])
  BY <1>1 DEF Ordered
<1>3. ~Cached[q].later /\ (Terminal(Cached[q]) => Terminal(Live[q]))
  BY <1>1, <1>2 DEF Follows
<1>4. q # r
  BY AdmissionAssumption
<1>5. QED
  BY <1>2, <1>3, <1>4 DEF Priors, WaitingForSchedule

LEMMA CreatePermits ==
    ASSUME Inv, NEW r \in Runs, Create(r)
    PROVE  \E p \in RunState : Permits(r, p)
<1>1. PICK n : Write(r, n) /\ IsNew(n)
  BY NewFields DEF Create
<1>2. n \in RunState /\ n.phase = "" /\ ~n.resolved /\ ~n.abort
  BY <1>1 DEF IsNew
<1>3. ~Exists(Live[r]) /\ \A q \in Runs : q < r => Exists(Live[q])
  BY DEF Create
<1>4. ~Live[r].resolved /\ ~Live[r].abort
  BY <1>3, TwoEnds DEF Inv, Ordered
<1>5. Permitted(r, n) /\ AbortsInTime(r, n)
  BY <1>2, <1>3, <1>4 DEF Permitted, AbortsInTime, Exists, Terminal
<1>6. QED
  BY <1>1, <1>2, <1>5 DEF Permits

\* A status update that only changes the phase of a run that has not ended.
LEMMA PhasePermits ==
    ASSUME Inv, NEW r \in Runs, NEW ph \in Phases \ {"none"}, Exists(Live[r]), ~Terminal(Live[r]),
           Write(r, [Live[r] EXCEPT !.phase = ph])
    PROVE  \E p \in RunState : Permits(r, p)
<1> DEFINE p == [Live[r] EXCEPT !.phase = ph]
<1>1. Live[r] \in RunState
  BY TwoEnds, RunFields DEF Inv
<1>2. /\ p \in RunState /\ p.phase = ph /\ p.resolved = Live[r].resolved
      /\ p.abort = Live[r].abort /\ p.later = Live[r].later
  BY <1>1, Fields
<1>3. Write(r, p)
  OBVIOUS
<1> HIDE DEF p
<1>4. Permitted(r, p) /\ AbortsInTime(r, p)
  BY <1>2 DEF Permitted, AbortsInTime, Exists, Terminal
<1>5. QED
  BY <1>2, <1>3, <1>4 DEF Permits

\* The patch of spec.abort.
LEMMA AbortPermits ==
    ASSUME Inv, NEW r \in Runs, Exists(Live[r]), Write(r, [Live[r] EXCEPT !.abort = TRUE]),
           left'.abort # left.abort \/ ~WaitingForSchedule(Live[r], r)
    PROVE  \E p \in RunState : Permits(r, p)
<1> DEFINE p == [Live[r] EXCEPT !.abort = TRUE]
<1>1. Live[r] \in RunState
  BY TwoEnds, RunFields DEF Inv
<1>2. /\ p \in RunState /\ p.phase = Live[r].phase /\ p.resolved = Live[r].resolved
      /\ p.abort = TRUE /\ p.later = Live[r].later
  BY <1>1, Fields
<1>3. Write(r, p)
  OBVIOUS
<1> HIDE DEF p
<1>4. Permitted(r, p) /\ AbortsInTime(r, p)
  BY <1>2 DEF Permitted, AbortsInTime, Exists, Terminal
<1>5. QED
  BY <1>2, <1>3, <1>4 DEF Permits

\* The snapshot of setup, from what the reconcile has read of a run that is still current.
LEMMA SnapshotPermits ==
    ASSUME Inv, NEW mem, NEW r \in Runs, mem[r] = Live[r], Exists(Live[r]), ~Terminal(Live[r]),
           Write(r, [mem[r] EXCEPT !.phase = "queued", !.resolved = TRUE]),
           policy = "Forbid" /\ Agrees => OlderOver(r),
           policy = "Replace" => OlderGo(r)
    PROVE  \E p \in RunState : Permits(r, p)
<1> DEFINE p == [mem[r] EXCEPT !.phase = "queued", !.resolved = TRUE]
<1>1. Live[r] \in RunState
  BY TwoEnds, RunFields DEF Inv
<1>2. /\ p \in RunState /\ p.phase = "queued" /\ p.resolved = TRUE
      /\ p.abort = Live[r].abort /\ p.later = Live[r].later
  <2>1. p = [Live[r] EXCEPT !.phase = "queued", !.resolved = TRUE]
    OBVIOUS
  <2> HIDE DEF p
  <2> QED  BY <1>1, <2>1, Fields
<1>3. Write(r, p)
  OBVIOUS
<1> HIDE DEF p
<1>4. Permitted(r, p) /\ AbortsInTime(r, p)
  BY <1>2 DEF Permitted, AbortsInTime, Exists, Terminal
<1>5. QED
  BY <1>2, <1>3, <1>4 DEF Permits

\* A run that proceeds under Forbid has no older run, unless one for later, that is not over,
\* whatever the cache is behind; one that proceeds under Replace has none to abort.
LEMMA ProceedsAfterOlder ==
    ASSUME Inv, NEW r \in Runs, Exists(Cached[r]), DecideConcurrency(r) = "proceed"
    PROVE  /\ policy = "Forbid" /\ Agrees => OlderOver(r)
           /\ policy = "Replace" => OlderGo(r)
<1>1. ASSUME policy = "Forbid", Agrees, NEW q \in Runs, q < r, ~Live[q].later
      PROVE  Terminal(Live[q])
  <2>1. q \in Priors(r) /\ (Terminal(Cached[q]) => Terminal(Live[q]))
    BY <1>1, OlderIsPrior DEF Inv
  <2>2. ~ForbidBlocks(q, r)
    BY <1>1, <2>1 DEF DecideConcurrency
  <2>3. QED
    BY <1>1, <2>1, <2>2 DEF ForbidBlocks, QueuedBefore, Agrees
<1>2. ASSUME policy = "Replace", NEW q \in Runs, q < r, ~Live[q].later
      PROVE  Terminal(Live[q])
  <2>1. q \in Priors(r) /\ (Terminal(Cached[q]) => Terminal(Live[q]))
    BY <1>2, OlderIsPrior DEF Inv
  <2>2. ActivePriors(r) = {}
    BY <1>2 DEF DecideConcurrency
  <2>3. QED
    BY <2>1, <2>2 DEF ActivePriors
<1>3. QED
  BY <1>1, <1>2 DEF OlderOver, OlderGo

\* Every step leaves the versions alone, lets the cache catch up, or makes a permitted write.
LEMMA EveryWrite ==
    ASSUME Inv, Next
    PROVE  \/ versions' = versions
           \/ WatchRuns
           \/ \E r \in Runs : \E p \in RunState : Permits(r, p)
<1> USE DEF Inv
<1>0. Follows(Cached, Live)
  BY TwoEnds
<1>1. ASSUME NEW r \in Runs, Create(r) PROVE \E p \in RunState : Permits(r, p)
  BY <1>1, CreatePermits
<1>2. ASSUME NEW r \in Runs, UserAbort(r) PROVE \E p \in RunState : Permits(r, p)
  <2>1. left'.abort # left.abort
    <3>1. left \in [Kinds -> Nat] /\ "abort" \in Kinds
      BY DEF TypeInv, WalkTyped, Kinds
    <3>2. left["abort"] \in Nat /\ left'["abort"] = left["abort"] - 1
      BY <1>2, <3>1 DEF UserAbort, Spend
    <3>3. QED
      BY <3>2
  <2>2. QED
    BY <1>2, <2>1, AbortPermits DEF UserAbort
<1>3. ASSUME NEW r \in Runs, TransitionTerminal(r) PROVE \E p \in RunState : Permits(r, p)
  BY <1>3, PhasePermits DEF TransitionTerminal, Idle, Phases
<1>4. ASSUME NEW r \in Runs, Wait(r) PROVE \E p \in RunState : Permits(r, p)
  BY <1>4, PhasePermits DEF Wait, Idle, Update, Phases
<1>5. ASSUME NEW r \in Runs, RunEnds(r) PROVE \E p \in RunState : Permits(r, p)
  BY <1>5, PhasePermits DEF RunEnds, Idle, Update, Phases
<1>6. ASSUME NEW r \in Runs, SetupProceeds(r), versions' # versions
      PROVE  \E p \in RunState : Permits(r, p)
  <2>1. Exists(Cached[r]) /\ ~Terminal(Cached[r]) /\ DecideConcurrency(r) = "proceed"
    BY <1>6 DEF SetupProceeds, Setup, Idle
  <2>2. /\ Cached[r] = Live[r]
        /\ Write(r, [Cached[r] EXCEPT !.phase = "queued", !.resolved = TRUE])
    BY <1>6 DEF SetupProceeds, Snapshot, Update, Refused
  <2>3. QED
    BY <2>1, <2>2, ProceedsAfterOlder, SnapshotPermits
<1>7. ASSUME RequestAbort, versions' # versions
      PROVE  \E r \in Runs : \E p \in RunState : Permits(r, p)
  <2>1. PICK q \in todo : Write(q, [Live[q] EXCEPT !.abort = TRUE])
    BY <1>7 DEF RequestAbort
  <2>2. q \in Runs /\ Exists(Live[q]) /\ ~WaitingForSchedule(Live[q], q)
    BY <1>7 DEF RequestAbort, TypeInv, WalkTyped, ReplaceInv
  <2>3. QED
    BY <2>1, <2>2, AbortPermits
<1>8. ASSUME Replaced, versions' # versions
      PROVE  \E r \in Runs : \E p \in RunState : Permits(r, p)
  <2>1. /\ seen[self] = Live[self]
        /\ Write(self, [seen[self] EXCEPT !.phase = "queued", !.resolved = TRUE])
    BY <1>8 DEF Replaced, Snapshot, Update, Refused
  <2>2. self \in Runs /\ Exists(Live[self]) /\ ~Terminal(Live[self])
    BY <1>8, <2>1 DEF Replaced, TypeInv, WalkTyped, ReplaceInv
  <2>3. policy = "Replace" /\ OlderGo(self)
    BY <1>8 DEF Replaced, ReplaceInv, OlderGo
  <2>4. QED
    BY <2>1, <2>2, <2>3, SnapshotPermits
<1>9. ASSUME \/ \E r \in Runs : NotBeforePasses(r) \/ SetupReplaces(r)
             \/ WatchTest \/ Crash \/ RecordStarted \/ RecordEnded
      PROVE  versions' = versions
  BY <1>9 DEF NotBeforePasses, SetupReplaces, WatchTest, Crash, RecordStarted, RecordEnded
<1>10. QED
  BY <1>1, <1>2, <1>3, <1>4, <1>5, <1>6, <1>7, <1>8, <1>9 DEF Next, Reconcile

\* What a step does to the runs.
RunsStep ==
    \/ Live' = Live
    \/ \E r \in Runs : \E p \in RunState :
          Live' = [Live EXCEPT ![r] = p] /\ Permitted(r, p) /\ AbortsInTime(r, p)

LEMMA VersionsStep ==
    ASSUME Inv, Next
    PROVE  /\ versions' \in Seq(States) /\ Len(versions') > 0 /\ CacheInv'
           /\ Follows(Live, Live') /\ RunsStep
<1> USE DEF Inv
<1>0. Live \in States
  BY TwoEnds
<1>1. CASE versions' = versions
  BY <1>0, <1>1, FollowsItself DEF RunsStep, TypeInv, CacheInv, Live
<1>2. CASE WatchRuns
  BY <1>0, <1>2, Watched, FollowsItself DEF RunsStep, WatchRuns
<1>3. ASSUME NEW r \in Runs, NEW p \in RunState, Permits(r, p)
      PROVE  /\ versions' \in Seq(States) /\ Len(versions') > 0 /\ CacheInv'
             /\ Follows(Live, Live') /\ RunsStep
  <2>1. Follows(Live, [Live EXCEPT ![r] = p]) /\ Ordered([Live EXCEPT ![r] = p])
    BY <1>3, PermittedGoesOn DEF Permits
  <2>2. /\ versions' \in Seq(States) /\ Len(versions') > 0
        /\ Live' = [Live EXCEPT ![r] = p] /\ CacheInv'
    BY <1>3, <2>1, Written DEF Permits
  <2>3. QED
    BY <1>3, <2>1, <2>2 DEF Permits, RunsStep
<1>4. QED
  BY <1>1, <1>2, <1>3, EveryWrite

-----------------------------------------------------------------------------
(* The invariant is inductive.                                             *)

LEMMA InitInv == Init => Inv
<1> SUFFICES ASSUME Init PROVE Inv
  OBVIOUS
<1>1. NoRun \in RunState /\ NoRun.phase = "none" /\ ~NoRun.resolved /\ ~NoRun.abort
  BY DEF NoRun, RunState, Phases
<1> DEFINE v == [r \in Runs |-> NoRun]
<1>2. v \in States /\ \A r \in Runs : v[r] = NoRun
  BY <1>1 DEF States
<1>3. versions = <<v>> /\ seen = v
  BY DEF Init
<1> HIDE DEF v
<1>4. versions \in Seq(States) /\ Len(versions) = 1 /\ versions[1] = v
  BY <1>2, <1>3
<1>5. NoLatest \in Latest
  BY DEF NoLatest, Latest, None
<1>6. left \in [Kinds -> Nat]
  BY AdmissionAssumption DEF Init
<1>7. begun \in Seq(Runs)
  BY DEF Init
<1>8. TypeInv
  BY <1>2, <1>3, <1>4, <1>5, <1>6, <1>7 DEF Init, TypeInv, WalkTyped
<1>9. Ordered(v) /\ Follows(v, v)
  BY <1>1, <1>2, FollowsItself DEF Ordered, Exists
<1>10. CacheInv
  BY <1>4, <1>9 DEF CacheInv, Live
<1>11. ReplaceInv
  BY DEF Init, ReplaceInv
<1>12. QED
  BY <1>8, <1>10, <1>11 DEF Inv

LEMMA RecordType ==
    ASSUME TypeInv, NEW r \in Runs, NEW ph \in {"queued", "done"}, NEW s \in BOOLEAN,
           RecordLatestRun(r, ph, s)
    PROVE  latest' \in Latest /\ known' \in Latest /\ quiet' \in BOOLEAN /\ left' \in [Kinds -> Nat]
<1>1. LatestAfter(r, ph, s) \in Latest
  BY DEF TypeInv, WalkTyped, Latest, LatestAfter, Patched
<1>2. quiet' \in BOOLEAN
  BY DEF TypeInv, WalkTyped, RecordLatestRun
<1>3. left' \in [Kinds -> Nat]
  BY DEF TypeInv, WalkTyped, RecordLatestRun, Spend, Kinds
<1>4. QED
  BY <1>1, <1>2, <1>3 DEF TypeInv, WalkTyped, RecordLatestRun, testStatus

\* Every budget stays a natural number.
LEMMA SpendType ==
    ASSUME left \in [Kinds -> Nat], NEW k \in Kinds, Spend(k)
    PROVE  left' \in [Kinds -> Nat]
BY DEF Spend

LEMMA WalkType ==
    ASSUME Inv, Next
    PROVE  WalkTyped'
<1>0. Cached \in States /\ Unseen \in States /\ WalkTyped
  BY TwoEnds DEF Inv, TypeInv, Unseen, States, RunState, NoRun, Phases
<1>b. "crash" \in Kinds /\ "fault" \in Kinds /\ "later" \in Kinds /\ "abort" \in Kinds
  BY DEF Kinds
<1> USE DEF WalkTyped, chosen, walk, testStatus, history
<1>1. ASSUME NEW r \in Runs, Create(r) PROVE WalkTyped'
  BY <1>0, <1>b, <1>1, SpendType DEF Create
<1>2. ASSUME NEW r \in Runs, UserAbort(r) PROVE WalkTyped'
  BY <1>0, <1>b, <1>2, SpendType DEF UserAbort
<1>3. ASSUME NEW r \in Runs, NotBeforePasses(r) PROVE WalkTyped'
  BY <1>0, <1>3 DEF NotBeforePasses
<1>4. ASSUME WatchRuns \/ WatchTest PROVE WalkTyped'
  BY <1>0, <1>4 DEF WatchRuns, WatchTest
<1>5. ASSUME Crash PROVE WalkTyped'
  BY <1>0, <1>b, <1>5, SpendType DEF Crash, End, At
<1>6. ASSUME NEW r \in Runs, TransitionTerminal(r) PROVE WalkTyped'
  BY <1>0, <1>b, <1>6, SpendType DEF TransitionTerminal, At
<1>7. ASSUME NEW r \in Runs, Wait(r) PROVE WalkTyped'
  BY <1>0, <1>7 DEF Wait, Update
<1>8. ASSUME NEW r \in Runs, SetupReplaces(r) PROVE WalkTyped'
  <2>1. SelectPriorsToAbort(r) \subseteq Runs
    BY DEF SelectPriorsToAbort, ActivePriors, Priors
  <2>2. QED
    BY <1>0, <1>8, <2>1 DEF SetupReplaces
<1>9. ASSUME NEW r \in Runs, NEW mem, Snapshot(mem, r), UNCHANGED <<chosen, due, testStatus>>
      PROVE  WalkTyped'
  <2>1. Append(begun, r) \in Seq(Runs)
    BY <1>0
  <2>2. left' \in [Kinds -> Nat]
    BY <1>0, <1>b, <1>9, SpendType DEF Snapshot, Update, Refused
  <2>3. QED
    BY <1>0, <1>9, <2>1, <2>2 DEF Snapshot, End, At
<1>10. ASSUME NEW r \in Runs, SetupProceeds(r) PROVE WalkTyped'
  BY <1>9, <1>10 DEF SetupProceeds
<1>11. ASSUME Replaced PROVE WalkTyped'
  BY <1>0, <1>9, <1>11 DEF Replaced
<1>12. ASSUME RequestAbort PROVE WalkTyped'
  BY <1>0, <1>b, <1>12, SpendType DEF RequestAbort, End, At
<1>13. ASSUME NEW r \in Runs, RunEnds(r) PROVE WalkTyped'
  BY <1>0, <1>13 DEF RunEnds, Update, At
<1>14. ASSUME RecordStarted PROVE WalkTyped'
  <2>1. self \in Runs /\ RecordLatestRun(self, "queued", TRUE) /\ End
    BY <1>0, <1>14 DEF RecordStarted
  <2>2. latest' \in Latest /\ known' \in Latest /\ quiet' \in BOOLEAN /\ left' \in [Kinds -> Nat]
    BY <2>1, RecordType DEF Inv
  <2>3. QED
    BY <1>0, <1>14, <2>1, <2>2 DEF RecordStarted, End, At
<1>15. ASSUME RecordEnded PROVE WalkTyped'
  <2>1. self \in Runs /\ RecordLatestRun(self, "done", FALSE) /\ End
    BY <1>0, <1>15 DEF RecordEnded
  <2>2. latest' \in Latest /\ known' \in Latest /\ quiet' \in BOOLEAN /\ left' \in [Kinds -> Nat]
    BY <2>1, RecordType DEF Inv
  <2>3. QED
    BY <1>0, <1>15, <2>1, <2>2 DEF RecordEnded, End, At
<1>16. QED
  BY <1>1, <1>2, <1>3, <1>4, <1>5, <1>6, <1>7, <1>8, <1>10, <1>11, <1>12, <1>13, <1>14, <1>15
     DEF Next, Reconcile

\* The reconcile that replaces: what it still has to ask, and what it has asked.
LEMMA ReplaceStep ==
    ASSUME Inv, Next
    PROVE  ReplaceInv'
<1> USE DEF chosen, walk, testStatus, history
<1>0. /\ Live \in States /\ Follows(Live, Live') /\ Live' \in States
      /\ Ordered(Live) /\ Ordered(Cached) /\ Follows(Cached, Live) /\ WalkTyped
      /\ Cached \in States
  <2>1. versions' \in Seq(States) /\ Len(versions') > 0
    BY VersionsStep
  <2>2. Live' \in States
    <3>1. Len(versions') \in Nat
      BY <2>1
    <3>2. Len(versions') \in 1 .. Len(versions')
      BY <2>1, <3>1
    <3>3. QED
      BY <2>1, <3>2 DEF Live
  <2>3. QED
    BY <2>2, TwoEnds, VersionsStep DEF Inv, TypeInv
\* Steps of others: the reconcile stands, the runs go on.
<1>1. ASSUME UNCHANGED <<policy, walk>>, due \subseteq due'
      PROVE  ReplaceInv'
  <2> SUFFICES ASSUME pc' = "replace" PROVE ReplaceInv'
    BY DEF ReplaceInv
  <2>1. /\ policy = "Replace" /\ Follows(seen, Live) /\ Exists(seen[self])
        /\ ~Terminal(seen[self]) /\ self \in Runs /\ seen \in States /\ todo \subseteq Runs
        /\ \A q \in todo : q # self /\ Exists(Live[q]) /\ ~WaitingForSchedule(Live[q], q)
    BY <1>0, <1>1 DEF Inv, ReplaceInv, WalkTyped
  <2>2. Follows(seen, Live')
    BY <1>0, <2>1, FollowsOn
  <2>3. ASSUME NEW q \in todo
        PROVE  q # self /\ Exists(Live'[q]) /\ ~WaitingForSchedule(Live[q], q)'
    BY <1>0, <1>1, <2>1, <2>3 DEF Follows, WaitingForSchedule
  <2>4. ASSUME NEW q \in Runs, q < self, ~Live'[q].later
        PROVE  q \in todo \/ Live'[q].abort \/ Terminal(Live'[q])
    <3>1. Exists(Live[q])
      BY <1>0, <2>1, <2>4 DEF Follows, Ordered
    <3>2. ~Live[q].later
      BY <1>0, <2>4, <3>1 DEF Follows
    <3>3. q \in todo \/ Live[q].abort \/ Terminal(Live[q])
      BY <1>1, <2>4, <3>2 DEF Inv, ReplaceInv
    <3>4. QED
      BY <1>0, <3>3 DEF Follows
  <2>5. QED
    BY <1>1, <2>1, <2>2, <2>3, <2>4 DEF ReplaceInv
<1>2. ASSUME pc' # "replace" PROVE ReplaceInv'
  BY <1>2 DEF ReplaceInv
<1>3. ASSUME NEW r \in Runs, Create(r) \/ UserAbort(r) \/ NotBeforePasses(r) \/ Wait(r) PROVE ReplaceInv'
  BY <1>1, <1>3 DEF Create, UserAbort, NotBeforePasses, Wait
<1>4. ASSUME WatchRuns \/ WatchTest PROVE ReplaceInv'
  BY <1>1, <1>4 DEF WatchRuns, WatchTest
<1>5. ASSUME NEW r \in Runs, TransitionTerminal(r) \/ RunEnds(r) PROVE ReplaceInv'
  BY <1>2, <1>5 DEF TransitionTerminal, RunEnds, At
<1>6. ASSUME Crash \/ RecordStarted \/ RecordEnded PROVE ReplaceInv'
  BY <1>2, <1>6 DEF Crash, RecordStarted, RecordEnded, End, At
<1>7. ASSUME NEW r \in Runs, SetupProceeds(r) PROVE ReplaceInv'
  BY <1>2, <1>7 DEF SetupProceeds, Snapshot, End, At
<1>8. ASSUME Replaced PROVE ReplaceInv'
  BY <1>2, <1>8 DEF Replaced, Snapshot, End, At
<1>9. ASSUME NEW r \in Runs, SetupReplaces(r) PROVE ReplaceInv'
  <2>1. /\ policy = "Replace" /\ Exists(Cached[r]) /\ ~Terminal(Cached[r])
        /\ self' = r /\ todo' = ActivePriors(r) /\ seen' = Cached
        /\ policy' = policy /\ Live' = Live /\ due' = due
    BY <1>9 DEF SetupReplaces, Setup, Idle, DecideConcurrency, SelectPriorsToAbort, Live
  <2>2. ASSUME NEW q \in ActivePriors(r)
        PROVE  q \in Runs /\ q # r /\ Exists(Live[q]) /\ ~WaitingForSchedule(Live[q], q)
    <3>1. q \in Runs /\ q # r /\ Exists(Cached[q]) /\ ~WaitingForSchedule(Cached[q], q)
      BY <2>2 DEF ActivePriors, Priors
    <3>2. QED
      BY <1>0, <3>1 DEF Follows, WaitingForSchedule
  <2>3. ASSUME NEW q \in Runs, q < r, ~Live[q].later
        PROVE  q \in ActivePriors(r) \/ Terminal(Live[q])
    BY <2>1, <2>3, OlderIsPrior DEF Inv, ActivePriors
  <2>4. QED
    BY <1>0, <2>1, <2>2, <2>3 DEF ReplaceInv, WaitingForSchedule
<1>10. ASSUME RequestAbort PROVE ReplaceInv'
  <2> SUFFICES ASSUME pc' = "replace" PROVE ReplaceInv'
    BY <1>2
  <2>1. PICK q \in todo : /\ todo' = todo \ {q}
                          /\ IF seen[q].abort THEN UNCHANGED versions
                             ELSE Write(q, [Live[q] EXCEPT !.abort = TRUE])
    BY <1>10 DEF RequestAbort, End, At
  <2>2. /\ policy = "Replace" /\ Follows(seen, Live) /\ Exists(seen[self])
        /\ ~Terminal(seen[self]) /\ self \in Runs /\ seen \in States /\ todo \subseteq Runs
        /\ \A a \in todo : a # self /\ Exists(Live[a]) /\ ~WaitingForSchedule(Live[a], a)
        /\ \A a \in Runs : a < self /\ ~Live[a].later => a \in todo \/ Live[a].abort \/ Terminal(Live[a])
    BY <1>0, <1>10 DEF RequestAbort, Inv, ReplaceInv, WalkTyped
  <2>3. /\ pc' = pc /\ self' = self /\ seen' = seen /\ policy' = policy /\ due' = due
    BY <1>10 DEF RequestAbort, End, At
  <2>4. Follows(seen, Live')
    BY <1>0, <2>2, FollowsOn
  <2>5. Live'[q].abort
    <3>1. CASE seen[q].abort
      BY <3>1, <2>2, <2>4 DEF Follows
    <3>2. CASE ~seen[q].abort
      <4>1. Live[q] \in RunState
        BY <1>0, <2>2, RunFields
      <4>2. Live' = [Live EXCEPT ![q] = [Live[q] EXCEPT !.abort = TRUE]]
        <5>1. versions' = Append(versions, [Live EXCEPT ![q] = [Live[q] EXCEPT !.abort = TRUE]])
          BY <3>2, <2>1 DEF Write
        <5>2. versions \in Seq(States) /\ [Live EXCEPT ![q] = [Live[q] EXCEPT !.abort = TRUE]] \in States
          BY <1>0, <4>1, Fields DEF Inv, TypeInv, States
        <5>3. QED
          BY <5>1, <5>2 DEF Live
      <4>3. QED
        BY <1>0, <2>2, <4>1, <4>2, Fields DEF States
    <3>3. QED
      BY <3>1, <3>2
  <2>6. ASSUME NEW a \in todo
        PROVE  a # self /\ Exists(Live'[a]) /\ ~WaitingForSchedule(Live[a], a)'
    BY <1>0, <2>2, <2>3, <2>6 DEF Follows, WaitingForSchedule
  <2>7. ASSUME NEW a \in Runs, a < self, ~Live'[a].later
        PROVE  a \in todo \ {q} \/ Live'[a].abort \/ Terminal(Live'[a])
    <3>1. Exists(Live[a])
      BY <1>0, <2>2, <2>7 DEF Follows, Ordered
    <3>2. ~Live[a].later
      BY <1>0, <2>7, <3>1 DEF Follows
    <3>3. a \in todo \/ Live[a].abort \/ Terminal(Live[a])
      BY <2>2, <2>7, <3>2
    <3>4. QED
      BY <1>0, <2>5, <3>3 DEF Follows
  <2>8. QED
    BY <2>1, <2>2, <2>3, <2>4, <2>6, <2>7 DEF ReplaceInv
<1>11. QED
  BY <1>3, <1>4, <1>5, <1>6, <1>7, <1>8, <1>9, <1>10 DEF Next, Reconcile

LEMMA NextInv == Inv /\ [Next]_vars => Inv'
<1> SUFFICES ASSUME Inv, [Next]_vars PROVE Inv'
  OBVIOUS
<1>1. CASE Next
  BY <1>1, VersionsStep, WalkType, ReplaceStep DEF Inv, TypeInv
<1>2. CASE UNCHANGED vars
  BY <1>2 DEF vars, Inv, TypeInv, WalkTyped, CacheInv, Live, ReplaceInv, WaitingForSchedule
<1>3. QED
  BY <1>1, <1>2

\* However late the cache is and wherever a reconcile is cut short, the versions only go
\* forward from it, runs appear in the order of their creation, and while a run replaces its
\* priors each older one is still on its list, was asked to abort, or is over.
THEOREM Invariance == Spec => []Inv
<1>1. QED
  BY InitInv, NextInv, PTL DEF Spec

-----------------------------------------------------------------------------
(* Forbid.                                                                 *)

\* The order of (creationTimestamp, name) is the order of creation.
InTurn == \A o \in Orders : \A a, b \in Runs : a < b => o[a] < o[b]

LEMMA AgreesStep ==
    ASSUME Agrees, [Next]_vars
    PROVE  Agrees' /\ policy' = policy
<1>1. order' = order /\ policy' = policy
  BY DEF Next, Reconcile, vars, chosen, Create, UserAbort, NotBeforePasses, WatchRuns, WatchTest,
         Crash, TransitionTerminal, Wait, SetupReplaces, SetupProceeds, RunEnds, RequestAbort,
         Replaced, RecordStarted, RecordEnded
<1>2. QED
  BY <1>1 DEF Agrees

LEMMA ForbidStep ==
    ASSUME Inv, Agrees, ForbidInv, [Next]_vars
    PROVE  ForbidInv'
<1>0. Live \in States /\ Ordered(Live) /\ policy' = policy
  BY TwoEnds, AgreesStep DEF Inv
<1> SUFFICES ASSUME policy = "Forbid", NEW r \in Runs, Live'[r].resolved,
                    NEW q \in Runs, q < r, ~Live'[q].later
             PROVE  Terminal(Live'[q])
  BY <1>0 DEF ForbidInv, OlderOver
<1>1. CASE Live' = Live
  BY <1>1 DEF ForbidInv, OlderOver
<1>2. ASSUME NEW a \in Runs, NEW p \in RunState, Live' = [Live EXCEPT ![a] = p], Permitted(a, p)
      PROVE  Terminal(Live'[q])
  <2>1. Live'[a] = p /\ \A b \in Runs : b # a => Live'[b] = Live[b]
    BY <1>0, <1>2 DEF States
  <2>2. OlderOver(r)
    BY <2>1, <1>2 DEF Permitted, ForbidInv
  <2>3. Exists(Live[q])
    BY <2>1, <1>0, <1>2 DEF Permitted, Ordered
  <2>4. ~Live[q].later
    BY <2>1, <2>3, <1>2 DEF Permitted
  <2>5. Terminal(Live[q])
    BY <2>2, <2>4 DEF OlderOver
  <2>6. QED
    BY <2>1, <2>5, <1>2 DEF Permitted
<1>3. CASE Next
  BY <1>1, <1>2, <1>3, VersionsStep DEF RunsStep
<1>4. CASE UNCHANGED vars
  BY <1>1, <1>4 DEF vars, Live
<1>5. QED
  BY <1>3, <1>4

\* Under Forbid no two runs of a Test are active together, of those not created for later,
\* for every number of runs and however far the cache from which they are admitted is
\* behind, as long as the order by (creationTimestamp, name) is the order of creation.
THEOREM ForbidIsExclusive ==
    ASSUME InTurn
    PROVE  Spec => []ForbidExclusive
<1>1. Init => Agrees /\ ForbidInv
  <2> SUFFICES ASSUME Init PROVE Agrees /\ ForbidInv
    OBVIOUS
  <2>1. Agrees
    BY DEF Init, Agrees, InTurn
  <2>2. \A r \in Runs : ~Live[r].resolved
    BY DEF Init, Live, NoRun
  <2>3. QED
    BY <2>1, <2>2 DEF ForbidInv
<1>2. Inv /\ Agrees /\ ForbidInv /\ [Next]_vars => Agrees' /\ ForbidInv'
  BY AgreesStep, ForbidStep
<1>3. Inv /\ ForbidInv => ForbidExclusive
  <2> SUFFICES ASSUME ForbidInv, policy = "Forbid", NEW a \in Runs, NEW b \in Runs,
                      Active(a), Active(b), a # b
               PROVE  Live[a].later \/ Live[b].later
    BY DEF ForbidExclusive
  <2>1. a < b \/ b < a
    BY AdmissionAssumption
  <2>2. QED
    BY <2>1 DEF ForbidInv, OlderOver, Active
<1>4. QED
  BY Invariance, <1>1, <1>2, <1>3, PTL DEF Spec

-----------------------------------------------------------------------------
(* Replace.                                                                *)

\* Under Replace a run is admitted only after every older run, other than for later, has
\* ended or was asked to abort, and nobody but a user aborts a run before its time.
THEOREM ReplaceIsKept == Spec => ReplaceKept
<1> DEFINE
      Older == \A r \in Runs : policy = "Replace" /\ ~Live[r].resolved /\ Live'[r].resolved =>
                  \A q \in Runs : q < r /\ ~Live[q].later => Live'[q].abort \/ Terminal(Live'[q])
      Alone == \A r \in Runs : WaitingForSchedule(Live[r], r) /\ ~Live[r].abort /\ Live'[r].abort
                  => left'.abort # left.abort
<1>1. Inv /\ [Next]_vars => [Older]_vars /\ [Alone]_vars
  <2> SUFFICES ASSUME Inv, Next PROVE Older /\ Alone
    OBVIOUS
  <2>0. Live \in States
    BY TwoEnds DEF Inv
  <2>1. CASE Live' = Live
    BY <2>1
  <2>2. ASSUME NEW a \in Runs, NEW p \in RunState, Live' = [Live EXCEPT ![a] = p],
               Permitted(a, p), AbortsInTime(a, p)
        PROVE  Older /\ Alone
    <3>1. Live'[a] = p /\ \A b \in Runs : b # a => Live'[b] = Live[b]
      BY <2>0, <2>2 DEF States
    <3>2. Older
      <4> SUFFICES ASSUME NEW r \in Runs, policy = "Replace", ~Live[r].resolved, Live'[r].resolved,
                          NEW q \in Runs, q < r, ~Live[q].later
                   PROVE  Live'[q].abort \/ Terminal(Live'[q])
        OBVIOUS
      <4>1. r = a
        BY <3>1
      <4>2. OlderGo(a)
        BY <2>2, <3>1, <4>1 DEF Permitted
      <4>3. q # a
        BY <4>1, AdmissionAssumption
      <4>4. QED
        BY <3>1, <4>1, <4>2, <4>3 DEF OlderGo
    <3>3. Alone
      BY <2>2, <3>1 DEF AbortsInTime
    <3>4. QED
      BY <3>2, <3>3
  <2>3. QED
    BY <2>1, <2>2, VersionsStep DEF RunsStep
<1>2. QED
  BY Invariance, <1>1, PTL DEF Spec, ReplaceKept, ReplaceAbortsOlder, ScheduledIsLeftAlone

-----------------------------------------------------------------------------
(* latestRun.                                                              *)

LEMMA LatestStep ==
    ASSUME Inv, LatestInv, [Next]_vars
    PROVE  LatestInv'
<1> USE DEF chosen, walk, testStatus, history
<1> SUFFICES ASSUME quiet' PROVE LatestInv'
  BY DEF LatestInv
<1>0. WalkTyped
  BY DEF Inv, TypeInv
<1>1. ASSUME latest' = latest, known' = known, begun' = begun, quiet' = quiet,
             \/ pc' = pc /\ self' = self
             \/ pc # "latestStart" /\ pc' # "latestStart"
      PROVE  LatestInv'
  BY <1>1 DEF LatestInv
<1>2. ASSUME \E r \in Runs : Create(r) \/ UserAbort(r) \/ NotBeforePasses(r) \/ Wait(r) PROVE LatestInv'
  BY <1>1, <1>2 DEF Create, UserAbort, NotBeforePasses, Wait
<1>3. ASSUME WatchRuns PROVE LatestInv'
  BY <1>1, <1>3 DEF WatchRuns
<1>4. ASSUME WatchTest PROVE LatestInv'
  BY <1>4 DEF WatchTest, LatestInv
<1>5. ASSUME Crash PROVE LatestInv'
  BY <1>5 DEF Crash
<1>6. ASSUME \E r \in Runs : TransitionTerminal(r) \/ SetupReplaces(r) \/ RunEnds(r) PROVE LatestInv'
  BY <1>1, <1>6 DEF TransitionTerminal, SetupReplaces, RunEnds, Idle, Setup, At
<1>7. ASSUME RequestAbort PROVE LatestInv'
  BY <1>1, <1>7 DEF RequestAbort, End, At
<1>8. ASSUME NEW mem, NEW r \in Runs, Snapshot(mem, r), UNCHANGED testStatus, pc # "latestStart"
      PROVE  LatestInv'
  <2>1. CASE Refused(mem, r) /\ End /\ UNCHANGED history
    BY <1>1, <1>8, <2>1 DEF End, At
  <2>2. CASE At("latestStart", r) /\ begun' = Append(begun, r) /\ UNCHANGED quiet
    <3>1. begun \in Seq(Runs)
      BY <1>0 DEF WalkTyped
    <3>2. begun' # <<>> /\ begun'[Len(begun')] = r
      BY <2>2, <3>1
    <3>3. known' = latest'
      BY <1>8, <2>2 DEF LatestInv
    <3>4. QED
      BY <2>2, <3>2, <3>3 DEF LatestInv, At
  <2>3. QED
    BY <1>8, <2>1, <2>2 DEF Snapshot
<1>9. ASSUME NEW r \in Runs, SetupProceeds(r) PROVE LatestInv'
  BY <1>8, <1>9 DEF SetupProceeds, Setup, Idle
<1>10. ASSUME Replaced PROVE LatestInv'
  BY <1>0, <1>8, <1>10 DEF Replaced, WalkTyped
<1>11. ASSUME RecordStarted PROVE LatestInv'
  <2>1. /\ latest' = LatestAfter(self, "queued", TRUE) /\ known' = latest' /\ quiet
        /\ pc = "latestStart" /\ pc' = "idle" /\ begun' = begun
    BY <1>11 DEF RecordStarted, RecordLatestRun, End, At
  <2>2. latest'.name = self
    BY <2>1 DEF LatestAfter, Patched, LatestInv
  <2>3. QED
    BY <2>1, <2>2 DEF LatestInv
<1>12. ASSUME RecordEnded PROVE LatestInv'
  <2>1. /\ latest' = LatestAfter(self, "done", FALSE) /\ known' = latest' /\ quiet
        /\ pc = "latestEnd" /\ pc' = "idle" /\ begun' = begun
    BY <1>12 DEF RecordEnded, RecordLatestRun, End, At
  <2>2. begun # <<>> => latest.name = begun[Len(begun)] /\ latest.name # None
    <3>1. begun # <<>> => begun[Len(begun)] \in Runs
      <4>1. begun \in Seq(Runs)
        BY <1>0 DEF WalkTyped
      <4>2. QED
        BY <4>1
    <3>2. None \notin Runs
      BY AdmissionAssumption DEF None
    <3>3. QED
      BY <2>1, <3>1, <3>2 DEF LatestInv
  <2>3. begun # <<>> => latest'.name = latest.name
    <3>1. known = latest /\ NoLatest.name = None
      BY <2>1 DEF LatestInv, NoLatest, None
    <3>2. begun # <<>> => known # NoLatest
      BY <2>2, <3>1
    <3>3. CASE known.name # self
      BY <2>1, <3>2, <3>3 DEF LatestAfter
    <3>4. CASE known.name = self
      BY <2>1, <3>1, <3>4 DEF LatestAfter, Patched
    <3>5. QED
      BY <3>3, <3>4
  <2>4. QED
    BY <2>1, <2>2, <2>3 DEF LatestInv
<1>13. CASE UNCHANGED vars
  BY <1>1, <1>13 DEF vars
<1>14. QED
  BY <1>2, <1>3, <1>4, <1>5, <1>6, <1>7, <1>9, <1>10, <1>11, <1>12, <1>13 DEF Next, Reconcile

\* While the writes of latestRun succeed against a current cached Test, it names the run
\* whose setup was written last, for any number of runs that start and end in any order.
THEOREM LatestRunIsNewest == Spec => []LatestIsNewest
<1>1. Init => LatestInv
  BY DEF Init, LatestInv
<1>2. Inv /\ LatestInv /\ [Next]_vars => LatestInv'
  BY LatestStep
<1>3. LatestInv => LatestIsNewest
  BY DEF LatestInv, LatestIsNewest
<1>4. QED
  BY Invariance, <1>1, <1>2, <1>3, PTL DEF Spec
=============================================================================
