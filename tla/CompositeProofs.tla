--------------------------- MODULE CompositeProofs ---------------------------
(* Proofs about Composite.                                               *)
EXTENDS Composite, FiniteSetTheorems, WellFoundedInduction, TLAPS

-----------------------------------------------------------------------------
(* Least elements.                                                         *)

LEMMA LeastOf ==
    ASSUME NEW S \in SUBSET Nat, S # {}
    PROVE  \E x \in S : \A y \in S : x <= y
<1>1. PICK x \in S : \A y \in S : ~(<<y, x>> \in OpToRel(<, Nat))
  BY NatLessThanWellFounded, WFMin
<1>2. \A y \in Nat : <<y, x>> \in Nat \X Nat /\ (<<y, x>>)[1] = y /\ (<<y, x>>)[2] = x
  OBVIOUS
<1>3. \A y \in Nat : y < x => <<y, x>> \in OpToRel(<, Nat)
  BY <1>2, Zenon DEF OpToRel
<1>4. \A y \in S : ~(y < x)
  BY <1>1, <1>3, Zenon
<1> QED  BY <1>4

LEMMA GreatestOf ==
    ASSUME NEW N \in Nat, NEW S \in SUBSET (0 .. N), S # {}
    PROVE  \E x \in S : \A y \in S : y <= x
<1> DEFINE T == {N - x : x \in S}
<1>1. T \in SUBSET Nat /\ T # {}
  <2>1. \A x \in S : N - x \in Nat
    OBVIOUS
  <2> QED  BY <2>1
<1>2. PICK t \in T : \A u \in T : t <= u
  BY <1>1, LeastOf
<1>3. PICK x \in S : t = N - x
  OBVIOUS
<1>4. \A y \in S : N - y \in T /\ y \in Int /\ x \in Int
  OBVIOUS
<1>5. \A y \in S : N - x <= N - y
  BY <1>2, <1>3, <1>4
<1>6. \A y \in S : y <= x
  BY <1>4, <1>5
<1> QED  BY <1>6

\* FirstIn finds an element of S where there is one.
LEMMA FirstInFacts ==
    ASSUME NEW n \in Nat, NEW s, DOMAIN s = 1 .. n, NEW S, NEW d
    PROVE  \/ FirstIn(s, S, d) = d /\ \A i \in 1 .. n : s[i] \notin S
           \/ FirstIn(s, S, d) \in S
<1>1. CASE \A i \in 1 .. n : s[i] \notin S
  BY <1>1 DEF FirstIn
<1>2. CASE \E i \in 1 .. n : s[i] \in S
  <2> DEFINE T == {i \in 1 .. n : s[i] \in S}
  <2>1. T \in SUBSET Nat /\ T # {}
    BY <1>2
  <2>2. PICK x \in T : \A y \in T : x <= y
    BY <2>1, LeastOf
  <2>3. \A j \in 1 .. x - 1 : s[j] \notin S
    BY <2>2
  <2>4. x \in DOMAIN s /\ s[x] \in S /\ \A j \in 1 .. x - 1 : s[j] \notin S
    BY <2>3
  <2> DEFINE P(i) == s[i] \in S /\ \A j \in 1 .. i - 1 : s[j] \notin S
  <2>5. P(CHOOSE i \in DOMAIN s : P(i))
    <3>1. \E i \in DOMAIN s : P(i)
      BY <2>4
    <3> HIDE DEF P
    <3> QED  BY <3>1, Zenon
  <2>6. FirstIn(s, S, d) = s[CHOOSE i \in DOMAIN s : P(i)]
    BY <1>2 DEF FirstIn
  <2> QED  BY <2>5, <2>6
<1> QED  BY <1>1, <1>2

\* The outcomes of n children.
Outcomes(s, n) == n \in Nat /\ n > 0 /\ s \in [1 .. n -> Verdict]

\* A step passes only if every child went as the step expects.
LEMMA AggregatePassed ==
    ASSUME NEW n, NEW s, Outcomes(s, n), NEW neg \in BOOLEAN, Aggregate(s, neg) = "passed"
    PROVE  \A k \in 1 .. n : s[k] = (IF neg THEN "failed" ELSE "passed")
<1> USE DEF Outcomes
<1>1. DOMAIN s = 1 .. n /\ s # <<>>
  OBVIOUS
<1> DEFINE d == IF \E i \in DOMAIN s : Judged(s[i], neg) = "failed" THEN "failed" ELSE "passed"
<1>2. Aggregate(s, neg) = FirstIn(s, {"aborted", "error"}, d)
  BY <1>1 DEF Aggregate
<1>3. d = "passed" /\ \A i \in 1 .. n : s[i] \notin {"aborted", "error"}
  BY <1>1, <1>2, FirstInFacts
<1>4. \A i \in 1 .. n : Judged(s[i], neg) # "failed"
  BY <1>1, <1>3
<1>5. \A i \in 1 .. n : s[i] \in {"passed", "failed"}
  BY <1>3 DEF Verdict
<1> QED  BY <1>4, <1>5 DEF Judged

LEMMA AggregateTyped ==
    ASSUME NEW n \in Nat, NEW s, DOMAIN s = 1 .. n, NEW neg
    PROVE  Aggregate(s, neg) \in Verdict
<1> DEFINE d == IF \E i \in DOMAIN s : Judged(s[i], neg) = "failed" THEN "failed" ELSE "passed"
<1>1. Aggregate(s, neg) \in {"failed", FirstIn(s, {"aborted", "error"}, d)}
  BY DEF Aggregate
<1>2. FirstIn(s, {"aborted", "error"}, d) \in {d, "aborted", "error"}
  BY FirstInFacts
<1> QED  BY <1>1, <1>2 DEF Verdict

\* A run passes only if no step that counts went wrong.
LEMMA ParentPassed ==
    ASSUME NEW n \in Nat, NEW s, DOMAIN s = 1 .. n, NEW optional
    PROVE  /\ ParentPhase(s, optional) \in Verdict
           /\ ParentPhase(s, optional) = "passed" =>
                \A i \in 1 .. n : optional[i] \/ s[i] \notin {"aborted", "error", "failed"}
<1> DEFINE c == [i \in DOMAIN s |-> IF optional[i] THEN "" ELSE s[i]]
           d == FirstIn(c, {"failed"}, "passed")
<1>0. ParentPhase(s, optional) = FirstIn(c, {"aborted", "error"}, d)
  BY DEF ParentPhase
<1>1. DOMAIN c = 1 .. n /\ \A i \in 1 .. n : ~optional[i] => c[i] = s[i]
  OBVIOUS
<1> HIDE DEF c
<1>2. \/ d = "passed" /\ \A i \in 1 .. n : c[i] \notin {"failed"}
      \/ d \in {"failed"}
  BY <1>1, FirstInFacts
<1> HIDE DEF d
<1>3. \/ ParentPhase(s, optional) = d /\ \A i \in 1 .. n : c[i] \notin {"aborted", "error"}
      \/ ParentPhase(s, optional) \in {"aborted", "error"}
  BY <1>0, <1>1, FirstInFacts
<1> QED  BY <1>1, <1>2, <1>3 DEF Verdict

-----------------------------------------------------------------------------
(* Types.                                                                  *)

KidPhases == {"none", "open"} \cup Verdict
RecordOf(p) == [phase : {"queued", "running"} \cup Verdict, abort : BOOLEAN,
                steps : [1 .. Len(p) -> StepPhases]]

TypeInv ==
    /\ plan \in Seq(Step)
    /\ parents \in Seq(RecordOf(plan)) /\ Len(parents) > 0
    /\ kids \in [Tries -> KidPhases]
    /\ pc \in {"idle", "list", "step", "make", "retry", "stopStep", "stopAll"}
    /\ pc # "idle" => mem \in [ver : Nat, run : RecordOf(plan)]
    /\ pc \notin {"idle", "list"} =>
         seen \in [Tries -> KidPhases] /\ todo \subseteq Tries /\ at \in 1 .. Len(plan) + 1
    /\ pc \in {"make", "retry", "stopStep"} => at \in Steps

LEMMA PlanFacts ==
    ASSUME plan \in Seq(Step)
    PROVE  /\ Steps = 1 .. Len(plan) /\ Len(plan) \in Nat
           /\ \A i \in Steps :
                /\ plan[i] \in Step /\ plan[i].kids \in Nat /\ plan[i].kids > 0
                /\ plan[i].retries \in Nat /\ plan[i].negative \in BOOLEAN
                /\ plan[i].always \in BOOLEAN /\ plan[i].optional \in BOOLEAN
                /\ plan[i].timeout \in BOOLEAN
<1>1. Steps = 1 .. Len(plan) /\ Len(plan) \in Nat /\ \A i \in Steps : plan[i] \in Step
  BY DEF Steps
<1> QED  BY <1>1 DEF Step

LEMMA TryFacts ==
    ASSUME plan \in Seq(Step)
    PROVE  /\ \A i \in Steps : \A k \in 1 .. plan[i].kids : \A n \in 0 .. plan[i].retries :
                /\ <<i, k, n>> \in Tries
                /\ <<i, k, n>>[1] = i /\ <<i, k, n>>[2] = k /\ <<i, k, n>>[3] = n
           /\ \A c \in Tries :
                /\ c = <<c[1], c[2], c[3]>> /\ c[1] \in Steps
                /\ c[2] \in 1 .. plan[c[1]].kids /\ c[3] \in 0 .. plan[c[1]].retries
<1>1. ASSUME NEW i \in Steps, NEW k \in 1 .. plan[i].kids, NEW n \in 0 .. plan[i].retries
      PROVE  /\ <<i, k, n>> \in Tries
             /\ <<i, k, n>>[1] = i /\ <<i, k, n>>[2] = k /\ <<i, k, n>>[3] = n
  <2>1. <<i, k, n>> \in {i} \X (1 .. plan[i].kids) \X (0 .. plan[i].retries)
    OBVIOUS
  <2> QED  BY <2>1 DEF Tries
<1>2. ASSUME NEW c \in Tries
      PROVE  /\ c = <<c[1], c[2], c[3]>> /\ c[1] \in Steps
             /\ c[2] \in 1 .. plan[c[1]].kids /\ c[3] \in 0 .. plan[c[1]].retries
  <2>1. PICK i \in Steps : c \in {i} \X (1 .. plan[i].kids) \X (0 .. plan[i].retries)
    BY DEF Tries
  <2>2. c = <<c[1], c[2], c[3]>> /\ c[1] = i
    BY <2>1
  <2>3. c[2] \in 1 .. plan[i].kids /\ c[3] \in 0 .. plan[i].retries
    BY <2>1
  <2> QED  BY <2>2, <2>3
<1> QED  BY <1>1, <1>2

\* The walk takes the children it is to create or to stop one by one.
LEMMA ChosenFacts ==
    ASSUME plan \in Seq(Step), todo \subseteq Tries, todo # {}
    PROVE  Chosen \in todo /\ Chosen \in Tries
<1>1. \A c \in todo : c[1] \in Nat /\ c[2] \in Nat /\ c[3] \in Nat
  BY TryFacts, PlanFacts
<1> DEFINE A == {c[1] : c \in todo}
<1>2. PICK a \in A : \A x \in A : a <= x
  <2>1. A \in SUBSET Nat /\ A # {}
    BY <1>1
  <2> QED  BY <2>1, LeastOf
<1> DEFINE T == {c \in todo : c[1] = a}
           B == {c[2] : c \in T}
<1>3. PICK b \in B : \A x \in B : b <= x
  <2>1. B \in SUBSET Nat
    BY <1>1
  <2>2. B # {}
    BY <1>2
  <2> QED  BY <2>1, <2>2, LeastOf
<1> DEFINE U == {c \in T : c[2] = b}
           D == {c[3] : c \in U}
<1>4. PICK d \in D : \A x \in D : d <= x
  <2>1. D \in SUBSET Nat
    BY <1>1
  <2>2. D # {}
    BY <1>3
  <2> QED  BY <2>1, <2>2, LeastOf
<1>5. PICK c \in U : c[3] = d
  BY <1>4
<1>6. ASSUME NEW e \in todo PROVE Precedes(c, e)
  <2>1. a \in Nat /\ b \in Nat /\ d \in Nat /\ c[1] = a /\ c[2] = b /\ c[3] = d
        /\ e[1] \in Nat /\ e[2] \in Nat /\ e[3] \in Nat
    BY <1>1, <1>5
  <2>2. a <= e[1]
    BY <1>2
  <2>3. e[1] = a => b <= e[2]
    BY <1>3
  <2>4. e[1] = a /\ e[2] = b => d <= e[3]
    BY <1>4
  <2> QED  BY <2>1, <2>2, <2>3, <2>4 DEF Precedes
<1>7. c \in todo
  BY <1>5
<1>8. \E x \in todo : \A y \in todo : Precedes(x, y)
  BY <1>6, <1>7
<1>9. Chosen \in todo
  BY <1>8, Zenon DEF Chosen
<1> QED  BY <1>9

LEMMA Typed ==
    ASSUME TypeInv
    PROVE  /\ Live \in RecordOf(plan) /\ Cached \in RecordOf(plan)
           /\ Len(parents) \in Nat /\ \A v \in 1 .. Len(parents) : parents[v] \in RecordOf(plan)
  BY DEF TypeInv, Live, Cached

LEMMA SamePlan ==
    ASSUME plan' = plan PROVE Tries' = Tries /\ Steps' = Steps
  BY DEF Tries, Steps

LEMMA PlanStays == ASSUME Next PROVE plan' = plan
  BY DEF Next, Reconcile, Promote, List, SkipStep, TakeRecorded, EnterStep, CreateChild, Gather,
     WriteProgress, ReconcileAbort, StopChild, TimeOut, Finish, ParentEvent, Crash, ChildEnds,
     Elapse, UserAbort, Touch

LEMMA WriteFacts ==
    ASSUME NEW ver, NEW r, Commit(ver, r) \/ Refused(ver, r)
    PROVE  parents' = parents \/ (ver = Len(parents) /\ parents' = Append(parents, r))
  BY DEF Commit, Refused, Written

LEMMA WriteTyped ==
    ASSUME TypeInv, NEW ver, NEW r \in RecordOf(plan), Commit(ver, r) \/ Refused(ver, r)
    PROVE  parents' \in Seq(RecordOf(plan)) /\ Len(parents') > 0
<1>1. parents \in Seq(RecordOf(plan)) /\ Len(parents) > 0
  BY DEF TypeInv
<1>2. Append(parents, r) \in Seq(RecordOf(plan)) /\ Len(Append(parents, r)) > 0
  BY <1>1
<1>3. parents' \in {parents, Append(parents, r)}
  BY WriteFacts
<1> QED  BY <1>1, <1>2, <1>3

LEMMA RecordedTyped ==
    ASSUME NEW p, NEW r \in RecordOf(p), NEW i \in 1 .. Len(p), NEW v \in StepPhases
    PROVE  /\ [r EXCEPT !.steps[i] = v] \in RecordOf(p)
           /\ [r EXCEPT !.steps[i] = v].phase = r.phase
           /\ [r EXCEPT !.steps[i] = v].abort = r.abort
           /\ [r EXCEPT !.steps[i] = v].steps = [r.steps EXCEPT ![i] = v]
  BY DEF RecordOf

LEMMA PhasedTyped ==
    ASSUME NEW p, NEW r \in RecordOf(p), NEW v \in {"queued", "running"} \cup Verdict
    PROVE  /\ [r EXCEPT !.phase = v] \in RecordOf(p)
           /\ [r EXCEPT !.phase = v].phase = v
           /\ [r EXCEPT !.phase = v].abort = r.abort
           /\ [r EXCEPT !.phase = v].steps = r.steps
  BY DEF RecordOf

LEMMA CopyTyped ==
    ASSUME mem \in [ver : Nat, run : RecordOf(plan)]
    PROVE  /\ mem.run \in RecordOf(plan) /\ mem.run.steps \in [1 .. Len(plan) -> StepPhases]
           /\ \A i \in 1 .. Len(plan), v \in StepPhases :
                LET e == [mem.run EXCEPT !.steps[i] = v]
                IN  /\ e \in RecordOf(plan) /\ e.phase = mem.run.phase /\ e.abort = mem.run.abort
                    /\ e.steps = [mem.run.steps EXCEPT ![i] = v]
           /\ \A v \in {"queued", "running"} \cup Verdict :
                LET e == [mem.run EXCEPT !.phase = v]
                IN  /\ e \in RecordOf(plan) /\ e.phase = v /\ e.abort = mem.run.abort
                    /\ e.steps = mem.run.steps
<1>1. PICK r \in RecordOf(plan) : r = mem.run
  OBVIOUS
<1>2. r.steps \in [1 .. Len(plan) -> StepPhases]
  BY DEF RecordOf
<1>3. \A v \in {"queued", "running"} \cup Verdict :
        LET e == [r EXCEPT !.phase = v]
        IN  /\ e \in RecordOf(plan) /\ e.phase = v /\ e.abort = r.abort
            /\ e.steps = r.steps
  BY PhasedTyped
<1>4. \A i \in 1 .. Len(plan), v \in StepPhases :
        LET e == [mem.run EXCEPT !.steps[i] = v]
        IN  /\ e \in RecordOf(plan) /\ e.phase = mem.run.phase /\ e.abort = mem.run.abort
            /\ e.steps = [mem.run.steps EXCEPT ![i] = v]
  <2> SUFFICES ASSUME NEW i \in 1 .. Len(plan), NEW v \in StepPhases
               PROVE  LET e == [mem.run EXCEPT !.steps[i] = v]
                      IN  /\ e \in RecordOf(plan) /\ e.phase = mem.run.phase
                          /\ e.abort = mem.run.abort
                          /\ e.steps = [mem.run.steps EXCEPT ![i] = v]
    BY Zenon
  <2>1. [mem.run EXCEPT !.steps[i] = v] = [r EXCEPT !.steps[i] = v]
    BY <1>1
  <2> DEFINE e == [r EXCEPT !.steps[i] = v]
             g == [r.steps EXCEPT ![i] = v]
  <2>2. e \in RecordOf(plan) /\ e.phase = r.phase /\ e.abort = r.abort /\ e.steps = g
    BY RecordedTyped
  <2>3. [mem.run.steps EXCEPT ![i] = v] = g
    BY <1>1
  <2>4. [mem.run EXCEPT !.steps[i] = v] = e
    BY <2>1
  <2> HIDE DEF e, g
  <2> QED  BY <1>1, <2>2, <2>3, <2>4, Zenon
<1>5. \A v \in {"queued", "running"} \cup Verdict :
        LET e == [mem.run EXCEPT !.phase = v]
        IN  /\ e \in RecordOf(plan) /\ e.phase = v /\ e.abort = mem.run.abort
            /\ e.steps = mem.run.steps
  BY <1>1, <1>3, Zenon
<1> QED  BY <1>1, <1>2, <1>4, <1>5, Zenon

LEMMA TypeInit == Init => TypeInv
<1> SUFFICES ASSUME Init PROVE TypeInv
  OBVIOUS
<1>1. plan \in Seq(Step) /\ pc = "idle"
  BY CompositeAssumption DEF Init
<1> DEFINE r == [phase |-> "queued", abort |-> FALSE, steps |-> [i \in Steps |-> ""]]
<1>2. r \in RecordOf(plan) /\ parents = <<r>>
  BY <1>1, PlanFacts DEF Init, RecordOf, StepPhases
<1> HIDE DEF r
<1>3. parents \in Seq(RecordOf(plan)) /\ Len(parents) > 0
  BY <1>2
<1>4. kids \in [Tries -> KidPhases]
  BY DEF Init, KidPhases
<1> QED  BY <1>1, <1>3, <1>4 DEF TypeInv

\* The three ways the children change.
Creates == /\ pc \in {"make", "retry"} /\ todo # {}
           /\ kids[Chosen] = "none" /\ kids' = [kids EXCEPT ![Chosen] = "open"]
Ends == \E c \in Tries, v \in Verdict : kids[c] = "open" /\ kids' = [kids EXCEPT ![c] = v]

LEMMA KidsMove ==
    ASSUME Next
    PROVE  \/ kids' = kids
           \/ CreateChild /\ Creates /\ parents' = parents
           \/ ChildEnds /\ Ends /\ UNCHANGED <<parents, asked, walk>>
<1>1. CASE CreateChild
  BY <1>1 DEF CreateChild, Made, Exists, Creates
<1>2. CASE ChildEnds
  BY <1>2 DEF ChildEnds, Ends
<1> QED
  BY <1>1, <1>2 DEF Next, Reconcile, Promote, List, SkipStep, TakeRecorded, EnterStep, Gather,
     WriteProgress, ReconcileAbort, StopChild, TimeOut, Finish, ParentEvent, Crash, Elapse,
     UserAbort, Touch

LEMMA KidsTyped ==
    ASSUME TypeInv, Next
    PROVE  kids' \in [Tries -> KidPhases]
  BY KidsMove DEF TypeInv, Creates, Ends, KidPhases, Verdict

\* What a step must show of the parts it changes.
LEMMA TypeParts ==
    ASSUME TypeInv, Next,
           parents' \in Seq(RecordOf(plan)) /\ Len(parents') > 0,
           pc' \in {"idle", "list", "step", "make", "retry", "stopStep", "stopAll"},
           pc' # "idle" => mem' \in [ver : Nat, run : RecordOf(plan)],
           pc' \notin {"idle", "list"} =>
             seen' \in [Tries -> KidPhases] /\ todo' \subseteq Tries /\ at' \in 1 .. Len(plan) + 1,
           pc' \in {"make", "retry", "stopStep"} => at' \in Steps
    PROVE  TypeInv'
<1>1. plan' = plan /\ plan \in Seq(Step)
  BY PlanStays DEF TypeInv
<1>2. Tries' = Tries /\ Steps' = Steps
  BY <1>1, SamePlan
<1>3. kids' \in [Tries -> KidPhases]
  BY KidsTyped
<1> QED  BY <1>1, <1>2, <1>3 DEF TypeInv

LEMMA MissingTyped ==
    ASSUME plan \in Seq(Step), NEW list, NEW i \in Steps
    PROVE  \A c \in Missing(list, i) : c \in Tries /\ c[1] = i /\ c[3] = 0
<1>1. \A c \in Missing(list, i) : \E k \in 1 .. plan[i].kids : c = <<i, k, 0>>
  BY DEF Missing
<1>2. 0 \in 0 .. plan[i].retries
  BY PlanFacts
<1> QED  BY <1>1, <1>2, TryFacts

LEMMA AgainFacts ==
    ASSUME plan \in Seq(Step), NEW list, NEW i \in Steps
    PROVE  \A c \in Again(list, i) :
             \E k \in 1 .. plan[i].kids, n \in 0 .. plan[i].retries :
               /\ c = <<i, k, n + 1>> /\ n + 1 \in 0 .. plan[i].retries /\ c \in Tries
               /\ n = LatestAttempt(list, i, k)
               /\ ChildNeedsRetry(LatestPhase(list, i, k), plan[i].negative)
<1>1. ASSUME NEW c \in Again(list, i)
      PROVE  \E k \in 1 .. plan[i].kids, n \in 0 .. plan[i].retries :
               /\ c = <<i, k, n + 1>> /\ n + 1 \in 0 .. plan[i].retries /\ c \in Tries
               /\ n = LatestAttempt(list, i, k)
               /\ ChildNeedsRetry(LatestPhase(list, i, k), plan[i].negative)
  <2>1. PICK k \in 1 .. plan[i].kids :
          /\ c = <<i, k, LatestAttempt(list, i, k) + 1>>
          /\ LatestAttempt(list, i, k) \in 0 .. plan[i].retries - 1
          /\ ChildNeedsRetry(LatestPhase(list, i, k), plan[i].negative)
    BY DEF Again
  <2>2. plan[i].retries \in Nat
    BY PlanFacts
  <2>3. PICK n \in 0 .. plan[i].retries - 1 : n = LatestAttempt(list, i, k)
    BY <2>1
  <2>4. n \in 0 .. plan[i].retries /\ n + 1 \in 0 .. plan[i].retries
    BY <2>2
  <2>5. <<i, k, n + 1>> \in Tries
    BY <2>4, TryFacts
  <2> QED  BY <2>1, <2>3, <2>4, <2>5
<1> QED  BY <1>1

LEMMA TypeStep == TypeInv /\ [Next]_vars => TypeInv'
<1> SUFFICES ASSUME TypeInv, [Next]_vars PROVE TypeInv'
  OBVIOUS
<1>0. /\ plan \in Seq(Step) /\ parents \in Seq(RecordOf(plan)) /\ Len(parents) > 0
      /\ Live \in RecordOf(plan) /\ Cached \in RecordOf(plan) /\ Len(parents) \in Nat
      /\ kids \in [Tries -> KidPhases]
  BY Typed DEF TypeInv
<1>1. ASSUME Next, pc' = "idle", parents' \in Seq(RecordOf(plan)) /\ Len(parents') > 0
      PROVE  TypeInv'
  BY <1>1, TypeParts
<1>2. CASE UNCHANGED vars
  BY <1>2, SamePlan DEF vars, TypeInv
<1>3. CASE Promote
  <2> DEFINE e == [Cached EXCEPT !.phase = "running"]
  <2>1. e \in RecordOf(plan)
    BY <1>0, PhasedTyped
  <2> HIDE DEF e
  <2>2. \/ Commit(1, e) /\ pc' = "list" /\ mem' = [ver |-> Len(parents'), run |-> e]
        \/ Refused(1, e) /\ pc' = "idle"
    BY <1>3 DEF Promote, End, e
  <2>3. parents' \in Seq(RecordOf(plan)) /\ Len(parents') > 0
    BY <2>1, <2>2, WriteTyped
  <2>4. pc' # "idle" => mem' \in [ver : Nat, run : RecordOf(plan)]
    BY <2>1, <2>2, <2>3
  <2> QED  BY <1>3, <2>2, <2>3, <2>4, TypeParts DEF Next, Reconcile
<1>4. CASE List
  <2>1. /\ pc' = "step" /\ parents' = parents /\ seen' = kids /\ todo' = {} /\ at' = 1
        /\ mem' = [ver |-> 1, run |-> Cached] \/ (pc = "list" /\ mem' = mem)
    BY <1>4 DEF List
  <2>2. mem' \in [ver : Nat, run : RecordOf(plan)]
    BY <1>0, <2>1 DEF TypeInv
  <2>3. 1 \in 1 .. Len(plan) + 1
    BY <1>0
  <2> QED  BY <1>0, <1>4, <2>1, <2>2, <2>3, TypeParts DEF Next, Reconcile
<1>5. ASSUME Next, NEW v \in StepPhases, NextStep(Recorded(v)) \/ NextStep(mem.run),
             at \in Steps, pc \notin {"idle", "list"}, parents' = parents,
             seen' \in [Tries -> KidPhases]
      PROVE  TypeInv'
  <2>1. at \in 1 .. Len(plan) /\ mem \in [ver : Nat, run : RecordOf(plan)]
    BY <1>0, <1>5, PlanFacts DEF TypeInv
  <2>2. mem.run \in RecordOf(plan) /\ Recorded(v) \in RecordOf(plan)
    BY <2>1, RecordedTyped DEF Recorded
  <2>3. mem' \in [ver : Nat, run : RecordOf(plan)]
    BY <1>5, <2>1, <2>2 DEF NextStep, Remember
  <2>4. pc' = "step" /\ todo' = {} /\ at' \in 1 .. Len(plan) + 1
    BY <1>0, <1>5, <2>1 DEF NextStep
  <2> QED  BY <1>0, <1>5, <2>3, <2>4, TypeParts
<1>6. CASE SkipStep
  <2>1. "skipped" \in StepPhases
    BY DEF StepPhases
  <2> QED  BY <1>5, <1>6, <2>1 DEF SkipStep, AtStep, TypeInv, Next, Reconcile
<1>7. CASE TakeRecorded
  <2>1. "skipped" \in StepPhases
    BY DEF StepPhases
  <2> QED  BY <1>5, <1>7, <2>1 DEF TakeRecorded, AtStep, TypeInv, Next, Reconcile
<1>8. CASE EnterStep
  <2>1. /\ at \in Steps /\ pc = "step" /\ pc' = "make" /\ todo' = Missing(seen, at)
        /\ UNCHANGED <<parents, mem, seen, at>>
    BY <1>8 DEF EnterStep, AtStep
  <2>2. todo' \subseteq Tries
    BY <1>0, <2>1, MissingTyped
  <2> QED  BY <1>0, <1>8, <2>1, <2>2, TypeParts DEF Next, Reconcile, TypeInv
<1>9. CASE CreateChild
  <2>1. parents' = parents
    BY <1>9 DEF CreateChild
  <2>2. CASE pc' = "idle"
    BY <1>0, <1>1, <1>9, <2>1, <2>2 DEF Next, Reconcile
  <2>3. CASE todo' = todo \ {Chosen} /\ UNCHANGED <<pc, mem, seen, at>>
    BY <1>0, <1>9, <2>1, <2>3, TypeParts DEF Next, Reconcile, TypeInv
  <2> QED  BY <1>9, <2>2, <2>3 DEF CreateChild, End
<1>10. CASE Gather
  <2> DEFINE list == IF Cardinality({c \in Of(at) : Exists(seen, c)}) < plan[at].kids
                     THEN kids ELSE seen
             outcomes == [k \in 1 .. plan[at].kids |-> LatestPhase(list, at, k)]
             v == Aggregate(outcomes, plan[at].negative)
  <2>1. pc = "make" /\ parents' = parents /\ seen' = list
    BY <1>10 DEF Gather
  <2>2. list \in [Tries -> KidPhases] /\ at \in Steps
    BY <1>0, <2>1 DEF TypeInv
  <2> HIDE DEF list
  <2>3. CASE NextStep(Recorded(v))
    <3>1. plan[at].kids \in Nat /\ DOMAIN outcomes = 1 .. plan[at].kids
      BY <1>0, <2>2, PlanFacts
    <3>2. v \in StepPhases
      BY <3>1, AggregateTyped DEF StepPhases
    <3> HIDE DEF v
    <3> QED  BY <1>5, <1>10, <2>1, <2>2, <2>3, <3>2 DEF Next, Reconcile
  <2>4. CASE pc' = "retry" /\ todo' = Again(list, at) /\ UNCHANGED <<mem, at>>
    <3>1. todo' \subseteq Tries
      BY <1>0, <2>2, <2>4, AgainFacts
    <3> QED  BY <1>0, <1>10, <2>1, <2>2, <2>4, <3>1, TypeParts DEF Next, Reconcile, TypeInv
  <2> QED  BY <1>10, <2>3, <2>4 DEF Gather, list
<1>11. CASE WriteProgress
  <2> DEFINE e == IF mem.run.steps[at] = "" THEN Recorded("running") ELSE mem.run
  <2>1. /\ pc = "retry" /\ at \in Steps /\ mem \in [ver : Nat, run : RecordOf(plan)]
        /\ seen \in [Tries -> KidPhases] /\ at \in 1 .. Len(plan) + 1
    BY <1>11 DEF WriteProgress, TypeInv
  <2>2. e \in RecordOf(plan)
    <3>1. at \in 1 .. Len(plan) /\ "running" \in StepPhases
      BY <1>0, <2>1, PlanFacts DEF StepPhases
    <3> QED  BY <2>1, <3>1, RecordedTyped DEF Recorded
  <2> HIDE DEF e
  <2>3. /\ Commit(mem.ver, e) \/ Refused(mem.ver, e)
        /\ \/ pc' = "idle"
           \/ /\ pc' = "stopStep" /\ todo' = InFlight(seen, at)
              /\ mem' = [ver |-> Len(parents'), run |-> e] /\ UNCHANGED <<seen, at>>
    BY <1>11 DEF WriteProgress, End, e
  <2>4. parents' \in Seq(RecordOf(plan)) /\ Len(parents') > 0
    BY <2>2, <2>3, WriteTyped
  <2>5. InFlight(seen, at) \subseteq Tries
    BY DEF InFlight, Of
  <2>6. pc' # "idle" => mem' \in [ver : Nat, run : RecordOf(plan)]
    BY <2>2, <2>3, <2>4
  <2>7. pc' # "idle" => seen' = seen /\ at' = at /\ todo' \subseteq Tries
    BY <2>3, <2>5
  <2> QED  BY <1>11, <2>1, <2>3, <2>4, <2>6, <2>7, TypeParts DEF Next, Reconcile
<1>12. CASE ReconcileAbort
  <2>1. /\ pc' = "stopAll" /\ mem' = [ver |-> 1, run |-> Cached] /\ seen' = kids /\ at' = 1
        /\ parents' = parents /\ todo' \subseteq Tries
    BY <1>12 DEF ReconcileAbort, InFlight, Of
  <2>2. 1 \in 1 .. Len(plan) + 1
    BY <1>0
  <2> QED  BY <1>0, <1>12, <2>1, <2>2, TypeParts DEF Next, Reconcile
<1>13. CASE StopChild
  <2>1. parents' = parents
    BY <1>13 DEF StopChild
  <2>2. CASE pc' = "idle"
    BY <1>0, <1>1, <1>13, <2>1, <2>2 DEF Next, Reconcile
  <2>3. CASE todo' = todo \ {Chosen} /\ UNCHANGED <<pc, mem, seen, at>>
    BY <1>0, <1>13, <2>1, <2>3, TypeParts DEF Next, Reconcile, TypeInv
  <2> QED  BY <1>13, <2>2, <2>3 DEF StopChild, End
<1>14. CASE TimeOut
  <2>1. "failed" \in StepPhases
    BY DEF StepPhases, Verdict
  <2> QED  BY <1>5, <1>14, <2>1 DEF TimeOut, TypeInv, Next, Reconcile
<1>15. CASE Finish
  <2> DEFINE all == [i \in Steps |-> IF Terminal(mem.run.steps[i]) THEN mem.run.steps[i] ELSE ""]
             phase == IF pc = "stopAll" THEN "aborted"
                      ELSE ParentPhase(all, [i \in Steps |-> plan[i].optional])
             e == [mem.run EXCEPT !.phase = phase]
  <2>1. phase \in Verdict
    <3>1. DOMAIN all = 1 .. Len(plan) /\ Len(plan) \in Nat
      BY <1>0, PlanFacts
    <3> HIDE DEF all
    <3> QED  BY <3>1, ParentPassed DEF Verdict
  <2>2. pc # "idle" /\ (Commit(mem.ver, e) \/ Refused(mem.ver, e)) /\ pc' = "idle"
    BY <1>15 DEF Finish, End
  <2> HIDE DEF phase
  <2>3. e \in RecordOf(plan)
    BY <2>1, <2>2, PhasedTyped DEF TypeInv
  <2> HIDE DEF e
  <2>4. parents' \in Seq(RecordOf(plan)) /\ Len(parents') > 0
    BY <2>2, <2>3, WriteTyped
  <2> QED  BY <1>1, <1>15, <2>2, <2>4 DEF Next, Reconcile
<1>16. CASE ParentEvent
  <2>1. parents' \in Seq(RecordOf(plan)) /\ Len(parents') > 0
    BY <1>0, <1>16 DEF ParentEvent
  <2>2. pc # "idle" => mem' \in [ver : Nat, run : RecordOf(plan)]
    <3>1. mem' = [mem EXCEPT !.ver = IF @ = 0 THEN 0 ELSE @ - 1]
      BY <1>16 DEF ParentEvent
    <3> QED  BY <3>1 DEF TypeInv
  <2>3. UNCHANGED <<pc, seen, at, todo>>
    BY <1>16 DEF ParentEvent
  <2> QED  BY <1>16, <2>1, <2>2, <2>3, TypeParts DEF Next, TypeInv
<1>17. CASE Crash
  <2>1. parents' \in Seq(RecordOf(plan)) /\ Len(parents') > 0
    BY <1>0, <1>17 DEF Crash
  <2> QED  BY <1>1, <1>17, <2>1 DEF Crash, End, Next
<1>18. CASE ChildEnds \/ Elapse
  BY <1>0, <1>18, TypeParts DEF ChildEnds, Elapse, walk, Next, TypeInv
<1>19. CASE UserAbort \/ Touch
  <2> DEFINE e == [Live EXCEPT !.abort = TRUE]
  <2>1. e \in RecordOf(plan)
    BY <1>0 DEF RecordOf
  <2>2. parents' \in {Append(parents, e), Append(parents, Live)} /\ UNCHANGED walk
    BY <1>19 DEF UserAbort, Touch
  <2> HIDE DEF e
  <2>3. \A r \in RecordOf(plan) :
          Append(parents, r) \in Seq(RecordOf(plan)) /\ Len(Append(parents, r)) > 0
    BY <1>0
  <2>4. parents' \in Seq(RecordOf(plan)) /\ Len(parents') > 0
    BY <1>0, <2>1, <2>2, <2>3
  <2> QED  BY <1>19, <2>2, <2>4, TypeParts DEF walk, Next, TypeInv
<1> QED
  BY <1>2, <1>3, <1>4, <1>6, <1>7, <1>8, <1>9, <1>10, <1>11, <1>12, <1>13, <1>14, <1>15,
     <1>16, <1>17, <1>18, <1>19 DEF Next, Reconcile

-----------------------------------------------------------------------------
(* The invariant.  What a version of the parent says of its steps is ordered, *)
(* final and rests on the children; p is the plan, list the children.         *)

Decided(v) == v \in Verdict \cup {"skipped"}
Entered(v) == v # ""
Undecided(v) == v \in {"", "running"}
Bad(v, optional) == v \in {"failed", "aborted", "error"} /\ ~(optional /\ v = "failed")

\* The records of the steps before step i skip it.
SkipBy(p, steps, i) == ~p[i].always /\ \E j \in 1 .. i - 1 : Bad(steps[j], p[j].optional)

\* Steps are entered in order, and are skipped exactly when the earlier ones say so.
Ordered(p, steps) ==
    \A i \in 1 .. Len(p) :
      /\ Entered(steps[i]) => \A j \in 1 .. i - 1 : Decided(steps[j])
      /\ steps[i] = "skipped" => SkipBy(p, steps, i)
      /\ steps[i] \in Verdict \cup {"running"} => ~SkipBy(p, steps, i)

\* What the record a says is final, b says too.
Extends(p, a, b) == \A i \in 1 .. Len(p) : Decided(a[i]) => b[i] = a[i]

\* Of the tries of child k of step i, n is the last.
LastTry(p, list, i, k, n) ==
    /\ list[<<i, k, n>>] # "none"
    /\ \A m \in 0 .. p[i].retries : m > n => list[<<i, k, m>>] = "none"

\* Child k of step i has ended for good; so has the step.
ChildOver(p, list, i, k) ==
    \E n \in 0 .. p[i].retries :
      /\ LastTry(p, list, i, k, n) /\ Terminal(list[<<i, k, n>>])
      /\ n < p[i].retries => ~ChildNeedsRetry(list[<<i, k, n>>], p[i].negative)
Over(p, list, i) == \A k \in 1 .. p[i].kids : ChildOver(p, list, i, k)

EndPhase(p, list, i, k) ==
    list[<<i, k, CHOOSE n \in 0 .. p[i].retries : LastTry(p, list, i, k, n)>>]
StepVerdict(p, list, i) ==
    Aggregate([k \in 1 .. p[i].kids |-> EndPhase(p, list, i, k)], p[i].negative)

\* The verdict v of step i is its children's, but for a timeout.
StepEarned(p, list, i, v) ==
    \/ Over(p, list, i) /\ v = StepVerdict(p, list, i)
    \/ p[i].timeout /\ v = "failed"
Earned(p, list, steps) ==
    \A i \in 1 .. Len(p) : steps[i] \in Verdict => StepEarned(p, list, i, steps[i])

\* A run that passed has passed every step that counts.
PhaseEarned(p, r) ==
    r.phase = "passed" =>
      \A i \in 1 .. Len(p) : p[i].optional \/ r.steps[i] \in {"skipped", "passed"}

VersionsInv ==
    /\ \A v \in 1 .. Len(parents) :
         /\ Ordered(plan, parents[v].steps) /\ Earned(plan, kids, parents[v].steps)
         /\ PhaseEarned(plan, parents[v])
    /\ \A v, w \in 1 .. Len(parents) : v <= w /\ parents[v].abort => parents[w].abort

\* The walk's copy extends the version it was read from.
CopyInv ==
    pc # "idle" =>
      /\ Ordered(plan, mem.run.steps) /\ Earned(plan, kids, mem.run.steps)
      /\ ~Terminal(mem.run.phase)
      /\ mem.ver # 0 =>
           /\ mem.ver <= Len(parents)
           /\ Extends(plan, parents[mem.ver].steps, mem.run.steps)
           /\ ~Terminal(parents[mem.ver].phase)
           /\ mem.run.abort = parents[mem.ver].abort

\* The steps before the one the walk is at are decided; that one is open.
WalkInv ==
    /\ pc \in {"step", "make", "retry", "stopStep"} =>
         \A j \in 1 .. at - 1 : Decided(mem.run.steps[j])
    /\ pc \in {"make", "retry", "stopStep"} =>
         ~SkipBy(plan, mem.run.steps, at) /\ Undecided(mem.run.steps[at])
    /\ pc = "stopStep" => plan[at].timeout

\* A later try is there only because each earlier one failed.
TriesOrdered(p, list) ==
    \A i \in 1 .. Len(p) : \A k \in 1 .. p[i].kids : \A m, n \in 0 .. p[i].retries :
      m < n /\ list[<<i, k, n>>] # "none" => ChildNeedsRetry(list[<<i, k, m>>], p[i].negative)
TriesInv == TriesOrdered(plan, kids)

\* What was listed is still there, and what had ended is as it was.
SeenInv ==
    pc \notin {"idle", "list"} =>
      \A c \in Tries : seen[c] # "none" =>
        kids[c] # "none" /\ (Terminal(seen[c]) => kids[c] = seen[c])

\* The walk creates first tries, and next tries of what failed.
TodoInv ==
    /\ pc = "make" => \A c \in todo : c[1] = at /\ c[3] = 0
    /\ pc = "retry" => \A c \in todo :
         /\ c[1] = at /\ c[3] > 0
         /\ ChildNeedsRetry(kids[<<c[1], c[2], c[3] - 1>>], plan[at].negative)

Inv == VersionsInv /\ CopyInv /\ WalkInv /\ TriesInv /\ SeenInv /\ TodoInv

-----------------------------------------------------------------------------
(* What a change of the children preserves.                                  *)

LEMMA EndPhaseFacts ==
    ASSUME NEW p, NEW list, NEW i, NEW k, p[i].retries \in Nat,
           NEW n \in 0 .. p[i].retries, LastTry(p, list, i, k, n)
    PROVE  EndPhase(p, list, i, k) = list[<<i, k, n>>]
<1> DEFINE m == CHOOSE x \in 0 .. p[i].retries : LastTry(p, list, i, k, x)
<1>1. m \in 0 .. p[i].retries /\ LastTry(p, list, i, k, m)
  OBVIOUS
<1>2. EndPhase(p, list, i, k) = list[<<i, k, m>>]
  BY DEF EndPhase
<1> HIDE DEF m
<1>3. m = n
  BY <1>1 DEF LastTry
<1> QED  BY <1>2, <1>3

\* The verdict of a step depends on its own children only.
LEMMA SameVerdict ==
    ASSUME NEW p, NEW a, NEW b, NEW i, p[i].retries \in Nat, Over(p, a, i),
           \A k \in 1 .. p[i].kids : \A n \in 0 .. p[i].retries : b[<<i, k, n>>] = a[<<i, k, n>>]
    PROVE  Over(p, b, i) /\ StepVerdict(p, b, i) = StepVerdict(p, a, i)
<1>1. ASSUME NEW k \in 1 .. p[i].kids
      PROVE  ChildOver(p, b, i, k) /\ EndPhase(p, b, i, k) = EndPhase(p, a, i, k)
  <2>1. PICK n \in 0 .. p[i].retries :
          /\ LastTry(p, a, i, k, n) /\ Terminal(a[<<i, k, n>>])
          /\ n < p[i].retries => ~ChildNeedsRetry(a[<<i, k, n>>], p[i].negative)
    BY DEF Over, ChildOver
  <2>2. LastTry(p, b, i, k, n)
    BY <2>1 DEF LastTry
  <2>3. EndPhase(p, b, i, k) = b[<<i, k, n>>] /\ EndPhase(p, a, i, k) = a[<<i, k, n>>]
    BY <2>1, <2>2, EndPhaseFacts
  <2> QED  BY <2>1, <2>2, <2>3 DEF ChildOver
<1>2. [k \in 1 .. p[i].kids |-> EndPhase(p, b, i, k)]
        = [k \in 1 .. p[i].kids |-> EndPhase(p, a, i, k)]
  BY <1>1
<1>3. StepVerdict(p, b, i) = StepVerdict(p, a, i)
  BY <1>2 DEF StepVerdict
<1> QED  BY <1>1, <1>3 DEF Over

LEMMA RetryFacts ==
    ASSUME NEW v, NEW neg, ChildNeedsRetry(v, neg) PROVE v # "none" /\ v # "open" /\ Terminal(v)
  BY DEF ChildNeedsRetry, Terminal, Verdict

\* All tries of a step that is over have ended or are not there.
LEMMA OverEnded ==
    ASSUME NEW p, NEW list, TriesOrdered(p, list), NEW i \in 1 .. Len(p), p[i].retries \in Nat,
           Over(p, list, i), NEW k \in 1 .. p[i].kids, NEW n \in 0 .. p[i].retries
    PROVE  list[<<i, k, n>>] # "open"
<1>1. PICK m \in 0 .. p[i].retries :
        LastTry(p, list, i, k, m) /\ Terminal(list[<<i, k, m>>])
  BY DEF Over, ChildOver
<1>2. CASE n < m
  <2>1. ChildNeedsRetry(list[<<i, k, n>>], p[i].negative)
    BY <1>1, <1>2 DEF TriesOrdered, LastTry
  <2> QED  BY <2>1, RetryFacts
<1>3. CASE n > m
  BY <1>1, <1>3 DEF LastTry
<1>4. CASE n = m
  BY <1>1, <1>4 DEF Terminal, Verdict
<1> QED  BY <1>2, <1>3, <1>4

LEMMA OverFacts ==
    ASSUME TypeInv, TriesInv, NEW i \in Steps, Over(plan, kids, i),
           NEW k \in 1 .. plan[i].kids, NEW n \in 0 .. plan[i].retries
    PROVE  kids[<<i, k, n>>] # "open"
<1>1. i \in 1 .. Len(plan) /\ plan[i].retries \in Nat
  BY PlanFacts DEF TypeInv
<1> QED  BY <1>1, OverEnded DEF TriesInv

\* The walk creates no child of a step that is over.
LEMMA CreatesFacts ==
    ASSUME TypeInv, TriesInv, TodoInv, Creates
    PROVE  \E k \in 1 .. plan[at].kids, n \in 0 .. plan[at].retries :
             /\ at \in Steps /\ Chosen = <<at, k, n>> /\ Chosen \in Tries
             /\ n > 0 => ChildNeedsRetry(kids[<<at, k, n - 1>>], plan[at].negative)
             /\ ~ChildOver(plan, kids, at, k)
<1>0. /\ Chosen \in todo /\ Chosen \in Tries /\ plan \in Seq(Step) /\ at \in Steps
      /\ pc \in {"make", "retry"}
  BY ChosenFacts DEF TypeInv, Creates
<1>1. Chosen[1] = at
  BY <1>0 DEF TodoInv
<1>2. PICK k \in 1 .. plan[at].kids, n \in 0 .. plan[at].retries : Chosen = <<at, k, n>>
  BY <1>0, <1>1, TryFacts
<1>3. plan[at].retries \in Nat /\ Chosen[2] = k /\ Chosen[3] = n /\ at \in 1 .. Len(plan)
  BY <1>0, <1>2, TryFacts, PlanFacts
<1>4. n > 0 => ChildNeedsRetry(kids[<<at, k, n - 1>>], plan[at].negative)
  BY <1>0, <1>1, <1>3 DEF TodoInv
<1>5. kids[<<at, k, n>>] = "none"
  BY <1>2 DEF Creates
<1>6. ASSUME ChildOver(plan, kids, at, k) PROVE FALSE
  <2>1. PICK m \in 0 .. plan[at].retries :
          /\ LastTry(plan, kids, at, k, m)
          /\ m < plan[at].retries => ~ChildNeedsRetry(kids[<<at, k, m>>], plan[at].negative)
    BY <1>6 DEF ChildOver
  <2>2. CASE n < m
    <3>1. ChildNeedsRetry(kids[<<at, k, n>>], plan[at].negative)
      BY <1>3, <2>1, <2>2 DEF TriesInv, TriesOrdered, LastTry
    <3> QED  BY <1>5, <3>1, RetryFacts
  <2>3. CASE n = m
    BY <1>5, <2>1, <2>3 DEF LastTry
  <2>4. CASE n > m
    <3>1. ChildNeedsRetry(kids[<<at, k, n - 1>>], plan[at].negative) /\ n - 1 \in 0 .. plan[at].retries
      BY <1>3, <1>4, <2>4
    <3>2. kids[<<at, k, n - 1>>] # "none"
      BY <3>1, RetryFacts
    <3>3. n - 1 = m
      BY <1>3, <2>1, <2>4, <3>1, <3>2 DEF LastTry
    <3> QED  BY <1>3, <2>1, <2>4, <3>1, <3>3
  <2> QED  BY <1>3, <2>2, <2>3, <2>4
<1> QED  BY <1>0, <1>2, <1>4, <1>6

\* Children are never forgotten, and what has ended stays as it is.
Grown == \A c \in Tries : /\ kids[c] # "none" => kids'[c] # "none"
                          /\ Terminal(kids[c]) => kids'[c] = kids[c]

LEMMA GrownStep == ASSUME TypeInv, Next PROVE Grown
<1>1. kids \in [Tries -> KidPhases]
  BY DEF TypeInv
<1>2. CASE Ends
  BY <1>1, <1>2 DEF Ends, Grown, Terminal, Verdict
<1>3. CASE Creates
  BY <1>1, <1>3 DEF Creates, Grown, Terminal, Verdict
<1>4. CASE kids' = kids
  BY <1>4 DEF Grown
<1> QED  BY <1>2, <1>3, <1>4, KidsMove

LEMMA TriesStep ==
    ASSUME TypeInv, TriesInv, TodoInv, Next
    PROVE  TriesOrdered(plan, kids')
<1>0. /\ kids \in [Tries -> KidPhases] /\ plan \in Seq(Step) /\ Grown
      /\ Steps = 1 .. Len(plan)
  BY GrownStep, PlanFacts DEF TypeInv
<1> SUFFICES ASSUME NEW i \in Steps, NEW k \in 1 .. plan[i].kids,
                    NEW m \in 0 .. plan[i].retries, NEW n \in 0 .. plan[i].retries,
                    m < n, kids'[<<i, k, n>>] # "none"
             PROVE  ChildNeedsRetry(kids'[<<i, k, m>>], plan[i].negative)
  BY <1>0 DEF TriesOrdered
<1>1. <<i, k, m>> \in Tries /\ <<i, k, n>> \in Tries /\ plan[i].retries \in Nat
  BY <1>0, TryFacts, PlanFacts
<1>2. ASSUME ChildNeedsRetry(kids[<<i, k, m>>], plan[i].negative)
      PROVE  ChildNeedsRetry(kids'[<<i, k, m>>], plan[i].negative)
  BY <1>0, <1>1, <1>2, RetryFacts DEF Grown
<1>3. CASE kids[<<i, k, n>>] # "none"
  BY <1>0, <1>2, <1>3 DEF TriesInv, TriesOrdered
<1>4. CASE kids[<<i, k, n>>] = "none"
  <2>1. Creates /\ Chosen = <<i, k, n>>
    BY <1>0, <1>1, <1>4, KidsMove DEF Creates, Ends
  <2>2. PICK l \in 1 .. plan[at].kids, o \in 0 .. plan[at].retries :
          /\ at \in Steps /\ Chosen = <<at, l, o>>
          /\ o > 0 => ChildNeedsRetry(kids[<<at, l, o - 1>>], plan[at].negative)
    BY <2>1, CreatesFacts
  <2>3. i = at /\ k = l /\ n = o
    BY <1>0, <2>1, <2>2, TryFacts
  <2>4. n - 1 \in 0 .. plan[i].retries /\ ChildNeedsRetry(kids[<<i, k, n - 1>>], plan[i].negative)
    BY <1>1, <2>2, <2>3
  <2>5. CASE m = n - 1
    BY <1>2, <2>4, <2>5
  <2>6. CASE m < n - 1
    <3>1. kids[<<i, k, n - 1>>] # "none"
      BY <2>4, RetryFacts
    <3> QED  BY <1>0, <1>2, <2>4, <2>6, <3>1 DEF TriesInv, TriesOrdered
  <2> QED  BY <1>1, <2>5, <2>6
<1> QED  BY <1>3, <1>4

\* A step that is over stays so, with its verdict.
LEMMA OverStep ==
    ASSUME TypeInv, TriesInv, TodoInv, Next, NEW i \in Steps, Over(plan, kids, i)
    PROVE  Over(plan, kids', i) /\ StepVerdict(plan, kids', i) = StepVerdict(plan, kids, i)
<1>0. kids \in [Tries -> KidPhases] /\ plan \in Seq(Step) /\ plan[i].retries \in Nat
  BY PlanFacts DEF TypeInv
<1>1. ASSUME NEW k \in 1 .. plan[i].kids, NEW n \in 0 .. plan[i].retries
      PROVE  kids'[<<i, k, n>>] = kids[<<i, k, n>>]
  <2>1. <<i, k, n>> \in Tries
    BY <1>0, TryFacts
  <2>2. CASE Ends
    <3>1. kids[<<i, k, n>>] # "open"
      BY OverFacts
    <3> QED  BY <1>0, <2>1, <2>2, <3>1 DEF Ends
  <2>3. CASE Creates
    <3>1. PICK l \in 1 .. plan[at].kids, o \in 0 .. plan[at].retries :
            at \in Steps /\ Chosen = <<at, l, o>> /\ ~ChildOver(plan, kids, at, l)
      BY <2>3, CreatesFacts
    <3>2. Chosen # <<i, k, n>>
      <4>1. SUFFICES ASSUME <<at, l, o>> = <<i, k, n>> PROVE FALSE
        BY <3>1
      <4>2. at = i /\ l = k
        BY <1>0, <3>1, <4>1, TryFacts
      <4> QED  BY <3>1, <4>2 DEF Over
    <3> QED  BY <1>0, <2>1, <2>3, <3>2 DEF Creates
  <2> QED  BY <2>2, <2>3, KidsMove
<1> QED  BY <1>0, <1>1, SameVerdict

LEMMA EarnedStep ==
    ASSUME TypeInv, TriesInv, TodoInv, Next, NEW steps, Earned(plan, kids, steps)
    PROVE  Earned(plan, kids', steps)
<1>1. Steps = 1 .. Len(plan)
  BY PlanFacts DEF TypeInv
<1> QED  BY <1>1, OverStep DEF Earned, StepEarned

-----------------------------------------------------------------------------
(* The versions of the parent.                                               *)

\* A version that may follow the live one.
Writable(r) ==
    /\ Ordered(plan, r.steps) /\ Earned(plan, kids, r.steps) /\ PhaseEarned(plan, r)
    /\ Extends(plan, Live.steps, r.steps)
    /\ Terminal(Live.phase) => r.phase = Live.phase
    /\ Live.abort => r.abort

Appends == \E r \in RecordOf(plan) : parents' = Append(parents, r) /\ Writable(r)
Forgets == Len(parents) > 1 /\ parents' = Tail(parents)
Relists == parents' = <<Live>>

LEMMA EnteredFacts ==
    /\ \A v : Undecided(v) => ~Decided(v)
    /\ \A v : v \in Verdict \cup {"running", "skipped"} => Entered(v)
  BY DEF Undecided, Decided, Entered, Verdict

\* A record grows by what the walk finds of the step it is at.
LEMMA RecordGrows ==
    ASSUME plan \in Seq(Step), NEW s \in [1 .. Len(plan) -> StepPhases], Ordered(plan, s),
           NEW i \in 1 .. Len(plan), \A j \in 1 .. i - 1 : Decided(s[j]),
           Undecided(s[i]), NEW v \in StepPhases,
           v = "skipped" <=> SkipBy(plan, s, i)
    PROVE  Ordered(plan, [s EXCEPT ![i] = v]) /\ Extends(plan, s, [s EXCEPT ![i] = v])
<1> DEFINE t == [s EXCEPT ![i] = v]
<1>0. Len(plan) \in Nat /\ ~Decided(s[i])
  BY EnteredFacts
<1>1. t[i] = v /\ \A j \in 1 .. Len(plan) : j # i => t[j] = s[j]
  OBVIOUS
<1> HIDE DEF t
<1>2. \A j \in 1 .. Len(plan) : j > i => ~Entered(s[j])
  BY <1>0 DEF Ordered
<1>3. ASSUME NEW j \in 1 .. Len(plan), j <= i
      PROVE  /\ \A l \in 1 .. j - 1 : t[l] = s[l]
             /\ SkipBy(plan, t, j) <=> SkipBy(plan, s, j)
  <2>1. \A l \in 1 .. j - 1 : l \in 1 .. Len(plan) /\ l # i
    BY <1>0, <1>3
  <2>2. \A l \in 1 .. j - 1 : t[l] = s[l]
    BY <1>1, <2>1
  <2> QED  BY <2>2 DEF SkipBy
<1>4. ASSUME NEW j \in 1 .. Len(plan)
      PROVE  /\ Entered(t[j]) => \A l \in 1 .. j - 1 : Decided(t[l])
             /\ t[j] = "skipped" => SkipBy(plan, t, j)
             /\ t[j] \in Verdict \cup {"running"} => ~SkipBy(plan, t, j)
  <2>1. CASE j < i
    BY <1>1, <1>3, <2>1 DEF Ordered
  <2>2. CASE j = i
    BY <1>1, <1>3, <2>2 DEF Verdict
  <2>3. CASE j > i
    BY <1>1, <1>2, <2>3, EnteredFacts
  <2> QED  BY <1>0, <2>1, <2>2, <2>3
<1>5. Extends(plan, s, t)
  BY <1>0, <1>1 DEF Extends
<1> QED  BY <1>4, <1>5 DEF Ordered, t

LEMMA SkippedFacts ==
    ASSUME TypeInv, pc = "step", at \in Steps
    PROVE  Skipped <=> SkipBy(plan, mem.run.steps, at)
<1>1. /\ plan \in Seq(Step) /\ Steps = 1 .. Len(plan) /\ Len(plan) \in Nat /\ at \in 1 .. Len(plan)
  BY PlanFacts DEF TypeInv
<1>2. \A j \in 1 .. at - 1 :
        Before[j] = IF Terminal(mem.run.steps[j]) THEN mem.run.steps[j] ELSE ""
  BY DEF Before
<1>3. DOMAIN Before = 1 .. at - 1
  BY DEF Before
<1>4. ASSUME NEW j \in 1 .. at - 1
      PROVE  Bad(mem.run.steps[j], plan[j].optional)
               <=> /\ Before[j] \in {"failed", "aborted", "error"}
                   /\ ~([l \in 1 .. at - 1 |-> plan[l].optional][j] /\ Before[j] = "failed")
  BY <1>2 DEF Bad, Terminal, Verdict
<1> QED  BY <1>3, <1>4 DEF Skipped, ShouldSkip, SkipBy

LEMMA CopyFacts ==
    ASSUME TypeInv, CopyInv, pc # "idle", mem.ver = Len(parents)
    PROVE  /\ Extends(plan, Live.steps, mem.run.steps)
           /\ ~Terminal(Live.phase) /\ mem.run.abort = Live.abort
  BY DEF TypeInv, CopyInv, Live

LEMMA WriteMoves ==
    ASSUME NEW ver, NEW r, Commit(ver, r) \/ Refused(ver, r),
           ver = Len(parents) => r \in RecordOf(plan) /\ Writable(r)
    PROVE  parents' = parents \/ Appends
  BY WriteFacts DEF Appends

LEMMA LiveSound ==
    ASSUME TypeInv, VersionsInv
    PROVE  /\ Ordered(plan, Live.steps) /\ Earned(plan, kids, Live.steps)
           /\ PhaseEarned(plan, Live) /\ Live \in RecordOf(plan)
           /\ Ordered(plan, Cached.steps) /\ Earned(plan, kids, Cached.steps)
           /\ Cached \in RecordOf(plan) /\ (1 = Len(parents) => Cached = Live)
           /\ Extends(plan, Live.steps, Live.steps)
  BY Typed DEF TypeInv, VersionsInv, Live, Cached, Extends

LEMMA ParentsMove ==
    ASSUME TypeInv, Inv, Next
    PROVE  parents' = parents \/ Appends \/ Forgets \/ Relists
<1>0. plan \in Seq(Step) /\ Steps = 1 .. Len(plan) /\ Len(plan) \in Nat
  BY PlanFacts DEF TypeInv
<1>1. CASE Promote
  <2> DEFINE e == [Cached EXCEPT !.phase = "running"]
  <2>1. /\ e \in RecordOf(plan) /\ e.steps = Cached.steps /\ e.abort = Cached.abort
        /\ e.phase = "running" /\ ~Terminal(Cached.phase)
    BY <1>1, LiveSound, PhasedTyped DEF Promote, Open, Inv
  <2>2. Commit(1, e) \/ Refused(1, e)
    BY <1>1 DEF Promote
  <2> HIDE DEF e
  <2>3. 1 = Len(parents) => Writable(e)
    BY <2>1, LiveSound DEF Writable, PhaseEarned, Inv
  <2> QED  BY <2>1, <2>2, <2>3, WriteMoves
<1>2. CASE WriteProgress
  <2> DEFINE e == IF mem.run.steps[at] = "" THEN Recorded("running") ELSE mem.run
  <2>0. mem \in [ver : Nat, run : RecordOf(plan)]
    BY <1>2 DEF WriteProgress, TypeInv
  <2>1. /\ pc = "retry" /\ at \in 1 .. Len(plan) /\ mem.run \in RecordOf(plan)
        /\ mem.run.steps \in [1 .. Len(plan) -> StepPhases]
        /\ Commit(mem.ver, e) \/ Refused(mem.ver, e)
    <3>1. pc = "retry" /\ (Commit(mem.ver, e) \/ Refused(mem.ver, e))
      BY <1>2 DEF WriteProgress
    <3> HIDE DEF e
    <3> QED  BY <1>0, <3>1 DEF TypeInv, RecordOf
  <2>2. /\ Ordered(plan, mem.run.steps) /\ Earned(plan, kids, mem.run.steps)
        /\ ~Terminal(mem.run.phase) /\ ~SkipBy(plan, mem.run.steps, at)
        /\ Undecided(mem.run.steps[at])
        /\ \A j \in 1 .. at - 1 : Decided(mem.run.steps[j])
    BY <2>1 DEF Inv, CopyInv, WalkInv
  <2>3. /\ e \in RecordOf(plan) /\ e.phase = mem.run.phase /\ e.abort = mem.run.abort
        /\ e.steps \in {mem.run.steps, [mem.run.steps EXCEPT ![at] = "running"]}
    <3>1. "running" \in StepPhases
      BY DEF StepPhases
    <3>2. e \in {mem.run, [mem.run EXCEPT !.steps[at] = "running"]}
      BY DEF Recorded
    <3> HIDE DEF e
    <3>3. LET f == [mem.run EXCEPT !.steps[at] = "running"]
          IN  /\ f \in RecordOf(plan) /\ f.phase = mem.run.phase /\ f.abort = mem.run.abort
              /\ f.steps = [mem.run.steps EXCEPT ![at] = "running"]
      BY <2>0, <2>1, <3>1, CopyTyped, Zenon
    <3>4. CASE e = mem.run
      BY <2>1, <3>4
    <3>5. CASE e = [mem.run EXCEPT !.steps[at] = "running"]
      BY <3>3, <3>5, Zenon
    <3> QED  BY <3>2, <3>4, <3>5
  <2> HIDE DEF e
  <2>4. Ordered(plan, e.steps) /\ Extends(plan, mem.run.steps, e.steps)
    <3>1. "running" \in StepPhases
      BY DEF StepPhases
    <3>2. CASE e.steps = mem.run.steps
      BY <2>2, <3>2 DEF Extends
    <3>3. CASE e.steps = [mem.run.steps EXCEPT ![at] = "running"]
      BY <1>0, <2>1, <2>2, <3>1, <3>3, RecordGrows
    <3> QED  BY <2>3, <3>2, <3>3
  <2>5. Earned(plan, kids, e.steps)
    BY <2>1, <2>2, <2>3 DEF Earned, Verdict
  <2>6. mem.ver = Len(parents) => Writable(e)
    BY <2>1, <2>2, <2>3, <2>4, <2>5, CopyFacts
       DEF Writable, PhaseEarned, Extends, Terminal, Verdict, Inv, Decided
  <2> QED  BY <2>1, <2>3, <2>6, WriteMoves
<1>3. CASE Finish
  <2> DEFINE all == [i \in Steps |-> IF Terminal(mem.run.steps[i]) THEN mem.run.steps[i] ELSE ""]
             opt == [i \in Steps |-> plan[i].optional]
             phase == IF pc = "stopAll" THEN "aborted" ELSE ParentPhase(all, opt)
             e == [mem.run EXCEPT !.phase = phase]
  <2>0. mem \in [ver : Nat, run : RecordOf(plan)]
    BY <1>3 DEF Finish, TypeInv
  <2>1. /\ mem.run \in RecordOf(plan) /\ pc # "idle" /\ pc \in {"stopAll", "step"}
        /\ Commit(mem.ver, e) \/ Refused(mem.ver, e)
        /\ pc = "step" => at = Len(plan) + 1
    <3>1. /\ pc = "stopAll" \/ (pc = "step" /\ at \notin Steps)
          /\ Commit(mem.ver, e) \/ Refused(mem.ver, e)
      BY <1>3 DEF Finish
    <3> HIDE DEF e
    <3> QED  BY <1>0, <3>1 DEF TypeInv
  <2>2. DOMAIN all = 1 .. Len(plan)
    BY <1>0
  <2>3. /\ ParentPhase(all, opt) \in Verdict
        /\ ParentPhase(all, opt) = "passed" =>
             \A i \in 1 .. Len(plan) : opt[i] \/ all[i] \notin {"aborted", "error", "failed"}
    <3> HIDE DEF all, opt
    <3> QED  BY <1>0, <2>2, ParentPassed
  <2>4. phase \in Verdict /\ (phase = "passed" => pc = "step" /\ ParentPhase(all, opt) = "passed")
    BY <2>1, <2>3 DEF Verdict
  <2>5. phase = "passed" =>
          \A i \in 1 .. Len(plan) : plan[i].optional \/ mem.run.steps[i] \in {"skipped", "passed"}
    <3> SUFFICES ASSUME phase = "passed", NEW i \in 1 .. Len(plan), ~plan[i].optional
                 PROVE  mem.run.steps[i] \in {"skipped", "passed"}
      OBVIOUS
    <3>1. all[i] \notin {"aborted", "error", "failed"}
      BY <1>0, <2>3, <2>4
    <3>2. all[i] = IF Terminal(mem.run.steps[i]) THEN mem.run.steps[i] ELSE ""
      BY <1>0
    <3>3. Decided(mem.run.steps[i])
      <4> HIDE DEF all, opt, phase, e
      <4> QED  BY <1>0, <2>1, <2>4 DEF Inv, WalkInv
    <3> QED  BY <3>1, <3>2, <3>3 DEF Decided, Terminal, Verdict
  <2> HIDE DEF all, opt, phase
  <2>6. e \in RecordOf(plan) /\ e.phase = phase /\ e.abort = mem.run.abort /\ e.steps = mem.run.steps
    <3>1. phase \in {"queued", "running"} \cup Verdict
      BY <2>4
    <3> QED  BY <2>0, <3>1, CopyTyped, Zenon DEF e
  <2> HIDE DEF e
  <2>7. mem.ver = Len(parents) => Writable(e)
    BY <2>1, <2>5, <2>6, CopyFacts DEF Writable, PhaseEarned, CopyInv, Inv
  <2> QED  BY <2>1, <2>6, <2>7, WriteMoves
<1>4. CASE UserAbort \/ Touch
  <2> DEFINE e == [Live EXCEPT !.abort = TRUE]
  <2>1. /\ e \in RecordOf(plan) /\ e.abort = TRUE /\ e.steps = Live.steps /\ e.phase = Live.phase
        /\ Live \in RecordOf(plan)
    BY Typed DEF RecordOf
  <2>2. parents' \in {Append(parents, e), Append(parents, Live)}
    BY <1>4 DEF UserAbort, Touch
  <2> HIDE DEF e
  <2>3. Writable(e) /\ Writable(Live)
    BY <2>1, LiveSound DEF Writable, PhaseEarned, Inv
  <2> QED  BY <2>1, <2>2, <2>3 DEF Appends
<1>5. CASE ParentEvent \/ Crash
  BY <1>5 DEF ParentEvent, Crash, Forgets, Relists
<1> QED
  BY <1>1, <1>2, <1>3, <1>4, <1>5 DEF Next, Reconcile, List, SkipStep, TakeRecorded, EnterStep,
     CreateChild, Gather, ReconcileAbort, StopChild, TimeOut, ChildEnds, Elapse

LEMMA AppendFacts ==
    ASSUME TypeInv, NEW r \in RecordOf(plan), parents' = Append(parents, r)
    PROVE  /\ Len(parents') = Len(parents) + 1 /\ Live' = r
           /\ \A v \in 1 .. Len(parents) : parents'[v] = parents[v]
           /\ parents'[Len(parents) + 1] = r
<1>1. parents \in Seq(RecordOf(plan)) /\ Len(parents) \in Nat
  BY DEF TypeInv
<1>2. /\ Len(parents') = Len(parents) + 1 /\ parents'[Len(parents) + 1] = r
      /\ \A v \in 1 .. Len(parents) : parents'[v] = parents[v]
  BY <1>1
<1> QED  BY <1>2 DEF Live

LEMMA ForgetFacts ==
    ASSUME TypeInv, Forgets
    PROVE  /\ Len(parents') = Len(parents) - 1 /\ Len(parents') > 0 /\ Live' = Live
           /\ \A v \in 1 .. Len(parents') : parents'[v] = parents[v + 1]
<1>1. parents \in Seq(RecordOf(plan)) /\ Len(parents) \in Nat /\ Len(parents) > 1
  BY DEF TypeInv, Forgets
<1>2. /\ Len(parents') = Len(parents) - 1
      /\ \A v \in 1 .. Len(parents) - 1 : parents'[v] = parents[v + 1]
  BY <1>1 DEF Forgets
<1>3. parents'[Len(parents) - 1] = parents[Len(parents)]
  BY <1>1, <1>2
<1> QED  BY <1>1, <1>2, <1>3 DEF Live

\* The versions stay sound, and what the live one says is final stays.
LEMMA VersionsStep ==
    ASSUME TypeInv, Inv, Next
    PROVE  /\ VersionsInv' /\ Extends(plan, Live.steps, Live'.steps)
           /\ Terminal(Live.phase) => Live'.phase = Live.phase
<1>0. /\ plan' = plan /\ Len(parents) \in Nat /\ Len(parents) > 0
      /\ \A v \in 1 .. Len(parents) : parents[v] \in RecordOf(plan)
  BY PlanStays, Typed DEF TypeInv
<1>1. \A s : Earned(plan, kids, s) => Earned(plan, kids', s)
  BY EarnedStep DEF Inv
<1>2. \A v \in 1 .. Len(parents) :
        /\ Ordered(plan, parents[v].steps) /\ Earned(plan, kids', parents[v].steps)
        /\ PhaseEarned(plan, parents[v])
  BY <1>1 DEF Inv, VersionsInv
<1>3. \A v, w \in 1 .. Len(parents) : v <= w /\ parents[v].abort => parents[w].abort
  BY DEF Inv, VersionsInv
<1>4. \A s : Extends(plan, s, s)
  BY DEF Extends
<1>5. CASE parents' = parents
  <2>1. VersionsInv'
    BY <1>0, <1>2, <1>3, <1>5 DEF VersionsInv
  <2> QED  BY <1>4, <1>5, <2>1 DEF Live
<1>6. CASE Appends
  <2>1. PICK r \in RecordOf(plan) : parents' = Append(parents, r) /\ Writable(r)
    BY <1>6 DEF Appends
  <2>2. /\ Len(parents') = Len(parents) + 1 /\ Live' = r
        /\ \A v \in 1 .. Len(parents) : parents'[v] = parents[v]
        /\ parents'[Len(parents) + 1] = r
    BY <2>1, AppendFacts
  <2>3. \A v \in 1 .. Len(parents') : v \in 1 .. Len(parents) \/ v = Len(parents) + 1
    BY <1>0, <2>2
  <2>4. Ordered(plan, r.steps) /\ Earned(plan, kids', r.steps) /\ PhaseEarned(plan, r)
    BY <1>1, <2>1 DEF Writable
  <2>5. \A v \in 1 .. Len(parents) : parents[v].abort => r.abort
    BY <1>0, <1>3, <2>1 DEF Writable, Live
  <2>6. \A v, w \in 1 .. Len(parents') : v <= w /\ parents'[v].abort => parents'[w].abort
    <3> SUFFICES ASSUME NEW v \in 1 .. Len(parents'), NEW w \in 1 .. Len(parents'),
                        v <= w, parents'[v].abort
                 PROVE  parents'[w].abort
      OBVIOUS
    <3>1. CASE w \in 1 .. Len(parents)
      <4>1. v \in 1 .. Len(parents)
        BY <1>0, <3>1
      <4> QED  BY <1>3, <2>2, <3>1, <4>1
    <3>2. CASE w = Len(parents) + 1
      BY <2>2, <2>3, <2>5, <3>2
    <3> QED  BY <2>3, <3>1, <3>2
  <2>7. \A v \in 1 .. Len(parents') :
          /\ Ordered(plan, parents'[v].steps) /\ Earned(plan, kids', parents'[v].steps)
          /\ PhaseEarned(plan, parents'[v])
    BY <1>2, <2>2, <2>3, <2>4
  <2>8. VersionsInv'
    BY <1>0, <2>6, <2>7 DEF VersionsInv
  <2> QED  BY <2>1, <2>2, <2>8 DEF Writable
<1>7. CASE Forgets
  <2>1. /\ Len(parents') = Len(parents) - 1 /\ Live' = Live
        /\ \A v \in 1 .. Len(parents') : parents'[v] = parents[v + 1]
    BY <1>7, ForgetFacts
  <2>2. \A v \in 1 .. Len(parents') : v + 1 \in 1 .. Len(parents)
    BY <1>0, <2>1
  <2>3. \A v \in 1 .. Len(parents') :
          /\ Ordered(plan, parents'[v].steps) /\ Earned(plan, kids', parents'[v].steps)
          /\ PhaseEarned(plan, parents'[v])
    BY <1>2, <2>1, <2>2
  <2>4. ASSUME NEW v \in 1 .. Len(parents'), NEW w \in 1 .. Len(parents'),
               v <= w, parents'[v].abort
        PROVE  parents'[w].abort
    <3>1. v + 1 <= w + 1 /\ parents[v + 1].abort
      BY <2>1, <2>4
    <3>2. parents[w + 1].abort
      BY <1>3, <2>2, <3>1
    <3> QED  BY <2>1, <3>2
  <2>5. VersionsInv'
    BY <1>0, <2>3, <2>4 DEF VersionsInv
  <2> QED  BY <1>4, <2>1, <2>5
<1>8. CASE Relists
  <2>1. Len(parents') = 1 /\ parents'[1] = Live /\ Live' = Live
    BY <1>8 DEF Relists, Live
  <2>2. Ordered(plan, Live.steps) /\ Earned(plan, kids', Live.steps) /\ PhaseEarned(plan, Live)
    BY <1>0, <1>2 DEF Live
  <2>3. \A v \in 1 .. Len(parents') : v = 1
    BY <2>1
  <2>4. VersionsInv'
    BY <1>0, <2>1, <2>2, <2>3 DEF VersionsInv
  <2> QED  BY <1>4, <2>1, <2>4
<1> QED  BY <1>5, <1>6, <1>7, <1>8, ParentsMove

-----------------------------------------------------------------------------
(* What the walk concludes from the children it listed.                      *)

LEMMA LatestFacts ==
    ASSUME plan \in Seq(Step), NEW list, NEW i \in Steps, NEW k
    PROVE  \/ /\ LatestAttempt(list, i, k) = -1 /\ LatestPhase(list, i, k) = "none"
              /\ \A n \in 0 .. plan[i].retries : list[<<i, k, n>>] = "none"
           \/ \E n \in 0 .. plan[i].retries :
                /\ LatestAttempt(list, i, k) = n /\ LatestPhase(list, i, k) = list[<<i, k, n>>]
                /\ LastTry(plan, list, i, k, n)
<1> DEFINE tries == {n \in 0 .. plan[i].retries : Exists(list, <<i, k, n>>)}
<1>0. plan[i].retries \in Nat
  BY PlanFacts
<1>1. CASE tries = {}
  <2>1. LatestAttempt(list, i, k) = -1
    BY <1>1 DEF LatestAttempt
  <2>2. \A n \in 0 .. plan[i].retries : list[<<i, k, n>>] = "none"
    BY <1>1 DEF Exists
  <2> QED  BY <2>1, <2>2 DEF LatestPhase
<1>2. CASE tries # {}
  <2> DEFINE last == CHOOSE n \in tries : \A m \in tries : m <= n
  <2>1. LatestAttempt(list, i, k) = last
    BY <1>2 DEF LatestAttempt
  <2>2. \E n \in tries : \A m \in tries : m <= n
    <3>1. tries \in SUBSET (0 .. plan[i].retries)
      OBVIOUS
    <3> HIDE DEF tries
    <3> QED  BY <1>0, <1>2, <3>1, GreatestOf
  <2>3. last \in tries /\ \A m \in tries : m <= last
    <3> HIDE DEF tries
    <3> QED  BY <2>2, Zenon
  <2> HIDE DEF last
  <2>4. last \in 0 .. plan[i].retries /\ last # -1
    BY <1>0, <2>3
  <2>5. LastTry(plan, list, i, k, last)
    BY <1>0, <2>3 DEF LastTry, Exists
  <2>6. LatestPhase(list, i, k) = list[<<i, k, last>>]
    BY <2>1, <2>4 DEF LatestPhase
  <2> QED  BY <2>1, <2>4, <2>5, <2>6
<1> QED  BY <1>1, <1>2

\* The list may be old, but not wrong: what it says is there or has ended, is.
Listed(list, now) ==
    \A c \in Tries : list[c] # "none" =>
      now[c] # "none" /\ (Terminal(list[c]) => now[c] = list[c])

LEMMA ListedStep ==
    ASSUME TypeInv, SeenInv, Next
    PROVE  /\ Listed(kids, kids') /\ Listed(kids, kids)
           /\ pc \notin {"idle", "list"} => Listed(seen, kids) /\ Listed(seen, kids')
  BY GrownStep DEF Grown, SeenInv, Listed

\* A step that the walk finds done is over, with the verdict that the walk finds.
LEMMA AllDoneFacts ==
    ASSUME TypeInv, TriesInv, NEW list, Listed(list, kids), NEW i \in Steps, AllDone(list, i)
    PROVE  /\ Over(plan, kids, i)
           /\ Aggregate([k \in 1 .. plan[i].kids |-> LatestPhase(list, i, k)], plan[i].negative)
                = StepVerdict(plan, kids, i)
<1>0. plan \in Seq(Step) /\ plan[i].retries \in Nat /\ Steps = 1 .. Len(plan)
  BY PlanFacts DEF TypeInv
<1>1. ASSUME NEW k \in 1 .. plan[i].kids
      PROVE  ChildOver(plan, kids, i, k) /\ EndPhase(plan, kids, i, k) = LatestPhase(list, i, k)
  <2>1. Terminal(LatestPhase(list, i, k))
    BY DEF AllDone
  <2>2. PICK n \in 0 .. plan[i].retries :
          /\ LatestAttempt(list, i, k) = n /\ LatestPhase(list, i, k) = list[<<i, k, n>>]
          /\ LastTry(plan, list, i, k, n)
    BY <1>0, <2>1, LatestFacts DEF Terminal, Verdict
  <2>3. kids[<<i, k, n>>] = list[<<i, k, n>>] /\ kids[<<i, k, n>>] # "none"
    <3>1. <<i, k, n>> \in Tries
      BY <1>0, TryFacts
    <3> QED  BY <2>1, <2>2, <3>1 DEF Listed, LastTry
  <2>4. n < plan[i].retries => ~ChildNeedsRetry(kids[<<i, k, n>>], plan[i].negative)
    <3> SUFFICES ASSUME n < plan[i].retries,
                        ChildNeedsRetry(kids[<<i, k, n>>], plan[i].negative)
                 PROVE  FALSE
      OBVIOUS
    <3>1. LatestAttempt(list, i, k) \in 0 .. plan[i].retries - 1
      BY <1>0, <2>2
    <3>2. <<i, k, LatestAttempt(list, i, k) + 1>> \in Again(list, i)
      BY <2>2, <2>3, <3>1 DEF Again
    <3> QED  BY <3>2 DEF AllDone
  <2>5. LastTry(plan, kids, i, k, n)
    <3> SUFFICES ASSUME NEW m \in 0 .. plan[i].retries, m > n, kids[<<i, k, m>>] # "none"
                 PROVE  FALSE
      BY <2>3 DEF LastTry
    <3>1. ChildNeedsRetry(kids[<<i, k, n>>], plan[i].negative)
      BY <1>0 DEF TriesInv, TriesOrdered
    <3> QED  BY <1>0, <2>4, <3>1
  <2>6. EndPhase(plan, kids, i, k) = kids[<<i, k, n>>]
    BY <1>0, <2>5, EndPhaseFacts
  <2> QED  BY <2>1, <2>2, <2>3, <2>4, <2>5, <2>6 DEF ChildOver
<1>2. [k \in 1 .. plan[i].kids |-> LatestPhase(list, i, k)]
        = [k \in 1 .. plan[i].kids |-> EndPhase(plan, kids, i, k)]
  BY <1>1
<1>3. Aggregate([k \in 1 .. plan[i].kids |-> LatestPhase(list, i, k)], plan[i].negative)
        = StepVerdict(plan, kids, i)
  BY <1>2 DEF StepVerdict
<1> QED  BY <1>1, <1>3 DEF Over

\* What the walk is to try again has failed.
LEMMA AgainNeeded ==
    ASSUME TypeInv, NEW list, Listed(list, kids), NEW i \in Steps, NEW c \in Again(list, i)
    PROVE  /\ c[1] = i /\ c[3] > 0
           /\ ChildNeedsRetry(kids[<<c[1], c[2], c[3] - 1>>], plan[i].negative)
<1>0. plan \in Seq(Step) /\ plan[i].retries \in Nat
  BY PlanFacts DEF TypeInv
<1>1. PICK k \in 1 .. plan[i].kids, n \in 0 .. plan[i].retries :
        /\ c = <<i, k, n + 1>> /\ n + 1 \in 0 .. plan[i].retries
        /\ n = LatestAttempt(list, i, k)
        /\ ChildNeedsRetry(LatestPhase(list, i, k), plan[i].negative)
  BY <1>0, AgainFacts
<1>2. c[1] = i /\ c[2] = k /\ c[3] = n + 1 /\ c[3] > 0 /\ c[3] - 1 = n
  BY <1>0, <1>1, TryFacts
<1>3. LatestPhase(list, i, k) = list[<<i, k, n>>]
  BY <1>0, <1>1, LatestFacts
<1>4. kids[<<i, k, n>>] = list[<<i, k, n>>]
  <2>1. <<i, k, n>> \in Tries
    BY <1>0, TryFacts
  <2> QED  BY <1>1, <1>3, <2>1, RetryFacts DEF Listed
<1> QED  BY <1>1, <1>2, <1>3, <1>4

-----------------------------------------------------------------------------
(* The invariant is preserved.                                               *)

LEMMA InvParts ==
    ASSUME TypeInv, Inv, Next, CopyInv', WalkInv', SeenInv', TodoInv'
    PROVE  Inv'
<1>1. VersionsInv'
  BY VersionsStep
<1>2. TriesInv'
  BY TriesStep, PlanStays DEF Inv, TriesInv
<1> QED  BY <1>1, <1>2 DEF Inv

LEMMA IdleStep == ASSUME TypeInv, Inv, Next, pc' = "idle" PROVE Inv'
<1>1. CopyInv' /\ WalkInv' /\ SeenInv' /\ TodoInv'
  BY DEF CopyInv, WalkInv, SeenInv, TodoInv
<1> QED  BY <1>1, InvParts

LEMMA SeenStep ==
    ASSUME Next, TypeInv, pc' \notin {"idle", "list"} => Listed(seen', kids')
    PROVE  SeenInv'
<1>1. Tries' = Tries
  BY PlanStays, SamePlan
<1> QED  BY <1>1 DEF SeenInv, Listed

LEMMA VersionsStay ==
    ASSUME TypeInv, parents' = parents \/ Appends
    PROVE  /\ Len(parents) \in Nat /\ Len(parents') \in Nat /\ Len(parents) <= Len(parents')
           /\ \A v \in 1 .. Len(parents) : parents'[v] = parents[v]
<1>0. Len(parents) \in Nat
  BY DEF TypeInv
<1>1. CASE parents' = parents
  BY <1>0, <1>1
<1>2. CASE Appends
  BY <1>0, <1>2, AppendFacts DEF Appends
<1> QED  BY <1>1, <1>2

LEMMA CopyStep ==
    ASSUME TypeInv, Inv, Next, pc # "idle", parents' = parents \/ Appends,
           mem'.ver = mem.ver, mem'.run.phase = mem.run.phase, mem'.run.abort = mem.run.abort,
           Ordered(plan, mem'.run.steps), Earned(plan, kids, mem'.run.steps),
           Extends(plan, mem.run.steps, mem'.run.steps)
    PROVE  CopyInv'
<1>0. plan' = plan /\ Earned(plan, kids', mem'.run.steps) /\ mem.ver \in Nat
  BY PlanStays, EarnedStep DEF Inv, TypeInv
<1>1. ~Terminal(mem.run.phase)
  BY DEF Inv, CopyInv
<1>2. ASSUME mem.ver # 0
      PROVE  /\ mem.ver <= Len(parents')
             /\ Extends(plan, parents'[mem.ver].steps, mem'.run.steps)
             /\ ~Terminal(parents'[mem.ver].phase)
             /\ mem.run.abort = parents'[mem.ver].abort
  <2>1. /\ mem.ver <= Len(parents) /\ Extends(plan, parents[mem.ver].steps, mem.run.steps)
        /\ ~Terminal(parents[mem.ver].phase) /\ mem.run.abort = parents[mem.ver].abort
    BY <1>2 DEF Inv, CopyInv
  <2>2. /\ mem.ver \in 1 .. Len(parents) /\ mem.ver <= Len(parents')
        /\ parents'[mem.ver] = parents[mem.ver]
    BY <1>0, <1>2, <2>1, VersionsStay
  <2>3. Extends(plan, parents[mem.ver].steps, mem'.run.steps)
    BY <2>1 DEF Extends
  <2> QED  BY <2>1, <2>2, <2>3
<1> QED  BY <1>0, <1>1, <1>2 DEF CopyInv

LEMMA CopyStart ==
    ASSUME TypeInv, Inv, Next, ~Terminal(Cached.phase), parents' = parents,
           mem' = [ver |-> 1, run |-> Cached]
    PROVE  CopyInv'
<1>0. /\ plan' = plan /\ Len(parents) \in Nat /\ Len(parents) > 0
      /\ Ordered(plan, Cached.steps) /\ Earned(plan, kids, Cached.steps)
      /\ mem'.ver = 1 /\ mem'.run = Cached /\ parents'[1] = Cached
  BY PlanStays, LiveSound, Typed DEF Inv, TypeInv, Cached
<1>1. Earned(plan, kids', Cached.steps)
  BY <1>0, EarnedStep DEF Inv
<1>2. Extends(plan, Cached.steps, Cached.steps)
  BY DEF Extends
<1> QED  BY <1>0, <1>1, <1>2 DEF CopyInv

\* After a write that went through the walk holds the live version.
LEMMA CopyWritten ==
    ASSUME TypeInv, Inv, Next, NEW ver, NEW r \in RecordOf(plan), Commit(ver, r),
           ~Terminal(r.phase), mem' = [ver |-> Len(parents'), run |-> r]
    PROVE  CopyInv'
<1>0. plan' = plan /\ Len(parents) \in Nat /\ Len(parents) > 0 /\ parents \in Seq(RecordOf(plan))
  BY PlanStays, Typed DEF TypeInv
<1>1. Len(parents') \in Nat /\ Len(parents') > 0 /\ parents'[Len(parents')] = r
  <2>1. CASE parents' = parents /\ r = Live
    BY <1>0, <2>1 DEF Live
  <2>2. CASE parents' = Append(parents, r)
    BY <1>0, <2>2, AppendFacts
  <2> QED  BY <2>1, <2>2 DEF Commit, Written
<1>2. VersionsInv'
  BY VersionsStep
<1>3. Ordered(plan, r.steps) /\ Earned(plan, kids', r.steps)
  BY <1>0, <1>1, <1>2 DEF VersionsInv
<1>4. Extends(plan, r.steps, r.steps)
  BY DEF Extends
<1>5. mem'.ver = Len(parents') /\ mem'.run = r
  OBVIOUS
<1> QED  BY <1>0, <1>1, <1>3, <1>4, <1>5 DEF CopyInv

\* A step that leaves the walk where it is.
LEMMA WalkStays ==
    ASSUME TypeInv, Inv, Next, UNCHANGED <<pc, mem, seen, at>>, todo' \subseteq todo,
           parents' = parents \/ Appends
    PROVE  Inv'
<1>0. plan' = plan /\ TypeInv'
  BY PlanStays, TypeStep
<1>1. CASE pc = "idle"
  BY <1>1, IdleStep
<1>2. CASE pc # "idle"
  <2>1. CopyInv'
    <3>1. Ordered(plan, mem.run.steps) /\ Earned(plan, kids, mem.run.steps)
      BY <1>2 DEF Inv, CopyInv
    <3>2. Extends(plan, mem.run.steps, mem.run.steps)
      BY DEF Extends
    <3> QED  BY <1>2, <3>1, <3>2, CopyStep
  <2>2. WalkInv'
    BY <1>0 DEF Inv, WalkInv
  <2>3. SeenInv'
    BY ListedStep, SeenStep DEF Inv
  <2>4. TodoInv'
    <3>1. ASSUME pc = "retry", NEW c \in todo
          PROVE  /\ c[1] = at /\ c[3] > 0
                 /\ ChildNeedsRetry(kids'[<<c[1], c[2], c[3] - 1>>], plan[at].negative)
      <4>1. /\ c[1] = at /\ c[3] > 0
            /\ ChildNeedsRetry(kids[<<c[1], c[2], c[3] - 1>>], plan[at].negative)
        BY <3>1 DEF Inv, TodoInv
      <4>2. <<c[1], c[2], c[3] - 1>> \in Tries
        <5>1. c \in Tries /\ plan \in Seq(Step)
          BY <3>1 DEF TypeInv
        <5>2. /\ c[1] \in Steps /\ c[2] \in 1 .. plan[c[1]].kids
              /\ c[3] \in 0 .. plan[c[1]].retries /\ plan[c[1]].retries \in Nat
          BY <5>1, TryFacts, PlanFacts
        <5>3. c[3] - 1 \in 0 .. plan[c[1]].retries
          BY <4>1, <5>2
        <5> QED  BY <5>1, <5>2, <5>3, TryFacts
      <4>3. kids'[<<c[1], c[2], c[3] - 1>>] = kids[<<c[1], c[2], c[3] - 1>>]
        BY <4>1, <4>2, GrownStep, RetryFacts DEF Grown
      <4> QED  BY <4>1, <4>3
    <3>2. pc = "make" => \A c \in todo : c[1] = at /\ c[3] = 0
      BY DEF Inv, TodoInv
    <3> QED  BY <1>0, <3>1, <3>2 DEF TodoInv
  <2> QED  BY <2>1, <2>2, <2>3, <2>4, InvParts
<1> QED  BY <1>1, <1>2

\* The walk records what it finds of a step and goes on to the next one.
LEMMA Advance ==
    ASSUME TypeInv, Inv, Next, pc \in {"step", "make", "stopStep"}, at \in Steps,
           NEW v \in StepPhases, Decided(v), v = "skipped" <=> SkipBy(plan, mem.run.steps, at),
           v \in Verdict => StepEarned(plan, kids, at, v),
           Undecided(mem.run.steps[at]) \/ mem.run.steps[at] = v,
           NextStep(Recorded(v)), parents' = parents, Listed(seen', kids')
    PROVE  Inv'
<1>0. /\ plan \in Seq(Step) /\ plan' = plan /\ at \in 1 .. Len(plan) /\ Len(plan) \in Nat
      /\ mem \in [ver : Nat, run : RecordOf(plan)]
  BY PlanFacts, PlanStays DEF TypeInv
<1> DEFINE s == mem.run.steps
           t == [s EXCEPT ![at] = v]
           r == Recorded(v)
<1>1. /\ s \in [1 .. Len(plan) -> StepPhases]
      /\ r \in RecordOf(plan) /\ r.phase = mem.run.phase /\ r.abort = mem.run.abort /\ r.steps = t
  BY <1>0, CopyTyped, Zenon DEF Recorded
<1>2. mem' = [mem EXCEPT !.run = r] /\ at' = at + 1 /\ pc' = "step" /\ todo' = {}
  BY DEF NextStep, Remember
<1> HIDE DEF r
<1>3. mem'.run = r /\ mem'.ver = mem.ver
  BY <1>0, <1>2
<1>4. /\ Ordered(plan, s) /\ Earned(plan, kids, s) /\ \A j \in 1 .. at - 1 : Decided(s[j])
  BY DEF Inv, CopyInv, WalkInv
<1> HIDE DEF s
<1>5. t[at] = v /\ \A j \in 1 .. Len(plan) : j # at => t[j] = s[j]
  BY <1>0, <1>1
<1>6. Ordered(plan, t) /\ Extends(plan, s, t)
  <2>1. CASE Undecided(s[at])
    <3>1. v = "skipped" <=> SkipBy(plan, s, at)
      BY DEF s
    <3> QED  BY <1>0, <1>1, <1>4, <2>1, <3>1, RecordGrows
  <2>2. CASE s[at] = v
    <3>1. t = s
      BY <1>0, <1>1, <2>2
    <3> QED  BY <1>4, <3>1 DEF Extends
  <2> QED  BY <2>1, <2>2 DEF s
<1>7. Earned(plan, kids, t)
  BY <1>0, <1>4, <1>5 DEF Earned
<1> HIDE DEF t
<1>8. CopyInv'
  BY <1>1, <1>3, <1>6, <1>7, CopyStep DEF s
<1>9. WalkInv'
  <2>1. \A j \in 1 .. at : Decided(t[j])
    <3>1. \A j \in 1 .. at : j = at \/ (j \in 1 .. at - 1 /\ j \in 1 .. Len(plan) /\ j # at)
      BY <1>0
    <3> QED  BY <1>4, <1>5, <3>1
  <2>2. at' - 1 = at
    BY <1>0, <1>2
  <2> QED  BY <1>1, <1>2, <1>3, <2>1, <2>2 DEF WalkInv
<1>10. SeenInv'
  BY SeenStep
<1>11. TodoInv'
  BY <1>2 DEF TodoInv
<1> QED  BY <1>8, <1>9, <1>10, <1>11, InvParts

LEMMA InvStep == TypeInv /\ Inv /\ [Next]_vars => Inv'
<1> SUFFICES ASSUME TypeInv, Inv, [Next]_vars PROVE Inv'
  OBVIOUS
<1>0. plan \in Seq(Step) /\ Steps = 1 .. Len(plan) /\ Len(plan) \in Nat
  BY PlanFacts DEF TypeInv
<1>1. CASE UNCHANGED vars
  <2>1. UNCHANGED <<plan, parents, kids, pc, mem, seen, at, todo>> /\ Tries' = Tries
    BY <1>1, SamePlan DEF vars
  <2> QED
    BY <2>1 DEF Inv, VersionsInv, CopyInv, WalkInv, TriesInv, SeenInv, TodoInv
<1>2. CASE Promote
  <2> DEFINE e == [Cached EXCEPT !.phase = "running"]
  <2>1. e \in RecordOf(plan) /\ ~Terminal(e.phase)
    <3>1. e \in RecordOf(plan) /\ e.phase = "running"
      BY LiveSound, PhasedTyped DEF Inv
    <3> QED  BY <3>1 DEF Terminal, Verdict
  <2>2. \/ Commit(1, e) /\ pc' = "list" /\ mem' = [ver |-> Len(parents'), run |-> e]
        \/ pc' = "idle"
    BY <1>2 DEF Promote, End
  <2> HIDE DEF e
  <2>3. CASE pc' = "list"
    <3>1. CopyInv'
      BY <1>2, <2>1, <2>2, <2>3, CopyWritten DEF Next, Reconcile
    <3>2. WalkInv' /\ SeenInv' /\ TodoInv'
      BY <2>3 DEF WalkInv, SeenInv, TodoInv
    <3> QED  BY <1>2, <3>1, <3>2, InvParts DEF Next, Reconcile
  <2> QED  BY <1>2, <2>2, <2>3, IdleStep DEF Next, Reconcile
<1>3. CASE List
  <2>1. Next /\ pc' = "step" /\ parents' = parents /\ seen' = kids /\ todo' = {} /\ at' = 1
    BY <1>3 DEF List, Next, Reconcile
  <2>2. CopyInv'
    <3>1. CASE ~Terminal(Cached.phase) /\ mem' = [ver |-> 1, run |-> Cached]
      BY <2>1, <3>1, CopyStart
    <3>2. CASE pc = "list" /\ mem' = mem
      <4>1. Ordered(plan, mem.run.steps) /\ Earned(plan, kids, mem.run.steps)
        BY <3>2 DEF Inv, CopyInv
      <4>2. Extends(plan, mem.run.steps, mem.run.steps)
        BY DEF Extends
      <4> QED  BY <2>1, <3>2, <4>1, <4>2, CopyStep
    <3> QED  BY <1>3, <3>1, <3>2 DEF List, Open
  <2>3. WalkInv' /\ TodoInv'
    BY <2>1 DEF WalkInv, TodoInv
  <2>4. SeenInv'
    BY <2>1, ListedStep, SeenStep DEF Inv
  <2> QED  BY <2>1, <2>2, <2>3, <2>4, InvParts
<1>4. CASE SkipStep
  <2>1. /\ Next /\ pc = "step" /\ at \in Steps /\ Skipped /\ NextStep(Recorded("skipped"))
        /\ parents' = parents /\ seen' = seen
    BY <1>4 DEF SkipStep, AtStep, Next, Reconcile
  <2>2. SkipBy(plan, mem.run.steps, at)
    BY <2>1, SkippedFacts
  <2>3. Undecided(mem.run.steps[at]) \/ mem.run.steps[at] = "skipped"
    <3>1. Ordered(plan, mem.run.steps) /\ mem.run.steps[at] \in StepPhases
      BY <1>0, <2>1, CopyTyped DEF Inv, CopyInv, TypeInv
    <3>2. mem.run.steps[at] \notin Verdict
      BY <1>0, <2>1, <2>2, <3>1 DEF Ordered
    <3> QED  BY <3>1, <3>2 DEF StepPhases, Undecided
  <2>4. "skipped" \in StepPhases /\ Decided("skipped") /\ "skipped" \notin Verdict
    BY DEF StepPhases, Decided, Verdict
  <2>5. Listed(seen', kids')
    BY <2>1, ListedStep DEF Inv
  <2> QED  BY <2>1, <2>2, <2>3, <2>4, <2>5, Advance
<1>5. CASE TakeRecorded
  <2>1. /\ Next /\ pc = "step" /\ at \in Steps /\ ~Skipped /\ Terminal(mem.run.steps[at])
        /\ NextStep(mem.run) /\ parents' = parents /\ seen' = seen
    BY <1>5 DEF TakeRecorded, AtStep, HasVerdict, Next, Reconcile
  <2>2. mem' = [mem EXCEPT !.run = mem.run] /\ at' = at + 1 /\ pc' = "step" /\ todo' = {}
    BY <2>1 DEF NextStep, Remember
  <2>3. mem' = mem
    <3>1. mem \in [ver : Nat, run : RecordOf(plan)]
      BY <2>1 DEF TypeInv
    <3> QED  BY <2>2, <3>1
  <2>4. CopyInv'
    <3>1. Ordered(plan, mem.run.steps) /\ Earned(plan, kids, mem.run.steps)
      BY <2>1 DEF Inv, CopyInv
    <3>2. Extends(plan, mem.run.steps, mem.run.steps)
      BY DEF Extends
    <3> QED  BY <2>1, <2>3, <3>1, <3>2, CopyStep
  <2>5. WalkInv'
    <3>1. Decided(mem.run.steps[at]) /\ \A j \in 1 .. at - 1 : Decided(mem.run.steps[j])
      BY <2>1 DEF Inv, WalkInv, Decided, Terminal
    <3>2. at' - 1 = at /\ \A j \in 1 .. at : j = at \/ j \in 1 .. at - 1
      BY <1>0, <2>1, <2>2
    <3> QED  BY <2>2, <2>3, <3>1, <3>2 DEF WalkInv
  <2>6. SeenInv' /\ TodoInv'
    <3>1. TodoInv'
      BY <2>2 DEF TodoInv
    <3> QED  BY <2>1, <2>2, <3>1, ListedStep, SeenStep DEF Inv
  <2> QED  BY <2>1, <2>4, <2>5, <2>6, InvParts
<1>6. CASE EnterStep
  <2>1. /\ Next /\ pc = "step" /\ at \in Steps /\ ~Skipped /\ ~Terminal(mem.run.steps[at])
        /\ pc' = "make" /\ todo' = Missing(seen, at)
        /\ parents' = parents /\ mem' = mem /\ seen' = seen /\ at' = at
    BY <1>6 DEF EnterStep, AtStep, HasVerdict, Next, Reconcile
  <2>2. plan' = plan
    BY <2>1, PlanStays
  <2>3. CopyInv'
    <3>1. Ordered(plan, mem.run.steps) /\ Earned(plan, kids, mem.run.steps)
      BY <2>1 DEF Inv, CopyInv
    <3>2. Extends(plan, mem.run.steps, mem.run.steps)
      BY DEF Extends
    <3> QED  BY <2>1, <3>1, <3>2, CopyStep
  <2>4. ~SkipBy(plan, mem.run.steps, at)
    BY <2>1, SkippedFacts
  <2>5. Undecided(mem.run.steps[at])
    <3>1. Ordered(plan, mem.run.steps) /\ mem.run.steps[at] \in StepPhases
      BY <1>0, <2>1, CopyTyped DEF Inv, CopyInv, TypeInv
    <3>2. mem.run.steps[at] # "skipped"
      BY <1>0, <2>1, <2>4, <3>1 DEF Ordered
    <3> QED  BY <2>1, <3>1, <3>2 DEF StepPhases, Undecided, Terminal
  <2>6. WalkInv'
    BY <2>1, <2>2, <2>4, <2>5 DEF Inv, WalkInv
  <2>7. SeenInv'
    BY <2>1, ListedStep, SeenStep DEF Inv
  <2>8. TodoInv'
    BY <1>0, <2>1, MissingTyped DEF TodoInv
  <2> QED  BY <2>1, <2>3, <2>6, <2>7, <2>8, InvParts
<1>7. CASE CreateChild \/ StopChild
  <2>1. /\ Next /\ parents' = parents
        /\ pc' = "idle" \/ (UNCHANGED <<pc, mem, seen, at>> /\ todo' \subseteq todo)
    BY <1>7 DEF CreateChild, StopChild, End, Next, Reconcile
  <2> QED  BY <2>1, IdleStep, WalkStays
<1>8. CASE Gather
  <2> DEFINE list == IF Cardinality({c \in Of(at) : Exists(seen, c)}) < plan[at].kids
                     THEN kids ELSE seen
             v == Aggregate([k \in 1 .. plan[at].kids |-> LatestPhase(list, at, k)],
                            plan[at].negative)
  <2>1. Next /\ pc = "make" /\ parents' = parents /\ seen' = list /\ kids' = kids
    BY <1>8 DEF Gather, Next, Reconcile
  <2>2. at \in Steps /\ plan' = plan
    BY <2>1, PlanStays DEF TypeInv
  <2>3. \/ AllDone(list, at) /\ NextStep(Recorded(v))
        \/ pc' = "retry" /\ todo' = Again(list, at) /\ UNCHANGED <<mem, at>>
    BY <1>8 DEF Gather
  <2>4. Listed(list, kids) /\ Listed(seen', kids')
    BY <2>1, ListedStep DEF Inv
  <2> HIDE DEF list
  <2>5. CASE AllDone(list, at) /\ NextStep(Recorded(v))
    <3>1. Over(plan, kids, at) /\ v = StepVerdict(plan, kids, at)
      BY <2>2, <2>4, <2>5, AllDoneFacts DEF Inv
    <3>2. v \in Verdict
      <4>1. plan[at].kids \in Nat
        BY <1>0, <2>2, PlanFacts
      <4> DEFINE o == [k \in 1 .. plan[at].kids |-> LatestPhase(list, at, k)]
      <4>2. DOMAIN o = 1 .. plan[at].kids
        OBVIOUS
      <4> HIDE DEF o
      <4>3. Aggregate(o, plan[at].negative) \in Verdict
        BY <4>1, <4>2, AggregateTyped
      <4> QED  BY <4>3 DEF o
    <3> HIDE DEF v
    <3>3. StepEarned(plan, kids, at, v)
      BY <3>1 DEF StepEarned
    <3>4. v \in StepPhases /\ Decided(v) /\ v # "skipped"
      BY <3>2 DEF StepPhases, Decided, Verdict
    <3>5. ~SkipBy(plan, mem.run.steps, at) /\ Undecided(mem.run.steps[at])
      BY <2>1 DEF Inv, WalkInv
    <3> QED  BY <2>1, <2>2, <2>4, <2>5, <3>3, <3>4, <3>5, Advance
  <2>6. CASE pc' = "retry" /\ todo' = Again(list, at) /\ UNCHANGED <<mem, at>>
    <3>1. CopyInv'
      <4>1. Ordered(plan, mem.run.steps) /\ Earned(plan, kids, mem.run.steps)
        BY <2>1 DEF Inv, CopyInv
      <4>2. Extends(plan, mem.run.steps, mem.run.steps)
        BY DEF Extends
      <4> QED  BY <2>1, <2>6, <4>1, <4>2, CopyStep
    <3>2. WalkInv'
      BY <2>1, <2>2, <2>6 DEF Inv, WalkInv
    <3>3. SeenInv'
      BY <2>1, <2>4, SeenStep
    <3>4. TodoInv'
      <4>1. \A c \in Again(list, at) :
              /\ c[1] = at /\ c[3] > 0
              /\ ChildNeedsRetry(kids[<<c[1], c[2], c[3] - 1>>], plan[at].negative)
        BY <2>2, <2>4, AgainNeeded
      <4> QED  BY <2>1, <2>2, <2>6, <4>1 DEF TodoInv
    <3> QED  BY <2>1, <3>1, <3>2, <3>3, <3>4, InvParts
  <2> QED  BY <2>3, <2>5, <2>6
<1>9. CASE WriteProgress
  <2>1. Next /\ pc = "retry" /\ at \in Steps /\ plan' = plan
        /\ mem \in [ver : Nat, run : RecordOf(plan)]
    BY <1>9, PlanStays DEF WriteProgress, TypeInv, Next, Reconcile
  <2> DEFINE e == IF mem.run.steps[at] = "" THEN Recorded("running") ELSE mem.run
  <2>2. \/ pc' = "idle"
        \/ /\ Commit(mem.ver, e) /\ pc' = "stopStep" /\ plan[at].timeout
           /\ mem.run.steps[at] # "" /\ UNCHANGED <<seen, at>>
           /\ mem' = [ver |-> Len(parents'), run |-> e]
    BY <1>9 DEF WriteProgress, End
  <2>3. CASE pc' = "stopStep"
    <3>1. e = mem.run
      BY <2>2, <2>3
    <3> HIDE DEF e
    <3>2. /\ Commit(mem.ver, mem.run) /\ plan[at].timeout /\ seen' = seen /\ at' = at
          /\ mem' = [ver |-> Len(parents'), run |-> mem.run]
      BY <2>2, <2>3, <3>1
    <3>3. ~Terminal(mem.run.phase) /\ mem.run \in RecordOf(plan) /\ mem'.run = mem.run
      BY <2>1, <3>2 DEF Inv, CopyInv
    <3>4. CopyInv'
      BY <2>1, <3>2, <3>3, CopyWritten
    <3>5. WalkInv'
      BY <2>1, <2>3, <3>2, <3>3 DEF Inv, WalkInv
    <3>6. SeenInv' /\ TodoInv'
      <4>1. TodoInv'
        BY <2>3 DEF TodoInv
      <4> QED  BY <2>1, <3>2, <4>1, ListedStep, SeenStep DEF Inv
    <3> QED  BY <2>1, <3>4, <3>5, <3>6, InvParts
  <2> QED  BY <2>1, <2>2, <2>3, IdleStep
<1>10. CASE ReconcileAbort
  <2>1. /\ Next /\ ~Terminal(Cached.phase) /\ pc' = "stopAll" /\ parents' = parents
        /\ mem' = [ver |-> 1, run |-> Cached] /\ seen' = kids
    BY <1>10 DEF ReconcileAbort, Open, Next, Reconcile
  <2>2. CopyInv'
    BY <2>1, CopyStart
  <2>3. WalkInv' /\ TodoInv'
    BY <2>1 DEF WalkInv, TodoInv
  <2>4. SeenInv'
    BY <2>1, ListedStep, SeenStep DEF Inv
  <2> QED  BY <2>1, <2>2, <2>3, <2>4, InvParts
<1>11. CASE TimeOut
  <2>1. /\ Next /\ pc = "stopStep" /\ at \in Steps /\ NextStep(Recorded("failed"))
        /\ parents' = parents /\ seen' = seen
    BY <1>11 DEF TimeOut, TypeInv, Next, Reconcile
  <2>2. ~SkipBy(plan, mem.run.steps, at) /\ Undecided(mem.run.steps[at]) /\ plan[at].timeout
    BY <2>1 DEF Inv, WalkInv
  <2>3. "failed" \in StepPhases /\ Decided("failed") /\ StepEarned(plan, kids, at, "failed")
    BY <2>2 DEF StepPhases, Decided, StepEarned, Verdict
  <2>4. Listed(seen', kids')
    BY <2>1, ListedStep DEF Inv
  <2> QED  BY <2>1, <2>2, <2>3, <2>4, Advance
<1>12. CASE Finish \/ Crash
  BY <1>12, IdleStep DEF Finish, Crash, End, Next, Reconcile
<1>13. CASE ParentEvent
  <2>1. /\ Next /\ Forgets /\ mem' = [mem EXCEPT !.ver = IF @ = 0 THEN 0 ELSE @ - 1]
        /\ UNCHANGED <<plan, kids, pc, seen, at, todo>>
    BY <1>13 DEF ParentEvent, Forgets, Next
  <2>2. Tries' = Tries
    BY <2>1, SamePlan
  <2>3. CASE pc = "idle"
    BY <2>1, <2>3, IdleStep
  <2>4. CASE pc # "idle"
    <3>1. mem \in [ver : Nat, run : RecordOf(plan)]
      BY <2>4 DEF TypeInv
    <3>2. mem'.run = mem.run /\ mem'.ver = (IF mem.ver = 0 THEN 0 ELSE mem.ver - 1)
      BY <2>1, <3>1
    <3>3. CopyInv'
      <4>1. /\ Ordered(plan, mem.run.steps) /\ Earned(plan, kids, mem.run.steps)
            /\ ~Terminal(mem.run.phase)
        BY <2>4 DEF Inv, CopyInv
      <4>2. ASSUME mem'.ver # 0
            PROVE  /\ mem'.ver <= Len(parents')
                   /\ Extends(plan, parents'[mem'.ver].steps, mem.run.steps)
                   /\ ~Terminal(parents'[mem'.ver].phase)
                   /\ mem.run.abort = parents'[mem'.ver].abort
        <5>1. mem.ver \in Nat /\ mem.ver # 0 /\ mem'.ver = mem.ver - 1 /\ mem'.ver \in Nat
          BY <3>1, <3>2, <4>2
        <5>2. /\ mem.ver <= Len(parents) /\ Extends(plan, parents[mem.ver].steps, mem.run.steps)
              /\ ~Terminal(parents[mem.ver].phase) /\ mem.run.abort = parents[mem.ver].abort
          BY <2>4, <5>1 DEF Inv, CopyInv
        <5>3. /\ Len(parents) \in Nat /\ Len(parents') = Len(parents) - 1
              /\ \A v \in 1 .. Len(parents') : parents'[v] = parents[v + 1]
          BY <2>1, ForgetFacts, Typed
        <5>4. mem'.ver \in 1 .. Len(parents') /\ mem'.ver + 1 = mem.ver
          BY <4>2, <5>1, <5>2, <5>3
        <5>5. parents'[mem'.ver] = parents[mem.ver] /\ mem'.ver <= Len(parents')
          BY <5>3, <5>4
        <5> QED  BY <5>2, <5>5
      <4> QED  BY <2>1, <3>2, <4>1, <4>2 DEF CopyInv
    <3>4. WalkInv' /\ SeenInv' /\ TodoInv'
      BY <2>1, <2>2, <3>2 DEF Inv, WalkInv, SeenInv, TodoInv
    <3> QED  BY <2>1, <3>3, <3>4, InvParts
  <2> QED  BY <2>3, <2>4
<1>14. CASE ChildEnds \/ Elapse \/ UserAbort \/ Touch
  <2>1. Next /\ UNCHANGED <<pc, mem, seen, at, todo>>
    BY <1>14 DEF ChildEnds, Elapse, UserAbort, Touch, walk, Next
  <2>2. parents' = parents \/ Appends
    <3>1. CASE ChildEnds \/ Elapse
      BY <3>1 DEF ChildEnds, Elapse
    <3>2. CASE UserAbort \/ Touch
      <4>1. Len(parents) \in Nat /\ Len(parents) > 0 /\ Len(parents') = Len(parents) + 1
        <5>1. parents \in Seq(RecordOf(plan)) /\ Live \in RecordOf(plan)
          BY Typed DEF TypeInv
        <5>2. PICK r : parents' = Append(parents, r)
          BY <3>2 DEF UserAbort, Touch
        <5> QED  BY <5>1, <5>2, Typed DEF TypeInv
      <4>2. Appends \/ Forgets \/ Relists
        BY <2>1, <4>1, ParentsMove
      <4>3. ~Forgets
        BY <4>1, ForgetFacts
      <4>4. ~Relists
        BY <4>1 DEF Relists
      <4> QED  BY <4>2, <4>3, <4>4
    <3> QED  BY <1>14, <3>1, <3>2
  <2> QED  BY <2>1, <2>2, WalkStays
<1> QED
  BY <1>1, <1>2, <1>3, <1>4, <1>5, <1>6, <1>7, <1>8, <1>9, <1>10, <1>11, <1>12, <1>13, <1>14
     DEF Next, Reconcile

LEMMA InvInit == Init => Inv
<1> SUFFICES ASSUME Init PROVE Inv
  OBVIOUS
<1>0. TypeInv /\ pc = "idle"
  BY TypeInit DEF Init
<1>1. plan \in Seq(Step) /\ Len(parents) = 1
  BY <1>0 DEF Init, TypeInv
<1>2. /\ plan \in Seq(Step) /\ Steps = 1 .. Len(plan)
      /\ parents[1].phase = "queued" /\ parents[1].steps = [i \in Steps |-> ""]
  BY <1>0, PlanFacts DEF Init, TypeInv
<1>3. VersionsInv
  <2> DEFINE s == parents[1].steps
  <2>1. \A i \in 1 .. Len(plan) : s[i] = ""
    BY <1>2
  <2>2. Ordered(plan, s)
    BY <2>1 DEF Ordered, Entered, Verdict
  <2>3. Earned(plan, kids, s)
    BY <2>1 DEF Earned, Verdict
  <2>4. PhaseEarned(plan, parents[1])
    BY <1>2 DEF PhaseEarned
  <2>5. \A v \in 1 .. Len(parents) : v = 1
    BY <1>1
  <2> HIDE DEF s
  <2> QED  BY <2>2, <2>3, <2>4, <2>5 DEF VersionsInv, s
<1>4. TriesInv
  <2>1. kids = [c \in Tries |-> "none"]
    BY DEF Init
  <2>2. \A i \in 1 .. Len(plan) : \A k \in 1 .. plan[i].kids : \A n \in 0 .. plan[i].retries :
          kids[<<i, k, n>>] = "none"
    BY <1>2, <2>1, TryFacts
  <2> QED  BY <2>2 DEF TriesInv, TriesOrdered
<1> QED  BY <1>0, <1>3, <1>4 DEF Inv, CopyInv, WalkInv, SeenInv, TodoInv

-----------------------------------------------------------------------------
(* The theorems that hold of every plan.                                     *)

\* reconcileComposite: whatever the cache, the crashes and the failing calls, every
\* version of the parent orders its steps and rests on what the children did.
THEOREM Invariance == Spec => [](TypeInv /\ Inv)
<1>1. Init => TypeInv /\ Inv
  BY TypeInit, InvInit
<1>2. TypeInv /\ Inv /\ [Next]_vars => (TypeInv /\ Inv)'
  BY TypeStep, InvStep
<1> QED  BY <1>1, <1>2, PTL DEF Spec

LEMMA InvPassed == TypeInv /\ Inv => PassedIsEarned
<1> SUFFICES ASSUME TypeInv, Inv, Live.phase = "passed", NEW i \in Steps,
                    ~plan[i].optional, Live.steps[i] # "skipped",
                    NEW k \in 1 .. plan[i].kids
             PROVE  LatestPhase(kids, i, k) = (IF plan[i].negative THEN "failed" ELSE "passed")
  BY DEF PassedIsEarned
<1>0. /\ plan \in Seq(Step) /\ i \in 1 .. Len(plan) /\ plan[i].retries \in Nat
      /\ plan[i].kids \in Nat /\ plan[i].kids > 0 /\ plan[i].negative \in BOOLEAN
  BY PlanFacts DEF TypeInv
<1>1. Live.steps[i] = "passed"
  BY <1>0, LiveSound DEF Inv, PhaseEarned
<1>2. Over(plan, kids, i) /\ StepVerdict(plan, kids, i) = "passed"
  BY <1>0, <1>1, LiveSound DEF Inv, Earned, StepEarned, Verdict
<1>3. ASSUME NEW l \in 1 .. plan[i].kids
      PROVE  EndPhase(plan, kids, i, l) \in Verdict /\ LatestPhase(kids, i, l) = EndPhase(plan, kids, i, l)
  <2>1. PICK n \in 0 .. plan[i].retries :
          LastTry(plan, kids, i, l, n) /\ Terminal(kids[<<i, l, n>>])
    BY <1>2 DEF Over, ChildOver
  <2>2. EndPhase(plan, kids, i, l) = kids[<<i, l, n>>]
    BY <1>0, <2>1, EndPhaseFacts
  <2>3. PICK m \in 0 .. plan[i].retries :
          LatestPhase(kids, i, l) = kids[<<i, l, m>>] /\ LastTry(plan, kids, i, l, m)
    <3>1. ~(\A m \in 0 .. plan[i].retries : kids[<<i, l, m>>] = "none")
      BY <2>1 DEF LastTry
    <3> QED  BY <1>0, <3>1, LatestFacts
  <2>4. EndPhase(plan, kids, i, l) = kids[<<i, l, m>>]
    BY <1>0, <2>3, EndPhaseFacts
  <2> QED  BY <2>1, <2>2, <2>3, <2>4 DEF Terminal
<1> DEFINE o == [l \in 1 .. plan[i].kids |-> EndPhase(plan, kids, i, l)]
<1>4. o \in [1 .. plan[i].kids -> Verdict] /\ Aggregate(o, plan[i].negative) = "passed"
  BY <1>2, <1>3 DEF StepVerdict
<1>5. o[k] = EndPhase(plan, kids, i, k)
  OBVIOUS
<1> HIDE DEF o
<1>6. o[k] = (IF plan[i].negative THEN "failed" ELSE "passed")
  <2>1. \A l \in 1 .. plan[i].kids : o[l] = (IF plan[i].negative THEN "failed" ELSE "passed")
    <3>1. Outcomes(o, plan[i].kids)
      BY <1>0, <1>4 DEF Outcomes
    <3> QED  BY <1>0, <1>4, <3>1, AggregatePassed
  <2> QED  BY <2>1
<1> QED  BY <1>3, <1>5, <1>6

\* transitionTerminal of a composite run: it passes only if every step that counts and was
\* not skipped is done and the latest try of each of its children went as expected.
THEOREM PassesAreEarned == Spec => []PassedIsEarned
  BY Invariance, InvPassed, PTL

LEMMA InvTries == TypeInv /\ Inv => OneTryAtATime
<1> SUFFICES ASSUME TypeInv, Inv, NEW c \in Tries, c[3] > 0, kids[c] # "none"
             PROVE  ChildNeedsRetry(kids[<<c[1], c[2], c[3] - 1>>], plan[c[1]].negative)
  BY DEF OneTryAtATime, Exists
<1>1. /\ c = <<c[1], c[2], c[3]>> /\ c[1] \in 1 .. Len(plan) /\ plan[c[1]].retries \in Nat
      /\ c[2] \in 1 .. plan[c[1]].kids /\ c[3] \in 0 .. plan[c[1]].retries
  BY TryFacts, PlanFacts DEF TypeInv
<1>2. c[3] - 1 \in 0 .. plan[c[1]].retries /\ c[3] - 1 < c[3]
  BY <1>1
<1>3. kids[<<c[1], c[2], c[3]>>] # "none"
  BY <1>1
<1> QED  BY <1>1, <1>2, <1>3 DEF Inv, TriesInv, TriesOrdered

\* gatherOutcomes and createChild: whatever list they act on, a child has one try running
\* at a time and another only after one that failed.
THEOREM TriesInTurn == Spec => []OneTryAtATime
  BY Invariance, InvTries, PTL

\* recordedStepVerdict and transitionTerminal: the verdict of a step and the phase of the
\* run are never replaced in the live object, though passes act on old copies of it.
THEOREM VerdictsStay == Spec => VerdictsFinal
<1>1. ASSUME TypeInv, Inv, [Next]_vars
      PROVE  [/\ \A i \in Steps : Live.steps[i] \in Verdict \cup {"skipped"}
                                    => Live'.steps[i] = Live.steps[i]
              /\ Terminal(Live.phase) => Live'.phase = Live.phase]_vars
  <2>1. CASE Next
    <3>1. Extends(plan, Live.steps, Live'.steps) /\ (Terminal(Live.phase) => Live'.phase = Live.phase)
      BY <1>1, <2>1, VersionsStep
    <3>2. Steps = 1 .. Len(plan)
      BY <1>1, PlanFacts DEF TypeInv
    <3> QED  BY <3>1, <3>2 DEF Extends, Decided
  <2>2. CASE UNCHANGED vars
    BY <2>2
  <2> QED  BY <1>1, <2>1, <2>2
<1> QED  BY <1>1, Invariance, PTL DEF Spec, VerdictsFinal

-----------------------------------------------------------------------------
(* Children in turn.  A step's timeout decides it without regard to its      *)
(* children, and the verdict may be lost again; for plans without timeouts   *)
(* the steps run one after another.                                          *)

Untimed == \A i \in Steps : ~plan[i].timeout

\* Step i has a child.
Begun(p, list, i) ==
    \E k \in 1 .. p[i].kids, n \in 0 .. p[i].retries : list[<<i, k, n>>] # "none"

\* What the children of the steps before step i came to skips it.
Spared(p, list, i) ==
    /\ ~p[i].always
    /\ \E j \in 1 .. i - 1 : Over(p, list, j) /\ Bad(StepVerdict(p, list, j), p[j].optional)

\* It is the turn of step i.
Turn(p, list, i) ==
    ~Spared(p, list, i) /\ \A j \in 1 .. i - 1 : Over(p, list, j) \/ Spared(p, list, j)
TurnsInv == \A i \in 1 .. Len(plan) : Begun(plan, kids, i) => Turn(plan, kids, i)

AllAsked == \A c \in Tries : kids[c] = "open" => c \in asked

\* A run that has ended has decided its steps, or was aborted and has stopped its children.
StopInv ==
    /\ pc = "stopAll" => Cached.abort /\ \A c \in Tries : kids[c] = "open" => c \in asked \cup todo
    /\ Terminal(Live.phase) =>
         \/ \A i \in 1 .. Len(plan) : Decided(Live.steps[i])
         \/ Cached.abort /\ pc \in {"idle", "stopAll"} /\ AllAsked

TurnInv == (Untimed => TurnsInv) /\ StopInv

LEMMA OverBegun ==
    ASSUME TypeInv, NEW i \in Steps, Over(plan, kids, i)
    PROVE  Begun(plan, kids, i)
<1>1. plan[i].kids \in Nat /\ plan[i].kids > 0
  BY PlanFacts DEF TypeInv
<1>2. 1 \in 1 .. plan[i].kids
  BY <1>1
<1> QED  BY <1>2 DEF Begun, Over, ChildOver, LastTry

LEMMA OpenBegun ==
    ASSUME TypeInv, NEW c \in Tries, kids[c] # "none"
    PROVE  c[1] \in 1 .. Len(plan) /\ Begun(plan, kids, c[1])
<1>1. /\ c = <<c[1], c[2], c[3]>> /\ c[1] \in 1 .. Len(plan)
      /\ c[2] \in 1 .. plan[c[1]].kids /\ c[3] \in 0 .. plan[c[1]].retries
  BY TryFacts, PlanFacts DEF TypeInv
<1> QED  BY <1>1 DEF Begun

\* A decided step of a record is over, with that verdict, or is spared by its children.
LEMMA DecidedFacts ==
    ASSUME TypeInv, Untimed, NEW s, Ordered(plan, s), Earned(plan, kids, s),
           NEW i \in 1 .. Len(plan), Decided(s[i])
    PROVE  \/ Over(plan, kids, i) /\ s[i] = StepVerdict(plan, kids, i)
           \/ s[i] = "skipped" /\ Spared(plan, kids, i)
<1>1. Steps = 1 .. Len(plan) /\ Len(plan) \in Nat
  BY PlanFacts DEF TypeInv
<1>2. \A j \in 1 .. Len(plan) : s[j] \in Verdict =>
        Over(plan, kids, j) /\ s[j] = StepVerdict(plan, kids, j)
  BY <1>1 DEF Untimed, Earned, StepEarned
<1>3. CASE s[i] \in Verdict
  BY <1>2, <1>3
<1>4. CASE s[i] = "skipped"
  <2>1. SkipBy(plan, s, i)
    BY <1>4 DEF Ordered
  <2>2. PICK j \in 1 .. i - 1 : Bad(s[j], plan[j].optional)
    BY <2>1 DEF SkipBy
  <2>3. j \in 1 .. Len(plan) /\ s[j] \in Verdict
    BY <1>1, <2>2 DEF Bad, Verdict
  <2>4. Over(plan, kids, j) /\ Bad(StepVerdict(plan, kids, j), plan[j].optional)
    BY <1>2, <2>2, <2>3
  <2> QED  BY <1>4, <2>1, <2>4 DEF Spared, SkipBy
<1> QED  BY <1>3, <1>4 DEF Decided

\* The walk creates children only of the step whose turn it is.
LEMMA WalkTurn ==
    ASSUME TypeInv, Inv, Untimed, TurnsInv, pc \in {"make", "retry"}
    PROVE  at \in 1 .. Len(plan) /\ Turn(plan, kids, at)
<1>1. at \in 1 .. Len(plan) /\ Steps = 1 .. Len(plan) /\ Len(plan) \in Nat
  BY PlanFacts DEF TypeInv
<1> DEFINE s == mem.run.steps
<1>2. /\ Ordered(plan, s) /\ Earned(plan, kids, s) /\ ~SkipBy(plan, s, at)
      /\ \A j \in 1 .. at - 1 : Decided(s[j])
  BY DEF Inv, CopyInv, WalkInv
<1> HIDE DEF s
<1>3. ASSUME NEW j \in 1 .. at - 1
      PROVE  /\ j \in 1 .. Len(plan)
             /\ \/ Over(plan, kids, j) /\ s[j] = StepVerdict(plan, kids, j)
                \/ s[j] = "skipped" /\ Spared(plan, kids, j)
  <2>1. j \in 1 .. Len(plan)
    BY <1>1
  <2> QED  BY <1>2, <2>1, DecidedFacts
<1>4. ASSUME Spared(plan, kids, at) PROVE FALSE
  <2>1. PICK j \in 1 .. at - 1 :
          Over(plan, kids, j) /\ Bad(StepVerdict(plan, kids, j), plan[j].optional)
    BY <1>4 DEF Spared
  <2>2. j \in 1 .. Len(plan) /\ Begun(plan, kids, j)
    BY <1>1, <1>3, <2>1, OverBegun
  <2>3. ~Spared(plan, kids, j)
    BY <2>2 DEF TurnsInv, Turn
  <2>4. Bad(s[j], plan[j].optional)
    BY <1>3, <2>1, <2>3
  <2> QED  BY <1>2, <1>4, <2>4 DEF Spared, SkipBy
<1> QED  BY <1>1, <1>3, <1>4 DEF Turn

\* A step is over only when its last running child ends.
LEMMA OverNew ==
    ASSUME TypeInv, Inv, Next, NEW j \in 1 .. Len(plan), Over(plan, kids', j)
    PROVE  Over(plan, kids, j) \/ \E c \in Tries : c[1] = j /\ kids[c] = "open"
<1>0. /\ plan \in Seq(Step) /\ Steps = 1 .. Len(plan) /\ plan[j].retries \in Nat
      /\ kids \in [Tries -> KidPhases] /\ TriesOrdered(plan, kids')
  BY PlanFacts, TriesStep DEF TypeInv, Inv
<1>1. ASSUME NEW c \in Tries, NEW v, c[1] # j, kids' = [kids EXCEPT ![c] = v]
      PROVE  Over(plan, kids, j)
  <2>1. ASSUME NEW k \in 1 .. plan[j].kids, NEW n \in 0 .. plan[j].retries
        PROVE  kids[<<j, k, n>>] = kids'[<<j, k, n>>]
    <3>1. <<j, k, n>> \in Tries /\ <<j, k, n>> # c
      BY <1>0, <1>1, TryFacts
    <3> QED  BY <1>0, <1>1, <3>1
  <2> QED  BY <1>0, <2>1, SameVerdict
<1>2. CASE Ends
  BY <1>1, <1>2 DEF Ends
<1>3. CASE Creates
  <2>1. PICK k \in 1 .. plan[at].kids, n \in 0 .. plan[at].retries :
          at \in Steps /\ Chosen = <<at, k, n>> /\ Chosen \in Tries
    BY <1>3, CreatesFacts DEF Inv
  <2>2. Chosen[1] = at /\ kids' = [kids EXCEPT ![Chosen] = "open"]
    BY <1>0, <1>3, <2>1, TryFacts DEF Creates
  <2>3. kids'[<<at, k, n>>] = "open"
    BY <1>0, <2>1, <2>2
  <2>4. at # j
    BY <1>0, <2>1, <2>3, OverEnded
  <2> QED  BY <1>1, <2>1, <2>2, <2>4
<1> QED  BY <1>2, <1>3, KidsMove

LEMMA SparedStep ==
    ASSUME TypeInv, Inv, Next, NEW i \in 1 .. Len(plan), Spared(plan, kids, i)
    PROVE  Spared(plan, kids', i)
<1>0. Steps = 1 .. Len(plan) /\ Len(plan) \in Nat
  BY PlanFacts DEF TypeInv
<1>1. PICK j \in 1 .. i - 1 :
        Over(plan, kids, j) /\ Bad(StepVerdict(plan, kids, j), plan[j].optional)
  BY DEF Spared
<1>2. j \in Steps
  BY <1>0
<1>3. Over(plan, kids', j) /\ StepVerdict(plan, kids', j) = StepVerdict(plan, kids, j)
  BY <1>1, <1>2, OverStep DEF Inv
<1> QED  BY <1>1, <1>3 DEF Spared

\* Once it is a step's turn, it stays so.
LEMMA TurnStep ==
    ASSUME TypeInv, Inv, TurnsInv, Next, NEW i \in 1 .. Len(plan), Turn(plan, kids, i)
    PROVE  Turn(plan, kids', i)
<1>0. Steps = 1 .. Len(plan) /\ Len(plan) \in Nat /\ \A j \in 1 .. i - 1 : j \in 1 .. Len(plan)
  BY PlanFacts DEF TypeInv
<1>1. \A j \in 1 .. i - 1 : Over(plan, kids', j) \/ Spared(plan, kids', j)
  BY <1>0, OverStep, SparedStep DEF Turn, Inv
<1>2. ASSUME Spared(plan, kids', i) PROVE FALSE
  <2>1. PICK j \in 1 .. i - 1 :
          Over(plan, kids', j) /\ Bad(StepVerdict(plan, kids', j), plan[j].optional)
    BY <1>2 DEF Spared
  <2>2. j \in 1 .. Len(plan) /\ j \in Steps
    BY <1>0
  <2>3. CASE Over(plan, kids, j)
    <3>1. StepVerdict(plan, kids', j) = StepVerdict(plan, kids, j)
      BY <2>2, <2>3, OverStep DEF Inv
    <3>2. Spared(plan, kids, i)
      BY <1>2, <2>1, <2>3, <3>1 DEF Spared
    <3> QED  BY <3>2 DEF Turn
  <2>4. CASE ~Over(plan, kids, j)
    <3>1. PICK c \in Tries : c[1] = j /\ kids[c] = "open"
      BY <2>1, <2>2, <2>4, OverNew
    <3>2. Begun(plan, kids, j)
      BY <3>1, OpenBegun
    <3>3. ~Spared(plan, kids, j)
      BY <2>2, <3>2 DEF TurnsInv, Turn
    <3> QED  BY <2>4, <3>3 DEF Turn
  <2> QED  BY <2>3, <2>4
<1> QED  BY <1>1, <1>2 DEF Turn

LEMMA TurnsStep ==
    ASSUME TypeInv, Inv, Untimed, TurnsInv, Next
    PROVE  TurnsInv'
<1>0. /\ plan' = plan /\ plan \in Seq(Step) /\ Steps = 1 .. Len(plan)
      /\ kids \in [Tries -> KidPhases]
  BY PlanStays, PlanFacts DEF TypeInv
<1> SUFFICES ASSUME NEW i \in 1 .. Len(plan), Begun(plan, kids', i)
             PROVE  Turn(plan, kids', i)
  BY <1>0 DEF TurnsInv
<1>1. Turn(plan, kids, i)
  <2>1. PICK k \in 1 .. plan[i].kids, n \in 0 .. plan[i].retries : kids'[<<i, k, n>>] # "none"
    BY DEF Begun
  <2>2. <<i, k, n>> \in Tries /\ <<i, k, n>>[1] = i
    BY <1>0, TryFacts
  <2>3. CASE kids[<<i, k, n>>] # "none"
    BY <2>3 DEF Begun, TurnsInv
  <2>4. CASE kids[<<i, k, n>>] = "none"
    <3>1. Creates /\ Chosen = <<i, k, n>>
      BY <1>0, <2>1, <2>2, <2>4, KidsMove DEF Creates, Ends
    <3>2. PICK l, o : at \in Steps /\ Chosen = <<at, l, o>> /\ l \in 1 .. plan[at].kids
                      /\ o \in 0 .. plan[at].retries
      BY <3>1, CreatesFacts DEF Inv
    <3>3. at = i
      BY <1>0, <2>2, <3>1, <3>2, TryFacts
    <3>4. pc \in {"make", "retry"}
      BY <3>1 DEF Creates
    <3> QED  BY <3>3, <3>4, WalkTurn
  <2> QED  BY <2>3, <2>4
<1> QED  BY <1>1, TurnStep

LEMMA AbortStays ==
    ASSUME TypeInv, Inv, Next, Cached.abort
    PROVE  Cached'.abort
<1>0. Len(parents) \in Nat /\ Len(parents) > 0
  BY DEF TypeInv
<1>1. \A v \in 1 .. Len(parents) : parents[v].abort
  BY <1>0 DEF Inv, VersionsInv, Cached
<1>2. CASE parents' = parents
  BY <1>2 DEF Cached
<1>3. CASE Appends
  <2>1. parents'[1] = parents[1]
    BY <1>0, <1>3, VersionsStay
  <2> QED  BY <2>1 DEF Cached
<1>4. CASE Forgets
  <2>1. Len(parents) > 1 /\ Len(parents') = Len(parents) - 1 /\ 1 \in 1 .. Len(parents')
        /\ \A v \in 1 .. Len(parents') : parents'[v] = parents[v + 1]
    BY <1>0, <1>4, ForgetFacts DEF Forgets
  <2>2. parents'[1] = parents[2] /\ 2 \in 1 .. Len(parents)
    BY <1>0, <2>1
  <2> QED  BY <1>1, <2>2 DEF Cached
<1>5. CASE Relists
  <2>1. parents'[1] = parents[Len(parents)] /\ Len(parents) \in 1 .. Len(parents)
    BY <1>0, <1>5 DEF Relists, Live
  <2> QED  BY <1>1, <2>1 DEF Cached
<1> QED  BY <1>2, <1>3, <1>4, <1>5, ParentsMove

\* Only transitionTerminal ends a run.
LEMMA NewlyEnded ==
    ASSUME TypeInv, Inv, Next, ~Terminal(Live.phase), Terminal(Live'.phase)
    PROVE  Finish /\ Live'.steps = mem.run.steps
<1>1. parents' # parents
  BY DEF Live
<1>2. ASSUME NEW ver, NEW r \in RecordOf(plan), Commit(ver, r) \/ Refused(ver, r)
      PROVE  Live' = r
  <2>1. parents' = Append(parents, r)
    BY <1>1, <1>2, WriteFacts
  <2> QED  BY <2>1, AppendFacts
<1>3. CASE Promote
  <2> DEFINE e == [Cached EXCEPT !.phase = "running"]
  <2>1. e \in RecordOf(plan) /\ e.phase = "running"
    BY LiveSound, PhasedTyped DEF Inv
  <2>2. Commit(1, e) \/ Refused(1, e)
    BY <1>3 DEF Promote
  <2> HIDE DEF e
  <2> QED  BY <1>2, <2>1, <2>2 DEF Terminal, Verdict
<1>4. CASE WriteProgress
  <2> DEFINE e == IF mem.run.steps[at] = "" THEN Recorded("running") ELSE mem.run
  <2>1. /\ mem \in [ver : Nat, run : RecordOf(plan)] /\ at \in 1 .. Len(plan)
        /\ ~Terminal(mem.run.phase)
    BY <1>4, PlanFacts DEF WriteProgress, TypeInv, Inv, CopyInv
  <2>2. Commit(mem.ver, e) \/ Refused(mem.ver, e)
    BY <1>4 DEF WriteProgress
  <2>3. e \in {mem.run, Recorded("running")}
    OBVIOUS
  <2> HIDE DEF e
  <2>4. "running" \in StepPhases
    BY DEF StepPhases
  <2>5. /\ mem.run \in RecordOf(plan) /\ Recorded("running") \in RecordOf(plan)
        /\ Recorded("running").phase = mem.run.phase
    BY <2>1, <2>4, CopyTyped, Zenon DEF Recorded
  <2>6. e \in RecordOf(plan) /\ e.phase = mem.run.phase
    BY <2>3, <2>5, Zenon
  <2>7. Live' = e
    BY <1>2, <2>2, <2>6
  <2> QED  BY <2>1, <2>6, <2>7
<1>5. CASE Finish
  <2>1. PICK v : /\ v \in Verdict
                 /\ \/ Commit(mem.ver, [mem.run EXCEPT !.phase = v])
                    \/ Refused(mem.ver, [mem.run EXCEPT !.phase = v])
    <3> DEFINE all == [i \in Steps |-> IF Terminal(mem.run.steps[i]) THEN mem.run.steps[i] ELSE ""]
               opt == [i \in Steps |-> plan[i].optional]
               phase == IF pc = "stopAll" THEN "aborted" ELSE ParentPhase(all, opt)
    <3>1. \/ Commit(mem.ver, [mem.run EXCEPT !.phase = phase])
          \/ Refused(mem.ver, [mem.run EXCEPT !.phase = phase])
      BY <1>5 DEF Finish
    <3>2. phase \in Verdict
      <4>1. DOMAIN all = 1 .. Len(plan) /\ Len(plan) \in Nat
        BY PlanFacts DEF TypeInv
      <4> HIDE DEF all, opt
      <4>2. ParentPhase(all, opt) \in Verdict
        BY <4>1, ParentPassed
      <4> QED  BY <4>2 DEF Verdict
    <3> HIDE DEF phase
    <3> QED  BY <3>1, <3>2
  <2> DEFINE e == [mem.run EXCEPT !.phase = v]
  <2>2. mem \in [ver : Nat, run : RecordOf(plan)]
    BY <1>5 DEF Finish, TypeInv
  <2>3. e \in RecordOf(plan) /\ e.steps = mem.run.steps
    <3>1. v \in {"queued", "running"} \cup Verdict
      BY <2>1
    <3> QED  BY <2>2, <3>1, CopyTyped, Zenon
  <2>4. Commit(mem.ver, e) \/ Refused(mem.ver, e)
    BY <2>1
  <2> HIDE DEF e
  <2>5. Live' = e
    BY <1>2, <2>3, <2>4
  <2> QED  BY <1>5, <2>3, <2>5
<1>6. CASE UserAbort \/ Touch
  <2> DEFINE e == [Live EXCEPT !.abort = TRUE]
  <2>1. e \in RecordOf(plan) /\ e.phase = Live.phase /\ Live \in RecordOf(plan)
    BY Typed DEF RecordOf
  <2>2. parents' \in {Append(parents, e), Append(parents, Live)}
    BY <1>6 DEF UserAbort, Touch
  <2> HIDE DEF e
  <2>3. Live' \in {e, Live}
    BY <2>1, <2>2, AppendFacts
  <2> QED  BY <2>1, <2>3
<1>7. CASE ParentEvent \/ Crash
  <2>1. Live' = Live
    <3>1. CASE ParentEvent
      BY <3>1, ForgetFacts DEF ParentEvent, Forgets
    <3>2. CASE Crash
      <4>1. parents' = <<Live>>
        BY <3>2 DEF Crash
      <4>2. Len(parents') = 1 /\ parents'[1] = Live
        BY <4>1
      <4> QED  BY <4>2 DEF Live
    <3> QED  BY <1>7, <3>1, <3>2
  <2> QED  BY <2>1
<1> QED
  BY <1>1, <1>3, <1>4, <1>5, <1>6, <1>7 DEF Next, Reconcile, List, SkipStep, TakeRecorded,
     EnterStep, CreateChild, Gather, ReconcileAbort, StopChild, TimeOut, ChildEnds, Elapse

LEMMA OpenStays ==
    ASSUME TypeInv, Next, pc \notin {"make", "retry"}, NEW c \in Tries, kids'[c] = "open"
    PROVE  kids[c] = "open"
<1>1. kids \in [Tries -> KidPhases]
  BY DEF TypeInv
<1> QED  BY <1>1, KidsMove DEF Creates, Ends, Verdict

LEMMA StopStep ==
    ASSUME TypeInv, Inv, StopInv, Next
    PROVE  StopInv'
<1>0. plan' = plan /\ Tries' = Tries /\ plan \in Seq(Step) /\ Steps = 1 .. Len(plan)
  BY PlanStays, SamePlan, PlanFacts DEF TypeInv
<1>1. ASSUME pc' = "stopAll"
      PROVE  Cached'.abort /\ \A c \in Tries : kids'[c] = "open" => c \in asked' \cup todo'
  <2>1. CASE ReconcileAbort
    <3>1. /\ Cached.abort /\ kids' = kids /\ todo' = UNION {InFlight(kids, i) : i \in Steps}
      BY <2>1 DEF ReconcileAbort
    <3>2. ASSUME NEW c \in Tries, kids[c] = "open" PROVE c \in todo'
      <4>1. c[1] \in Steps
        BY <1>0, TryFacts
      <4>2. c \in InFlight(kids, c[1])
        BY <3>2 DEF InFlight, Of, Exists, Terminal, Verdict
      <4> QED  BY <3>1, <4>1, <4>2
    <3> QED  BY <3>1, <3>2, AbortStays
  <2>2. CASE pc = "stopAll" /\ asked \cup todo \subseteq asked' \cup todo'
    <3>1. Cached.abort /\ \A c \in Tries : kids[c] = "open" => c \in asked \cup todo
      BY <2>2 DEF StopInv
    <3> QED  BY <2>2, <3>1, AbortStays, OpenStays
  <2>3. ReconcileAbort \/ (pc = "stopAll" /\ asked \cup todo \subseteq asked' \cup todo')
    BY <1>1 DEF Next, Reconcile, Promote, List, SkipStep, TakeRecorded, EnterStep, CreateChild,
       Gather, WriteProgress, StopChild, TimeOut, Finish, ParentEvent, Crash, ChildEnds, Elapse,
       UserAbort, Touch, End, NextStep, AtStep, walk
  <2> QED  BY <2>1, <2>2, <2>3
<1>2. ASSUME Cached.abort, pc \in {"idle", "stopAll"}, AllAsked
      PROVE  Cached'.abort /\ pc' \in {"idle", "stopAll"} /\ AllAsked'
  <2>1. pc' \in {"idle", "stopAll"} /\ asked \subseteq asked'
    BY <1>2 DEF Next, Reconcile, Promote, List, SkipStep, TakeRecorded, EnterStep, CreateChild,
       Gather, WriteProgress, ReconcileAbort, StopChild, TimeOut, Finish, ParentEvent, Crash,
       ChildEnds, Elapse, UserAbort, Touch, End, NextStep, AtStep, walk
  <2>2. AllAsked'
    BY <1>0, <1>2, <2>1, OpenStays DEF AllAsked
  <2> QED  BY <1>2, <2>1, <2>2, AbortStays
<1>3. ASSUME Terminal(Live'.phase)
      PROVE  \/ \A i \in 1 .. Len(plan) : Decided(Live'.steps[i])
             \/ Cached'.abort /\ pc' \in {"idle", "stopAll"} /\ AllAsked'
  <2>1. CASE Terminal(Live.phase)
    <3>1. CASE \A i \in 1 .. Len(plan) : Decided(Live.steps[i])
      BY <3>1, VersionsStep DEF Extends
    <3> QED  BY <1>2, <2>1, <3>1 DEF StopInv
  <2>2. CASE ~Terminal(Live.phase)
    <3>1. Finish /\ Live'.steps = mem.run.steps
      BY <1>3, <2>2, NewlyEnded
    <3>2. CASE pc = "step" /\ at \notin Steps
      <4>1. at = Len(plan) + 1 /\ Len(plan) \in Nat
        BY <1>0, <3>2 DEF TypeInv
      <4>2. at - 1 = Len(plan) /\ \A j \in 1 .. at - 1 : Decided(mem.run.steps[j])
        BY <3>2, <4>1 DEF Inv, WalkInv
      <4> QED  BY <3>1, <4>2
    <3>3. CASE pc = "stopAll" /\ todo = {}
      BY <1>2, <3>3 DEF StopInv, AllAsked
    <3> QED  BY <3>1, <3>2, <3>3 DEF Finish
  <2> QED  BY <2>1, <2>2
<1> QED  BY <1>0, <1>1, <1>3 DEF StopInv

LEMMA TurnInit == Init => TurnInv
<1> SUFFICES ASSUME Init PROVE TurnInv
  OBVIOUS
<1>1. kids = [c \in Tries |-> "none"] /\ pc = "idle" /\ plan \in Seq(Step)
  BY TypeInit DEF Init, TypeInv
<1>2. TurnsInv
  <2>1. \A i \in 1 .. Len(plan) : ~Begun(plan, kids, i)
    BY <1>1, TryFacts, PlanFacts DEF Begun
  <2> QED  BY <2>1 DEF TurnsInv
<1>3. ~Terminal(Live.phase)
  BY DEF Init, Live, Terminal, Verdict
<1> QED  BY <1>1, <1>2, <1>3 DEF TurnInv, StopInv

LEMMA TurnInvStep == TypeInv /\ Inv /\ TurnInv /\ [Next]_vars => TurnInv'
<1> SUFFICES ASSUME TypeInv, Inv, TurnInv, [Next]_vars PROVE TurnInv'
  OBVIOUS
<1>1. CASE Next
  <2>1. Untimed' <=> Untimed
    BY <1>1, PlanStays, SamePlan DEF Untimed
  <2> QED  BY <1>1, <2>1, TurnsStep, StopStep DEF TurnInv
<1>2. CASE UNCHANGED vars
  <2>1. UNCHANGED <<plan, parents, kids, asked, pc, todo>> /\ Tries' = Tries /\ Steps' = Steps
    BY <1>2, SamePlan DEF vars
  <2>2. Live' = Live /\ Cached' = Cached
    BY <2>1 DEF Live, Cached
  <2> QED  BY <2>1, <2>2 DEF TurnInv, Untimed, TurnsInv, StopInv, AllAsked
<1> QED  BY <1>1, <1>2

LEMMA InvInTurn == TypeInv /\ Inv /\ TurnInv => (Untimed => ChildrenInTurn)
<1> SUFFICES ASSUME TypeInv, Inv, TurnInv, Untimed PROVE ChildrenInTurn
  OBVIOUS
<1>0. Steps = 1 .. Len(plan) /\ Len(plan) \in Nat /\ plan \in Seq(Step) /\ TurnsInv
  BY PlanFacts DEF TypeInv, TurnInv
<1>1. ASSUME NEW c \in Tries, kids[c] = "open" PROVE ~Over(plan, kids, c[1])
  <2>1. /\ c = <<c[1], c[2], c[3]>> /\ c[1] \in Steps
        /\ c[2] \in 1 .. plan[c[1]].kids /\ c[3] \in 0 .. plan[c[1]].retries
    BY <1>0, TryFacts
  <2>2. kids[<<c[1], c[2], c[3]>>] = "open"
    BY <1>1, <2>1
  <2> QED  BY <2>1, <2>2, OverFacts DEF Inv
<1>2. StepsInOrder
  <2> SUFFICES ASSUME NEW c \in Tries, NEW d \in Tries, c[1] < d[1], kids[d] # "none",
                      kids[c] = "open"
               PROVE  FALSE
    BY DEF StepsInOrder, Exists
  <2>1. /\ c[1] \in 1 .. Len(plan) /\ Begun(plan, kids, c[1])
        /\ d[1] \in 1 .. Len(plan) /\ Begun(plan, kids, d[1])
    BY OpenBegun
  <2>2. c[1] \in 1 .. d[1] - 1
    BY <1>0, <2>1
  <2>3. Over(plan, kids, c[1]) \/ Spared(plan, kids, c[1])
    BY <1>0, <2>1, <2>2 DEF TurnsInv, Turn
  <2>4. ~Spared(plan, kids, c[1])
    BY <1>0, <2>1 DEF TurnsInv, Turn
  <2> QED  BY <1>1, <2>3, <2>4
<1>3. NoneLeftRunning
  <2> SUFFICES ASSUME Terminal(Live.phase), NEW c \in Tries, kids[c] = "open"
               PROVE  c \in asked
    BY DEF NoneLeftRunning
  <2>1. CASE AllAsked
    BY <2>1 DEF AllAsked
  <2>2. CASE \A i \in 1 .. Len(plan) : Decided(Live.steps[i])
    <3>1. c[1] \in 1 .. Len(plan) /\ Begun(plan, kids, c[1])
      BY OpenBegun
    <3>2. Over(plan, kids, c[1]) \/ Spared(plan, kids, c[1])
      BY <2>2, <3>1, LiveSound, DecidedFacts DEF Inv
    <3>3. ~Spared(plan, kids, c[1])
      BY <1>0, <3>1 DEF TurnsInv, Turn
    <3> QED  BY <1>1, <3>2, <3>3
  <2> QED  BY <2>1, <2>2 DEF TurnInv, StopInv
<1> QED  BY <1>2, <1>3, InvTries DEF ChildrenInTurn

\* reconcileComposite and reconcileAbort: of a plan without step timeouts, the steps run one
\* after another, each child's tries one after another, and when the run has ended every
\* child that still runs has been asked to stop, whatever crashes, faults and old copies.
THEOREM UntimedInTurn == Spec => [](Untimed => ChildrenInTurn)
<1>1. Init => TurnInv
  BY TurnInit
<1>2. TypeInv /\ Inv /\ TurnInv /\ [Next]_vars => TurnInv'
  BY TurnInvStep
<1> QED  BY <1>1, <1>2, Invariance, InvInTurn, PTL DEF Spec
=============================================================================
