----------------------------- MODULE MCComposer -----------------------------
(* Every input of the composer up to a bound, each as one state.           *)
EXTENDS Composer, FiniteSets

CONSTANTS
    MaxChildren,    \* children of a step
    MaxSteps,       \* steps of a plan
    MaxRefs,        \* Tests that the steps of one Test name
    Tests           \* the names a graph may use; the root is one of them
CONSTANT Root
ASSUME InputAssumption == {MaxChildren, MaxSteps, MaxRefs} \subseteq Nat /\ Root \in Tests

VARIABLE input
None == [kind |-> "none"]
Init == input = None

SeqsUpTo(S, n) == UNION {[1 .. k -> S] : k \in 0 .. n}

PickStep ==
    /\ input = None
    /\ \E c \in SeqsUpTo(Verdict, MaxChildren), n \in BOOLEAN :
         input' = [kind |-> "step", children |-> c, negative |-> n]
PickPlan ==
    /\ input = None
    /\ \E k \in 0 .. MaxSteps : \E v \in [1 .. k -> Verdict \cup {""}], o \in [1 .. k -> BOOLEAN] :
         input' = [kind |-> "plan", verdicts |-> v, optional |-> o]
\* Any graph whose Tests exist or not, and whose root exists.
PickGraph ==
    /\ input = None
    /\ \E exist \in {e \in SUBSET Tests : Root \in e} : \E refs \in [exist -> SeqsUpTo(Tests, MaxRefs)] :
         input' = [kind |-> "graph", refs |-> refs]
Next == PickStep \/ PickPlan \/ PickGraph
Spec == Init /\ [][Next]_input

\* Aggregate: a step passes exactly when it has children and each did what the step
\* expects of it; an infrastructure error or an abort is never taken for a failure.
AggregateSound ==
    input.kind = "step" =>
      LET c == input.children
          v == Aggregate(c, input.negative)
          good == IF input.negative THEN "failed" ELSE "passed"
      IN  /\ v = "passed" <=> c # <<>> /\ \A i \in DOMAIN c : c[i] = good
          /\ v \in {"aborted", "error"} <=> \E i \in DOMAIN c : c[i] \in {"aborted", "error"}

\* ChildNeedsRetry: a child is tried again exactly when it alone would keep the step from
\* passing and nobody stopped it.
RetryWhatFails ==
    input.kind = "step" => \A i \in DOMAIN input.children :
      ChildNeedsRetry(input.children[i], input.negative)
        <=> Aggregate(<<input.children[i]>>, input.negative) \in {"failed", "error"}

\* The reconciler's shouldSkip and the composer's ShouldRunNext, written and tested apart,
\* agree: a step is skipped exactly when some earlier step that ran says not to go on.
SkipAgrees ==
    input.kind = "plan" => \A always \in BOOLEAN :
      ShouldSkip(input.verdicts, input.optional, always)
        <=> \E i \in DOMAIN input.verdicts :
              input.verdicts[i] # "" /\ ~ShouldRunNext(input.verdicts[i], input.optional[i], always)

\* ParentPhase: a run passes exactly when every step that ran and is not optional passed,
\* and fails only if such a step failed and none was aborted or broke.
ParentSound ==
    input.kind = "plan" =>
      LET counted == {input.verdicts[i] : i \in {j \in DOMAIN input.verdicts : ~input.optional[j]}}
          phase == ParentPhase(input.verdicts, input.optional)
      IN  /\ phase = "passed" <=> counted \subseteq {"passed", ""}
          /\ phase = "failed" <=> "failed" \in counted /\ counted \cap {"aborted", "error"} = {}

\* ResolveGraph: every composition that would never end, or nests too deep, is refused,
\* and only those.  One never ends where from each Test of some set, the root among them, a
\* step leads to a Test of the set.
GraphSound ==
    input.kind = "graph" =>
      LET refs == input.refs
          names(t, u) == \E i \in DOMAIN refs[t] : refs[t][i] = u
          looping == \E S \in SUBSET DOMAIN refs : Root \in S /\ \A t \in S : \E u \in S : names(t, u)
          deep == \E p \in [0 .. MaxDepth + 1 -> DOMAIN refs] :
                    p[0] = Root /\ \A i \in 0 .. MaxDepth : names(p[i], p[i + 1])
          verdict == ResolveGraph(Root, refs)
      IN  /\ verdict = "ok" <=> ~looping /\ ~deep
          /\ verdict = "cycle" => looping
          /\ verdict = "depth" => deep

=============================================================================
