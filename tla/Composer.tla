------------------------------ MODULE Composer ------------------------------
(***************************************************************************)
(* The pure decisions of composition, internal/composer/aggregate.go and   *)
(* shouldSkip of internal/controller/composite.go: what the outcomes of a  *)
(* step's children make of the step, what the steps make of their run,     *)
(* which steps are skipped, and which execute graphs are refused.          *)
(***************************************************************************)
EXTENDS Integers, Sequences

CONSTANT MaxDepth       \* how deep compositions may nest
ASSUME DepthAssumption == MaxDepth \in Nat

\* The verdict of a child, a step or a run; "" stands for a skipped step's nil.
Verdict == {"passed", "failed", "error", "aborted"}

\* The first element of s in S, or else d.
FirstIn(s, S, d) ==
    IF \E i \in DOMAIN s : s[i] \in S
    THEN s[CHOOSE i \in DOMAIN s : s[i] \in S /\ \A j \in 1 .. i - 1 : s[j] \notin S]
    ELSE d

\* Variant: negative is forgotten.
JudgedPlain(phase, negative) == phase

\* A negative step expects its children to fail.
Judged(phase, negative) ==
    CASE negative /\ phase = "passed" -> "failed"
      [] negative /\ phase = "failed" -> "passed"
      [] OTHER -> phase

\* Variant: errors are inverted along with failures.
AggregateAnyFailure(children, negative) ==
    IF \E i \in DOMAIN children : (children[i] = "passed") = negative THEN "failed" ELSE "passed"

\* The first aborted or errored child decides, before any failure.
Aggregate(children, negative) ==
    IF children = <<>> THEN "failed"
    ELSE FirstIn(children, {"aborted", "error"},
                 IF \E i \in DOMAIN children : Judged(children[i], negative) = "failed"
                 THEN "failed" ELSE "passed")

ChildNeedsRetry(phase, negative) ==
    phase = "error" \/ phase = (IF negative THEN "passed" ELSE "failed")

ShouldRunNext(prior, priorOptional, always) ==
    always \/ prior = "passed" \/ (priorOptional /\ prior = "failed")

\* prior are the verdicts of all steps before the current one.
ShouldSkip(prior, optional, always) ==
    /\ ~always
    /\ \E i \in DOMAIN prior : /\ prior[i] \in {"failed", "aborted", "error"}
                               /\ ~(optional[i] /\ prior[i] = "failed")

\* The first aborted or errored step that is not optional decides, before any failure.
ParentPhase(verdicts, optional) ==
    LET counted == [i \in DOMAIN verdicts |-> IF optional[i] THEN "" ELSE verdicts[i]]
    IN  FirstIn(counted, {"aborted", "error"}, FirstIn(counted, {"failed"}, "passed"))

-----------------------------------------------------------------------------
(* The execute graph: refs[t] are the Tests that the steps of Test t name, *)
(* in order; a name without a Test is not in its domain.                   *)

\* lookup: a name without a Test is left for the run to find out.
Visit(refs, deeper, name, visiting) ==
    IF name \in DOMAIN refs THEN deeper[name][visiting] ELSE "ok"

\* A call of walk, given what the calls one level deeper return.
WalkFrom(refs, deeper) ==
    [name \in DOMAIN refs |-> [visiting \in SUBSET DOMAIN refs |->
       IF name \in visiting THEN "cycle"
       ELSE FirstIn([i \in DOMAIN refs[name] |-> Visit(refs, deeper, refs[name][i], visiting \cup {name})],
                    {"depth", "cycle"}, "ok")]]

\* walk, at depth MaxDepth + 1 - fuel and with the path's Tests in visiting.
Walk(refs) ==
    LET w[fuel \in 0 .. MaxDepth + 1] ==
        IF fuel = 0 THEN [name \in DOMAIN refs |-> [visiting \in SUBSET DOMAIN refs |-> "depth"]]
        ELSE WalkFrom(refs, w[fuel - 1])
    IN  w

ResolveGraph(root, refs) == Walk(refs)[MaxDepth + 1][root][{}]
=============================================================================
