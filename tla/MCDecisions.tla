----------------------------- MODULE MCDecisions -----------------------------
(* The pure decisions, each input up to a bound as one state, and the        *)
(* definitions of a Test being edited.                                       *)
EXTENDS MCComposer, Definitions

CONSTANTS
    MaxTokens,      \* tokens of a text
    MaxValues,      \* values of a matrix key or of a shard list, and workers asked for
    MatrixKeys,     \* keys of a matrix
    ShardKeys,      \* keys of shard lists
    ConfigTexts     \* the values a parameter may have in PickText
ASSUME BoundAssumption == {MaxTokens, MaxValues} \subseteq Nat
ASSUME TextAssumption == \A v \in ConfigTexts : v \in Seq(Range(v))

With(fields) == fields ++ Blank
Words(w) == <<Lit(w)>>
Param(path, default) == [type |-> "string", enum |-> {}, path |-> path, default |-> default]
Script(default) == [script |-> Param("", default)]
RunId(w) == Only("run-id", Words(w))

Files == <<[path |-> Words("load.js"), from |-> FALSE]>>
Data(name, at) == [name |-> name, kind |-> "configMap", at |-> at, items |-> <<>>]
Service == [image |-> "db", count |-> 2, matrix |-> <<>>, args |-> <<Ref("run", "id")>>]
Shards(n) == [count |-> Unset, maxCount |-> Unset, matrix |-> <<>>,
              shards |-> [spec |-> [i \in 1 .. n |-> i]]]

\* The last two are refused.
MCTests ==
    [alone |-> With([image |-> "k6", args |-> Words("go"), testData |-> <<Data("users", Unset)>>,
                     use |-> <<"more">>, serviceAccountName |-> "ci"]),
     inline |-> With([use |-> <<"base">>, files |-> Files]),
     git |-> With([use |-> <<"base", "more">>, git |-> "repo"]),
     redeclared |-> With([use |-> <<"more", "base">>, git |-> "repo", config |-> Script(Words("main.js"))]),
     composite |-> With([steps |-> <<[tests |-> <<"t">>, condition |-> "", retry |-> Unset]>>]),
     parallel |-> With([use |-> <<"base", "more">>, parallel |-> Shards(3), services |-> [db |-> Service],
                        testData |-> <<Data("users", Unset)>>,
                        artifacts |-> [paths |-> <<Ref("worker", "index")>>,
                                       report |-> <<Ref("worker", "index")>>],
                        config |-> Script(Words("main.js")),
                        env |-> <<[name |-> "PART", value |-> <<Ref("shard", "spec")>>]>>,
                        labels |-> RunId("mine") ++ [team |-> Words("qa")]]),
     account |-> With([image |-> "k6", args |-> Words("go"), serviceAccountName |-> "root"]),
     clash |-> With([image |-> "k6", args |-> Words("go"),
                     testData |-> <<Data("users", Unset), Data("other", Append(TestDataDir, "users"))>>])]

MCTemplates ==
    LET base(kind) == With([image |-> "tool", args |-> <<Lit("run"), Ref("config", "script")>>,
                            config |-> [script |-> Param(kind, Unset)]])
    IN  [base |-> [file |-> base("file"), directory |-> base("directory"),
                   account |-> [serviceAccountName |-> "root"] ++ base("file")],
         more |-> [files |-> With([files |-> Files, labels |-> [team |-> Words("ops")]]),
                   data |-> With([testData |-> <<Data("users", Unset)>>, labels |-> RunId("x")]),
                   privileged |-> With([securityContext |-> [privileged |-> TRUE, add |-> {}]])]]

MCConfigs == {<<>>, [script |-> Words("other.js")], [nope |-> Words("x")]}
MCPods == {<<>>, [serviceAccountName |-> "ci"], [serviceAccountName |-> "root"],
           [volumes |-> <<[kind |-> "secret", source |-> "keys"]>>, labels |-> RunId("y")],
           [volumes |-> <<[kind |-> "hostPath", source |-> Unset]>>]}
MCEnv == [STAGE |-> Words("dev")]
MCParamOrder == <<"a", "b", "script">>
MCKeyOrder == <<"os", "spec">>

\* One Test and its one template, written, deleted and written again.
StaleTests == [git |-> [MCTests.git EXCEPT !.use = <<"base">>, !.config = Script(Words("main.js"))]]
StaleTemplates == [base |-> [file |-> MCTemplates.base.file]]

-----------------------------------------------------------------------------
(* Expressions and parallel specs.                                         *)

\* Values that spell references of their own, to the configuration and to a worker.
SpellingTexts == {Words("v"), <<Ref("config", "b")>>, <<Ref("worker", "index")>>}

Tokens == {Lit("x"), Ref("config", "a"), Ref("config", "b"), Quoted("config", "a"),
           Ref("worker", "index"), Ref("shard", "spec"), Ref("confg", "a")}
PickText ==
    /\ input = None
    /\ \E t \in SeqsUpTo(Tokens, MaxTokens), a, b \in ConfigTexts, parallel \in BOOLEAN :
         input' = [kind |-> "text", text |-> t, parallel |-> parallel,
                   config |-> [a |-> a, b |-> b]]

\* The values of a list are the numbers of their places.
Lists(keys) == UNION {[K -> {[i \in 1 .. n |-> i] : n \in 0 .. MaxValues}] : K \in SUBSET keys}
Counts == {Unset} \cup 1 .. MaxValues
ParallelSpecs == [count : Counts, maxCount : Counts, matrix : Lists(MatrixKeys), shards : Lists(ShardKeys)]
ASSUME SpecAssumption == Unset \notin ParallelSpecs \cup {Shards(2)}
PickParallel ==
    /\ input = None
    /\ \E p \in ParallelSpecs : input' = [kind |-> "parallel", spec |-> p]

\* Either an input is picked or the definitions live.
MCInit == Init /\ DefInit
MCNext ==
    \/ input = None /\ DefNext /\ UNCHANGED input
    \/ /\ test = "composite" /\ tmpl = <<>> /\ edits = 0 /\ run.phase = "none" /\ queued
       /\ Next \/ PickText \/ PickParallel
       /\ UNCHANGED dvars
MCSpec == MCInit /\ [][MCNext]_<<input, dvars>> /\ DefFairness

\* Composition: which graphs are accepted, what outcomes make of a step, which child is
\* tried again, which step is skipped and what the run's verdict is (composer, shouldSkip).
CompositionSound == GraphSound /\ AggregateSound /\ RetryWhatFails /\ SkipAgrees /\ ParentSound

-----------------------------------------------------------------------------
\* The rendering of a text in one pass, with a worker's references in scope: each token is
\* replaced once by what it names.
Render(text, scope, worker) ==
    FlattenSeq([i \in DOMAIN text |->
      CASE text[i].kind = "lit" -> <<text[i]>>
        [] text[i].kind = "quoted" -> <<Ref(text[i].ns, text[i].key)>>
        [] OTHER -> (scope.values ++ worker)[<<text[i].ns, text[i].key>>]])

\* What comes out of a text for a worker (none: <<>>): Eval at setup, and for a parallel
\* Test SubstituteWorker when its Job is compiled.
Landed(text, scope, worker) ==
    IF worker = <<>> THEN Eval(text, scope) ELSE SubstituteWorker(Eval(text, scope), worker)

TextSpec == IF input.parallel THEN [Blank EXCEPT !.parallel = Shards(2)] ELSE Blank
TextScope == Scope(TextSpec, input.config, <<>>, "run", "test")

\* The two evaluations, at setup and at the Job, come to one rendering with every reference
\* in scope, in which only worker references are looked for again: whatever a value spells,
\* no reference to the configuration, the environment or the run comes of it, and without
\* workers it lands as it is (expr.Eval, SubstituteWorker).
ValuesReadOnce ==
    input.kind = "text" => (Evaluable(input.text, TextScope) =>
      \A i \in DOMAIN WorkersOf(TextSpec) :
        LET w == WorkersOf(TextSpec)[i]
            once == Render(input.text, TextScope, w)
        IN  Landed(input.text, TextScope, w) = IF w = <<>> THEN once ELSE SubstituteWorker(once, w))

\* expr.go: "a config value that HAPPENS to contain `{{ ... }}` text must land verbatim,
\* never re-evaluated".  It does not hold of a parallel Test: a worker reference that a
\* value spells is filled when the worker's Job is compiled.
ValuesLandVerbatim ==
    input.kind = "text" => (Evaluable(input.text, TextScope) =>
      \A i \in DOMAIN WorkersOf(TextSpec) :
        LET w == WorkersOf(TextSpec)[i]
        IN  Landed(input.text, TextScope, w) = Render(input.text, TextScope, w))

\* The parts of a list that the workers of one combination get hold all of it, in order and
\* nothing twice, none much larger than another; the webhook counted the workers right, and
\* they are numbered (ParallelWorkers against validateParallel).
WorkersCoverLists ==
    input.kind = "parallel" /\ ValidParallel(input.spec) =>
      LET p == input.spec
          ws == ParallelWorkers(p)
          cs == Combos(p.matrix)
      IN  /\ Len(ws) = RequestedWorkers(p)
          /\ \A i \in DOMAIN ws : ws[i].index = i - 1 /\ ws[i].count = Len(ws)
          /\ \A c \in DOMAIN cs, k \in DOMAIN p.shards :
               LET mine == {i \in DOMAIN ws : ws[i].matrix = cs[c]}
                   part(i) == ws[i].shard[k]
               IN  /\ UNION {Range(part(i)) : i \in mine} = Range(p.shards[k])
                   /\ \A i, j \in mine : \A x \in DOMAIN part(i), y \in DOMAIN part(j) :
                        i < j \/ (i = j /\ x < y) => part(i)[x] < part(j)[y]
                   /\ \A i, j \in mine : Len(part(i)) <= Len(part(j)) + 1
=============================================================================
