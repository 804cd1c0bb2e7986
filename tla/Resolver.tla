------------------------------ MODULE Resolver ------------------------------
(***************************************************************************)
(* From a Test and its templates to the spec a run executes:               *)
(* internal/resolver (merging, content, main path, configuration) and      *)
(* pkg/expr (expressions). A spec maps each field to its value; the        *)
(* fields that the code merges alike are treated alike.                    *)
(*                                                                         *)
(* A text is a sequence of tokens: literals, references {{ns.key}}, and    *)
(* quoted references, which spell a reference with the escape hatch. A     *)
(* field that is a list of texts is one text here.                         *)
(***************************************************************************)
EXTENDS Integers, Sequences, SequencesExt

CONSTANTS
    Unset,          \* a field nobody set
    ParamOrder      \* the parameter names, sorted
ASSUME UnsetAssumption == Unset \notin {<<>>, ""}

\* Filled by the first template that sets them; the Test wins.
FillFields ==
    {"image", "imagePullPolicy", "workingDir", "command", "args", "securityContext",
     "requests", "limits", "artifacts", "timeout", "retry", "services", "parallel",
     "metrics", "liveView", "verdict", "serviceAccountName", "affinity", "podSecurityContext"}
\* Merged key by key.
KeyedFields == {"labels", "annotations", "nodeSelector"}
\* Appended, the Test's too.
JoinedFields == {"env", "envFrom", "volumeMounts", "testData"}
\* Appended, but the Test's replace the templates'.
ReplacedFields == {"files", "tarball", "tolerations", "volumes", "imagePullSecrets"}
\* No template has them.
TestFields == {"concurrencyPolicy", "schedule", "use", "steps"}
Fields == FillFields \cup KeyedFields \cup JoinedFields \cup ReplacedFields \cup TestFields
            \cup {"git", "config"}

Blank == [f \in Fields |-> IF f \in FillFields \cup TestFields \cup {"git"} THEN Unset ELSE <<>>]

Or(v, w) == IF v = Unset THEN w ELSE v

\* f, and g where f says nothing; TLC's @@ and :> are opaque to the prover.
f ++ g == [x \in DOMAIN f \cup DOMAIN g |-> IF x \in DOMAIN f THEN f[x] ELSE g[x]]
Only(a, b) == [x \in {a} |-> b]

-----------------------------------------------------------------------------
(* Merging.                                                                *)

FirstSet(vs) ==
    LET set == SelectSeq(vs, LAMBDA v : v # Unset) IN IF set = <<>> THEN Unset ELSE Head(set)

\* mergeTemplateInto for each template in order: what is set stays, lists grow, and only
\* the git source is replaced by a later one.
MergeTemplatesInto(specs) ==
    LET of(f) == [i \in DOMAIN specs |-> specs[i][f]]
    IN  [f \in Fields |->
           CASE f \in FillFields -> FirstSet(of(f))
             [] f \in KeyedFields \cup {"config"} -> FoldLeft(LAMBDA m, n : m ++ n, <<>>, of(f))
             [] f \in JoinedFields \cup ReplacedFields -> FlattenSeq(of(f))
             [] f = "git" -> FirstSet(Reverse(of(f)))
             [] OTHER -> Blank[f]]

\* A parameter the Test declares again stays the main path its template made it.
Redeclared(declared, own) ==
    [k \in DOMAIN own |->
       IF k \in DOMAIN declared /\ own[k].path = ""
       THEN [own[k] EXCEPT !.path = declared[k].path] ELSE own[k]] ++ declared

MergeTest(dst, s) ==
    [f \in Fields |->
       CASE f \in KeyedFields -> s[f] ++ dst[f]
         [] f \in JoinedFields -> dst[f] \o s[f]
         [] f \in ReplacedFields -> IF s[f] = <<>> THEN dst[f] ELSE s[f]
         [] f = "config" -> Redeclared(dst[f], s[f])
         [] OTHER -> Or(s[f], dst[f])]

\* The parameter that says where the Test's files are, or Unset.
MainPathParam(config) ==
    LET marked == SelectSeq(ParamOrder, LAMBDA k : k \in DOMAIN config /\ config[k].path # "")
    IN  IF marked = <<>> THEN Unset ELSE marked[1]

InlineCode(spec) == spec.git = Unset /\ spec.files # <<>>

\* Inline code names no path: the main file is the first one.
BindInlineMainFile(spec) ==
    LET k == MainPathParam(spec.config) IN
    IF /\ k # Unset /\ spec.config[k].path = "file" /\ InlineCode(spec)
       /\ spec.config[k].default = Unset
    THEN [spec EXCEPT !.config[k].default = spec.files[1].path]
    ELSE spec

Uses(test) == IF test.use = Unset THEN <<>> ELSE test.use

\* store maps the templates that exist to their specs.
TemplateMissing(test, store) == Range(Uses(test)) \ DOMAIN store # {}

MergeTemplates(test, store) ==
    LET base == MergeTemplatesInto([i \in DOMAIN Uses(test) |-> store[Uses(test)[i]]])
        merged == MergeTest(base, test)
    IN  BindInlineMainFile(merged)

\* What is wrong with where the code comes from, or "".
CheckContent(spec) ==
    LET k == MainPathParam(spec.config)
        sources == {f \in {"git", "files", "tarball"} : spec[f] \notin {Unset, <<>>}}
    IN  IF \E f, g \in sources : f # g THEN "ContentConflict"
        ELSE IF k # Unset /\ spec.config[k].path = "directory" /\ InlineCode(spec) THEN "InlineNotSupported"
        ELSE ""

\* Variant: it is for the run to find out.
NeverMissing(spec) == FALSE

MissingMainPath(spec) ==
    LET k == MainPathParam(spec.config) IN k # Unset /\ spec.config[k].default = Unset

ValidateResolved(spec) ==
    \/ spec.steps # Unset
    \/ spec.image # Unset /\ (spec.command # Unset \/ spec.args # Unset)

-----------------------------------------------------------------------------
(* Expressions.                                                            *)

Lit(x) == [kind |-> "lit", text |-> x]
Ref(ns, key) == [kind |-> "ref", ns |-> ns, key |-> key]
Quoted(ns, key) == [kind |-> "quoted", ns |-> ns, key |-> key]

WorkerSpaces == {"worker", "matrix", "shard"}

\* scope.values gives the values of references by name; scope.deferred are the worker
\* references of a parallel Test.
Known(token, scope) ==
    token.kind = "ref" => <<token.ns, token.key>> \in DOMAIN scope.values \cup scope.deferred

ResolveRef(token, scope) ==
    CASE token.kind = "lit" -> <<token>>
      [] token.kind = "quoted" -> <<Ref(token.ns, token.key)>>
      [] token.kind = "ref" /\ <<token.ns, token.key>> \in scope.deferred -> <<token>>
      [] OTHER -> scope.values[<<token.ns, token.key>>]

Evaluable(text, scope) == \A i \in DOMAIN text : Known(text[i], scope)

EvalOnce(text, scope) == FlattenSeq([i \in DOMAIN text |-> ResolveRef(text[i], scope)])

\* Variant: the output is evaluated again when it can be.
EvalTwice(text, scope) ==
    LET once == EvalOnce(text, scope)
    IN  IF Evaluable(once, scope) THEN EvalOnce(once, scope) ELSE once

\* One pass: what a value brings in is not looked at again.
Eval(text, scope) == EvalOnce(text, scope)

\* worker gives the values of a worker's references by name.
WorkerRef(token, worker) ==
    IF token.kind # "ref" \/ token.ns \notin WorkerSpaces THEN <<token>>
    ELSE IF <<token.ns, token.key>> \in DOMAIN worker THEN worker[<<token.ns, token.key>>]
    ELSE IF token.ns = "worker" THEN worker[<<"worker", "count">>]
    ELSE <<>>

\* Every worker reference in an evaluated text, wherever it came from.
SubstituteWorker(text, worker) ==
    FlattenSeq([i \in DOMAIN text |-> WorkerRef(text[i], worker)])

-----------------------------------------------------------------------------
(* Configuration. A parameter has a default, a type, an enum (empty: any)  *)
(* and a path kind.                                                        *)

\* The value in canonical form, Unset if the parameter refuses it.
CoerceParam(p, v) ==
    LET typed == CASE p.type = "boolean" /\ v \in {<<Lit("1")>>, <<Lit("true")>>} -> <<Lit("true")>>
                   [] p.type = "boolean" /\ v \in {<<Lit("0")>>, <<Lit("false")>>} -> <<Lit("false")>>
                   [] p.type = "integer" /\ v \in {<<Lit("0")>>, <<Lit("1")>>} -> v
                   [] p.type = "string" -> v
                   [] OTHER -> Unset
    IN  IF p.enum # {} /\ typed \notin p.enum THEN Unset ELSE typed

Chosen(declared, overrides, k) == IF k \in DOMAIN overrides THEN overrides[k] ELSE declared[k].default

ConfigError(declared, overrides) ==
    LET unfit == {k \in DOMAIN declared : \/ Chosen(declared, overrides, k) = Unset
                                          \/ CoerceParam(declared[k], Chosen(declared, overrides, k)) = Unset}
    IN  IF ~(DOMAIN overrides \subseteq DOMAIN declared) THEN "InvalidConfig"
        ELSE IF unfit # {} THEN "BadConfig" ELSE ""

ResolveConfig(declared, overrides) ==
    [k \in DOMAIN declared |-> CoerceParam(declared[k], Chosen(declared, overrides, k))]

-----------------------------------------------------------------------------
(* Resolve. env is the environment the operator exposes, by name.          *)

TextFields == {"command", "args", "workingDir"}

\* The texts of a spec that are evaluated, artifacts being [paths, report]; the image is not one of them.
Texts(spec) ==
    {spec[f] : f \in {g \in TextFields : spec[g] # Unset}}
      \cup UNION {Range(spec[f]) : f \in {"labels", "annotations"}}
      \cup {spec.env[i].value : i \in DOMAIN spec.env}
      \cup (IF spec.artifacts = Unset THEN {} ELSE {spec.artifacts.paths, spec.artifacts.report})
      \cup (IF spec.services = Unset THEN {} ELSE {spec.services[s].args : s \in DOMAIN spec.services})

Scope(spec, config, env, run, test) ==
    LET named(ns, vals) == [p \in {<<ns, k>> : k \in DOMAIN vals} |-> vals[p[2]]]
        services == IF spec.services = Unset THEN <<>>
                    ELSE [s \in DOMAIN spec.services |-> <<Lit(<<run, s>>)>>]
        p == spec.parallel
    IN  [values |-> named("config", config) ++ named("env", env) ++ named("services", services)
                      ++ Only(<<"run", "id">>, <<Lit(run)>>) ++ Only(<<"test", "name">>, <<Lit(test)>>),
         deferred |-> IF p = Unset THEN {}
                      ELSE {<<"worker", "index">>, <<"worker", "count">>}
                             \cup {<<"matrix", k>> : k \in DOMAIN p.matrix}
                             \cup {<<"shard", k>> : k \in DOMAIN p.shards}]

EvalStringsInSpec(spec, scope) ==
    [f \in TextFields |-> IF spec[f] = Unset THEN Unset ELSE Eval(spec[f], scope)]
      ++ [f \in {"labels", "annotations"} |-> [k \in DOMAIN spec[f] |-> Eval(spec[f][k], scope)]]
      ++ [env |-> [i \in DOMAIN spec.env |-> [spec.env[i] EXCEPT !.value = Eval(@, scope)]],
          artifacts |-> IF spec.artifacts = Unset THEN Unset
                        ELSE [spec.artifacts EXCEPT !.paths = Eval(@, scope), !.report = Eval(@, scope)],
          services |-> IF spec.services = Unset THEN Unset
                       ELSE [s \in DOMAIN spec.services |-> [spec.services[s] EXCEPT !.args = Eval(@, scope)]]]
      ++ spec

\* Why a run of test with these overrides cannot be resolved, or "".
ResolveError(test, overrides, store, env) ==
    IF TemplateMissing(test, store) THEN "TemplateMissing"
    ELSE LET merged == MergeTemplates(test, store)
             config == ResolveConfig(merged.config, overrides)
             scope == Scope(merged, config, env, "run", "test")
         IN  IF CheckContent(merged) # "" THEN CheckContent(merged)
             ELSE IF ConfigError(merged.config, overrides) # "" THEN ConfigError(merged.config, overrides)
             ELSE IF \E t \in Texts(merged) : ~Evaluable(t, scope) THEN "BadReference"
             ELSE IF ~ValidateResolved(merged) THEN "NothingToRun" ELSE ""

Resolve(test, overrides, store, env) ==
    LET merged == MergeTemplates(test, store)
    IN  EvalStringsInSpec(merged, Scope(merged, ResolveConfig(merged.config, overrides), env, "run", "test"))
=============================================================================
