------------------------------ MODULE Triggers ------------------------------
(***************************************************************************)
(* TestTriggers: internal/controller/testtrigger_*.go.  The reconciler     *)
(* attaches each trigger to the informer of its kind of resource, counting *)
(* references; the runnable's one goroutine takes informer events, arms a  *)
(* gate per matching (trigger, object), and every GateEvalInterval walks   *)
(* the gates, creating a TestRun for one whose delay is over and whose     *)
(* conditions hold.                                                        *)
(*                                                                         *)
(* Time is counted in evaluation intervals, as the age of a gate, of a     *)
(* condition's last transition and of the last fire, all capped at MaxAge. *)
(* Every trigger fires the same Test.                                      *)
(***************************************************************************)
EXTENDS Integers, FiniteSets, Sequences

CONSTANTS
    Trigs, Kinds, Objects,  \* Objects: [kind, name]
    TriggerSpecs,           \* the specs a trigger may be given
    OutBuffer,              \* outBufferSize
    MaxAge,
    TriggerBudgets

\* edit: a trigger is created, edited or deleted.  object: an object changes.  start: an
\* informer cannot be started.  create: a Create fails; lost: it succeeds and its answer
\* is lost.  crash: the operator restarts.
TriggerKinds == {"edit", "object", "start", "create", "lost", "crash"}

(***************************************************************************)
(* A spec is [resource, event, selects, delay, timeout, ttl, want, policy, *)
(* test]: resource a kind or "unknown", selects the objects its selector   *)
(* accepts, want whether a condition is required and ttl its TTL, policy   *)
(* "forbid" or "allow", test whether testSelector finds a Test.            *)
(***************************************************************************)
ASSUME TriggersAssumption ==
    /\ \A s \in TriggerSpecs :
          /\ s.resource \in Kinds \cup {"unknown"} /\ s.event \in {"created", "modified", "deleted"}
          /\ s.selects \subseteq Objects /\ {s.delay, s.timeout, s.ttl} \subseteq Nat
          /\ s.delay + s.timeout + 1 <= MaxAge /\ s.ttl <= MaxAge
          /\ s.want \in BOOLEAN /\ s.test \in BOOLEAN /\ s.policy \in {"forbid", "allow"}
    /\ IsFiniteSet(Trigs) /\ {"none", "unknown"} \cap Kinds = {}
    /\ OutBuffer \in Nat \ {0} /\ MaxAge \in Nat
    /\ TriggerBudgets \subseteq [TriggerKinds -> Nat]

NoTrigger == [resource |-> "none"]
NoKind == "none"
NoGate == [age |-> -1]
NoObject == [there |-> FALSE, holds |-> FALSE]

VARIABLES
    triggers, trigCache,    \* the TestTriggers, and the operator's cache of them
    requests,               \* the reconciler's queue
    objects,                \* the watched resources: whether it is there and its condition holds
    regs, refs,             \* informerManager.regs; the references of each running informer
    store,                  \* each informer's store: the objects as it last delivered them
    out,                    \* the channel of informer events
    gates,                  \* gateManager.gates
    walk,                   \* the keys Evaluate has still to visit
    active, activeCached,   \* whether the Test has an unfinished run, and in the cache
    lastFired,              \* the triggers whose status has a lastFiredAt
    quiet,                  \* history: the age of the last fire that was not reported as failed
    left                    \* what is left of the bounds

clusterVars  == <<triggers, objects, active>>
informerVars == <<regs, refs, store>>
triggersVars == <<clusterVars, trigCache, requests, informerVars, out, gates, walk, activeCached, lastFired, quiet, left>>

Keys == Trigs \X Objects
Take(kind) == left[kind] > 0 /\ left' = [left EXCEPT ![kind] = @ - 1]
Older(age) == IF age < MaxAge THEN age + 1 ELSE age

TriggersInit ==
    /\ triggers = [t \in Trigs |-> NoTrigger] /\ trigCache = triggers /\ requests = {}
    /\ objects = [o \in Objects |-> NoObject]
    /\ regs = [t \in Trigs |-> NoKind] /\ refs = [k \in Kinds |-> 0]
    /\ store = [o \in Objects |-> NoObject]
    /\ out = <<>> /\ gates = [k \in Keys |-> NoGate] /\ walk = {}
    /\ active = FALSE /\ activeCached = FALSE /\ lastFired = {}
    /\ quiet = [k \in Keys |-> MaxAge]
    /\ left \in TriggerBudgets

-----------------------------------------------------------------------------
(* The reconciler and the informer manager.                                *)

\* resolveGVK: kinds the RESTMapper knows.
Resolved(spec) == IF spec.resource \in Kinds THEN spec.resource ELSE NoKind

\* releaseLocked: the last reference stops the informer, whose store goes with it.
Release(rc, k) == IF k = NoKind THEN rc ELSE [rc EXCEPT ![k] = @ - 1]
StoreOf(st, rc) == [o \in Objects |-> IF rc[o.kind] > 0 THEN st[o] ELSE NoObject]

Unregister(t) ==
    /\ refs' = Release(refs, regs[t])
    /\ regs' = [regs EXCEPT ![t] = NoKind]
    /\ store' = StoreOf(store, refs')

Register(t, k) ==
    /\ refs' = IF regs[t] = k THEN refs ELSE [Release(refs, regs[t]) EXCEPT ![k] = @ + 1]
    /\ regs' = [regs EXCEPT ![t] = k]
    /\ store' = StoreOf(store, refs')

\* Variant: a registration that failed is not tried again.
Forgotten(t) == requests' = requests \ {t}

\* RequeueAfter: the request stays.
Requeued(t) == UNCHANGED requests

\* Register fails when the informer cannot be started: the old registration is gone.
RegisterFails(t, k) ==
    /\ regs[t] # k /\ Release(refs, regs[t])[k] = 0 /\ Take("start")
    /\ Unregister(t) /\ Requeued(t)

\* Reconcile
ReconcileTrigger(t) ==
    /\ t \in requests
    /\ LET k == Resolved(trigCache[t]) IN
         \/ /\ trigCache[t] = NoTrigger
            /\ Unregister(t) /\ requests' = requests \ {t} /\ UNCHANGED left
         \/ /\ trigCache[t] # NoTrigger /\ k # NoKind
            /\ \/ Register(t, k) /\ requests' = requests \ {t} /\ UNCHANGED left
               \/ RegisterFails(t, k)
    /\ UNCHANGED <<clusterVars, trigCache, out, gates, walk, activeCached, lastFired, quiet>>

\* The informer's callbacks and deliver: a difference between the store and the cluster
\* becomes an event.  A full channel blocks the informer.
Deliver(o) ==
    LET kind == CASE ~store[o].there -> "created" [] ~objects[o].there -> "deleted" [] OTHER -> "modified" IN
    /\ refs[o.kind] > 0 /\ store[o] # objects[o] /\ (store[o].there \/ objects[o].there)
    /\ Len(out) < OutBuffer
    /\ out' = Append(out, [kind |-> kind, of |-> o,
                           obj |-> IF kind = "deleted" THEN store[o] ELSE objects[o]])
    /\ store' = [store EXCEPT ![o] = objects[o]]
    /\ UNCHANGED <<clusterVars, trigCache, requests, regs, refs, gates, walk, activeCached, lastFired, quiet, left>>

-----------------------------------------------------------------------------
(* The runnable: handleEvent and Evaluate, in one goroutine.               *)

\* listMatchingTriggers and SelectorMatches
Matches(spec, ev) ==
    spec # NoTrigger /\ Resolved(spec) = ev.of.kind /\ spec.event = ev.kind /\ ev.of \in spec.selects

\* Enqueue: the gate of a newer event replaces the one there is.
\* held: the age of the condition's last transition, which may be long past.
Armed(t, ev, held) == [age |-> 0, spec |-> trigCache[t], obj |-> ev.obj, held |-> held]

HandleEvent ==
    /\ out # <<>> /\ walk = {}
    /\ \E held \in {0, MaxAge} :
          gates' = [k \in Keys |->
                       IF k[2] = Head(out).of /\ Matches(trigCache[k[1]], Head(out))
                       THEN Armed(k[1], Head(out), held) ELSE gates[k]]
    /\ out' = Tail(out)
    /\ UNCHANGED <<clusterVars, trigCache, requests, informerVars, walk, activeCached, lastFired, quiet, left>>

\* ConditionsMet on the object as the event showed it; only its age has moved on.
ConditionsMet(g) == g.spec.want => g.obj.there /\ g.obj.holds /\ g.held >= g.spec.ttl

\* The ticker: a unit of time has passed, and Evaluate starts.
StartEvaluate ==
    /\ walk = {}
    /\ \E k \in Keys : gates[k] # NoGate \/ quiet[k] < MaxAge
    /\ LET aged == [k \in Keys |-> IF gates[k] = NoGate THEN NoGate
                                   ELSE [gates[k] EXCEPT !.age = Older(@), !.held = Older(@)]]
       IN  gates' = aged /\ walk' = {k \in Keys : aged[k] # NoGate}
    /\ quiet' = [k \in Keys |-> Older(quiet[k])]
    /\ UNCHANGED <<clusterVars, trigCache, requests, informerVars, out, activeCached, lastFired, left>>

Visit(k) == k \in walk /\ walk' = walk \ {k}
Gone(k) == gates' = [gates EXCEPT ![k] = NoGate]

\* Variant: the gate stays in the map after it fired.
StillThere(k) == UNCHANGED gates

\* Evaluate's removal of a gate that fired.
Fired(k) == Gone(k)

Ready(k) == gates[k].age >= gates[k].spec.delay /\ ConditionsMet(gates[k])

\* fireTestRun: a Create that succeeds, with the best-effort lastFiredAt.
Fire(k) ==
    /\ Visit(k) /\ Ready(k) /\ gates[k].spec.test
    /\ gates[k].spec.policy = "forbid" => ~activeCached
    /\ Fired(k) /\ active' = TRUE /\ quiet' = [quiet EXCEPT ![k] = 0]
    /\ lastFired' \in {lastFired, IF trigCache[k[1]] = NoTrigger THEN lastFired ELSE lastFired \cup {k[1]}}
    /\ UNCHANGED <<triggers, objects, trigCache, requests, informerVars, out, activeCached, left>>

\* The Create fails, or its answer is lost, or no Test is found: the gate stays.
FireFails(k) ==
    /\ Visit(k) /\ Ready(k)
    /\ \/ ~gates[k].spec.test /\ UNCHANGED <<left, active>>
       \/ /\ gates[k].spec.test /\ (gates[k].spec.policy = "forbid" => ~activeCached)
          /\ \/ Take("create") /\ UNCHANGED active
             \/ Take("lost") /\ active' = TRUE
    /\ UNCHANGED <<triggers, objects, trigCache, requests, informerVars, out, gates, activeCached, lastFired, quiet>>

\* FireSkipped: forbid, with an unfinished run in the cache.
FireSkipped(k) ==
    /\ Visit(k) /\ Ready(k) /\ gates[k].spec.test /\ gates[k].spec.policy = "forbid" /\ activeCached
    /\ Gone(k)
    /\ UNCHANGED <<clusterVars, trigCache, requests, informerVars, out, activeCached, lastFired, quiet, left>>

Overdue(g) == g.spec.timeout > 0 /\ g.age > g.spec.delay + g.spec.timeout

\* Not ready: expired, or left for a later walk.
NotReady(k) ==
    /\ Visit(k) /\ ~Ready(k)
    /\ IF gates[k].age >= gates[k].spec.delay /\ Overdue(gates[k]) THEN Gone(k) ELSE UNCHANGED gates
    /\ UNCHANGED <<clusterVars, trigCache, requests, informerVars, out, activeCached, lastFired, quiet, left>>

-----------------------------------------------------------------------------
(* The cluster and the operator's life.                                    *)

EditTrigger(t) ==
    /\ Take("edit") /\ \E s \in TriggerSpecs \cup {NoTrigger} :
          s # triggers[t] /\ triggers' = [triggers EXCEPT ![t] = s]
    /\ UNCHANGED <<objects, active, trigCache, requests, informerVars, out, gates, walk, activeCached, lastFired, quiet>>

WatchTriggers(t) ==
    /\ trigCache[t] # triggers[t]
    /\ trigCache' = [trigCache EXCEPT ![t] = triggers[t]] /\ requests' = requests \cup {t}
    /\ UNCHANGED <<clusterVars, informerVars, out, gates, walk, activeCached, lastFired, quiet, left>>

WatchRuns ==
    /\ activeCached # active /\ activeCached' = active
    /\ UNCHANGED <<clusterVars, trigCache, requests, informerVars, out, gates, walk, lastFired, quiet, left>>

RunEnds ==
    /\ active /\ active' = FALSE
    /\ UNCHANGED <<triggers, objects, trigCache, requests, informerVars, out, gates, walk, activeCached, lastFired, quiet, left>>

\* An object is created, deleted, or its condition flips.
ChangeObject(o) ==
    /\ Take("object")
    /\ \/ ~objects[o].there /\ \E h \in BOOLEAN : objects' = [objects EXCEPT ![o] = [there |-> TRUE, holds |-> h]]
       \/ objects[o].there /\ objects' = [objects EXCEPT ![o] = NoObject]
       \/ objects[o].there /\ objects' = [objects EXCEPT ![o].holds = ~@]
    /\ UNCHANGED <<triggers, active, trigCache, requests, informerVars, out, gates, walk, activeCached, lastFired, quiet>>

\* The operator restarts: informers, channel and gates were memory.
RestartTriggers ==
    /\ Take("crash")
    /\ trigCache' = triggers /\ requests' = {t \in Trigs : triggers[t] # NoTrigger} /\ activeCached' = active
    /\ regs' = [t \in Trigs |-> NoKind] /\ refs' = [k \in Kinds |-> 0] /\ store' = [o \in Objects |-> NoObject]
    /\ out' = <<>> /\ gates' = [k \in Keys |-> NoGate] /\ walk' = {}
    /\ UNCHANGED <<clusterVars, lastFired, quiet>>

TriggersNext ==
    \/ \E t \in Trigs : ReconcileTrigger(t) \/ EditTrigger(t) \/ WatchTriggers(t)
    \/ \E o \in Objects : Deliver(o) \/ ChangeObject(o)
    \/ HandleEvent \/ StartEvaluate
    \/ \E k \in Keys : Fire(k) \/ FireFails(k) \/ FireSkipped(k) \/ NotReady(k)
    \/ WatchRuns \/ RunEnds \/ RestartTriggers

TriggersSpec == TriggersInit /\ [][TriggersNext]_triggersVars

-----------------------------------------------------------------------------
(* Correctness.                                                            *)

\* An informer runs for a kind exactly while triggers are registered for it, and its count
\* is theirs: none is leaked when a trigger moves, none stopped under another trigger.
RefsMatch == \A k \in Kinds : refs[k] = Cardinality({t \in Trigs : regs[t] = k})

\* A burst of events gives one run: a trigger fires again for an object only after another
\* event, and a whole delay after it, so two fires are at least the delay apart.
FiresAreSpaced ==
    [][\A k \in Keys : quiet'[k] = 0 /\ quiet[k] # 0 => quiet[k] >= gates[k].spec.delay]_triggersVars

\* A gate with a timeout does not wait for ever: it fires, is skipped or expires, as long as
\* its trigger has a Test to fire.
GateSettles ==
    \A k \in Keys :
        gates[k] # NoGate /\ gates[k].spec.timeout > 0 /\ gates[k].spec.test ~> gates[k] = NoGate

\* Registrations follow the triggers: a deleted one holds no informer, a live one with a
\* known resource ends up attached to that kind, also after failed starts and restarts.
RegistrationFollows ==
    <>[](\A t \in Trigs :
            regs[t] = (IF triggers[t] = NoTrigger THEN NoKind
                       ELSE IF Resolved(triggers[t]) = NoKind THEN regs[t] ELSE Resolved(triggers[t])))

\* Gates keep time, from both sides.
GatesKeepTime == FiresAreSpaced /\ GateSettles

\* Informers follow the triggers, at every moment and in the end.
WatchesFollow == []RefsMatch /\ RegistrationFollows

TriggersFairness ==
    /\ WF_triggersVars(StartEvaluate)
    /\ \A k \in Keys : WF_triggersVars(Fire(k) \/ FireFails(k) \/ FireSkipped(k) \/ NotReady(k))
    /\ \A t \in Trigs : WF_triggersVars(ReconcileTrigger(t)) /\ WF_triggersVars(WatchTriggers(t))
=============================================================================
