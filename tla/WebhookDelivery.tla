--------------------------- MODULE WebhookDelivery ---------------------------
(***************************************************************************)
(* Outbound webhooks: dispatchWebhooks of the TestRun reconciler, and the  *)
(* dispatcher of internal/webhookdelivery with its queue and workers.      *)
(*                                                                         *)
(* A reconciler ends a run (EndRun is the status write) and announces it   *)
(* to the Webhooks of the namespace whose filter has the phase; Enqueue    *)
(* never blocks.  The three selects of Enqueue are steps of their own, and *)
(* the workers take jobs between them.                                     *)
(***************************************************************************)
EXTENDS Naturals, Sequences, FiniteSets

CONSTANTS
    Runs,           \* [name, uid]: a name may be used again
    Phases,
    Hooks,          \* [name, events, maxRetries, secret]; events = {} accepts every phase
    Reconcilers,    \* MaxConcurrentReconciles of them
    QueueBuffer, WorkerCount,
    DeliveryBudgets

\* fail: an attempt meets a network error, a timeout or a 5xx.  reject: a 4xx.  secret: a
\* Secret cannot be read.  list: the Webhooks cannot be listed.  crash: the operator dies.
\* direct: a run ends in transitionTerminal alone, before its Job or as a composite.
DeliveryKinds == {"fail", "reject", "secret", "list", "crash", "direct"}

ASSUME DeliveryAssumption ==
    /\ QueueBuffer \in Nat \ {0} /\ WorkerCount \in Nat \ {0} /\ "" \notin Phases
    /\ \A h \in Hooks : h.events \subseteq Phases /\ h.maxRetries \in Nat /\ h.secret \in BOOLEAN
    /\ DeliveryBudgets \subseteq [DeliveryKinds -> Nat]

VARIABLES
    phase,          \* each run's terminal phase, or ""
    dispatched,     \* dispatchedRuns: the keys (name, phase) announced in this operator's life
    announcing,     \* what each reconciler is doing
    queue,          \* the jobs channel
    worker,         \* what each worker of the pool is delivering
    accepted,       \* history: the jobs whose Enqueue has returned
    dropped,        \* history: the jobs dropped from a full queue, and those refused by it
    tries,          \* history: the attempts made of a job
    outcome,        \* history: the outcome of a job, or ""
    lost,           \* history: the jobs that a crash or a failed list took, made or not
    due             \* what is left of the bounds

deliveryVars == <<phase, dispatched, announcing, queue, worker, accepted, dropped, tries, outcome, lost, due>>

Jobs == Runs \X Hooks
Free == [step |-> "free"]
NoDelivery == [job |-> <<>>]
Pool == 1 .. WorkerCount
Pay(kind) == due[kind] > 0 /\ due' = [due EXCEPT ![kind] = @ - 1]

Init ==
    /\ phase = [r \in Runs |-> ""] /\ dispatched = {}
    /\ announcing = [p \in Reconcilers |-> Free]
    /\ queue = <<>> /\ worker = [i \in Pool |-> NoDelivery]
    /\ accepted = {} /\ dropped = {} /\ tries = [j \in Jobs |-> 0] /\ outcome = [j \in Jobs |-> ""]
    /\ lost = {} /\ due \in DeliveryBudgets

-----------------------------------------------------------------------------
(* The reconciler.                                                         *)

\* terminalAndDeleteJob after its status write, or transitionTerminal alone.  A name is
\* used again only when its run is over.
EndRun(p, r, ph) ==
    /\ announcing[p] = Free /\ phase[r] = ""
    /\ \A q \in Runs : q.name = r.name /\ q.uid < r.uid => phase[q] # ""
    /\ phase' = [phase EXCEPT ![r] = ph]
    /\ \/ announcing' = [announcing EXCEPT ![p] = [step |-> "list", run |-> r]] /\ UNCHANGED due
       \/ Pay("direct") /\ UNCHANGED announcing
    /\ UNCHANGED <<dispatched, queue, worker, accepted, dropped, tries, outcome, lost>>

DedupKey(r) == <<r.name, phase[r]>>
EventMatches(h, ph) == h.events = {} \/ ph \in h.events

\* dispatchWebhooks: the dedup, the list, the payload built once for all of them.
DispatchWebhooks(p) ==
    LET r == announcing[p].run IN
    /\ announcing[p].step = "list"
    /\ \/ /\ DedupKey(r) \in dispatched
          /\ announcing' = [announcing EXCEPT ![p] = Free] /\ UNCHANGED <<lost, due>>
       \/ /\ DedupKey(r) \notin dispatched
          /\ announcing' = [announcing EXCEPT ![p] =
                 [step |-> "send", run |-> r, hooks |-> {h \in Hooks : EventMatches(h, phase[r])}]]
          /\ UNCHANGED <<lost, due>>
       \/ /\ DedupKey(r) \notin dispatched /\ Pay("list")
          /\ announcing' = [announcing EXCEPT ![p] = Free] /\ lost' = lost \cup {r} \X Hooks
    /\ UNCHANGED <<phase, dispatched, queue, worker, accepted, dropped, tries, outcome>>

\* Enqueued: on to the next hook.
Sent(p, h) == [announcing EXCEPT ![p] = [step |-> "send", run |-> @.run, hooks |-> @.hooks \ {h}]]

\* Enqueue, first select.
Enqueue(p, h) ==
    /\ announcing[p].step = "send" /\ h \in announcing[p].hooks
    /\ IF Len(queue) < QueueBuffer
       THEN /\ queue' = Append(queue, <<announcing[p].run, h>>)
            /\ announcing' = Sent(p, h)
            /\ accepted' = accepted \cup {<<announcing[p].run, h>>}
       ELSE /\ announcing' = [announcing EXCEPT ![p] = [step |-> "drop", run |-> @.run, hooks |-> @.hooks, hook |-> h]]
            /\ UNCHANGED <<queue, accepted>>
    /\ UNCHANGED <<phase, dispatched, worker, dropped, tries, outcome, lost, due>>

\* Variant: a full queue is left as it is.
DropNothing == UNCHANGED <<queue, dropped>>

\* Enqueue, second select: the oldest job, if the workers have not emptied the queue.
DropOldest ==
    IF queue = <<>> THEN UNCHANGED <<queue, dropped>>
    ELSE queue' = Tail(queue) /\ dropped' = dropped \cup {Head(queue)}

MakeRoom(p) ==
    /\ announcing[p].step = "drop" /\ DropOldest
    /\ announcing' = [announcing EXCEPT ![p].step = "resend"]
    /\ UNCHANGED <<phase, dispatched, worker, accepted, tries, outcome, lost, due>>

\* Enqueue, third select: refused when the room is gone again.
Resend(p) ==
    LET h == announcing[p].hook IN
    /\ announcing[p].step = "resend" /\ announcing' = Sent(p, h)
    /\ accepted' = accepted \cup {<<announcing[p].run, h>>}
    /\ IF Len(queue) < QueueBuffer
       THEN queue' = Append(queue, <<announcing[p].run, h>>) /\ UNCHANGED dropped
       ELSE dropped' = dropped \cup {<<announcing[p].run, h>>} /\ UNCHANGED queue
    /\ UNCHANGED <<phase, dispatched, worker, tries, outcome, lost, due>>

\* dispatchedRuns.Store, after the last hook.
Announced(p) ==
    /\ announcing[p].step = "send" /\ announcing[p].hooks = {}
    /\ dispatched' = dispatched \cup {DedupKey(announcing[p].run)}
    /\ announcing' = [announcing EXCEPT ![p] = Free]
    /\ UNCHANGED <<phase, queue, worker, accepted, dropped, tries, outcome, lost, due>>

-----------------------------------------------------------------------------
(* The workers: deliver.                                                   *)

End(i, job, kind) ==
    /\ outcome' = [outcome EXCEPT ![job] = kind]
    /\ worker' = [worker EXCEPT ![i] = NoDelivery]

\* The next job, and resolveHeaders once for all its attempts.
TakeJob(i) ==
    /\ worker[i] = NoDelivery /\ queue # <<>>
    /\ queue' = Tail(queue)
    /\ \/ worker' = [worker EXCEPT ![i] = [job |-> Head(queue), attempt |-> 1]] /\ UNCHANGED <<outcome, due>>
       \/ Head(queue)[2].secret /\ Pay("secret") /\ End(i, Head(queue), "secret-missing")
    /\ UNCHANGED <<phase, dispatched, announcing, accepted, dropped, tries, lost>>

LastAttempt(h, attempt) == attempt > h.maxRetries

\* Variant: a failed attempt ends the delivery without an outcome.
GivesUpQuietly(i, job) == worker' = [worker EXCEPT ![i] = NoDelivery] /\ UNCHANGED outcome

\* After a failed attempt: the end, or the backoff and another.
RetryOrEnd(i, job) ==
    IF LastAttempt(job[2], worker[i].attempt) THEN End(i, job, "failed-after-retries")
    ELSE worker' = [worker EXCEPT ![i].attempt = @ + 1] /\ UNCHANGED outcome

Attempt(i) ==
    LET job == worker[i].job IN
    /\ worker[i] # NoDelivery
    /\ tries' = [tries EXCEPT ![job] = @ + 1]
    /\ \/ End(i, job, "success") /\ UNCHANGED due
       \/ Pay("reject") /\ End(i, job, "no-retry-4xx")
       \/ Pay("fail") /\ RetryOrEnd(i, job)
    /\ UNCHANGED <<phase, dispatched, announcing, queue, accepted, dropped, lost>>

\* The operator dies: dispatcher, queue and dedup were memory, and a terminal run is not
\* announced again.
Crash ==
    /\ Pay("crash")
    /\ lost' = lost \cup {announcing[p].run : p \in {q \in Reconcilers : announcing[q] # Free}} \X Hooks
                    \cup {queue[k] : k \in DOMAIN queue}
                    \cup {worker[i].job : i \in {k \in Pool : worker[k] # NoDelivery}}
    /\ announcing' = [p \in Reconcilers |-> Free] /\ queue' = <<>> /\ dispatched' = {}
    /\ worker' = [i \in Pool |-> NoDelivery]
    /\ UNCHANGED <<phase, accepted, dropped, tries, outcome>>

Next ==
    \/ \E p \in Reconcilers, r \in Runs, ph \in Phases : EndRun(p, r, ph)
    \/ \E p \in Reconcilers : DispatchWebhooks(p) \/ MakeRoom(p) \/ Resend(p) \/ Announced(p)
    \/ \E p \in Reconcilers, h \in Hooks : Enqueue(p, h)
    \/ \E i \in Pool : TakeJob(i) \/ Attempt(i)
    \/ Crash

Fairness ==
    /\ \A p \in Reconcilers :
          /\ WF_deliveryVars(DispatchWebhooks(p) \/ MakeRoom(p) \/ Resend(p) \/ Announced(p))
          /\ WF_deliveryVars(\E h \in Hooks : Enqueue(p, h))
    /\ \A i \in Pool : WF_deliveryVars(TakeJob(i)) /\ WF_deliveryVars(Attempt(i))

Spec == Init /\ [][Next]_deliveryVars /\ Fairness

-----------------------------------------------------------------------------
(* Correctness.                                                            *)

\* A full queue gives way: the job that Enqueue was called for is never the one dropped, it
\* is the oldest one waiting, and nobody has tried it.
FreshestKept ==
    [][\A j \in dropped' \ dropped :
          j \in accepted /\ queue # <<>> /\ j = Head(queue) /\ tries[j] = 0]_deliveryVars

\* "if the queue is full we drop the OLDEST pending job": no other time is one dropped.  It
\* does not hold, as a worker may take a job between the first select and the second.
DropsOnlyWhenFull == [][dropped' # dropped => Len(queue) = QueueBuffer]_deliveryVars

\* Every job that was accepted comes to an outcome, unless it is dropped for a newer one or
\* the operator dies.
EveryJobSettles == \A j \in Jobs : j \in accepted ~> (outcome[j] # "" \/ j \in dropped \/ j \in lost)

\* "WebhookDispatcher fires outbound webhooks on terminal transitions": every run that ends
\* is announced to every Webhook whose filter has its phase, crashes and failed lists apart.
EveryEndIsAnnounced ==
    \A j \in Jobs : phase[j[1]] # "" /\ EventMatches(j[2], phase[j[1]]) ~> j \in accepted \/ j \in lost
=============================================================================
