------------------------------- MODULE MCEvents -------------------------------
(***************************************************************************)
(* What comes to the operator from outside and what it sends there: its    *)
(* schedules, its triggers and its webhooks.  They share no state but the  *)
(* TestRuns they are about, so a behaviour is one of the scheduler (the    *)
(* budget "minute" says so), of the triggers (there are edits of them), or *)
(* of the webhooks (not all runs have ended).  The others take no step.    *)
(***************************************************************************)
EXTENDS Scheduler, Triggers, MCWebhookDelivery

MCSchedules == {[period |-> 2, at |-> {1}], [period |-> 5, at |-> {0, 1}]}
ScheduleBudget(down, fail, edit, expire, minute) ==
    [down |-> down, fail |-> fail, edit |-> edit, expire |-> expire, minute |-> minute]
MCScheduleBudgets ==
    {ScheduleBudget(3, 0, 0, 0, 1), ScheduleBudget(1, 1, 0, 0, 1), ScheduleBudget(0, 0, 1, 1, 1),
     ScheduleBudget(0, 0, 0, 0, 0)}

pod == [kind |-> "pods", name |-> 1]
dep == [kind |-> "deployments", name |-> 2]
MCObjects == {pod, dep}
\* On a pod's modification, 2 after it, once its condition has held for 3; on a Deployment's
\* creation, whatever its condition; on a resource that is not known.
OnPod == [resource |-> "pods", event |-> "modified", selects |-> {pod}, delay |-> 2, timeout |-> 1,
          want |-> TRUE, ttl |-> 3, policy |-> "forbid", test |-> TRUE]
OnDeployment == [OnPod EXCEPT !.resource = "deployments", !.event = "created", !.selects = MCObjects,
                              !.want = FALSE, !.policy = "allow"]
MCTriggerSpecs == {OnPod, OnDeployment, [OnPod EXCEPT !.resource = "unknown"], [OnPod EXCEPT !.test = FALSE]}
TriggerBudget(edit, object, start, create, drop, crash) ==
    [edit |-> edit, object |-> object, start |-> start, create |-> create, lost |-> drop, crash |-> crash]
MCTriggerBudgets ==
    {TriggerBudget(2, 1, 1, 0, 0, 0), TriggerBudget(1, 3, 0, 1, 0, 0), TriggerBudget(1, 2, 0, 0, 1, 1),
     TriggerBudget(0, 0, 0, 0, 0, 0)}

OfScheduler == allowed.minute > 0

SchedulerRests == ~OfScheduler /\ schedule.period = 2 /\ born = 0
TriggersRest == left.edit = 0
DeliveryRests ==
    /\ phase = [r \in Runs |-> "passed"] /\ dispatched = {}
    /\ announcing = [p \in Reconcilers |-> Free]
    /\ queue = <<>> /\ worker = [i \in Pool |-> NoDelivery]
    /\ accepted = {} /\ dropped = {} /\ tries = [j \in Jobs |-> 0] /\ outcome = [j \in Jobs |-> ""]
    /\ lost = {} /\ due \in NoFaults

EventsInit ==
    /\ SchedulerInit /\ TriggersInit
    /\ \/ OfScheduler /\ TriggersRest /\ DeliveryRests
       \/ SchedulerRests /\ ~TriggersRest /\ DeliveryRests
       \/ SchedulerRests /\ TriggersRest /\ Init

EventsNext ==
    \/ OfScheduler /\ SchedulerNext /\ UNCHANGED <<triggersVars, deliveryVars>>
    \/ ~OfScheduler /\ TriggersNext /\ UNCHANGED <<schedulerVars, deliveryVars>>
    \/ ~OfScheduler /\ Next /\ UNCHANGED <<schedulerVars, triggersVars>>

EventsSpec ==
    /\ EventsInit /\ [][EventsNext]_<<schedulerVars, triggersVars, deliveryVars>>
    /\ TriggersFairness /\ Fairness
=============================================================================
