------------------------------ MODULE Scheduler ------------------------------
(***************************************************************************)
(* The cron scheduler, internal/scheduler: every tick lists the Tests and  *)
(* creates, for one with a schedule, the TestRun of the most recent        *)
(* instant, under a name made of the Test and the instant.                 *)
(*                                                                         *)
(* One Test; a unit of time is a minute, the resolution of a cron          *)
(* expression, and a tick falls in every minute the operator is up.  Two   *)
(* replicas may both believe they lead for a while.  The schedule is       *)
(* periodic; a tick is cut at its Create.                                  *)
(***************************************************************************)
EXTENDS Integers, FiniteSets

CONSTANTS
    Schedules,              \* spec.schedule values: [period, at], at the minutes of a period
    Horizon,                \* bound on the clock
    Lookback,               \* prevScheduleLookback
    MinMissedFireWindow,
    Replicas,
    ScheduleBudgets         \* how often each of these may happen in a behaviour

\* down: a minute without an operator.  fail: a Create fails.  edit: the schedule is
\* edited.  expire: a run is deleted (its TTL).  minute: the clock moves at all.
ScheduleKinds == {"down", "fail", "edit", "expire", "minute"}

ASSUME SchedulerAssumption ==
    /\ \A s \in Schedules : s.period \in Nat \ {0} /\ s.at \subseteq 0 .. s.period - 1 /\ s.at # {}
    /\ {Horizon, Lookback, MinMissedFireWindow} \subseteq Nat
    /\ ScheduleBudgets \subseteq [ScheduleKinds -> Nat]

VARIABLES
    now,        \* the minute
    schedule,   \* the Test's schedule
    listed,     \* the schedule in the operators' cache
    born,       \* the Test's creationTimestamp
    runs,       \* the TestRuns there are: [name, of], of the instant it is for
    pending,    \* the instant a replica is about to create a run for, with the time it chose it
    ticked,     \* whether a tick has been completed in this minute
    fires,      \* history: how many TestRuns were created for an instant
    removed,    \* history: how many of them were deleted
    missed,     \* history: the minutes in which no operator was up or a Create failed
    since,      \* history: the minute from which on every tick saw the schedule as it is
    allowed     \* what is left of the bounds

schedulerVars == <<now, schedule, listed, born, runs, pending, ticked, fires, removed, missed, since, allowed>>

Instants == 0 .. Horizon
NoRun == [of |-> -1]
Use(kind) == allowed[kind] > 0 /\ allowed' = [allowed EXCEPT ![kind] = @ - 1]

SchedulerInit ==
    /\ now = 0 /\ schedule \in Schedules /\ listed = schedule /\ born \in {0, 1}
    /\ runs = {} /\ pending = [p \in Replicas |-> NoRun] /\ ticked = FALSE
    /\ fires = [i \in Instants |-> 0] /\ removed = [i \in Instants |-> 0]
    /\ missed = {} /\ since = 0 /\ allowed \in ScheduleBudgets

-----------------------------------------------------------------------------
(* prevSchedule and the two gates of evaluate.                             *)

Fires(s, t) == t % s.period \in s.at

\* cron.Schedule.Next
NextAfter(s, t) == CHOOSE n \in t + 1 .. t + s.period : Fires(s, n) /\ \A m \in t + 1 .. n - 1 : ~Fires(s, m)

\* Variant: the first instant of the lookback window instead of the last.
FirstSchedule(s, t) ==
    LET past == {i \in t - Lookback + 1 .. t : i >= 0 /\ Fires(s, i)}
    IN  IF past = {} THEN -1 ELSE CHOOSE i \in past : \A j \in past : j >= i

\* The walk over Next from now - Lookback: the last instant that is not after now.
PrevSchedule(s, t) ==
    LET past == {i \in t - Lookback + 1 .. t : i >= 0 /\ Fires(s, i)}
    IN  IF past = {} THEN -1 ELSE CHOOSE i \in past : \A j \in past : j <= i

Window(s, prev) ==
    LET twice == 2 * (NextAfter(s, prev) - prev)
    IN  IF twice > MinMissedFireWindow THEN twice ELSE MinMissedFireWindow

Due(s, t) ==
    LET prev == PrevSchedule(s, t)
    IN  prev # -1 /\ prev >= born /\ t - prev <= Window(s, prev)

\* scheduledRun: the name is the instant's.
RunName(prev, t) == prev

-----------------------------------------------------------------------------
\* Tick and evaluate, up to the Create.
Evaluate(p) ==
    /\ pending[p] = NoRun /\ ~ticked
    /\ IF Due(listed, now)
       THEN /\ pending' = [pending EXCEPT ![p] = 
                   [name |-> RunName(PrevSchedule(listed, now), now), of |-> PrevSchedule(listed, now),
                    chosen |-> now, from |-> listed]]
            /\ UNCHANGED ticked
       ELSE ticked' = TRUE /\ UNCHANGED pending
    /\ UNCHANGED <<now, schedule, listed, born, runs, fires, removed, missed, since, allowed>>

\* The Create: AlreadyExists is success, any other error waits for the next tick.
CreateRun(p) ==
    /\ pending[p] # NoRun
    /\ LET name == pending[p].name
           of   == pending[p].of
       IN
         \/ /\ \A r \in runs : r.name # name
            /\ runs' = runs \cup {[name |-> name, of |-> of]} /\ fires' = [fires EXCEPT ![of] = @ + 1]
            /\ UNCHANGED <<allowed, missed>>
         \/ /\ \E r \in runs : r.name = name
            /\ UNCHANGED <<runs, fires, allowed, missed>>
         \/ /\ Use("fail") /\ missed' = missed \cup {pending[p].chosen} /\ UNCHANGED <<runs, fires>>
    /\ pending' = [pending EXCEPT ![p] = NoRun]
    /\ ticked' = (ticked \/ pending[p].chosen = now)
    /\ UNCHANGED <<now, schedule, listed, born, removed, since>>

\* The minute passes: once a tick is done, or because no operator is up.
Minute ==
    /\ now < Horizon /\ allowed.minute > 0
    /\ \/ ticked /\ UNCHANGED <<missed, allowed, pending>>
       \/ ~ticked /\ Use("down") /\ missed' = missed \cup {now} /\ pending' = [p \in Replicas |-> NoRun]
    /\ now' = now + 1 /\ ticked' = FALSE
    /\ UNCHANGED <<schedule, listed, born, runs, fires, removed, since>>

EditSchedule ==
    /\ Use("edit") /\ schedule' \in Schedules \ {schedule}
    /\ UNCHANGED <<now, listed, born, runs, pending, ticked, fires, removed, missed, since>>

WatchTests ==
    /\ listed # schedule /\ listed' = schedule /\ since' = now + 1
    /\ UNCHANGED <<now, schedule, born, runs, pending, ticked, fires, removed, missed, allowed>>

\* expireFinished or a user deletes the TestRun.
ExpireRun(r) ==
    /\ Use("expire")
    /\ runs' = runs \ {r} /\ removed' = [removed EXCEPT ![r.of] = @ + 1]
    /\ UNCHANGED <<now, schedule, listed, born, pending, ticked, fires, missed, since>>

SchedulerNext ==
    \/ \E p \in Replicas : Evaluate(p) \/ CreateRun(p)
    \/ Minute \/ EditSchedule \/ WatchTests
    \/ \E r \in runs : ExpireRun(r)

SchedulerSpec == SchedulerInit /\ [][SchedulerNext]_schedulerVars

-----------------------------------------------------------------------------
(* Correctness.                                                            *)

\* An instant is fired once, however many replicas tick and however often it is found due,
\* unless its run was deleted in between.
FiredOnce == \A i \in Instants : fires[i] <= 1 + removed[i]

\* Nothing is backfired: a run is created only for an instant the Test was there for, the
\* last one of the schedule the tick read, so an outage brings back one run and not all it
\* swallowed.
NoBackfire ==
    [][\A i \in Instants : fires'[i] > fires[i] =>
          \E p \in Replicas :
              /\ pending[p].of = i /\ i >= born
              /\ \A j \in i + 1 .. pending[p].chosen : ~Fires(pending[p].from, j)]_schedulerVars

\* No instant is missed: one the Test and its schedule were there for has its run by the
\* end of the minute; when the operator was down or the Create failed, in the next minute
\* with a working tick, as long as that falls before the next instant and in the lookback.
NoneMissed ==
    listed = schedule =>
        \A i \in Instants :
            i >= born /\ i >= since /\ i < now /\ Fires(schedule, i) =>
                \/ fires[i] > 0
                \/ \A t \in i .. now - 1 : t >= i + Lookback \/ t >= NextAfter(schedule, i) \/ t \in missed

\* The schedule is kept: each instant has its run, once, and none is made up for later.
ScheduleKept == []FiredOnce /\ []NoneMissed /\ NoBackfire
=============================================================================
