----------------------------- MODULE EventProofs -----------------------------
(***************************************************************************)
(* What brings runs in and what reports them.  The scheduler and the       *)
(* triggers, for every schedule, lookback, window and number of replicas,  *)
(* and for every set of triggers, objects and specs; and the webhooks, for *)
(* any runs, Webhooks, queue length, pool of workers and budget of faults, *)
(* and one reconciler at a time.                                           *)
(***************************************************************************)
EXTENDS Scheduler, Triggers, WebhookDelivery, FiniteSetTheorems, WellFoundedInduction, TLAPS

(* The arithmetic of a periodic schedule.                                  *)

LEMMA Division ==
    ASSUME NEW p \in Nat \ {0}, NEW t \in Int
    PROVE  t % p \in 0 .. p - 1 /\ t = p * (t \div p) + (t % p) /\ t \div p \in Int
  OBVIOUS

LEMMA Remainder ==
    ASSUME NEW p \in Nat \ {0}, NEW q \in Int, NEW a \in 0 .. p - 1
    PROVE  (p * q + a) % p = a
  OBVIOUS

\* Every remainder comes up in every period.
LEMMA EveryRemainder ==
    ASSUME NEW p \in Nat \ {0}, NEW t \in Int, NEW a \in 0 .. p - 1
    PROVE  \E n \in t + 1 .. t + p : n % p = a
<1> DEFINE q == t \div p
<1>1. t % p \in 0 .. p - 1 /\ t = p * q + (t % p) /\ q \in Int
  BY Division
<1> HIDE DEF q
<1>2. p * q \in Int /\ q + 1 \in Int /\ p * (q + 1) = p * q + p
  BY <1>1
<1>3. CASE a > t % p
  <2>1. p * q + a \in t + 1 .. t + p
    BY <1>1, <1>2, <1>3
  <2>2. QED
    BY <1>1, <2>1, Remainder
<1>4. CASE a <= t % p
  <2>1. p * (q + 1) + a \in t + 1 .. t + p
    BY <1>1, <1>2, <1>4
  <2>2. (p * (q + 1) + a) % p = a
    BY <1>2, Remainder
  <2>3. QED
    BY <2>1, <2>2
<1>5. QED
  BY <1>1, <1>3, <1>4

\* A set of naturals that is not empty has a least element, a bounded one of integers a
\* greatest.
LEMMA Least ==
    ASSUME NEW S \in SUBSET Nat, S # {}
    PROVE  \E x \in S : \A y \in S : x <= y
<1>1. PICK x \in S : \A y \in S : ~(<<y, x>> \in OpToRel(<, Nat))
  BY NatLessThanWellFounded, WFMin
<1>2. \A y \in Nat : <<y, x>> \in Nat \X Nat /\ (<<y, x>>)[1] = y /\ (<<y, x>>)[2] = x
  OBVIOUS
<1>3. \A y \in Nat : y < x => <<y, x>> \in OpToRel(<, Nat)
  BY <1>2, Zenon DEF OpToRel
<1>4. \A y \in S : ~(y < x)
  BY <1>1, <1>3, Zenon
<1>5. QED
  BY <1>4

LEMMA Greatest ==
    ASSUME NEW S, NEW lo \in Int, NEW hi \in Int, S \subseteq lo .. hi, S # {}
    PROVE  \E i \in S : \A j \in S : j <= i
<1> DEFINE D == {n \in Nat : hi - n \in S}
<1>1. \A j \in S : hi - j \in D /\ hi - (hi - j) = j
  OBVIOUS
<1>2. D # {} /\ D \in SUBSET Nat
  BY <1>1
<1>3. \A n \in D : hi - n \in S /\ n \in Nat
  OBVIOUS
<1> HIDE DEF D
<1>4. PICK n \in D : \A m \in D : n <= m
  BY <1>2, Least
<1>5. QED
  BY <1>1, <1>3, <1>4

-----------------------------------------------------------------------------
(* prevSchedule and Next.                                                  *)

LEMMA Constants ==
    /\ \A s \in Schedules : s.period \in Nat \ {0} /\ s.at \subseteq 0 .. s.period - 1 /\ s.at # {}
    /\ Horizon \in Nat /\ Lookback \in Nat /\ MinMissedFireWindow \in Nat
    /\ Instants = 0 .. Horizon
  BY SchedulerAssumption DEF Instants

\* Next finds the first instant after a time.
LEMMA NextFires ==
    ASSUME NEW s \in Schedules, NEW t \in Nat
    PROVE  /\ NextAfter(s, t) \in t + 1 .. t + s.period /\ Fires(s, NextAfter(s, t))
           /\ \A m \in t + 1 .. NextAfter(s, t) - 1 : ~Fires(s, m)
<1> DEFINE S == {n \in t + 1 .. t + s.period : Fires(s, n)}
<1>1. PICK a \in s.at : a \in 0 .. s.period - 1
  BY Constants
<1>2. s.period \in Nat \ {0}
  BY Constants
<1>3. PICK n \in t + 1 .. t + s.period : n % s.period = a
  <2> DEFINE p == s.period
  <2>1. p \in Nat \ {0} /\ t \in Int /\ a \in 0 .. p - 1
    BY <1>1, <1>2
  <2> HIDE DEF p
  <2>2. \E n \in t + 1 .. t + p : n % p = a
    BY <2>1, EveryRemainder
  <2> QED  BY <2>2 DEF p
<1>4. n \in S
  BY <1>1, <1>3 DEF Fires
<1>5. S \in SUBSET Nat
  BY <1>2
<1>6. PICK x \in S : \A y \in S : x <= y
  BY <1>4, <1>5, Least
<1>7. \A m \in t + 1 .. x - 1 : ~Fires(s, m)
  BY <1>2, <1>6
<1>8. \E z \in t + 1 .. t + s.period : Fires(s, z) /\ \A m \in t + 1 .. z - 1 : ~Fires(s, m)
  BY <1>6, <1>7
<1>9. QED
  BY <1>8 DEF NextAfter

LEMMA NextIsNat ==
    ASSUME NEW s \in Schedules, NEW t \in Nat
    PROVE  NextAfter(s, t) \in Nat /\ \A m \in t + 1 .. NextAfter(s, t) - 1 : ~Fires(s, m)
<1>1. /\ NextAfter(s, t) \in t + 1 .. t + s.period
      /\ \A m \in t + 1 .. NextAfter(s, t) - 1 : ~Fires(s, m)
  BY NextFires, Zenon
<1>2. s.period \in Nat
  BY Constants
<1>3. QED
  BY <1>1, <1>2

\* prevSchedule finds the last instant of the lookback, if there is one.
LEMMA PrevIsLast ==
    ASSUME NEW s \in Schedules, NEW t \in Nat
    PROVE  \/ /\ PrevSchedule(s, t) = -1
              /\ \A i \in Nat : i <= t /\ t < i + Lookback => ~Fires(s, i)
           \/ /\ PrevSchedule(s, t) \in 0 .. t /\ t < PrevSchedule(s, t) + Lookback
              /\ Fires(s, PrevSchedule(s, t))
              /\ \A j \in PrevSchedule(s, t) + 1 .. t : ~Fires(s, j)
<1> DEFINE past == {i \in t - Lookback + 1 .. t : i >= 0 /\ Fires(s, i)}
<1>1. Lookback \in Nat
  BY Constants
<1>2. \A i \in Nat : i <= t /\ t < i + Lookback /\ Fires(s, i) => i \in past
  BY <1>1
<1>3. \A i \in past : i \in 0 .. t /\ t < i + Lookback /\ Fires(s, i)
  BY <1>1
<1>4. PrevSchedule(s, t) = IF past = {} THEN -1 ELSE CHOOSE i \in past : \A j \in past : j <= i
  BY DEF PrevSchedule
<1> HIDE DEF past
<1>5. CASE past = {}
  BY <1>2, <1>4, <1>5
<1>6. CASE past # {}
  <2>1. past \subseteq 0 .. t /\ 0 \in Int /\ t \in Int
    BY <1>3
  <2>2. \E i \in past : \A j \in past : j <= i
    BY <1>6, <2>1, Greatest, Zenon
  <2>3. PrevSchedule(s, t) \in past /\ \A j \in past : j <= PrevSchedule(s, t)
    BY <1>4, <1>6, <2>2
  <2>4. ASSUME NEW j \in PrevSchedule(s, t) + 1 .. t, Fires(s, j) PROVE FALSE
    <3>1. PrevSchedule(s, t) \in 0 .. t /\ t < PrevSchedule(s, t) + Lookback
      BY <1>3, <2>3
    <3>2. j \in Nat /\ j <= t /\ t < j + Lookback /\ j > PrevSchedule(s, t)
      BY <1>1, <3>1, <2>4
    <3>3. j \in past
      BY <1>2, <2>4, <3>2
    <3>4. QED
      BY <2>3, <3>1, <3>2, <3>3
  <2>5. QED
    BY <1>3, <2>3, <2>4
<1>7. QED
  BY <1>5, <1>6

\* An instant that no other has followed and that is in the lookback is the one found, and
\* it is within the window for missed fires.
LEMMA LastIsDue ==
    ASSUME NEW s \in Schedules, NEW t \in Nat, NEW i \in Nat, born \in Nat,
           i >= born, Fires(s, i), i <= t, t < i + Lookback, t < NextAfter(s, i)
    PROVE  PrevSchedule(s, t) = i /\ Due(s, t)
<1> DEFINE prev == PrevSchedule(s, t)
<1>1. prev \in 0 .. t /\ Fires(s, prev) /\ \A j \in prev + 1 .. t : ~Fires(s, j)
  BY PrevIsLast
<1> HIDE DEF prev
<1>2. s.period \in Nat /\ Lookback \in Nat /\ MinMissedFireWindow \in Nat
  BY Constants
<1>3. NextAfter(s, i) \in Nat /\ \A m \in i + 1 .. NextAfter(s, i) - 1 : ~Fires(s, m)
  BY NextIsNat, Zenon
<1>4. ~(i > prev)
  BY <1>1
<1>5. ~(i < prev)
  BY <1>1, <1>3
<1>6. prev = i
  BY <1>1, <1>4, <1>5
<1>7. Window(s, i) >= 2 * (NextAfter(s, i) - i)
  BY <1>2, <1>3 DEF Window
<1>8. Window(s, i) \in Int
  BY <1>2, <1>3 DEF Window
<1>9. t - i <= Window(s, i)
  BY <1>3, <1>7, <1>8
<1>10. QED
  BY <1>6, <1>9 DEF Due, prev

-----------------------------------------------------------------------------
(* The scheduler's invariant.                                              *)

RunFor(i) == [name |-> i, of |-> i]
Chosen == [name : Instants, of : Instants, chosen : Instants, from : Schedules]

ClockInv ==
    /\ now \in Instants /\ schedule \in Schedules /\ listed \in Schedules
    /\ born \in Nat /\ since \in Nat /\ ticked \in BOOLEAN
    /\ pending \in [Replicas -> Chosen \cup {NoRun}]

\* A run is its instant's: what was fired for an instant and not removed is there.
CountInv ==
    /\ fires \in [Instants -> Nat] /\ removed \in [Instants -> Nat]
    /\ runs \subseteq {RunFor(i) : i \in Instants}
    /\ \A i \in Instants : fires[i] = removed[i] + (IF RunFor(i) \in runs THEN 1 ELSE 0)

\* A replica is about to create the run of the last instant of the schedule it read, which
\* is the one listed, unless the cache has moved on since.
PendingInv ==
    \A p \in Replicas : pending[p] # NoRun =>
        LET c == pending[p] IN
        /\ c.name = c.of /\ c.of >= born /\ c.of <= c.chosen /\ c.chosen <= now
        /\ Fires(c.from, c.of) /\ \A j \in c.of + 1 .. c.chosen : ~Fires(c.from, j)
        /\ c.from = listed \/ since > c.chosen

\* The ticks of a minute are over.
Ticked(t) == t < now \/ (t = now /\ ticked)

\* The schedule as listed has been followed: an instant that was the last one at a minute
\* whose tick is over has its run, unless that minute was missed.
Followed ==
    \A i, t \in Instants :
        /\ i >= born /\ i >= since /\ Fires(listed, i)
        /\ i <= t /\ t < i + Lookback /\ t < NextAfter(listed, i) /\ Ticked(t)
        => fires[i] > 0 \/ t \in missed

SchedulerInv == ClockInv /\ CountInv /\ PendingInv /\ Followed

LEMMA SchedulerInitInv == SchedulerInit => SchedulerInv
<1> SUFFICES ASSUME SchedulerInit PROVE SchedulerInv
  OBVIOUS
<1>1. ClockInv
  <2>1. 0 \in Instants /\ born \in Nat
    BY Constants DEF SchedulerInit
  <2>2. pending \in [Replicas -> Chosen \cup {NoRun}]
    BY DEF SchedulerInit
  <2>3. QED
    BY <2>1, <2>2 DEF SchedulerInit, ClockInv
<1>2. CountInv
  <2>1. fires = [i \in Instants |-> 0] /\ removed = [i \in Instants |-> 0] /\ runs = {}
    BY DEF SchedulerInit
  <2>2. QED
    BY <2>1 DEF CountInv
<1>3. PendingInv
  BY DEF SchedulerInit, PendingInv
<1>4. Followed
  BY Constants DEF SchedulerInit, Followed, Ticked
<1>5. QED
  BY <1>1, <1>2, <1>3, <1>4 DEF SchedulerInv

\* A replica that finds nothing due ends the tick; one that does holds the last instant.
LEMMA EvaluateStep ==
    ASSUME SchedulerInv, NEW p \in Replicas, Evaluate(p)
    PROVE  SchedulerInv'
<1> DEFINE prev == PrevSchedule(listed, now)
           c == [name |-> prev, of |-> prev, chosen |-> now, from |-> listed]
<1>1. /\ now' = now /\ schedule' = schedule /\ listed' = listed /\ born' = born /\ since' = since
      /\ runs' = runs /\ fires' = fires /\ removed' = removed /\ missed' = missed
  BY DEF Evaluate
<1>2. ClockInv /\ CountInv /\ PendingInv /\ Followed
  BY DEF SchedulerInv
<1>3. CountInv'
  BY <1>1, <1>2 DEF CountInv
<1>4. now \in Nat /\ now <= Horizon /\ listed \in Schedules /\ born \in Nat
  BY <1>2, Constants DEF ClockInv
<1>5. CASE Due(listed, now)
  <2>1. pending' = [pending EXCEPT ![p] = c] /\ ticked' = ticked
    BY <1>5 DEF Evaluate, RunName
  <2>2. prev # -1 /\ prev >= born
    BY <1>5 DEF Due
  <2>3. prev \in 0 .. now /\ Fires(listed, prev) /\ \A j \in prev + 1 .. now : ~Fires(listed, j)
    BY <1>4, <2>2, PrevIsLast
  <2> HIDE DEF prev
  <2>4. c \in Chosen
    BY <1>4, <2>3, Constants DEF Chosen
  <2>5. ClockInv'
    BY <1>1, <1>2, <2>1, <2>4 DEF ClockInv
  <2>6. PendingInv'
    <3>1. ASSUME NEW q \in Replicas, q # p PROVE pending'[q] = pending[q]
      BY <1>2, <2>1, <3>1 DEF ClockInv
    <3>2. pending'[p] = c
      BY <1>2, <2>1 DEF ClockInv
    <3>3. /\ c.name = c.of /\ c.of >= born /\ c.of <= c.chosen /\ c.chosen <= now
          /\ Fires(c.from, c.of) /\ \A j \in c.of + 1 .. c.chosen : ~Fires(c.from, j)
          /\ c.from = listed
      BY <1>4, <2>2, <2>3
    <3> HIDE DEF c
    <3>4. QED
      BY <1>1, <1>2, <3>1, <3>2, <3>3 DEF PendingInv
  <2>7. Followed'
    BY <1>1, <1>2, <2>1 DEF Followed, Ticked
  <2>8. QED
    BY <1>3, <2>5, <2>6, <2>7 DEF SchedulerInv
<1>6. CASE ~Due(listed, now)
  <2>1. pending' = pending /\ ticked' = TRUE
    BY <1>6 DEF Evaluate
  <2>2. ClockInv' /\ PendingInv'
    BY <1>1, <1>2, <2>1 DEF ClockInv, PendingInv
  <2>3. Followed'
    <3> SUFFICES ASSUME NEW i \in Instants, NEW t \in Instants,
                        i >= born, i >= since, Fires(listed, i),
                        i <= t, t < i + Lookback, t < NextAfter(listed, i), t <= now
                 PROVE  fires[i] > 0 \/ t \in missed
      BY <1>1, <1>4, <2>1, Constants DEF Followed, Ticked
    <3>1. t # now
      BY <1>4, <1>6, LastIsDue, Constants
    <3>2. Ticked(t)
      BY <1>4, <3>1, Constants DEF Ticked
    <3>3. QED
      BY <1>2, <3>2 DEF Followed
  <2>4. QED
    BY <1>3, <2>2, <2>3 DEF SchedulerInv
<1>7. QED
  BY <1>5, <1>6

\* The Create makes the run, finds it made, or fails: the instant is fired or the minute
\* missed.
LEMMA CreateStep ==
    ASSUME SchedulerInv, NEW p \in Replicas, CreateRun(p)
    PROVE  /\ SchedulerInv'
           /\ \A i \in Instants : fires'[i] > fires[i] => pending[p].of = i /\ pending[p] # NoRun
<1> DEFINE c == pending[p]
<1>1. /\ now' = now /\ schedule' = schedule /\ listed' = listed /\ born' = born /\ since' = since
      /\ removed' = removed /\ pending' = [pending EXCEPT ![p] = NoRun]
      /\ ticked' = (ticked \/ c.chosen = now) /\ c # NoRun
  BY DEF CreateRun
<1>2. ClockInv /\ CountInv /\ PendingInv /\ Followed
  BY DEF SchedulerInv
<1>3. c \in Chosen
  BY <1>1, <1>2 DEF ClockInv
<1>4. /\ c.of \in Instants /\ c.chosen \in Instants /\ c.from \in Schedules
      /\ c.name = c.of /\ c.of >= born /\ c.of <= c.chosen /\ c.chosen <= now
      /\ Fires(c.from, c.of) /\ \A j \in c.of + 1 .. c.chosen : ~Fires(c.from, j)
      /\ c.from = listed \/ since > c.chosen
  BY <1>1, <1>2, <1>3 DEF PendingInv, Chosen
<1>5. \/ /\ RunFor(c.of) \notin runs
         /\ runs' = runs \cup {RunFor(c.of)} /\ fires' = [fires EXCEPT ![c.of] = @ + 1]
         /\ missed' = missed
      \/ /\ RunFor(c.of) \in runs
         /\ runs' = runs /\ fires' = fires /\ missed' = missed
      \/ runs' = runs /\ fires' = fires /\ missed' = missed \cup {c.chosen}
  <2>1. \A r \in runs : r = RunFor(r.name) /\ r.name \in Instants
    BY <1>2 DEF CountInv, RunFor
  <2>2. RunFor(c.of).name = c.of
    BY DEF RunFor
  <2>3. RunFor(c.of) \in runs <=> \E r \in runs : r.name = c.of
    BY <2>1, <2>2
  <2>4. QED
    BY <1>4, <2>3 DEF CreateRun, RunFor
<1>6. CountInv /\ fires \in [Instants -> Nat] /\ removed \in [Instants -> Nat]
  BY <1>2 DEF CountInv
<1> HIDE DEF c
<1>7. /\ CountInv'
      /\ \A i \in Instants : fires'[i] >= fires[i] /\ fires'[i] \in Nat
      /\ \A i \in Instants : fires'[i] > fires[i] => c.of = i
      /\ fires'[c.of] > 0 \/ c.chosen \in missed'
      /\ missed \subseteq missed'
  <2>1. CASE /\ RunFor(c.of) \notin runs
             /\ runs' = runs \cup {RunFor(c.of)} /\ fires' = [fires EXCEPT ![c.of] = @ + 1]
             /\ missed' = missed
    <3>1. \A i \in Instants : RunFor(i) = RunFor(c.of) <=> i = c.of
      BY DEF RunFor
    <3>2. \A i \in Instants : fires'[i] = IF i = c.of THEN fires[i] + 1 ELSE fires[i]
      BY <1>4, <1>6, <2>1
    <3>3. fires' \in [Instants -> Nat]
      BY <1>4, <1>6, <2>1
    <3>4. \A i \in Instants : RunFor(i) \in runs' <=> RunFor(i) \in runs \/ i = c.of
      BY <2>1, <3>1
    <3>5. \A i \in Instants : fires'[i] = removed'[i] + (IF RunFor(i) \in runs' THEN 1 ELSE 0)
      <4> SUFFICES ASSUME NEW i \in Instants
                   PROVE  fires'[i] = removed[i] + (IF RunFor(i) \in runs' THEN 1 ELSE 0)
        BY <1>1
      <4>1. fires[i] = removed[i] + (IF RunFor(i) \in runs THEN 1 ELSE 0) /\ removed[i] \in Nat
        BY <1>6 DEF CountInv
      <4>2. CASE i = c.of
        BY <2>1, <3>2, <3>4, <4>1, <4>2
      <4>3. CASE i # c.of
        BY <3>2, <3>4, <4>1, <4>3
      <4>4. QED
        BY <4>2, <4>3
    <3>6. runs' \subseteq {RunFor(i) : i \in Instants}
      BY <1>4, <1>6, <2>1 DEF CountInv
    <3>7. CountInv'
      BY <1>1, <1>6, <3>3, <3>5, <3>6 DEF CountInv
    <3>8. QED
      BY <1>4, <1>6, <2>1, <3>2, <3>3, <3>7
  <2>2. CASE /\ RunFor(c.of) \in runs
             /\ runs' = runs /\ fires' = fires /\ missed' = missed
    <3>1. fires[c.of] = removed[c.of] + 1 /\ removed[c.of] \in Nat
      BY <1>4, <1>6, <2>2 DEF CountInv
    <3>2. QED
      BY <1>1, <1>6, <2>2, <3>1 DEF CountInv
  <2>3. CASE runs' = runs /\ fires' = fires /\ missed' = missed \cup {c.chosen}
    BY <1>1, <1>6, <2>3 DEF CountInv
  <2>4. QED
    BY <1>5, <2>1, <2>2, <2>3
<1>8. ClockInv'
  BY <1>1, <1>2 DEF ClockInv
<1>9. PendingInv'
  <2>1. ASSUME NEW q \in Replicas, q # p PROVE pending'[q] = pending[q]
    BY <1>1, <1>2, <2>1 DEF ClockInv
  <2>2. pending'[p] = NoRun
    BY <1>1, <1>2 DEF ClockInv
  <2>3. QED
    BY <1>1, <1>2, <2>1, <2>2 DEF PendingInv
<1>10. Followed'
  <2> SUFFICES ASSUME NEW i \in Instants, NEW t \in Instants,
                      i >= born, i >= since, Fires(listed, i),
                      i <= t, t < i + Lookback, t < NextAfter(listed, i),
                      t < now \/ (t = now /\ (ticked \/ c.chosen = now))
               PROVE  fires'[i] > 0 \/ t \in missed'
    BY <1>1 DEF Followed, Ticked
  <2>1. CASE Ticked(t)
    <3>1. fires[i] > 0 \/ t \in missed
      BY <1>2, <2>1 DEF Followed
    <3>2. fires[i] \in Nat
      BY <1>6
    <3>3. QED
      BY <1>7, <3>1, <3>2
  <2>2. CASE ~Ticked(t)
    <3>1. t = now /\ c.chosen = t
      BY <2>2 DEF Ticked
    <3>2. i \in Nat /\ t \in Nat /\ born \in Nat /\ since \in Nat /\ listed \in Schedules
      BY <1>2, Constants DEF ClockInv
    <3>3. c.from = listed
      BY <1>4, <3>1, <3>2
    <3>4. c.of \in Nat
      BY <1>4, Constants
    <3>5. ~(i > c.of)
      BY <1>4, <3>1, <3>2, <3>3, <3>4
    <3>6. NextAfter(listed, i) \in Nat /\ \A m \in i + 1 .. NextAfter(listed, i) - 1 : ~Fires(listed, m)
      BY <3>2, NextIsNat
    <3>7. ~(i < c.of)
      BY <1>4, <3>1, <3>2, <3>3, <3>4, <3>6
    <3>8. i = c.of
      BY <3>2, <3>4, <3>5, <3>7
    <3>9. QED
      BY <1>7, <3>1, <3>8
  <2>3. QED
    BY <2>1, <2>2
<1>11. QED
  BY <1>1, <1>7, <1>8, <1>9, <1>10 DEF SchedulerInv, c

\* A minute passes with its tick done, or is missed.
LEMMA MinuteStep == ASSUME SchedulerInv, Minute PROVE SchedulerInv' /\ fires' = fires
<1>1. /\ now' = now + 1 /\ now < Horizon /\ ticked' = FALSE
      /\ schedule' = schedule /\ listed' = listed /\ born' = born /\ since' = since
      /\ runs' = runs /\ fires' = fires /\ removed' = removed
      /\ \/ ticked /\ missed' = missed /\ pending' = pending
         \/ missed' = missed \cup {now} /\ pending' = [p \in Replicas |-> NoRun]
  BY DEF Minute
<1>2. ClockInv /\ CountInv /\ PendingInv /\ Followed
  BY DEF SchedulerInv
<1>3. now \in Nat /\ Horizon \in Nat /\ now' \in Instants
  BY <1>1, <1>2, Constants DEF ClockInv
<1>4. ClockInv'
  BY <1>1, <1>2, <1>3 DEF ClockInv
<1>5. CountInv'
  BY <1>1, <1>2 DEF CountInv
<1>6. PendingInv'
  <2> SUFFICES ASSUME NEW p \in Replicas, pending'[p] # NoRun, pending' = pending PROVE
        /\ pending[p].name = pending[p].of /\ pending[p].of >= born
        /\ pending[p].of <= pending[p].chosen /\ pending[p].chosen <= now'
        /\ Fires(pending[p].from, pending[p].of)
        /\ \A j \in pending[p].of + 1 .. pending[p].chosen : ~Fires(pending[p].from, j)
        /\ pending[p].from = listed \/ since > pending[p].chosen
    BY <1>1 DEF PendingInv
  <2>1. pending[p] \in Chosen
    BY <1>2 DEF ClockInv
  <2>2. pending[p].chosen \in Nat
    BY <2>1, Constants DEF Chosen
  <2>3. pending[p].chosen <= now
    BY <1>2 DEF PendingInv
  <2>4. QED
    BY <1>1, <1>2, <1>3, <2>2, <2>3 DEF PendingInv
<1>7. Followed'
  <2> SUFFICES ASSUME NEW i \in Instants, NEW t \in Instants,
                      i >= born, i >= since, Fires(listed, i),
                      i <= t, t < i + Lookback, t < NextAfter(listed, i), t < now + 1
               PROVE  fires[i] > 0 \/ t \in missed'
    BY <1>1, <1>3 DEF Followed, Ticked
  <2>1. Ticked(t) => fires[i] > 0 \/ t \in missed
    BY <1>2 DEF Followed
  <2>2. Ticked(t) \/ (t = now /\ ~ticked)
    BY <1>3, Constants DEF Ticked
  <2>3. QED
    BY <1>1, <2>1, <2>2
<1>8. QED
  BY <1>1, <1>4, <1>5, <1>6, <1>7 DEF SchedulerInv

\* The cache is told of an edit: nothing is promised of this minute and those before.
LEMMA WatchTestsStep == ASSUME SchedulerInv, WatchTests PROVE SchedulerInv' /\ fires' = fires
<1>1. /\ now' = now /\ ticked' = ticked /\ schedule' = schedule /\ listed' = schedule
      /\ born' = born /\ since' = now + 1 /\ missed' = missed /\ pending' = pending
      /\ runs' = runs /\ fires' = fires /\ removed' = removed
  BY DEF WatchTests
<1>2. ClockInv /\ CountInv /\ PendingInv
  BY DEF SchedulerInv
<1>3. now \in Nat
  BY <1>2, Constants DEF ClockInv
<1>4. ClockInv' /\ CountInv'
  BY <1>1, <1>2, <1>3 DEF ClockInv, CountInv
<1>5. PendingInv'
  <2>1. ASSUME NEW p \in Replicas, pending[p] # NoRun PROVE now + 1 > pending[p].chosen
    <3>1. pending[p].chosen \in Nat /\ pending[p].chosen <= now
      BY <1>2, <2>1, Constants DEF ClockInv, PendingInv, Chosen
    <3>2. QED
      BY <1>3, <3>1
  <2>2. QED
    BY <1>1, <1>2, <2>1 DEF PendingInv
<1>6. Followed'
  <2> SUFFICES ASSUME NEW i \in Instants, NEW t \in Instants, i >= now + 1, i <= t,
                      t < now \/ t = now
               PROVE  FALSE
    BY <1>1 DEF Followed, Ticked
  <2>1. i \in Nat /\ t \in Nat
    BY Constants
  <2>2. QED
    BY <1>3, <2>1
<1>7. QED
  BY <1>1, <1>4, <1>5, <1>6 DEF SchedulerInv

\* A run that is deleted is counted as removed.
LEMMA ExpireStep ==
    ASSUME SchedulerInv, NEW r \in runs, ExpireRun(r)
    PROVE  SchedulerInv' /\ fires' = fires
<1>1. /\ now' = now /\ ticked' = ticked /\ schedule' = schedule /\ listed' = listed
      /\ born' = born /\ since' = since /\ missed' = missed /\ pending' = pending
      /\ fires' = fires /\ runs' = runs \ {r} /\ removed' = [removed EXCEPT ![r.of] = @ + 1]
  BY DEF ExpireRun
<1>2. ClockInv /\ CountInv /\ PendingInv /\ Followed
  BY DEF SchedulerInv
<1>3. PICK k \in Instants : r = RunFor(k)
  BY <1>2 DEF CountInv
<1>4. r.of = k /\ \A i \in Instants : RunFor(i) = r <=> i = k
  BY <1>3 DEF RunFor
<1>5. removed \in [Instants -> Nat] /\ fires \in [Instants -> Nat]
  BY <1>2 DEF CountInv
<1>6. \A i \in Instants : fires'[i] = removed'[i] + (IF RunFor(i) \in runs' THEN 1 ELSE 0)
  <2> SUFFICES ASSUME NEW i \in Instants
               PROVE  fires[i] = removed'[i] + (IF RunFor(i) \in runs' THEN 1 ELSE 0)
    BY <1>1
  <2>1. fires[i] = removed[i] + (IF RunFor(i) \in runs THEN 1 ELSE 0) /\ removed[i] \in Nat
    BY <1>2 DEF CountInv
  <2>2. removed'[i] = IF i = k THEN removed[i] + 1 ELSE removed[i]
    BY <1>1, <1>4, <1>5
  <2>3. CASE i = k
    <3>1. RunFor(i) \in runs /\ RunFor(i) \notin runs'
      BY <1>1, <1>3, <2>3
    <3>2. QED
      BY <2>1, <2>2, <2>3, <3>1
  <2>4. CASE i # k
    <3>1. RunFor(i) \in runs <=> RunFor(i) \in runs'
      BY <1>1, <1>4, <2>4
    <3>2. QED
      BY <2>1, <2>2, <2>4, <3>1
  <2>5. QED
    BY <2>3, <2>4
<1>7. CountInv'
  <2>1. removed' \in [Instants -> Nat] /\ runs' \subseteq runs
    BY <1>1, <1>4, <1>5
  <2>2. QED
    BY <1>1, <1>2, <1>6, <2>1 DEF CountInv
<1>8. ClockInv' /\ PendingInv' /\ Followed'
  BY <1>1, <1>2 DEF ClockInv, PendingInv, Followed, Ticked
<1>9. QED
  BY <1>1, <1>7, <1>8 DEF SchedulerInv

LEMMA SchedulerStep == SchedulerInv /\ [SchedulerNext]_schedulerVars => SchedulerInv'
<1> SUFFICES ASSUME SchedulerInv, [SchedulerNext]_schedulerVars PROVE SchedulerInv'
  OBVIOUS
<1>1. ASSUME NEW p \in Replicas, Evaluate(p) PROVE SchedulerInv'
  BY <1>1, EvaluateStep
<1>2. ASSUME NEW p \in Replicas, CreateRun(p) PROVE SchedulerInv'
  BY <1>2, CreateStep
<1>3. CASE Minute
  BY <1>3, MinuteStep
<1>4. CASE EditSchedule
  <2>1. /\ now' = now /\ ticked' = ticked /\ schedule' \in Schedules /\ listed' = listed
        /\ born' = born /\ since' = since /\ missed' = missed /\ pending' = pending
        /\ fires' = fires /\ runs' = runs /\ removed' = removed
    BY <1>4 DEF EditSchedule
  <2>2. QED
    BY <2>1 DEF SchedulerInv, ClockInv, CountInv, PendingInv, Followed, Ticked
<1>5. CASE WatchTests
  BY <1>5, WatchTestsStep
<1>6. ASSUME NEW r \in runs, ExpireRun(r) PROVE SchedulerInv'
  BY <1>6, ExpireStep
<1>7. CASE UNCHANGED schedulerVars
  BY <1>7 DEF schedulerVars, SchedulerInv, ClockInv, CountInv, PendingInv, Followed, Ticked
<1>8. QED
  BY <1>1, <1>2, <1>3, <1>4, <1>5, <1>6, <1>7 DEF SchedulerNext

\* The inductive invariant of the scheduler: a run is its instant's, a replica holds the last
\* instant of the schedule it read, and the schedule has been followed up to now.
THEOREM SchedulerInvariance == SchedulerSpec => []SchedulerInv
<1>1. QED
  BY SchedulerInitInv, SchedulerStep, PTL DEF SchedulerSpec

\* Each instant of the schedule has its run, once, and none is made up for later, for every
\* schedule, number of replicas, outage, failed Create, edit and deleted run.
THEOREM ScheduleIsKept == SchedulerSpec => ScheduleKept
<1>1. SchedulerInv => FiredOnce
  <2> SUFFICES ASSUME SchedulerInv, NEW i \in Instants PROVE fires[i] <= 1 + removed[i]
    BY DEF FiredOnce
  <2>1. fires[i] = removed[i] + (IF RunFor(i) \in runs THEN 1 ELSE 0) /\ removed[i] \in Nat
    BY DEF SchedulerInv, CountInv
  <2>2. QED
    BY <2>1
<1>2. SchedulerInv => NoneMissed
  <2> SUFFICES ASSUME SchedulerInv, listed = schedule, NEW i \in Instants,
                      i >= born, i >= since, i < now, Fires(schedule, i),
                      NEW t \in i .. now - 1,
                      ~(t >= i + Lookback), ~(t >= NextAfter(schedule, i)), t \notin missed
               PROVE  fires[i] > 0
    BY DEF NoneMissed
  <2>1. ClockInv /\ Followed
    BY DEF SchedulerInv
  <2>2. i \in Nat /\ now \in Nat /\ now <= Horizon /\ Lookback \in Nat /\ listed \in Schedules
    BY <2>1, Constants DEF ClockInv
  <2>3. t \in Instants /\ i <= t /\ t < i + Lookback /\ Ticked(t)
    BY <2>2, Constants DEF Ticked
  <2>4. NextAfter(listed, i) \in Nat
    BY <2>2, NextIsNat
  <2>5. t < NextAfter(listed, i)
    BY <2>2, <2>4
  <2>6. QED
    BY <2>1, <2>3, <2>5 DEF Followed
<1>3. SchedulerInv /\ [SchedulerNext]_schedulerVars =>
        [\A i \in Instants : fires'[i] > fires[i] =>
          \E p \in Replicas :
              /\ pending[p].of = i /\ i >= born
              /\ \A j \in i + 1 .. pending[p].chosen : ~Fires(pending[p].from, j)]_schedulerVars
  <2> SUFFICES ASSUME SchedulerInv, SchedulerNext, NEW i \in Instants, fires'[i] > fires[i]
               PROVE  \E p \in Replicas :
                        /\ pending[p].of = i /\ i >= born
                        /\ \A j \in i + 1 .. pending[p].chosen : ~Fires(pending[p].from, j)
    OBVIOUS
  <2>1. fires[i] \in Nat
    BY DEF SchedulerInv, CountInv
  <2>2. fires' # fires
    BY <2>1
  <2>3. PICK p \in Replicas : CreateRun(p)
    BY <2>2, MinuteStep, WatchTestsStep, ExpireStep DEF SchedulerNext, Evaluate, EditSchedule
  <2>4. pending[p].of = i /\ pending[p] # NoRun
    BY <2>3, CreateStep
  <2>5. QED
    BY <2>4 DEF SchedulerInv, PendingInv
<1>4. SchedulerSpec => []FiredOnce /\ []NoneMissed
  BY <1>1, <1>2, SchedulerInvariance, PTL
<1>5. SchedulerSpec => NoBackfire
  BY <1>3, SchedulerInvariance, PTL DEF SchedulerSpec, NoBackfire
<1>6. QED
  BY <1>4, <1>5 DEF ScheduleKept

-----------------------------------------------------------------------------
(* Triggers: the informers' references.                                    *)

Attached(rg, k) == {t \in Trigs : rg[t] = k}

RefsInv ==
    /\ regs \in [Trigs -> Kinds \cup {NoKind}] /\ refs \in [Kinds -> Nat]
    /\ RefsMatch

LEMMA AttachedFinite ==
    ASSUME NEW rg, NEW k
    PROVE  IsFiniteSet(Attached(rg, k)) /\ Cardinality(Attached(rg, k)) \in Nat
<1>1. IsFiniteSet(Trigs) /\ Attached(rg, k) \subseteq Trigs
  BY TriggersAssumption DEF Attached
<1>2. IsFiniteSet(Attached(rg, k))
  BY <1>1, FS_Subset
<1>3. QED
  BY <1>2, FS_CardinalityType

\* A trigger that leaves a kind takes its reference along.
LEMMA Leave ==
    ASSUME RefsInv, NEW t \in Trigs
    PROVE  /\ Release(refs, regs[t]) \in [Kinds -> Nat]
           /\ \A k \in Kinds :
                Release(refs, regs[t])[k] = Cardinality(Attached([regs EXCEPT ![t] = NoKind], k))
<1> DEFINE rg == [regs EXCEPT ![t] = NoKind]
           rc == Release(refs, regs[t])
<1>1. /\ regs \in [Trigs -> Kinds \cup {NoKind}] /\ refs \in [Kinds -> Nat]
      /\ \A k \in Kinds : refs[k] = Cardinality(Attached(regs, k))
  BY DEF RefsInv, RefsMatch, Attached
<1>2. NoKind \notin Kinds
  BY TriggersAssumption DEF NoKind
<1>3. \A k \in Kinds : Attached(rg, k) = Attached(regs, k) \ {t}
  BY <1>1, <1>2 DEF Attached
<1> HIDE DEF rg
<1>4. ASSUME NEW k \in Kinds, k # regs[t]
      PROVE  Attached(rg, k) = Attached(regs, k)
  BY <1>3, <1>4 DEF Attached
<1>5. ASSUME NEW k \in Kinds, k = regs[t]
      PROVE  Cardinality(Attached(rg, k)) = Cardinality(Attached(regs, k)) - 1
  <2>1. t \in Attached(regs, k)
    BY <1>5 DEF Attached
  <2>2. QED
    BY <1>3, <2>1, AttachedFinite, FS_RemoveElement
<1>6. CASE regs[t] = NoKind
  <2>1. rc = refs
    BY <1>6 DEF Release
  <2>2. \A k \in Kinds : refs[k] = Cardinality(Attached(rg, k))
    BY <1>1, <1>2, <1>4, <1>6
  <2>3. QED
    BY <1>1, <2>1, <2>2 DEF rg
<1>7. CASE regs[t] # NoKind
  <2>1. rc = [refs EXCEPT ![regs[t]] = @ - 1] /\ regs[t] \in Kinds
    BY <1>1, <1>7 DEF Release
  <2>2. \A k \in Kinds : rc[k] = IF k = regs[t] THEN refs[k] - 1 ELSE refs[k]
    BY <1>1, <2>1
  <2>3. \A k \in Kinds : rc[k] = Cardinality(Attached(rg, k))
    BY <1>1, <1>4, <1>5, <2>2
  <2>4. \A k \in Kinds : rc[k] \in Nat
    BY <2>3, AttachedFinite
  <2>5. rc \in [Kinds -> Nat]
    BY <1>1, <2>1, <2>4
  <2>6. QED
    BY <2>3, <2>5 DEF rg
<1>8. QED
  BY <1>6, <1>7

LEMMA UnregisterStep == ASSUME RefsInv, NEW t \in Trigs, Unregister(t) PROVE RefsInv'
<1>1. /\ regs' = [regs EXCEPT ![t] = NoKind] /\ refs' = Release(refs, regs[t])
  BY DEF Unregister
<1>2. regs' \in [Trigs -> Kinds \cup {NoKind}]
  BY <1>1 DEF RefsInv
<1>3. refs' \in [Kinds -> Nat] /\ \A k \in Kinds : refs'[k] = Cardinality(Attached(regs', k))
  BY <1>1, Leave
<1>4. QED
  BY <1>2, <1>3 DEF RefsInv, RefsMatch, Attached

LEMMA RegisterStep ==
    ASSUME RefsInv, NEW t \in Trigs, NEW k \in Kinds, Register(t, k)
    PROVE  RefsInv'
<1>1. regs \in [Trigs -> Kinds \cup {NoKind}] /\ regs' = [regs EXCEPT ![t] = k]
  BY DEF RefsInv, Register
<1>2. regs' \in [Trigs -> Kinds \cup {NoKind}]
  BY <1>1
<1>3. CASE regs[t] = k
  <2>1. regs' = regs /\ refs' = refs
    BY <1>1, <1>3 DEF Register
  <2>2. QED
    BY <2>1 DEF RefsInv, RefsMatch
<1>4. CASE regs[t] # k
  <2> DEFINE rg == [regs EXCEPT ![t] = NoKind]
             rc == Release(refs, regs[t])
  <2>1. refs' = [rc EXCEPT ![k] = @ + 1]
    BY <1>4 DEF Register
  <2>2. rc \in [Kinds -> Nat] /\ \A j \in Kinds : rc[j] = Cardinality(Attached(rg, j))
    BY Leave
  <2>3. NoKind \notin Kinds
    BY TriggersAssumption DEF NoKind
  <2>4. Attached(regs', k) = Attached(rg, k) \cup {t} /\ t \notin Attached(rg, k)
    BY <1>1, <2>3 DEF Attached
  <2>5. \A j \in Kinds \ {k} : Attached(regs', j) = Attached(rg, j)
    BY <1>1, <2>3 DEF Attached
  <2> HIDE DEF rg, rc
  <2>6. Cardinality(Attached(regs', k)) = Cardinality(Attached(rg, k)) + 1
    BY <2>4, AttachedFinite, FS_AddElement
  <2>7. \A j \in Kinds : refs'[j] = IF j = k THEN rc[j] + 1 ELSE rc[j]
    BY <2>1, <2>2
  <2>8. \A j \in Kinds : refs'[j] = Cardinality(Attached(regs', j))
    BY <2>2, <2>5, <2>6, <2>7
  <2>9. refs' \in [Kinds -> Nat]
    BY <2>1, <2>2
  <2>10. QED
    BY <1>2, <2>8, <2>9 DEF RefsInv, RefsMatch, Attached
<1>5. QED
  BY <1>3, <1>4

\* An informer runs for a kind exactly while triggers are registered for it, and its count is
\* theirs, for any number of triggers that move, fail to register or go.
THEOREM ReferencesMatch == TriggersSpec => []RefsMatch
<1>1. TriggersInit => RefsInv
  <2> SUFFICES ASSUME TriggersInit PROVE RefsInv
    OBVIOUS
  <2>1. regs = [t \in Trigs |-> NoKind] /\ refs = [k \in Kinds |-> 0] /\ NoKind \notin Kinds
    BY TriggersAssumption DEF TriggersInit, NoKind
  <2>2. \A k \in Kinds : {t \in Trigs : regs[t] = k} = {}
    BY <2>1
  <2>3. QED
    BY <2>1, <2>2, FS_EmptySet DEF RefsInv, RefsMatch
<1>2. RefsInv /\ [TriggersNext]_triggersVars => RefsInv'
  <2> SUFFICES ASSUME RefsInv, [TriggersNext]_triggersVars PROVE RefsInv'
    OBVIOUS
  <2>1. ASSUME NEW t \in Trigs, ReconcileTrigger(t) PROVE RefsInv'
    <3>1. Resolved(trigCache[t]) # NoKind => Resolved(trigCache[t]) \in Kinds
      BY DEF Resolved
    <3>2. \/ Unregister(t)
          \/ Resolved(trigCache[t]) # NoKind /\ Register(t, Resolved(trigCache[t]))
      BY <2>1 DEF ReconcileTrigger, RegisterFails
    <3>3. QED
      BY <3>1, <3>2, UnregisterStep, RegisterStep
  <2>2. CASE RestartTriggers
    <3>1. regs' = [t \in Trigs |-> NoKind] /\ refs' = [k \in Kinds |-> 0] /\ NoKind \notin Kinds
      BY <2>2, TriggersAssumption DEF RestartTriggers, NoKind
    <3>2. \A k \in Kinds : {t \in Trigs : regs'[t] = k} = {}
      BY <3>1
    <3>3. QED
      BY <3>1, <3>2, FS_EmptySet DEF RefsInv, RefsMatch
  <2>3. CASE regs' = regs /\ refs' = refs
    BY <2>3 DEF RefsInv, RefsMatch
  <2>4. QED
    BY <2>1, <2>2, <2>3 DEF TriggersNext, triggersVars, informerVars, EditTrigger, WatchTriggers,
         Deliver, ChangeObject, HandleEvent, StartEvaluate, Fire, FireFails, FireSkipped, NotReady,
         WatchRuns, RunEnds
<1>3. RefsInv => RefsMatch
  BY DEF RefsInv
<1>4. QED
  BY <1>1, <1>2, <1>3, PTL DEF TriggersSpec

-----------------------------------------------------------------------------
(* Triggers: the gates' times.                                             *)

IsGate(g) == g = [age |-> g.age, spec |-> g.spec, obj |-> g.obj, held |-> g.held]

\* A gate was armed after the last fire, so it is no older than that is; the walk visits
\* gates that are there.
GateInv ==
    /\ triggers \in [Trigs -> TriggerSpecs \cup {NoTrigger}]
    /\ trigCache \in [Trigs -> TriggerSpecs \cup {NoTrigger}]
    /\ quiet \in [Keys -> Nat] /\ gates = [k \in Keys |-> gates[k]]
    /\ walk \subseteq {k \in Keys : gates[k] # NoGate}
    /\ \A k \in Keys : gates[k] # NoGate =>
          /\ IsGate(gates[k]) /\ gates[k].spec \in TriggerSpecs
          /\ gates[k].age \in Nat /\ gates[k].age <= quiet[k]

LEMMA Aging ==
    ASSUME NEW a \in Nat, NEW b \in Nat, a <= b
    PROVE  Older(a) \in Nat /\ Older(b) \in Nat /\ Older(a) <= Older(b) /\ (b > 0 => Older(b) > 0)
<1>1. MaxAge \in Nat
  BY TriggersAssumption
<1>2. QED
  BY <1>1 DEF Older

LEMMA HandleEventGates == ASSUME GateInv, HandleEvent PROVE GateInv' /\ quiet' = quiet
<1>1. triggers' = triggers /\ trigCache' = trigCache /\ quiet' = quiet
  BY DEF HandleEvent, clusterVars
<1>2. PICK held \in {0, MaxAge} :
        gates' = [k \in Keys |->
                     IF k[2] = Head(out).of /\ Matches(trigCache[k[1]], Head(out))
                     THEN Armed(k[1], Head(out), held) ELSE gates[k]]
  BY DEF HandleEvent
<1>3. ASSUME NEW k \in Keys, gates'[k] # NoGate
      PROVE  /\ IsGate(gates'[k]) /\ gates'[k].spec \in TriggerSpecs
             /\ gates'[k].age \in Nat /\ gates'[k].age <= quiet[k]
  <2>1. CASE k[2] = Head(out).of /\ Matches(trigCache[k[1]], Head(out))
    <3>1. gates'[k] = [age |-> 0, spec |-> trigCache[k[1]], obj |-> Head(out).obj, held |-> held]
      BY <1>2, <2>1 DEF Armed
    <3>2. k[1] \in Trigs /\ trigCache[k[1]] # NoTrigger
      BY <2>1 DEF Matches, Keys
    <3>3. trigCache[k[1]] \in TriggerSpecs /\ quiet[k] \in Nat
      BY <3>2 DEF GateInv
    <3>4. QED
      BY <3>1, <3>3 DEF IsGate
  <2>2. CASE ~(k[2] = Head(out).of /\ Matches(trigCache[k[1]], Head(out)))
    <3>1. gates'[k] = gates[k]
      BY <1>2, <2>2
    <3>2. QED
      BY <1>3, <3>1 DEF GateInv
  <2>3. QED
    BY <2>1, <2>2
<1>4. gates' = [k \in Keys |-> gates'[k]] /\ walk' = {}
  BY <1>2 DEF HandleEvent
<1>5. QED
  BY <1>1, <1>3, <1>4 DEF GateInv

LEMMA EvaluateGates ==
    ASSUME GateInv, StartEvaluate
    PROVE  GateInv' /\ \A k \in Keys : quiet'[k] = 0 => quiet[k] = 0
<1>1. /\ triggers' = triggers /\ trigCache' = trigCache
      /\ quiet' = [k \in Keys |-> Older(quiet[k])]
      /\ gates' = [k \in Keys |-> IF gates[k] = NoGate THEN NoGate
                                  ELSE [gates[k] EXCEPT !.age = Older(@), !.held = Older(@)]]
  BY DEF StartEvaluate, clusterVars
<1>2. ASSUME NEW k \in Keys
      PROVE  quiet'[k] \in Nat /\ (quiet'[k] = 0 => quiet[k] = 0)
  <2>1. quiet[k] \in Nat
    BY DEF GateInv
  <2>2. quiet'[k] = Older(quiet[k])
    BY <1>1, Zenon
  <2>3. Older(quiet[k]) \in Nat /\ (quiet[k] > 0 => Older(quiet[k]) > 0)
    <3>1. quiet[k] <= quiet[k]
      BY <2>1
    <3>2. QED
      BY <2>1, <3>1, Aging, Zenon
  <2>4. QED
    BY <2>1, <2>2, <2>3
<1>3. ASSUME NEW k \in Keys, gates'[k] # NoGate
      PROVE  /\ IsGate(gates'[k]) /\ gates'[k].spec \in TriggerSpecs
             /\ gates'[k].age \in Nat /\ gates'[k].age <= quiet'[k]
  <2> DEFINE g == gates[k]
  <2>1. g # NoGate /\ gates'[k] = [g EXCEPT !.age = Older(@), !.held = Older(@)]
    BY <1>1, <1>3
  <2>2. IsGate(g) /\ g.spec \in TriggerSpecs /\ g.age \in Nat /\ g.age <= quiet[k] /\ quiet[k] \in Nat
    BY <2>1 DEF GateInv
  <2> HIDE DEF g
  <2>3. gates'[k] = [age |-> Older(g.age), spec |-> g.spec, obj |-> g.obj, held |-> Older(g.held)]
    BY <2>1, <2>2 DEF IsGate
  <2>4. Older(g.age) \in Nat /\ Older(g.age) <= Older(quiet[k])
    BY <2>2, Aging
  <2>5. IsGate(gates'[k]) /\ gates'[k].spec = g.spec /\ gates'[k].age = Older(g.age)
    BY <2>3 DEF IsGate
  <2>6. quiet'[k] = Older(quiet[k])
    BY <1>1
  <2>7. QED
    BY <2>2, <2>4, <2>5, <2>6
<1>4. /\ gates' = [k \in Keys |-> gates'[k]] /\ quiet' \in [Keys -> Nat]
      /\ walk' \subseteq {k \in Keys : gates'[k] # NoGate}
  <2>1. walk' = {k \in Keys : gates'[k] # NoGate}
    BY <1>1 DEF StartEvaluate
  <2>2. QED
    BY <1>1, <1>2, <2>1
<1>5. QED
  BY <1>1, <1>2, <1>3, <1>4 DEF GateInv

LEMMA FireGates ==
    ASSUME GateInv, NEW k \in Keys, Fire(k)
    PROVE  /\ GateInv'
           /\ \A l \in Keys : quiet'[l] = 0 /\ quiet[l] # 0 => l = k
           /\ quiet[k] >= gates[k].spec.delay
<1>0. k \in walk /\ walk' = walk \ {k} /\ gates[k] # NoGate
  BY DEF Fire, Visit, GateInv
<1>1. /\ triggers' = triggers /\ trigCache' = trigCache
      /\ quiet' = [quiet EXCEPT ![k] = 0] /\ gates' = [gates EXCEPT ![k] = NoGate]
      /\ gates[k].age >= gates[k].spec.delay
  BY DEF Fire, Fired, Gone, Ready
<1>2. \A l \in Keys : quiet'[l] = IF l = k THEN 0 ELSE quiet[l]
  BY <1>1 DEF GateInv
<1>3. \A l \in Keys : gates'[l] = IF l = k THEN NoGate ELSE gates[l]
  BY <1>1 DEF GateInv
<1>4. gates' = [l \in Keys |-> gates'[l]] /\ quiet' \in [Keys -> Nat]
  BY <1>1 DEF GateInv
<1>5. GateInv'
  BY <1>0, <1>1, <1>2, <1>3, <1>4 DEF GateInv
<1>6. quiet[k] >= gates[k].spec.delay
  <2>1. gates[k].age \in Nat /\ gates[k].age <= quiet[k] /\ quiet[k] \in Nat
    BY <1>0 DEF GateInv
  <2>2. gates[k].spec.delay \in Nat
    BY <1>0, TriggersAssumption DEF GateInv
  <2>3. QED
    BY <1>1, <2>1, <2>2
<1>7. QED
  BY <1>2, <1>5, <1>6

LEMMA VisitGates ==
    ASSUME GateInv, NEW k \in Keys, FireFails(k) \/ FireSkipped(k) \/ NotReady(k)
    PROVE  GateInv' /\ quiet' = quiet
<1>1. /\ triggers' = triggers /\ trigCache' = trigCache /\ quiet' = quiet /\ walk' = walk \ {k}
      /\ gates' = gates \/ gates' = [gates EXCEPT ![k] = NoGate]
  BY DEF FireFails, FireSkipped, NotReady, Visit, Gone, clusterVars
<1>2. gates' = [l \in Keys |-> gates'[l]] /\ \A l \in Keys : gates'[l] = gates[l] \/ (l = k /\ gates'[l] = NoGate)
  BY <1>1 DEF GateInv
<1>3. QED
  BY <1>1, <1>2 DEF GateInv

\* What the rest of the system does leaves the gates and the times alone, or clears them.
LEMMA OtherGates ==
    ASSUME GateInv, TriggersNext, gates' = gates /\ walk' = walk /\ quiet' = quiet
    PROVE  GateInv'
<1>1. ASSUME NEW t \in Trigs, EditTrigger(t) PROVE GateInv'
  <2>1. trigCache' = trigCache /\ triggers' \in [Trigs -> TriggerSpecs \cup {NoTrigger}]
    BY <1>1 DEF EditTrigger, GateInv
  <2>2. QED
    BY <2>1 DEF GateInv
<1>2. ASSUME NEW t \in Trigs, WatchTriggers(t) PROVE GateInv'
  <2>1. triggers' = triggers /\ trigCache' \in [Trigs -> TriggerSpecs \cup {NoTrigger}]
    BY <1>2 DEF WatchTriggers, clusterVars, GateInv
  <2>2. QED
    BY <2>1 DEF GateInv
<1>3. CASE RestartTriggers
  <2>1. triggers' = triggers /\ trigCache' = triggers
    BY <1>3 DEF RestartTriggers, clusterVars
  <2>2. QED
    BY <2>1 DEF GateInv
<1>4. CASE triggers' = triggers /\ trigCache' = trigCache
  BY <1>4 DEF GateInv
<1>5. QED
  BY <1>1, <1>2, <1>3, <1>4 DEF TriggersNext, clusterVars, ReconcileTrigger, Deliver, ChangeObject,
       HandleEvent, StartEvaluate, Fire, FireFails, FireSkipped, NotReady, WatchRuns, RunEnds

LEMMA GatesStep ==
    ASSUME GateInv, TriggersNext
    PROVE  /\ GateInv'
           /\ \A k \in Keys : quiet'[k] = 0 /\ quiet[k] # 0 => quiet[k] >= gates[k].spec.delay
<1>1. CASE HandleEvent
  BY <1>1, HandleEventGates
<1>2. CASE StartEvaluate
  BY <1>2, EvaluateGates
<1>3. ASSUME NEW k \in Keys, Fire(k)
      PROVE  /\ GateInv'
             /\ \A l \in Keys : quiet'[l] = 0 /\ quiet[l] # 0 => quiet[l] >= gates[l].spec.delay
  BY <1>3, FireGates
<1>4. ASSUME NEW k \in Keys, FireFails(k) \/ FireSkipped(k) \/ NotReady(k)
      PROVE  GateInv' /\ quiet' = quiet
  BY <1>4, VisitGates
<1>5. CASE RestartTriggers
  <2>1. /\ triggers' = triggers /\ trigCache' = triggers /\ quiet' = quiet /\ walk' = {}
        /\ gates' = [k \in Keys |-> NoGate]
    BY <1>5 DEF RestartTriggers, clusterVars
  <2>2. QED
    BY <2>1 DEF GateInv
<1>6. CASE gates' = gates /\ walk' = walk /\ quiet' = quiet
  BY <1>6, OtherGates
<1>7. QED
  BY <1>1, <1>2, <1>3, <1>4, <1>5, <1>6 DEF TriggersNext, ReconcileTrigger, EditTrigger,
       WatchTriggers, Deliver, ChangeObject, WatchRuns, RunEnds

\* A trigger fires again for an object only a whole delay after its last fire, for any specs
\* and however events, edits, failing fires and restarts fall.
THEOREM FiresAreApart == TriggersSpec => FiresAreSpaced
<1>1. TriggersInit => GateInv
  <2> SUFFICES ASSUME TriggersInit PROVE GateInv
    OBVIOUS
  <2>1. MaxAge \in Nat /\ quiet = [k \in Keys |-> MaxAge] /\ gates = [k \in Keys |-> NoGate]
    BY TriggersAssumption DEF TriggersInit
  <2>2. triggers = [t \in Trigs |-> NoTrigger] /\ trigCache = triggers /\ walk = {}
    BY DEF TriggersInit
  <2>3. quiet \in [Keys -> Nat] /\ gates = [k \in Keys |-> gates[k]]
    BY <2>1
  <2>4. QED
    BY <2>1, <2>2, <2>3 DEF GateInv
<1>2. GateInv /\ [TriggersNext]_triggersVars => GateInv'
  <2>1. ASSUME GateInv, UNCHANGED triggersVars PROVE GateInv'
    BY <2>1 DEF triggersVars, clusterVars, GateInv
  <2>2. QED
    BY <2>1, GatesStep
<1>3. GateInv /\ [TriggersNext]_triggersVars =>
        [\A k \in Keys : quiet'[k] = 0 /\ quiet[k] # 0
                           => quiet[k] >= gates[k].spec.delay]_triggersVars
  BY GatesStep
<1>4. QED
  BY <1>1, <1>2, <1>3, PTL DEF TriggersSpec, FiresAreSpaced

-----------------------------------------------------------------------------
(* Webhooks: queues.                                                       *)

LEMMA AppendFacts ==
    ASSUME NEW S, NEW s \in Seq(S), NEW e \in S
    PROVE  /\ Append(s, e) \in Seq(S) /\ Len(Append(s, e)) = Len(s) + 1
           /\ \A k \in 1 .. Len(s) + 1 : Append(s, e)[k] = IF k = Len(s) + 1 THEN e ELSE s[k]
  OBVIOUS

LEMMA TailFacts ==
    ASSUME NEW S, NEW s \in Seq(S), s # <<>>
    PROVE  /\ Tail(s) \in Seq(S) /\ Len(Tail(s)) = Len(s) - 1 /\ Len(s) \in Nat /\ Len(s) > 0
           /\ Head(s) = s[1] /\ Head(s) \in S
           /\ \A k \in 1 .. Len(s) - 1 : Tail(s)[k] = s[k + 1]
  OBVIOUS

LEMMA Buffer == QueueBuffer \in Nat /\ QueueBuffer > 0 /\ 0 <= QueueBuffer
<1>1. QueueBuffer \in Nat /\ QueueBuffer # 0
  BY DeliveryAssumption
<1> QED  BY <1>1

LEMMA EmptyFacts == ASSUME NEW S PROVE <<>> \in Seq(S) /\ Len(<<>>) = 0 /\ 1 .. 0 = {}
  OBVIOUS

-----------------------------------------------------------------------------
(* The inductive invariant.                                                *)

Delivery == [job : Jobs, attempt : Nat]
Listing == [step : {"list"}, run : Runs]
Sending == [step : {"send"}, run : Runs, hooks : SUBSET Hooks]
Dropping == [step : {"drop", "resend"}, run : Runs, hooks : SUBSET Hooks, hook : Hooks]

TypeInv ==
    /\ phase \in [Runs -> Phases \cup {""}]
    /\ announcing \in [Reconcilers -> {Free} \cup Listing \cup Sending \cup Dropping]
    /\ queue \in Seq(Jobs) /\ worker \in [Pool -> {NoDelivery} \cup Delivery]
    /\ accepted \subseteq Jobs /\ tries \in [Jobs -> Nat]

\* The hooks that a reconciler has yet to enqueue for.
ToSend(a) == IF a.step = "list" THEN Hooks ELSE a.hooks

\* A run is announced once: what is still to be enqueued never was.
Once ==
    /\ \A r \in Runs, h \in Hooks : phase[r] = "" => <<r, h>> \notin accepted
    /\ \A p \in Reconcilers : announcing[p] # Free =>
          /\ phase[announcing[p].run] # ""
          /\ \A h \in ToSend(announcing[p]) : <<announcing[p].run, h>> \notin accepted
          /\ announcing[p] \in Dropping => announcing[p].hook \in announcing[p].hooks

\* A job waits in one place, untried, or is being delivered.
Waiting ==
    /\ Len(queue) <= QueueBuffer
    /\ \A k \in 1 .. Len(queue) :
          /\ queue[k] \in accepted /\ tries[queue[k]] = 0
          /\ \A l \in 1 .. Len(queue) : queue[k] = queue[l] => k = l
          /\ \A i \in Pool : worker[i] # NoDelivery => worker[i].job # queue[k]
    /\ \A i \in Pool : worker[i] # NoDelivery => worker[i].job \in accepted
    /\ \A j \in Jobs \ accepted : tries[j] = 0

\* The room that was made is still there.
Room == \A p \in Reconcilers : announcing[p].step = "resend" => Len(queue) < QueueBuffer

Inv == TypeInv /\ Once /\ Waiting /\ Room

\* MaxConcurrentReconciles is 1.
Sole == \A p, q \in Reconcilers : p = q

LEMMA AnnouncingTyped ==
    ASSUME TypeInv, NEW p \in Reconcilers
    PROVE  /\ announcing[p].step = "list" => announcing[p] \in Listing /\ announcing[p].run \in Runs
           /\ announcing[p].step = "send" =>
                 announcing[p] \in Sending /\ announcing[p].run \in Runs /\ announcing[p].hooks \subseteq Hooks
           /\ announcing[p].step \in {"drop", "resend"} =>
                 /\ announcing[p] \in Dropping /\ announcing[p].run \in Runs
                 /\ announcing[p].hooks \subseteq Hooks /\ announcing[p].hook \in Hooks
           /\ announcing[p].step \in {"list", "send", "drop", "resend"} => announcing[p] # Free
<1>1. Free.step = "free"
  BY DEF Free
<1>2. ASSUME NEW a \in Listing PROVE a.step = "list" /\ a.run \in Runs
  BY DEF Listing
<1>3. ASSUME NEW a \in Sending PROVE a.step = "send" /\ a.run \in Runs /\ a.hooks \subseteq Hooks
  BY DEF Sending
<1>4. ASSUME NEW a \in Dropping
      PROVE  a.step \in {"drop", "resend"} /\ a.run \in Runs /\ a.hooks \subseteq Hooks /\ a.hook \in Hooks
  BY DEF Dropping
<1>5. announcing[p] \in {Free} \cup Listing \cup Sending \cup Dropping
  BY DEF TypeInv
<1> QED  BY <1>1, <1>2, <1>3, <1>4, <1>5

\* The one reconciler goes on to a.
LEMMA Moves ==
    ASSUME Sole, TypeInv, NEW p \in Reconcilers, NEW a, announcing' = [announcing EXCEPT ![p] = a]
    PROVE  \A q \in Reconcilers : announcing'[q] = a
  BY DEF Sole, TypeInv

LEMMA FreeFacts == Free.step # "resend" /\ Free \notin Dropping
  BY DEF Free, Dropping

-----------------------------------------------------------------------------
(* The reconciler's steps.                                                 *)

LEMMA EndRunStep ==
    ASSUME Sole, Inv, NEW p \in Reconcilers, NEW r \in Runs, NEW ph \in Phases, EndRun(p, r, ph)
    PROVE  Inv'
<1>1. /\ announcing[p] = Free /\ phase[r] = "" /\ phase' = [phase EXCEPT ![r] = ph]
      /\ \/ announcing' = [announcing EXCEPT ![p] = [step |-> "list", run |-> r]]
         \/ announcing' = announcing
      /\ queue' = queue /\ worker' = worker /\ accepted' = accepted /\ tries' = tries
  BY DEF EndRun
<1>2. TypeInv /\ ph # ""
  BY DeliveryAssumption DEF Inv
<1> DEFINE a == [step |-> "list", run |-> r]
<1>3. a \in Listing /\ a.step = "list" /\ a.run = r /\ a \notin Dropping
  BY DEF Listing, Dropping
<1>4. ASSUME NEW q \in Reconcilers PROVE announcing'[q] = Free \/ announcing'[q] = a
  <2>1. q = p
    BY DEF Sole
  <2> QED  BY <1>1, <1>2, <2>1 DEF TypeInv
<1> HIDE DEF a
<1>5. TypeInv'
  <2>1. (phase \in [Runs -> Phases \cup {""}])'
    BY <1>1, <1>2 DEF TypeInv
  <2>2. (announcing \in [Reconcilers -> {Free} \cup Listing \cup Sending \cup Dropping])'
    BY <1>1, <1>2, <1>3 DEF TypeInv, a
  <2> QED  BY <1>1, <1>2, <2>1, <2>2 DEF TypeInv
<1>6. \A s \in Runs : phase'[s] = IF s = r THEN ph ELSE phase[s]
  BY <1>1, <1>2 DEF TypeInv
<1>7. Once'
  <2>1. \A h \in Hooks : <<r, h>> \notin accepted
    BY <1>1 DEF Inv, Once
  <2>2. \A s \in Runs, h \in Hooks : phase'[s] = "" => <<s, h>> \notin accepted
    BY <1>2, <1>6 DEF Inv, Once
  <2>3. phase'[r] # ""
    BY <1>2, <1>6
  <2>4. ToSend(a) = Hooks
    BY <1>3 DEF ToSend
  <2>5. ASSUME NEW q \in Reconcilers, announcing'[q] # Free
        PROVE  /\ phase'[announcing'[q].run] # ""
               /\ \A h \in ToSend(announcing'[q]) : <<announcing'[q].run, h>> \notin accepted
               /\ announcing'[q] \notin Dropping
    <3>1. announcing'[q] = a
      BY <1>4, <2>5
    <3> QED  BY <1>3, <2>1, <2>3, <2>4, <3>1
  <2> QED  BY <1>1, <2>2, <2>5 DEF Once
<1>8. Waiting'
  BY <1>1 DEF Inv, Waiting
<1>9. Room'
  BY <1>3, <1>4, FreeFacts DEF Room
<1> QED  BY <1>5, <1>7, <1>8, <1>9 DEF Inv

\* Dedup, or a list that fails, ends the announcement; else it goes on with the hooks listed.
LEMMA DispatchWebhooksStep ==
    ASSUME Sole, Inv, NEW p \in Reconcilers, DispatchWebhooks(p)
    PROVE  Inv'
<1> DEFINE r == announcing[p].run
           a == [step |-> "send", run |-> r, hooks |-> {h \in Hooks : EventMatches(h, phase[r])}]
<1>1. /\ announcing[p].step = "list"
      /\ announcing' \in {[announcing EXCEPT ![p] = Free], [announcing EXCEPT ![p] = a]}
      /\ phase' = phase /\ queue' = queue /\ worker' = worker /\ accepted' = accepted /\ tries' = tries
  BY DEF DispatchWebhooks
<1>2. TypeInv /\ r \in Runs /\ announcing[p] # Free
  BY <1>1, AnnouncingTyped DEF Inv
<1>3. a \in Sending /\ a.step = "send" /\ a.run = r /\ a.hooks \subseteq Hooks /\ a \notin Dropping
  BY <1>2 DEF Sending, Dropping
<1> HIDE DEF a
<1>4. \A q \in Reconcilers : announcing'[q] \in {Free, a}
  BY <1>1, <1>2, Moves
<1>5. TypeInv'
  <2>1. (announcing \in [Reconcilers -> {Free} \cup Listing \cup Sending \cup Dropping])'
    BY <1>1, <1>2, <1>3 DEF TypeInv
  <2> QED  BY <1>1, <1>2, <2>1 DEF TypeInv
<1>6. Once'
  <2>1. phase[r] # "" /\ \A h \in Hooks : <<r, h>> \notin accepted
    BY <1>1, <1>2 DEF Inv, Once, ToSend
  <2>2. ToSend(a) \subseteq Hooks
    BY <1>3 DEF ToSend
  <2> HIDE DEF r
  <2>3. ASSUME NEW q \in Reconcilers, announcing'[q] # Free
        PROVE  /\ phase[announcing'[q].run] # ""
               /\ \A h \in ToSend(announcing'[q]) : <<announcing'[q].run, h>> \notin accepted
               /\ announcing'[q] \notin Dropping
    <3>1. announcing'[q] = a
      BY <1>4, <2>3
    <3> QED  BY <1>3, <2>1, <2>2, <3>1
  <2>4. \A s \in Runs, h \in Hooks : phase[s] = "" => <<s, h>> \notin accepted
    BY DEF Inv, Once
  <2> QED  BY <1>1, <2>3, <2>4 DEF Once
<1>7. Waiting'
  BY <1>1 DEF Inv, Waiting
<1>8. Room'
  BY <1>3, <1>4, FreeFacts DEF Room
<1> QED  BY <1>5, <1>6, <1>7, <1>8 DEF Inv

LEMMA AnnouncedStep ==
    ASSUME Sole, Inv, NEW p \in Reconcilers, Announced(p)
    PROVE  Inv'
<1>1. /\ announcing' = [announcing EXCEPT ![p] = Free]
      /\ phase' = phase /\ queue' = queue /\ worker' = worker /\ accepted' = accepted /\ tries' = tries
  BY DEF Announced
<1>2. TypeInv /\ \A q \in Reconcilers : announcing'[q] = Free
  BY <1>1, Moves DEF Inv
<1>3. TypeInv'
  BY <1>1, <1>2 DEF TypeInv
<1>4. Once'
  BY <1>1, <1>2 DEF Inv, Once
<1>5. Waiting'
  BY <1>1 DEF Inv, Waiting
<1>6. Room'
  BY <1>2, FreeFacts DEF Room
<1> QED  BY <1>3, <1>4, <1>5, <1>6 DEF Inv

\* A job that was never accepted joins the queue.
LEMMA QueueGrows ==
    ASSUME Inv, NEW j \in Jobs, j \notin accepted, Len(queue) < QueueBuffer,
           queue' = Append(queue, j), accepted' = accepted \cup {j}, worker' = worker, tries' = tries
    PROVE  queue' \in Seq(Jobs) /\ Waiting'
<1>0. queue \in Seq(Jobs)
  BY DEF Inv, TypeInv
<1>1. queue \in Seq(Jobs) /\ Len(queue) \in Nat /\ QueueBuffer \in Nat
  BY <1>0, Buffer
<1>2. /\ queue' \in Seq(Jobs) /\ Len(queue') = Len(queue) + 1
      /\ \A k \in 1 .. Len(queue) + 1 : queue'[k] = IF k = Len(queue) + 1 THEN j ELSE queue[k]
  BY <1>1, AppendFacts
<1>3. Len(queue') <= QueueBuffer
  BY <1>1, <1>2
<1>4. \A k \in 1 .. Len(queue) : queue[k] # j
  BY DEF Inv, Waiting
<1>5. tries[j] = 0
  BY DEF Inv, Waiting
<1>6. ASSUME NEW k \in 1 .. Len(queue')
      PROVE  /\ queue'[k] \in accepted' /\ tries[queue'[k]] = 0
             /\ \A l \in 1 .. Len(queue') : queue'[k] = queue'[l] => k = l
             /\ \A i \in Pool : worker[i] # NoDelivery => worker[i].job # queue'[k]
  <2>1. CASE k = Len(queue) + 1
    <3>1. queue'[k] = j
      BY <1>2, <2>1
    <3>2. \A l \in 1 .. Len(queue') : queue'[l] = j => l = Len(queue) + 1
      BY <1>1, <1>2, <1>4
    <3> QED  BY <1>5, <2>1, <3>1, <3>2 DEF Inv, Waiting
  <2>2. CASE k # Len(queue) + 1
    <3>1. k \in 1 .. Len(queue) /\ queue'[k] = queue[k]
      BY <1>1, <1>2, <2>2
    <3>2. ASSUME NEW l \in 1 .. Len(queue'), queue'[k] = queue'[l] PROVE k = l
      <4>1. l \in 1 .. Len(queue) /\ queue'[l] = queue[l]
        BY <1>1, <1>2, <1>4, <3>1, <3>2
      <4> QED  BY <3>1, <3>2, <4>1 DEF Inv, Waiting
    <3> QED  BY <3>1, <3>2 DEF Inv, Waiting
  <2> QED  BY <2>1, <2>2
<1> QED  BY <1>2, <1>3, <1>6 DEF Inv, Waiting

\* The oldest job leaves the queue.
LEMMA QueueShrinks ==
    ASSUME Inv, queue # <<>>, queue' = Tail(queue)
    PROVE  /\ queue' \in Seq(Jobs) /\ Len(queue') < QueueBuffer /\ Len(queue') <= QueueBuffer
           /\ Head(queue) \in Jobs /\ Head(queue) \in accepted /\ tries[Head(queue)] = 0
           /\ \A k \in 1 .. Len(queue') :
                 /\ queue'[k] \in accepted /\ tries[queue'[k]] = 0 /\ queue'[k] # Head(queue)
                 /\ \A l \in 1 .. Len(queue') : queue'[k] = queue'[l] => k = l
                 /\ \A i \in Pool : worker[i] # NoDelivery => worker[i].job # queue'[k]
<1>1. queue \in Seq(Jobs) /\ QueueBuffer \in Nat /\ Len(queue) <= QueueBuffer
  BY Buffer DEF Inv, TypeInv, Waiting
<1>2. /\ queue' \in Seq(Jobs) /\ Len(queue') = Len(queue) - 1 /\ Len(queue) \in Nat /\ Len(queue) > 0
      /\ Head(queue) = queue[1] /\ Head(queue) \in Jobs
      /\ \A k \in 1 .. Len(queue) - 1 : queue'[k] = queue[k + 1]
  BY <1>1, TailFacts
<1>3. Len(queue') < QueueBuffer /\ Len(queue') <= QueueBuffer
  BY <1>1, <1>2
<1>4. 1 \in 1 .. Len(queue)
  BY <1>2
<1>5. Head(queue) \in accepted /\ tries[Head(queue)] = 0
  BY <1>2, <1>4 DEF Inv, Waiting
<1>6. ASSUME NEW k \in 1 .. Len(queue')
      PROVE  /\ queue'[k] \in accepted /\ tries[queue'[k]] = 0 /\ queue'[k] # Head(queue)
             /\ \A l \in 1 .. Len(queue') : queue'[k] = queue'[l] => k = l
             /\ \A i \in Pool : worker[i] # NoDelivery => worker[i].job # queue'[k]
  <2>1. k \in Nat /\ k + 1 \in 1 .. Len(queue) /\ k + 1 # 1 /\ queue'[k] = queue[k + 1]
    BY <1>2
  <2>2. ASSUME NEW l \in 1 .. Len(queue'), queue'[k] = queue'[l] PROVE k = l
    <3>1. l \in Nat /\ l + 1 \in 1 .. Len(queue) /\ queue'[l] = queue[l + 1]
      BY <1>2
    <3>2. k + 1 = l + 1
      BY <2>1, <2>2, <3>1 DEF Inv, Waiting
    <3> QED  BY <2>1, <3>1, <3>2
  <2> QED  BY <1>2, <1>4, <2>1, <2>2 DEF Inv, Waiting
<1> QED  BY <1>2, <1>3, <1>5, <1>6

\* The reconciler is done with h, and the job is accepted.
LEMMA SentStep ==
    ASSUME Sole, Inv, NEW p \in Reconcilers, announcing[p].step \in {"send", "resend"},
           NEW h \in announcing[p].hooks, announcing' = Sent(p, h), phase' = phase,
           accepted' = accepted \cup {<<announcing[p].run, h>>}
    PROVE  /\ announcing' \in [Reconcilers -> {Free} \cup Listing \cup Sending \cup Dropping]
           /\ accepted' \subseteq Jobs /\ Once' /\ \A q \in Reconcilers : announcing'[q].step = "send"
<1> DEFINE r == announcing[p].run
           hooks == announcing[p].hooks
           a == [step |-> "send", run |-> r, hooks |-> hooks \ {h}]
<1>1. TypeInv /\ r \in Runs /\ hooks \subseteq Hooks /\ announcing[p] # Free
  BY AnnouncingTyped DEF Inv
<1>2. a \in Sending /\ a.step = "send" /\ a.run = r /\ a.hooks = hooks \ {h} /\ a \notin Dropping /\ a # Free
  BY <1>1 DEF Sending, Dropping, Free
<1>3. announcing' = [announcing EXCEPT ![p] = a]
  BY <1>1 DEF Sent, TypeInv
<1> HIDE DEF a
<1>4. \A q \in Reconcilers : announcing'[q] = a
  BY <1>1, <1>3, Moves
<1>5. announcing' \in [Reconcilers -> {Free} \cup Listing \cup Sending \cup Dropping]
  BY <1>1, <1>2, <1>3 DEF TypeInv
<1>6. accepted' \subseteq Jobs
  BY <1>1 DEF TypeInv, Jobs
<1>7. phase[r] # "" /\ \A g \in hooks : <<r, g>> \notin accepted
  BY <1>1 DEF Inv, Once, ToSend
<1>8. ToSend(a) = hooks \ {h}
  BY <1>2 DEF ToSend
<1>9. \A s \in Runs, g \in Hooks : phase[s] = "" => <<s, g>> \notin accepted'
  BY <1>7 DEF Inv, Once
<1>10. \A g \in hooks \ {h} : <<r, g>> \notin accepted'
  BY <1>7
<1> HIDE DEF r, hooks
<1>11. Once'
  BY <1>2, <1>4, <1>7, <1>8, <1>9, <1>10 DEF Once
<1> QED  BY <1>2, <1>4, <1>5, <1>6, <1>11

LEMMA EnqueueStep ==
    ASSUME Sole, Inv, NEW p \in Reconcilers, NEW h \in Hooks, Enqueue(p, h)
    PROVE  Inv'
<1> DEFINE r == announcing[p].run
<1>1. /\ announcing[p].step = "send" /\ h \in announcing[p].hooks
      /\ phase' = phase /\ worker' = worker /\ tries' = tries
  BY DEF Enqueue
<1>2. /\ TypeInv /\ announcing[p] \in Sending /\ announcing[p] # Free /\ r \in Runs
      /\ announcing[p].hooks \subseteq Hooks
  BY <1>1, AnnouncingTyped DEF Inv
<1>3. <<r, h>> \in Jobs /\ <<r, h>> \notin accepted
  BY <1>1, <1>2 DEF Jobs, Inv, Once, ToSend
<1>4. CASE Len(queue) < QueueBuffer
  <2>1. /\ queue' = Append(queue, <<r, h>>) /\ announcing' = Sent(p, h)
        /\ accepted' = accepted \cup {<<r, h>>}
    BY <1>4 DEF Enqueue
  <2>2. queue' \in Seq(Jobs) /\ Waiting'
    BY <1>1, <1>3, <1>4, <2>1, QueueGrows
  <2>3. /\ announcing' \in [Reconcilers -> {Free} \cup Listing \cup Sending \cup Dropping]
        /\ accepted' \subseteq Jobs /\ Once' /\ \A q \in Reconcilers : announcing'[q].step = "send"
    BY <1>1, <2>1, SentStep
  <2>4. TypeInv'
    BY <1>1, <1>2, <2>2, <2>3 DEF TypeInv
  <2>5. Room'
    BY <2>3 DEF Room
  <2> QED  BY <2>2, <2>3, <2>4, <2>5 DEF Inv
<1>5. CASE ~(Len(queue) < QueueBuffer)
  <2> DEFINE a == [step |-> "drop", run |-> r, hooks |-> announcing[p].hooks, hook |-> h]
  <2>1. announcing' = [announcing EXCEPT ![p] = a] /\ queue' = queue /\ accepted' = accepted
    BY <1>2, <1>5 DEF Enqueue, TypeInv
  <2>2. /\ a \in Dropping /\ a.step = "drop" /\ a.run = r /\ a.hooks = announcing[p].hooks /\ a.hook = h
    BY <1>2 DEF Dropping
  <2>3. ToSend(a) = announcing[p].hooks /\ ToSend(announcing[p]) = announcing[p].hooks
    BY <1>1, <2>2 DEF ToSend
  <2> HIDE DEF a
  <2>4. \A q \in Reconcilers : announcing'[q] = a
    BY <1>2, <2>1, Moves
  <2>5. TypeInv'
    BY <1>1, <1>2, <2>1, <2>2 DEF TypeInv
  <2>6. phase[r] # "" /\ \A g \in announcing[p].hooks : <<r, g>> \notin accepted
    BY <1>2, <2>3 DEF Inv, Once
  <2>7. Once'
    <3>1. \A s \in Runs, g \in Hooks : phase[s] = "" => <<s, g>> \notin accepted
      BY DEF Inv, Once
    <3>2. ASSUME NEW q \in Reconcilers
          PROVE  /\ phase[announcing'[q].run] # ""
                 /\ \A g \in ToSend(announcing'[q]) : <<announcing'[q].run, g>> \notin accepted
                 /\ announcing'[q].hook \in announcing'[q].hooks
      BY <1>1, <2>2, <2>3, <2>4, <2>6
    <3> QED  BY <1>1, <2>1, <3>1, <3>2 DEF Once
  <2>8. Waiting'
    BY <1>1, <2>1 DEF Inv, Waiting
  <2>9. Room'
    BY <2>2, <2>4 DEF Room
  <2> QED  BY <2>5, <2>7, <2>8, <2>9 DEF Inv
<1> QED  BY <1>4, <1>5

LEMMA MakeRoomStep ==
    ASSUME Sole, Inv, NEW p \in Reconcilers, MakeRoom(p)
    PROVE  Inv'
<1> DEFINE b == announcing[p]
           a == [b EXCEPT !.step = "resend"]
<1>1. /\ b.step = "drop" /\ announcing' = [announcing EXCEPT ![p] = a]
      /\ phase' = phase /\ worker' = worker /\ accepted' = accepted /\ tries' = tries
  BY DEF MakeRoom, Inv, TypeInv
<1>2. TypeInv /\ b \in Dropping /\ b # Free
  BY <1>1, AnnouncingTyped DEF Inv
<1>3. a \in Dropping /\ a.step = "resend" /\ a.run = b.run /\ a.hooks = b.hooks /\ a.hook = b.hook
  BY <1>2 DEF Dropping
<1>4. ToSend(a) = b.hooks /\ ToSend(b) = b.hooks
  BY <1>1, <1>3 DEF ToSend
<1>5. phase[b.run] # "" /\ (\A h \in b.hooks : <<b.run, h>> \notin accepted) /\ b.hook \in b.hooks
  BY <1>2, <1>4 DEF Inv, Once
<1> HIDE DEF a
<1>6. \A q \in Reconcilers : announcing'[q] = a
  BY <1>1, <1>2, Moves
<1>7. Once'
  <2>1. \A s \in Runs, h \in Hooks : phase[s] = "" => <<s, h>> \notin accepted
    BY DEF Inv, Once
  <2> HIDE DEF b
  <2>2. ASSUME NEW q \in Reconcilers
        PROVE  /\ phase[announcing'[q].run] # ""
               /\ \A h \in ToSend(announcing'[q]) : <<announcing'[q].run, h>> \notin accepted
               /\ announcing'[q].hook \in announcing'[q].hooks
    BY <1>3, <1>4, <1>5, <1>6
  <2> QED  BY <1>1, <2>1, <2>2 DEF Once
<1>8. queue' \in Seq(Jobs) /\ Len(queue') < QueueBuffer /\ Waiting'
  <2>1. CASE queue = <<>>
    <3>1. queue' = queue
      BY <2>1 DEF MakeRoom, DropOldest
    <3>3. Len(queue) = 0 /\ 0 < QueueBuffer
      BY <2>1, Buffer
    <3> QED  BY <1>1, <1>2, <3>1, <3>3 DEF Inv, TypeInv, Waiting
  <2>2. CASE queue # <<>>
    <3>1. queue' = Tail(queue)
      BY <2>2 DEF MakeRoom, DropOldest
    <3> QED  BY <1>1, <2>2, <3>1, QueueShrinks DEF Inv, Waiting
  <2> QED  BY <2>1, <2>2
<1>9. TypeInv'
  BY <1>1, <1>2, <1>3, <1>8 DEF TypeInv
<1>10. Room'
  BY <1>8 DEF Room
<1> QED  BY <1>7, <1>8, <1>9, <1>10 DEF Inv

LEMMA ResendStep ==
    ASSUME Sole, Inv, NEW p \in Reconcilers, Resend(p)
    PROVE  Inv' /\ dropped' = dropped
<1> DEFINE r == announcing[p].run
           h == announcing[p].hook
<1>1. /\ announcing[p].step = "resend" /\ announcing' = Sent(p, h)
      /\ phase' = phase /\ worker' = worker /\ tries' = tries /\ accepted' = accepted \cup {<<r, h>>}
  BY DEF Resend
<1>2. /\ TypeInv /\ announcing[p] \in Dropping /\ announcing[p] # Free /\ r \in Runs /\ h \in Hooks
      /\ announcing[p].hooks \subseteq Hooks
  BY <1>1, AnnouncingTyped DEF Inv
<1>3. h \in announcing[p].hooks /\ <<r, h>> \in Jobs /\ <<r, h>> \notin accepted
  BY <1>1, <1>2 DEF Jobs, Inv, Once, ToSend
<1>4. Len(queue) < QueueBuffer
  BY <1>1 DEF Inv, Room
<1>5. queue' = Append(queue, <<r, h>>) /\ dropped' = dropped
  BY <1>4 DEF Resend
<1>6. queue' \in Seq(Jobs) /\ Waiting'
  BY <1>1, <1>3, <1>4, <1>5, QueueGrows
<1>7. /\ announcing' \in [Reconcilers -> {Free} \cup Listing \cup Sending \cup Dropping]
      /\ accepted' \subseteq Jobs /\ Once' /\ \A q \in Reconcilers : announcing'[q].step = "send"
  BY <1>1, <1>3, SentStep
<1>8. TypeInv'
  BY <1>1, <1>2, <1>6, <1>7 DEF TypeInv
<1>9. Room'
  BY <1>7 DEF Room
<1> QED  BY <1>5, <1>6, <1>7, <1>8, <1>9 DEF Inv

-----------------------------------------------------------------------------
(* The workers, and the end of the operator.                               *)

LEMMA DeliveryFacts ==
    ASSUME NEW j \in Jobs, NEW n \in Nat
    PROVE  /\ [job |-> j, attempt |-> n] \in Delivery /\ [job |-> j, attempt |-> n] # NoDelivery
           /\ [job |-> j, attempt |-> n].job = j
  BY DEF Delivery, NoDelivery, Jobs

LEMMA TakeJobStep ==
    ASSUME Inv, NEW i \in Pool, TakeJob(i)
    PROVE  Inv'
<1> DEFINE j == Head(queue)
           d == [job |-> j, attempt |-> 1]
<1>1. /\ queue # <<>> /\ queue' = Tail(queue)
      /\ worker' \in {[worker EXCEPT ![i] = d], [worker EXCEPT ![i] = NoDelivery]}
      /\ phase' = phase /\ announcing' = announcing /\ accepted' = accepted /\ tries' = tries
  BY DEF TakeJob, End
<1>2. TypeInv
  BY DEF Inv
<1>3. /\ queue' \in Seq(Jobs) /\ Len(queue') < QueueBuffer /\ Len(queue') <= QueueBuffer
      /\ j \in Jobs /\ j \in accepted
      /\ \A k \in 1 .. Len(queue') :
            /\ queue'[k] \in accepted /\ tries[queue'[k]] = 0 /\ queue'[k] # j
            /\ \A l \in 1 .. Len(queue') : queue'[k] = queue'[l] => k = l
            /\ \A v \in Pool : worker[v] # NoDelivery => worker[v].job # queue'[k]
  BY <1>1, QueueShrinks
<1>4. d \in Delivery /\ d.job = j
  BY <1>3, DeliveryFacts
<1> HIDE DEF j, d
<1>5. ASSUME NEW v \in Pool PROVE worker'[v] \in {worker[v], d, NoDelivery}
  BY <1>1, <1>2 DEF TypeInv
<1>6. TypeInv'
  <2>1. (worker \in [Pool -> {NoDelivery} \cup Delivery])'
    BY <1>1, <1>2, <1>4 DEF TypeInv
  <2> QED  BY <1>1, <1>2, <1>3, <2>1 DEF TypeInv
<1>7. Once'
  BY <1>1 DEF Inv, Once
<1>8. Waiting'
  <2>1. \A v \in Pool : worker'[v] # NoDelivery => worker'[v].job \in accepted
    BY <1>3, <1>4, <1>5 DEF Inv, Waiting
  <2>2. \A k \in 1 .. Len(queue') : \A v \in Pool : worker'[v] # NoDelivery => worker'[v].job # queue'[k]
    BY <1>3, <1>4, <1>5
  <2>3. \A b \in Jobs \ accepted : tries[b] = 0
    BY DEF Inv, Waiting
  <2> QED  BY <1>1, <1>3, <2>1, <2>2, <2>3 DEF Waiting
<1>9. Room'
  BY <1>1, <1>3 DEF Room
<1> QED  BY <1>6, <1>7, <1>8, <1>9 DEF Inv

LEMMA AttemptStep ==
    ASSUME Inv, NEW i \in Pool, Attempt(i)
    PROVE  Inv'
<1> DEFINE job == worker[i].job
           d == [worker[i] EXCEPT !.attempt = @ + 1]
<1>1. /\ worker[i] # NoDelivery /\ tries' = [tries EXCEPT ![job] = @ + 1]
      /\ worker' \in {[worker EXCEPT ![i] = NoDelivery], [worker EXCEPT ![i].attempt = @ + 1]}
      /\ phase' = phase /\ announcing' = announcing /\ queue' = queue /\ accepted' = accepted
  BY DEF Attempt, End, RetryOrEnd
<1>2. TypeInv /\ worker[i] \in Delivery /\ job \in Jobs /\ job \in accepted
  BY <1>1 DEF Inv, TypeInv, Waiting, Delivery
<1>3. d \in Delivery /\ d.job = job
  BY <1>2 DEF Delivery
<1>4. worker' \in {[worker EXCEPT ![i] = NoDelivery], [worker EXCEPT ![i] = d]}
  BY <1>1, <1>2 DEF TypeInv
<1> HIDE DEF d
<1>5. ASSUME NEW v \in Pool
      PROVE  worker'[v] # NoDelivery => worker[v] # NoDelivery /\ worker'[v].job = worker[v].job
  BY <1>1, <1>2, <1>3, <1>4 DEF TypeInv
<1>6. (worker \in [Pool -> {NoDelivery} \cup Delivery])'
  BY <1>2, <1>3, <1>4 DEF TypeInv
<1>7. tries' \in [Jobs -> Nat] /\ \A b \in Jobs : b # job => tries'[b] = tries[b]
  <2>0. tries \in [Jobs -> Nat] /\ tries[job] \in Nat
    BY <1>2 DEF TypeInv
  <2>1. tries \in [Jobs -> Nat] /\ tries[job] + 1 \in Nat
    BY <2>0
  <2> QED  BY <1>1, <1>2, <2>1
<1>8. TypeInv'
  BY <1>1, <1>2, <1>6, <1>7 DEF TypeInv
<1>9. Once'
  BY <1>1 DEF Inv, Once
<1>10. Waiting'
  <2>1. \A v \in Pool : worker'[v] # NoDelivery => worker'[v].job \in accepted
    BY <1>5 DEF Inv, Waiting
  <2>2. ASSUME NEW k \in 1 .. Len(queue)
        PROVE  /\ queue[k] \in accepted /\ tries'[queue[k]] = 0
               /\ \A l \in 1 .. Len(queue) : queue[k] = queue[l] => k = l
               /\ \A v \in Pool : worker'[v] # NoDelivery => worker'[v].job # queue[k]
    <3>1. queue[k] \in Jobs /\ queue[k] # job /\ tries[queue[k]] = 0
      BY <1>1, <1>2 DEF Inv, TypeInv, Waiting
    <3> QED  BY <1>5, <1>7, <3>1 DEF Inv, Waiting
  <2>3. \A b \in Jobs \ accepted : tries'[b] = 0
    BY <1>2, <1>7 DEF Inv, Waiting
  <2>4. Len(queue) <= QueueBuffer
    BY DEF Inv, Waiting
  <2> QED  BY <1>1, <2>1, <2>2, <2>3, <2>4 DEF Waiting
<1>11. Room'
  BY <1>1 DEF Inv, Room
<1> QED  BY <1>8, <1>9, <1>10, <1>11 DEF Inv

LEMMA CrashStep ==
    ASSUME Inv, Crash
    PROVE  Inv'
<1>1. /\ announcing' = [p \in Reconcilers |-> Free] /\ queue' = <<>> /\ worker' = [i \in Pool |-> NoDelivery]
      /\ phase' = phase /\ accepted' = accepted /\ tries' = tries
  BY DEF Crash
<1>2. <<>> \in Seq(Jobs) /\ Len(<<>>) = 0 /\ 1 .. 0 = {} /\ 0 <= QueueBuffer
  BY EmptyFacts, Buffer
<1>3. TypeInv'
  BY <1>1, <1>2 DEF Inv, TypeInv
<1>4. Once'
  BY <1>1 DEF Inv, Once
<1>5. Waiting'
  BY <1>1, <1>2 DEF Inv, Waiting
<1>6. Room'
  BY <1>1, FreeFacts DEF Room
<1> QED  BY <1>3, <1>4, <1>5, <1>6 DEF Inv

-----------------------------------------------------------------------------
(* The theorems.                                                           *)

LEMMA InvInit == Init => Inv
<1> SUFFICES ASSUME Init PROVE Inv
  OBVIOUS
<1>1. /\ phase = [r \in Runs |-> ""] /\ announcing = [p \in Reconcilers |-> Free]
      /\ queue = <<>> /\ worker = [i \in Pool |-> NoDelivery]
      /\ accepted = {} /\ tries = [j \in Jobs |-> 0]
  BY DEF Init
<1>2. <<>> \in Seq(Jobs) /\ Len(<<>>) = 0 /\ 1 .. 0 = {} /\ 0 <= QueueBuffer
  BY EmptyFacts, Buffer
<1>3. TypeInv
  BY <1>1, <1>2 DEF TypeInv
<1>4. Once
  BY <1>1 DEF Once
<1>5. Waiting
  BY <1>1, <1>2 DEF Waiting
<1>6. Room
  BY <1>1, FreeFacts DEF Room
<1> QED  BY <1>3, <1>4, <1>5, <1>6 DEF Inv

LEMMA InvStep == ASSUME Sole PROVE Inv /\ [Next]_deliveryVars => Inv'
<1>1. ASSUME Inv, Next PROVE Inv'
  BY <1>1, EndRunStep, DispatchWebhooksStep, MakeRoomStep, ResendStep, AnnouncedStep, EnqueueStep,
     TakeJobStep, AttemptStep, CrashStep DEF Next
<1>2. ASSUME Inv, UNCHANGED deliveryVars PROVE Inv'
  <2>1. TypeInv' /\ Once'
    BY <1>2 DEF deliveryVars, Inv, TypeInv, Once
  <2>2. Waiting' /\ Room'
    BY <1>2 DEF deliveryVars, Inv, Waiting, Room
  <2> QED  BY <2>1, <2>2 DEF Inv
<1> QED  BY <1>1, <1>2

\* The inductive invariant: a run is announced once, a job waits in one place and untried,
\* and the room that Enqueue made is there when it tries again.
THEOREM Invariance == ASSUME Sole PROVE Spec => []Inv
  BY InvInit, InvStep, PTL DEF Spec

\* A full queue drops the oldest job waiting, one that nobody has tried, and never the job
\* that Enqueue was called for, whatever the workers take between its three selects.  One
\* reconciler at a time is what makes it so: a second one could take the room.
THEOREM FreshestIsKept == ASSUME Sole PROVE Spec => FreshestKept
<1>1. ASSUME Inv, Next
      PROVE  \A j \in dropped' \ dropped :
                j \in accepted /\ queue # <<>> /\ j = Head(queue) /\ tries[j] = 0
  <2>1. ASSUME NEW p \in Reconcilers, MakeRoom(p)
        PROVE  \A j \in dropped' \ dropped :
                  j \in accepted /\ queue # <<>> /\ j = Head(queue) /\ tries[j] = 0
    <3>1. queue # <<>> => Head(queue) \in accepted /\ tries[Head(queue)] = 0
      <4>1. queue \in Seq(Jobs)
        BY <1>1 DEF Inv, TypeInv
      <4> SUFFICES ASSUME queue # <<>> PROVE Head(queue) \in accepted /\ tries[Head(queue)] = 0
        OBVIOUS
      <4>2. Head(queue) = queue[1] /\ 1 \in 1 .. Len(queue)
        BY <4>1, TailFacts
      <4> QED  BY <1>1, <4>2 DEF Inv, Waiting
    <3> QED  BY <2>1, <3>1 DEF MakeRoom, DropOldest
  <2>2. ASSUME NEW p \in Reconcilers, Resend(p) PROVE dropped' = dropped
    BY <1>1, <2>2, ResendStep
  <2>3. ASSUME ~\E p \in Reconcilers : MakeRoom(p) \/ Resend(p) PROVE dropped' = dropped
    BY <1>1, <2>3 DEF Next, EndRun, DispatchWebhooks, Announced, Enqueue, TakeJob, Attempt, Crash
  <2> QED  BY <2>1, <2>2, <2>3
<1>2. Inv /\ [Next]_deliveryVars =>
        [\A j \in dropped' \ dropped :
            j \in accepted /\ queue # <<>> /\ j = Head(queue) /\ tries[j] = 0]_deliveryVars
  BY <1>1
<1> QED  BY <1>2, Invariance, PTL DEF Spec, FreshestKept
=============================================================================
