----------------------- MODULE MCTestRunLifecycle -----------------------
(* Budgets for model checking TestRunLifecycle.                          *)
EXTENDS TestRunLifecycle

Allow(kinds) == [k \in Kinds |-> IF k \in kinds THEN 1 ELSE 0]

Undisturbed == Allow({})
CrashAndFault == Allow({"crash", "fault"})
Outsiders == Allow({"abort", "delete", "purge", "touch", "loss"})

\* How many versions the three caches may be behind, together.
CONSTANT MaxLag
BoundedLag == Len(runs) + Len(jobs) + Len(pods) <= 3 + MaxLag

\* A write that would exceed MaxLag waits for a watch event, which is fair.
BoundedSpec == Init /\ [][Next /\ BoundedLag']_vars
BoundedFairSpec == BoundedSpec /\ Fairness
=============================================================================
