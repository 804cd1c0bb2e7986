----------------------------- MODULE MCComposite -----------------------------
(* Plans and budgets for model checking Composite.                         *)
EXTENDS Composite

Plain == [kids |-> 1, cap |-> 0, retries |-> 0, optional |-> FALSE, always |-> FALSE,
          negative |-> FALSE, timeout |-> FALSE, delay |-> FALSE]

\* Fan-out under a cap, then a step that runs whatever happened.
FanOut == <<[Plain EXCEPT !.kids = 2, !.cap = 1], [Plain EXCEPT !.always = TRUE]>>
\* Retries, of a negative and of an optional step.
Retried == <<[Plain EXCEPT !.retries = 1, !.negative = TRUE], [Plain EXCEPT !.retries = 1]>>
Forgiving == <<[Plain EXCEPT !.retries = 1, !.optional = TRUE], [Plain EXCEPT !.delay = TRUE]>>
\* A step that may time out, before one that runs whatever happened.
Timed == <<[Plain EXCEPT !.timeout = TRUE], [Plain EXCEPT !.always = TRUE]>>
ManyPlans == {FanOut, Retried, Forgiving, Timed}

Allow(kinds) == [k \in Kinds |-> IF k \in kinds THEN 1 ELSE 0]
\* Two different interferences in each behaviour.
Pairs == {Allow({"crash", "touch"}), Allow({"crash", "abort"}), Allow({"fault", "abort"})}

\* How many versions the cache may be behind.
CONSTANT MaxLag
BoundedLag == Len(parents) <= 1 + MaxLag

\* A write that would exceed MaxLag waits for a watch event, which is fair.
BoundedFairSpec == Init /\ [][Next /\ BoundedLag']_vars /\ Fairness
=============================================================================
