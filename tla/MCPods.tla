------------------------------- MODULE MCPods -------------------------------
(***************************************************************************)
(* The workers of a parallel run, and what goes on in one pod.  Workers    *)
(* sees of a pod only how it ends, so a behaviour is one of the workers,   *)
(* beside a pod that was killed before it did anything, or one of a pod,   *)
(* beside a run that was aborted before its first pass.  Neither of the    *)
(* two can take another step.                                              *)
(***************************************************************************)
EXTENDS Workers, MCWrapper

Budget(error, crash, remove, stuck, bad, abort) ==
    [error |-> error, crash |-> crash, remove |-> remove, stuck |-> stuck, bad |-> bad, abort |-> abort]
NoBudget == Budget(0, 0, 0, 0, 0, 0)
MCBudgets ==
    {Budget(1, 0, 0, 0, 0, 0), Budget(0, 1, 0, 0, 0, 0), Budget(0, 0, 1, 1, 0, 0), Budget(0, 0, 0, 0, 0, 1),
     Budget(0, 0, 0, 0, 1, 0)}

PodKilled ==
    /\ from = "exit" /\ stage = "killed" /\ fetched = 0
    /\ ctx = "alive" /\ try = 0 /\ report = [f \in Reports |-> NoReport]
    /\ result = NoResult /\ scrape = NoScrape
    /\ bucket = [artifacts |-> {}, result |-> NoObject] /\ message = "" /\ mishaps = NoMishaps

RunAborted ==
    /\ run = [phase |-> "aborted", steps |-> [w \in W |-> ""], counts |-> 0, abort |-> TRUE,
              refused |-> {}, rev |-> 2]
    /\ runCache = run /\ jobs = [w \in W |-> NoJob] /\ jobCache = jobs
    /\ service = "none needed" /\ serviceCache = service
    /\ pass = Idle /\ removed = {} /\ ended = [w \in W |-> {}] /\ budget = NoBudget

\* Services only where they can fail, and a refused worker beside failing calls.
\* Uploads do not ask where the verdict came from: two failures go with the exit code, one
\* with JUnit.
MCInit ==
    \/ /\ WorkersInit /\ PodKilled
       /\ service = "none needed" <=> budget.bad = 0
       /\ run.refused # {} => budget.error > 0
    \/ /\ WrapperInit /\ RunAborted
       /\ mishaps.fail > 0 => from = IF mishaps.fail = 2 THEN "exit" ELSE "junit"

MCNext ==
    \/ WorkersNext /\ UNCHANGED vars
    \/ WrapperNext /\ UNCHANGED workersVars

MCSpec == MCInit /\ [][MCNext]_<<workersVars, vars>> /\ WorkersFairness /\ WrapperFairness
=============================================================================
