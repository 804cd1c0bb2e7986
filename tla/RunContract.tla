---------------------------- MODULE RunContract ----------------------------
(***************************************************************************)
(* What the operator promises about one TestRun, whatever the caches, the  *)
(* crashes and the lost calls: its phase only moves forward and is decided *)
(* once, run history and the webhook say what was decided and nothing      *)
(* else, and a run's end is announced at most once.                        *)
(***************************************************************************)
VARIABLES phase, recorded, announced, gone

vars == <<phase, recorded, announced, gone>>

Terminal == {"passed", "failed", "error", "aborted"}
Phases == {"", "queued", "running"} \cup Terminal

Init == phase = "" /\ recorded = "" /\ announced = "" /\ gone = FALSE

Queue == /\ ~gone /\ phase = "" /\ phase' = "queued"
         /\ UNCHANGED <<recorded, announced, gone>>
Start == /\ ~gone /\ phase = "queued" /\ phase' = "running"
         /\ UNCHANGED <<recorded, announced, gone>>
\* The one decision: from any open phase.
Decide == /\ ~gone /\ phase \notin Terminal /\ phase' \in Terminal
          /\ UNCHANGED <<recorded, announced, gone>>
Record == /\ phase \in Terminal /\ recorded' = phase
          /\ UNCHANGED <<phase, announced, gone>>
Announce == /\ phase \in Terminal /\ announced = "" /\ announced' = phase
            /\ UNCHANGED <<phase, recorded, gone>>
\* Users may delete a run, and its row, at any time.
Erase == recorded' = "" /\ UNCHANGED <<phase, announced, gone>>
Remove == gone' = TRUE /\ UNCHANGED <<phase, recorded, announced>>

Next == Queue \/ Start \/ Decide \/ Record \/ Announce \/ Erase \/ Remove

Spec == Init /\ [][Next]_vars
=============================================================================
