---------------------------- MODULE MCAdmission ----------------------------
(* Three runs of a Test whose order of creation is the order they queue in. *)
EXTENDS Admission

Allow(kinds) == [k \in Kinds |-> IF k \in kinds THEN 1 ELSE 0]
MCOrders == {[r \in Runs |-> r]}
MCBudgets == {Allow({"crash", "later"}), Allow({"fault"}), Allow({"abort", "stale"})}
=============================================================================
