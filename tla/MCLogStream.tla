---------------------------- MODULE MCLogStream ----------------------------
(* Three lines whose timestamps repeat, share a second, or neither.          *)
EXTENDS LogStream

Allow(kinds) == [k \in Kinds |-> IF k \in kinds THEN 1 ELSE 0]
MCStamps == {<<2, 2, 3>>, <<2, 3, 3>>}
Joining == {Allow({"subscribe"})}
Undisturbed == {Allow({})}
MCBudgets == {Allow({"crash", "put"}), Allow({"crash", "drop"}), Allow({"drop", "read"}),
              Allow({"subscribe"})}
=============================================================================
