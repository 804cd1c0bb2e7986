------------------------------ MODULE MCHistory ------------------------------
EXTENDS History

B(tick, fail, pass, delete, comment, page, expire, kubectl, crash) ==
    [tick |-> tick, fail |-> fail, pass |-> pass, delete |-> delete, comment |-> comment,
     page |-> page, expire |-> expire, kubectl |-> kubectl, crash |-> crash]
\* Paging over three runs while they end, expire and are deleted; retention over two with a
\* failure and a delete, an expiry or kubectl, with a delete and an expiry, or with a restart
\* and a second pass or a comment; comments and a restart.
Paging == {B(1, 0, 0, 0, 0, 1, 1, 0, 0), B(1, 0, 0, 1, 0, 1, 0, 0, 0), B(1, 0, 0, 0, 0, 1, 0, 1, 0)}
Keeping == {B(4, 1, 1, 1, 0, 0, 0, 0, 0), B(4, 1, 1, 0, 0, 0, 1, 0, 0), B(4, 1, 1, 0, 0, 0, 0, 1, 0),
            B(4, 0, 1, 1, 0, 0, 1, 0, 0), B(4, 0, 2, 0, 0, 0, 0, 0, 1), B(4, 0, 1, 0, 1, 0, 0, 0, 1),
            B(0, 0, 0, 0, 2, 0, 0, 0, 1)}
\* One pass while finished runs are saved and expire, and no user's delete.
Expiring == {B(4, 0, 1, 0, 0, 0, 1, 0, 0)}
MCBudgets == Paging \union Keeping

MCInit ==
    /\ HistoryInit
    /\ IF budget \in Paging
       THEN cr[2] = "live" /\ cr[1] = "terminal" /\ cr[3] # "none"
       ELSE cr[3] = "none" /\ cr[2] = "live" /\ cr[1] # "none"
MCSpec == MCInit /\ [][HistoryNext]_vars
=============================================================================
