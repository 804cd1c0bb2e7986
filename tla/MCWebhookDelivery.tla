-------------------------- MODULE MCWebhookDelivery --------------------------
EXTENDS WebhookDelivery

\* A run, another, and one that takes the first one's name again.
MCRuns == {[name |-> "a", uid |-> 1], [name |-> "b", uid |-> 2], [name |-> "a", uid |-> 3]}
TwoRuns == {r \in MCRuns : r.uid < 3}
MCHooks == {[name |-> "all", events |-> {}, maxRetries |-> 1, secret |-> TRUE],
            [name |-> "failures", events |-> {"failed"}, maxRetries |-> 0, secret |-> FALSE]}

Budget(fail, reject, secret, list, crash, direct) ==
    [fail |-> fail, reject |-> reject, secret |-> secret, list |-> list, crash |-> crash, direct |-> direct]
MCBudgets == {Budget(2, 0, 0, 0, 0, 0), Budget(0, 1, 1, 0, 0, 0), Budget(0, 0, 0, 1, 1, 0), Budget(0, 0, 0, 0, 0, 1)}
OneDirect == {Budget(0, 0, 0, 0, 0, 1)}
NoFaults == {Budget(0, 0, 0, 0, 0, 0)}
=============================================================================
