---------------------------- MODULE MCTotalQuota ----------------------------
EXTENDS TotalQuota

Rule(cap, period) == [cap |-> cap, warn |-> {50}, period |-> period, notify |-> TRUE]
MCRules == {Rule(2, "day"), Rule(2, "month"), Rule(1, "day")}
=============================================================================
