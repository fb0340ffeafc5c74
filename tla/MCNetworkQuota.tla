--------------------------- MODULE MCNetworkQuota ---------------------------
EXTENDS NetworkQuota

MCRules == [cap : {2}, warn : {{50, 100}}, period : Periods, notify : {TRUE}]
=============================================================================
