SPECIFICATION Spec
CONSTANTS
    Days = {1, 2}
    Ranges <- MCRanges
    MaxRounds = 2
    MaxRequests = 3
\* A behaviour ends when its rounds and requests are used up.
CHECK_DEADLOCK FALSE
INVARIANTS TypeOK   
