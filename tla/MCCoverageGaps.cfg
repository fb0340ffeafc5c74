SPECIFICATION GapsSpec
CONSTANTS
    Networks = {home, cafe}
    NoNetwork = NoNetwork
    AnyNetwork = AnyNetwork
    BaselineTtl = 0
    MaxTime = 2
    MaxRows = 2
    MaxFailures = 1
    MaxSteps = 2
SYMMETRY Symmetry
INVARIANTS GapsTypeOK  NoTimeUnexplained PauseIsCovered
\* A behaviour ends at the bounds of time, rows and steps.
CHECK_DEADLOCK FALSE
