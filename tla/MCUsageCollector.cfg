SPECIFICATION Spec
CONSTANTS
    Interfaces = {wlan}
    Networks = {home, cafe}
    Directions = {rx}
    NoNetwork = NoNetwork
    BaselineTtl = 0
    MaxClock = 1
    MaxBytes = 2
    MaxFailures = 2
    MaxCrashes = 1
SYMMETRY Symmetry
INVARIANTS NoOvercount Conservation
PROPERTIES  NoReadingPastPending ImplementsLedger
