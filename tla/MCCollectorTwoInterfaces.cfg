SPECIFICATION FairSpec
CONSTANTS
    Interfaces = {wlan, eth}
    Networks = {home}
    Directions = {rx}
    NoNetwork = NoNetwork
    BaselineTtl = 0
    MaxClock = 0
    MaxBytes = 1
    MaxFailures = 2
    MaxCrashes = 0
INVARIANT TypeOK
PROPERTY PendingIsSaved
