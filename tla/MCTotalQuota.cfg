SPECIFICATION Spec
CONSTANTS
    MaxDay = 1
    DaysPerMonth = 2
    Networks = {wifi, wired}
    Wired = {wired}
    Rules <- MCRules
    MaxBytes = 2
    MaxSteps = 2
    MaxSetBacks = 1
INVARIANTS TypeOK TotalExact AnnouncedOnce MarkedIsAnnounced
