SPECIFICATION Spec
CONSTANTS
    MaxDay = 2
    DaysPerMonth = 2
    Rules <- MCRules
    MaxBytes = 2
    MaxSteps = 2
    MaxSetBacks = 0
INVARIANT ClearRestartsWarnings
