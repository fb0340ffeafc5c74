SPECIFICATION Spec
CONSTANTS
    MaxAttempts = 2
    MaxCrashes = 1
    MaxTimeouts = 0
    MaxOperations = 1
INVARIANT RestoresLastSettings
\* The host may exit, or hand over to the installer.
CHECK_DEADLOCK FALSE
