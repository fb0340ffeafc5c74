SPECIFICATION Spec
CONSTANTS
    MaxAttempts = 2
    MaxCrashes = 3
    MaxTimeouts = 1
    MaxOperations = 3
INVARIANTS TypeOK ImportIsolated SettingsKept InstallerAlone
\* The host may exit, or hand over to the installer.
CHECK_DEADLOCK FALSE
