\* The proxy bound to loopback.
SPECIFICATION Spec
CONSTANTS
    e1 = e1
    Edits <- MCEdits
    Open = FALSE
    MaxCommands = 3
    MaxMeddling = 1
    MaxCrashes = 2
INVARIANTS
    TypeOK
    RestoreLeavesNative
    EditsSurvive
    RestoreIsExact
CHECK_DEADLOCK FALSE
