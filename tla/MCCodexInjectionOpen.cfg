\* The proxy bound to a public address: the legacy form.
SPECIFICATION Spec
CONSTANTS
    e1 = e1
    Edits <- MCEdits
    Open = TRUE
    MaxCommands = 4
    MaxMeddling = 1
    MaxCrashes = 2
INVARIANTS
    RestoreLeavesNative
CHECK_DEADLOCK FALSE
