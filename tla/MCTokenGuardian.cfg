CONSTANTS
    proxy = proxy
    Procs <- MCProcs
    Kinds <- MCKinds
    MaxGen = 2
    MaxTroubles = 1
SPECIFICATION GuardianSpec
PROPERTIES
    SweepRefreshesAhead
CHECK_DEADLOCK FALSE
