SPECIFICATION Spec
CONSTANTS
    a = a
    b = b
    c = c
    none = none
    r1 = r1
    r2 = r2
    Requests <- MCRequests
    Responses <- MCResponses
    Unnamed <- none
    Kinds <- MCKinds
    Weight <- MCWeight
    MaxResponses = 2
    TTL = 0
    ByteCap = 4
    SnapshotEntryMax = 2
    SnapshotTotalMax = 3
    MaxTurns = 3
    MaxTime = 1
    MaxRestarts = 1
SYMMETRY Alike
INVARIANTS
    TypeOK
    RecordedTurnsAreWhole
    EvictionIsExact
CHECK_DEADLOCK FALSE
