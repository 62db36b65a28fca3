SPECIFICATION Spec
CONSTANTS
    a = a
    b = b
    c = c
    none = none
    r1 = r1
    r2 = r2
    Requests = {r1}
    Responses <- MCResponses
    Unnamed <- none
    Kinds <- AnyKind
    Weight <- MCWeight
    MaxResponses = 2
    TTL = 0
    ByteCap = 4
    SnapshotEntryMax = 2
    SnapshotTotalMax = 3
    MaxTurns = 3
    MaxTime = 1
    MaxRestarts = 1
INVARIANT NoTruncatedReplay
CHECK_DEADLOCK FALSE
