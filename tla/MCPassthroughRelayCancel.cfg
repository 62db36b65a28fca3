CONSTANTS
    request = request
    Turns <- MCTurns
    Shapes <- MCTee
    MaxChunks = 1
    QueueCap = 1
    DrainChunks = 1
    Deadline = 1
SPECIFICATION FairSpec
INVARIANT CancelIsNoFailure
CHECK_DEADLOCK FALSE
