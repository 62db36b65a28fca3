CONSTANTS
    request = request
    Turns <- MCTurns
    Shapes <- MCShapes
    MaxChunks = 5
    QueueCap = 1
    DrainChunks = 2
    Deadline = 2
SPECIFICATION FairSpec
INVARIANTS
    TypeOK
    RealTerminalWins
    EndIsRecordedOnce
PROPERTIES
    TurnsAndDrainEnd
CHECK_DEADLOCK FALSE
