SPECIFICATION Spec
CONSTANTS
    jsonl = jsonl
    zst = zst
    other = other
    r1 = r1
    r2 = r2
    Files <- MCFiles
    Age <- MCAge
    Rollouts <- MCRollouts
    RolloutOf <- MCRolloutOf
    PlainOf <- MCPlainOf
    s1 = s1
    s2 = s2
    Stages <- MCStages
    SatOrder <- MCSatOrder
    MaxVersion = 2
    MaxTroubles = 4
INVARIANTS
    CrashMidStageIsRecoverable
CHECK_DEADLOCK FALSE
