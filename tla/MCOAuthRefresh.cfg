CONSTANTS
    proxy = proxy
    console = console
    Procs <- MCProcs
    Kinds <- MCKinds
    MaxGen = 3
    MaxTroubles = 2
SPECIFICATION Spec
SYMMETRY MCSymmetry
INVARIANTS
    TypeOK
    UsedTokensAreRetired
    LatestLoginWins
    MarkHasReason
CHECK_DEADLOCK FALSE
