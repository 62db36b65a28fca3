CONSTANTS
    proxy = proxy
    console = console
    Procs <- MCProcs
    Kinds <- MCKinds
    MaxGen = 2
    MaxTroubles = 1
SPECIFICATION Spec
SYMMETRY MCSymmetry
INVARIANTS
    TokensAreSpentOnce
CHECK_DEADLOCK FALSE
