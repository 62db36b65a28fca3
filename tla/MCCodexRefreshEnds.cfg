\* Liveness: one process that may die, two callers, two aliases.
CONSTANTS
    ana = ana
    bob = bob
    first = first
    second = second
    c1 = c1
    c2 = c2
    Ids = {ana, bob}
    Processes = {first}
    Callers = {c1, c2}
    ProcessOf <- OneProcess
    NoCaller = NoCaller
    NoWrite = NoWrite
    InitialGrants <- Shared
    MaxIssued = 2
    MaxEdits = 1
    MaxCrashes = 1
SPECIFICATION FairSpec
PROPERTY DeathsAreOvercome
CHECK_DEADLOCK FALSE
