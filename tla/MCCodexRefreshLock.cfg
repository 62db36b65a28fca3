\* Two processes, one account.
CONSTANTS
    ana = ana
    bob = bob
    first = first
    second = second
    c1 = c1
    c2 = c2
    Ids = {ana, bob}
    Processes = {first, second}
    Callers = {c1, c2}
    ProcessOf <- OwnProcess
    NoCaller = NoCaller
    NoWrite = NoWrite
    InitialGrants <- Shared
    MaxIssued = 3
    MaxEdits = 0
    MaxCrashes = 0
SPECIFICATION Spec
INVARIANT OneRefreshPerGrant
CHECK_DEADLOCK FALSE
