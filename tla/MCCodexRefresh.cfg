\* One process: three callers, two accounts that share a refresh token or not.
CONSTANTS
    ana = ana
    bob = bob
    first = first
    second = second
    c1 = c1
    c2 = c2
    Ids = {ana, bob}
    Processes = {first}
    Callers = {c1, c2, c3}
    ProcessOf <- OneProcess
    NoCaller = NoCaller
    NoWrite = NoWrite
    InitialGrants <- SharedOrOwn
    MaxIssued = 3
    MaxEdits = 2
    MaxCrashes = 0
SPECIFICATION Spec
SYMMETRY Symmetry
INVARIANTS TypeOK SingleFlight GenerationNamesToken
PROPERTY CredentialPromise
CHECK_DEADLOCK FALSE
