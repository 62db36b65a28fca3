SPECIFICATION Spec
CONSTANTS
    r1 = r1
    r2 = r2
    Requests = {r1, r2}
    DefaultCooldown = 1
    MaxCooldown = 5
    ResetCap = 3
    ProbeInterval = 2
    FailureWindow = 2
    SoftAvoidMs <- MCSoftAvoidMs
    FailoverThreshold = 2
    QuotaMetas <- MCQuotaMetas
    MaxTime = 5
    MaxGen = 2
    MaxLeases = 2
    MaxFailures = 3
SYMMETRY Symmetry
INVARIANT LeakEndsWithItsCooldown
CHECK_DEADLOCK FALSE
