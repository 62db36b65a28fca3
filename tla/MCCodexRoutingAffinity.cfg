SPECIFICATION Spec
CONSTANTS
    main = main
    ana = ana
    bob = bob
    r1 = r1
    r2 = r2
    t1 = t1
    Accounts = {main, ana, bob}
    Main = main
    NoAccount = none
    StickyLimit = 1
    ListRank <- MCListRank
    NameRank <- MCNameRank
    Threads = {t1}
    NoThread = unbound
    Requests = {r1}
    Strategies = {"quota", "round-robin", "fill-first"}
    InitialActive = {ana}
    SwitchThreshold = 2
    FullUsage = 3
    UnknownUsage = unknown
    Usages = {1, 2}
    InitialUsage <- MCInitialUsage
    IdleTtl = 0
    DefaultCooldown = 2
    MaxCooldown = 5
    ResetCap = 3
    ProbeInterval = 1
    FailureWindow = 2
    SoftAvoidMs <- MCSoftAvoidMs
    FailoverThreshold = 1
    QuotaMetas <- MCQuotaMetas
    MaxTime = 1
    MaxServed = 4
    MaxEdits = 1
PROPERTY OngoingThreadsStay
CHECK_DEADLOCK FALSE
