SPECIFICATION FairSpec
CONSTANTS
    r1 = r1
    r2 = r2
    r3 = r3
    None = None
    Partial = Partial
    Torn = Torn
    Engine <- MCEngine
    Requests <- NoApproval
    Runs <- MCRuns
    Kind <- InterpretAuditAsk
    FirstSeed = 1
    StartRuns = 2
    Metered = TRUE
    Balance = 1
    Concurrent = TRUE
    OneDirectory = TRUE
    Faults = FALSE
    MaxSecond = 0
CHECK_DEADLOCK FALSE
INVARIANTS
    ChargedForReceipt
    LineIsOfItsRun
PROPERTIES
    OkRunIsLogged
