SPECIFICATION Spec
CONSTANTS
    r1 = r1
    r2 = r2
    r3 = r3
    None = None
    Partial = Partial
    Torn = Torn
    Engine <- MCEngine
    Requests <- MCRequests
    Runs <- TwoRuns
    Kind <- BuildBuild
    FirstSeed = None
    StartRuns = 1
    Metered = FALSE
    Balance = 0
    Concurrent = FALSE
    OneDirectory = TRUE
    Faults = TRUE
    MaxSecond = 1
SYMMETRY BuildSymmetry
CHECK_DEADLOCK FALSE
INVARIANTS
    DeniedLeavesNothing
    RunsAreCounted
    OneIdentity
    LoggedProofKept
    TokenStaysWhole
PROPERTIES
    NoProofDestroyed
