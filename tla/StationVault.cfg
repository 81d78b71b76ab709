SPECIFICATION FairSpec
CONSTANTS
    MaxConnections = 2
    None = None
    Damaged = Damaged
    Ids = {c1, c2}
    MaxSaves = 2
CHECK_DEADLOCK FALSE
INVARIANTS
    ShownIsExchanged
PROPERTIES
    CaptureEnds
    SavedIsServed
