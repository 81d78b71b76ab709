SPECIFICATION BackupSpec
CONSTANTS
    MaxChanges = 3
    MaxArchives = 2
    MaxRestores = 2
CHECK_DEADLOCK FALSE
INVARIANTS
    NeverRegresses
    PolicyIsHead
PROPERTIES
    VerifiedIsSnapshot
