SPECIFICATION Spec
CONSTANTS
    Writers = {w1, w2}
    Keys = {k1, k2}
    DirSync = FALSE
INVARIANTS
    StrayIsExplained
PROPERTIES
    IsRegister
    DamagedVaultKept
