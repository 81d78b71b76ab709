SPECIFICATION Spec
CONSTANTS
    Writers = {w1}
    Keys = {k1, k2, k3}
    DirSync = TRUE
INVARIANTS
    AckedKeysPresent
PROPERTIES
    UpdateIsAtomic
