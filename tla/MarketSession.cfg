SPECIFICATION Spec
CONSTANTS
    Procs = {p1, p2}
    None = None
    MaxPairs = 3
    MaxPurchases = 1
SYMMETRY Either
INVARIANTS
    AtMostOnce
PROPERTIES
    SessionOutlivesErrors
    RetryIsServed
