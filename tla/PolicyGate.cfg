SPECIFICATION Spec
CONSTANTS
    Documents <- MCDocuments
    DefaultPolicy <- MCDefaultPolicy
    Contexts <- MCContexts
    Absent = Absent
    Keys = {k1, k2}
    Damaged = Damaged
    None = None
SYMMETRY Symmetry
INVARIANTS
    ServedIffPermitted
    HashNamesDecidingPolicy
    IrreversibleIsApproved
