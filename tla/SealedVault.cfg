SPECIFICATION Spec
CONSTANTS
    Procs = {p1, p2}
    Names = {n1, n2}
    Secrets = {s1, s2}
    Passphrases = {w1, w2}
    None = None
SYMMETRY Symmetry
INVARIANTS
    WrongPassphraseShowsNothing
PROPERTIES
    SealedStaysSealed
    KeysKept
