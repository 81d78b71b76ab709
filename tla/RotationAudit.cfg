SPECIFICATION Spec
CONSTANTS
    None = None
    Garbled = Garbled
    Partial = Partial
    Issuer = Issuer
    Root = Root
    Alice = Alice
    Bob = Bob
    Stranger = Stranger
    FirstSeed = 1
    FirstDoc = 1
    Spaced = TRUE
    MaxKeys = 5
    MaxSecond = 3
INVARIANTS
    OldReceiptsCovered
    PublishedKeySigns
    GenuineVerifies
    AlteredIsCaught
    TeamNeedsQuorum
