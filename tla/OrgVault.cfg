CONSTANTS
  Writers = {w1, w2}
  Names = {1, 2}
  Inodes = {i1, i2}
  None = None
  Original = Original
  Offers <- MCOffers
  NoConfig = NoConfig
  Unreadable = Unreadable
  OptedIn = FALSE
  SecretsThere = TRUE
  TTL = 1
  MaxTime = 1
  MaxChanges = 1
SPECIFICATION MirrorSpec
SYMMETRY RunsAndInodes
CHECK_DEADLOCK FALSE
INVARIANTS
    MirroredStays
    KnownIsMirrored
