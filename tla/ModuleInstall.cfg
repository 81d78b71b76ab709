SPECIFICATION InstallSpec
CONSTANTS
    Absent = Absent
    MaxEdits = 1
    MaxStops = 1
    MaxCommands = 3
CHECK_DEADLOCK FALSE
INVARIANTS
    PublishedIsSigned
    VenvKept
PROPERTIES
    LandsWhatWasMeant
