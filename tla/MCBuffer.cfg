SPECIFICATION Spec
CONSTANTS
    Radix = 4
    Width = 2
    Groups = 4
    HostOrder = "little"
    BaseSize = 2
    MaxCap = 6
    MaxWrites = 2
    Junk = Junk
    Values <- MCValues
    SizeMod = 65536
    Lengths = {3}
    MaxErrors = 1
    MaxRounds = 1
INVARIANTS CurExact ReadBack FileExact FixSizeExact
PROPERTY IsFlat
CHECK_DEADLOCK FALSE
