SPECIFICATION Spec
CONSTANTS
    Bytes <- MCBytes
    ComputeCrc32 <- MCCrc
    MaxPayload = 4
    SizeModulus = 1000
    Units <- MCUnits
    MaxUnits = 3
    MaxPiece = 7
    MayReset = TRUE
CHECK_DEADLOCK FALSE
INVARIANTS
    TypeOK
    CleanStream
    NoSilentLoss
PROPERTIES
    AllDelivered
    LoopEnds
    TurnsShorten
