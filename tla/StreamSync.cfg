SPECIFICATION Spec
CONSTANTS
    Bytes <- MCBytes
    ComputeCrc32 <- MCCrc
    MaxPayload = 4
    SizeModulus = 1000
    Units <- StrayUnits
    MaxUnits = 3
    MaxPiece = 9
    MayReset = FALSE
CHECK_DEADLOCK FALSE
INVARIANT
    SyncFindsFrame
