SPECIFICATION Spec
CONSTANTS
    Bytes <- MCBytes
    ComputeCrc32 <- MCCrc
    MaxPayload = 2
    SizeModulus = 8
    Units <- HeaderUnits
    MaxUnits = 3
    MaxPiece = 9
    MayReset = FALSE
CHECK_DEADLOCK FALSE
PROPERTY
    OversizedRejected
