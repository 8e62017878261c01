SPECIFICATION Spec
CONSTANTS
    SequenceNumbers = {1, 515}
    PayloadSet <- MCPayloadSet
    MaxPayload = 2
    Capacities = {13, 14}
    BurstShapes <- MCBurstShapes
    MaxFrames = 2
CHECK_DEADLOCK FALSE
INVARIANTS
    CrcIsStandard
    RoundTrip
    DamageDetected
    ComposersAgree
