SPECIFICATION Spec
CONSTANTS
    p1 = p1
    p2 = p2
    Peers = {p1, p2}
    Traffic <- MCTraffic
    Order <- MCOrder
    Late <- MCLate
    MaxMessages <- MCMaxMessages
    MaxTries = 2
    MaxFaults = 1
INVARIANTS
    TypeOK
    OwnHandler
    AnswerTrue
    HandledOnce
    Arrives
