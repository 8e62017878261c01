SPECIFICATION Spec
CONSTANTS
    Workers = {w1, w2}
    Forwarder = Forwarder
    Nobody = Nobody
    LogLevel = 2
    QueueSize = 2
    MaxSends = 2
    MaxFailures = 2
INVARIANTS
    HostLearns
    LocksOrdered
PROPERTIES
    SendersReturn
    LogDrains
