SPECIFICATION Spec
CONSTANTS
    t1 = t1
    t2 = t2
    midi = midi
    pwm = pwm
    uart = uart
    Threads = {t1, t2}
    Transports = {midi, pwm}
    Links = {uart}
    AsyncLinks = {uart}
    FailsAtOnce = {}
    LinkOf <- MCLinkOf
    Senders <- MCSenders
    Connected = {midi, pwm}
    Payloads = {p}
    TooLong = TooLong
    SeqModulus = 7
    MaxSends = 3
INVARIANTS
    TypeOK
    FilledIntact
    InFlightIntact
    WireUnique
    ReturnTellsTruth
    WireInSequence
PROPERTIES
    SendReturns
    ImplementsFrameSender
