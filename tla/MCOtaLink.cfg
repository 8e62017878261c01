SPECIFICATION LinkSpec
CONSTANTS
    a = a
    b = b
    Sizes <- MCSizes
    Crcs <- MCCrcs
    Totals <- MCTotals
    Payloads = {a, b}
    NoData = NoData
    MaxFirmwareSize = 2
    ChunkModulus = 5
    ReportInterval = 50
    SlotChunks = 4
    ProgressConnected = TRUE
    HostImages <- MCHostImages
    Window = 2
    MaxFaults = 3
INVARIANTS
    InstalledIntact
    HostNotMisled
PROPERTY
    HostSettles
