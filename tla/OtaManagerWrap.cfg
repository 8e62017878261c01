SPECIFICATION Spec
CONSTANTS
    Sizes <- MCSizes
    Crcs <- MCCrcs
    Totals <- MCTotals
    Payloads = {d}
    NoData = NoData
    MaxFirmwareSize = 2
    ChunkModulus = 4
    ReportInterval = 3
    SlotChunks = 6
    ProgressConnected = TRUE
INVARIANT
    InstalledCountExact
