CONSTANTS
    Configs <- Extremes
    Bytes <- Patterns
    BufferSize = 1
    MaxBytes = 3
SPECIFICATION Spec
INVARIANTS
    WireCarriesFrames
    IdleLineIsHigh
PROPERTIES
    WaitIsExactOutsideFetch
    EveryByteIsSent
    WaitReturns
