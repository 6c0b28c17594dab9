CONSTANTS
    IOs <- SelftestPins
    Foreign <- NoPins
    BootFsel <- Boot
    BootPull <- PullUp
    Pulls = {}
    Driven <- NoPins
    Threads = {Dispatcher}
    Masks = {}
    MaxCalls = 0
    MaxSets = 0
    ClockPin = 3
    DataPin = 4
    WordSizes = {2, 8}
    Words <- Patterns
    BufferSize = 2
    MaxWords = 3
    Dispatcher = Dispatcher
SPECIFICATION SerialSpec
INVARIANTS
    WireCarriesWords
    EdgeMarksBit
    WaitLeavesOneWord
PROPERTIES
    RisingEdgeMarksData
    EveryWordIsSent
