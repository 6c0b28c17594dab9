CONSTANTS
    t1 = t1
    t2 = t2
    IOs <- SmallPort
    Foreign <- Mmc
    BootFsel <- Boot
    BootPull <- PullDown
    Pulls = {"UP"}
    Driven <- Outside
    Threads = {t1, t2}
    Masks <- PinMasks
    MaxCalls = 2
    MaxSets = 1
SPECIFICATION Spec
SYMMETRY ThreadSymmetry
CHECK_DEADLOCK FALSE
INVARIANTS
    ForeignPinsUntouched
    LevelsWereAsked
    
    ReinitIsExact
