CONSTANTS
    p1 = p1
    p2 = p2
    Procs = {p1, p2}
    Builds = {TRUE, FALSE}
    Configs <- SomeConfigs
    MaxCreates = 3
    MaxFaults = 2
SPECIFICATION BoardSpec
CHECK_DEADLOCK FALSE
INVARIANTS
    RegistersHaveOneOwner
    DestroyReleasesAll
    LeaksAreExplained
    GpioBoardsSurvive
PROPERTY WaitersGetIn
