CONSTANTS
    u1 = u1
    u2 = u2
    c1 = c1
    c2 = c2
    d1 = d1
    d2 = d2
    Clocks = {c1, c2}
    Drivers = {d1}
    Users = {u1}
    Dispatcher = Dispatcher
    Null = Null
    Junk = Junk
    InitialCapacity = 2
    SpuriousFailure = FALSE
    KrakenDebug = FALSE
    Calls <- Selftest
    MaxCalls = 4
SPECIFICATION Spec
CHECK_DEADLOCK FALSE
INVARIANT OnlyLiveHandlesUsed
