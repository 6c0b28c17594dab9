CONSTANTS
    u1 = u1
    u2 = u2
    c1 = c1
    c2 = c2
    d1 = d1
    d2 = d2
    Clocks = {c1, c2}
    Drivers = {d1, d2}
    Users = {u1}
    Dispatcher = Dispatcher
    Null = Null
    Junk = Junk
    InitialCapacity = 1
    SpuriousFailure = TRUE
    KrakenDebug = TRUE
    Calls <- Selftest
    MaxCalls = 4
SPECIFICATION Spec
CHECK_DEADLOCK FALSE
INVARIANTS
    ListsAreExact
    WalkIsComplete
    StaleTicksBounded
    FreedAfterExit
    UndisturbedWalksAreSafe
PROPERTIES
    CallsReturn
    ListedClocksAreVisited
