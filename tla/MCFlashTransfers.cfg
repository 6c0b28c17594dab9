CONSTANTS
    t1 = t1
    t2 = t2
    Threads = {t1, t2}
    Size = 3
    Requests <- SomeRequests
    Builds = {TRUE, FALSE}
    MaxCalls = 3
SPECIFICATION Spec
CHECK_DEADLOCK FALSE
INVARIANTS
    LoneTransfersAreExact
PROPERTY TransfersStayWhereAsked
