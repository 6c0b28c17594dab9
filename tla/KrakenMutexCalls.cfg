CONSTANTS
    Threads = {t1, t2, t3, t4}
    SpuriousFailure = TRUE
    KrakenDebug = TRUE
SPECIFICATION Spec
INVARIANTS
    TypeOK
    FlagAccountedFor
PROPERTY SomeLockCallReturns
