CONSTANTS
    Threads = {t1, t2}
    SpuriousFailure = FALSE
    KrakenDebug = FALSE
SPECIFICATION Spec
INVARIANT MutualExclusion
