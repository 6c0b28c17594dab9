CONSTANTS
    Elements = {a, b}
    Zero = Zero
    Junk = Junk
    InitialCapacity = 2
    MaxSize = 4
    KrakenDebug = TRUE
SPECIFICATION Spec
SYMMETRY ElementSymmetry
INVARIANTS
    TypeOK
    ListedSlotsAreElements
    AccessesAreNear
PROPERTY ImplementsList
