SPECIFICATION Spec
CONSTANTS
    e1 = e1 e2 = e2 e3 = e3 e4 = e4 h1 = h1 h2 = h2
    Entries <- FourEntries
    Handlers <- TwoHandlers
    Capacity = 1
    InsertsMayFail = TRUE
    MayCrash = TRUE
    DrainMayTimeOut = TRUE
    NoEntry = NoEntry
INVARIANTS
    TypeOK
    EntriesAreInOnePlace
PROPERTIES
    ImplementsTrail
