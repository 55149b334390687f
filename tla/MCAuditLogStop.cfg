SPECIFICATION Spec
CONSTANTS
    e1 = e1 e2 = e2 e3 = e3 e4 = e4 h1 = h1 h2 = h2
    Entries <- ThreeEntries
    Handlers <- OneHandler
    Capacity = 2
    InsertsMayFail = FALSE
    MayCrash = FALSE
    DrainMayTimeOut = FALSE
    NoEntry = NoEntry
INVARIANTS
    OrderlyStopLosesNothing
