SPECIFICATION Spec
CONSTANTS
    x1 = x1 d1 = d1 d2 = d2 i1 = i1 i2 = i2 k1 = k1 k2 = k2 p1 = p1 p2 = p2
    Drivers <- OneDriver
    Docs <- OneDoc
    Files <- TwoFiles
    Keys <- TwoKeys
    Procs <- OneProc
    Bodies <- MCBodies
    Dates <- MCDates
    Notice = 1
    MaxDate = 2
    MaxFaults = 0
    MaxRequests = 2
    None = None Partial = Partial
PROPERTIES
    DeletionClearsDate
