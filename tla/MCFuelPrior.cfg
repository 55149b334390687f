SPECIFICATION Spec
CONSTANTS
    v1 = v1 f1 = f1 f2 = f2 f3 = f3 f4 = f4 f5 = f5 f6 = f6 p1 = p1 p2 = p2
    Vehicles <- OneVehicle
    Ids <- SixIds
    Procs <- OneProc
    Bodies <- MCBodies
    Past <- MCPast
    Unit = 2
    Window = 3
    MinPrior = 2
    Baseline = 2
    MaxFaults = 0
    MaxRequests = 4
    NoRow = NoRow NoId = NoId NoBody = NoBody
SYMMETRY Symmetry
PROPERTIES
    EditsCompareWithPrior
