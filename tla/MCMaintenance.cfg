SPECIFICATION Spec
CONSTANTS
    v1 = v1 l1 = l1 r1 = r1 r2 = r2 p1 = p1 p2 = p2
    Vehicles <- OneVehicle
    Plans <- OnePlan
    Records <- OneRecord
    Procs <- TwoProcs
    Kinds <- BothKinds
    Notice = 1
    RecordInputs <- MCRecordInputs
    PlanInputs <- MCPlanInputs
    VehicleInputs <- MCVehicleInputs
    MaxFaults = 1
    MaxRequests = 4
    MaxDate = 2
    Clear = Clear None = None
SYMMETRY Symmetry
INVARIANTS
    TypeOK
    AlertsDoNotPileUp
PROPERTIES
    UndisturbedCheckAlertsAll
    CompletionEndsAlerts
    UndisturbedMileageNeverFalls
    UndisturbedPlanIsConsistent
