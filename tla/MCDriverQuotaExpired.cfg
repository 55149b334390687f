SPECIFICATION Spec
CONSTANTS
    o1 = o1 o2 = o2 d1 = d1 d2 = d2 d3 = d3
    p1 = p1 p2 = p2 free = free enterprise = enterprise
    Orgs <- OneOrg
    Ids <- ThreeIds
    Procs <- OneProc
    Plans <- MCPlans
    FreePlan = free
    PlanLimit <- MCPlanLimit
    Overrides = {0, 1}
    StatementsMayFail = FALSE
    Unlimited = Unlimited NoOrg = NoOrg NoRow = NoRow NoPlan = NoPlan
SYMMETRY Symmetry
INVARIANTS
    ExpiredSubscriptionBlocks
