SPECIFICATION Spec
CONSTANTS
    o1 = o1 o2 = o2 e1 = e1 e2 = e2 n1 = n1 s1 = s1 p1 = p1 p2 = p2
    free = free enterprise = enterprise
    Orgs <- TwoOrgs
    Emails <- TwoEmails
    Names <- OneName
    Suffixes <- OneSuffix
    Procs <- TwoProcs
    Plans <- MCPlans
    FreePlan = free
    PlanLimit <- MCPlanLimit
    Values <- MCValues
    Deltas <- MCDeltas
    MaxMonth = 1
    MaxFaults = 1
    MaxRequests = 5
    None = None Unlimited = Unlimited
SYMMETRY Symmetry
INVARIANTS
    TypeOK
    TenantsAreSeparate
    LockoutsTakeFaults
    ProvisionedOnce
    HistoryMissesOnlyFailures
    OverridesDoNotPileUp
    UsageOvershootIsBounded
PROPERTIES
    ImplementsTenants
