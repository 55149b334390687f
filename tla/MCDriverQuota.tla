----------------------------- MODULE MCDriverQuota -----------------------------
(***************************************************************************)
(* Small instances of DriverQuota: a plan whose limit is one driver and    *)
(* one without limit.                                                      *)
(***************************************************************************)
EXTENDS DriverQuota, TLC

CONSTANTS o1, o2, d1, d2, d3, p1, p2, free, enterprise

OneOrg == {o1}
TwoOrgs == {o1, o2}
ThreeIds == {d1, d2, d3}
OneProc == {p1}
TwoProcs == {p1, p2}
MCPlans == {free, enterprise}
MCPlanLimit == [q \in MCPlans |-> IF q = free THEN 1 ELSE Unlimited]

\* Sound for invariants and action properties; no liveness is checked here.
Symmetry == Permutations(Orgs) \cup Permutations(Ids) \cup Permutations(Procs)
===============================================================================
