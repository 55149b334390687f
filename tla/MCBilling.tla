------------------------------- MODULE MCBilling -------------------------------
(***************************************************************************)
(* A small instance of Billing over Registration: two addresses whose      *)
(* companies have the same name, a plan with a limit of two and one        *)
(* without limit.                                                          *)
(***************************************************************************)
EXTENDS Billing, TLC

CONSTANTS o1, o2, e1, e2, n1, s1, p1, p2, free, enterprise

TwoOrgs == {o1, o2}
TwoEmails == {e1, e2}
OneName == {n1}
OneSuffix == {s1}
TwoProcs == {p1, p2}
MCPlans == {free, enterprise}
MCPlanLimit == [q \in MCPlans |-> IF q = free THEN 2 ELSE Unlimited]
MCValues == {1}
MCDeltas == {1, 2}

Symmetry == Permutations(Procs) \cup Permutations(Orgs) \cup Permutations(Emails)
===============================================================================
