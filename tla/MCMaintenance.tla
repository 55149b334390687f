----------------------------- MODULE MCMaintenance -----------------------------
(***************************************************************************)
(* A small instance of Maintenance: one vehicle and one plan, and the      *)
(* bodies that lead through every branch.                                  *)
(***************************************************************************)
EXTENDS Maintenance, TLC

CONSTANTS v1, l1, r1, r2, p1, p2

OneVehicle == {v1}
OnePlan == {l1}
OneRecord == {r1}
TwoRecords == {r1, r2}
TwoProcs == {p1, p2}
BothKinds == {"mileage", "date"}

Readings(m, d) == [k \in Kinds |-> IF k = "mileage" THEN m ELSE d]

MCRecordInputs ==
    {[vehicle |-> v1, plan |-> l1, status |-> "completed", at |-> Readings(2, 0)],
     [vehicle |-> v1, plan |-> None, status |-> "in_progress", at |-> Readings(0, 0)],
     [vehicle |-> None, plan |-> l1, status |-> "completed", at |-> Readings(0, 0)]}

\* The mileage alerts at once, the date only after a day.
MCPlanInputs ==
    {[vehicle |-> v1, interval |-> Readings(1, 2), last |-> Readings(None, None)]}

MCVehicleInputs == {[mileage |-> 3, status |-> None]}

Symmetry == Permutations(Procs) \cup Permutations(Records)
===============================================================================
