-------------------------------- MODULE MCFuel --------------------------------
(***************************************************************************)
(* A small instance of Fuel: a vehicle with two old records on which the   *)
(* detection can rest, and ids for every creation there is room for.       *)
(***************************************************************************)
EXTENDS Fuel, TLC

CONSTANTS v1, f1, f2, f3, f4, f5, f6, p1, p2

OneVehicle == {v1}
SixIds == {f1, f2, f3, f4, f5, f6}
OneProc == {p1}
TwoProcs == {p1, p2}

Record(date, odometer) ==
    [vehicle |-> v1, date |-> date, odometer |-> odometer, liters |-> 1,
     anomaly |-> FALSE, recent |-> FALSE, live |-> TRUE]

MCPast == [i \in Ids |->
    CASE i = f1 -> Record(1, 1)
      [] i = f2 -> Record(2, 3)
      [] OTHER -> NoRow]

Fill(date, odometer) == [vehicle |-> v1, date |-> date, odometer |-> odometer, liters |-> 1]

\* In line with the past, out of line with it, below the latest, without date.
MCBodies == {Fill(4, 5), Fill(3, 4), Fill(3, 2), Fill(0, 5)}

Symmetry == Permutations(Procs)
===============================================================================
