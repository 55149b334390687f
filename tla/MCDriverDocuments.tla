--------------------------- MODULE MCDriverDocuments ---------------------------
(***************************************************************************)
(* A small instance of DriverDocuments: two documents of one driver, of    *)
(* types that are copied to different columns, two attachments and two     *)
(* keys.                                                                   *)
(***************************************************************************)
EXTENDS DriverDocuments, TLC

CONSTANTS x1, d1, d2, i1, i2, k1, k2, p1, p2

OneDriver == {x1}
OneDoc == {d1}
TwoDocs == {d1, d2}
TwoFiles == {i1, i2}
TwoKeys == {k1, k2}
OneProc == {p1}
TwoProcs == {p1, p2}

MCBodies ==
    {[driver |-> x1, type |-> "cnh", exp |-> 1],
     [driver |-> x1, type |-> "toxicology", exp |-> 3],
     [driver |-> x1, type |-> "other", exp |-> None]}

MCDates == {None, 3}

Symmetry == Permutations(Procs) \cup Permutations(Docs)
                \cup Permutations(Files) \cup Permutations(Keys)
===============================================================================
