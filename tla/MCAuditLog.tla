------------------------------ MODULE MCAuditLog ------------------------------
(***************************************************************************)
(* Small instances of AuditLog: more entries than the worker and the       *)
(* buffer hold together, so that the buffer fills up.                      *)
(***************************************************************************)
EXTENDS AuditLog, TLC

CONSTANTS e1, e2, e3, e4, h1, h2

ThreeEntries == {e1, e2, e3}
FourEntries == {e1, e2, e3, e4}
OneHandler == {h1}
TwoHandlers == {h1, h2}

\* Used only where no liveness property is checked.
Symmetry == Permutations(Entries) \cup Permutations(Handlers)
===============================================================================
