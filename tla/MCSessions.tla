------------------------------ MODULE MCSessions ------------------------------
(***************************************************************************)
(* Small instances of Sessions.  Users, sessions, tokens and processes are *)
(* interchangeable; two sessions suffice for one session's request to      *)
(* touch another's row.                                                    *)
(***************************************************************************)
EXTENDS Sessions, TLC

CONSTANTS u1, u2, s1, s2, t1, t2, t3, t4, p1, p2

MCUsers == {u1, u2}
OneSession == {s1}
TwoSessions == {s1, s2}
ThreeTokens == {t1, t2, t3}
FourTokens == {t1, t2, t3, t4}
OneProc == {p1}
TwoProcs == {p1, p2}

\* Sound for invariants and action properties; no liveness is checked here.
Symmetry ==
    Permutations(MCUsers) \cup Permutations(Sessions) \cup Permutations(Tokens)
        \cup Permutations(Procs)
===============================================================================
