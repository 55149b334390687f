------------------------------ MODULE AuditTrail ------------------------------
(***************************************************************************)
(* What the audit pipeline promises to those who call Log: an entry is     *)
(* settled exactly once, by a row in audit_logs or by being given up, rows *)
(* are never removed, and no entry stays in between for ever.              *)
(***************************************************************************)
CONSTANT Entries

VARIABLES accepted,   \* entries passed to Log
          recorded,   \* entries with a row in audit_logs
          dropped     \* entries given up

trail == <<accepted, recorded, dropped>>

Init == accepted = {} /\ recorded = {} /\ dropped = {}

Waiting == accepted \ (recorded \cup dropped)

Accept(e) ==
    /\ e \notin accepted
    /\ accepted' = accepted \cup {e}
    /\ UNCHANGED <<recorded, dropped>>

\* Some waiting entries are recorded and others given up, as when the
\* process ends in the middle of several INSERTs.
Settle(R, D) ==
    /\ R \subseteq Waiting /\ D \subseteq Waiting
    /\ R \cap D = {}
    /\ recorded' = recorded \cup R
    /\ dropped' = dropped \cup D
    /\ UNCHANGED accepted

Next ==
    \/ \E e \in Entries: Accept(e)
    \/ \E R, D \in SUBSET Entries: Settle(R, D)

Safety == Init /\ [][Next]_trail

Liveness == \A e \in Entries: (e \in accepted) ~> (e \in recorded \cup dropped)

Spec == Safety /\ Liveness
===============================================================================
