---------------------------- MODULE SessionFamily ----------------------------
(***************************************************************************)
(* What the service promises about a refresh-token family, one session at  *)
(* a time and every operation atomic: a session is opened with a token,    *)
(* each rotation replaces the current token by one that was never current  *)
(* before, and a revocation is final.                                      *)
(***************************************************************************)
CONSTANTS Sessions,   \* the ids of the rows of user_sessions
          Tokens,     \* the refresh tokens, told apart by their jti
          NoFamily    \* the value of a session that was never opened

VARIABLES family,     \* family[s]: the current token and the revocation flag
          current     \* every token that is or was the current one

Init ==
    /\ family = [s \in Sessions |-> NoFamily]
    /\ current = {}

\* A login opens a session with a token of its own.
Open(s, t) ==
    /\ family[s] = NoFamily
    /\ t \notin current
    /\ family' = [family EXCEPT ![s] = [token |-> t, revoked |-> FALSE]]
    /\ current' = current \cup {t}

\* A refresh of a session that is not revoked replaces its token.
Rotate(s, t) ==
    /\ family[s] # NoFamily
    /\ ~family[s].revoked
    /\ t \notin current
    /\ family' = [family EXCEPT ![s] = [token |-> t, revoked |-> FALSE]]
    /\ current' = current \cup {t}

\* A logout, a revocation or a detected replay ends the family for good.
Revoke(s) ==
    /\ family[s] # NoFamily
    /\ ~family[s].revoked
    /\ family' = [family EXCEPT ![s] = [token |-> family[s].token, revoked |-> TRUE]]
    /\ UNCHANGED current

Next ==
    \E s \in Sessions:
        \/ Revoke(s)
        \/ \E t \in Tokens: Open(s, t) \/ Rotate(s, t)

Spec == Init /\ [][Next]_<<family, current>>

==============================================================================
