----------------------------- MODULE MCRateLimiter -----------------------------
(***************************************************************************)
(* A bucket of two tokens that regains half a token per tick.              *)
(***************************************************************************)
EXTENDS RateLimiter, TLC

CONSTANTS ip1, ip2

OneIP == {ip1}
TwoIPs == {ip1, ip2}

\* Sound for invariants and action properties; no liveness is checked here.
Symmetry == Permutations(IPs)
===============================================================================
