------------------------------ MODULE RateLimiter ------------------------------
(***************************************************************************)
(* The token buckets of internal/delivery/http/middleware/rate_limit.go.   *)
(* Limit and the cleanup goroutine hold the mutex for all they do, so each *)
(* is one action.  Amounts of tokens are counted in fractions of which     *)
(* Unit make one token; time is counted in ticks of the monotonic clock.   *)
(***************************************************************************)
EXTENDS Integers

CONSTANTS IPs,         \* client addresses, as getClientIP tells them apart
          Unit,        \* fractions in one token
          Rate,        \* RATE_LIMIT_RATE, fractions per tick
          Capacity,    \* RATE_LIMIT_BURST, in fractions
          StaleAfter,  \* one hour, in ticks
          MaxTime,     \* bound of the clock
          NoBucket

ASSUME LimiterAssumption ==
    /\ {Unit, Rate, Capacity, StaleAfter, MaxTime} \subseteq Nat
    /\ Unit > 0
    /\ NoBucket \notin [tokens: Nat, lastRefill: Nat]

VARIABLES ips,      \* the map of ipLimiter entries
          now,      \* the clock
          swept,    \* history: when the cleanup last ran
          served    \* history: per address and time a, requests served since a

vars == <<ips, now, swept, served>>

Bucket == [tokens: Nat, lastRefill: Nat]

Init ==
    /\ ips = [ip \in IPs |-> NoBucket]
    /\ now = 0
    /\ swept = 0
    /\ served = [ip \in IPs |-> [a \in 0..MaxTime |-> 0]]

AtMost(x, y) == IF x > y THEN y ELSE x

\* Mutant: the refill is not capped.
UncappedRefill(ip) ==
    IF ips[ip] = NoBucket THEN Capacity
    ELSE ips[ip].tokens + (now - ips[ip].lastRefill) * Rate

\* Mutant: only whole tokens are refilled.
WholeRefill(ip) ==
    IF ips[ip] = NoBucket THEN Capacity
    ELSE AtMost(ips[ip].tokens + (((now - ips[ip].lastRefill) * Rate) \div Unit) * Unit, Capacity)

\* The tokens of a new entry, or of an old one after the refill.
Refill(ip) ==
    IF ips[ip] = NoBucket THEN Capacity
    ELSE AtMost(ips[ip].tokens + (now - ips[ip].lastRefill) * Rate, Capacity)

\* A request that finds one token takes it and is passed on.
Serve(ip) ==
    /\ Refill(ip) >= Unit
    /\ ips' = [ips EXCEPT ![ip] = [tokens |-> Refill(ip) - Unit, lastRefill |-> now]]
    /\ served' = [served EXCEPT ![ip] =
                    [a \in 0..MaxTime |-> IF a <= now THEN @[a] + 1 ELSE @[a]]]
    /\ UNCHANGED <<now, swept>>

\* 429: the entry is created or refilled all the same.
Reject(ip) ==
    /\ Refill(ip) < Unit
    /\ ips' = [ips EXCEPT ![ip] = [tokens |-> Refill(ip), lastRefill |-> now]]
    /\ UNCHANGED <<now, swept, served>>

Stale(ip) == ips[ip] # NoBucket /\ now - ips[ip].lastRefill > StaleAfter

\* Mutant: an idle entry goes whatever its bucket holds.
RemovableWhenIdle(ip) == Stale(ip)

\* Tokens are compared as the last request stored them.
Removable(ip) == Stale(ip) /\ ips[ip].tokens >= Capacity

\* The goroutine of startCleanup.
Cleanup ==
    /\ ips' = [ip \in IPs |-> IF Removable(ip) THEN NoBucket ELSE ips[ip]]
    /\ swept' = now
    /\ UNCHANGED <<now, served>>

Tick ==
    /\ now < MaxTime
    /\ now' = now + 1
    /\ UNCHANGED <<ips, swept, served>>

Next == (\E ip \in IPs: Serve(ip) \/ Reject(ip)) \/ Cleanup \/ Tick

Spec == Init /\ [][Next]_vars

-------------------------------------------------------------------------------
(* Properties *)

TypeOK ==
    /\ ips \in [IPs -> Bucket \cup {NoBucket}]
    /\ \A ip \in IPs: ips[ip] # NoBucket =>
        ips[ip].tokens <= Capacity /\ ips[ip].lastRefill <= now
    /\ now \in 0..MaxTime
    /\ swept \in 0..MaxTime
    /\ served \in [IPs -> [0..MaxTime -> Nat]]

(***************************************************************************)
(* Over any stretch of time that ends now, an address is served no more    *)
(* than the burst and what was refilled meanwhile, across refusals,        *)
(* refills and sweeps of the map.                                          *)
(***************************************************************************)
WindowBound ==
    \A ip \in IPs: \A a \in 0..now:
        served[ip][a] * Unit <= Capacity + Rate * (now - a)

(***************************************************************************)
(* A request is refused only if serving it would break that bound for some *)
(* stretch of time: nothing an address is entitled to gets lost in the     *)
(* refills of refused requests, at the cap, or in a sweep.                 *)
(***************************************************************************)
RefusalsAreEarned ==
    \A ip \in IPs: Refill(ip) < Unit =>
        \E a \in 0..now: (served[ip][a] + 1) * Unit > Capacity + Rate * (now - a)

(***************************************************************************)
(* rate_limit.go: "startCleanup periodically removes stale IP entries to   *)
(* prevent memory leaks", "if it has been idle and bucket is fully         *)
(* refilled": no such entry is left after a sweep.                         *)
(***************************************************************************)
StaleEntriesAreRemoved ==
    [][swept' # swept =>
        \A ip \in IPs: ~(Stale(ip) /\ Refill(ip) = Capacity)']_vars
===============================================================================
