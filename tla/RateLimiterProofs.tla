--------------------------- MODULE RateLimiterProofs ---------------------------
(***************************************************************************)
(* Proofs about RateLimiter for every rate, burst, set of addresses and    *)
(* bound of the clock.                                                     *)
(***************************************************************************)
EXTENDS RateLimiter, TLAPS

(***************************************************************************)
(* The bound on what was served is inductive once it includes what could   *)
(* still be served at once.                                                *)
(***************************************************************************)
Potential ==
    \A ip \in IPs: \A a \in 0..now:
        served[ip][a] * Unit + Refill(ip) <= Capacity + Rate * (now - a)

NothingServedLater ==
    \A ip \in IPs: \A a \in 0..MaxTime: a > now => served[ip][a] = 0

IInv == TypeOK /\ Potential /\ NothingServedLater

-------------------------------------------------------------------------------

\* A bucket never holds more than the burst.
LEMMA RefillBounds ==
    ASSUME TypeOK, NEW ip \in IPs
    PROVE  Refill(ip) \in 0..Capacity
<1> USE LimiterAssumption
<1>1. CASE ips[ip] = NoBucket
  BY <1>1 DEF Refill
<1>2. CASE ips[ip] # NoBucket
  <2>1. /\ ips[ip].tokens \in Nat /\ ips[ip].lastRefill \in Nat
        /\ ips[ip].lastRefill <= now /\ now \in Nat
    BY <1>2 DEF TypeOK, Bucket
  <2>2. (now - ips[ip].lastRefill) * Rate \in Nat
    BY <2>1
  <2> QED
    BY <1>2, <2>1, <2>2 DEF Refill, AtMost
<1> QED
  BY <1>1, <1>2

\* The same of the next state.
LEMMA NextRefillBounds ==
    ASSUME TypeOK', NEW ip \in IPs
    PROVE  Refill(ip)' \in 0..Capacity
<1> USE LimiterAssumption
<1>1. CASE ips'[ip] = NoBucket
  BY <1>1 DEF Refill
<1>2. CASE ips'[ip] # NoBucket
  <2>1. /\ ips'[ip].tokens \in Nat /\ ips'[ip].lastRefill \in Nat
        /\ ips'[ip].lastRefill <= now' /\ now' \in Nat
    BY <1>2 DEF TypeOK, Bucket
  <2>2. (now' - ips'[ip].lastRefill) * Rate \in Nat
    BY <2>1
  <2> QED
    BY <1>2, <2>1, <2>2 DEF Refill, AtMost
<1> QED
  BY <1>1, <1>2

LEMMA InitIInv == Init => IInv
<1> SUFFICES ASSUME Init PROVE IInv
  OBVIOUS
<1> USE LimiterAssumption DEF Init
<1>1. TypeOK
  BY DEF TypeOK
<1>2. Potential
  <2> SUFFICES ASSUME NEW ip \in IPs, NEW a \in 0..now
               PROVE  served[ip][a] * Unit + Refill(ip) <= Capacity + Rate * (now - a)
    BY DEF Potential
  <2>1. a = 0 /\ now = 0 /\ served[ip][a] = 0
    OBVIOUS
  <2>2. Refill(ip) = Capacity
    BY DEF Refill
  <2> QED
    BY <2>1, <2>2
<1>3. NothingServedLater
  BY DEF NothingServedLater
<1> QED
  BY <1>1, <1>2, <1>3 DEF IInv

\* A bucket that was just filled or emptied into t holds exactly t.
LEMMA FreshRefill ==
    ASSUME TypeOK, NEW ip \in IPs, NEW t \in 0..Capacity, now' = now,
           ips' = [ips EXCEPT ![ip] = [tokens |-> t, lastRefill |-> now]]
    PROVE  /\ Refill(ip)' = t
           /\ \A b \in IPs \ {ip}: Refill(b)' = Refill(b)
           /\ ips' \in [IPs -> Bucket \cup {NoBucket}]
           /\ \A b \in IPs: ips'[b] # NoBucket =>
                 ips'[b].tokens <= Capacity /\ ips'[b].lastRefill <= now'
<1> USE LimiterAssumption
<1> DEFINE r == [tokens |-> t, lastRefill |-> now]
<1>1. now \in Nat /\ r \in Bucket /\ r # NoBucket
  BY DEF TypeOK, Bucket
<1>2. ips'[ip] = r
  BY DEF TypeOK
<1>3. Refill(ip)' = AtMost(t + (now - now) * Rate, Capacity)
  BY <1>1, <1>2 DEF Refill
<1>4. Refill(ip)' = t
  BY <1>1, <1>3 DEF AtMost
<1>5. \A b \in IPs \ {ip}: Refill(b)' = Refill(b)
  BY DEF Refill, TypeOK
<1>6. ips' \in [IPs -> Bucket \cup {NoBucket}]
  BY <1>1 DEF TypeOK
<1>7. \A b \in IPs: ips'[b] # NoBucket =>
          ips'[b].tokens <= Capacity /\ ips'[b].lastRefill <= now'
  BY <1>1, <1>2 DEF TypeOK
<1> QED
  BY <1>4, <1>5, <1>6, <1>7

LEMMA ServeStep ==
    ASSUME IInv, NEW ip \in IPs, Serve(ip)
    PROVE  IInv'
<1> USE LimiterAssumption
<1>0. TypeOK /\ now' = now /\ now \in 0..MaxTime
  BY DEF IInv, TypeOK, Serve
<1>1. Refill(ip) - Unit \in 0..Capacity /\ Refill(ip) \in Int
  BY <1>0, RefillBounds DEF Serve
<1>2. /\ Refill(ip)' = Refill(ip) - Unit
      /\ \A b \in IPs \ {ip}: Refill(b)' = Refill(b)
      /\ ips' \in [IPs -> Bucket \cup {NoBucket}]
      /\ \A b \in IPs: ips'[b] # NoBucket =>
            ips'[b].tokens <= Capacity /\ ips'[b].lastRefill <= now'
  BY <1>0, <1>1, FreshRefill DEF Serve
<1>3. /\ \A a \in 0..MaxTime: served'[ip][a] = IF a <= now THEN served[ip][a] + 1
                                               ELSE served[ip][a]
      /\ \A b \in IPs \ {ip}: served'[b] = served[b]
      /\ served' \in [IPs -> [0..MaxTime -> Nat]]
  BY DEF Serve, IInv, TypeOK
<1>4. TypeOK'
  BY <1>0, <1>2, <1>3 DEF TypeOK, Serve
<1>5. Potential'
  <2> SUFFICES ASSUME NEW b \in IPs, NEW a \in 0..now'
               PROVE  served'[b][a] * Unit + Refill(b)' <= Capacity + Rate * (now' - a)
    BY DEF Potential
  <2>1. a \in 0..now /\ a \in 0..MaxTime
    BY <1>0
  <2>2. served[b][a] * Unit + Refill(b) <= Capacity + Rate * (now - a)
    BY <2>1 DEF IInv, Potential
  <2>3. CASE b # ip
    BY <1>0, <1>2, <1>3, <2>2, <2>3
  <2>4. CASE b = ip
    <3>1. served'[b][a] = served[b][a] + 1 /\ served[b][a] \in Nat
      BY <1>0, <1>3, <2>1, <2>4 DEF TypeOK
    <3>2. served'[b][a] * Unit = served[b][a] * Unit + Unit
      BY <3>1
    <3>3. served[b][a] * Unit \in Nat /\ Rate * (now - a) \in Int
      BY <3>1, <1>0, <2>1
    <3> QED
      BY <1>0, <1>1, <1>2, <2>2, <2>4, <3>2, <3>3
  <2> QED
    BY <2>3, <2>4
<1>6. NothingServedLater'
  BY <1>0, <1>3 DEF IInv, NothingServedLater
<1> QED
  BY <1>4, <1>5, <1>6 DEF IInv

LEMMA RejectStep ==
    ASSUME IInv, NEW ip \in IPs, Reject(ip)
    PROVE  IInv'
<1>0. TypeOK /\ now' = now /\ served' = served /\ swept' = swept
  BY DEF IInv, Reject
<1>1. Refill(ip) \in 0..Capacity
  BY <1>0, RefillBounds
<1>2. /\ Refill(ip)' = Refill(ip)
      /\ \A b \in IPs \ {ip}: Refill(b)' = Refill(b)
      /\ ips' \in [IPs -> Bucket \cup {NoBucket}]
      /\ \A b \in IPs: ips'[b] # NoBucket =>
            ips'[b].tokens <= Capacity /\ ips'[b].lastRefill <= now'
  BY <1>0, <1>1, FreshRefill DEF Reject
<1>3. TypeOK'
  BY <1>0, <1>2 DEF TypeOK
<1>4. \A b \in IPs: Refill(b)' = Refill(b)
  BY <1>2
<1>5. Potential' /\ NothingServedLater'
  BY <1>0, <1>4 DEF IInv, Potential, NothingServedLater
<1> QED
  BY <1>3, <1>5 DEF IInv

\* The cleanup takes only full buckets, which a new one equals.
LEMMA SweptRefill ==
    ASSUME TypeOK, Cleanup, NEW b \in IPs
    PROVE  Refill(b)' = Refill(b)
<1> USE LimiterAssumption
<1>1. CASE ~Removable(b)
  BY <1>1 DEF Cleanup, Refill
<1>2. CASE Removable(b)
  <2>1. /\ ips[b] # NoBucket /\ ips[b].tokens = Capacity
        /\ ips[b].lastRefill \in Nat /\ ips[b].lastRefill <= now /\ now \in Nat
    BY <1>2 DEF Removable, Stale, TypeOK, Bucket
  <2>2. (now - ips[b].lastRefill) * Rate \in Nat
    BY <2>1
  <2>3. Refill(b) = Capacity
    BY <2>1, <2>2 DEF Refill, AtMost
  <2>4. Refill(b)' = Capacity
    BY <1>2 DEF Cleanup, Refill
  <2> QED
    BY <2>3, <2>4
<1> QED
  BY <1>1, <1>2

LEMMA CleanupStep ==
    ASSUME IInv, Cleanup
    PROVE  IInv'
<1> USE LimiterAssumption
<1>0. TypeOK /\ now' = now /\ served' = served /\ swept' = now
  BY DEF IInv, Cleanup
<1>1. TypeOK'
  BY <1>0 DEF TypeOK, Cleanup
<1>2. \A b \in IPs: Refill(b)' = Refill(b)
  BY <1>0, SweptRefill
<1>3. Potential' /\ NothingServedLater'
  BY <1>0, <1>2 DEF IInv, Potential, NothingServedLater
<1> QED
  BY <1>1, <1>3 DEF IInv

\* A bucket regains at most Rate in a tick.
LEMMA TickRefill ==
    ASSUME TypeOK, NEW ip \in IPs, Tick
    PROVE  Refill(ip)' <= Refill(ip) + Rate
<1> USE LimiterAssumption
<1>0. now' = now + 1 /\ ips' = ips /\ now \in Nat
  BY DEF Tick, TypeOK
<1>1. CASE ips[ip] = NoBucket
  BY <1>0, <1>1 DEF Refill
<1>2. CASE ips[ip] # NoBucket
  <2>1. /\ ips[ip].tokens \in Nat /\ ips[ip].lastRefill \in Nat
        /\ ips[ip].lastRefill <= now
    BY <1>2 DEF TypeOK, Bucket
  <2>2. (now - ips[ip].lastRefill) * Rate \in Nat
    BY <1>0, <2>1
  <2>3. (now' - ips[ip].lastRefill) * Rate = (now - ips[ip].lastRefill) * Rate + Rate
    <3>1. now - ips[ip].lastRefill \in Nat /\ Rate \in Nat
      BY <1>0, <2>1
    <3>2. now' - ips[ip].lastRefill = (now - ips[ip].lastRefill) + 1
      BY <1>0, <2>1
    <3>3. \A d, r \in Nat: (d + 1) * r = d * r + r
      OBVIOUS
    <3> QED
      BY <3>1, <3>2, <3>3
  <2>4. Refill(ip) = AtMost(ips[ip].tokens + (now - ips[ip].lastRefill) * Rate, Capacity)
    BY <1>2 DEF Refill
  <2>5. Refill(ip)' = AtMost(ips[ip].tokens + (now - ips[ip].lastRefill) * Rate + Rate, Capacity)
    BY <1>0, <1>2, <2>1, <2>2, <2>3 DEF Refill
  <2> QED
    BY <2>1, <2>2, <2>4, <2>5 DEF AtMost
<1> QED
  BY <1>1, <1>2

LEMMA TickStep ==
    ASSUME IInv, Tick
    PROVE  IInv'
<1> USE LimiterAssumption
<1>0. /\ TypeOK /\ now \in 0..MaxTime /\ now < MaxTime /\ now' = now + 1
      /\ ips' = ips /\ served' = served /\ swept' = swept
  BY DEF IInv, TypeOK, Tick
<1>1. TypeOK'
  BY <1>0 DEF TypeOK, Bucket
<1>2. Potential'
  <2> SUFFICES ASSUME NEW ip \in IPs, NEW a \in 0..now'
               PROVE  served'[ip][a] * Unit + Refill(ip)' <= Capacity + Rate * (now' - a)
    BY DEF Potential
  <2>1. CASE a \in 0..now
    <3>1. served[ip][a] * Unit + Refill(ip) <= Capacity + Rate * (now - a)
      BY <2>1 DEF IInv, Potential
    <3>2. served[ip][a] \in Nat
      BY <1>0, <2>1 DEF TypeOK
    <3>3. served[ip][a] * Unit \in Nat /\ Rate * (now - a) \in Int
      BY <1>0, <2>1, <3>2
    <3>4. Rate * (now' - a) = Rate * (now - a) + Rate
      BY <1>0, <2>1
    <3>5. Refill(ip) \in Int /\ Refill(ip)' \in Int
      BY <1>0, <1>1, RefillBounds, NextRefillBounds
    <3>6. Refill(ip)' <= Refill(ip) + Rate
      BY <1>0, TickRefill
    <3> QED
      BY <1>0, <3>1, <3>3, <3>4, <3>5, <3>6
  <2>2. CASE a = now + 1
    <3>1. served'[ip][a] = 0
      BY <1>0, <2>2 DEF IInv, NothingServedLater
    <3>2. Refill(ip)' \in 0..Capacity
      BY <1>1, NextRefillBounds
    <3> QED
      BY <1>0, <2>2, <3>1, <3>2
  <2> QED
    BY <1>0, <2>1, <2>2
<1>3. NothingServedLater'
  BY <1>0 DEF IInv, NothingServedLater
<1> QED
  BY <1>1, <1>2, <1>3 DEF IInv

LEMMA NextIInv == IInv /\ [Next]_vars => IInv'
<1> SUFFICES ASSUME IInv, [Next]_vars PROVE IInv'
  OBVIOUS
<1>1. ASSUME NEW ip \in IPs, Serve(ip) PROVE IInv'
  BY <1>1, ServeStep
<1>2. ASSUME NEW ip \in IPs, Reject(ip) PROVE IInv'
  BY <1>2, RejectStep
<1>3. CASE Cleanup
  BY <1>3, CleanupStep
<1>4. CASE Tick
  BY <1>4, TickStep
<1>5. CASE UNCHANGED vars
  BY <1>5 DEF vars, IInv, TypeOK, Potential, NothingServedLater, Refill
<1> QED
  BY <1>1, <1>2, <1>3, <1>4, <1>5 DEF Next

\* IInv holds in every state of the limiter.
THEOREM InductiveInvariant == Spec => []IInv
  BY InitIInv, NextIInv, PTL DEF Spec

\* Buckets hold between nothing and the burst, and were last refilled in the
\* past.
THEOREM TypeCorrect == Spec => []TypeOK
<1>1. IInv => TypeOK
  BY DEF IInv
<1> QED
  BY <1>1, InductiveInvariant, PTL

\* Whatever the rate and the burst, no address is served more than the burst
\* and the refill of any stretch of time (Limit and startCleanup).
THEOREM WindowBounded == Spec => []WindowBound
<1>1. IInv => WindowBound
  <2> SUFFICES ASSUME IInv, NEW ip \in IPs, NEW a \in 0..now
               PROVE  served[ip][a] * Unit <= Capacity + Rate * (now - a)
    BY DEF WindowBound
  <2> USE LimiterAssumption
  <2>1. served[ip][a] * Unit + Refill(ip) <= Capacity + Rate * (now - a)
    BY DEF IInv, Potential
  <2>2. Refill(ip) \in Nat
    BY RefillBounds DEF IInv
  <2>3. a \in 0..MaxTime /\ now \in Nat
    BY DEF IInv, TypeOK
  <2>4. served[ip][a] \in Nat
    BY <2>3 DEF IInv, TypeOK
  <2>5. served[ip][a] * Unit \in Nat /\ Rate * (now - a) \in Int
    BY <2>3, <2>4
  <2> QED
    BY <2>1, <2>2, <2>5
<1> QED
  BY <1>1, InductiveInvariant, PTL

-------------------------------------------------------------------------------
(* What a refusal is due to *)

(***************************************************************************)
(* A bucket is never below what its busiest stretch of time has left over: *)
(* the converse of Potential.                                              *)
(***************************************************************************)
Earned ==
    \A ip \in IPs: \E a \in 0..now:
        Refill(ip) = Capacity + Rate * (now - a) - served[ip][a] * Unit

\* In a tick a bucket regains all of Rate, or it is full.
LEMMA TickRefillsOrFills ==
    ASSUME TypeOK, NEW ip \in IPs, Tick
    PROVE  Refill(ip)' = Refill(ip) + Rate \/ Refill(ip)' = Capacity
<1> USE LimiterAssumption
<1>0. now' = now + 1 /\ ips' = ips /\ now \in Nat
  BY DEF Tick, TypeOK
<1>1. CASE ips[ip] = NoBucket
  BY <1>0, <1>1 DEF Refill
<1>2. CASE ips[ip] # NoBucket
  <2>1. /\ ips[ip].tokens \in Nat /\ ips[ip].lastRefill \in Nat
        /\ now - ips[ip].lastRefill \in Nat
    BY <1>0, <1>2 DEF TypeOK, Bucket
  <2>2. \A d, r \in Nat: (d + 1) * r = d * r + r /\ d * r \in Nat
    OBVIOUS
  <2>3. /\ (now' - ips[ip].lastRefill) * Rate = (now - ips[ip].lastRefill) * Rate + Rate
        /\ (now - ips[ip].lastRefill) * Rate \in Nat
    <3>1. now' - ips[ip].lastRefill = (now - ips[ip].lastRefill) + 1
      BY <1>0, <2>1
    <3> QED
      BY <2>1, <2>2, <3>1
  <2>4. /\ Refill(ip) = AtMost(ips[ip].tokens + (now - ips[ip].lastRefill) * Rate, Capacity)
        /\ Refill(ip)' = AtMost(ips[ip].tokens + (now' - ips[ip].lastRefill) * Rate, Capacity)
    BY <1>0, <1>2 DEF Refill
  <2> QED
    BY <2>1, <2>3, <2>4 DEF AtMost
<1> QED
  BY <1>1, <1>2

LEMMA EarnedInit == Init => Earned
<1> SUFFICES ASSUME Init, NEW ip \in IPs
             PROVE  \E a \in 0..now:
                        Refill(ip) = Capacity + Rate * (now - a) - served[ip][a] * Unit
  BY DEF Earned
<1> USE LimiterAssumption
<1>1. now = 0 /\ 0 \in 0..MaxTime /\ served[ip][0] = 0 /\ Refill(ip) = Capacity
  BY DEF Init, Refill
<1>2. Refill(ip) = Capacity + Rate * (now - 0) - served[ip][0] * Unit
  BY <1>1
<1> QED
  BY <1>1, <1>2

\* What is not ticking or serving leaves every bucket as full as it was.
LEMMA EarnedUnchanged ==
    ASSUME Earned, now' = now, served' = served, \A b \in IPs: Refill(b)' = Refill(b)
    PROVE  Earned'
BY DEF Earned

LEMMA EarnedServe ==
    ASSUME TypeOK, Earned, NEW ip \in IPs, Serve(ip)
    PROVE  Earned'
<1> USE LimiterAssumption
<1>0. now' = now /\ now \in 0..MaxTime
  BY DEF Serve, TypeOK
<1>1. Refill(ip) - Unit \in 0..Capacity /\ Refill(ip) \in Int
  BY RefillBounds DEF Serve
<1>2. Refill(ip)' = Refill(ip) - Unit /\ \A b \in IPs \ {ip}: Refill(b)' = Refill(b)
  BY <1>0, <1>1, FreshRefill DEF Serve
<1>3. /\ \A a \in 0..now: served'[ip][a] = served[ip][a] + 1 /\ served[ip][a] \in Nat
      /\ \A b \in IPs \ {ip}: served'[b] = served[b]
  BY <1>0 DEF Serve, TypeOK
<1> SUFFICES ASSUME NEW b \in IPs
             PROVE  \E a \in 0..now':
                        Refill(b)' = Capacity + Rate * (now' - a) - served'[b][a] * Unit
  BY DEF Earned
<1>4. PICK a \in 0..now: Refill(b) = Capacity + Rate * (now - a) - served[b][a] * Unit
  BY DEF Earned
<1>5. CASE b # ip
  BY <1>0, <1>2, <1>3, <1>4, <1>5
<1>6. CASE b = ip
  <2>1. served'[b][a] * Unit = served[b][a] * Unit + Unit
    BY <1>3, <1>6
  <2>2. served[b][a] * Unit \in Int /\ Rate * (now - a) \in Int
    BY <1>0, <1>3, <1>6
  <2> QED
    BY <1>0, <1>1, <1>2, <1>4, <1>6, <2>1, <2>2
<1> QED
  BY <1>5, <1>6

LEMMA EarnedTick ==
    ASSUME TypeOK, NothingServedLater, Earned, Tick
    PROVE  Earned'
<1> USE LimiterAssumption
<1>0. /\ now \in 0..MaxTime /\ now < MaxTime /\ now' = now + 1
      /\ served' = served
  BY DEF Tick, TypeOK
<1> SUFFICES ASSUME NEW ip \in IPs
             PROVE  \E a \in 0..now':
                        Refill(ip)' = Capacity + Rate * (now' - a) - served'[ip][a] * Unit
  BY DEF Earned
<1>1. CASE Refill(ip)' = Capacity
  <2>1. now' \in 0..now' /\ now' - now' = 0 /\ served'[ip][now'] = 0
    BY <1>0 DEF NothingServedLater
  <2>2. Refill(ip)' = Capacity + Rate * (now' - now') - served'[ip][now'] * Unit
    BY <1>1, <2>1
  <2> QED
    BY <2>1, <2>2
<1>2. CASE Refill(ip)' = Refill(ip) + Rate
  <2>1. PICK a \in 0..now: Refill(ip) = Capacity + Rate * (now - a) - served[ip][a] * Unit
    BY DEF Earned
  <2>2. a \in 0..MaxTime /\ a \in 0..now'
    BY <1>0
  <2>6. served[ip][a] \in Nat
    BY <2>2 DEF TypeOK
  <2>3. Rate * (now' - a) = Rate * (now - a) + Rate
    BY <1>0, <2>2
  <2>4. served[ip][a] * Unit \in Int /\ Rate * (now - a) \in Int
    BY <1>0, <2>2, <2>6
  <2>5. Refill(ip)' = Capacity + Rate * (now' - a) - served'[ip][a] * Unit
    BY <1>0, <1>2, <2>1, <2>3, <2>4
  <2> QED
    BY <2>2, <2>5
<1> QED
  BY <1>1, <1>2, TickRefillsOrFills

LEMMA EarnedStep == IInv /\ Earned /\ [Next]_vars => Earned'
<1> SUFFICES ASSUME IInv, Earned, [Next]_vars PROVE Earned'
  OBVIOUS
<1>0. TypeOK /\ NothingServedLater
  BY DEF IInv
<1>1. ASSUME NEW ip \in IPs, Serve(ip) PROVE Earned'
  BY <1>0, <1>1, EarnedServe
<1>2. ASSUME NEW ip \in IPs, Reject(ip) PROVE Earned'
  <2>1. Refill(ip) \in 0..Capacity
    BY <1>0, RefillBounds
  <2>2. \A b \in IPs: Refill(b)' = Refill(b)
    BY <1>0, <1>2, <2>1, FreshRefill DEF Reject
  <2> QED
    BY <1>2, <2>2, EarnedUnchanged DEF Reject
<1>3. CASE Cleanup
  BY <1>0, <1>3, SweptRefill, EarnedUnchanged DEF Cleanup
<1>4. CASE Tick
  BY <1>0, <1>4, EarnedTick
<1>5. CASE UNCHANGED vars
  BY <1>5 DEF vars, Earned, Refill
<1> QED
  BY <1>1, <1>2, <1>3, <1>4, <1>5 DEF Next

\* Limit refuses a request only when serving it would pass the bound: neither
\* the refill of a refused request (which moves lastRefill on), nor the cap, nor
\* startCleanup takes anything from an address.
THEOREM RefusalsAreJustified == Spec => []RefusalsAreEarned
<1>1. IInv /\ Earned => RefusalsAreEarned
  <2> SUFFICES ASSUME IInv, Earned, NEW ip \in IPs, Refill(ip) < Unit
               PROVE  \E a \in 0..now:
                          (served[ip][a] + 1) * Unit > Capacity + Rate * (now - a)
    BY DEF RefusalsAreEarned
  <2> USE LimiterAssumption
  <2>1. PICK a \in 0..now: Refill(ip) = Capacity + Rate * (now - a) - served[ip][a] * Unit
    BY DEF Earned
  <2>2. now \in Nat /\ a \in 0..MaxTime /\ served[ip][a] \in Nat
    BY DEF IInv, TypeOK
  <2>3. /\ (served[ip][a] + 1) * Unit = served[ip][a] * Unit + Unit
        /\ served[ip][a] * Unit \in Int /\ Rate * (now - a) \in Int
    BY <2>2
  <2> QED
    BY <2>1, <2>3
<1> QED
  BY <1>1, EarnedInit, EarnedStep, InductiveInvariant, PTL DEF Spec

-------------------------------------------------------------------------------
(* What the cleanup removes *)

\* With a burst of at least one token no stored bucket is ever full: a new or
\* refilled one that could be full pays for its request before it is stored.
StoredBucketsAreNotFull == \A ip \in IPs: ips[ip] # NoBucket => ips[ip].tokens < Capacity

LEMMA NotFullStep ==
    ASSUME Unit <= Capacity, IInv, StoredBucketsAreNotFull, [Next]_vars
    PROVE  StoredBucketsAreNotFull'
<1> USE LimiterAssumption
<1>0. TypeOK
  BY DEF IInv
<1>1. ASSUME NEW ip \in IPs, Serve(ip) PROVE StoredBucketsAreNotFull'
  <2>1. Refill(ip) \in 0..Capacity
    BY <1>0, RefillBounds
  <2> QED
    BY <1>0, <1>1, <2>1 DEF Serve, StoredBucketsAreNotFull, TypeOK
<1>2. ASSUME NEW ip \in IPs, Reject(ip) PROVE StoredBucketsAreNotFull'
  <2>1. Refill(ip) \in 0..Capacity
    BY <1>0, RefillBounds
  <2> QED
    BY <1>0, <1>2, <2>1 DEF Reject, StoredBucketsAreNotFull, TypeOK
<1>3. CASE Cleanup
  BY <1>3 DEF Cleanup, StoredBucketsAreNotFull
<1>4. CASE Tick \/ UNCHANGED vars
  BY <1>4 DEF Tick, vars, StoredBucketsAreNotFull
<1> QED
  BY <1>1, <1>2, <1>3, <1>4 DEF Next

\* startCleanup never deletes an entry: it compares the tokens as Limit last
\* stored them (rate_limit.go:82), and Limit stores fewer than the burst.
THEOREM NothingIsEverRemoved ==
    ASSUME Unit <= Capacity
    PROVE  Spec => [][\A ip \in IPs: ips[ip] # NoBucket => ips'[ip] # NoBucket]_vars
<1>1. Init => StoredBucketsAreNotFull
  BY DEF Init, StoredBucketsAreNotFull
<1>2. IInv /\ StoredBucketsAreNotFull /\ [Next]_vars => StoredBucketsAreNotFull'
  BY NotFullStep
<1>3. ASSUME IInv, StoredBucketsAreNotFull, Next
      PROVE  \A ip \in IPs: ips[ip] # NoBucket => ips'[ip] # NoBucket
  <2> USE LimiterAssumption
  <2>0. ips \in [IPs -> Bucket \cup {NoBucket}] /\ now \in Nat
    BY <1>3 DEF IInv, TypeOK
  <2>1. ASSUME NEW b \in IPs, Serve(b) \/ Reject(b)
        PROVE  \A ip \in IPs: ips[ip] # NoBucket => ips'[ip] # NoBucket
    <3>1. Refill(b) \in Nat /\ (Refill(b) >= Unit => Refill(b) - Unit \in Nat)
      BY <1>3, RefillBounds DEF IInv
    <3>2. [tokens |-> Refill(b), lastRefill |-> now] # NoBucket
      BY <2>0, <3>1
    <3>3. Refill(b) >= Unit => [tokens |-> Refill(b) - Unit, lastRefill |-> now] # NoBucket
      BY <2>0, <3>1
    <3> QED
      BY <2>0, <2>1, <3>2, <3>3 DEF Serve, Reject
  <2>2. CASE Cleanup
    <3>1. ASSUME NEW ip \in IPs, ips[ip] # NoBucket PROVE ~Removable(ip)
      BY <1>3, <2>0, <3>1 DEF Removable, StoredBucketsAreNotFull, Bucket
    <3> QED
      BY <2>2, <3>1 DEF Cleanup
  <2>3. CASE Tick
    BY <2>3 DEF Tick
  <2> QED
    BY <1>3, <2>1, <2>2, <2>3 DEF Next
<1>4. IInv /\ StoredBucketsAreNotFull /\ [Next]_vars
        => [\A ip \in IPs: ips[ip] # NoBucket => ips'[ip] # NoBucket]_vars
  BY <1>3
<1> QED
  BY <1>1, <1>2, <1>4, InductiveInvariant, PTL DEF Spec
===============================================================================
