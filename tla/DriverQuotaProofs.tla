--------------------------- MODULE DriverQuotaProofs ---------------------------
(***************************************************************************)
(* Proofs about DriverQuota for every number of organizations, driver ids  *)
(* and concurrent requests, every plan and every override.                 *)
(***************************************************************************)
EXTENDS DriverQuota, FiniteSetTheorems, TLAPS

(***************************************************************************)
(* The bound on the overshoot is not inductive: nothing in it says how     *)
(* many requests hold a count that is out of date.  A request counts as    *)
(* pending for a limit B when the count it read is below B: it may still   *)
(* be admitted under B and insert.                                         *)
(***************************************************************************)
Pending(o, B) == {p \in Procs: req[p].pc # "idle" /\ req[p].org = o /\ req[p].seen < B}

\* Every limit that covers what was answered so far bounds the drivers there
\* are and those that may still come.  It is stated for all such limits since
\* the next evaluation may answer a larger one, and for K, the number of
\* requests that an organization ever has in flight at once.
RaceIsBounded(K) ==
    \A o \in Orgs \ unbounded: \A B \in Nat:
        granted[o] <= B => Count(o) + Cardinality(Pending(o, B)) < B + K

InFlight(o) == {p \in Procs: req[p].pc # "idle" /\ req[p].org = o}

InFlightAtMost(K) == \A o \in Orgs: Cardinality(InFlight(o)) <= K

\* A request that waits to insert was admitted under a limit answered to it.
InsertersWereAdmitted ==
    \A p \in Procs:
        req[p].pc = "insert" /\ req[p].org \notin unbounded
            => req[p].seen < granted[req[p].org]

IInv == TypeOK /\ InsertersWereAdmitted

-------------------------------------------------------------------------------

LEMMA CountsAreNumbers ==
    ASSUME NEW o, NEW B
    PROVE  /\ Count(o) \in Nat
           /\ Cardinality(Procs) \in Nat \ {0}
           /\ IsFiniteSet(DriversOf(o))
           /\ IsFiniteSet(Pending(o, B))
           /\ Cardinality(Pending(o, B)) \in Nat
           /\ Cardinality(Pending(o, B)) <= Cardinality(Procs)
<1> USE QuotaAssumption
<1>1. DriversOf(o) \in SUBSET Ids
  BY DEF DriversOf
<1>2. Pending(o, B) \in SUBSET Procs
  BY DEF Pending
<1>3. IsFiniteSet(DriversOf(o)) /\ IsFiniteSet(Pending(o, B))
  BY <1>1, <1>2, FS_Subset
<1>4. Cardinality(Pending(o, B)) <= Cardinality(Procs)
  BY <1>2, FS_Subset
<1>5. Cardinality(Procs) # 0
  BY FS_EmptySet
<1> QED
  BY <1>3, <1>4, <1>5, FS_CardinalityType DEF Count

\* The same for the next state.
LEMMA NextCountsAreNumbers ==
    ASSUME NEW o, NEW B
    PROVE  /\ Count(o)' \in Nat
           /\ Cardinality(Pending(o, B)') \in Nat
           /\ Cardinality(Pending(o, B)') <= Cardinality(Procs)
<1> USE QuotaAssumption
<1>1. DriversOf(o)' \in SUBSET Ids
  BY DEF DriversOf
<1>2. Pending(o, B)' \in SUBSET Procs
  BY DEF Pending
<1>3. IsFiniteSet(DriversOf(o)') /\ IsFiniteSet(Pending(o, B)')
  BY <1>1, <1>2, FS_Subset
<1>4. Cardinality(Pending(o, B)') <= Cardinality(Procs)
  BY <1>2, FS_Subset
<1> QED
  BY <1>3, <1>4, FS_CardinalityType DEF Count

LEMMA InitIInv == Init => IInv
<1> SUFFICES ASSUME Init PROVE IInv
  OBVIOUS
<1> USE QuotaAssumption DEF Init
<1>1. TypeOK
  BY DEF TypeOK, Request, Idle
<1>2. InsertersWereAdmitted
  BY DEF InsertersWereAdmitted, Idle
<1> QED
  BY <1>1, <1>2 DEF IInv

-------------------------------------------------------------------------------
(* What each kind of step does to a request and to the history.            *)

\* The request moves on, or ends, with the count it has read.
Moves(p, r) ==
    /\ req[p].pc # "idle"
    /\ req' = [req EXCEPT ![p] = r]
    /\ r = Idle \/ (r.pc # "idle" /\ r.org = req[p].org /\ r.seen = req[p].seen)

\* An answer and what follows from it.
LEMMA DecideStep ==
    ASSUME IInv, NEW p \in Procs, NEW limit \in Limit, Decide(p, limit),
           req[p].pc # "idle",
           UNCHANGED <<drivers, override, subscription>>
    PROVE  IInv'
<1> USE QuotaAssumption
<1> DEFINE o == req[p].org
           r == IF Admits(limit, req[p].seen)
                THEN [pc |-> "insert", org |-> o, seen |-> req[p].seen, plan |-> NoPlan]
                ELSE Idle
<1>1. req' = [req EXCEPT ![p] = r]
  BY DEF Decide, Advance, Finish
<1>2. req[p] \in Request /\ o \in Orgs /\ req[p].seen \in Nat
  BY DEF IInv, TypeOK, Request
<1>3. r \in Request /\ (r.pc # "idle" => r.org \in Orgs) /\ r.pc # "plan"
  BY <1>2 DEF Request, Idle
<1>5. \A q \in Orgs: granted[q] <= granted'[q] /\ granted'[q] \in Nat
  BY DEF Decide, IInv, TypeOK
<1>6. TypeOK'
  <2>1. req' \in [Procs -> Request]
    BY <1>1, <1>3 DEF IInv, TypeOK
  <2>2. granted' \in [Orgs -> Nat] /\ unbounded' \subseteq Orgs
    BY <1>2, <1>5 DEF Decide, IInv, TypeOK
  <2>3. \A q \in Procs: /\ req'[q].pc # "idle" => req'[q].org \in Orgs
                        /\ req'[q].pc = "plan" => req'[q].plan \in Plans
    BY <1>1, <1>3 DEF IInv, TypeOK
  <2>4. met' \in [Procs -> SUBSET Events]
    BY DEF Decide, Finish, IInv, TypeOK
  <2> QED
    BY <2>1, <2>2, <2>3, <2>4 DEF IInv, TypeOK
<1>7. InsertersWereAdmitted'
  <2> SUFFICES ASSUME NEW q \in Procs, req'[q].pc = "insert", req'[q].org \notin unbounded'
               PROVE  req'[q].seen < granted'[req'[q].org]
    BY DEF InsertersWereAdmitted
  <2>1. CASE q = p
    <3>1. req'[q] = r /\ r # Idle
      BY <1>1, <2>1 DEF IInv, TypeOK, Idle
    <3>2. Admits(limit, req[p].seen) /\ r.org = o /\ r.seen = req[p].seen
      BY <3>1
    <3>3. limit # Unlimited
      BY <3>1, <3>2 DEF Decide
    <3>4. limit \in Nat /\ req[p].seen < limit
      BY <3>2, <3>3 DEF Admits
    <3>5. granted'[o] >= limit
      BY <3>4, <1>2 DEF Decide, IInv, TypeOK
    <3> QED
      BY <3>1, <3>2, <3>4, <3>5, <1>2, <1>5
  <2>2. CASE q # p
    <3>1. req'[q] = req[q] /\ req[q].org \in Orgs /\ req[q].seen \in Nat
      BY <1>1, <2>2 DEF IInv, TypeOK, Request
    <3>2. req[q].org \notin unbounded
      BY <3>1 DEF Decide
    <3> QED
      BY <3>1, <3>2, <1>5 DEF IInv, InsertersWereAdmitted, TypeOK
  <2> QED
    BY <2>1, <2>2
<1> QED
  BY <1>6, <1>7 DEF IInv

\* The request moves on to read the next table, or ends.
LEMMA QuietMoveStep ==
    ASSUME IInv, NEW p \in Procs, NEW r \in Request, Moves(p, r),
           r.pc # "insert", r.pc = "plan" => r.plan \in Plans,
           met' \in [Procs -> SUBSET Events],
           UNCHANGED <<drivers, override, subscription, granted, unbounded>>
    PROVE  IInv'
<1>1. req' = [req EXCEPT ![p] = r] /\ (r.pc # "idle" => r.org \in Orgs)
  BY DEF Moves, IInv, TypeOK, Idle
<1>2. TypeOK'
  <2>1. req' \in [Procs -> Request]
    BY <1>1 DEF IInv, TypeOK
  <2>2. \A q \in Procs: /\ req'[q].pc # "idle" => req'[q].org \in Orgs
                        /\ req'[q].pc = "plan" => req'[q].plan \in Plans
    BY <1>1 DEF IInv, TypeOK
  <2> QED
    BY <2>1, <2>2 DEF IInv, TypeOK
<1>3. InsertersWereAdmitted'
  BY <1>1 DEF IInv, InsertersWereAdmitted, TypeOK
<1> QED
  BY <1>2, <1>3 DEF IInv

-------------------------------------------------------------------------------
(* One lemma per kind of step.                                             *)

LEMMA CountStep ==
    ASSUME IInv, NEW p \in Procs, NEW o \in Orgs, CountDrivers(p, o)
    PROVE  IInv'
<1> USE QuotaAssumption
<1> DEFINE r == [pc |-> "override", org |-> o, seen |-> Count(o), plan |-> NoPlan]
<1>1. req' = [req EXCEPT ![p] = r] /\ req[p].pc = "idle"
  BY DEF CountDrivers
<1>2. r \in Request
  BY CountsAreNumbers DEF Request
<1>3. TypeOK'
  <2>1. req' \in [Procs -> Request] /\ met' \in [Procs -> SUBSET Events]
    BY <1>1, <1>2 DEF IInv, TypeOK, CountDrivers, Circumstances, Events
  <2>2. \A q \in Procs: /\ req'[q].pc # "idle" => req'[q].org \in Orgs
                        /\ req'[q].pc = "plan" => req'[q].plan \in Plans
    BY <1>1 DEF IInv, TypeOK
  <2> QED
    BY <2>1, <2>2 DEF IInv, TypeOK, CountDrivers
<1>4. InsertersWereAdmitted'
  BY <1>1 DEF IInv, InsertersWereAdmitted, TypeOK, CountDrivers
<1> QED
  BY <1>3, <1>4 DEF IInv

\* What an INSERT does to the table, whatever became of it.
LEMMA InsertAddsOne ==
    ASSUME TypeOK, NEW i \in Ids, NEW o \in Orgs,
           Insert(i, o) \/ UNCHANGED drivers
    PROVE  /\ drivers' \in [Ids -> Orgs \cup {NoOrg}]
           /\ Count(o)' <= Count(o) + 1
           /\ \A a \in Orgs \ {o}: Count(a)' = Count(a)
<1> USE QuotaAssumption
<1>1. drivers' \in [Ids -> Orgs \cup {NoOrg}]
  BY DEF Insert, TypeOK
<1>2. DriversOf(o)' \in SUBSET (DriversOf(o) \cup {i})
  BY DEF Insert, TypeOK, DriversOf
<1>3. /\ IsFiniteSet(DriversOf(o) \cup {i})
      /\ Cardinality(DriversOf(o) \cup {i}) <= Count(o) + 1
  <2>1. IsFiniteSet(DriversOf(o)) /\ Cardinality(DriversOf(o)) \in Nat
    BY CountsAreNumbers DEF Count
  <2>2. /\ IsFiniteSet(DriversOf(o) \cup {i})
        /\ Cardinality(DriversOf(o) \cup {i}) =
              IF i \in DriversOf(o) THEN Cardinality(DriversOf(o))
              ELSE Cardinality(DriversOf(o)) + 1
    BY <2>1, FS_AddElement
  <2> QED
    BY <2>1, <2>2 DEF Count
<1>4. Count(o)' <= Cardinality(DriversOf(o) \cup {i})
  BY <1>2, <1>3, FS_Subset DEF Count
<1>5. Cardinality(DriversOf(o) \cup {i}) \in Nat
  BY <1>3, FS_CardinalityType
<1>6. Count(o)' <= Count(o) + 1
  BY <1>3, <1>4, <1>5, CountsAreNumbers, NextCountsAreNumbers
<1>7. ASSUME NEW a \in Orgs \ {o} PROVE Count(a)' = Count(a)
  <2>1. DriversOf(a)' = DriversOf(a)
    BY DEF Insert, TypeOK, DriversOf
  <2> QED
    BY <2>1 DEF Count
<1> QED
  BY <1>1, <1>6, <1>7

LEMMA CreateStep ==
    ASSUME IInv, NEW p \in Procs, NEW i \in Ids, CreateDriver(p, i)
    PROVE  IInv'
<1> USE QuotaAssumption
<1> DEFINE o == req[p].org
<1>1. req' = [req EXCEPT ![p] = Idle] /\ req[p].pc = "insert" /\ o \in Orgs
  BY DEF CreateDriver, Finish, IInv, TypeOK
<1>2. Insert(i, o) \/ UNCHANGED drivers
  BY DEF CreateDriver
<1>3. TypeOK'
  <2>1. drivers' \in [Ids -> Orgs \cup {NoOrg}]
    BY <1>1, <1>2, InsertAddsOne DEF IInv
  <2>2. Idle \in Request /\ Idle.pc = "idle"
    BY DEF Idle, Request
  <2>3. req' \in [Procs -> Request]
    BY <1>1, <2>2 DEF IInv, TypeOK
  <2>4. \A q \in Procs: /\ req'[q].pc # "idle" => req'[q].org \in Orgs
                        /\ req'[q].pc = "plan" => req'[q].plan \in Plans
    BY <1>1, <2>2 DEF IInv, TypeOK
  <2>5. met' \in [Procs -> SUBSET Events]
    BY DEF CreateDriver, Finish, IInv, TypeOK
  <2> QED
    BY <2>1, <2>3, <2>4, <2>5 DEF IInv, TypeOK, CreateDriver
<1>4. InsertersWereAdmitted'
  BY <1>1 DEF IInv, InsertersWereAdmitted, TypeOK, CreateDriver, Idle
<1> QED
  BY <1>3, <1>4 DEF IInv

LEMMA BillingStep ==
    ASSUME IInv, NEW o \in Orgs, Billing(o)
    PROVE  IInv'
<1> USE QuotaAssumption
<1>1. UNCHANGED <<drivers, req, granted, unbounded>>
  BY DEF Billing, SetOverride, DeleteOverride, Subscribe, Expire
<1>2. met' \in [Procs -> SUBSET Events]
  <2>1. PICK change \in {"overrideChanged", "subscriptionChanged"}: Meets(o, change)
    BY DEF Billing, SetOverride, DeleteOverride, Subscribe, Expire
  <2>2. \A n: Circumstances(o, n)' \in SUBSET Events
    BY DEF Circumstances, Events
  <2> QED
    BY <2>1, <2>2 DEF Meets, Events, IInv, TypeOK
<1>3. override' \in [Orgs -> Limit \cup {NoRow}]
  BY DEF Billing, SetOverride, DeleteOverride, Subscribe, Expire, IInv, TypeOK
<1>4. subscription' \in [Orgs -> Subscription \cup {NoRow}]
  <2>1. CASE \E plan \in Plans: Subscribe(o, plan)
    BY <2>1 DEF Subscribe, Subscription, IInv, TypeOK
  <2>2. CASE Expire(o)
    <3>1. subscription[o] \in Subscription
      BY <2>2 DEF Expire, IInv, TypeOK
    <3>2. [plan |-> subscription[o].plan, expired |-> TRUE] \in Subscription
      BY <3>1 DEF Subscription
    <3> QED
      BY <2>2, <3>2 DEF Expire, IInv, TypeOK
  <2>3. CASE UNCHANGED subscription
    BY <2>3 DEF IInv, TypeOK
  <2> QED
    BY <2>1, <2>2, <2>3 DEF Billing, SetOverride, DeleteOverride
<1>5. TypeOK'
  BY <1>1, <1>2, <1>3, <1>4 DEF IInv, TypeOK
<1>6. InsertersWereAdmitted'
  BY <1>1 DEF IInv, InsertersWereAdmitted
<1> QED
  BY <1>5, <1>6 DEF IInv

LEMMA ReadStep ==
    ASSUME IInv, NEW p \in Procs,
           ReadOverride(p) \/ ReadSubscription(p) \/ ReadPlan(p) \/ Fail(p)
    PROVE  IInv'
<1> USE QuotaAssumption
<1>1. req[p] \in Request /\ (req[p].pc # "idle" => req[p].org \in Orgs)
      /\ (req[p].pc = "plan" => req[p].plan \in Plans)
  BY DEF IInv, TypeOK
<1>0. met \in [Procs -> SUBSET Events]
  BY DEF IInv, TypeOK
<1>2. ASSUME NEW pc \in {"subscription", "plan"}, NEW plan \in Plans \cup {NoPlan},
             pc = "plan" => plan \in Plans, req[p].pc # "idle", Advance(p, pc, plan),
             met' \in [Procs -> SUBSET Events],
             UNCHANGED <<drivers, override, subscription, granted, unbounded>>
      PROVE  IInv'
  <2> DEFINE r == [pc |-> pc, org |-> req[p].org, seen |-> req[p].seen, plan |-> plan]
  <2>1. r \in Request
    BY <1>1 DEF Request
  <2>2. Moves(p, r)
    BY <1>2 DEF Moves, Advance
  <2> QED
    BY <1>2, <2>1, <2>2, QuietMoveStep
<1>3. CASE ReadOverride(p)
  <2>1. req[p].org \in Orgs /\ req[p].pc # "idle"
    BY <1>1, <1>3 DEF ReadOverride
  <2>2. CASE /\ OverrideApplies(req[p].org)
             /\ Decide(p, override[req[p].org])
    <3>1. override[req[p].org] \in Limit
      BY <2>1, <2>2 DEF OverrideApplies, IInv, TypeOK
    <3> QED
      BY <1>3, <2>1, <2>2, <3>1, DecideStep DEF ReadOverride
  <2>3. CASE /\ Advance(p, "subscription", NoPlan)
             /\ met' = [met EXCEPT ![p] = IF OverrideApplies(req[p].org)
                                         THEN @ \cup {"unread"} ELSE @]
             /\ UNCHANGED <<granted, unbounded>>
    <3>1. met' \in [Procs -> SUBSET Events]
      BY <1>0, <2>3 DEF Events
    <3> QED
      BY <1>2, <1>3, <2>1, <2>3, <3>1 DEF ReadOverride
  <2> QED
    BY <1>3, <2>2, <2>3 DEF ReadOverride
<1>4. CASE ReadSubscription(p)
  <2> DEFINE s == subscription[req[p].org]
  <2>1. req[p].org \in Orgs /\ req[p].pc # "idle" /\ 0 \in Limit
    BY <1>1, <1>4 DEF ReadSubscription, Limit
  <2>2. PlanOf(s) \in Plans
    BY <2>1 DEF PlanOf, IInv, TypeOK, Subscription
  <2>3. CASE Decide(p, 0)
    BY <1>4, <2>1, <2>3, DecideStep DEF ReadSubscription
  <2>4. CASE Advance(p, "plan", PlanOf(s)) /\ UNCHANGED <<met, granted, unbounded>>
    BY <1>0, <1>2, <1>4, <2>1, <2>2, <2>4 DEF ReadSubscription
  <2> QED
    BY <1>4, <2>3, <2>4 DEF ReadSubscription
<1>5. CASE ReadPlan(p)
  <2>1. req[p].pc # "idle" /\ PlanLimit[req[p].plan] \in Limit
    BY <1>1, <1>5 DEF ReadPlan
  <2> QED
    BY <1>5, <2>1, DecideStep DEF ReadPlan
<1>6. CASE Fail(p)
  <2>1. Idle \in Request /\ Idle.pc = "idle"
    BY DEF Idle, Request
  <2>2. Moves(p, Idle)
    BY <1>6 DEF Fail, Finish, Moves
  <2>3. met' \in [Procs -> SUBSET Events]
    BY <1>0, <1>6 DEF Fail, Finish
  <2> QED
    BY <1>6, <2>1, <2>2, <2>3, QuietMoveStep DEF Fail
<1> QED
  BY <1>3, <1>4, <1>5, <1>6

LEMMA NextIInv == IInv /\ [Next]_vars => IInv'
<1> SUFFICES ASSUME IInv, [Next]_vars PROVE IInv'
  OBVIOUS
<1>1. ASSUME NEW p \in Procs, NEW o \in Orgs, CountDrivers(p, o) PROVE IInv'
  BY <1>1, CountStep
<1>2. ASSUME NEW p \in Procs, ReadOverride(p) \/ ReadSubscription(p) \/ ReadPlan(p) \/ Fail(p)
      PROVE  IInv'
  BY <1>2, ReadStep
<1>3. ASSUME NEW p \in Procs, NEW i \in Ids, CreateDriver(p, i) PROVE IInv'
  BY <1>3, CreateStep
<1>4. ASSUME NEW o \in Orgs, Billing(o) PROVE IInv'
  BY <1>4, BillingStep
<1>5. CASE UNCHANGED vars
  BY <1>5 DEF vars, IInv, TypeOK, InsertersWereAdmitted
<1> QED
  BY <1>1, <1>2, <1>3, <1>4, <1>5 DEF Next, Step

THEOREM InductiveInvariant == Spec => []IInv
<1>1. Init => IInv
  BY InitIInv
<1>2. IInv /\ [Next]_vars => IInv'
  BY NextIInv
<1> QED
  BY <1>1, <1>2, PTL DEF Spec

\* Every table and request stays within its type.
THEOREM TypeCorrect == Spec => []TypeOK
<1>1. IInv => TypeOK
  BY DEF IInv
<1> QED
  BY <1>1, InductiveInvariant, PTL

-------------------------------------------------------------------------------
(* The race between counting and inserting *)

LEMMA RaceInit ==
    ASSUME Init, NEW K \in Nat \ {0}
    PROVE  RaceIsBounded(K)
<1> SUFFICES ASSUME NEW o \in Orgs, NEW B \in Nat
             PROVE  Count(o) + Cardinality(Pending(o, B)) < B + K
  BY DEF RaceIsBounded
<1>1. DriversOf(o) = {} /\ Pending(o, B) = {}
  BY QuotaAssumption DEF Init, DriversOf, Pending, Idle
<1> QED
  BY <1>1, FS_EmptySet DEF Count

LEMMA PendingOnlyShrinks ==
    ASSUME TypeOK, NEW p \in Procs, NEW r, Moves(p, r), NEW o, NEW B
    PROVE  Cardinality(Pending(o, B)') <= Cardinality(Pending(o, B))
<1>1. Pending(o, B)' \in SUBSET Pending(o, B)
  BY DEF Moves, Pending, TypeOK, Idle
<1> QED
  BY <1>1, CountsAreNumbers, FS_Subset

\* A step that moves one request and inserts nothing keeps the bound, even if
\* it answers a larger limit.
LEMMA MoveKeepsRace ==
    ASSUME TypeOK, TypeOK', NEW K \in Nat, RaceIsBounded(K),
           NEW p \in Procs, NEW r, Moves(p, r), drivers' = drivers,
           \A o \in Orgs: granted[o] <= granted'[o], unbounded \subseteq unbounded'
    PROVE  RaceIsBounded(K)'
<1> SUFFICES ASSUME NEW o \in Orgs \ unbounded', NEW B \in Nat, granted'[o] <= B
             PROVE  Count(o)' + Cardinality(Pending(o, B)') < B + K
  BY DEF RaceIsBounded
<1>1. granted[o] \in Nat /\ granted'[o] \in Nat /\ granted[o] <= B
  BY DEF TypeOK
<1>2. Count(o) + Cardinality(Pending(o, B)) < B + K
  BY <1>1 DEF RaceIsBounded
<1>3. Count(o)' = Count(o)
  BY DEF Count, DriversOf
<1>4. Cardinality(Pending(o, B)') <= Cardinality(Pending(o, B))
  BY PendingOnlyShrinks
<1> QED
  BY <1>2, <1>3, <1>4, CountsAreNumbers, NextCountsAreNumbers

\* A new count makes its request pending only for limits it is below, and then
\* the requests in flight are all there is to come.
LEMMA CountKeepsRace ==
    ASSUME TypeOK, NEW K \in Nat, RaceIsBounded(K), InFlightAtMost(K)',
           NEW p \in Procs, NEW o \in Orgs, CountDrivers(p, o)
    PROVE  RaceIsBounded(K)'
<1> USE QuotaAssumption
<1> DEFINE r == [pc |-> "override", org |-> o, seen |-> Count(o), plan |-> NoPlan]
<1>1. req' = [req EXCEPT ![p] = r] /\ req[p].pc = "idle"
  BY DEF CountDrivers
<1> SUFFICES ASSUME NEW a \in Orgs \ unbounded', NEW B \in Nat, granted'[a] <= B
             PROVE  Count(a)' + Cardinality(Pending(a, B)') < B + K
  BY DEF RaceIsBounded
<1>2. Count(a)' = Count(a)
  BY DEF CountDrivers, Count, DriversOf
<1>3. CASE a = o /\ Count(o) < B
  <2>1. Pending(a, B)' \in SUBSET InFlight(a)' /\ InFlight(a)' \in SUBSET Procs
    BY DEF Pending, InFlight
  <2>2. IsFiniteSet(InFlight(a)') /\ Cardinality(InFlight(a)') \in Nat
    BY <2>1, FS_Subset, FS_CardinalityType
  <2>3. Cardinality(Pending(a, B)') <= Cardinality(InFlight(a)')
    BY <2>1, <2>2, FS_Subset
  <2>4. Cardinality(InFlight(a)') <= K
    BY DEF InFlightAtMost
  <2> QED
    BY <1>2, <1>3, <2>2, <2>3, <2>4, NextCountsAreNumbers
<1>4. CASE ~(a = o /\ Count(o) < B)
  <2>1. Pending(a, B)' \in SUBSET Pending(a, B)
    BY <1>1, <1>4 DEF Pending, TypeOK
  <2>2. Cardinality(Pending(a, B)') <= Cardinality(Pending(a, B))
    BY <2>1, CountsAreNumbers, FS_Subset
  <2>3. Count(a) + Cardinality(Pending(a, B)) < B + K
    BY DEF RaceIsBounded, CountDrivers
  <2> QED
    BY <1>2, <2>2, <2>3, CountsAreNumbers, NextCountsAreNumbers
<1> QED
  BY <1>3, <1>4

\* The row that is inserted is paid for by the request that is no longer pending.
LEMMA CreateKeepsRace ==
    ASSUME IInv, NEW K \in Nat, RaceIsBounded(K),
           NEW p \in Procs, NEW i \in Ids, CreateDriver(p, i)
    PROVE  RaceIsBounded(K)'
<1> DEFINE o == req[p].org
<1>0. TypeOK
  BY DEF IInv
<1>1. req' = [req EXCEPT ![p] = Idle] /\ req[p].pc = "insert" /\ o \in Orgs
  BY <1>0 DEF CreateDriver, Finish, TypeOK
<1>2. Insert(i, o) \/ UNCHANGED drivers
  BY DEF CreateDriver
<1> SUFFICES ASSUME NEW a \in Orgs \ unbounded', NEW B \in Nat, granted'[a] <= B
             PROVE  Count(a)' + Cardinality(Pending(a, B)') < B + K
  BY DEF RaceIsBounded
<1>3. /\ granted[a] <= B /\ a \notin unbounded
      /\ Count(a) + Cardinality(Pending(a, B)) < B + K
  BY DEF CreateDriver, RaceIsBounded
<1>4. CASE a = o
  <2>1. req[p].seen < granted[o] /\ granted[o] \in Nat /\ req[p].seen \in Nat
    BY <1>0, <1>1, <1>3, <1>4 DEF IInv, InsertersWereAdmitted, TypeOK, Request
  <2>2. p \in Pending(a, B)
    BY <1>1, <1>3, <1>4, <2>1 DEF Pending
  <2>3. Pending(a, B)' = Pending(a, B) \ {p}
    BY <1>0, <1>1 DEF Pending, TypeOK, Idle
  <2>4. Cardinality(Pending(a, B)') = Cardinality(Pending(a, B)) - 1
    <3>1. IsFiniteSet(Pending(a, B))
      BY CountsAreNumbers
    <3>2. Cardinality(Pending(a, B) \ {p}) = Cardinality(Pending(a, B)) - 1
      BY <2>2, <3>1, FS_RemoveElement
    <3> QED
      BY <2>3, <3>2
  <2>5. Count(a)' <= Count(a) + 1
    BY <1>0, <1>1, <1>2, <1>4, InsertAddsOne
  <2> QED
    BY <1>3, <2>4, <2>5, CountsAreNumbers, NextCountsAreNumbers
<1>5. CASE a # o
  <2>1. Count(a)' = Count(a)
    BY <1>0, <1>1, <1>2, <1>5, InsertAddsOne
  <2>2. Pending(a, B)' \in SUBSET Pending(a, B)
    BY <1>0, <1>1 DEF Pending, TypeOK, Idle
  <2>3. Cardinality(Pending(a, B)') <= Cardinality(Pending(a, B))
    BY <2>2, CountsAreNumbers, FS_Subset
  <2> QED
    BY <1>3, <2>1, <2>3, CountsAreNumbers, NextCountsAreNumbers
<1> QED
  BY <1>4, <1>5

\* Every other step of a request moves it on or ends it.
LEMMA ReadsMove ==
    ASSUME TypeOK, NEW p \in Procs,
           ReadOverride(p) \/ ReadSubscription(p) \/ ReadPlan(p) \/ Fail(p)
    PROVE  /\ \E r: Moves(p, r)
           /\ drivers' = drivers
           /\ \A o \in Orgs: granted[o] <= granted'[o]
           /\ unbounded \subseteq unbounded'
<1>1. req[p].pc # "idle"
  BY DEF ReadOverride, ReadSubscription, ReadPlan, Fail
<1>2. ASSUME NEW pc \in {"subscription", "plan", "insert"}, NEW plan, Advance(p, pc, plan)
      PROVE  \E r: Moves(p, r)
  <2> DEFINE r == [pc |-> pc, org |-> req[p].org, seen |-> req[p].seen, plan |-> plan]
  <2>1. Moves(p, r)
    BY <1>1, <1>2 DEF Moves, Advance
  <2> QED
    BY <2>1
<1>3. ASSUME Finish(p) PROVE \E r: Moves(p, r)
  <2>1. Moves(p, Idle)
    BY <1>1, <1>3 DEF Moves, Finish
  <2> QED
    BY <2>1
<1>4. ASSUME NEW limit, Decide(p, limit) PROVE \E r: Moves(p, r)
  BY <1>2, <1>3, <1>4 DEF Decide
<1>5. \E r: Moves(p, r)
  BY <1>2, <1>3, <1>4 DEF ReadOverride, ReadSubscription, ReadPlan, Fail
<1>6. (\E limit: Decide(p, limit)) \/ UNCHANGED <<granted, unbounded>>
  BY DEF ReadOverride, ReadSubscription, ReadPlan, Fail
<1>7. (\A o \in Orgs: granted[o] <= granted'[o]) /\ unbounded \subseteq unbounded'
  BY <1>6 DEF Decide, TypeOK
<1>8. drivers' = drivers
  BY DEF ReadOverride, ReadSubscription, ReadPlan, Fail
<1> QED
  BY <1>5, <1>7, <1>8

LEMMA RaceKeeps ==
    ASSUME NEW K \in Nat, IInv, TypeOK', RaceIsBounded(K), InFlightAtMost(K)', [Next]_vars
    PROVE  RaceIsBounded(K)'
<1>1. ASSUME NEW p \in Procs, NEW o \in Orgs, CountDrivers(p, o) PROVE RaceIsBounded(K)'
  BY <1>1, CountKeepsRace DEF IInv
<1>2. ASSUME NEW p \in Procs, ReadOverride(p) \/ ReadSubscription(p) \/ ReadPlan(p) \/ Fail(p)
      PROVE  RaceIsBounded(K)'
  BY <1>2, ReadsMove, MoveKeepsRace DEF IInv
<1>3. ASSUME NEW p \in Procs, NEW i \in Ids, CreateDriver(p, i) PROVE RaceIsBounded(K)'
  BY <1>3, CreateKeepsRace
<1>4. CASE (\E o \in Orgs: Billing(o)) \/ UNCHANGED vars
  <2>1. UNCHANGED <<drivers, req, granted, unbounded>>
    BY <1>4 DEF vars, Billing, SetOverride, DeleteOverride, Subscribe, Expire
  <2> QED
    BY <2>1 DEF RaceIsBounded, Count, DriversOf, Pending
<1> QED
  BY <1>1, <1>2, <1>3, <1>4 DEF Next, Step

LEMMA RaceBounds ==
    ASSUME NEW K \in Nat, IInv, RaceIsBounded(K), NEW o \in Orgs \ unbounded
    PROVE  Count(o) < granted[o] + K
<1>1. granted[o] \in Nat
  BY DEF IInv, TypeOK
<1>2. Count(o) + Cardinality(Pending(o, granted[o])) < granted[o] + K
  BY <1>1 DEF RaceIsBounded
<1> QED
  BY <1>1, <1>2, CountsAreNumbers

(***************************************************************************)
(* The race of CreateDriver is bounded by the number of requests that one  *)
(* organization has in flight at once, whatever the limits are, however    *)
(* they change, and however many requests other organizations make.        *)
(***************************************************************************)
THEOREM OvershootBoundedPerOrganization ==
    ASSUME NEW K \in Nat \ {0}
    PROVE  Spec /\ []InFlightAtMost(K)
               => [](\A o \in Orgs \ unbounded: Count(o) < granted[o] + K)
<1>1. Init => RaceIsBounded(K)
  BY RaceInit
<1>2. IInv /\ IInv' /\ RaceIsBounded(K) /\ InFlightAtMost(K)' /\ [Next]_vars
        => RaceIsBounded(K)'
  BY RaceKeeps DEF IInv
<1>3. IInv /\ RaceIsBounded(K) => \A o \in Orgs \ unbounded: Count(o) < granted[o] + K
  BY RaceBounds
<1> QED
  BY <1>1, <1>2, <1>3, InductiveInvariant, PTL DEF Spec

\* In particular the overshoot stays below the number of concurrent requests.
THEOREM OvershootBounded == Spec => []OvershootIsBounded
<1> DEFINE K == Cardinality(Procs)
           Bounded == RaceIsBounded(K)
<1>0. K \in Nat \ {0}
  BY CountsAreNumbers
<1>1. Init => Bounded
  BY <1>0, RaceInit
<1>2. InFlightAtMost(K)'
  <2> SUFFICES ASSUME NEW o \in Orgs PROVE Cardinality(InFlight(o)') <= K
    BY DEF InFlightAtMost
  <2>1. InFlight(o)' \in SUBSET Procs
    BY DEF InFlight
  <2> QED
    BY <2>1, QuotaAssumption, FS_Subset
<1>3. IInv /\ IInv' /\ Bounded /\ [Next]_vars => Bounded'
  BY <1>0, <1>2, RaceKeeps DEF IInv
<1>4. IInv /\ Bounded => OvershootIsBounded
  BY <1>0, RaceBounds DEF OvershootIsBounded
<1> HIDE DEF Bounded
<1> QED
  BY <1>1, <1>3, <1>4, InductiveInvariant, PTL DEF Spec

(***************************************************************************)
(* An organization whose creations do not overlap never exceeds a limit it *)
(* was answered (README.md: "quota checking"): the overshoot is the work   *)
(* of its own concurrent requests alone.                                   *)
(***************************************************************************)
THEOREM OneAtATimeKeepsQuota == Spec /\ []InFlightAtMost(1) => []QuotaIsNeverExceeded
<1>1. Init => RaceIsBounded(1)
  BY RaceInit
<1>2. IInv /\ IInv' /\ RaceIsBounded(1) /\ InFlightAtMost(1)' /\ [Next]_vars
        => RaceIsBounded(1)'
  BY RaceKeeps DEF IInv
<1>3. IInv /\ RaceIsBounded(1) => QuotaIsNeverExceeded
  <2> SUFFICES ASSUME IInv, RaceIsBounded(1), NEW o \in Orgs \ unbounded
               PROVE  Count(o) <= granted[o]
    BY DEF QuotaIsNeverExceeded
  <2>1. granted[o] \in Nat /\ Count(o) \in Nat /\ Count(o) < granted[o] + 1
    BY CountsAreNumbers, RaceBounds DEF IInv, TypeOK
  <2> QED
    BY <2>1
<1> QED
  BY <1>1, <1>2, <1>3, InductiveInvariant, PTL DEF Spec

-------------------------------------------------------------------------------
(***************************************************************************)
(* What a request has met so far is enough to account for its admission,   *)
(* should the rest of the evaluation admit it.                             *)
(***************************************************************************)
Accounted(m) ==
    \/ "allowed" \in m
    \/ "excepted" \in m
    \/ /\ "planAllowed" \in m
       /\ "unread" \in m \/ {"overrideChanged", "subscriptionChanged"} \subseteq m

\* It has met the present moment.  If it found no override, there still is none
\* unless it met a change, and it had the room the plan gave it at that moment.
\* If it waits for the entitlement of the plan it read, it is accounted for in
\* case that plan has room.
Explained(r, m) ==
    LET o == r.org IN
    /\ r.pc # "idle" => Circumstances(o, r.seen) \subseteq m
    /\ r.pc = "subscription" /\ "unread" \notin m =>
          /\ "overrideChanged" \in m \/ override[o] = NoRow
          /\ \/ "subscriptionChanged" \in m
             \/ Admits(PlanLimitInForce(o), r.seen) => "allowed" \in m
    /\ r.pc = "plan" /\ Admits(PlanLimit[r.plan], r.seen) => Accounted(m)
    /\ r.pc = "insert" => Accounted(m)

AllExplained == IInv /\ \A p \in Procs: Explained(req[p], met[p])

\* One request's step leaves what the others have met alone.
LEMMA OneStepExplains ==
    ASSUME AllExplained, NEW p \in Procs, NEW r, NEW m,
           req' = [req EXCEPT ![p] = r], met' = [met EXCEPT ![p] = m],
           UNCHANGED <<override, subscription>>, Explained(r, m)
    PROVE  \A q \in Procs: Explained(req[q], met[q])'
<1> SUFFICES ASSUME NEW q \in Procs PROVE Explained(req[q], met[q])'
  OBVIOUS
<1>1. /\ q # p => req'[q] = req[q] /\ met'[q] = met[q]
      /\ q = p => req'[q] = r /\ met'[q] = m
  BY DEF AllExplained, IInv, TypeOK
<1>2. Explained(req[q], met[q])
  BY DEF AllExplained
<1>3. \A o, n: /\ Circumstances(o, n)' = Circumstances(o, n)
              /\ PlanLimitInForce(o)' = PlanLimitInForce(o)
  BY DEF Circumstances, LimitInForce, PlanLimitInForce, Expired
<1> QED
  BY <1>1, <1>2, <1>3 DEF Explained

LEMMA EndExplains ==
    ASSUME AllExplained, NEW p \in Procs, Finish(p), UNCHANGED <<override, subscription>>
    PROVE  \A q \in Procs: Explained(req[q], met[q])'
<1>1. Explained(Idle, {})
  BY DEF Explained, Idle
<1> QED
  BY <1>1, OneStepExplains DEF Finish

LEMMA DecideExplains ==
    ASSUME AllExplained, NEW p \in Procs, NEW limit, Decide(p, limit),
           UNCHANGED <<override, subscription>>, req[p].pc # "idle",
           Admits(limit, req[p].seen) => Accounted(met[p])
    PROVE  \A q \in Procs: Explained(req[q], met[q])'
<1>1. CASE Finish(p)
  BY <1>1, EndExplains
<1>2. CASE Admits(limit, req[p].seen) /\ Advance(p, "insert", NoPlan) /\ UNCHANGED met
  <2> DEFINE r == [pc |-> "insert", org |-> req[p].org, seen |-> req[p].seen, plan |-> NoPlan]
  <2>1. req' = [req EXCEPT ![p] = r]
    BY <1>2 DEF Advance
  <2>2. met' = [met EXCEPT ![p] = met[p]]
    BY <1>2 DEF AllExplained, IInv, TypeOK
  <2>3. Circumstances(req[p].org, req[p].seen) \subseteq met[p]
    BY DEF AllExplained, Explained
  <2>4. Explained(r, met[p])
    BY <1>2, <2>3 DEF Explained
  <2> QED
    BY <2>1, <2>2, <2>4, OneStepExplains
<1> QED
  BY <1>1, <1>2 DEF Decide

LEMMA CountExplains ==
    ASSUME AllExplained, NEW p \in Procs, NEW o \in Orgs, CountDrivers(p, o)
    PROVE  \A q \in Procs: Explained(req[q], met[q])'
<1> DEFINE r == [pc |-> "override", org |-> o, seen |-> Count(o), plan |-> NoPlan]
<1>1. Explained(r, Circumstances(o, Count(o)))
  BY DEF Explained
<1> QED
  BY <1>1, OneStepExplains DEF CountDrivers

LEMMA OverrideExplains ==
    ASSUME AllExplained, NEW p \in Procs, ReadOverride(p)
    PROVE  \A q \in Procs: Explained(req[q], met[q])'
<1> DEFINE o == req[p].org
<1>1. /\ req[p].pc = "override" /\ UNCHANGED <<override, subscription>>
      /\ Circumstances(o, req[p].seen) \subseteq met[p]
  BY DEF ReadOverride, AllExplained, Explained
<1>2. CASE OverrideApplies(o) /\ Decide(p, override[o])
  <2> SUFFICES ASSUME Admits(override[o], req[p].seen) PROVE Accounted(met[p])
    BY <1>1, <1>2, DecideExplains
  <2>1. CASE Expired(o)
    BY <1>1, <1>2, <2>1 DEF Circumstances, OverrideApplies, Accounted
  <2>2. CASE ~Expired(o)
    <3>1. LimitInForce(o) = override[o]
      BY <1>2, <2>2 DEF LimitInForce, OverrideApplies
    <3> QED
      BY <1>1, <3>1 DEF Circumstances, Accounted
  <2> QED
    BY <2>1, <2>2
<1>3. CASE /\ Advance(p, "subscription", NoPlan)
           /\ met' = [met EXCEPT ![p] = IF OverrideApplies(o) THEN @ \cup {"unread"} ELSE @]
  <2> DEFINE r == [pc |-> "subscription", org |-> o, seen |-> req[p].seen, plan |-> NoPlan]
             m == IF OverrideApplies(o) THEN met[p] \cup {"unread"} ELSE met[p]
  <2>1. req' = [req EXCEPT ![p] = r] /\ met' = [met EXCEPT ![p] = m]
    BY <1>3 DEF Advance, AllExplained, IInv, TypeOK
  <2>2. Explained(r, m)
    <3>1. CASE OverrideApplies(o)
      BY <1>1, <3>1 DEF Explained
    <3>2. CASE ~OverrideApplies(o)
      <4>1. override[o] = NoRow /\ m = met[p]
        BY <3>2 DEF OverrideApplies
      <4>2. Admits(PlanLimitInForce(o), req[p].seen) => "allowed" \in m
        BY <1>1, <4>1 DEF LimitInForce, Circumstances
      <4> QED
        BY <1>1, <4>1, <4>2 DEF Explained
    <3> QED
      BY <3>1, <3>2
  <2> HIDE DEF r, m
  <2> QED
    BY <1>1, <2>1, <2>2, OneStepExplains
<1> QED
  BY <1>2, <1>3 DEF ReadOverride

LEMMA SubscriptionExplains ==
    ASSUME AllExplained, NEW p \in Procs, ReadSubscription(p)
    PROVE  \A q \in Procs: Explained(req[q], met[q])'
<1> DEFINE o == req[p].org
           s == subscription[o]
<1>1. /\ req[p].pc = "subscription" /\ UNCHANGED <<override, subscription>>
      /\ req[p].seen \in Nat /\ Explained(req[p], met[p])
  BY DEF ReadSubscription, AllExplained, IInv, TypeOK, Request
<1>2. CASE s # NoRow /\ s.expired
  <2>1. Decide(p, 0)
    BY <1>2 DEF ReadSubscription
  <2>2. ~Admits(0, req[p].seen)
    BY <1>1, QuotaAssumption DEF Admits
  <2> QED
    BY <1>1, <2>1, <2>2, DecideExplains
<1>3. CASE ~(s # NoRow /\ s.expired)
  <2> DEFINE r == [pc |-> "plan", org |-> o, seen |-> req[p].seen, plan |-> PlanOf(s)]
  <2>1. req' = [req EXCEPT ![p] = r] /\ met' = [met EXCEPT ![p] = met[p]]
    BY <1>3 DEF ReadSubscription, Advance, AllExplained, IInv, TypeOK
  <2>2. PlanLimit[PlanOf(s)] = PlanLimitInForce(o)
    BY <1>3 DEF PlanLimitInForce, Expired, PlanOf
  <2>3. Admits(PlanLimitInForce(o), r.seen) => Accounted(met[p])
    <3> SUFFICES ASSUME Admits(PlanLimitInForce(o), req[p].seen) PROVE Accounted(met[p])
      OBVIOUS
    <3>1. "planAllowed" \in met[p]
      BY <1>1 DEF Explained, Circumstances
    <3>2. override[o] = NoRow => "allowed" \in met[p]
      BY <1>1 DEF Explained, Circumstances, LimitInForce
    <3> QED
      BY <1>1, <3>1, <3>2 DEF Explained, Accounted
  <2>4. Explained(r, met[p])
    BY <1>1, <2>2, <2>3 DEF Explained
  <2> QED
    BY <1>1, <2>1, <2>4, OneStepExplains
<1> QED
  BY <1>2, <1>3

LEMMA StepExplains ==
    ASSUME AllExplained, NEW p \in Procs, Step(p)
    PROVE  \A q \in Procs: Explained(req[q], met[q])'
<1>1. ASSUME NEW o \in Orgs, CountDrivers(p, o)
      PROVE  \A q \in Procs: Explained(req[q], met[q])'
  BY <1>1, CountExplains
<1>2. CASE ReadPlan(p)
  <2>1. Admits(PlanLimit[req[p].plan], req[p].seen) => Accounted(met[p])
    BY <1>2 DEF ReadPlan, AllExplained, Explained
  <2> QED
    BY <1>2, <2>1, DecideExplains DEF ReadPlan
<1>3. CASE (\E i \in Ids: CreateDriver(p, i)) \/ Fail(p)
  BY <1>3, EndExplains DEF CreateDriver, Fail
<1> QED
  BY <1>1, <1>2, <1>3, OverrideExplains, SubscriptionExplains DEF Step

\* The requests of the organization meet the change; the others see none.
LEMMA BillingExplains ==
    ASSUME AllExplained, NEW o \in Orgs, Billing(o)
    PROVE  \A q \in Procs: Explained(req[q], met[q])'
<1> SUFFICES ASSUME NEW q \in Procs PROVE Explained(req[q], met[q])'
  OBVIOUS
<1> DEFINE a == req[q].org
<1>1. /\ req' = req
      /\ \/ Meets(o, "overrideChanged") /\ UNCHANGED subscription
         \/ Meets(o, "subscriptionChanged") /\ UNCHANGED override
      /\ \A b \in Orgs \ {o}: override'[b] = override[b] /\ subscription'[b] = subscription[b]
  BY DEF Billing, SetOverride, DeleteOverride, Subscribe, Expire, AllExplained, IInv, TypeOK
<1>2. Explained(req[q], met[q]) /\ (req[q].pc # "idle" => a \in Orgs)
  BY DEF AllExplained, IInv, TypeOK
<1>3. CASE a # o
  <2>1. met'[q] = met[q]
    BY <1>1, <1>3 DEF Meets
  <2>2. ASSUME a \in Orgs
        PROVE  /\ override'[a] = override[a] /\ PlanLimitInForce(a)' = PlanLimitInForce(a)
               /\ \A n: Circumstances(a, n)' = Circumstances(a, n)
    BY <1>1, <1>3, <2>2 DEF Circumstances, LimitInForce, PlanLimitInForce, Expired
  <2> QED
    BY <1>1, <1>2, <2>1, <2>2 DEF Explained
<1>4. CASE a = o
  <2>1. /\ met[q] \subseteq met'[q] /\ Circumstances(a, req[q].seen)' \subseteq met'[q]
        /\ \/ "overrideChanged" \in met'[q] /\ UNCHANGED subscription
           \/ "subscriptionChanged" \in met'[q] /\ UNCHANGED override
    BY <1>1, <1>4 DEF Meets
  <2>2. UNCHANGED subscription => PlanLimitInForce(a)' = PlanLimitInForce(a)
    BY <1>1 DEF PlanLimitInForce, Expired
  <2>3. Accounted(met[q]) => Accounted(met'[q])
    BY <2>1 DEF Accounted
  <2>4. req[q].pc = "subscription" /\ "unread" \notin met'[q] =>
          /\ "overrideChanged" \in met'[q] \/ override'[a] = NoRow
          /\ \/ "subscriptionChanged" \in met'[q]
             \/ Admits(PlanLimitInForce(a)', req[q].seen) => "allowed" \in met'[q]
    BY <1>2, <2>1, <2>2 DEF Explained
  <2> QED
    BY <1>1, <1>2, <2>1, <2>3, <2>4 DEF Explained
<1> QED
  BY <1>3, <1>4

(***************************************************************************)
(* Every admission is accounted for, however the reads of an evaluation    *)
(* interleave with changes of the billing tables and with errors.          *)
(***************************************************************************)
THEOREM AdmissionsAccountedFor == Spec => []AdmissionsAreAccountedFor
<1>1. Init => AllExplained
  <2> SUFFICES ASSUME Init PROVE \A q \in Procs: Explained(req[q], met[q])
    BY InitIInv DEF AllExplained
  <2>1. \A q \in Procs: req[q].pc = "idle"
    BY DEF Init, Idle
  <2> QED
    BY <2>1 DEF Explained
<1>2. AllExplained /\ [Next]_vars => AllExplained'
  <2> SUFFICES ASSUME AllExplained, [Next]_vars PROVE AllExplained'
    OBVIOUS
  <2>1. IInv'
    BY NextIInv DEF AllExplained
  <2>2. CASE UNCHANGED vars
    <3>1. \A o, n: /\ Circumstances(o, n)' = Circumstances(o, n)
                  /\ PlanLimitInForce(o)' = PlanLimitInForce(o)
      BY <2>2 DEF vars, Circumstances, LimitInForce, PlanLimitInForce, Expired
    <3> QED
      BY <2>1, <2>2, <3>1 DEF vars, AllExplained, Explained
  <2> QED
    BY <2>1, <2>2, StepExplains, BillingExplains DEF Next, AllExplained
<1>3. AllExplained => AdmissionsAreAccountedFor
  BY DEF AllExplained, Explained, Accounted, AdmissionsAreAccountedFor
<1> QED
  BY <1>1, <1>2, <1>3, PTL DEF Spec
===============================================================================
