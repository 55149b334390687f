------------------------------ MODULE DriverQuota ------------------------------
(***************************************************************************)
(* CreateDriver of internal/usecase/driver_usecase.go with the quota       *)
(* evaluation of internal/usecase/entitlement_usecase.go.  A request       *)
(* counts the drivers, reads the override, the subscription and the plan   *)
(* in statements of their own, compares, and inserts under a random id;    *)
(* other requests and changes of the billing tables run in between.        *)
(*                                                                         *)
(* Entitlement values are limits: a natural number or Unlimited.  The      *)
(* strings "false", "" and whatever strconv.Atoi rejects count as 0.       *)
(***************************************************************************)
EXTENDS Naturals, FiniteSets

CONSTANTS Orgs,           \* organizations
          Ids,            \* the driver ids Create draws from, shared by all
          Procs,          \* concurrent requests
          Plans, FreePlan,
          PlanLimit,      \* plan_entitlements for drivers.max, per plan
          Overrides,      \* values an override may hold
          StatementsMayFail,  \* whether a statement may return an error
          Unlimited, NoOrg, NoRow, NoPlan

Limit == Nat \cup {Unlimited}
Subscription == [plan: Plans, expired: BOOLEAN]

ASSUME QuotaAssumption ==
    /\ IsFiniteSet(Ids)
    /\ IsFiniteSet(Procs) /\ Procs # {}
    /\ FreePlan \in Plans
    /\ PlanLimit \in [Plans -> Limit]
    /\ Overrides \subseteq Limit
    /\ StatementsMayFail \in BOOLEAN
    /\ Unlimited \notin Nat /\ NoOrg \notin Orgs /\ NoPlan \notin Plans
    /\ NoRow \notin Limit /\ NoRow \notin Subscription

VARIABLES drivers,       \* the table drivers: the organization that owns each id
          override,      \* the active drivers.max override of each organization
          subscription,  \* the table subscriptions: unique per organization
          req,           \* the request each process is serving
          met,           \* history: what has happened to each request
          granted,       \* history: largest number an evaluation has answered
          unbounded      \* history: organizations once answered Unlimited

vars == <<drivers, override, subscription, req, met, granted, unbounded>>

Request == [pc: {"idle", "override", "subscription", "plan", "insert"},
            org: Orgs \cup {NoOrg},
            seen: Nat,                    \* the count as read
            plan: Plans \cup {NoPlan}]

\* What a request may meet between its count and its INSERT: a moment at which
\* its count is below the limit in force, or below that of the plan alone, or
\* below an override that stands beside an expired subscription; a change of
\* either table; and an override it could not read.
Events == {"allowed", "planAllowed", "excepted",
           "overrideChanged", "subscriptionChanged", "unread"}

Idle == [pc |-> "idle", org |-> NoOrg, seen |-> 0, plan |-> NoPlan]

Init ==
    /\ drivers = [i \in Ids |-> NoOrg]
    /\ override = [o \in Orgs |-> NoRow]
    /\ subscription = [o \in Orgs |-> NoRow]
    /\ req = [p \in Procs |-> Idle]
    /\ met = [p \in Procs |-> {}]
    /\ granted = [o \in Orgs |-> 0]
    /\ unbounded = {}

-------------------------------------------------------------------------------

DriversOf(o) == {i \in Ids: drivers[i] = o}

Count(o) == Cardinality(DriversOf(o))

\* Mutant: the comparison lets a full organization through once more.
AdmitsOneMore(limit, seen) == limit = Unlimited \/ (limit \in Nat /\ seen <= limit)

\* EvaluateQuota: "unlimited" bypasses the comparison.
Admits(limit, seen) == limit = Unlimited \/ (limit \in Nat /\ seen < limit)

Advance(p, pc, plan) ==
    req' = [req EXCEPT ![p] = [pc |-> pc, org |-> req[p].org,
                               seen |-> req[p].seen, plan |-> plan]]

Finish(p) ==
    /\ req' = [req EXCEPT ![p] = Idle]
    /\ met' = [met EXCEPT ![p] = {}]

Expired(o) == subscription[o] # NoRow /\ subscription[o].expired

\* What the plan grants: nothing once the subscription has expired.
PlanLimitInForce(o) ==
    IF Expired(o) THEN 0
    ELSE PlanLimit[IF subscription[o] = NoRow THEN FreePlan ELSE subscription[o].plan]

\* What the repository says: an expired subscription restricts all entitlements
\* (entitlement_usecase.go:63), and otherwise an override takes precedence over
\* the plan (entitlement_usecase_test.go:101).
LimitInForce(o) ==
    IF Expired(o) \/ override[o] = NoRow THEN PlanLimitInForce(o) ELSE override[o]

\* What a request of o that has counted n meets at this moment.
Circumstances(o, n) ==
    {e \in {"allowed", "planAllowed", "excepted"}:
        \/ e = "allowed" /\ Admits(LimitInForce(o), n)
        \/ e = "planAllowed" /\ Admits(PlanLimitInForce(o), n)
        \/ e = "excepted" /\ Expired(o) /\ override[o] # NoRow /\ Admits(override[o], n)}

\* GetEntitlementValue has answered; quota.exceeded is logged on a refusal.
Decide(p, limit) ==
    LET o == req[p].org IN
    /\ \/ Admits(limit, req[p].seen) /\ Advance(p, "insert", NoPlan) /\ UNCHANGED met
       \/ ~Admits(limit, req[p].seen) /\ Finish(p)
    /\ granted' = [granted EXCEPT ![o] = IF limit \in Nat /\ limit > @ THEN limit ELSE @]
    /\ unbounded' = IF limit = Unlimited THEN unbounded \cup {o} ELSE unbounded

\* driverRepo.Count
CountDrivers(p, o) ==
    /\ req[p].pc = "idle"
    /\ req' = [req EXCEPT ![p] = [pc |-> "override", org |-> o,
                                  seen |-> Count(o), plan |-> NoPlan]]
    /\ met' = [met EXCEPT ![p] = Circumstances(o, Count(o))]
    /\ UNCHANGED <<drivers, override, subscription, granted, unbounded>>

\* Mutant: an override is consulted only when there is no subscription.
OverrideAppliesLast(o) == override[o] # NoRow /\ subscription[o] = NoRow

OverrideApplies(o) == override[o] # NoRow

\* GetActiveOverride; an error is treated like an absent override.
ReadOverride(p) ==
    LET o == req[p].org IN
    /\ req[p].pc = "override"
    /\ \/ /\ OverrideApplies(o)
          /\ Decide(p, override[o])
       \/ /\ OverrideApplies(o) => StatementsMayFail
          /\ Advance(p, "subscription", NoPlan)
          /\ met' = [met EXCEPT ![p] = IF OverrideApplies(o) THEN @ \cup {"unread"} ELSE @]
          /\ UNCHANGED <<granted, unbounded>>
    /\ UNCHANGED <<drivers, override, subscription>>

\* Mutant: no plan stands in for a missing subscription.
PlanWithoutFallback(s) == IF s = NoRow THEN NoPlan ELSE s.plan

PlanOf(s) == IF s = NoRow THEN FreePlan ELSE s.plan

\* GetByOrganizationID: an expired subscription answers "false".
ReadSubscription(p) ==
    LET s == subscription[req[p].org] IN
    /\ req[p].pc = "subscription"
    /\ IF s # NoRow /\ s.expired
       THEN Decide(p, 0)
       ELSE Advance(p, "plan", PlanOf(s)) /\ UNCHANGED <<met, granted, unbounded>>
    /\ UNCHANGED <<drivers, override, subscription>>

\* GetEntitlements of the plan.
ReadPlan(p) ==
    /\ req[p].pc = "plan"
    /\ Decide(p, PlanLimit[req[p].plan])
    /\ UNCHANGED <<drivers, override, subscription>>

\* INSERT INTO drivers: a taken id violates the primary key.
Insert(i, o) ==
    drivers' = IF drivers[i] = NoOrg THEN [drivers EXCEPT ![i] = o] ELSE drivers

\* driverRepo.Create under a random id.  An error, whether it kept the row out
\* or only lost the answer, ends the request.
CreateDriver(p, i) ==
    /\ req[p].pc = "insert"
    /\ \/ Insert(i, req[p].org)
       \/ StatementsMayFail /\ UNCHANGED drivers
    /\ Finish(p)
    /\ UNCHANGED <<override, subscription, granted, unbounded>>

\* A read other than the override's failed: the request ends with an error.
Fail(p) ==
    /\ StatementsMayFail
    /\ req[p].pc \in {"subscription", "plan"}
    /\ Finish(p)
    /\ UNCHANGED <<drivers, override, subscription, granted, unbounded>>

-------------------------------------------------------------------------------
(* The billing tables.  SetOverride, DeleteOverride and the subscription   *)
(* statements have no route of their own; the expiry of a subscription is  *)
(* written by no code of the repository.                                   *)

\* The requests of o meet the change and the moment after it.
Meets(o, change) ==
    met' = [p \in Procs |->
        IF req[p].org = o THEN met[p] \cup {change} \cup Circumstances(o, req[p].seen)'
                          ELSE met[p]]

SetOverride(o, v) ==
    /\ override' = [override EXCEPT ![o] = v]
    /\ UNCHANGED <<drivers, subscription, req, granted, unbounded>>
    /\ Meets(o, "overrideChanged")

\* DeleteOverride, and an override whose expires_at passes.
DeleteOverride(o) == override[o] # NoRow /\ SetOverride(o, NoRow)

\* CreateSubscription, UpdateSubscription and CancelSubscription of the billing
\* use case: each leaves the organization with a subscription to some plan, the
\* one last read included, and with a status other than expired.
Subscribe(o, plan) ==
    /\ subscription' = [subscription EXCEPT ![o] = [plan |-> plan, expired |-> FALSE]]
    /\ UNCHANGED <<drivers, override, req, granted, unbounded>>
    /\ Meets(o, "subscriptionChanged")

Expire(o) ==
    /\ subscription[o] # NoRow
    /\ subscription' = [subscription EXCEPT ![o] = [plan |-> @.plan, expired |-> TRUE]]
    /\ UNCHANGED <<drivers, override, req, granted, unbounded>>
    /\ Meets(o, "subscriptionChanged")

Step(p) ==
    \/ \E o \in Orgs: CountDrivers(p, o)
    \/ ReadOverride(p)
    \/ ReadSubscription(p)
    \/ ReadPlan(p)
    \/ \E i \in Ids: CreateDriver(p, i)
    \/ Fail(p)

Billing(o) ==
    \/ \E v \in Overrides: SetOverride(o, v)
    \/ DeleteOverride(o)
    \/ \E plan \in Plans: Subscribe(o, plan)
    \/ Expire(o)

Next == (\E p \in Procs: Step(p)) \/ (\E o \in Orgs: Billing(o))

Spec == Init /\ [][Next]_vars

-------------------------------------------------------------------------------
(* Properties *)

TypeOK ==
    /\ drivers \in [Ids -> Orgs \cup {NoOrg}]
    /\ override \in [Orgs -> Limit \cup {NoRow}]
    /\ subscription \in [Orgs -> Subscription \cup {NoRow}]
    /\ req \in [Procs -> Request]
    /\ met \in [Procs -> SUBSET Events]
    /\ granted \in [Orgs -> Nat]
    /\ unbounded \subseteq Orgs
    /\ \A p \in Procs:
        /\ req[p].pc # "idle" => req[p].org \in Orgs
        /\ req[p].pc = "plan" => req[p].plan \in Plans

(***************************************************************************)
(* Counting and inserting are separate statements, so the limit can be     *)
(* passed, but by fewer drivers than there are concurrent requests,        *)
(* however limits change meanwhile: the race does not compound.            *)
(***************************************************************************)
OvershootIsBounded ==
    \A o \in Orgs \ unbounded: Count(o) < granted[o] + Cardinality(Procs)

(***************************************************************************)
(* Override, subscription and plan are read one after the other while the  *)
(* billing tables change, and an error hides an override.  Whoever is      *)
(* about to insert nevertheless had room under the limit in force at some  *)
(* moment since it counted, but for two cases: an override was answered    *)
(* although the subscription was expired; or the plan alone had room at    *)
(* some moment, and the override could not be read or both tables changed  *)
(* on the way.                                                             *)
(***************************************************************************)
AdmissionsAreAccountedFor ==
    \A p \in Procs: req[p].pc = "insert" =>
        \/ "allowed" \in met[p]
        \/ "excepted" \in met[p]
        \/ /\ "planAllowed" \in met[p]
           /\ "unread" \in met[p] \/ {"overrideChanged", "subscriptionChanged"} \subseteq met[p]

(***************************************************************************)
(* The rest is what the repository says and the code does not deliver.     *)
(***************************************************************************)

\* README.md: "quota checking (e.g. max drivers, max vehicles)": an
\* organization never has more drivers than the largest limit it was given.
QuotaIsNeverExceeded ==
    \A o \in Orgs \ unbounded: Count(o) <= granted[o]

\* entitlement_usecase.go:63: "If subscription is expired, all entitlements
\* default to restricted/blocked".
ExpiredSubscriptionBlocks ==
    \A p \in Procs:
        req[p].pc = "insert" /\ "subscriptionChanged" \notin met[p] => ~Expired(req[p].org)

\* 00006_create_billing_tables.sql seeds drivers.max 'unlimited': a creation
\* admitted without limit is carried out unless its statement fails.
UnlimitedIsCreated ==
    [][\A p \in Procs:
        LET o == req[p].org IN
        /\ req[p].pc = "insert" /\ LimitInForce(o) = Unlimited
        /\ met[p] \cap {"overrideChanged", "subscriptionChanged", "unread"} = {}
        /\ req'[p].pc = "idle" => Cardinality(DriversOf(o)') > Count(o)]_vars
===============================================================================
