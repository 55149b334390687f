--------------------------------- MODULE Billing ---------------------------------
(***************************************************************************)
(* What an organization may use and has used, next to the registrations    *)
(* that create organizations: subscriptions and their history              *)
(* (billing_usecase.go), overrides (entitlement_repository.go) and monthly *)
(* counters (usage_tracking_usecase.go).  Subscriptions are read, changed  *)
(* in memory and written back as whole rows; the history is a statement of *)
(* its own; SetOverride is a transaction at PostgreSQL's READ COMMITTED;   *)
(* counters are checked by one statement and incremented by another.       *)
(*                                                                         *)
(* The statements GetEntitlementValue is made of are separate actions in   *)
(* DriverQuota; here it answers in one.                                    *)
(***************************************************************************)
EXTENDS Registration, Sequences

CONSTANTS Plans, FreePlan,
          PlanLimit,  \* plan_entitlements for the metered key, per plan
          Values,     \* values an override may hold
          Deltas,     \* amounts a request counts
          MaxMonth,   \* bound on the calendar
          Unlimited

Limit == Nat \cup {Unlimited}
Status == {"trialing", "active", "canceled"}
Subscription == [plan: Plans, status: Status, canceledAt: BOOLEAN]
Event == [from: Status \cup {None}, to: Status]
Override == [id: Nat, by: Procs, value: Limit]

ASSUME BillingAssumption ==
    /\ FreePlan \in Plans
    /\ PlanLimit \in [Plans -> Limit]
    /\ Values \subseteq Limit
    /\ Deltas \subseteq Nat \ {0}
    /\ \E d \in Deltas: \A e \in Deltas: e <= d
    /\ MaxMonth \in Nat
    /\ Unlimited \notin Nat
    /\ None \notin Subscription \cup Event \cup Limit \cup Plans \cup Status

VARIABLES subs,       \* the table subscriptions: unique per organization
          history,    \* the table subscription_event_history
          overrides,  \* the overrides of each organization for the metered key
          usage,      \* the table usage_counters
          month,      \* the calendar
          bill,       \* the request each process is serving
          changes,    \* history: how often each subscription has been written
          granted,    \* history: largest number an evaluation has answered
          unbounded   \* history: organizations once answered Unlimited

billTables == <<subs, history, overrides, usage>>
billVars == <<billTables, month, bill, changes, granted, unbounded>>
vars == <<regVars, billVars>>

Months == 0..MaxMonth

BillRequest == [pc: {"idle", "create", "update", "history", "overrideDelete",
                     "overrideCommit", "usage", "increment"},
                org: Orgs \cup {None},
                sub: Subscription \cup {None},   \* the row to be written
                event: Event \cup {None},        \* what the history will say
                value: Limit \cup {None},        \* of the override, or the quota read
                rows: SUBSET Override,           \* overrides the statement sees
                id: Nat, delta: Nat]

NoRequest == [pc |-> "idle", org |-> None, sub |-> None, event |-> None,
              value |-> None, rows |-> {}, id |-> 0, delta |-> 0]

Init ==
    /\ RegInit
    /\ subs = [o \in Orgs |-> None]
    /\ history = [o \in Orgs |-> <<>>]
    /\ overrides = [o \in Orgs |-> {}]
    /\ usage = [o \in Orgs |-> [m \in Months |-> 0]]
    /\ month = 0
    /\ bill = [p \in Procs |-> NoRequest]
    /\ changes = [o \in Orgs |-> 0]
    /\ granted = [o \in Orgs |-> 0]
    /\ unbounded = {}

-------------------------------------------------------------------------------

Move(p, r) == bill' = [bill EXCEPT ![p] = r]

Finish(p) == Move(p, NoRequest)

\* A request for an organization somebody can log in to.
Begin(p, o) ==
    /\ bill[p].pc = "idle" /\ reg[p].pc = "idle" /\ begun < MaxRequests
    /\ \E e \in Emails: CanLogin(e) /\ users[e] = o
    /\ begun' = begun + 1
    /\ UNCHANGED <<regTables, reg, faults, answered>>

\* The statement the process has come to returns an error.
Fails ==
    /\ faults < MaxFaults
    /\ faults' = faults + 1
    /\ UNCHANGED <<regTables, reg, begun, answered>>

-------------------------------------------------------------------------------
(* Subscriptions *)

\* CreateSubscription of any plan, with or without a trial; of the free plan
\* without one by ResolveActiveSubscription when it has found none.
BeginCreate(p, o, plan, status) ==
    /\ Begin(p, o)
    /\ Move(p, [NoRequest EXCEPT !.pc = "create", !.org = o,
                   !.sub = [plan |-> plan, status |-> status, canceledAt |-> FALSE],
                   !.event = [from |-> None, to |-> status]])
    /\ UNCHANGED <<billTables, month, changes, granted, unbounded>>

\* Mutant: the row of the organization is replaced.
CanCreateAnyway(o) == TRUE

\* The organization is unique in the table.
CanCreate(o) == subs[o] = None

InsertSubscription(p) ==
    LET r == bill[p] IN
    /\ r.pc = "create"
    /\ \/ /\ CanCreate(r.org)
          /\ subs' = [subs EXCEPT ![r.org] = r.sub]
          /\ changes' = [changes EXCEPT ![r.org] = @ + 1]
          /\ Move(p, [r EXCEPT !.pc = "history", !.sub = None])
       \/ /\ ~CanCreate(r.org)
          /\ Finish(p) /\ UNCHANGED <<subs, changes>>
    /\ UNCHANGED <<regVars, history, overrides, usage, month, granted, unbounded>>

\* UpdateSubscription: canceled_at stays as it is.
Changed(row, plan) == [row EXCEPT !.plan = plan, !.status = "active"]

\* Mutant: the status is not one of the constants.
CanceledMisspelt(row) == [row EXCEPT !.status = "cancelled", !.canceledAt = TRUE]

\* CancelSubscription
Canceled(row) == [row EXCEPT !.status = "canceled", !.canceledAt = TRUE]

BeginRewrite(p, o, row) ==
    /\ subs[o] # None
    /\ Begin(p, o)
    /\ Move(p, [NoRequest EXCEPT !.pc = "update", !.org = o, !.sub = row,
                   !.event = [from |-> subs[o].status, to |-> row.status]])
    /\ UNCHANGED <<billTables, month, changes, granted, unbounded>>

\* Mutant: a request whose row says what the table says writes no history.
AfterUpdateUnlessSame(r) ==
    IF subs[r.org] = r.sub THEN NoRequest ELSE [r EXCEPT !.pc = "history", !.sub = None]

AfterUpdate(r) == [r EXCEPT !.pc = "history", !.sub = None]

\* subscriptionRepo.Update writes the row as it was read and changed.
UpdateRow(p) ==
    LET r == bill[p] IN
    /\ r.pc = "update"
    /\ subs' = [subs EXCEPT ![r.org] = r.sub]
    /\ changes' = [changes EXCEPT ![r.org] = @ + 1]
    /\ Move(p, AfterUpdate(r))
    /\ UNCHANGED <<regVars, history, overrides, usage, month, granted, unbounded>>

\* CreateEventHistory
WriteHistory(p) ==
    LET r == bill[p] IN
    /\ r.pc = "history"
    /\ history' = [history EXCEPT ![r.org] = Append(@, r.event)]
    /\ Finish(p)
    /\ UNCHANGED <<regVars, subs, overrides, usage, month, changes, granted, unbounded>>

-------------------------------------------------------------------------------
(* Overrides *)

\* The DELETE of SetOverride, or of DeleteOverride (no value), sees the rows
\* that are committed when it starts.
BeginOverride(p, o, value) ==
    /\ Begin(p, o)
    /\ Move(p, [NoRequest EXCEPT !.pc = "overrideDelete", !.org = o, !.value = value,
                   !.rows = overrides[o], !.id = begun])
    /\ UNCHANGED <<billTables, month, changes, granted, unbounded>>

\* Rows an open transaction has deleted are locked.
Locked(o) == UNION {bill[q].rows : q \in {q \in Procs: bill[q].pc = "overrideCommit" /\ bill[q].org = o}}

\* It waits for the rows it sees and takes those that are still there;
\* DeleteOverride commits at once.
DeleteRows(p) ==
    LET r == bill[p]
        found == r.rows \cap overrides[r.org] IN
    /\ r.pc = "overrideDelete"
    /\ found \cap Locked(r.org) = {}
    /\ IF r.value = None
       THEN /\ overrides' = [overrides EXCEPT ![r.org] = @ \ found]
            /\ Finish(p)
       ELSE /\ Move(p, [r EXCEPT !.pc = "overrideCommit", !.rows = found])
            /\ UNCHANGED overrides
    /\ UNCHANGED <<regVars, subs, history, usage, month, changes, granted, unbounded>>

\* Mutant: the old rows stay.
AfterSetKeepingOld(o, rows, new) == overrides[o] \cup {new}

AfterSet(o, rows, new) == (overrides[o] \ rows) \cup {new}

\* The INSERT and the commit.
CommitOverride(p) ==
    LET r == bill[p] IN
    /\ r.pc = "overrideCommit"
    /\ overrides' = [overrides EXCEPT ![r.org] =
           AfterSet(r.org, r.rows, [id |-> r.id, by |-> p, value |-> r.value])]
    /\ Finish(p)
    /\ UNCHANGED <<regVars, subs, history, usage, month, changes, granted, unbounded>>

-------------------------------------------------------------------------------
(* Usage *)

\* GetEntitlementValue; GetActiveOverride takes whichever row comes first.
LimitsOf(o) ==
    IF overrides[o] # {} THEN {v.value : v \in overrides[o]}
    ELSE IF subs[o] = None THEN {PlanLimit[FreePlan]}
    ELSE {PlanLimit[subs[o].plan]}

\* CheckAndIncrement: without limit the counter is not read.
BeginCount(p, o, delta, limit) ==
    /\ Begin(p, o)
    /\ Move(p, [NoRequest EXCEPT !.pc = IF limit = Unlimited THEN "increment" ELSE "usage",
                   !.org = o, !.delta = delta, !.value = limit])
    /\ granted' = [granted EXCEPT ![o] = IF limit \in Nat /\ limit > @ THEN limit ELSE @]
    /\ unbounded' = IF limit = Unlimited THEN unbounded \cup {o} ELSE unbounded
    /\ UNCHANGED <<billTables, month, changes>>

\* Mutant: what is about to be counted is left out of the comparison.
FitsBefore(current, delta, limit) == current < limit

Fits(current, delta, limit) == current + delta <= limit

\* GetUsage of the current month; quota.exceeded is logged on a refusal.
ReadUsage(p) ==
    LET r == bill[p] IN
    /\ r.pc = "usage"
    /\ IF Fits(usage[r.org][month], r.delta, r.value)
       THEN Move(p, [r EXCEPT !.pc = "increment", !.value = None])
       ELSE Finish(p)
    /\ UNCHANGED <<regVars, billTables, month, changes, granted, unbounded>>

\* Increment adds in one statement, to the month it then is.
Increment(p) ==
    LET r == bill[p] IN
    /\ r.pc = "increment"
    /\ usage' = [usage EXCEPT ![r.org][month] = @ + r.delta]
    /\ Finish(p)
    /\ UNCHANGED <<regVars, subs, history, overrides, month, changes, granted, unbounded>>

Tick ==
    /\ month < MaxMonth
    /\ month' = month + 1
    /\ UNCHANGED <<regVars, billTables, bill, changes, granted, unbounded>>

-------------------------------------------------------------------------------

\* Whatever statement fails, the request is over; CreateEventHistory's error is
\* dropped and a transaction rolled back.
BillFail(p) ==
    /\ bill[p].pc # "idle"
    /\ Fails
    /\ Finish(p)
    /\ UNCHANGED <<billTables, month, changes, granted, unbounded>>

BillStep(p) ==
    \/ \E o \in Orgs, plan \in Plans, status \in {"active", "trialing"}:
            BeginCreate(p, o, plan, status)
    \/ \E o \in Orgs, plan \in Plans: BeginRewrite(p, o, Changed(subs[o], plan))
    \/ \E o \in Orgs: BeginRewrite(p, o, Canceled(subs[o]))
    \/ InsertSubscription(p) \/ UpdateRow(p) \/ WriteHistory(p)
    \/ \E o \in Orgs, v \in Values \cup {None}: BeginOverride(p, o, v)
    \/ DeleteRows(p) \/ CommitOverride(p)
    \/ \E o \in Orgs, delta \in Deltas:
            \E limit \in LimitsOf(o): BeginCount(p, o, delta, limit)
    \/ ReadUsage(p) \/ Increment(p)
    \/ BillFail(p)

\* A process serves one request at a time.
Register(p) == bill[p].pc = "idle" /\ RegStep(p) /\ UNCHANGED billVars

\* The bound on the requests is reached and all have been answered.
Served ==
    /\ begun = MaxRequests
    /\ \A p \in Procs: reg[p].pc = "idle" /\ bill[p].pc = "idle"
    /\ UNCHANGED vars

Next == (\E p \in Procs: Register(p) \/ BillStep(p)) \/ Tick \/ Served

Spec == Init /\ [][Next]_vars

-------------------------------------------------------------------------------
(* Properties *)

TypeOK ==
    /\ RegTypeOK
    /\ subs \in [Orgs -> Subscription \cup {None}]
    /\ history \in [Orgs -> Seq(Event)]
    /\ overrides \in [Orgs -> SUBSET Override]
    /\ usage \in [Orgs -> [Months -> Nat]]
    /\ month \in Months
    /\ bill \in [Procs -> BillRequest]
    /\ changes \in [Orgs -> Nat]
    /\ granted \in [Orgs -> Nat]
    /\ unbounded \subseteq Orgs

InHistory(o) == {p \in Procs: bill[p].pc = "history" /\ bill[p].org = o}

(***************************************************************************)
(* Requests that find no subscription all provision one.  Only one of them *)
(* may succeed: an organization is created a subscription at most once, in *)
(* the table as in the history, whatever else is changed or canceled.      *)
(***************************************************************************)
ProvisionedOnce ==
    \A o \in Orgs:
        Cardinality({i \in 1..Len(history[o]): history[o][i].from = None})
            + Cardinality({p \in InHistory(o): bill[p].event.from = None}) <= 1

(***************************************************************************)
(* The history is written after the subscription and its error is dropped. *)
(* It may therefore miss changes, but not more than statements have        *)
(* failed, and it never invents one.                                       *)
(***************************************************************************)
HistoryMissesOnlyFailures ==
    \A o \in Orgs:
        LET recorded == Len(history[o]) + Cardinality(InHistory(o)) IN
        recorded <= changes[o] /\ changes[o] <= recorded + faults

(***************************************************************************)
(* SetOverride deletes and inserts, and nothing in the schema keeps a      *)
(* second row out.  Overlapping calls may leave duplicates, but no process *)
(* leaves two of its own: there are never more rows than processes.        *)
(***************************************************************************)
OverridesDoNotPileUp ==
    \A o \in Orgs: Cardinality(overrides[o]) <= Cardinality(Procs)

LargestDelta == CHOOSE d \in Deltas: \A e \in Deltas: e <= d

(***************************************************************************)
(* Checking a counter and incrementing it are separate statements, and the *)
(* month may change between them.  The counter of a month passes the       *)
(* largest limit its organization was given by at most one increment of    *)
(* every other request at a time, the new month's no less than the old's.  *)
(***************************************************************************)
UsageOvershootIsBounded ==
    \A o \in Orgs \ unbounded, m \in Months:
        usage[o][m] <= granted[o] + LargestDelta * (Cardinality(Procs) - 1)

(***************************************************************************)
(* The rest is what the repository says and the code does not deliver.     *)
(***************************************************************************)

\* entitlement_repository.go:79: "This avoids duplicate overrides for the same
\* key."
OverridesAreUnique == \A o \in Orgs: Cardinality(overrides[o]) <= 1
===============================================================================
