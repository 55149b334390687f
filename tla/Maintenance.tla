------------------------------ MODULE Maintenance ------------------------------
(***************************************************************************)
(* Vehicle maintenance: internal/usecase/maintenance_usecase.go over the   *)
(* tables vehicles, maintenances, maintenance_plans and                    *)
(* maintenance_alerts.  Saving a record changes the status and mileage of  *)
(* its vehicle, moves the due point of its plan, resolves the plan's       *)
(* alerts and evaluates every plan of the vehicle again, each in a         *)
(* statement of its own; requests interleave between the statements.       *)
(*                                                                         *)
(* A plan is due by mileage or by date.  Both run the same way over a      *)
(* meter: the mileage of the vehicle, or the calendar.                     *)
(***************************************************************************)
EXTENDS Naturals, FiniteSets

CONSTANTS Vehicles, Plans, Records,
          Procs,              \* concurrent requests
          Kinds,              \* "mileage", "date"
          Notice,             \* how far ahead of its due point a plan alerts
          RecordInputs,       \* bodies of POST and PUT maintenances
          PlanInputs,         \* bodies of POST and PUT plans
          VehicleInputs,      \* bodies of PUT vehicles
          MaxFaults,          \* bound on the statements that return an error
          MaxRequests,        \* bound on the requests that are served
          MaxDate,            \* bound on the calendar
          Clear, None

Status == {"scheduled", "in_progress", "completed", "canceled"}
Meter == [Kinds -> Nat \cup {None}]
Vehicle == [mileage: Nat, status: {"disponivel", "manutencao"}]
\* plan: the plan of a preventive record, None for any other.
Record == [vehicle: Vehicles, plan: Plans \cup {None}, status: Status,
           at: [Kinds -> Nat], live: BOOLEAN]
Plan == [vehicle: Vehicles, interval: Meter, last: Meter, next: Meter, live: BOOLEAN]

\* In a body, None and the reading 0 stand for an absent field, Clear for the
\* empty plan id.
RecordInput == [vehicle: Vehicles \cup {None}, plan: Plans \cup {Clear, None},
                status: Status \cup {None}, at: [Kinds -> Nat]]
PlanInput == [vehicle: Vehicles, interval: Meter, last: Meter]
VehicleInput == [mileage: Nat, status: {"disponivel", "manutencao", None}]

ASSUME MaintenanceAssumption ==
    /\ IsFiniteSet(Procs) /\ Procs # {}
    /\ Kinds \in {{"mileage"}, {"mileage", "date"}}
    /\ Notice \in Nat /\ MaxDate \in Nat
    /\ RecordInputs \subseteq RecordInput
    /\ PlanInputs \subseteq PlanInput
    /\ VehicleInputs \subseteq VehicleInput
    /\ MaxFaults \in Nat /\ MaxRequests \in Nat
    /\ None \notin Nat \cup Vehicles \cup Plans \cup Status
    /\ None \notin Vehicle \cup Record \cup Plan
    /\ None \notin {"disponivel", "manutencao"}
    /\ Clear \notin Plans \cup {None}

VARIABLES vehicles,  \* the table vehicles
          records,   \* the table maintenances
          plans,     \* the table maintenance_plans
          active,    \* the number of active alerts of each plan and kind
          today,     \* the calendar
          begun,     \* the number of requests so far
          faults,    \* the number of failed statements so far
          req,       \* the request each process is serving
          alone,     \* history: no other request has written and no statement
                     \* has failed since the request began
          blind      \* history: plans and kinds whose alerts once went unread

vars == <<vehicles, records, plans, active, today, begun, faults, req, alone, blind>>

Request == [pc: {"idle", "recordWrite", "effects", "vehicleMerge", "vehicleWrite",
                 "plan", "planVehicle", "due", "firstDue", "planInsert", "planMerge",
                 "planWrite", "resolve", "check", "plans", "probe", "alert"},
            vehicle: Vehicles \cup {None},
            rec: Records \cup {None},
            work: Record \cup {None},       \* the record as saved
            plan: Plans \cup {None},
            draft: Plan \cup {None},        \* the plan as it will be written
            car: VehicleInput \cup {None},  \* what to change, then the row to write
            seen: Nat,                      \* the mileage the evaluation read
            todo: SUBSET (Plans \X Kinds),  \* due, and not yet probed
            pair: (Plans \X Kinds) \cup {None}]  \* found without an alert

Idle == [pc |-> "idle", vehicle |-> None, rec |-> None, work |-> None, plan |-> None,
         draft |-> None, car |-> None, seen |-> 0, todo |-> {},
         pair |-> None]

Init ==
    /\ vehicles = [v \in Vehicles |-> [mileage |-> 0, status |-> "disponivel"]]
    /\ records = [r \in Records |-> None]
    /\ plans = [l \in Plans |-> None]
    /\ active = [c \in Plans \X Kinds |-> 0]
    /\ today = 1
    /\ begun = 0 /\ faults = 0
    /\ req = [p \in Procs |-> Idle]
    /\ alone = [p \in Procs |-> TRUE]
    /\ blind = {}

-------------------------------------------------------------------------------

Live(row) == row # None /\ row.live

\* The value of the meter a plan of this kind is measured by.
Reading(k, mileage) == IF k = "mileage" THEN mileage ELSE today

Or(new, absent, old) == IF new = absent THEN old ELSE new

Become(p, r) == req' = [req EXCEPT ![p] = r]

Goto(p, pc) == Become(p, [req[p] EXCEPT !.pc = pc])

Begin(p) ==
    /\ req[p].pc = "idle" /\ begun < MaxRequests
    /\ begun' = begun + 1
    /\ UNCHANGED faults

\* A write is seen by every other request.
Writes(p) ==
    /\ alone' = [q \in Procs |-> q = p /\ alone[q]]
    /\ UNCHANGED <<begun, faults>>

Fault(p) ==
    /\ faults < MaxFaults
    /\ faults' = faults + 1
    /\ alone' = [alone EXCEPT ![p] = FALSE]
    /\ UNCHANGED <<vehicles, records, plans, active, today, begun>>

Fails(p) == Fault(p) /\ UNCHANGED blind

Reads == UNCHANGED <<vehicles, records, plans, active, today, begun, faults, alone, blind>>

\* A request whose first statement only reads.
BeginsReading(p) ==
    /\ Begin(p)
    /\ alone' = [alone EXCEPT ![p] = TRUE]
    /\ UNCHANGED <<vehicles, records, plans, active, today, blind>>

\* A request whose first statement writes.
BeginsWriting(p) ==
    /\ Begin(p)
    /\ alone' = [q \in Procs |-> q = p]
    /\ UNCHANGED <<vehicles, today, blind>>

-------------------------------------------------------------------------------
(* Records *)

\* POST maintenances: vehicle and status are required, the date defaults to now.
RecordOf(i) ==
    [vehicle |-> i.vehicle, plan |-> IF i.plan = Clear THEN None ELSE i.plan,
     status |-> i.status, live |-> TRUE,
     at |-> [k \in Kinds |-> IF k = "date" THEN Or(i.at[k], 0, today) ELSE i.at[k]]]

\* maintenanceRepo.Create: a taken id violates the primary key.
CreateMaintenance(p, r, i) ==
    /\ i.vehicle # None /\ i.status # None
    /\ records[r] = None
    /\ BeginsWriting(p)
    /\ records' = [records EXCEPT ![r] = RecordOf(i)]
    /\ Become(p, [Idle EXCEPT !.pc = "effects", !.vehicle = i.vehicle, !.work = RecordOf(i)])
    /\ UNCHANGED <<plans, active>>

\* What PUT maintenances leaves out keeps its value.
RecordMerged(row, i) ==
    [row EXCEPT !.vehicle = Or(i.vehicle, None, @),
                !.plan = IF i.plan = Clear THEN None ELSE Or(i.plan, None, @),
                !.status = Or(i.status, None, @),
                !.at = [k \in Kinds |-> Or(i.at[k], 0, @[k])]]

\* maintenanceRepo.Update reads the row it is about to overwrite.
ReadMaintenance(p, r, i) ==
    LET row == RecordMerged(records[r], i) IN
    /\ Live(records[r])
    /\ BeginsReading(p)
    /\ Become(p, [Idle EXCEPT !.pc = "recordWrite", !.vehicle = row.vehicle,
                              !.rec = r, !.work = row])

\* The UPDATE does not look at deleted_at, and does not set it either.
UpdateMaintenance(p) ==
    LET r == req[p].rec IN
    /\ req[p].pc = "recordWrite"
    /\ \/ /\ records' = [records EXCEPT ![r] = [req[p].work EXCEPT !.live = records[r].live]]
          /\ Become(p, [req[p] EXCEPT !.pc = "effects", !.rec = None])
          /\ Writes(p)
          /\ UNCHANGED <<vehicles, plans, active, today, blind>>
       \/ Become(p, Idle) /\ Fails(p)

\* DeleteMaintenance leaves the vehicle and the plan as they are.
DeleteMaintenance(p, r) ==
    /\ Live(records[r])
    /\ BeginsWriting(p)
    /\ records' = [records EXCEPT ![r].live = FALSE]
    /\ UNCHANGED <<plans, active, req>>

-------------------------------------------------------------------------------
(* Side effects of a saved record: its vehicle *)

\* Mutant: any odometer reading replaces the mileage.
MileageOfAny(work, mileage) ==
    IF work.status = "completed" THEN work.at["mileage"] ELSE 0

MileageOf(work, mileage) ==
    IF work.status = "completed" /\ work.at["mileage"] > mileage
    THEN work.at["mileage"] ELSE 0

\* Mutant: the record's status is written as the vehicle's.
StatusOfRecord(work) == IF work.status = "scheduled" THEN None ELSE work.status

StatusOf(work) ==
    IF work.status = "in_progress" THEN "manutencao"
    ELSE IF work.status \in {"completed", "canceled"} THEN "disponivel"
    ELSE None

\* Where the side effects go on once the vehicle is done with.
AfterVehicle(work) ==
    IF work = None THEN "idle"
    ELSE IF work.status = "completed" /\ work.plan # None THEN "plan" ELSE "check"

Leave(p, pc) ==
    Become(p, IF pc = "idle" THEN Idle ELSE [req[p] EXCEPT !.pc = pc, !.car = None])

\* vehicleRepo.GetByID of handleMaintenanceSideEffects.
ReadVehicle(p) ==
    LET work == req[p].work
        car == [mileage |-> MileageOf(work, vehicles[req[p].vehicle].mileage),
                status |-> StatusOf(work)] IN
    /\ req[p].pc = "effects"
    /\ \/ /\ IF car.status # None
             THEN Become(p, [req[p] EXCEPT !.pc = "vehicleMerge", !.car = car])
             ELSE Leave(p, AfterVehicle(work))
          /\ Reads
       \/ Leave(p, AfterVehicle(work)) /\ Fails(p)

\* PUT vehicles/{id}
BeginUpdateVehicle(p, v, i) ==
    /\ BeginsReading(p)
    /\ Become(p, [Idle EXCEPT !.pc = "vehicleMerge", !.vehicle = v, !.car = i])

VehicleMerged(row, car) ==
    [mileage |-> Or(car.mileage, 0, row.mileage), status |-> Or(car.status, None, row.status)]

\* vehicleRepo.Update reads the row a second time ...
MergeVehicle(p) ==
    /\ req[p].pc = "vehicleMerge"
    /\ \/ /\ Become(p, [req[p] EXCEPT !.pc = "vehicleWrite",
                            !.car = VehicleMerged(vehicles[req[p].vehicle], @)])
          /\ Reads
       \/ Leave(p, AfterVehicle(req[p].work)) /\ Fails(p)

\* ... and writes all of it; the side effects ignore an error.
WriteVehicle(p) ==
    /\ req[p].pc = "vehicleWrite"
    /\ Leave(p, AfterVehicle(req[p].work))
    /\ \/ /\ vehicles' = [vehicles EXCEPT ![req[p].vehicle] = req[p].car]
          /\ Writes(p)
          /\ UNCHANGED <<records, plans, active, today, blind>>
       \/ Fails(p)

-------------------------------------------------------------------------------
(* Plans *)

\* calculateNextDue counts from the last maintenance.  An absent mileage and a
\* mileage of 0 fall back to the vehicle's, an absent date to the present.
LastOf(row, k, mileage) ==
    IF row.last[k] = None \/ (k = "mileage" /\ row.last[k] = 0)
    THEN Reading(k, mileage) ELSE row.last[k]

NextDue(row, mileage) ==
    [k \in Kinds |-> IF row.interval[k] = None THEN None
                     ELSE LastOf(row, k, mileage) + row.interval[k]]

BeginCreatePlan(p, l, i) ==
    /\ plans[l] = None
    /\ BeginsReading(p)
    /\ Become(p, [Idle EXCEPT !.pc = "firstDue", !.vehicle = i.vehicle, !.plan = l,
                     !.draft = [vehicle |-> i.vehicle, interval |-> i.interval,
                                last |-> i.last, next |-> [k \in Kinds |-> None],
                                live |-> TRUE]])

MergedMeter(new, old) == [k \in Kinds |-> Or(new[k], None, old[k])]

\* UpdatePlan: GetByID, and the body on top of what it read.
BeginUpdatePlan(p, l, i) ==
    /\ Live(plans[l])
    /\ BeginsReading(p)
    /\ Become(p, [Idle EXCEPT !.pc = "due", !.vehicle = plans[l].vehicle, !.plan = l,
                     !.draft = [plans[l] EXCEPT !.interval = MergedMeter(i.interval, @),
                                                !.last = MergedMeter(i.last, @)]])

\* A completed preventive record restarts its plan: GetByID.
ReadPlan(p) ==
    LET work == req[p].work
        row == plans[work.plan]
        odometer == work.at["mileage"] IN
    /\ req[p].pc = "plan"
    /\ \/ /\ IF Live(row)
             THEN Become(p, [req[p] EXCEPT
                      !.pc = IF odometer > 0 THEN "due" ELSE "planVehicle",
                      !.plan = work.plan,
                      !.draft = [row EXCEPT !.last = [k \in Kinds |->
                          IF k = "mileage" /\ odometer = 0 THEN row.last[k]
                          ELSE work.at[k]]]])
             ELSE Goto(p, "check")
          /\ Reads
       \/ Goto(p, "check") /\ Fails(p)

\* Without an odometer reading the vehicle's mileage stands in for it.
ReadVehicleForPlan(p) ==
    /\ req[p].pc = "planVehicle"
    /\ \/ /\ Become(p, [req[p] EXCEPT !.pc = "due",
                            !.draft.last["mileage"] = vehicles[req[p].vehicle].mileage])
          /\ Reads
       \/ Goto(p, "due") /\ Fails(p)

\* A mileage that cannot be read counts as 0.  The plan's own vehicle is read,
\* not the record's.
CalculateNextDue(p) ==
    LET draft == req[p].draft
        to == IF req[p].pc = "firstDue" THEN "planInsert" ELSE "planMerge"
        With(mileage) == Become(p, [req[p] EXCEPT !.pc = to,
                                        !.draft.next = NextDue(draft, mileage)]) IN
    /\ req[p].pc \in {"due", "firstDue"}
    /\ \/ With(vehicles[draft.vehicle].mileage) /\ Reads
       \/ With(0) /\ Fails(p)

InsertPlan(p) ==
    LET l == req[p].plan IN
    /\ req[p].pc = "planInsert"
    /\ \/ /\ plans[l] = None
          /\ plans' = [plans EXCEPT ![l] = req[p].draft]
          /\ Become(p, [req[p] EXCEPT !.pc = "check", !.draft = None])
          /\ Writes(p)
          /\ UNCHANGED <<vehicles, records, active, today, blind>>
       \/ plans[l] # None /\ Become(p, Idle) /\ Reads
       \/ Become(p, Idle) /\ Fails(p)

\* Mutant: the due point is left out of the statement.
PlanMergedWithoutNext(row, draft) ==
    [row EXCEPT !.interval = MergedMeter(draft.interval, @),
                !.last = MergedMeter(draft.last, @)]

PlanMerged(row, draft) ==
    [row EXCEPT !.interval = MergedMeter(draft.interval, @),
                !.last = MergedMeter(draft.last, @),
                !.next = MergedMeter(draft.next, @)]

\* The side effects go on after an error, UpdatePlan ends.
PlanFailed(p) ==
    IF req[p].work = None THEN Become(p, Idle)
    ELSE Become(p, [req[p] EXCEPT !.pc = "resolve", !.draft = None])

\* planRepo.Update reads the row again ...
MergePlan(p) ==
    LET row == plans[req[p].plan] IN
    /\ req[p].pc = "planMerge"
    /\ \/ /\ IF Live(row)
             THEN Become(p, [req[p] EXCEPT !.pc = "planWrite",
                                           !.draft = PlanMerged(row, @)])
             ELSE PlanFailed(p)
          /\ Reads
       \/ PlanFailed(p) /\ Fails(p)

\* ... and writes every column but deleted_at.
WritePlan(p) ==
    LET l == req[p].plan IN
    /\ req[p].pc = "planWrite"
    /\ \/ /\ plans' = [plans EXCEPT ![l] = [req[p].draft EXCEPT !.live = plans[l].live]]
          /\ Become(p, [req[p] EXCEPT !.draft = None,
                           !.pc = IF req[p].work = None THEN "check" ELSE "resolve"])
          /\ Writes(p)
          /\ UNCHANGED <<vehicles, records, active, today, blind>>
       \/ PlanFailed(p) /\ Fails(p)

DeletePlan(p, l) ==
    /\ Live(plans[l])
    /\ BeginsWriting(p)
    /\ plans' = [plans EXCEPT ![l].live = FALSE]
    /\ UNCHANGED <<records, active, req>>

-------------------------------------------------------------------------------
(* Alerts *)

\* Mutant: only the alerts by mileage are resolved.
ResolvedByMileage(l) ==
    [c \in Plans \X Kinds |-> IF c = <<l, "mileage">> THEN 0 ELSE active[c]]

\* alertRepo.ResolveByPlanID
ResolvedByPlan(l) == [c \in Plans \X Kinds |-> IF c[1] = l THEN 0 ELSE active[c]]

ResolvePlan(p) ==
    /\ req[p].pc = "resolve"
    /\ Goto(p, "check")
    /\ \/ /\ active' = ResolvedByPlan(req[p].plan)
          /\ Writes(p)
          /\ UNCHANGED <<vehicles, records, plans, today, blind>>
       \/ Fails(p)

\* POST alerts/{id}/resolve
ResolveAlert(p, c) ==
    /\ active[c] > 0
    /\ BeginsWriting(p)
    /\ active' = [active EXCEPT ![c] = @ - 1]
    /\ UNCHANGED <<records, plans, req>>

\* CheckAlertsForVehicle
CheckVehicle(p) ==
    /\ req[p].pc = "check"
    /\ \/ /\ Become(p, [req[p] EXCEPT !.pc = "plans",
                                      !.seen = vehicles[req[p].vehicle].mileage])
          /\ Reads
       \/ Become(p, Idle) /\ Fails(p)

\* Due, overdue, or within the notice.
Due(c, mileage) ==
    LET row == plans[c[1]]
        k == c[2] IN
    /\ Live(row)
    /\ row.next[k] # None
    /\ row.next[k] <= Reading(k, mileage) + Notice

DueOf(v, mileage) ==
    {c \in Plans \X Kinds: Live(plans[c[1]]) /\ plans[c[1]].vehicle = v /\ Due(c, mileage)}

\* The request goes on to the rest of its plans.
Probing(p, todo) ==
    Become(p, IF todo = {} THEN Idle ELSE [req[p] EXCEPT !.pc = "probe", !.todo = todo, !.pair = None])

\* planRepo.GetAll, and time.Now for all of them.
ListPlans(p) ==
    /\ req[p].pc = "plans"
    /\ \/ Probing(p, DueOf(req[p].vehicle, req[p].seen)) /\ Reads
       \/ Become(p, Idle) /\ Fails(p)

\* Of a plan the mileage comes first.
Following(c, todo) ==
    c \in todo /\ (c[2] = "date" => <<c[1], "mileage">> \notin todo)

\* Mutant: an alert of either kind counts.
HasActiveOfAnyKind(c) == \E k \in Kinds: active[<<c[1], k>>] > 0

\* Mutant: exactly one alert is expected.
HasSingleActive(c) == active[c] = 1

HasActive(c) == active[c] > 0

\* GetActiveByPlanID: an error counts as no alert.
Probe(p, c) ==
    LET Missing == Become(p, [req[p] EXCEPT !.pc = "alert", !.todo = @ \ {c}, !.pair = c]) IN
    /\ req[p].pc = "probe" /\ Following(c, req[p].todo)
    /\ \/ /\ IF HasActive(c) THEN Probing(p, req[p].todo \ {c}) ELSE Missing
          /\ Reads
       \/ Missing /\ Fault(p) /\ blind' = blind \cup {c}

\* alertRepo.Create; an error, be it only a taken id, is dropped.
CreateAlert(p) ==
    LET c == req[p].pair IN
    /\ req[p].pc = "alert"
    /\ Probing(p, req[p].todo)
    /\ \/ /\ active' = [active EXCEPT ![c] = @ + 1]
          /\ Writes(p)
          /\ UNCHANGED <<vehicles, records, plans, today, blind>>
       \/ Fails(p)

-------------------------------------------------------------------------------

Tick ==
    /\ today < MaxDate
    /\ today' = today + 1
    /\ alone' = [p \in Procs |-> FALSE]
    /\ UNCHANGED <<vehicles, records, plans, active, begun, faults, req, blind>>

Step(p) ==
    \/ \E r \in Records, i \in RecordInputs:
          CreateMaintenance(p, r, i) \/ ReadMaintenance(p, r, i)
    \/ \E r \in Records: DeleteMaintenance(p, r)
    \/ \E v \in Vehicles, i \in VehicleInputs: BeginUpdateVehicle(p, v, i)
    \/ \E l \in Plans, i \in PlanInputs: BeginCreatePlan(p, l, i) \/ BeginUpdatePlan(p, l, i)
    \/ \E l \in Plans: DeletePlan(p, l)
    \/ \E c \in Plans \X Kinds: ResolveAlert(p, c) \/ Probe(p, c)
    \/ UpdateMaintenance(p) \/ ReadVehicle(p) \/ MergeVehicle(p) \/ WriteVehicle(p)
    \/ ReadPlan(p) \/ ReadVehicleForPlan(p) \/ CalculateNextDue(p)
    \/ InsertPlan(p) \/ MergePlan(p) \/ WritePlan(p)
    \/ ResolvePlan(p) \/ CheckVehicle(p) \/ ListPlans(p) \/ CreateAlert(p)

\* The bound on the requests is reached and all have been answered.
Served == begun = MaxRequests /\ (\A p \in Procs: req[p] = Idle) /\ UNCHANGED vars

Next == (\E p \in Procs: Step(p)) \/ Tick \/ Served

Spec == Init /\ [][Next]_vars

-------------------------------------------------------------------------------
(* Properties *)

TypeOK ==
    /\ vehicles \in [Vehicles -> Vehicle]
    /\ records \in [Records -> Record \cup {None}]
    /\ plans \in [Plans -> Plan \cup {None}]
    /\ active \in [Plans \X Kinds -> Nat]
    /\ today \in Nat /\ begun \in Nat /\ faults \in Nat
    /\ req \in [Procs -> Request]
    /\ alone \in [Procs -> BOOLEAN]
    /\ blind \subseteq Plans \X Kinds

(***************************************************************************)
(* Looking for an active alert and creating one are two statements, and no *)
(* key forbids a second.  Evaluations that overlap may each create one,    *)
(* but no later evaluation adds to them: a plan and kind never have more   *)
(* active alerts than there are concurrent requests, unless its alerts     *)
(* could once not be read.                                                 *)
(***************************************************************************)
AlertsDoNotPileUp ==
    \A c \in (Plans \X Kinds) \ blind: active[c] <= Cardinality(Procs)

\* The last step of an evaluation.
EndsCheck(p) == req[p].pc \in {"plans", "probe", "alert"} /\ req'[p].pc = "idle"

AlertedIfDue(v) == \A c \in DueOf(v, vehicles[v].mileage): active[c] > 0

(***************************************************************************)
(* A request that was not disturbed and whose statements all succeeded     *)
(* leaves no plan of its vehicle due without an active alert, whatever     *)
(* record, plan or mileage it changed.                                     *)
(***************************************************************************)
UndisturbedCheckAlertsAll ==
    [][\A p \in Procs, v \in Vehicles:
        EndsCheck(p) /\ alone'[p] /\ req[p].vehicle = v => AlertedIfDue(v)']_vars

\* The plan has no active alert of a kind it is not due in.
QuietUnlessDue(l) ==
    \A k \in Kinds: active[<<l, k>>] > 0 =>
        Due(<<l, k>>, vehicles[plans[l].vehicle].mileage)

(***************************************************************************)
(* Completing preventive work, undisturbed, ends the alerts it was done    *)
(* for: the plan keeps an active alert only if it is due again at once.    *)
(***************************************************************************)
CompletionEndsAlerts ==
    [][\A p \in Procs, l \in Plans:
        /\ EndsCheck(p) /\ alone'[p]
        /\ req[p].work # None /\ req[p].plan = l
        /\ Live(plans[l])
        => QuietUnlessDue(l)']_vars

(***************************************************************************)
(* Maintenance raises a mileage and never lowers it (maintenance_usecase   *)
(* .go: "Update vehicle mileage if ... greater than current mileage"),     *)
(* although compare, read and write are three statements, unless another   *)
(* request wrote in between.                                               *)
(***************************************************************************)
UndisturbedMileageNeverFalls ==
    [][\A p \in Procs, v \in Vehicles:
        /\ req[p].pc = "vehicleWrite" /\ req[p].work # None /\ alone'[p]
        /\ req'[p] # req[p] /\ req[p].vehicle = v
        => vehicles'[v].mileage >= vehicles[v].mileage]_vars

\* The due point of a plan is that of its own interval and last maintenance.
Consistent(row) ==
    \A k \in Kinds:
        IF row.interval[k] = None THEN row.next[k] = None
        ELSE row.last[k] # None /\ row.last[k] > 0
                => row.next[k] = row.last[k] + row.interval[k]

(***************************************************************************)
(* The due point is calculated from one read of the plan and merged into   *)
(* another.  An undisturbed request still leaves a row whose due point     *)
(* agrees with its other columns, even one it found inconsistent.          *)
(***************************************************************************)
UndisturbedPlanIsConsistent ==
    [][\A p \in Procs, l \in Plans:
        /\ req[p].pc = "planWrite" /\ alone'[p] /\ req'[p] # req[p]
        /\ req[p].plan = l
        => Consistent(plans'[l])]_vars
===============================================================================
