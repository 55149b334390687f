--------------------------- MODULE MaintenanceProofs ---------------------------
(***************************************************************************)
(* Proofs about Maintenance for every number of vehicles, plans, records   *)
(* and concurrent requests, and every set of bodies.                       *)
(***************************************************************************)
EXTENDS Maintenance, FiniteSetTheorems, TLAPS

Pairs == Plans \X Kinds

PlanSteps == {"planVehicle", "due", "firstDue", "planInsert", "planMerge", "planWrite"}

\* What a request is made of where it stands.
Shape(r) ==
    /\ r \in Request
    /\ r.pc # "idle" => r.vehicle \in Vehicles
    /\ r.pc \in {"recordWrite", "effects", "plan"} => r.work \in Record
    /\ r.pc = "recordWrite" => r.rec \in Records
    /\ r.pc = "plan" => r.work.plan \in Plans
    /\ r.pc = "vehicleMerge" => r.car \in VehicleInput
    /\ r.pc = "vehicleWrite" => r.car \in Vehicle
    /\ r.pc \in PlanSteps => r.plan \in Plans /\ r.draft \in Plan
    /\ r.pc = "alert" => r.pair \in Pairs

RequestsHaveShape == \A p \in Procs: Shape(req[p])

\* A row about to be overwritten is there: deleting it only marks it.
RowsExist(r) ==
    /\ r.pc = "recordWrite" => records[r.rec] # None
    /\ r.pc = "planWrite" => plans[r.plan] # None

RowsAreThere == \A p \in Procs: RowsExist(req[p])

IInv ==
    /\ TypeOK
    /\ RequestsHaveShape
    /\ RowsAreThere

\* The requests that have found no alert and are about to create one.
Alerting(c) == {p \in Procs: req[p].pc = "alert" /\ req[p].pair = c}

\* The active alerts and those about to be.
Count(c) == active[c] + Cardinality(Alerting(c))

\* Where its alerts can be read, a pair gets another one only if it has none.
RisesFromZero ==
    \A c \in Pairs \ blind':
        c \notin blind /\ (Count(c)' <= Count(c) \/ active'[c] = 0)

\* What is shown of every step.
Kept == IInv' /\ RisesFromZero

-------------------------------------------------------------------------------
(* Counts, shapes and frames *)

LEMMA AlertingIsCounted ==
    ASSUME NEW c
    PROVE  /\ IsFiniteSet(Procs) /\ Cardinality(Procs) \in Nat
           /\ IsFiniteSet(Alerting(c)) /\ Cardinality(Alerting(c)) \in Nat
           /\ IsFiniteSet(Alerting(c)') /\ Cardinality(Alerting(c)') \in Nat
           /\ Cardinality(Alerting(c)) <= Cardinality(Procs)
           /\ Cardinality(Alerting(c)') <= Cardinality(Procs)
<1>1. IsFiniteSet(Procs)
  BY MaintenanceAssumption
<1>2. Alerting(c) \in SUBSET Procs /\ Alerting(c)' \in SUBSET Procs
  BY DEF Alerting
<1>3. /\ IsFiniteSet(Alerting(c)) /\ IsFiniteSet(Alerting(c)')
      /\ Cardinality(Alerting(c)) <= Cardinality(Procs)
      /\ Cardinality(Alerting(c)') <= Cardinality(Procs)
  BY <1>1, <1>2, FS_Subset
<1> QED
  BY <1>1, <1>3, FS_CardinalityType

\* Request, with the pairs named.
LEMMA RequestFields ==
    Request = [pc: {"idle", "recordWrite", "effects", "vehicleMerge", "vehicleWrite",
                    "plan", "planVehicle", "due", "firstDue", "planInsert", "planMerge",
                    "planWrite", "resolve", "check", "plans", "probe", "alert"},
               vehicle: Vehicles \cup {None},
               rec: Records \cup {None},
               work: Record \cup {None},
               plan: Plans \cup {None},
               draft: Plan \cup {None},
               car: VehicleInput \cup {None},
               seen: Nat,
               todo: SUBSET Pairs,
               pair: Pairs \cup {None}]
  BY DEF Request, Pairs

LEMMA IdleShape == Shape(Idle) /\ Idle.pc = "idle"
  BY DEF Shape, Idle, Request, PlanSteps

LEMMA InitIInv == Init => IInv
<1> SUFFICES ASSUME Init PROVE IInv
  OBVIOUS
<1> USE DEF Init
<1>1. \A p \in Procs: req[p] = Idle /\ req[p].pc = "idle" /\ Shape(req[p])
  BY IdleShape
<1>2. req \in [Procs -> Request]
  BY IdleShape DEF Shape
<1>3. TypeOK
  BY <1>2 DEF TypeOK, Vehicle
<1>5. RowsAreThere
  BY <1>1 DEF RowsAreThere, RowsExist
<1> QED
  BY <1>1, <1>3, <1>5 DEF IInv, RequestsHaveShape

Replaces(p, r) == Shape(r) /\ req' = [req EXCEPT ![p] = r]

LEMMA Replacing ==
    ASSUME IInv, NEW p \in Procs, NEW r, Replaces(p, r)
    PROVE  /\ req' \in [Procs -> Request]
           /\ req'[p] = r /\ \A q \in Procs: q # p => req'[q] = req[q]
           /\ RequestsHaveShape'
<1>1. req \in [Procs -> Request] /\ r \in Request
  BY DEF IInv, TypeOK, Replaces, Shape
<1>2. /\ req' \in [Procs -> Request]
      /\ req'[p] = r /\ \A q \in Procs: q # p => req'[q] = req[q]
  BY <1>1 DEF Replaces
<1>3. \A q \in Procs: Shape(req'[q])
  BY <1>2 DEF IInv, RequestsHaveShape, Replaces
<1> QED
  BY <1>2, <1>3 DEF RequestsHaveShape, Shape

Serving ==
    /\ today' \in Nat /\ begun' \in Nat /\ faults' \in Nat
    /\ alone' \in [Procs -> BOOLEAN]

LEMMA ServingSteps ==
    ASSUME IInv, NEW p \in Procs,
           \/ BeginsReading(p) \/ BeginsWriting(p) \/ Reads \/ Fault(p)
           \/ Writes(p) /\ UNCHANGED today
    PROVE  Serving
<1>1. alone \in [Procs -> BOOLEAN] /\ begun \in Nat /\ faults \in Nat /\ today \in Nat
  BY DEF IInv, TypeOK
<1>2. [q \in Procs |-> q = p] \in [Procs -> BOOLEAN]
  OBVIOUS
<1>3. [q \in Procs |-> q = p /\ alone[q]] \in [Procs -> BOOLEAN]
  OBVIOUS
<1>4. [alone EXCEPT ![p] = TRUE] \in [Procs -> BOOLEAN]
  BY <1>1
<1>5. [alone EXCEPT ![p] = FALSE] \in [Procs -> BOOLEAN]
  BY <1>1
<1>6. alone' \in [Procs -> BOOLEAN]
  BY <1>1, <1>2, <1>3, <1>4, <1>5, Zenon DEF BeginsReading, BeginsWriting, Reads, Writes, Fault
<1>7. today' \in Nat /\ begun' \in Nat /\ faults' \in Nat
  BY <1>1 DEF BeginsReading, BeginsWriting, Begin, Reads, Writes, Fault
<1> QED
  BY <1>6, <1>7 DEF Serving

LEMMA RowsStay ==
    ASSUME IInv, NEW p \in Procs, NEW r, Replaces(p, r), RowsExist(r),
           \A x \in Records: records[x] # None => records'[x] # None,
           \A l \in Plans: plans[l] # None => plans'[l] # None
    PROVE  RowsAreThere'
<1>1. req'[p] = r /\ \A q \in Procs: q # p => req'[q] = req[q]
  BY Replacing
<1>2. \A q \in Procs: Shape(req[q]) /\ RowsExist(req[q])
  BY DEF IInv, RequestsHaveShape, RowsAreThere
<1> SUFFICES ASSUME NEW q \in Procs
             PROVE  /\ req'[q].pc = "recordWrite" => records'[req'[q].rec] # None
                    /\ req'[q].pc = "planWrite" => plans'[req'[q].plan] # None
  BY DEF RowsAreThere, RowsExist
<1>3. Shape(req'[q]) /\ RowsExist(req'[q])
  BY <1>1, <1>2 DEF Replaces, RowsExist
<1> QED
  BY <1>3 DEF Shape, RowsExist, PlanSteps

\* A step that creates no alert and is about to create none.
LEMMA CalmKeeps ==
    ASSUME IInv, NEW p \in Procs, NEW r, Replaces(p, r), r.pc # "alert", Serving,
           blind' = blind, RowsExist(r),
           \A x \in Records: records[x] # None => records'[x] # None,
           \A l \in Plans: plans[l] # None => plans'[l] # None,
           vehicles' \in [Vehicles -> Vehicle],
           records' \in [Records -> Record \cup {None}],
           plans' \in [Plans -> Plan \cup {None}],
           active' \in [Pairs -> Nat],
           \A c \in Pairs: active'[c] <= active[c]
    PROVE  Kept
<1>1. /\ req' \in [Procs -> Request] /\ RequestsHaveShape'
      /\ req'[p] = r /\ \A q \in Procs: q # p => req'[q] = req[q]
  BY Replacing
<1>2. TypeOK'
  BY <1>1 DEF IInv, TypeOK, Serving, Pairs
<1>3. RisesFromZero
  <2> SUFFICES ASSUME NEW c \in Pairs \ blind
               PROVE  active'[c] + Cardinality(Alerting(c)') <= active[c] + Cardinality(Alerting(c))
    BY DEF RisesFromZero, Count
  <2>1. Alerting(c)' \in SUBSET Alerting(c)
    BY <1>1 DEF Alerting
  <2>2. Cardinality(Alerting(c)') <= Cardinality(Alerting(c))
    BY <2>1, AlertingIsCounted, FS_Subset
  <2>3. active[c] \in Nat /\ active'[c] \in Nat /\ active'[c] <= active[c]
    BY DEF IInv, TypeOK, Pairs
  <2> QED
    BY <2>2, <2>3, AlertingIsCounted
<1>4. RowsAreThere'
  BY RowsStay
<1> QED
  BY <1>1, <1>2, <1>3, <1>4 DEF IInv, Kept

\* A step that only moves the request on.
LEMMA MoveKeeps ==
    ASSUME IInv, NEW p \in Procs, NEW r, Replaces(p, r), r.pc # "alert", RowsExist(r),
           Reads \/ Fails(p) \/ BeginsReading(p)
    PROVE  Kept
<1>1. Serving
  BY ServingSteps DEF Fails
<1>2. UNCHANGED <<vehicles, records, plans, active, blind>>
  BY DEF Reads, Fails, Fault, BeginsReading
<1>3. /\ vehicles' \in [Vehicles -> Vehicle] /\ records' \in [Records -> Record \cup {None}]
      /\ plans' \in [Plans -> Plan \cup {None}] /\ active' \in [Pairs -> Nat]
      /\ \A c \in Pairs: active'[c] <= active[c]
  BY <1>2 DEF IInv, TypeOK, Pairs
<1> QED
  BY <1>1, <1>2, <1>3, CalmKeeps

LEMMA EndKeeps ==
    ASSUME IInv, NEW p \in Procs, Become(p, Idle), Reads \/ Fails(p)
    PROVE  Kept
<1>1. Replaces(p, Idle) /\ Idle.pc # "alert" /\ RowsExist(Idle)
  BY IdleShape DEF Become, Replaces, RowsExist
<1> QED
  BY <1>1, MoveKeeps

LEMMA Inputs ==
    /\ \A k \in Kinds: k \in {"mileage", "date"}
    /\ "mileage" \in Kinds
    /\ IInv => \A p \in Procs: Shape(req[p])
    /\ IInv => today \in Nat
  BY MaintenanceAssumption DEF IInv, RequestsHaveShape, TypeOK

LEMMA GotoCheck ==
    ASSUME IInv, NEW p \in Procs, req[p].pc # "idle", Goto(p, "check")
    PROVE  \E r: Replaces(p, r) /\ r.pc = "check"
<1> DEFINE r == [req[p] EXCEPT !.pc = "check"]
<1>1. Shape(req[p])
  BY Inputs
<1>2. r \in Request /\ r.pc = "check" /\ r.vehicle \in Vehicles
  BY <1>1 DEF Shape, Request
<1>3. req' = [req EXCEPT ![p] = r]
  BY DEF Goto, Become
<1> HIDE DEF r
<1>4. Shape(r)
  BY <1>2 DEF Shape, PlanSteps
<1> QED
  BY <1>2, <1>3, <1>4 DEF Replaces

-------------------------------------------------------------------------------
(* Records *)

LEMMA CreateMaintenanceKeeps ==
    ASSUME IInv, NEW p \in Procs, NEW x \in Records, NEW i \in RecordInputs,
           CreateMaintenance(p, x, i)
    PROVE  Kept
<1> DEFINE row == RecordOf(i)
           r == [Idle EXCEPT !.pc = "effects", !.vehicle = i.vehicle, !.work = row]
<1>1. i \in RecordInput /\ i.vehicle \in Vehicles /\ i.status \in Status
  BY MaintenanceAssumption DEF CreateMaintenance, RecordInput
<1>2. row \in Record
  <2>1. \A k \in Kinds: i.at[k] \in Nat /\ Or(i.at[k], 0, today) \in Nat
    BY <1>1, Inputs DEF RecordInput, Or
  <2>2. (IF i.plan = Clear THEN None ELSE i.plan) \in Plans \cup {None}
    BY <1>1 DEF RecordInput
  <2>3. [k \in Kinds |-> IF k = "date" THEN Or(i.at[k], 0, today) ELSE i.at[k]] \in [Kinds -> Nat]
    BY <2>1
  <2> QED
    BY <1>1, <2>2, <2>3 DEF RecordOf, Record
<1>3. /\ req' = [req EXCEPT ![p] = r] /\ records' = [records EXCEPT ![x] = row]
      /\ BeginsWriting(p) /\ UNCHANGED <<vehicles, plans, active, blind>>
  BY DEF CreateMaintenance, Become, BeginsWriting
<1> HIDE DEF row
<1>4. r \in Request /\ r.pc = "effects" /\ r.vehicle = i.vehicle /\ r.work = row
  BY <1>1, <1>2 DEF Idle, Request
<1> HIDE DEF r
<1>5. Replaces(p, r)
  BY <1>1, <1>2, <1>3, <1>4 DEF Replaces, Shape, PlanSteps
<1>6. Serving
  BY <1>3, ServingSteps
<1>7. /\ records' \in [Records -> Record \cup {None}]
      /\ \A y \in Records: records[y] # None => records'[y] # None
  BY <1>2, <1>3, MaintenanceAssumption DEF IInv, TypeOK
<1>8. RowsExist(r)
  BY <1>4 DEF RowsExist
<1> QED
  BY <1>3, <1>4, <1>5, <1>6, <1>7, <1>8, CalmKeeps DEF IInv, TypeOK, Pairs

LEMMA ReadMaintenanceKeeps ==
    ASSUME IInv, NEW p \in Procs, NEW x \in Records, NEW i \in RecordInputs,
           ReadMaintenance(p, x, i)
    PROVE  Kept
<1> DEFINE row == RecordMerged(records[x], i)
           r == [Idle EXCEPT !.pc = "recordWrite", !.vehicle = row.vehicle,
                             !.rec = x, !.work = row]
<1>1. i \in RecordInput /\ records[x] \in Record
  BY MaintenanceAssumption DEF ReadMaintenance, Live, IInv, TypeOK
<1>2. row \in Record
  <2>1. /\ Or(i.vehicle, None, records[x].vehicle) \in Vehicles
        /\ Or(i.status, None, records[x].status) \in Status
        /\ Or(i.plan, None, records[x].plan) \in Plans \cup {Clear, None}
    BY <1>1 DEF RecordInput, Record, Or
  <2>2. (IF i.plan = Clear THEN None ELSE Or(i.plan, None, records[x].plan)) \in Plans \cup {None}
    BY <1>1 DEF RecordInput, Record, Or
  <2>3. [k \in Kinds |-> Or(i.at[k], 0, records[x].at[k])] \in [Kinds -> Nat]
    BY <1>1 DEF RecordInput, Record, Or
  <2> QED
    BY <1>1, <2>1, <2>2, <2>3 DEF RecordMerged, Record
<1>3. req' = [req EXCEPT ![p] = r] /\ BeginsReading(p) /\ records[x] # None
  BY DEF ReadMaintenance, Become, Live
<1>4. row.vehicle \in Vehicles
  BY <1>2 DEF Record
<1> HIDE DEF row
<1>5. /\ r \in Request /\ r.pc = "recordWrite" /\ r.vehicle = row.vehicle
      /\ r.rec = x /\ r.work = row
  BY <1>2, <1>4 DEF Idle, Request
<1> HIDE DEF r
<1>6. Replaces(p, r) /\ RowsExist(r)
  BY <1>2, <1>3, <1>4, <1>5 DEF Replaces, Shape, PlanSteps, RowsExist
<1> QED
  BY <1>3, <1>5, <1>6, MoveKeeps

LEMMA UpdateMaintenanceKeeps ==
    ASSUME IInv, NEW p \in Procs, UpdateMaintenance(p)
    PROVE  Kept
<1>1. CASE Become(p, Idle) /\ Fails(p)
  BY <1>1, EndKeeps
<1>2. CASE ~(Become(p, Idle) /\ Fails(p))
  <2> DEFINE x == req[p].rec
             row == [req[p].work EXCEPT !.live = records[x].live]
             r == [req[p] EXCEPT !.pc = "effects", !.rec = None]
  <2>1. /\ req[p].pc = "recordWrite" /\ records' = [records EXCEPT ![x] = row]
        /\ req' = [req EXCEPT ![p] = r] /\ Writes(p)
        /\ UNCHANGED <<vehicles, plans, active, today, blind>>
    BY <1>2 DEF UpdateMaintenance, Become
  <2>2. /\ req[p] \in Request /\ x \in Records /\ req[p].work \in Record
        /\ req[p].vehicle \in Vehicles
    BY <2>1, Inputs DEF Shape
  <2>3. /\ r \in Request /\ r.pc = "effects" /\ r.vehicle = req[p].vehicle
        /\ r.work = req[p].work
    BY <2>2, RequestFields
  <2> HIDE DEF r
  <2>4. Replaces(p, r)
    BY <2>1, <2>2, <2>3 DEF Replaces, Shape, PlanSteps
  <2>5. Serving
    BY <2>1, ServingSteps
  <2>6. row \in Record
    <3>1. records[x] \in Record
      BY <2>1, <2>2 DEF IInv, TypeOK, RowsAreThere, RowsExist
    <3> QED
      BY <2>2, <3>1 DEF Record
  <2>7. /\ records' \in [Records -> Record \cup {None}]
        /\ \A y \in Records: records[y] # None => records'[y] # None
    BY <2>1, <2>2, <2>6, MaintenanceAssumption DEF IInv, TypeOK
  <2>8. RowsExist(r)
    BY <2>3 DEF RowsExist
  <2> QED
    BY <2>1, <2>3, <2>4, <2>5, <2>7, <2>8, CalmKeeps DEF IInv, TypeOK, Pairs
<1> QED
  BY <1>1, <1>2

LEMMA DeleteMaintenanceKeeps ==
    ASSUME IInv, NEW p \in Procs, NEW x \in Records, DeleteMaintenance(p, x)
    PROVE  Kept
<1>1. /\ req[p].pc = "idle" /\ Live(records[x]) /\ BeginsWriting(p)
      /\ records' = [records EXCEPT ![x].live = FALSE]
      /\ UNCHANGED <<vehicles, plans, active, req, blind>>
  BY DEF DeleteMaintenance, BeginsWriting, Begin
<1>2. records[x] \in Record
  BY <1>1 DEF IInv, TypeOK, Live
<1>3. [records[x] EXCEPT !.live = FALSE] \in Record
  BY <1>2 DEF Record
<1>4. /\ records' \in [Records -> Record \cup {None}]
      /\ \A y \in Records: records[y] # None => records'[y] # None
  BY <1>1, <1>3, MaintenanceAssumption DEF IInv, TypeOK
<1>5. PICK r: r = req[p]
  OBVIOUS
<1>6. Replaces(p, r) /\ r.pc = "idle" /\ RowsExist(r)
  BY <1>1, <1>5, Inputs DEF Replaces, RowsExist, IInv, TypeOK
<1>7. Serving
  BY <1>1, ServingSteps
<1>8. /\ vehicles' \in [Vehicles -> Vehicle] /\ plans' \in [Plans -> Plan \cup {None}]
      /\ active' \in [Pairs -> Nat] /\ \A c \in Pairs: active'[c] <= active[c]
      /\ \A l \in Plans: plans[l] # None => plans'[l] # None
  BY <1>1 DEF IInv, TypeOK, Pairs
<1> QED
  BY <1>1, <1>4, <1>6, <1>7, <1>8, CalmKeeps

-------------------------------------------------------------------------------
(* Vehicles *)

\* Where the side effects go on, or the request ends.
LEMMA LeavingIsCalm ==
    ASSUME IInv, NEW p \in Procs,
           req[p].pc \in {"effects", "vehicleMerge", "vehicleWrite"},
           Leave(p, AfterVehicle(req[p].work))
    PROVE  \E r: Replaces(p, r) /\ r.pc # "alert" /\ RowsExist(r)
<1> DEFINE work == req[p].work
           pc == AfterVehicle(work)
           r == [req[p] EXCEPT !.pc = pc, !.car = None]
<1>1. /\ req[p] \in Request /\ req[p].vehicle \in Vehicles
      /\ work \in Record \cup {None}
  BY Inputs DEF Shape, Request
<1>2. CASE work = None
  <2>1. Become(p, Idle)
    BY <1>2 DEF Leave, AfterVehicle
  <2> QED
    BY <2>1, IdleShape DEF Become, Replaces, RowsExist
<1>3. CASE work # None
  <2>1. pc \in {"plan", "check"} /\ (pc = "plan" => work.plan \in Plans)
    BY <1>1, <1>3 DEF AfterVehicle, Record
  <2>2. req' = [req EXCEPT ![p] = r]
    BY <2>1 DEF Leave, Become
  <2> HIDE DEF pc
  <2>3. r \in Request /\ r.pc = pc /\ r.vehicle = req[p].vehicle /\ r.work = work
    BY <1>1, <2>1, RequestFields
  <2> HIDE DEF r
  <2>4. Replaces(p, r) /\ RowsExist(r) /\ r.pc # "alert"
    BY <1>1, <1>3, <2>1, <2>2, <2>3 DEF Replaces, Shape, RowsExist, PlanSteps
  <2> QED
    BY <2>4
<1> QED
  BY <1>2, <1>3

LEMMA ReadVehicleKeeps ==
    ASSUME IInv, NEW p \in Procs, ReadVehicle(p)
    PROVE  Kept
<1> DEFINE work == req[p].work
           car == [mileage |-> MileageOf(work, vehicles[req[p].vehicle].mileage),
                   status |-> StatusOf(work)]
           r == [req[p] EXCEPT !.pc = "vehicleMerge", !.car = car]
<1>1. CASE Leave(p, AfterVehicle(work)) /\ (Reads \/ Fails(p))
  <2>1. PICK s: Replaces(p, s) /\ s.pc # "alert" /\ RowsExist(s)
    BY <1>1, LeavingIsCalm DEF ReadVehicle
  <2>2. Reads \/ Fails(p)
    BY <1>1
  <2> QED
    BY <2>1, <2>2, MoveKeeps
<1>2. CASE ~(Leave(p, AfterVehicle(work)) /\ (Reads \/ Fails(p)))
  <2>1. req[p].pc = "effects" /\ req' = [req EXCEPT ![p] = r] /\ Reads
    BY <1>2 DEF ReadVehicle, Become
  <2>2. req[p] \in Request /\ req[p].vehicle \in Vehicles /\ work \in Record
    BY <2>1, Inputs DEF Shape
  <2>3. /\ MileageOf(work, vehicles[req[p].vehicle].mileage) \in Nat
        /\ StatusOf(work) \in {"disponivel", "manutencao", None}
    BY <2>2, Inputs DEF MileageOf, StatusOf, Record
  <2>4. car \in VehicleInput
    BY <2>3 DEF VehicleInput
  <2> HIDE DEF car
  <2>5. /\ r \in Request /\ r.pc = "vehicleMerge" /\ r.vehicle = req[p].vehicle
        /\ r.car = car
    BY <2>2, <2>4, RequestFields
  <2> HIDE DEF r
  <2>6. Replaces(p, r) /\ RowsExist(r)
    BY <2>1, <2>2, <2>4, <2>5 DEF Replaces, Shape, RowsExist, PlanSteps
  <2> QED
    BY <2>1, <2>5, <2>6, MoveKeeps
<1> QED
  BY <1>1, <1>2

LEMMA BeginUpdateVehicleKeeps ==
    ASSUME IInv, NEW p \in Procs, NEW v \in Vehicles, NEW i \in VehicleInputs,
           BeginUpdateVehicle(p, v, i)
    PROVE  Kept
<1> DEFINE r == [Idle EXCEPT !.pc = "vehicleMerge", !.vehicle = v, !.car = i]
<1>1. i \in VehicleInput
  BY MaintenanceAssumption
<1>2. req' = [req EXCEPT ![p] = r] /\ BeginsReading(p)
  BY DEF BeginUpdateVehicle, Become
<1>3. r \in Request /\ r.pc = "vehicleMerge" /\ r.vehicle = v /\ r.car = i
  BY <1>1 DEF Idle, Request
<1> HIDE DEF r
<1>4. Replaces(p, r) /\ RowsExist(r)
  BY <1>1, <1>2, <1>3 DEF Replaces, Shape, RowsExist, PlanSteps
<1> QED
  BY <1>2, <1>3, <1>4, MoveKeeps

LEMMA MergeVehicleKeeps ==
    ASSUME IInv, NEW p \in Procs, MergeVehicle(p)
    PROVE  Kept
<1> DEFINE row == vehicles[req[p].vehicle]
           car == VehicleMerged(row, req[p].car)
           r == [req[p] EXCEPT !.pc = "vehicleWrite", !.car = car]
<1>1. CASE Leave(p, AfterVehicle(req[p].work)) /\ Fails(p)
  BY <1>1, LeavingIsCalm, MoveKeeps DEF MergeVehicle
<1>2. CASE ~(Leave(p, AfterVehicle(req[p].work)) /\ Fails(p))
  <2>1. req[p].pc = "vehicleMerge" /\ req' = [req EXCEPT ![p] = r] /\ Reads
    BY <1>2 DEF MergeVehicle, Become
  <2>2. req[p] \in Request /\ req[p].vehicle \in Vehicles /\ req[p].car \in VehicleInput
    BY <2>1, Inputs DEF Shape
  <2>3. row \in Vehicle
    BY <2>2 DEF IInv, TypeOK
  <2>4. car \in Vehicle /\ car \in VehicleInput
    BY <2>2, <2>3 DEF VehicleMerged, Or, Vehicle, VehicleInput
  <2> HIDE DEF car
  <2>5. /\ r \in Request /\ r.pc = "vehicleWrite" /\ r.vehicle = req[p].vehicle
        /\ r.car = car
    BY <2>2, <2>4, RequestFields
  <2> HIDE DEF r
  <2>6. Replaces(p, r) /\ RowsExist(r)
    BY <2>1, <2>2, <2>4, <2>5 DEF Replaces, Shape, RowsExist, PlanSteps
  <2> QED
    BY <2>1, <2>5, <2>6, MoveKeeps
<1> QED
  BY <1>1, <1>2

LEMMA WriteVehicleKeeps ==
    ASSUME IInv, NEW p \in Procs, WriteVehicle(p)
    PROVE  Kept
<1>1. PICK r: Replaces(p, r) /\ r.pc # "alert" /\ RowsExist(r)
  BY LeavingIsCalm DEF WriteVehicle
<1>2. CASE Fails(p)
  BY <1>1, <1>2, MoveKeeps
<1>3. CASE ~Fails(p)
  <2>1. /\ vehicles' = [vehicles EXCEPT ![req[p].vehicle] = req[p].car] /\ Writes(p)
        /\ UNCHANGED <<records, plans, active, today, blind>>
        /\ req[p].car \in Vehicle
    BY <1>3, Inputs DEF WriteVehicle, Shape
  <2>2. vehicles' \in [Vehicles -> Vehicle]
    BY <2>1 DEF IInv, TypeOK
  <2>3. Serving
    BY <2>1, ServingSteps
  <2> QED
    BY <1>1, <2>1, <2>2, <2>3, CalmKeeps DEF IInv, TypeOK, Pairs
<1> QED
  BY <1>2, <1>3

-------------------------------------------------------------------------------
(* Plans *)

LEMMA MergedMeters ==
    ASSUME NEW new \in Meter, NEW old \in Meter
    PROVE  MergedMeter(new, old) \in Meter
  BY DEF MergedMeter, Meter, Or

LEMMA BeginCreatePlanKeeps ==
    ASSUME IInv, NEW p \in Procs, NEW l \in Plans, NEW i \in PlanInputs,
           BeginCreatePlan(p, l, i)
    PROVE  Kept
<1> DEFINE draft == [vehicle |-> i.vehicle, interval |-> i.interval, last |-> i.last,
                     next |-> [k \in Kinds |-> None], live |-> TRUE]
           r == [Idle EXCEPT !.pc = "firstDue", !.vehicle = i.vehicle, !.plan = l,
                             !.draft = draft]
<1>1. i \in PlanInput
  BY MaintenanceAssumption
<1>2. draft \in Plan
  BY <1>1 DEF PlanInput, Plan, Meter
<1>3. req' = [req EXCEPT ![p] = r] /\ BeginsReading(p) /\ i.vehicle \in Vehicles
  BY <1>1 DEF BeginCreatePlan, Become, PlanInput
<1> HIDE DEF draft
<1>4. /\ r \in Request /\ r.pc = "firstDue" /\ r.vehicle = i.vehicle /\ r.plan = l
      /\ r.draft = draft
  BY <1>2, <1>3 DEF Idle, Request
<1> HIDE DEF r
<1>5. Replaces(p, r) /\ RowsExist(r)
  BY <1>2, <1>3, <1>4 DEF Replaces, Shape, RowsExist, PlanSteps
<1> QED
  BY <1>3, <1>4, <1>5, MoveKeeps

LEMMA BeginUpdatePlanKeeps ==
    ASSUME IInv, NEW p \in Procs, NEW l \in Plans, NEW i \in PlanInputs,
           BeginUpdatePlan(p, l, i)
    PROVE  Kept
<1> DEFINE draft == [plans[l] EXCEPT !.interval = MergedMeter(i.interval, @),
                                     !.last = MergedMeter(i.last, @)]
           v == plans[l].vehicle
           r == [Idle EXCEPT !.pc = "due", !.vehicle = v, !.plan = l, !.draft = draft]
<1>1. i \in PlanInput /\ plans[l] \in Plan
  BY MaintenanceAssumption DEF BeginUpdatePlan, Live, IInv, TypeOK
<1>2. draft \in Plan /\ v \in Vehicles
  <2>1. /\ MergedMeter(i.interval, plans[l].interval) \in Meter
        /\ MergedMeter(i.last, plans[l].last) \in Meter
    BY <1>1, MergedMeters DEF PlanInput, Plan
  <2> QED
    BY <1>1, <2>1 DEF Plan
<1>3. req' = [req EXCEPT ![p] = r] /\ BeginsReading(p)
  BY DEF BeginUpdatePlan, Become
<1> HIDE DEF draft, v
<1>4. /\ r \in Request /\ r.pc = "due" /\ r.vehicle = v /\ r.plan = l
      /\ r.draft = draft
  BY <1>2 DEF Idle, Request
<1> HIDE DEF r
<1>5. Replaces(p, r) /\ RowsExist(r)
  BY <1>2, <1>3, <1>4 DEF Replaces, Shape, RowsExist, PlanSteps
<1> QED
  BY <1>3, <1>4, <1>5, MoveKeeps

LEMMA GoingToCheck ==
    ASSUME IInv, NEW p \in Procs, req[p].pc # "idle", Goto(p, "check"), Reads \/ Fails(p)
    PROVE  Kept
<1>1. PICK r: Replaces(p, r) /\ r.pc = "check"
  BY GotoCheck
<1>2. RowsExist(r) /\ r.pc # "alert"
  BY <1>1 DEF RowsExist
<1> QED
  BY <1>1, <1>2, MoveKeeps

LEMMA ReadPlanKeeps ==
    ASSUME IInv, NEW p \in Procs, ReadPlan(p)
    PROVE  Kept
<1> DEFINE work == req[p].work
           row == plans[work.plan]
           pc == IF work.at["mileage"] > 0 THEN "due" ELSE "planVehicle"
           last == [k \in Kinds |-> IF k = "mileage" /\ work.at["mileage"] = 0
                                    THEN row.last[k] ELSE work.at[k]]
           draft == [row EXCEPT !.last = last]
           r == [req[p] EXCEPT !.pc = pc, !.plan = work.plan, !.draft = draft]
<1>1. req[p].pc = "plan" /\ req[p].pc # "idle"
  BY DEF ReadPlan
<1>2. CASE Goto(p, "check") /\ (Reads \/ Fails(p))
  BY <1>1, <1>2, GoingToCheck
<1>3. CASE ~(Goto(p, "check") /\ (Reads \/ Fails(p)))
  <2>1. Live(row) /\ req' = [req EXCEPT ![p] = r] /\ Reads
    BY <1>3 DEF ReadPlan, Become
  <2>2. /\ req[p] \in Request /\ req[p].vehicle \in Vehicles
        /\ work \in Record /\ work.plan \in Plans
    BY <1>1, Inputs DEF Shape
  <2>3. row \in Plan
    BY <2>1, <2>2 DEF IInv, TypeOK, Live
  <2>4. last \in Meter
    BY <2>2, <2>3 DEF Record, Plan, Meter
  <2>5. draft \in Plan
    BY <2>3, <2>4 DEF Plan
  <2>6. pc \in {"due", "planVehicle"}
    OBVIOUS
  <2> HIDE DEF draft, last, pc
  <2>7. /\ r \in Request /\ r.pc = pc /\ r.vehicle = req[p].vehicle /\ r.plan = work.plan
        /\ r.draft = draft
    BY <2>2, <2>5, <2>6, RequestFields
  <2> HIDE DEF r
  <2>8. Replaces(p, r) /\ RowsExist(r) /\ r.pc # "alert"
    BY <2>1, <2>2, <2>5, <2>6, <2>7 DEF Replaces, Shape, RowsExist, PlanSteps
  <2> QED
    BY <2>1, <2>8, MoveKeeps
<1> QED
  BY <1>2, <1>3

\* A request goes on with its draft.
LEMMA DraftKeeps ==
    ASSUME IInv, NEW p \in Procs, req[p].pc \in PlanSteps,
           NEW pc \in PlanSteps, NEW draft \in Plan,
           req' = [req EXCEPT ![p] = [req[p] EXCEPT !.pc = pc, !.draft = draft]],
           pc = "planWrite" => plans[req[p].plan] # None,
           Reads \/ Fails(p)
    PROVE  Kept
<1>1. PICK r: r = [req[p] EXCEPT !.pc = pc, !.draft = draft]
  OBVIOUS
<1>2. req[p] \in Request /\ req[p].vehicle \in Vehicles /\ req[p].plan \in Plans
  BY Inputs DEF Shape, PlanSteps
<1>3. /\ r \in Request /\ r.pc = pc /\ r.vehicle = req[p].vehicle /\ r.plan = req[p].plan
      /\ r.draft = draft
  BY <1>1, <1>2, RequestFields DEF PlanSteps
<1>4. Replaces(p, r) /\ RowsExist(r) /\ r.pc # "alert"
  BY <1>1, <1>2, <1>3 DEF Replaces, Shape, RowsExist, PlanSteps
<1> QED
  BY <1>4, MoveKeeps

LEMMA Drafts ==
    ASSUME IInv, NEW p \in Procs, req[p].pc \in PlanSteps
    PROVE  /\ req[p] \in Request /\ req[p].draft \in Plan /\ req[p].plan \in Plans
           /\ req[p].vehicle \in Vehicles
  BY Inputs DEF Shape, PlanSteps

LEMMA ReadVehicleForPlanKeeps ==
    ASSUME IInv, NEW p \in Procs, ReadVehicleForPlan(p)
    PROVE  Kept
<1>1. req[p].pc = "planVehicle" /\ req[p].pc \in PlanSteps /\ "due" \in PlanSteps
  BY DEF ReadVehicleForPlan, PlanSteps
<1>2. /\ req[p] \in Request /\ req[p].draft \in Plan /\ req[p].plan \in Plans
      /\ req[p].vehicle \in Vehicles
  BY <1>1, Drafts
<1>3. CASE Goto(p, "due") /\ Fails(p)
  <2>1. req' = [req EXCEPT ![p] = [req[p] EXCEPT !.pc = "due", !.draft = req[p].draft]]
    BY <1>2, <1>3 DEF Goto, Become, Request
  <2> QED
    BY <1>1, <1>2, <1>3, <2>1, DraftKeeps
<1>4. CASE ~(Goto(p, "due") /\ Fails(p))
  <2>1. PICK m: m = vehicles[req[p].vehicle].mileage
    OBVIOUS
  <2>2. m \in Nat
    BY <1>2, <2>1 DEF IInv, TypeOK, Vehicle
  <2>3. /\ req' = [req EXCEPT ![p] = [req[p] EXCEPT !.pc = "due", !.draft.last["mileage"] = m]]
        /\ Reads
    BY <1>4, <2>1 DEF ReadVehicleForPlan, Become
  <2>4. PICK draft: draft = [req[p].draft EXCEPT !.last["mileage"] = m]
    OBVIOUS
  <2>5. draft \in Plan
    <3>1. [req[p].draft.last EXCEPT !["mileage"] = m] \in Meter
      BY <1>2, <2>2 DEF Plan, Meter
    <3> QED
      BY <1>2, <2>4, <3>1 DEF Plan
  <2>6. PICK pc: pc = "due"
    OBVIOUS
  <2>7. req' = [req EXCEPT ![p] = [req[p] EXCEPT !.pc = pc, !.draft = draft]]
    BY <1>2, <2>3, <2>4, <2>6, RequestFields
  <2>8. pc \in PlanSteps /\ pc # "planWrite"
    BY <1>1, <2>6
  <2> QED
    BY <1>1, <2>3, <2>5, <2>7, <2>8, DraftKeeps
<1> QED
  BY <1>3, <1>4

LEMMA NextDueIsAMeter ==
    ASSUME IInv, NEW row \in Plan, NEW mileage \in Nat
    PROVE  NextDue(row, mileage) \in Meter
<1>1. \A k \in Kinds: /\ row.interval[k] \in Nat \cup {None} /\ row.last[k] \in Nat \cup {None}
                      /\ Reading(k, mileage) \in Nat
  BY Inputs DEF Plan, Meter, Reading
<1>2. \A k \in Kinds: LastOf(row, k, mileage) \in Nat
  BY <1>1 DEF LastOf
<1>3. \A k \in Kinds: (IF row.interval[k] = None THEN None
                       ELSE LastOf(row, k, mileage) + row.interval[k]) \in Nat \cup {None}
  BY <1>1, <1>2
<1> QED
  BY <1>3 DEF NextDue, Meter

LEMMA CalculateNextDueKeeps ==
    ASSUME IInv, NEW p \in Procs, CalculateNextDue(p)
    PROVE  Kept
<1> DEFINE draft == req[p].draft
           to == IF req[p].pc = "firstDue" THEN "planInsert" ELSE "planMerge"
<1>1. req[p].pc \in PlanSteps /\ to \in PlanSteps /\ to # "planWrite"
  BY DEF CalculateNextDue, PlanSteps
<1>2. req[p] \in Request /\ draft \in Plan
  BY <1>1, Drafts
<1>3. PICK m \in Nat:
        /\ req' = [req EXCEPT ![p] = [req[p] EXCEPT !.pc = to, !.draft.next = NextDue(draft, m)]]
        /\ Reads \/ Fails(p)
  <2>1. vehicles[draft.vehicle].mileage \in Nat /\ 0 \in Nat
    BY <1>2 DEF Plan, IInv, TypeOK, Vehicle
  <2> QED
    BY <2>1 DEF CalculateNextDue, Become
<1>4. NextDue(draft, m) \in Meter
  BY <1>2, NextDueIsAMeter
<1>5. PICK new: new = [draft EXCEPT !.next = NextDue(draft, m)]
  OBVIOUS
<1>6. new \in Plan
  BY <1>2, <1>4, <1>5 DEF Plan
<1>7. req' = [req EXCEPT ![p] = [req[p] EXCEPT !.pc = to, !.draft = new]]
  BY <1>2, <1>3, <1>5, RequestFields
<1> HIDE DEF to
<1> QED
  BY <1>1, <1>3, <1>6, <1>7, DraftKeeps

\* A request is done with its draft.
LEMMA DraftDone ==
    ASSUME IInv, NEW p \in Procs, req[p].pc \in PlanSteps, NEW pc \in {"check", "resolve"},
           req' = [req EXCEPT ![p] = [req[p] EXCEPT !.pc = pc, !.draft = None]]
    PROVE  \E r: Replaces(p, r) /\ r.pc # "alert" /\ RowsExist(r)
<1>1. PICK r: r = [req[p] EXCEPT !.pc = pc, !.draft = None]
  OBVIOUS
<1>2. req[p] \in Request /\ req[p].vehicle \in Vehicles
  BY Drafts
<1>3. r \in Request /\ r.pc = pc /\ r.vehicle = req[p].vehicle
  BY <1>1, <1>2, RequestFields
<1>4. Replaces(p, r) /\ RowsExist(r) /\ r.pc # "alert"
  BY <1>1, <1>2, <1>3 DEF Replaces, Shape, RowsExist, PlanSteps
<1> QED
  BY <1>4

LEMMA PlanFailedKeeps ==
    ASSUME IInv, NEW p \in Procs, req[p].pc \in PlanSteps, PlanFailed(p), Reads \/ Fails(p)
    PROVE  Kept
<1>1. CASE Become(p, Idle)
  BY <1>1, EndKeeps
<1>2. CASE ~Become(p, Idle)
  <2>1. PICK pc \in {"check", "resolve"}:
          req' = [req EXCEPT ![p] = [req[p] EXCEPT !.pc = pc, !.draft = None]]
    BY <1>2 DEF PlanFailed, Become
  <2>2. PICK r: Replaces(p, r) /\ r.pc # "alert" /\ RowsExist(r)
    BY <2>1, DraftDone
  <2> QED
    BY <2>2, MoveKeeps
<1> QED
  BY <1>1, <1>2

\* A request writes its plan.
LEMMA PlanRowKeeps ==
    ASSUME IInv, NEW p \in Procs, req[p].pc \in PlanSteps, NEW row \in Plan,
           NEW pc \in {"check", "resolve"},
           req' = [req EXCEPT ![p] = [req[p] EXCEPT !.pc = pc, !.draft = None]],
           plans' = [plans EXCEPT ![req[p].plan] = row], Writes(p),
           UNCHANGED <<vehicles, records, active, today, blind>>
    PROVE  Kept
<1>1. PICK r: Replaces(p, r) /\ r.pc # "alert" /\ RowsExist(r)
  BY DraftDone
<1>2. Serving
  BY ServingSteps
<1>3. /\ plans' \in [Plans -> Plan \cup {None}]
      /\ \A l \in Plans: plans[l] # None => plans'[l] # None
  BY MaintenanceAssumption DEF IInv, TypeOK
<1>4. /\ vehicles' \in [Vehicles -> Vehicle] /\ records' \in [Records -> Record \cup {None}]
      /\ active' \in [Pairs -> Nat] /\ \A c \in Pairs: active'[c] <= active[c]
      /\ \A x \in Records: records[x] # None => records'[x] # None
  BY DEF IInv, TypeOK, Pairs
<1> QED
  BY <1>1, <1>2, <1>3, <1>4, CalmKeeps

LEMMA InsertPlanKeeps ==
    ASSUME IInv, NEW p \in Procs, InsertPlan(p)
    PROVE  Kept
<1>1. CASE Become(p, Idle) /\ (Reads \/ Fails(p))
  BY <1>1, EndKeeps
<1>2. CASE ~(Become(p, Idle) /\ (Reads \/ Fails(p)))
  <2>1. req[p].pc \in PlanSteps /\ req[p].draft \in Plan
    BY Drafts DEF InsertPlan, PlanSteps
  <2>2. PICK pc \in {"check", "resolve"}:
          req' = [req EXCEPT ![p] = [req[p] EXCEPT !.pc = pc, !.draft = None]]
    BY <1>2 DEF InsertPlan, Become
  <2>3. /\ plans' = [plans EXCEPT ![req[p].plan] = req[p].draft] /\ Writes(p)
        /\ UNCHANGED <<vehicles, records, active, today, blind>>
    BY <1>2 DEF InsertPlan
  <2> QED
    BY <2>1, <2>2, <2>3, PlanRowKeeps
<1> QED
  BY <1>1, <1>2

LEMMA MergePlanKeeps ==
    ASSUME IInv, NEW p \in Procs, MergePlan(p)
    PROVE  Kept
<1>1. req[p].pc \in PlanSteps /\ req[p].draft \in Plan /\ req[p].plan \in Plans /\ req[p] \in Request
  BY Drafts DEF MergePlan, PlanSteps
<1>2. CASE PlanFailed(p) /\ (Reads \/ Fails(p))
  BY <1>1, <1>2, PlanFailedKeeps
<1>3. CASE ~(PlanFailed(p) /\ (Reads \/ Fails(p)))
  <2>1. PICK row: row = plans[req[p].plan]
    OBVIOUS
  <2>2. PICK draft: draft = PlanMerged(row, req[p].draft)
    OBVIOUS
  <2>3. /\ Live(row) /\ Reads
        /\ req' = [req EXCEPT ![p] = [req[p] EXCEPT !.pc = "planWrite", !.draft = draft]]
    BY <1>1, <1>3, <2>1, <2>2 DEF MergePlan, Become, Request
  <2>4. row \in Plan /\ row # None
    BY <1>1, <2>1, <2>3 DEF IInv, TypeOK, Live
  <2>5. draft \in Plan
    <3>1. /\ MergedMeter(req[p].draft.interval, row.interval) \in Meter
          /\ MergedMeter(req[p].draft.last, row.last) \in Meter
          /\ MergedMeter(req[p].draft.next, row.next) \in Meter
      BY <1>1, <2>4, MergedMeters DEF Plan
    <3> QED
      BY <2>2, <2>4, <3>1 DEF PlanMerged, Plan
  <2>6. PICK pc: pc = "planWrite"
    OBVIOUS
  <2>7. /\ pc \in PlanSteps
        /\ req' = [req EXCEPT ![p] = [req[p] EXCEPT !.pc = pc, !.draft = draft]]
    BY <2>3, <2>6 DEF PlanSteps
  <2> QED
    BY <1>1, <2>1, <2>3, <2>4, <2>5, <2>7, DraftKeeps
<1> QED
  BY <1>2, <1>3

LEMMA WritePlanKeeps ==
    ASSUME IInv, NEW p \in Procs, WritePlan(p)
    PROVE  Kept
<1>1. /\ req[p].pc \in PlanSteps /\ req[p].pc = "planWrite"
      /\ req[p].draft \in Plan /\ req[p].plan \in Plans
  BY Drafts DEF WritePlan, PlanSteps
<1>2. CASE PlanFailed(p) /\ Fails(p)
  BY <1>1, <1>2, PlanFailedKeeps
<1>3. CASE ~(PlanFailed(p) /\ Fails(p))
  <2>1. PICK row: row = [req[p].draft EXCEPT !.live = plans[req[p].plan].live]
    OBVIOUS
  <2>2. /\ plans' = [plans EXCEPT ![req[p].plan] = row] /\ Writes(p)
        /\ UNCHANGED <<vehicles, records, active, today, blind>>
    BY <1>3, <2>1 DEF WritePlan
  <2>3. PICK pc \in {"check", "resolve"}:
          req' = [req EXCEPT ![p] = [req[p] EXCEPT !.pc = pc, !.draft = None]]
    <3>1. PICK pc: pc = IF req[p].work = None THEN "check" ELSE "resolve"
      OBVIOUS
    <3>2. req' = [req EXCEPT ![p] = [req[p] EXCEPT !.draft = None, !.pc = pc]]
      BY <1>3, <3>1 DEF WritePlan, Become
    <3>3. req[p] \in Request
      BY <1>1, Drafts
    <3>4. [req[p] EXCEPT !.draft = None, !.pc = pc] = [req[p] EXCEPT !.pc = pc, !.draft = None]
      BY <3>3, RequestFields
    <3> QED
      BY <3>1, <3>2, <3>4
  <2>4. plans[req[p].plan] \in Plan
    BY <1>1 DEF IInv, TypeOK, RowsAreThere, RowsExist
  <2>5. row \in Plan
    BY <1>1, <2>1, <2>4 DEF Plan
  <2> QED
    BY <1>1, <2>2, <2>3, <2>5, PlanRowKeeps
<1> QED
  BY <1>2, <1>3

LEMMA DeletePlanKeeps ==
    ASSUME IInv, NEW p \in Procs, NEW l \in Plans, DeletePlan(p, l)
    PROVE  Kept
<1>1. /\ req[p].pc = "idle" /\ Live(plans[l]) /\ BeginsWriting(p)
      /\ plans' = [plans EXCEPT ![l].live = FALSE]
      /\ UNCHANGED <<vehicles, records, active, req, blind>>
  BY DEF DeletePlan, BeginsWriting, Begin
<1>2. plans[l] \in Plan
  BY <1>1 DEF IInv, TypeOK, Live
<1>3. [plans[l] EXCEPT !.live = FALSE] \in Plan
  BY <1>2 DEF Plan
<1>4. /\ plans' \in [Plans -> Plan \cup {None}]
      /\ \A m \in Plans: plans[m] # None => plans'[m] # None
  BY <1>1, <1>3, MaintenanceAssumption DEF IInv, TypeOK
<1>5. PICK r: r = req[p]
  OBVIOUS
<1>6. Replaces(p, r) /\ r.pc = "idle" /\ RowsExist(r)
  BY <1>1, <1>5, Inputs DEF Replaces, RowsExist, IInv, TypeOK
<1>7. Serving
  BY <1>1, ServingSteps
<1>8. /\ vehicles' \in [Vehicles -> Vehicle] /\ records' \in [Records -> Record \cup {None}]
      /\ active' \in [Pairs -> Nat] /\ \A c \in Pairs: active'[c] <= active[c]
      /\ \A x \in Records: records[x] # None => records'[x] # None
  BY <1>1 DEF IInv, TypeOK, Pairs
<1> QED
  BY <1>1, <1>4, <1>6, <1>7, <1>8, CalmKeeps

-------------------------------------------------------------------------------
(* Alerts *)

\* A step that resolves alerts.
LEMMA ResolvingKeeps ==
    ASSUME IInv, NEW p \in Procs, NEW r, Replaces(p, r), r.pc # "alert", RowsExist(r), Serving,
           active' \in [Pairs -> Nat], \A c \in Pairs: active'[c] <= active[c],
           UNCHANGED <<vehicles, records, plans, blind>>
    PROVE  Kept
<1>1. /\ vehicles' \in [Vehicles -> Vehicle] /\ records' \in [Records -> Record \cup {None}]
      /\ plans' \in [Plans -> Plan \cup {None}]
      /\ \A x \in Records: records[x] # None => records'[x] # None
      /\ \A l \in Plans: plans[l] # None => plans'[l] # None
  BY DEF IInv, TypeOK
<1> QED
  BY <1>1, CalmKeeps

LEMMA ResolvePlanKeeps ==
    ASSUME IInv, NEW p \in Procs, ResolvePlan(p)
    PROVE  Kept
<1>1. req[p].pc # "idle" /\ Goto(p, "check")
  BY DEF ResolvePlan
<1>2. CASE Fails(p)
  BY <1>1, <1>2, GoingToCheck
<1>3. CASE ~Fails(p)
  <2>1. /\ active' = ResolvedByPlan(req[p].plan) /\ Writes(p)
        /\ UNCHANGED <<vehicles, records, plans, today, blind>>
    BY <1>3 DEF ResolvePlan
  <2>2. active \in [Pairs -> Nat]
    BY DEF IInv, TypeOK, Pairs
  <2>3. active' \in [Pairs -> Nat] /\ \A c \in Pairs: active'[c] <= active[c]
    BY <2>1, <2>2 DEF ResolvedByPlan, Pairs
  <2>4. PICK r: Replaces(p, r) /\ r.pc = "check"
    BY <1>1, GotoCheck
  <2>5. RowsExist(r) /\ r.pc # "alert"
    BY <2>4 DEF RowsExist
  <2>6. Serving
    BY <2>1, ServingSteps
  <2> QED
    BY <2>1, <2>3, <2>4, <2>5, <2>6, ResolvingKeeps
<1> QED
  BY <1>2, <1>3

LEMMA ResolveAlertKeeps ==
    ASSUME IInv, NEW p \in Procs, NEW c \in Pairs, ResolveAlert(p, c)
    PROVE  Kept
<1>1. /\ req[p].pc = "idle" /\ active[c] > 0 /\ BeginsWriting(p)
      /\ active' = [active EXCEPT ![c] = @ - 1]
      /\ UNCHANGED <<vehicles, records, plans, req, blind>>
  BY DEF ResolveAlert, BeginsWriting, Begin
<1>2. active \in [Pairs -> Nat]
  BY DEF IInv, TypeOK, Pairs
<1>3. active' \in [Pairs -> Nat] /\ \A e \in Pairs: active'[e] <= active[e]
  BY <1>1, <1>2
<1>4. PICK r: r = req[p]
  OBVIOUS
<1>5. Replaces(p, r) /\ r.pc = "idle" /\ RowsExist(r)
  BY <1>1, <1>4, Inputs DEF Replaces, RowsExist, IInv, TypeOK
<1>6. Serving
  BY <1>1, ServingSteps
<1> QED
  BY <1>1, <1>3, <1>5, <1>6, ResolvingKeeps

LEMMA CheckVehicleKeeps ==
    ASSUME IInv, NEW p \in Procs, CheckVehicle(p)
    PROVE  Kept
<1>1. CASE Become(p, Idle) /\ Fails(p)
  BY <1>1, EndKeeps
<1>2. CASE ~(Become(p, Idle) /\ Fails(p))
  <2>1. PICK m: m = vehicles[req[p].vehicle].mileage
    OBVIOUS
  <2>2. PICK r: r = [req[p] EXCEPT !.pc = "plans", !.seen = m]
    OBVIOUS
  <2>3. req[p].pc = "check" /\ req' = [req EXCEPT ![p] = r] /\ Reads
    BY <1>2, <2>1, <2>2 DEF CheckVehicle, Become
  <2>4. req[p] \in Request /\ req[p].vehicle \in Vehicles
    BY <2>3, Inputs DEF Shape
  <2>5. m \in Nat
    BY <2>1, <2>4 DEF IInv, TypeOK, Vehicle
  <2>6. r \in Request /\ r.pc = "plans" /\ r.vehicle = req[p].vehicle
    BY <2>2, <2>4, <2>5, RequestFields
  <2>7. Replaces(p, r) /\ RowsExist(r)
    BY <2>3, <2>4, <2>6 DEF Replaces, Shape, RowsExist, PlanSteps
  <2> QED
    BY <2>3, <2>6, <2>7, MoveKeeps
<1> QED
  BY <1>1, <1>2

LEMMA ProbingIsCalm ==
    ASSUME IInv, NEW p \in Procs, req[p].pc \in {"plans", "probe", "alert"},
           NEW todo \in SUBSET Pairs, Probing(p, todo)
    PROVE  \E r: Replaces(p, r) /\ r.pc # "alert" /\ RowsExist(r)
<1>1. CASE todo = {}
  BY <1>1, IdleShape DEF Probing, Become, Replaces, RowsExist
<1>2. CASE todo # {}
  <2>1. PICK r: r = [req[p] EXCEPT !.pc = "probe", !.todo = todo, !.pair = None]
    OBVIOUS
  <2>2. req' = [req EXCEPT ![p] = r]
    BY <1>2, <2>1 DEF Probing, Become
  <2>3. req[p] \in Request /\ req[p].vehicle \in Vehicles
    BY Inputs DEF Shape
  <2>4. r \in Request /\ r.pc = "probe" /\ r.vehicle = req[p].vehicle
    <3>1. PICK s: s = [req[p] EXCEPT !.pc = "probe", !.todo = todo]
      OBVIOUS
    <3>2. s \in Request /\ s.pc = "probe" /\ s.vehicle = req[p].vehicle
      BY <2>3, <3>1, RequestFields
    <3>3. r = [s EXCEPT !.pair = None]
      BY <2>1, <2>3, <3>1, RequestFields
    <3> QED
      BY <3>2, <3>3, RequestFields
  <2>5. Replaces(p, r) /\ RowsExist(r) /\ r.pc # "alert"
    BY <2>2, <2>3, <2>4 DEF Replaces, Shape, RowsExist, PlanSteps
  <2> QED
    BY <2>5
<1> QED
  BY <1>1, <1>2

LEMMA ListPlansKeeps ==
    ASSUME IInv, NEW p \in Procs, ListPlans(p)
    PROVE  Kept
<1>1. CASE Become(p, Idle) /\ Fails(p)
  BY <1>1, EndKeeps
<1>2. CASE ~(Become(p, Idle) /\ Fails(p))
  <2>1. PICK todo: todo = DueOf(req[p].vehicle, req[p].seen)
    OBVIOUS
  <2>2. todo \in SUBSET Pairs
    BY <2>1 DEF DueOf, Pairs
  <2>3. req[p].pc = "plans" /\ Probing(p, todo) /\ Reads
    BY <1>2, <2>1 DEF ListPlans
  <2>4. PICK r: Replaces(p, r) /\ r.pc # "alert" /\ RowsExist(r)
    BY <2>2, <2>3, ProbingIsCalm
  <2> QED
    BY <2>3, <2>4, MoveKeeps
<1> QED
  BY <1>1, <1>2

\* An evaluation that finds no alert is about to create one.
LEMMA ProbeKeeps ==
    ASSUME IInv, NEW p \in Procs, NEW c \in Pairs, Probe(p, c)
    PROVE  Kept
<1>1. req[p].pc = "probe" /\ req[p] \in Request /\ req[p].vehicle \in Vehicles
  BY Inputs DEF Probe, Shape
<1>2. PICK todo: todo = req[p].todo \ {c}
  OBVIOUS
<1>3. todo \in SUBSET Pairs
  BY <1>1, <1>2, RequestFields
<1>4. PICK r: r = [req[p] EXCEPT !.pc = "alert", !.todo = todo, !.pair = c]
  OBVIOUS
<1>5. CASE Probing(p, todo) /\ Reads
  <2>1. PICK s: Replaces(p, s) /\ s.pc # "alert" /\ RowsExist(s)
    BY <1>1, <1>3, <1>5, ProbingIsCalm
  <2> QED
    BY <1>5, <2>1, MoveKeeps
<1>6. CASE ~(Probing(p, todo) /\ Reads)
  <2>1. req' = [req EXCEPT ![p] = r]
    BY <1>1, <1>2, <1>4, <1>6 DEF Probe, Become, Request
  <2>2. \/ Reads /\ ~HasActive(c)
        \/ Fault(p) /\ blind' = blind \cup {c}
    BY <1>2, <1>6 DEF Probe
  <2>3. UNCHANGED <<vehicles, records, plans, active>> /\ blind \subseteq blind'
    BY <2>2 DEF Reads, Fault
  <2>4. c \in blind' \/ active[c] = 0
    BY <2>2 DEF HasActive, IInv, TypeOK, Pairs
  <2>5. r \in Request /\ r.pc = "alert" /\ r.vehicle = req[p].vehicle /\ r.pair = c
    <3>1. PICK s: s = [req[p] EXCEPT !.pc = "alert", !.todo = todo]
      OBVIOUS
    <3>2. s \in Request /\ s.pc = "alert" /\ s.vehicle = req[p].vehicle
      BY <1>1, <1>3, <3>1, RequestFields
    <3>3. r = [s EXCEPT !.pair = c]
      BY <1>1, <1>4, <3>1, RequestFields
    <3>4. c \in Pairs \cup {None}
      OBVIOUS
    <3> QED
      BY <3>2, <3>3, <3>4, RequestFields
  <2>6. Replaces(p, r) /\ RowsExist(r)
    BY <1>1, <2>1, <2>5 DEF Replaces, Shape, RowsExist, PlanSteps
  <2>7. /\ req' \in [Procs -> Request] /\ RequestsHaveShape'
        /\ req'[p] = r /\ \A q \in Procs: q # p => req'[q] = req[q]
    BY <2>6, Replacing
  <2>8. TypeOK'
    <3>1. Serving
      BY <2>2, ServingSteps
    <3>2. blind' \subseteq Pairs
      BY <2>2 DEF IInv, TypeOK, Pairs, Reads
    <3> QED
      BY <2>3, <2>7, <3>1, <3>2 DEF IInv, TypeOK, Serving, Pairs
  <2>9. RowsAreThere'
    BY <2>3, <2>6, RowsStay
  <2>10. RisesFromZero
    <3> SUFFICES ASSUME NEW e \in Pairs \ blind'
                 PROVE  e \notin blind /\ (Count(e)' <= Count(e) \/ active[e] = 0)
      BY <2>3 DEF RisesFromZero
    <3>1. CASE e = c
      BY <2>3, <2>4, <3>1
    <3>2. CASE e # c
      <4>1. Alerting(e)' = Alerting(e)
        BY <1>1, <2>5, <2>7, <3>2 DEF Alerting
      <4>2. Count(e)' = Count(e) /\ Count(e) \in Nat
        BY <2>3, <4>1, AlertingIsCounted DEF Count, IInv, TypeOK, Pairs
      <4> QED
        BY <2>3, <4>2
    <3> QED
      BY <3>1, <3>2
  <2> QED
    BY <2>7, <2>8, <2>9, <2>10 DEF IInv, Kept
<1> QED
  BY <1>5, <1>6

LEMMA CreateAlertKeeps ==
    ASSUME IInv, NEW p \in Procs, CreateAlert(p)
    PROVE  Kept
<1>1. PICK c \in Pairs: req[p].pc = "alert" /\ req[p].pair = c
  BY Inputs DEF CreateAlert, Shape
<1>2. req[p].todo \in SUBSET Pairs /\ Probing(p, req[p].todo)
  BY <1>1, Inputs, RequestFields DEF CreateAlert, Shape
<1>3. PICK r: Replaces(p, r) /\ r.pc # "alert" /\ RowsExist(r)
  BY <1>1, <1>2, ProbingIsCalm
<1>4. CASE Fails(p)
  BY <1>3, <1>4, MoveKeeps
<1>5. CASE ~Fails(p)
  <2>1. /\ active' = [active EXCEPT ![c] = @ + 1] /\ Writes(p)
        /\ UNCHANGED <<vehicles, records, plans, today, blind>>
    BY <1>1, <1>5 DEF CreateAlert
  <2>2. /\ active \in [Pairs -> Nat] /\ active' \in [Pairs -> Nat]
        /\ active'[c] = active[c] + 1 /\ \A e \in Pairs: e # c => active'[e] = active[e]
    BY <2>1 DEF IInv, TypeOK, Pairs
  <2>3. Serving
    BY <2>1, ServingSteps
  <2>4. /\ req' \in [Procs -> Request] /\ RequestsHaveShape'
        /\ req'[p] = r /\ \A q \in Procs: q # p => req'[q] = req[q]
    BY <1>3, Replacing
  <2>5. TypeOK'
    BY <2>1, <2>2, <2>3, <2>4 DEF IInv, TypeOK, Serving, Pairs
  <2>6. RowsAreThere'
    BY <1>3, <2>1, RowsStay
  <2>7. RisesFromZero
    <3> SUFFICES ASSUME NEW e \in Pairs \ blind PROVE Count(e)' <= Count(e)
      BY <2>1 DEF RisesFromZero
    <3>1. CASE e = c
      <4>1. Alerting(e)' = Alerting(e) \ {p} /\ p \in Alerting(e)
        BY <1>1, <1>3, <2>4, <3>1 DEF Alerting
      <4>2. Cardinality(Alerting(e)') = Cardinality(Alerting(e)) - 1
        BY <4>1, AlertingIsCounted, FS_RemoveElement
      <4> QED
        BY <2>2, <3>1, <4>2, AlertingIsCounted DEF Count
    <3>2. CASE e # c
      <4>1. Alerting(e)' = Alerting(e)
        BY <1>1, <1>3, <2>4, <3>2 DEF Alerting
      <4> QED
        BY <2>2, <3>2, <4>1, AlertingIsCounted DEF Count
    <3> QED
      BY <3>1, <3>2
  <2> QED
    BY <2>4, <2>5, <2>6, <2>7 DEF IInv, Kept
<1> QED
  BY <1>4, <1>5

-------------------------------------------------------------------------------
(* Every step *)

LEMMA TickKeeps ==
    ASSUME IInv, Tick \/ UNCHANGED vars
    PROVE  Kept
<1>1. UNCHANGED <<vehicles, records, plans, active, begun, faults, req, blind>>
  BY DEF Tick, vars
<1>2. today' \in Nat /\ alone' \in [Procs -> BOOLEAN]
  <2>1. CASE UNCHANGED vars
    BY <2>1 DEF vars, IInv, TypeOK
  <2>2. CASE Tick
    <3>1. today' = today + 1 /\ alone' = [p \in Procs |-> FALSE]
      BY <2>2 DEF Tick
    <3>2. alone' \in [Procs -> BOOLEAN]
      BY <3>1
    <3> QED
      BY <3>1, <3>2, Inputs
  <2> QED
    BY <2>1, <2>2
<1>3. TypeOK'
  BY <1>1, <1>2 DEF IInv, TypeOK
<1>4. RequestsHaveShape' /\ RowsAreThere'
  BY <1>1 DEF IInv, RequestsHaveShape, RowsAreThere, RowsExist
<1>5. ASSUME NEW c \in Pairs PROVE Count(c)' = Count(c) /\ Count(c) \in Nat
  <2>1. Alerting(c)' = Alerting(c)
    BY <1>1 DEF Alerting
  <2>2. active[c] \in Nat /\ active'[c] = active[c]
    BY <1>1 DEF IInv, TypeOK, Pairs
  <2> QED
    BY <2>1, <2>2, AlertingIsCounted DEF Count
<1>6. RisesFromZero
  BY <1>1, <1>5 DEF RisesFromZero
<1> QED
  BY <1>3, <1>4, <1>6 DEF IInv, Kept

LEMMA NextKeeps ==
    ASSUME IInv, [Next]_vars
    PROVE  Kept
<1>1. ASSUME NEW p \in Procs, Step(p) PROVE Kept
  <2>1. ASSUME NEW x \in Records, NEW i \in RecordInputs,
               CreateMaintenance(p, x, i) \/ ReadMaintenance(p, x, i)
        PROVE  Kept
    BY <2>1, CreateMaintenanceKeeps, ReadMaintenanceKeeps
  <2>2. ASSUME NEW x \in Records, DeleteMaintenance(p, x) PROVE Kept
    BY <2>2, DeleteMaintenanceKeeps
  <2>3. ASSUME NEW v \in Vehicles, NEW i \in VehicleInputs, BeginUpdateVehicle(p, v, i)
        PROVE  Kept
    BY <2>3, BeginUpdateVehicleKeeps
  <2>4. ASSUME NEW l \in Plans, NEW i \in PlanInputs,
               BeginCreatePlan(p, l, i) \/ BeginUpdatePlan(p, l, i)
        PROVE  Kept
    BY <2>4, BeginCreatePlanKeeps, BeginUpdatePlanKeeps
  <2>5. ASSUME NEW l \in Plans, DeletePlan(p, l) PROVE Kept
    BY <2>5, DeletePlanKeeps
  <2>6. ASSUME NEW c \in Pairs, ResolveAlert(p, c) \/ Probe(p, c) PROVE Kept
    BY <2>6, ResolveAlertKeeps, ProbeKeeps
  <2>7. CASE UpdateMaintenance(p)
    BY <2>7, UpdateMaintenanceKeeps
  <2>8. CASE ReadVehicle(p) \/ MergeVehicle(p) \/ WriteVehicle(p)
    BY <2>8, ReadVehicleKeeps, MergeVehicleKeeps, WriteVehicleKeeps
  <2>9. CASE ReadPlan(p) \/ ReadVehicleForPlan(p) \/ CalculateNextDue(p)
    BY <2>9, ReadPlanKeeps, ReadVehicleForPlanKeeps, CalculateNextDueKeeps
  <2>10. CASE InsertPlan(p) \/ MergePlan(p) \/ WritePlan(p)
    BY <2>10, InsertPlanKeeps, MergePlanKeeps, WritePlanKeeps
  <2>11. CASE ResolvePlan(p) \/ CheckVehicle(p) \/ ListPlans(p) \/ CreateAlert(p)
    BY <2>11, ResolvePlanKeeps, CheckVehicleKeeps, ListPlansKeeps, CreateAlertKeeps
  <2> QED
    BY <1>1, <2>1, <2>2, <2>3, <2>4, <2>5, <2>6, <2>7, <2>8, <2>9, <2>10, <2>11
       DEF Step, Pairs
<1>2. CASE Tick \/ UNCHANGED vars
  BY <1>2, TickKeeps
<1> QED
  BY <1>1, <1>2 DEF Next, Served

LEMMA NextIInv == IInv /\ [Next]_vars => IInv'
  BY NextKeeps DEF Kept

-------------------------------------------------------------------------------
(* What an undisturbed request knows.  As long as no other request has     *)
(* written and none of its statements has failed, what it has read still   *)
(* holds of the tables it is about to write.                               *)

\* DueOf of given tables on a given day.
DueAt(ps, day, v, mileage) ==
    {c \in Pairs: /\ Live(ps[c[1]]) /\ ps[c[1]].vehicle = v
                  /\ ps[c[1]].next[c[2]] # None
                  /\ ps[c[1]].next[c[2]] <= (IF c[2] = "mileage" THEN mileage ELSE day) + Notice}

\* What is due is alerted or about to be, and nothing else is.
Probed(r, due, ac) ==
    /\ \A c \in due: c \in r.todo \/ (r.pc = "alert" /\ c = r.pair) \/ ac[c] > 0
    /\ r.todo \subseteq due
    /\ r.pc = "alert" => r.pair \in due /\ ac[r.pair] = 0
    /\ r.work # None => \A c \in Pairs: c[1] = r.plan /\ ac[c] > 0 => c \in due

\* A draft has what the row has, and perhaps more.
Covers(draft, row) ==
    \A k \in Kinds: /\ draft.interval[k] = None => row.interval[k] = None
                    /\ draft.last[k] = None => row.last[k] = None

Knows(r, vs, ps, ac, day) ==
    /\ r.pc \in {"recordWrite", "effects", "vehicleMerge", "vehicleWrite", "plan"} => r.plan = None
    /\ r.pc \in {"firstDue", "planInsert"} => r.work = None
    /\ r.pc = "vehicleMerge" /\ r.work # None
         => r.car.mileage = 0 \/ r.car.mileage >= vs[r.vehicle].mileage
    /\ r.pc = "vehicleWrite" /\ r.work # None => r.car.mileage >= vs[r.vehicle].mileage
    /\ r.pc \in {"planVehicle", "due", "planMerge"} => Covers(r.draft, ps[r.plan])
    /\ r.pc \in {"planMerge", "planWrite"} => Consistent(r.draft)
    /\ r.pc = "planMerge" => \A k \in Kinds: r.draft.interval[k] # None => r.draft.next[k] # None
    /\ r.pc \in {"check", "plans"} /\ r.work # None => \A c \in Pairs: c[1] = r.plan => ac[c] = 0
    /\ r.pc = "plans" => r.seen = vs[r.vehicle].mileage
    /\ r.pc \in {"probe", "alert"}
         => Probed(r, DueAt(ps, day, r.vehicle, vs[r.vehicle].mileage), ac)

\* A plan has a due point only by what it has an interval for.
Sound(row) == \A k \in Kinds: row.interval[k] = None => row.next[k] = None

RowsSound(ps) == \A l \in Plans: ps[l] # None => Sound(ps[l])

DraftSound(r) == r.pc \in {"planInsert", "planMerge", "planWrite"} => Sound(r.draft)

HInv ==
    /\ RowsSound(plans)
    /\ \A p \in Procs: DraftSound(req[p])
    /\ \A p \in Procs: alone[p] => Knows(req[p], vehicles, plans, active, today)

\* Another request that is still undisturbed has seen nothing change.
Others(p) ==
    \A q \in Procs: q # p /\ alone'[q] => alone[q] /\ UNCHANGED <<vehicles, plans, active, today>>

LEMMA OthersSteps ==
    ASSUME IInv, NEW p \in Procs,
           BeginsReading(p) \/ BeginsWriting(p) \/ Reads \/ Fault(p) \/ Writes(p)
    PROVE  Others(p)
<1>1. alone \in [Procs -> BOOLEAN]
  BY DEF IInv, TypeOK
<1>2. CASE BeginsWriting(p) \/ Writes(p)
  <2>1. \A q \in Procs: q # p => ~alone'[q]
    BY <1>2 DEF BeginsWriting, Writes
  <2> QED
    BY <2>1 DEF Others
<1>3. CASE BeginsReading(p) \/ Reads \/ Fault(p)
  <2>1. UNCHANGED <<vehicles, plans, active, today>>
    BY <1>3 DEF BeginsReading, Reads, Fault
  <2>2. \A q \in Procs: q # p => alone'[q] = alone[q]
    BY <1>1, <1>3 DEF BeginsReading, Reads, Fault
  <2> QED
    BY <2>1, <2>2 DEF Others
<1> QED
  BY <1>2, <1>3

LEMMA HistoryFrame ==
    ASSUME IInv, HInv, NEW p \in Procs, NEW r, Replaces(p, r), Others(p),
           RowsSound(plans'), DraftSound(r),
           alone'[p] => Knows(r, vehicles', plans', active', today')
    PROVE  HInv'
<1>1. req'[p] = r /\ \A q \in Procs: q # p => req'[q] = req[q]
  BY Replacing
<1>2. \A q \in Procs: DraftSound(req'[q])
  BY <1>1 DEF HInv
<1>3. ASSUME NEW q \in Procs, alone'[q]
      PROVE  Knows(req'[q], vehicles', plans', active', today')
  <2>1. CASE q = p
    BY <1>1, <1>3, <2>1
  <2>2. CASE q # p
    BY <1>1, <1>3, <2>2 DEF HInv, Others
  <2> QED
    BY <2>1, <2>2
<1>4. RowsSound(plans)' /\ \A q \in Procs: DraftSound(req[q])'
  BY <1>2 DEF RowsSound, DraftSound
<1>5. \A q \in Procs: alone[q]' => Knows(req[q], vehicles, plans, active, today)'
  BY <1>3 DEF Knows
<1> QED
  BY <1>4, <1>5 DEF HInv

\* A statement that reads.
LEMMA HistoryMove ==
    ASSUME IInv, HInv, NEW p \in Procs, NEW r, Replaces(p, r), Reads \/ BeginsReading(p),
           DraftSound(r), alone'[p] => Knows(r, vehicles, plans, active, today)
    PROVE  HInv'
<1>1. UNCHANGED <<vehicles, plans, active, today>>
  BY DEF Reads, BeginsReading
<1>2. Others(p) /\ RowsSound(plans')
  BY <1>1, OthersSteps DEF HInv
<1> QED
  BY <1>1, <1>2, HistoryFrame

\* A statement that fails.
LEMMA HistoryFault ==
    ASSUME IInv, HInv, NEW p \in Procs, NEW r, Replaces(p, r), Fault(p), DraftSound(r)
    PROVE  HInv'
<1>1. UNCHANGED plans /\ ~alone'[p]
  BY DEF Fault, IInv, TypeOK
<1>2. Others(p) /\ RowsSound(plans')
  BY <1>1, OthersSteps DEF HInv
<1> QED
  BY <1>1, <1>2, HistoryFrame

LEMMA IdleKnows ==
    ASSUME NEW r, r.pc = "idle"
    PROVE  /\ DraftSound(r)
           /\ \A vs, ps, ac, day: Knows(r, vs, ps, ac, day)
  BY DEF DraftSound, Knows

LEMMA EndKnows ==
    ASSUME IInv, HInv, NEW p \in Procs, Become(p, Idle), Reads \/ Fails(p)
    PROVE  HInv'
<1>1. Replaces(p, Idle) /\ Idle.pc = "idle"
  BY IdleShape DEF Become, Replaces
<1> QED
  BY <1>1, IdleKnows, HistoryMove, HistoryFault DEF Fails

LEMMA RecordsKnow ==
    ASSUME IInv, HInv, NEW p \in Procs,
           \/ \E x \in Records, i \in RecordInputs:
                 CreateMaintenance(p, x, i) \/ ReadMaintenance(p, x, i)
           \/ \E x \in Records: DeleteMaintenance(p, x)
           \/ \E l \in Plans: DeletePlan(p, l)
           \/ \E c \in Pairs: ResolveAlert(p, c)
    PROVE  HInv'
<1>1. ASSUME NEW x \in Records, NEW i \in RecordInputs, CreateMaintenance(p, x, i)
      PROVE  HInv'
  <2>1. PICK r: r = [Idle EXCEPT !.pc = "effects", !.vehicle = i.vehicle, !.work = RecordOf(i)]
    OBVIOUS
  <2>2. r.pc = "effects" /\ r.plan = None
    BY <2>1 DEF Idle
  <2>3. req' = [req EXCEPT ![p] = r] /\ BeginsWriting(p) /\ UNCHANGED plans
    BY <1>1, <2>1 DEF CreateMaintenance, Become
  <2>4. IInv'
    BY <1>1, CreateMaintenanceKeeps DEF Kept
  <2>5. req'[p] = r /\ Shape(r)
    BY <2>3, <2>4, Inputs DEF IInv, TypeOK, RequestsHaveShape, Shape
  <2>6. Replaces(p, r) /\ Others(p) /\ RowsSound(plans')
    BY <2>3, <2>5, OthersSteps DEF Replaces, HInv
  <2>7. DraftSound(r) /\ \A vs, ps, ac, day: Knows(r, vs, ps, ac, day)
    BY <2>2 DEF DraftSound, Knows
  <2> QED
    BY <2>6, <2>7, HistoryFrame
<1>2. ASSUME NEW x \in Records, NEW i \in RecordInputs, ReadMaintenance(p, x, i)
      PROVE  HInv'
  <2>1. PICK row: row = RecordMerged(records[x], i)
    OBVIOUS
  <2>2. PICK r: r = [Idle EXCEPT !.pc = "recordWrite", !.vehicle = row.vehicle,
                                 !.rec = x, !.work = row]
    OBVIOUS
  <2>3. r.pc = "recordWrite" /\ r.plan = None
    BY <2>2 DEF Idle
  <2>4. req' = [req EXCEPT ![p] = r] /\ BeginsReading(p)
    BY <1>2, <2>1, <2>2 DEF ReadMaintenance, Become
  <2>5. IInv'
    BY <1>2, ReadMaintenanceKeeps DEF Kept
  <2>6. req'[p] = r /\ Shape(r)
    BY <2>4, <2>5, Inputs DEF IInv, TypeOK, RequestsHaveShape, Shape
  <2>7. Replaces(p, r)
    BY <2>4, <2>6 DEF Replaces
  <2>8. DraftSound(r) /\ \A vs, ps, ac, day: Knows(r, vs, ps, ac, day)
    BY <2>3 DEF DraftSound, Knows
  <2> QED
    BY <2>4, <2>7, <2>8, HistoryMove
<1>3. PICK r: r = req[p]
  OBVIOUS
<1>4. ASSUME req' = req, BeginsWriting(p), RowsSound(plans') PROVE HInv'
  <2>1. r.pc = "idle" /\ Replaces(p, r)
    BY <1>3, <1>4, Inputs DEF BeginsWriting, Begin, Replaces, IInv, TypeOK
  <2> QED
    BY <1>4, <2>1, IdleKnows, OthersSteps, HistoryFrame
<1>5. ASSUME NEW x \in Records, DeleteMaintenance(p, x) PROVE HInv'
  BY <1>4, <1>5 DEF DeleteMaintenance, HInv
<1>6. ASSUME NEW c \in Pairs, ResolveAlert(p, c) PROVE HInv'
  BY <1>4, <1>6 DEF ResolveAlert, HInv
<1>7. ASSUME NEW l \in Plans, DeletePlan(p, l) PROVE HInv'
  <2>1. plans[l] \in Plan /\ plans' = [plans EXCEPT ![l].live = FALSE]
    BY <1>7 DEF DeletePlan, Live, IInv, TypeOK
  <2>2. /\ plans'[l].interval = plans[l].interval /\ plans'[l].next = plans[l].next
        /\ \A m \in Plans: m # l => plans'[m] = plans[m]
    BY <2>1 DEF IInv, TypeOK, Plan
  <2>3. plans[l] # None
    BY <1>7 DEF DeletePlan, Live
  <2>4. RowsSound(plans')
    <3> SUFFICES ASSUME NEW m \in Plans, plans'[m] # None PROVE Sound(plans'[m])
      BY DEF RowsSound
    <3>1. plans[m] # None => Sound(plans[m])
      BY DEF HInv, RowsSound
    <3> QED
      BY <2>2, <2>3, <3>1 DEF Sound
  <2> QED
    BY <1>4, <1>7, <2>4 DEF DeletePlan
<1> QED
  BY <1>1, <1>2, <1>5, <1>6, <1>7

LEMMA UpdateMaintenanceKnows ==
    ASSUME IInv, HInv, NEW p \in Procs, UpdateMaintenance(p)
    PROVE  HInv'
<1>1. CASE Become(p, Idle) /\ Fails(p)
  BY <1>1, EndKnows
<1>2. CASE ~(Become(p, Idle) /\ Fails(p))
  <2>1. PICK r: r = [req[p] EXCEPT !.pc = "effects", !.rec = None]
    OBVIOUS
  <2>2. /\ req[p].pc = "recordWrite" /\ req' = [req EXCEPT ![p] = r] /\ Writes(p)
        /\ UNCHANGED plans
    BY <1>2, <2>1 DEF UpdateMaintenance, Become
  <2>3. req[p] \in Request /\ req[p].work \in Record /\ req[p].vehicle \in Vehicles
    BY <2>2, Inputs DEF Shape
  <2>4. /\ r \in Request /\ r.pc = "effects" /\ r.plan = req[p].plan
        /\ r.work = req[p].work /\ r.vehicle = req[p].vehicle
    BY <2>1, <2>3, RequestFields
  <2>5. Replaces(p, r) /\ Others(p) /\ RowsSound(plans') /\ DraftSound(r)
    BY <2>2, <2>3, <2>4, OthersSteps DEF Replaces, Shape, PlanSteps, HInv, DraftSound
  <2>6. alone'[p] => alone[p]
    BY <2>2 DEF Writes
  <2>7. alone[p] => req[p].plan = None
    BY <2>2 DEF HInv, Knows
  <2>8. r.plan = None => \A vs, ps, ac, day: Knows(r, vs, ps, ac, day)
    BY <2>4 DEF Knows
  <2> QED
    BY <2>4, <2>5, <2>6, <2>7, <2>8, HistoryFrame
<1> QED
  BY <1>1, <1>2

\* Leaving the vehicle, with the plan still to be looked up.
LEMMA Leaving ==
    ASSUME IInv, NEW p \in Procs,
           req[p].pc \in {"effects", "vehicleMerge", "vehicleWrite"},
           Leave(p, AfterVehicle(req[p].work))
    PROVE  \E r: /\ Replaces(p, r) /\ DraftSound(r)
                 /\ req[p].plan = None => \A vs, ps, ac, day: Knows(r, vs, ps, ac, day)
<1>1. PICK r: Replaces(p, r) /\ r.pc # "alert" /\ RowsExist(r)
  BY LeavingIsCalm
<1>2. req'[p] = r /\ req[p] \in Request
  BY <1>1, Replacing, Inputs DEF Shape
<1>3. r.pc = "idle" \/ (r.pc \in {"plan", "check"} /\ r.plan = req[p].plan)
  <2>1. CASE AfterVehicle(req[p].work) = "idle"
    BY <1>2, <2>1, IdleShape DEF Leave, Become, IInv, TypeOK
  <2>2. CASE AfterVehicle(req[p].work) # "idle"
    <3>1. PICK pc \in {"plan", "check"}: pc = AfterVehicle(req[p].work)
      BY <2>2 DEF AfterVehicle
    <3>2. r = [req[p] EXCEPT !.pc = pc, !.car = None]
      BY <1>2, <3>1 DEF Leave, Become, IInv, TypeOK
    <3> QED
      BY <1>2, <3>2, RequestFields
  <2> QED
    BY <2>1, <2>2
<1>4. DraftSound(r)
  BY <1>3 DEF DraftSound
<1>5. req[p].plan = None => \A vs, ps, ac, day: Knows(r, vs, ps, ac, day)
  <2>1. \A c \in Pairs: c[1] # None
    BY MaintenanceAssumption DEF Pairs
  <2> QED
    BY <1>3, <2>1 DEF Knows
<1> QED
  BY <1>1, <1>4, <1>5

LEMMA LeavingKnows ==
    ASSUME IInv, HInv, NEW p \in Procs,
           req[p].pc \in {"effects", "vehicleMerge", "vehicleWrite"},
           Leave(p, AfterVehicle(req[p].work)),
           Reads \/ Fails(p) \/ (Writes(p) /\ UNCHANGED plans)
    PROVE  HInv'
<1>1. PICK r: /\ Replaces(p, r) /\ DraftSound(r)
              /\ req[p].plan = None => \A vs, ps, ac, day: Knows(r, vs, ps, ac, day)
  BY Leaving
<1>2. CASE Fails(p)
  BY <1>1, <1>2, HistoryFault DEF Fails
<1>3. CASE Reads \/ (Writes(p) /\ UNCHANGED plans)
  <2>1. alone'[p] => alone[p]
    BY <1>3 DEF Reads, Writes
  <2>2. alone[p] => req[p].plan = None
    BY DEF HInv, Knows
  <2>3. Others(p) /\ RowsSound(plans')
    BY <1>3, OthersSteps DEF Reads, HInv
  <2> QED
    BY <1>1, <2>1, <2>2, <2>3, HistoryFrame
<1> QED
  BY <1>2, <1>3

LEMMA ReadVehicleKnows ==
    ASSUME IInv, HInv, NEW p \in Procs, ReadVehicle(p)
    PROVE  HInv'
<1>1. req[p].pc = "effects"
  BY DEF ReadVehicle
<1>2. CASE Leave(p, AfterVehicle(req[p].work)) /\ (Reads \/ Fails(p))
  BY <1>1, <1>2, LeavingKnows
<1>3. CASE ~(Leave(p, AfterVehicle(req[p].work)) /\ (Reads \/ Fails(p)))
  <2>1. PICK car: car = [mileage |-> MileageOf(req[p].work, vehicles[req[p].vehicle].mileage),
                         status |-> StatusOf(req[p].work)]
    OBVIOUS
  <2>2. PICK r: r = [req[p] EXCEPT !.pc = "vehicleMerge", !.car = car]
    OBVIOUS
  <2>3. req' = [req EXCEPT ![p] = r] /\ Reads
    BY <1>3, <2>1, <2>2 DEF ReadVehicle, Become
  <2>4. req[p] \in Request /\ req[p].vehicle \in Vehicles /\ req[p].work \in Record
    BY <1>1, Inputs DEF Shape
  <2>5. car \in VehicleInput
    <3>1. /\ MileageOf(req[p].work, vehicles[req[p].vehicle].mileage) \in Nat
          /\ StatusOf(req[p].work) \in {"disponivel", "manutencao", None}
      BY <2>4, Inputs DEF MileageOf, StatusOf, Record
    <3> QED
      BY <2>1, <3>1 DEF VehicleInput
  <2>6. /\ r \in Request /\ r.pc = "vehicleMerge" /\ r.vehicle = req[p].vehicle
        /\ r.car = car /\ r.plan = req[p].plan
    BY <2>2, <2>4, <2>5, RequestFields
  <2>7. car.mileage = 0 \/ car.mileage >= vehicles[req[p].vehicle].mileage
    <3>1. vehicles[req[p].vehicle].mileage \in Nat /\ req[p].work.at["mileage"] \in Nat
      BY <2>4, Inputs DEF IInv, TypeOK, Vehicle, Record
    <3> QED
      BY <2>1, <3>1 DEF MileageOf
  <2>8. Replaces(p, r) /\ DraftSound(r)
    BY <2>3, <2>4, <2>5, <2>6 DEF Replaces, Shape, PlanSteps, DraftSound
  <2>9. alone'[p] => alone[p]
    BY <2>3 DEF Reads
  <2>10. alone[p] => r.plan = None
    BY <1>1, <2>6 DEF HInv, Knows
  <2>11. r.plan = None => Knows(r, vehicles, plans, active, today)
    BY <2>6, <2>7 DEF Knows
  <2> QED
    BY <2>3, <2>8, <2>9, <2>10, <2>11, HistoryMove
<1> QED
  BY <1>2, <1>3

LEMMA BeginUpdateVehicleKnows ==
    ASSUME IInv, HInv, NEW p \in Procs, NEW v \in Vehicles, NEW i \in VehicleInputs,
           BeginUpdateVehicle(p, v, i)
    PROVE  HInv'
<1>1. PICK r: r = [Idle EXCEPT !.pc = "vehicleMerge", !.vehicle = v, !.car = i]
  OBVIOUS
<1>2. i \in VehicleInput
  BY MaintenanceAssumption
<1>3. req' = [req EXCEPT ![p] = r] /\ BeginsReading(p)
  BY <1>1 DEF BeginUpdateVehicle, Become
<1>4. /\ r \in Request /\ r.pc = "vehicleMerge" /\ r.vehicle = v /\ r.car = i
      /\ r.work = None /\ r.plan = None
  BY <1>1, <1>2 DEF Idle, Request
<1>5. Replaces(p, r)
  BY <1>2, <1>3, <1>4 DEF Replaces, Shape, PlanSteps
<1>6. DraftSound(r) /\ Knows(r, vehicles, plans, active, today)
  BY <1>4 DEF DraftSound, Knows
<1> QED
  BY <1>3, <1>5, <1>6, HistoryMove

LEMMA MergeVehicleKnows ==
    ASSUME IInv, HInv, NEW p \in Procs, MergeVehicle(p)
    PROVE  HInv'
<1>1. req[p].pc = "vehicleMerge"
  BY DEF MergeVehicle
<1>2. CASE Leave(p, AfterVehicle(req[p].work)) /\ Fails(p)
  BY <1>1, <1>2, LeavingKnows
<1>3. CASE ~(Leave(p, AfterVehicle(req[p].work)) /\ Fails(p))
  <2>1. PICK row: row = vehicles[req[p].vehicle]
    OBVIOUS
  <2>2. PICK car: car = VehicleMerged(row, req[p].car)
    OBVIOUS
  <2>3. PICK r: r = [req[p] EXCEPT !.pc = "vehicleWrite", !.car = car]
    OBVIOUS
  <2>4. req[p] \in Request /\ req[p].vehicle \in Vehicles /\ req[p].car \in VehicleInput
    BY <1>1, Inputs DEF Shape
  <2>5. req' = [req EXCEPT ![p] = r] /\ Reads
    BY <1>3, <2>1, <2>2, <2>3, <2>4 DEF MergeVehicle, Become, Request
  <2>6. row \in Vehicle
    BY <2>1, <2>4 DEF IInv, TypeOK
  <2>7. car \in Vehicle /\ car \in VehicleInput
    BY <2>2, <2>4, <2>6 DEF VehicleMerged, Or, Vehicle, VehicleInput
  <2>8. /\ r \in Request /\ r.pc = "vehicleWrite" /\ r.vehicle = req[p].vehicle
        /\ r.car = car /\ r.plan = req[p].plan /\ r.work = req[p].work
    BY <2>3, <2>4, <2>7, RequestFields
  <2>9. Replaces(p, r) /\ DraftSound(r)
    BY <2>4, <2>5, <2>7, <2>8 DEF Replaces, Shape, PlanSteps, DraftSound
  <2>10. alone'[p] => alone[p]
    BY <2>5 DEF Reads
  <2>11. alone[p] => /\ r.plan = None
                     /\ r.work # None => req[p].car.mileage = 0 \/ req[p].car.mileage >= row.mileage
    BY <1>1, <2>1, <2>8 DEF HInv, Knows
  <2>12. car.mileage = IF req[p].car.mileage = 0 THEN row.mileage ELSE req[p].car.mileage
    BY <2>2 DEF VehicleMerged, Or
  <2>13. alone[p] => Knows(r, vehicles, plans, active, today)
    <3>1. row.mileage \in Nat
      BY <2>6 DEF Vehicle
    <3> QED
      BY <2>1, <2>8, <2>11, <2>12, <3>1 DEF Knows
  <2> QED
    BY <2>5, <2>9, <2>10, <2>13, HistoryMove
<1> QED
  BY <1>2, <1>3

LEMMA WriteVehicleKnows ==
    ASSUME IInv, HInv, NEW p \in Procs, WriteVehicle(p)
    PROVE  HInv'
  BY LeavingKnows DEF WriteVehicle

LEMMA BeginPlanKnows ==
    ASSUME IInv, HInv, NEW p \in Procs, NEW l \in Plans, NEW i \in PlanInputs,
           BeginCreatePlan(p, l, i) \/ BeginUpdatePlan(p, l, i)
    PROVE  HInv'
<1>1. i \in PlanInput
  BY MaintenanceAssumption
<1>2. CASE BeginCreatePlan(p, l, i)
  <2>1. PICK draft: draft = [vehicle |-> i.vehicle, interval |-> i.interval, last |-> i.last,
                             next |-> [k \in Kinds |-> None], live |-> TRUE]
    OBVIOUS
  <2>2. PICK r: r = [Idle EXCEPT !.pc = "firstDue", !.vehicle = i.vehicle, !.plan = l,
                                 !.draft = draft]
    OBVIOUS
  <2>3. draft \in Plan
    BY <1>1, <2>1 DEF PlanInput, Plan, Meter
  <2>4. req' = [req EXCEPT ![p] = r] /\ BeginsReading(p) /\ i.vehicle \in Vehicles
    BY <1>1, <1>2, <2>1, <2>2 DEF BeginCreatePlan, Become, PlanInput
  <2>5. /\ r \in Request /\ r.pc = "firstDue" /\ r.vehicle = i.vehicle /\ r.plan = l
        /\ r.draft = draft /\ r.work = None
    BY <2>2, <2>3, <2>4 DEF Idle, Request
  <2>6. Replaces(p, r) /\ DraftSound(r) /\ Knows(r, vehicles, plans, active, today)
    BY <2>3, <2>4, <2>5 DEF Replaces, Shape, PlanSteps, DraftSound, Knows
  <2> QED
    BY <2>4, <2>6, HistoryMove
<1>3. CASE BeginUpdatePlan(p, l, i)
  <2>1. PICK row: row = plans[l]
    OBVIOUS
  <2>2. PICK draft: draft = [row EXCEPT !.interval = MergedMeter(i.interval, @),
                                        !.last = MergedMeter(i.last, @)]
    OBVIOUS
  <2>3. PICK r: r = [Idle EXCEPT !.pc = "due", !.vehicle = row.vehicle, !.plan = l,
                                 !.draft = draft]
    OBVIOUS
  <2>4. row \in Plan
    BY <1>3, <2>1 DEF BeginUpdatePlan, Live, IInv, TypeOK
  <2>5. /\ draft \in Plan /\ row.vehicle \in Vehicles
        /\ draft.interval = MergedMeter(i.interval, row.interval)
        /\ draft.last = MergedMeter(i.last, row.last)
    <3>1. MergedMeter(i.interval, row.interval) \in Meter /\ MergedMeter(i.last, row.last) \in Meter
      BY <1>1, <2>4, MergedMeters DEF PlanInput, Plan
    <3> QED
      BY <2>2, <2>4, <3>1 DEF Plan
  <2>6. Covers(draft, row)
    BY <2>5 DEF Covers, MergedMeter, Or
  <2>7. req' = [req EXCEPT ![p] = r] /\ BeginsReading(p)
    BY <1>3, <2>1, <2>2, <2>3 DEF BeginUpdatePlan, Become
  <2>8. /\ r \in Request /\ r.pc = "due" /\ r.vehicle = row.vehicle /\ r.plan = l
        /\ r.draft = draft
    BY <2>3, <2>5 DEF Idle, Request
  <2>9. Replaces(p, r) /\ DraftSound(r) /\ Knows(r, vehicles, plans, active, today)
    BY <2>1, <2>5, <2>6, <2>7, <2>8 DEF Replaces, Shape, PlanSteps, DraftSound, Knows
  <2> QED
    BY <2>7, <2>9, HistoryMove
<1> QED
  BY <1>2, <1>3

LEMMA CheckKnows ==
    ASSUME NEW r, r.pc = "check"
    PROVE  /\ DraftSound(r)
           /\ \A vs, ps, ac, day: (\A c \in Pairs: c[1] = r.plan => ac[c] = 0)
                                      => Knows(r, vs, ps, ac, day)
  BY DEF DraftSound, Knows

LEMMA ReadPlanKnows ==
    ASSUME IInv, HInv, NEW p \in Procs, ReadPlan(p)
    PROVE  HInv'
<1>1. req[p].pc = "plan" /\ req[p] \in Request
  BY Inputs DEF ReadPlan, Shape
<1>2. alone[p] => req[p].plan = None
  BY <1>1 DEF HInv, Knows
<1>3. CASE Goto(p, "check") /\ (Reads \/ Fails(p))
  <2>1. PICK r: r = [req[p] EXCEPT !.pc = "check"]
    OBVIOUS
  <2>2. r.pc = "check" /\ r.plan = req[p].plan
    BY <1>1, <2>1, RequestFields
  <2>3. PICK s: Replaces(p, s) /\ s.pc = "check"
    BY <1>1, <1>3, GotoCheck
  <2>4. Replaces(p, r)
    <3>1. req'[p] = s /\ req' = [req EXCEPT ![p] = r] /\ req \in [Procs -> Request]
      BY <1>3, <2>1, <2>3, Replacing DEF Goto, Become, IInv, TypeOK
    <3> QED
      BY <2>3, <3>1 DEF Replaces
  <2>5. alone[p] => Knows(r, vehicles, plans, active, today)
    <3>1. \A c \in Pairs: c[1] # None
      BY MaintenanceAssumption DEF Pairs
    <3> QED
      BY <1>2, <2>2, <3>1, CheckKnows
  <2>6. CASE Reads
    BY <2>2, <2>4, <2>5, <2>6, CheckKnows, HistoryMove DEF Reads
  <2>7. CASE Fails(p)
    BY <2>2, <2>4, <2>7, CheckKnows, HistoryFault DEF Fails
  <2> QED
    BY <1>3, <2>6, <2>7
<1>4. CASE ~(Goto(p, "check") /\ (Reads \/ Fails(p)))
  <2>1. PICK work: work = req[p].work
    OBVIOUS
  <2>2. PICK row: row = plans[work.plan]
    OBVIOUS
  <2>3. PICK pc: pc = IF work.at["mileage"] > 0 THEN "due" ELSE "planVehicle"
    OBVIOUS
  <2>4. PICK last: last = [k \in Kinds |-> IF k = "mileage" /\ work.at["mileage"] = 0
                                           THEN row.last[k] ELSE work.at[k]]
    OBVIOUS
  <2>5. PICK draft: draft = [row EXCEPT !.last = last]
    OBVIOUS
  <2>6. PICK r: r = [req[p] EXCEPT !.pc = pc, !.plan = work.plan, !.draft = draft]
    OBVIOUS
  <2>7. Live(row) /\ req' = [req EXCEPT ![p] = r] /\ Reads
    BY <1>4, <2>1, <2>2, <2>3, <2>4, <2>5, <2>6 DEF ReadPlan, Become
  <2>8. work \in Record /\ work.plan \in Plans /\ req[p].vehicle \in Vehicles
    BY <1>1, <2>1, Inputs DEF Shape
  <2>9. row \in Plan
    BY <2>2, <2>7, <2>8 DEF IInv, TypeOK, Live
  <2>10. last \in Meter /\ \A k \in Kinds: last[k] = None => row.last[k] = None
    <3>1. \A k \in Kinds: work.at[k] \in Nat /\ work.at[k] # None
      BY <2>8, MaintenanceAssumption DEF Record
    <3> QED
      BY <2>4, <2>9, <3>1 DEF Plan, Meter
  <2>11. draft \in Plan /\ draft.interval = row.interval /\ draft.last = last
    BY <2>5, <2>9, <2>10 DEF Plan
  <2>12. Covers(draft, row)
    BY <2>10, <2>11 DEF Covers
  <2>13. pc \in {"due", "planVehicle"}
    BY <2>3
  <2>14. /\ r \in Request /\ r.pc = pc /\ r.vehicle = req[p].vehicle /\ r.plan = work.plan
         /\ r.draft = draft
    BY <1>1, <2>6, <2>8, <2>11, <2>13, RequestFields
  <2>15. Replaces(p, r) /\ DraftSound(r)
    BY <2>7, <2>8, <2>11, <2>13, <2>14 DEF Replaces, Shape, PlanSteps, DraftSound
  <2>16. Knows(r, vehicles, plans, active, today)
    BY <2>2, <2>12, <2>13, <2>14 DEF Knows
  <2> QED
    BY <2>7, <2>15, <2>16, HistoryMove
<1> QED
  BY <1>3, <1>4

\* A request goes on with its draft.
LEMMA DraftKnows ==
    ASSUME IInv, HInv, NEW p \in Procs, req[p].pc \in PlanSteps,
           NEW pc \in PlanSteps, NEW draft \in Plan,
           req' = [req EXCEPT ![p] = [req[p] EXCEPT !.pc = pc, !.draft = draft]],
           pc \in {"planInsert", "planMerge", "planWrite"} => Sound(draft),
           \/ Fails(p)
           \/ /\ Reads
              /\ alone[p] =>
                    /\ pc \in {"firstDue", "planInsert"} => req[p].work = None
                    /\ pc \in {"planVehicle", "due", "planMerge"}
                         => Covers(draft, plans[req[p].plan])
                    /\ pc \in {"planMerge", "planWrite"} => Consistent(draft)
                    /\ pc = "planMerge"
                         => \A k \in Kinds: draft.interval[k] # None => draft.next[k] # None
    PROVE  HInv'
<1>1. PICK r: r = [req[p] EXCEPT !.pc = pc, !.draft = draft]
  OBVIOUS
<1>2. req[p] \in Request /\ req[p].vehicle \in Vehicles /\ req[p].plan \in Plans
  BY Inputs DEF Shape, PlanSteps
<1>3. /\ r \in Request /\ r.pc = pc /\ r.vehicle = req[p].vehicle /\ r.plan = req[p].plan
      /\ r.draft = draft /\ r.work = req[p].work
  BY <1>1, <1>2, RequestFields DEF PlanSteps
<1>4. Replaces(p, r) /\ DraftSound(r)
  BY <1>1, <1>2, <1>3 DEF Replaces, Shape, PlanSteps, DraftSound
<1>5. CASE Fails(p)
  BY <1>4, <1>5, HistoryFault DEF Fails
<1>6. CASE ~Fails(p)
  <2>1. alone'[p] => alone[p]
    BY <1>6 DEF Reads
  <2>2. alone[p] => Knows(r, vehicles, plans, active, today)
    BY <1>3, <1>6 DEF Knows, PlanSteps
  <2> QED
    BY <1>4, <1>6, <2>1, <2>2, HistoryMove
<1> QED
  BY <1>5, <1>6

LEMMA ReadVehicleForPlanKnows ==
    ASSUME IInv, HInv, NEW p \in Procs, ReadVehicleForPlan(p)
    PROVE  HInv'
<1>1. PICK pc: pc = "due"
  OBVIOUS
<1>2. req[p].pc = "planVehicle" /\ req[p].pc \in PlanSteps /\ pc \in PlanSteps
  BY <1>1 DEF ReadVehicleForPlan, PlanSteps
<1>3. /\ req[p] \in Request /\ req[p].draft \in Plan /\ req[p].plan \in Plans
      /\ req[p].vehicle \in Vehicles
  BY <1>2, Drafts
<1>4. CASE Goto(p, "due") /\ Fails(p)
  <2>1. req' = [req EXCEPT ![p] = [req[p] EXCEPT !.pc = pc, !.draft = req[p].draft]]
    BY <1>1, <1>3, <1>4 DEF Goto, Become, Request
  <2> QED
    BY <1>1, <1>2, <1>3, <1>4, <2>1, DraftKnows
<1>5. CASE ~(Goto(p, "due") /\ Fails(p))
  <2>1. PICK m: m = vehicles[req[p].vehicle].mileage
    OBVIOUS
  <2>2. m \in Nat /\ m # None
    BY <1>3, <2>1, MaintenanceAssumption DEF IInv, TypeOK, Vehicle
  <2>3. PICK draft: draft = [req[p].draft EXCEPT !.last["mileage"] = m]
    OBVIOUS
  <2>4. PICK last: last = [req[p].draft.last EXCEPT !["mileage"] = m]
    OBVIOUS
  <2>5. last \in Meter /\ \A k \in Kinds: last[k] = None => req[p].draft.last[k] = None
    BY <1>3, <2>2, <2>4 DEF Plan, Meter
  <2>6. /\ draft \in Plan /\ draft.interval = req[p].draft.interval /\ draft.last = last
    BY <1>3, <2>3, <2>4, <2>5 DEF Plan
  <2>7. Reads /\ req' = [req EXCEPT ![p] = [req[p] EXCEPT !.pc = pc, !.draft = draft]]
    BY <1>1, <1>3, <1>5, <2>1, <2>3 DEF ReadVehicleForPlan, Become, Request
  <2>8. alone[p] => Covers(draft, plans[req[p].plan])
    <3>1. alone[p] => Covers(req[p].draft, plans[req[p].plan])
      BY <1>2 DEF HInv, Knows
    <3> QED
      BY <2>5, <2>6, <3>1 DEF Covers
  <2> QED
    BY <1>1, <1>2, <2>6, <2>7, <2>8, DraftKnows
<1> QED
  BY <1>4, <1>5

LEMMA NextDueIsConsistent ==
    ASSUME IInv, NEW draft \in Plan, NEW mileage \in Nat, NEW new,
           new = [draft EXCEPT !.next = NextDue(draft, mileage)]
    PROVE  /\ new \in Plan /\ new.interval = draft.interval /\ new.last = draft.last
           /\ Sound(new) /\ Consistent(new)
           /\ \A k \in Kinds: new.interval[k] # None => new.next[k] # None
<1>1. NextDue(draft, mileage) \in Meter
  BY NextDueIsAMeter
<1>2. /\ new \in Plan /\ new.interval = draft.interval /\ new.last = draft.last
      /\ new.next = NextDue(draft, mileage)
  BY <1>1 DEF Plan
<1>3. \A k \in Kinds: /\ new.interval[k] = None => new.next[k] = None
                      /\ new.interval[k] # None
                           => new.next[k] = LastOf(draft, k, mileage) + new.interval[k]
  BY <1>2 DEF NextDue
<1>4. \A k \in Kinds: /\ draft.last[k] # None /\ draft.last[k] > 0
                           => LastOf(draft, k, mileage) = draft.last[k]
                      /\ LastOf(draft, k, mileage) \in Nat
                      /\ new.interval[k] \in Nat \cup {None}
  <2> SUFFICES ASSUME NEW k \in Kinds
               PROVE  /\ draft.last[k] # None /\ draft.last[k] > 0
                           => LastOf(draft, k, mileage) = draft.last[k]
                      /\ LastOf(draft, k, mileage) \in Nat
                      /\ new.interval[k] \in Nat \cup {None}
    OBVIOUS
  <2>1. draft.last[k] \in Nat \cup {None} /\ Reading(k, mileage) \in Nat
    BY Inputs DEF Plan, Meter, Reading
  <2> QED
    BY <1>2, <2>1 DEF LastOf, Plan, Meter
<1>5. \A k \in Kinds: new.interval[k] # None => new.next[k] # None
  BY <1>3, <1>4, MaintenanceAssumption
<1> QED
  BY <1>2, <1>3, <1>4, <1>5 DEF Sound, Consistent

LEMMA CalculateNextDueKnows ==
    ASSUME IInv, HInv, NEW p \in Procs, CalculateNextDue(p)
    PROVE  HInv'
<1>1. PICK draft: draft = req[p].draft
  OBVIOUS
<1>2. PICK to: to = IF req[p].pc = "firstDue" THEN "planInsert" ELSE "planMerge"
  OBVIOUS
<1>3. /\ req[p].pc \in PlanSteps /\ to \in PlanSteps /\ req[p].pc \in {"due", "firstDue"}
      /\ to \in {"planInsert", "planMerge"} /\ (to = "planInsert" <=> req[p].pc = "firstDue")
  BY <1>2 DEF CalculateNextDue, PlanSteps
<1>4. req[p] \in Request /\ draft \in Plan
  BY <1>1, <1>3, Drafts
<1>5. PICK m \in Nat:
        /\ req' = [req EXCEPT ![p] = [req[p] EXCEPT !.pc = to, !.draft.next = NextDue(draft, m)]]
        /\ Reads \/ Fails(p)
  <2>1. vehicles[draft.vehicle].mileage \in Nat /\ 0 \in Nat
    BY <1>4 DEF Plan, IInv, TypeOK, Vehicle
  <2> QED
    BY <1>1, <1>2, <2>1 DEF CalculateNextDue, Become
<1>6. PICK new: new = [draft EXCEPT !.next = NextDue(draft, m)]
  OBVIOUS
<1>7. /\ new \in Plan /\ new.interval = draft.interval /\ new.last = draft.last
      /\ Sound(new) /\ Consistent(new)
      /\ \A k \in Kinds: new.interval[k] # None => new.next[k] # None
  BY <1>4, <1>6, NextDueIsConsistent
<1>8. req' = [req EXCEPT ![p] = [req[p] EXCEPT !.pc = to, !.draft = new]]
  BY <1>1, <1>4, <1>5, <1>6, RequestFields
<1>9. alone[p] => /\ to = "planInsert" => req[p].work = None
                  /\ to = "planMerge" => Covers(new, plans[req[p].plan])
  <2>1. alone[p] => /\ to = "planInsert" => req[p].work = None
                    /\ to = "planMerge" => Covers(draft, plans[req[p].plan])
    BY <1>1, <1>3 DEF HInv, Knows
  <2> QED
    BY <1>7, <2>1 DEF Covers
<1> QED
  BY <1>3, <1>5, <1>7, <1>8, <1>9, DraftKnows

LEMMA OffDraft ==
    ASSUME IInv, NEW p \in Procs, req[p].pc \in PlanSteps, NEW pc \in {"check", "resolve"},
           req' = [req EXCEPT ![p] = [req[p] EXCEPT !.pc = pc, !.draft = None]]
    PROVE  \E r: /\ Replaces(p, r) /\ DraftSound(r)
                 /\ r.pc = pc /\ r.plan = req[p].plan /\ r.work = req[p].work
<1>1. PICK r: r = [req[p] EXCEPT !.pc = pc, !.draft = None]
  OBVIOUS
<1>2. req[p] \in Request /\ req[p].vehicle \in Vehicles
  BY Drafts
<1>3. /\ r \in Request /\ r.pc = pc /\ r.vehicle = req[p].vehicle /\ r.plan = req[p].plan
      /\ r.work = req[p].work
  BY <1>1, <1>2, RequestFields
<1>4. Replaces(p, r) /\ DraftSound(r)
  BY <1>1, <1>2, <1>3 DEF Replaces, Shape, PlanSteps, DraftSound
<1> QED
  BY <1>3, <1>4

LEMMA ResolveKnows ==
    ASSUME NEW r, r.pc = "resolve"
    PROVE  \A vs, ps, ac, day: Knows(r, vs, ps, ac, day)
  BY DEF Knows

LEMMA PlanFailedKnows ==
    ASSUME IInv, HInv, NEW p \in Procs, req[p].pc \in PlanSteps, PlanFailed(p),
           Reads \/ Fails(p)
    PROVE  HInv'
<1>1. CASE Become(p, Idle)
  BY <1>1, EndKnows
<1>2. CASE ~Become(p, Idle)
  <2>1. PICK pc \in {"check", "resolve"}:
          /\ pc = "resolve"
          /\ req' = [req EXCEPT ![p] = [req[p] EXCEPT !.pc = pc, !.draft = None]]
    BY <1>2 DEF PlanFailed, Become
  <2>2. PICK r: Replaces(p, r) /\ DraftSound(r) /\ r.pc = pc
    BY <2>1, OffDraft
  <2> QED
    BY <2>1, <2>2, ResolveKnows, HistoryMove, HistoryFault DEF Fails
<1> QED
  BY <1>1, <1>2

LEMMA PlanRowKnows ==
    ASSUME IInv, HInv, NEW p \in Procs, req[p].pc \in PlanSteps, NEW row \in Plan, Sound(row),
           NEW pc \in {"check", "resolve"},
           req' = [req EXCEPT ![p] = [req[p] EXCEPT !.pc = pc, !.draft = None]],
           plans' = [plans EXCEPT ![req[p].plan] = row], Writes(p),
           alone[p] /\ pc = "check" => req[p].work = None
    PROVE  HInv'
<1>1. PICK r: /\ Replaces(p, r) /\ DraftSound(r)
              /\ r.pc = pc /\ r.plan = req[p].plan /\ r.work = req[p].work
  BY OffDraft
<1>2. \A l \in Plans: plans'[l] = plans[l] \/ plans'[l] = row
  BY DEF IInv, TypeOK
<1>3. RowsSound(plans')
  BY <1>2 DEF HInv, RowsSound
<1>4. Others(p) /\ (alone'[p] => alone[p])
  BY OthersSteps DEF Writes
<1>5. alone[p] => \A vs, ps, ac, day: Knows(r, vs, ps, ac, day)
  BY <1>1 DEF Knows
<1> QED
  BY <1>1, <1>3, <1>4, <1>5, HistoryFrame

LEMMA InsertPlanKnows ==
    ASSUME IInv, HInv, NEW p \in Procs, InsertPlan(p)
    PROVE  HInv'
<1>1. CASE Become(p, Idle) /\ (Reads \/ Fails(p))
  BY <1>1, EndKnows
<1>2. CASE ~(Become(p, Idle) /\ (Reads \/ Fails(p)))
  <2>1. req[p].pc \in PlanSteps /\ req[p].pc = "planInsert" /\ req[p].draft \in Plan
    BY Drafts DEF InsertPlan, PlanSteps
  <2>2. PICK pc \in {"check", "resolve"}:
          req' = [req EXCEPT ![p] = [req[p] EXCEPT !.pc = pc, !.draft = None]]
    BY <1>2 DEF InsertPlan, Become
  <2>3. plans' = [plans EXCEPT ![req[p].plan] = req[p].draft] /\ Writes(p)
    BY <1>2 DEF InsertPlan
  <2>4. Sound(req[p].draft) /\ (alone[p] => req[p].work = None)
    BY <2>1 DEF HInv, DraftSound, Knows
  <2> QED
    BY <2>1, <2>2, <2>3, <2>4, PlanRowKnows
<1> QED
  BY <1>1, <1>2

\* What was calculated from one read of the row fits into the next.
LEMMA MergingKeepsDue ==
    ASSUME NEW row \in Plan, NEW draft \in Plan, NEW merged,
           merged = PlanMerged(row, draft), Sound(row), Sound(draft)
    PROVE  /\ merged \in Plan /\ Sound(merged)
           /\ /\ Covers(draft, row) /\ Consistent(draft)
              /\ \A k \in Kinds: draft.interval[k] # None => draft.next[k] # None
              => Consistent(merged)
<1>1. /\ MergedMeter(draft.interval, row.interval) \in Meter
      /\ MergedMeter(draft.last, row.last) \in Meter
      /\ MergedMeter(draft.next, row.next) \in Meter
  BY MergedMeters DEF Plan
<1>2. /\ merged \in Plan
      /\ merged.interval = MergedMeter(draft.interval, row.interval)
      /\ merged.last = MergedMeter(draft.last, row.last)
      /\ merged.next = MergedMeter(draft.next, row.next)
  BY <1>1 DEF PlanMerged, Plan
<1>3. \A k \in Kinds:
        /\ merged.interval[k] = IF draft.interval[k] = None THEN row.interval[k] ELSE draft.interval[k]
        /\ merged.last[k] = IF draft.last[k] = None THEN row.last[k] ELSE draft.last[k]
        /\ merged.next[k] = IF draft.next[k] = None THEN row.next[k] ELSE draft.next[k]
  BY <1>2 DEF MergedMeter, Or
<1>4. Sound(merged)
  BY <1>3 DEF Sound
<1>5. ASSUME Covers(draft, row), Consistent(draft),
             \A k \in Kinds: draft.interval[k] # None => draft.next[k] # None
      PROVE  Consistent(merged)
  <2>1. \A k \in Kinds: /\ merged.interval[k] = draft.interval[k]
                        /\ merged.last[k] = draft.last[k]
                        /\ draft.interval[k] # None => merged.next[k] = draft.next[k]
    BY <1>3, <1>5 DEF Covers
  <2> QED
    BY <1>4, <1>5, <2>1 DEF Consistent, Sound
<1> QED
  BY <1>2, <1>4, <1>5

LEMMA MergePlanKnows ==
    ASSUME IInv, HInv, NEW p \in Procs, MergePlan(p)
    PROVE  HInv'
<1>1. /\ req[p].pc \in PlanSteps /\ req[p].pc = "planMerge"
      /\ req[p].draft \in Plan /\ req[p].plan \in Plans /\ req[p] \in Request
  BY Drafts DEF MergePlan, PlanSteps
<1>2. CASE PlanFailed(p) /\ (Reads \/ Fails(p))
  BY <1>1, <1>2, PlanFailedKnows
<1>3. CASE ~(PlanFailed(p) /\ (Reads \/ Fails(p)))
  <2>1. PICK row: row = plans[req[p].plan]
    OBVIOUS
  <2>2. PICK draft: draft = PlanMerged(row, req[p].draft)
    OBVIOUS
  <2>3. PICK pc: pc = "planWrite"
    OBVIOUS
  <2>4. /\ Live(row) /\ Reads /\ pc \in PlanSteps
        /\ req' = [req EXCEPT ![p] = [req[p] EXCEPT !.pc = pc, !.draft = draft]]
    BY <1>1, <1>3, <2>1, <2>2, <2>3 DEF MergePlan, Become, Request, PlanSteps
  <2>5. row \in Plan /\ Sound(row) /\ Sound(req[p].draft)
    BY <1>1, <2>1, <2>4 DEF IInv, TypeOK, Live, HInv, RowsSound, DraftSound
  <2>6. alone[p] => /\ Covers(req[p].draft, row) /\ Consistent(req[p].draft)
                    /\ \A k \in Kinds: req[p].draft.interval[k] # None => req[p].draft.next[k] # None
    BY <1>1, <2>1 DEF HInv, Knows
  <2>7. draft \in Plan /\ Sound(draft) /\ (alone[p] => Consistent(draft))
    BY <1>1, <2>2, <2>5, <2>6, MergingKeepsDue
  <2> QED
    BY <1>1, <2>3, <2>4, <2>7, DraftKnows
<1> QED
  BY <1>2, <1>3

LEMMA WritingAPlan ==
    ASSUME IInv, HInv, NEW p \in Procs, WritePlan(p), ~(PlanFailed(p) /\ Fails(p))
    PROVE  \E row \in Plan:
              /\ plans' = [plans EXCEPT ![req[p].plan] = row] /\ Writes(p)
              /\ Sound(row) /\ (alone[p] => Consistent(row)) /\ req[p].plan \in Plans
<1>1. /\ req[p].pc \in PlanSteps /\ req[p].pc = "planWrite"
      /\ req[p].draft \in Plan /\ req[p].plan \in Plans
  BY Drafts DEF WritePlan, PlanSteps
<1>2. PICK row: row = [req[p].draft EXCEPT !.live = plans[req[p].plan].live]
  OBVIOUS
<1>3. plans' = [plans EXCEPT ![req[p].plan] = row] /\ Writes(p)
  BY <1>2 DEF WritePlan
<1>4. plans[req[p].plan] \in Plan
  BY <1>1 DEF IInv, TypeOK, RowsAreThere, RowsExist
<1>5. /\ row \in Plan /\ row.interval = req[p].draft.interval
      /\ row.last = req[p].draft.last /\ row.next = req[p].draft.next
  BY <1>1, <1>2, <1>4 DEF Plan
<1>6. Sound(req[p].draft) /\ (alone[p] => Consistent(req[p].draft))
  BY <1>1 DEF HInv, DraftSound, Knows
<1>7. Sound(row) /\ (alone[p] => Consistent(row))
  BY <1>5, <1>6 DEF Sound, Consistent
<1> QED
  BY <1>1, <1>3, <1>5, <1>7

LEMMA WritePlanKnows ==
    ASSUME IInv, HInv, NEW p \in Procs, WritePlan(p)
    PROVE  HInv'
<1>1. req[p].pc \in PlanSteps /\ req[p] \in Request
  BY Drafts DEF WritePlan, PlanSteps
<1>2. CASE PlanFailed(p) /\ Fails(p)
  BY <1>1, <1>2, PlanFailedKnows
<1>3. CASE ~(PlanFailed(p) /\ Fails(p))
  <2>1. PICK row \in Plan: /\ plans' = [plans EXCEPT ![req[p].plan] = row] /\ Writes(p)
                           /\ Sound(row)
    BY <1>3, WritingAPlan
  <2>2. PICK pc \in {"check", "resolve"}:
          /\ pc = "check" => req[p].work = None
          /\ req' = [req EXCEPT ![p] = [req[p] EXCEPT !.pc = pc, !.draft = None]]
    <3>1. PICK pc: pc = IF req[p].work = None THEN "check" ELSE "resolve"
      OBVIOUS
    <3>2. req' = [req EXCEPT ![p] = [req[p] EXCEPT !.draft = None, !.pc = pc]]
      BY <1>3, <3>1 DEF WritePlan, Become
    <3>3. [req[p] EXCEPT !.draft = None, !.pc = pc] = [req[p] EXCEPT !.pc = pc, !.draft = None]
      BY <1>1, RequestFields
    <3> QED
      BY <3>1, <3>2, <3>3
  <2> QED
    BY <1>1, <2>1, <2>2, PlanRowKnows
<1> QED
  BY <1>2, <1>3

LEMMA ResolvePlanKnows ==
    ASSUME IInv, HInv, NEW p \in Procs, ResolvePlan(p)
    PROVE  HInv'
<1>1. PICK r: r = [req[p] EXCEPT !.pc = "check"]
  OBVIOUS
<1>2. /\ req[p].pc = "resolve" /\ req[p] \in Request /\ req[p].vehicle \in Vehicles
      /\ req' = [req EXCEPT ![p] = r]
  BY <1>1, Inputs DEF ResolvePlan, Goto, Become, Shape
<1>3. r \in Request /\ r.pc = "check" /\ r.plan = req[p].plan /\ r.vehicle = req[p].vehicle
  BY <1>1, <1>2, RequestFields
<1>4. Replaces(p, r) /\ DraftSound(r)
  BY <1>2, <1>3 DEF Replaces, Shape, PlanSteps, DraftSound
<1>5. CASE Fails(p)
  BY <1>4, <1>5, HistoryFault DEF Fails
<1>6. CASE ~Fails(p)
  <2>1. active' = ResolvedByPlan(req[p].plan) /\ Writes(p) /\ UNCHANGED plans
    BY <1>6 DEF ResolvePlan
  <2>2. \A c \in Pairs: c[1] = r.plan => active'[c] = 0
    BY <1>3, <2>1 DEF ResolvedByPlan, Pairs
  <2>3. Knows(r, vehicles', plans', active', today')
    BY <1>3, <2>2, CheckKnows
  <2>4. Others(p) /\ RowsSound(plans')
    BY <2>1, OthersSteps DEF HInv
  <2> QED
    BY <1>4, <2>3, <2>4, HistoryFrame
<1> QED
  BY <1>5, <1>6

LEMMA CheckVehicleKnows ==
    ASSUME IInv, HInv, NEW p \in Procs, CheckVehicle(p)
    PROVE  HInv'
<1>1. CASE Become(p, Idle) /\ Fails(p)
  BY <1>1, EndKnows
<1>2. CASE ~(Become(p, Idle) /\ Fails(p))
  <2>1. PICK m: m = vehicles[req[p].vehicle].mileage
    OBVIOUS
  <2>2. PICK r: r = [req[p] EXCEPT !.pc = "plans", !.seen = m]
    OBVIOUS
  <2>3. req[p].pc = "check" /\ req' = [req EXCEPT ![p] = r] /\ Reads
    BY <1>2, <2>1, <2>2 DEF CheckVehicle, Become
  <2>4. req[p] \in Request /\ req[p].vehicle \in Vehicles
    BY <2>3, Inputs DEF Shape
  <2>5. m \in Nat
    BY <2>1, <2>4 DEF IInv, TypeOK, Vehicle
  <2>6. /\ r \in Request /\ r.pc = "plans" /\ r.vehicle = req[p].vehicle /\ r.seen = m
        /\ r.work = req[p].work /\ r.plan = req[p].plan
    BY <2>2, <2>4, <2>5, RequestFields
  <2>7. Replaces(p, r) /\ DraftSound(r) /\ (alone'[p] => alone[p])
    BY <2>3, <2>4, <2>6 DEF Replaces, Shape, PlanSteps, DraftSound, Reads
  <2>8. alone[p] /\ req[p].work # None => \A c \in Pairs: c[1] = req[p].plan => active[c] = 0
    BY <2>3 DEF HInv, Knows
  <2>9. alone[p] => Knows(r, vehicles, plans, active, today)
    BY <2>1, <2>6, <2>8 DEF Knows
  <2> QED
    BY <2>3, <2>7, <2>9, HistoryMove
<1> QED
  BY <1>1, <1>2

LEMMA ProbingForm ==
    ASSUME IInv, NEW p \in Procs, req[p].pc \in {"plans", "probe", "alert"},
           NEW todo \in SUBSET Pairs, Probing(p, todo)
    PROVE  \/ todo = {} /\ Become(p, Idle)
           \/ \E r: /\ Replaces(p, r) /\ DraftSound(r) /\ r.pc = "probe" /\ r.todo = todo
                    /\ r.vehicle = req[p].vehicle /\ r.plan = req[p].plan
                    /\ r.work = req[p].work
<1>1. CASE todo = {}
  BY <1>1 DEF Probing
<1>2. CASE todo # {}
  <2>1. PICK r: r = [req[p] EXCEPT !.pc = "probe", !.todo = todo, !.pair = None]
    OBVIOUS
  <2>2. req' = [req EXCEPT ![p] = r]
    BY <1>2, <2>1 DEF Probing, Become
  <2>3. req[p] \in Request /\ req[p].vehicle \in Vehicles
    BY Inputs DEF Shape
  <2>4. /\ r \in Request /\ r.pc = "probe" /\ r.todo = todo /\ r.vehicle = req[p].vehicle
        /\ r.plan = req[p].plan /\ r.work = req[p].work
    BY <2>1, <2>3, RequestFields
  <2>5. Replaces(p, r) /\ DraftSound(r)
    BY <2>2, <2>3, <2>4 DEF Replaces, Shape, PlanSteps, DraftSound
  <2> QED
    BY <2>4, <2>5
<1> QED
  BY <1>1, <1>2

LEMMA DueOfs ==
    \A v, mileage: DueOf(v, mileage) = DueAt(plans, today, v, mileage)
  BY DEF DueOf, DueAt, Due, Reading, Live, Pairs

LEMMA ListPlansKnows ==
    ASSUME IInv, HInv, NEW p \in Procs, ListPlans(p)
    PROVE  HInv'
<1>1. CASE Become(p, Idle) /\ Fails(p)
  BY <1>1, EndKnows
<1>2. CASE ~(Become(p, Idle) /\ Fails(p))
  <2>1. PICK todo: todo = DueAt(plans, today, req[p].vehicle, req[p].seen)
    OBVIOUS
  <2>2. todo \in SUBSET Pairs
    BY <2>1 DEF DueAt
  <2>3. req[p].pc = "plans" /\ Probing(p, todo) /\ Reads
    BY <1>2, <2>1, DueOfs DEF ListPlans
  <2>4. CASE Become(p, Idle)
    BY <2>3, <2>4, EndKnows
  <2>5. CASE ~Become(p, Idle)
    <3>1. PICK r: /\ Replaces(p, r) /\ DraftSound(r) /\ r.pc = "probe" /\ r.todo = todo
                  /\ r.vehicle = req[p].vehicle /\ r.plan = req[p].plan
                  /\ r.work = req[p].work
      BY <2>2, <2>3, <2>5, ProbingForm
    <3>2. alone'[p] => alone[p]
      BY <2>3 DEF Reads
    <3>3. alone[p] => /\ req[p].seen = vehicles[req[p].vehicle].mileage
                      /\ req[p].work # None
                           => \A c \in Pairs: c[1] = req[p].plan => active[c] = 0
      BY <2>3 DEF HInv, Knows
    <3>4. alone[p] => Probed(r, todo, active)
      BY <3>1, <3>3 DEF Probed
    <3>5. alone[p] => Knows(r, vehicles, plans, active, today)
      BY <2>1, <3>1, <3>3, <3>4 DEF Knows
    <3> QED
      BY <2>3, <3>1, <3>2, <3>5, HistoryMove
  <2> QED
    BY <2>4, <2>5
<1> QED
  BY <1>1, <1>2

LEMMA ProbeKnows ==
    ASSUME IInv, HInv, NEW p \in Procs, NEW c \in Pairs, Probe(p, c)
    PROVE  HInv'
<1>1. /\ req[p].pc = "probe" /\ c \in req[p].todo /\ req[p] \in Request
      /\ req[p].vehicle \in Vehicles
  BY Inputs DEF Probe, Following, Shape
<1>2. PICK todo: todo = req[p].todo \ {c}
  OBVIOUS
<1>3. todo \in SUBSET Pairs
  BY <1>1, <1>2, RequestFields
<1>4. PICK due: due = DueAt(plans, today, req[p].vehicle, vehicles[req[p].vehicle].mileage)
  OBVIOUS
<1>5. alone[p] => Probed(req[p], due, active)
  BY <1>1, <1>4 DEF HInv, Knows
<1>6. CASE HasActive(c) /\ Probing(p, todo) /\ Reads
  <2>1. CASE Become(p, Idle)
    BY <1>6, <2>1, EndKnows
  <2>2. CASE ~Become(p, Idle)
    <3>1. PICK r: /\ Replaces(p, r) /\ DraftSound(r) /\ r.pc = "probe" /\ r.todo = todo
                  /\ r.vehicle = req[p].vehicle /\ r.plan = req[p].plan
                  /\ r.work = req[p].work
      BY <1>1, <1>3, <1>6, <2>2, ProbingForm
    <3>2. alone'[p] => alone[p]
      BY <1>6 DEF Reads
    <3>3. alone[p] => Probed(r, due, active)
      BY <1>1, <1>2, <1>5, <1>6, <3>1 DEF Probed, HasActive
    <3>4. alone[p] => Knows(r, vehicles, plans, active, today)
      BY <1>4, <3>1, <3>3 DEF Knows
    <3> QED
      BY <1>6, <3>1, <3>2, <3>4, HistoryMove
  <2> QED
    BY <2>1, <2>2
<1>7. CASE ~(HasActive(c) /\ Probing(p, todo) /\ Reads)
  <2>1. PICK r: r = [req[p] EXCEPT !.pc = "alert", !.todo = todo, !.pair = c]
    OBVIOUS
  <2>2. req' = [req EXCEPT ![p] = r] /\ (Reads \/ Fault(p))
    BY <1>1, <1>2, <1>7, <2>1 DEF Probe, Become, Request
  <2>3. /\ r \in Request /\ r.pc = "alert" /\ r.vehicle = req[p].vehicle /\ r.pair = c
        /\ r.todo = todo /\ r.plan = req[p].plan /\ r.work = req[p].work
    <3>1. PICK s: s = [req[p] EXCEPT !.pc = "alert", !.todo = todo]
      OBVIOUS
    <3>2. /\ s \in Request /\ s.pc = "alert" /\ s.vehicle = req[p].vehicle
          /\ s.todo = todo /\ s.plan = req[p].plan /\ s.work = req[p].work
      BY <1>1, <1>3, <3>1, RequestFields
    <3>3. r = [s EXCEPT !.pair = c]
      BY <1>1, <2>1, <3>1, RequestFields
    <3>4. c \in Pairs \cup {None}
      OBVIOUS
    <3> QED
      BY <3>2, <3>3, <3>4, RequestFields
  <2>4. Replaces(p, r) /\ DraftSound(r)
    BY <1>1, <2>2, <2>3 DEF Replaces, Shape, PlanSteps, DraftSound
  <2>5. CASE Fault(p)
    BY <2>4, <2>5, HistoryFault
  <2>6. CASE Reads
    <3>1. alone'[p] => alone[p]
      BY <2>6 DEF Reads
    <3>2. active[c] = 0
      BY <1>2, <1>7, <2>6 DEF Probe, HasActive, Fault, Reads, IInv, TypeOK, Pairs
    <3>3. alone[p] => Probed(r, due, active)
      BY <1>1, <1>2, <1>5, <2>3, <3>2 DEF Probed
    <3>4. alone[p] => Knows(r, vehicles, plans, active, today)
      BY <1>4, <2>3, <3>3 DEF Knows
    <3> QED
      BY <2>4, <2>6, <3>1, <3>4, HistoryMove
  <2> QED
    BY <2>2, <2>5, <2>6
<1> QED
  BY <1>6, <1>7

\* The alert of a pair that was found without one.
LEMMA Creating ==
    ASSUME IInv, HInv, NEW p \in Procs, CreateAlert(p), ~Fails(p)
    PROVE  /\ Writes(p) /\ UNCHANGED <<vehicles, plans, today>>
           /\ req[p].todo \in SUBSET Pairs /\ Probing(p, req[p].todo)
           /\ alone[p] => \A r: /\ r.pc \in {"probe", "idle"} /\ r.todo = req[p].todo
                                /\ r.plan = req[p].plan /\ r.work = req[p].work
                            => Probed(r, DueAt(plans, today, req[p].vehicle,
                                               vehicles[req[p].vehicle].mileage), active')
<1>1. PICK c \in Pairs: req[p].pc = "alert" /\ req[p].pair = c
  BY Inputs DEF CreateAlert, Shape
<1>2. req[p].todo \in SUBSET Pairs /\ Probing(p, req[p].todo)
  BY <1>1, Inputs, RequestFields DEF CreateAlert, Shape
<1>3. /\ active' = [active EXCEPT ![c] = @ + 1] /\ Writes(p)
      /\ UNCHANGED <<vehicles, plans, today>>
  BY <1>1 DEF CreateAlert
<1>4. /\ active'[c] > 0 /\ \A e \in Pairs: e # c => active'[e] = active[e]
  BY <1>3 DEF IInv, TypeOK, Pairs
<1>5. PICK due: due = DueAt(plans, today, req[p].vehicle, vehicles[req[p].vehicle].mileage)
  OBVIOUS
<1>6. due \subseteq Pairs
  BY <1>5 DEF DueAt
<1>7. alone[p] => Probed(req[p], due, active)
  BY <1>1, <1>5 DEF HInv, Knows
<1>8. ASSUME alone[p], NEW r, r.pc \in {"probe", "idle"}, r.todo = req[p].todo,
             r.plan = req[p].plan, r.work = req[p].work
      PROVE  Probed(r, due, active')
  <2>1. \A e \in due: e \in r.todo \/ active'[e] > 0
    BY <1>1, <1>4, <1>6, <1>7, <1>8 DEF Probed
  <2>2. r.work # None => \A e \in Pairs: e[1] = r.plan /\ active'[e] > 0 => e \in due
    BY <1>1, <1>4, <1>7, <1>8 DEF Probed
  <2> QED
    BY <1>7, <1>8, <2>1, <2>2 DEF Probed
<1>9. alone[p] => \A r: /\ r.pc \in {"probe", "idle"} /\ r.todo = req[p].todo
                         /\ r.plan = req[p].plan /\ r.work = req[p].work
                     => Probed(r, due, active')
  BY <1>8
<1>10. Writes(p) /\ UNCHANGED <<vehicles, plans, today>>
  BY <1>3
<1> QED
  BY <1>2, <1>5, <1>9, <1>10, Zenon

LEMMA CreateAlertKnows ==
    ASSUME IInv, HInv, NEW p \in Procs, CreateAlert(p)
    PROVE  HInv'
<1>1. req[p].pc = "alert" /\ req[p].todo \in SUBSET Pairs /\ Probing(p, req[p].todo)
  BY Inputs, RequestFields DEF CreateAlert, Shape
<1>2. CASE Become(p, Idle)
  <2>1. Replaces(p, Idle) /\ Idle.pc = "idle"
    BY <1>2, IdleShape DEF Become, Replaces
  <2>2. CASE Fails(p)
    BY <1>2, <2>2, EndKnows
  <2>3. CASE ~Fails(p)
    <3>1. Others(p) /\ RowsSound(plans')
      BY <2>3, Creating, OthersSteps DEF HInv
    <3> QED
      BY <2>1, <3>1, IdleKnows, HistoryFrame
  <2> QED
    BY <2>2, <2>3
<1>3. CASE ~Become(p, Idle)
  <2>1. PICK r: /\ Replaces(p, r) /\ DraftSound(r) /\ r.pc = "probe" /\ r.todo = req[p].todo
                /\ r.vehicle = req[p].vehicle /\ r.plan = req[p].plan
                /\ r.work = req[p].work
    BY <1>1, <1>3, ProbingForm
  <2>2. CASE Fails(p)
    BY <2>1, <2>2, HistoryFault DEF Fails
  <2>3. CASE ~Fails(p)
    <3>1. PICK due: due = DueAt(plans, today, req[p].vehicle, vehicles[req[p].vehicle].mileage)
      OBVIOUS
    <3>2. /\ Writes(p) /\ UNCHANGED <<vehicles, plans, today>>
          /\ alone[p] => Probed(r, due, active')
      BY <2>1, <2>3, <3>1, Creating
    <3>3. alone'[p] => alone[p]
      BY <3>2 DEF Writes
    <3>4. alone[p] => Knows(r, vehicles', plans', active', today')
      BY <2>1, <3>1, <3>2 DEF Knows
    <3>5. Others(p) /\ RowsSound(plans')
      BY <3>2, OthersSteps DEF HInv
    <3> QED
      BY <2>1, <3>3, <3>4, <3>5, HistoryFrame
  <2> QED
    BY <2>2, <2>3
<1> QED
  BY <1>2, <1>3

LEMMA TickKnows ==
    ASSUME IInv, HInv, Tick \/ UNCHANGED vars
    PROVE  HInv'
<1>1. UNCHANGED <<vehicles, plans, active, req>>
  BY DEF Tick, vars
<1>2. RowsSound(plans)' /\ \A p \in Procs: DraftSound(req[p])'
  BY <1>1 DEF HInv, RowsSound, DraftSound
<1>3. \A p \in Procs: alone[p]' => Knows(req[p], vehicles, plans, active, today)'
  <2>1. CASE Tick
    BY <2>1 DEF Tick
  <2>2. CASE UNCHANGED vars
    <3>1. alone' = alone /\ today' = today
      BY <2>2 DEF vars
    <3>2. \A p \in Procs: alone'[p] => Knows(req'[p], vehicles', plans', active', today')
      BY <1>1, <3>1 DEF HInv
    <3> QED
      BY <3>2 DEF Knows
  <2> QED
    BY <2>1, <2>2
<1> QED
  BY <1>2, <1>3 DEF HInv

LEMMA InitHInv == Init => HInv
<1> SUFFICES ASSUME Init PROVE HInv
  OBVIOUS
<1>1. \A p \in Procs: req[p].pc = "idle"
  BY IdleShape DEF Init
<1>2. RowsSound(plans)
  BY DEF Init, RowsSound
<1> QED
  BY <1>1, <1>2, IdleKnows DEF HInv

LEMMA NextHInv == IInv /\ HInv /\ [Next]_vars => HInv'
<1> SUFFICES ASSUME IInv, HInv, [Next]_vars PROVE HInv'
  OBVIOUS
<1>1. ASSUME NEW p \in Procs, Step(p) PROVE HInv'
  <2>1. CASE \/ \E x \in Records, i \in RecordInputs:
                   CreateMaintenance(p, x, i) \/ ReadMaintenance(p, x, i)
             \/ \E x \in Records: DeleteMaintenance(p, x)
             \/ \E l \in Plans: DeletePlan(p, l)
             \/ \E c \in Pairs: ResolveAlert(p, c)
    BY <2>1, RecordsKnow
  <2>2. ASSUME NEW v \in Vehicles, NEW i \in VehicleInputs, BeginUpdateVehicle(p, v, i)
        PROVE  HInv'
    BY <2>2, BeginUpdateVehicleKnows
  <2>3. ASSUME NEW l \in Plans, NEW i \in PlanInputs,
               BeginCreatePlan(p, l, i) \/ BeginUpdatePlan(p, l, i)
        PROVE  HInv'
    BY <2>3, BeginPlanKnows
  <2>4. ASSUME NEW c \in Pairs, Probe(p, c) PROVE HInv'
    BY <2>4, ProbeKnows
  <2>5. CASE UpdateMaintenance(p)
    BY <2>5, UpdateMaintenanceKnows
  <2>6. CASE ReadVehicle(p) \/ MergeVehicle(p) \/ WriteVehicle(p)
    BY <2>6, ReadVehicleKnows, MergeVehicleKnows, WriteVehicleKnows
  <2>7. CASE ReadPlan(p) \/ ReadVehicleForPlan(p) \/ CalculateNextDue(p)
    BY <2>7, ReadPlanKnows, ReadVehicleForPlanKnows, CalculateNextDueKnows
  <2>8. CASE InsertPlan(p) \/ MergePlan(p) \/ WritePlan(p)
    BY <2>8, InsertPlanKnows, MergePlanKnows, WritePlanKnows
  <2>9. CASE ResolvePlan(p) \/ CheckVehicle(p) \/ ListPlans(p) \/ CreateAlert(p)
    BY <2>9, ResolvePlanKnows, CheckVehicleKnows, ListPlansKnows, CreateAlertKnows
  <2> QED
    BY <1>1, <2>1, <2>2, <2>3, <2>4, <2>5, <2>6, <2>7, <2>8, <2>9 DEF Step, Pairs
<1>2. CASE Tick \/ UNCHANGED vars
  BY <1>2, TickKnows
<1> QED
  BY <1>1, <1>2 DEF Next, Served

-------------------------------------------------------------------------------
(* What an undisturbed request leaves behind *)

LEMMA StepsAreOwn ==
    ASSUME IInv, NEW p \in Procs, NEW q \in Procs, p # q, Step(q)
    PROVE  req'[p] = req[p]
<1>1. \A r: Become(q, r) => req'[p] = req[p]
  BY DEF Become, IInv, TypeOK
<1>2. \A pc: Goto(q, pc) \/ Leave(q, pc) => req'[p] = req[p]
  BY <1>1 DEF Goto, Leave
<1>3. \A todo: Probing(q, todo) => req'[p] = req[p]
  BY <1>1 DEF Probing
<1>4. PlanFailed(q) => req'[p] = req[p]
  BY <1>1 DEF PlanFailed
<1>6. ASSUME NEW x \in Records, NEW i \in RecordInputs,
             CreateMaintenance(q, x, i) \/ ReadMaintenance(q, x, i)
      PROVE  req'[p] = req[p]
  BY <1>1, <1>6 DEF CreateMaintenance, ReadMaintenance
<1>7. ASSUME NEW x \in Records, DeleteMaintenance(q, x)
      PROVE  req'[p] = req[p]
  BY <1>7 DEF DeleteMaintenance
<1>8. ASSUME NEW v \in Vehicles, NEW i \in VehicleInputs, BeginUpdateVehicle(q, v, i)
      PROVE  req'[p] = req[p]
  BY <1>1, <1>8 DEF BeginUpdateVehicle
<1>9. ASSUME NEW l \in Plans, NEW i \in PlanInputs,
             BeginCreatePlan(q, l, i) \/ BeginUpdatePlan(q, l, i)
      PROVE  req'[p] = req[p]
  BY <1>1, <1>9 DEF BeginCreatePlan, BeginUpdatePlan
<1>10. ASSUME NEW l \in Plans, DeletePlan(q, l)
       PROVE  req'[p] = req[p]
  BY <1>10 DEF DeletePlan
<1>11. ASSUME NEW c \in Pairs, ResolveAlert(q, c) \/ Probe(q, c)
       PROVE  req'[p] = req[p]
  BY <1>1, <1>3, <1>11 DEF ResolveAlert, Probe
<1>12. CASE UpdateMaintenance(q) \/ ReadVehicle(q) \/ MergeVehicle(q) \/ WriteVehicle(q)
  BY <1>1, <1>2, <1>12 DEF UpdateMaintenance, ReadVehicle, MergeVehicle, WriteVehicle
<1>13. CASE ReadPlan(q) \/ ReadVehicleForPlan(q) \/ CalculateNextDue(q)
  BY <1>1, <1>2, <1>13 DEF ReadPlan, ReadVehicleForPlan, CalculateNextDue
<1>14. CASE InsertPlan(q) \/ MergePlan(q) \/ WritePlan(q)
  BY <1>1, <1>4, <1>14 DEF InsertPlan, MergePlan, WritePlan
<1>15. CASE ResolvePlan(q) \/ CheckVehicle(q) \/ ListPlans(q) \/ CreateAlert(q)
  BY <1>1, <1>2, <1>3, <1>15 DEF ResolvePlan, CheckVehicle, ListPlans, CreateAlert
<1> QED
  BY <1>6, <1>7, <1>8, <1>9, <1>10, <1>11, <1>12, <1>13, <1>14, <1>15 DEF Step, Pairs

\* A request that moves on does so by a step of its own.
LEMMA MovesItself ==
    ASSUME IInv, [Next]_vars, NEW p \in Procs, req'[p] # req[p]
    PROVE  Step(p)
<1>1. PICK q \in Procs: Step(q)
  BY DEF Next, Tick, Served, vars
<1> QED
  BY <1>1, StepsAreOwn

\* The statements whose place in the request matters here.
LEMMA StepAt ==
    ASSUME NEW p \in Procs, Step(p)
    PROVE  /\ req[p].pc = "vehicleWrite" => WriteVehicle(p)
           /\ req[p].pc = "planWrite" => WritePlan(p)
           /\ req[p].pc = "plans" => ListPlans(p)
           /\ req[p].pc = "probe" => \E c \in Pairs: Probe(p, c)
           /\ req[p].pc = "alert" => CreateAlert(p)
<1>1. BeginsReading(p) \/ BeginsWriting(p) => req[p].pc = "idle"
  BY DEF BeginsReading, BeginsWriting, Begin
<1>2. ASSUME NEW x \in Records, NEW i \in RecordInputs,
             CreateMaintenance(p, x, i) \/ ReadMaintenance(p, x, i)
      PROVE  req[p].pc = "idle"
  BY <1>1, <1>2 DEF CreateMaintenance, ReadMaintenance
<1>3. ASSUME NEW x \in Records, DeleteMaintenance(p, x)
      PROVE  req[p].pc = "idle"
  BY <1>1, <1>3 DEF DeleteMaintenance
<1>4. ASSUME NEW v \in Vehicles, NEW i \in VehicleInputs, BeginUpdateVehicle(p, v, i)
      PROVE  req[p].pc = "idle"
  BY <1>1, <1>4 DEF BeginUpdateVehicle
<1>5. ASSUME NEW l \in Plans, NEW i \in PlanInputs,
             BeginCreatePlan(p, l, i) \/ BeginUpdatePlan(p, l, i)
      PROVE  req[p].pc = "idle"
  BY <1>1, <1>5 DEF BeginCreatePlan, BeginUpdatePlan
<1>6. ASSUME NEW l \in Plans, DeletePlan(p, l)
      PROVE  req[p].pc = "idle"
  BY <1>1, <1>6 DEF DeletePlan
<1>7. ASSUME NEW c \in Pairs, ResolveAlert(p, c)
      PROVE  req[p].pc = "idle"
  BY <1>1, <1>7 DEF ResolveAlert
<1>8. \A c: Probe(p, c) => req[p].pc = "probe"
  BY DEF Probe
<1>9. /\ UpdateMaintenance(p) => req[p].pc = "recordWrite"
      /\ ReadVehicle(p) => req[p].pc = "effects"
      /\ MergeVehicle(p) => req[p].pc = "vehicleMerge"
      /\ WriteVehicle(p) => req[p].pc = "vehicleWrite"
      /\ ReadPlan(p) => req[p].pc = "plan"
      /\ ReadVehicleForPlan(p) => req[p].pc = "planVehicle"
      /\ CalculateNextDue(p) => req[p].pc \in {"due", "firstDue"}
  BY DEF UpdateMaintenance, ReadVehicle, MergeVehicle, WriteVehicle, ReadPlan,
         ReadVehicleForPlan, CalculateNextDue
<1>10. /\ InsertPlan(p) => req[p].pc = "planInsert"
       /\ MergePlan(p) => req[p].pc = "planMerge"
       /\ WritePlan(p) => req[p].pc = "planWrite"
       /\ ResolvePlan(p) => req[p].pc = "resolve"
       /\ CheckVehicle(p) => req[p].pc = "check"
       /\ ListPlans(p) => req[p].pc = "plans"
       /\ CreateAlert(p) => req[p].pc = "alert"
  BY DEF InsertPlan, MergePlan, WritePlan, ResolvePlan, CheckVehicle, ListPlans, CreateAlert
<1>11. \/ req[p].pc = "idle" \/ \E c \in Pairs: Probe(p, c)
       \/ UpdateMaintenance(p) \/ ReadVehicle(p) \/ MergeVehicle(p) \/ WriteVehicle(p)
       \/ ReadPlan(p) \/ ReadVehicleForPlan(p) \/ CalculateNextDue(p)
       \/ InsertPlan(p) \/ MergePlan(p) \/ WritePlan(p)
       \/ ResolvePlan(p) \/ CheckVehicle(p) \/ ListPlans(p) \/ CreateAlert(p)
  BY <1>2, <1>3, <1>4, <1>5, <1>6, <1>7 DEF Step, Pairs
<1> QED
  BY <1>8, <1>9, <1>10, <1>11

LEMMA DueOfsNext ==
    \A v: DueOf(v, vehicles[v].mileage)' = DueAt(plans', today', v, vehicles'[v].mileage)
  BY DEF DueOf, DueAt, Due, Reading, Live, Pairs

\* Everything that is due is alerted, and nothing else of the plan that was
\* serviced.
Alerted(p, due) ==
    /\ \A c \in due: active'[c] > 0
    /\ req[p].work # None => \A c \in Pairs: c[1] = req[p].plan /\ active'[c] > 0 => c \in due

LEMMA LastListPlans ==
    ASSUME IInv, HInv, NEW p \in Procs, ListPlans(p), req'[p].pc = "idle", alone'[p]
    PROVE  Alerted(p, DueAt(plans', today', req[p].vehicle, vehicles'[req[p].vehicle].mileage))
<1>1. req[p].pc = "plans" /\ ~Fails(p)
  BY DEF ListPlans, Fails, Fault, IInv, TypeOK
<1>2. PICK due: due = DueOf(req[p].vehicle, req[p].seen)
  OBVIOUS
<1>3. Probing(p, due) /\ Reads
  BY <1>1, <1>2 DEF ListPlans
<1>4. due \in SUBSET Pairs
  BY <1>2 DEF DueOf, Pairs
<1>5. due = {}
  BY <1>1, <1>3, <1>4, ProbingForm, Replacing
<1>6. UNCHANGED <<vehicles, plans, active, today>> /\ alone[p]
  BY <1>3 DEF Reads
<1>7. Knows(req[p], vehicles, plans, active, today)
  BY <1>6 DEF HInv
<1>8. req[p].seen = vehicles[req[p].vehicle].mileage
  BY <1>1, <1>7 DEF Knows
<1>9. DueAt(plans', today', req[p].vehicle, vehicles'[req[p].vehicle].mileage) = {}
  BY <1>2, <1>5, <1>6, <1>8, DueOfs
<1>10. req[p].work # None => \A c \in Pairs: c[1] = req[p].plan => active'[c] = 0
  BY <1>1, <1>6, <1>7 DEF Knows
<1> QED
  BY <1>9, <1>10 DEF Alerted

LEMMA LastProbe ==
    ASSUME IInv, HInv, NEW p \in Procs, NEW c \in Pairs, Probe(p, c),
           req'[p].pc = "idle", alone'[p]
    PROVE  Alerted(p, DueAt(plans', today', req[p].vehicle, vehicles'[req[p].vehicle].mileage))
<1>1. PICK r: r = [req[p] EXCEPT !.pc = "alert", !.todo = @ \ {c}, !.pair = c]
  OBVIOUS
<1>2. req[p].pc = "probe" /\ c \in req[p].todo /\ req[p] \in Request
  BY Inputs DEF Probe, Following, Shape
<1>3. r.pc = "alert"
  BY <1>1, <1>2, RequestFields
<1>4. ~Become(p, r)
  BY <1>3 DEF Become, IInv, TypeOK
<1>5. HasActive(c) /\ Probing(p, req[p].todo \ {c}) /\ Reads
  BY <1>1, <1>4 DEF Probe
<1>6. req[p].todo \ {c} \in SUBSET Pairs
  BY <1>2, RequestFields
<1>7. req[p].todo = {c}
  BY <1>2, <1>5, <1>6, ProbingForm, Replacing
<1>8. UNCHANGED <<vehicles, plans, active, today>> /\ alone[p]
  BY <1>5 DEF Reads
<1>9. PICK due: due = DueAt(plans, today, req[p].vehicle, vehicles[req[p].vehicle].mileage)
  OBVIOUS
<1>10. Probed(req[p], due, active)
  BY <1>2, <1>8, <1>9 DEF HInv, Knows
<1>11. active[c] > 0
  BY <1>5 DEF HasActive
<1>12. Alerted(p, due)
  BY <1>2, <1>7, <1>8, <1>10, <1>11 DEF Alerted, Probed
<1> QED
  BY <1>8, <1>9, <1>12

LEMMA LastCreateAlert ==
    ASSUME IInv, HInv, NEW p \in Procs, CreateAlert(p), req'[p].pc = "idle", alone'[p]
    PROVE  Alerted(p, DueAt(plans', today', req[p].vehicle, vehicles'[req[p].vehicle].mileage))
<1>1. req[p].pc = "alert" /\ ~Fails(p)
  BY DEF CreateAlert, Fails, Fault, IInv, TypeOK
<1>2. PICK due: due = DueAt(plans, today, req[p].vehicle, vehicles[req[p].vehicle].mileage)
  OBVIOUS
<1>3. PICK r: r = [pc |-> "idle", todo |-> req[p].todo, plan |-> req[p].plan,
                   work |-> req[p].work]
  OBVIOUS
<1>4. /\ r.pc = "idle" /\ r.todo = req[p].todo
      /\ r.plan = req[p].plan /\ r.work = req[p].work
  BY <1>3
<1>5. /\ Writes(p) /\ UNCHANGED <<vehicles, plans, today>>
      /\ req[p].todo \in SUBSET Pairs /\ Probing(p, req[p].todo)
  BY <1>1, Creating
<1>6. alone[p]
  BY <1>5 DEF Writes
<1>7. Probed(r, due, active')
  BY <1>1, <1>2, <1>4, <1>6, Creating
<1>8. req[p].todo = {}
  BY <1>1, <1>5, ProbingForm, Replacing
<1>9. Alerted(p, due)
  BY <1>4, <1>7, <1>8 DEF Alerted, Probed
<1> QED
  BY <1>2, <1>5, <1>9

LEMMA LastStep ==
    ASSUME IInv, HInv, [Next]_vars, NEW p \in Procs, EndsCheck(p), alone'[p],
           NEW v, req[p].vehicle = v
    PROVE  Alerted(p, DueOf(v, vehicles[v].mileage)')
<1>1. PICK due: due = DueAt(plans', today', req[p].vehicle, vehicles'[req[p].vehicle].mileage)
  OBVIOUS
<1>2. Step(p) /\ req'[p].pc = "idle" /\ req[p].pc \in {"plans", "probe", "alert"}
  BY MovesItself DEF EndsCheck
<1>3. ListPlans(p) \/ (\E c \in Pairs: Probe(p, c)) \/ CreateAlert(p)
  BY <1>2, StepAt
<1>4. Alerted(p, due)
  BY <1>1, <1>2, <1>3, LastListPlans, LastProbe, LastCreateAlert
<1>5. DueOf(v, vehicles[v].mileage)' = due
  BY <1>1, DueOfsNext
<1> QED
  BY <1>4, <1>5

-------------------------------------------------------------------------------
(* Theorems *)

\* The invariant: a request has read every value its next statement needs, and
\* the row it overwrites is there.
THEOREM InductiveInvariant == Spec => []IInv
  BY InitIInv, NextIInv, PTL DEF Spec

\* Whatever statements fail and however requests overlap, every table keeps its
\* types.
THEOREM TypeCorrect == Spec => []TypeOK
<1>1. IInv => TypeOK
  BY DEF IInv
<1> QED
  BY <1>1, InductiveInvariant, PTL

\* How many requests are between finding no alert of a pair and creating one.
AlertingAtMost(K) == \A c \in Pairs: Cardinality(Alerting(c)) <= K

AlertsFit(K) == \A c \in Pairs \ blind: Count(c) <= K

LEMMA InitAlertsFit ==
    ASSUME NEW K \in Nat, Init
    PROVE  AlertsFit(K)
<1>1. \A c \in Pairs: active[c] = 0 /\ Alerting(c) = {}
  BY IdleShape DEF Init, Pairs, Alerting
<1> QED
  BY <1>1, FS_EmptySet DEF AlertsFit, Count

LEMMA NextAlertsFit ==
    ASSUME NEW K \in Nat, IInv, AlertsFit(K), AlertingAtMost(K)', [Next]_vars
    PROVE  AlertsFit(K)'
<1> SUFFICES ASSUME NEW c \in Pairs \ blind' PROVE Count(c)' <= K
  BY DEF AlertsFit, Pairs
<1>1. c \notin blind /\ (Count(c)' <= Count(c) \/ active'[c] = 0) /\ active'[c] \in Nat
  BY NextKeeps DEF Kept, RisesFromZero, IInv, TypeOK, Pairs
<1>2. Count(c) \in Nat /\ Count(c)' \in Nat
  BY <1>1, AlertingIsCounted DEF Count, IInv, TypeOK, Pairs
<1>3. Count(c) <= K /\ Cardinality(Alerting(c)') <= K
  BY <1>1 DEF AlertsFit, AlertingAtMost, Pairs
<1> QED
  BY <1>1, <1>2, <1>3, AlertingIsCounted DEF Count

LEMMA FittingAlerts ==
    ASSUME NEW K \in Nat, IInv, AlertsFit(K), NEW c \in Pairs \ blind
    PROVE  active[c] <= K
<1>1. active[c] \in Nat /\ Count(c) <= K
  BY DEF AlertsFit, IInv, TypeOK, Pairs
<1> QED
  BY <1>1, AlertingIsCounted DEF Count

\* The race of checkPlanAlerts is the only source of extra alerts: with at most
\* K requests at a time between the look-up for a plan and kind and the INSERT,
\* it never has more than K, however many requests there are besides.
THEOREM AlertsBoundedPerPair ==
    ASSUME NEW K \in Nat
    PROVE  Spec /\ []AlertingAtMost(K) => [](\A c \in Pairs \ blind: active[c] <= K)
<1>1. Init => AlertsFit(K)
  BY InitAlertsFit
<1>2. IInv /\ AlertsFit(K) /\ AlertingAtMost(K)' /\ [Next]_vars => AlertsFit(K)'
  BY NextAlertsFit
<1>3. IInv /\ AlertsFit(K) => \A c \in Pairs \ blind: active[c] <= K
  BY FittingAlerts
<1> QED
  BY <1>1, <1>2, <1>3, InductiveInvariant, PTL DEF Spec

\* checkPlanAlerts asks before it creates: overlapping evaluations leave at most
\* one active alert each, and no later evaluation adds to them.
THEOREM AlertsAreBounded == Spec => []AlertsDoNotPileUp
<1> DEFINE K == Cardinality(Procs)
           Fit == AlertsFit(K)
<1>1. K \in Nat
  BY AlertingIsCounted
<1>2. AlertingAtMost(K)'
  BY AlertingIsCounted DEF AlertingAtMost, Pairs
<1>3. Init => Fit
  BY <1>1, InitAlertsFit
<1>4. IInv /\ Fit /\ [Next]_vars => Fit'
  BY <1>1, <1>2, NextAlertsFit
<1>5. IInv /\ Fit => AlertsDoNotPileUp
  BY <1>1, FittingAlerts DEF AlertsDoNotPileUp, Pairs
<1> HIDE DEF Fit
<1> QED
  BY <1>3, <1>4, <1>5, InductiveInvariant, PTL DEF Spec

AlertsAreUnique == \A c \in Pairs \ blind: active[c] <= 1

\* Evaluations that do not overlap between look-up and INSERT, or overlap on
\* different plans only, leave each plan and kind at most one active alert.
THEOREM ChecksAloneKeepAlertsUnique == Spec /\ []AlertingAtMost(1) => []AlertsAreUnique
<1>1. Init => AlertsFit(1)
  BY InitAlertsFit
<1>2. IInv /\ AlertsFit(1) /\ AlertingAtMost(1)' /\ [Next]_vars => AlertsFit(1)'
  BY NextAlertsFit
<1>3. IInv /\ AlertsFit(1) => AlertsAreUnique
  BY FittingAlerts DEF AlertsAreUnique
<1> QED
  BY <1>1, <1>2, <1>3, InductiveInvariant, PTL DEF Spec

\* As long as no other request has written and nothing has failed, what a
\* request has read still holds of the tables.
THEOREM HistoryInvariant == Spec => []HInv
  BY InductiveInvariant, InitHInv, NextHInv, PTL DEF Spec

\* CheckAlertsForVehicle after any undisturbed change of a record, a plan or a
\* mileage: whatever is due has an active alert when it returns.
THEOREM UndisturbedChecksAlert == Spec => UndisturbedCheckAlertsAll
<1> DEFINE Alerts == \A p \in Procs, v \in Vehicles:
                        EndsCheck(p) /\ alone'[p] /\ req[p].vehicle = v => AlertedIfDue(v)'
<1>1. IInv /\ HInv /\ [Next]_vars => [Alerts]_vars
  <2> SUFFICES ASSUME IInv, HInv, [Next]_vars, NEW p \in Procs, NEW v \in Vehicles,
                      EndsCheck(p), alone'[p], req[p].vehicle = v
               PROVE  AlertedIfDue(v)'
    OBVIOUS
  <2>1. Alerted(p, DueOf(v, vehicles[v].mileage)')
    BY LastStep
  <2> QED
    BY <2>1 DEF Alerted, AlertedIfDue
<1> QED
  BY <1>1, InductiveInvariant, HistoryInvariant, PTL DEF Spec, UndisturbedCheckAlertsAll

\* p creates the alert it has found missing.
Alerts(p, c) == req[p].pc = "alert" /\ req[p].pair = c /\ req'[p] # req[p]

UndisturbedAlertsAreNeeded ==
    [][\A p \in Procs, v \in Vehicles, c \in Pairs:
        Alerts(p, c) /\ alone'[p] /\ req[p].vehicle = v
        => /\ active[c] = 0 /\ active'[c] = 1
           /\ c \in DueOf(v, vehicles[v].mileage)']_vars

\* The other half: an undisturbed evaluation creates no alert that is not needed.
\* The pair is due when the alert is stored, and has no other one.
THEOREM UndisturbedChecksAlertOnlyWhatIsDue == Spec => UndisturbedAlertsAreNeeded
<1> DEFINE Needed == \A p \in Procs, v \in Vehicles, c \in Pairs:
                        Alerts(p, c) /\ alone'[p] /\ req[p].vehicle = v
                        => /\ active[c] = 0 /\ active'[c] = 1
                           /\ c \in DueOf(v, vehicles[v].mileage)'
<1>1. IInv /\ HInv /\ [Next]_vars => [Needed]_vars
  <2> SUFFICES ASSUME IInv, HInv, [Next]_vars,
                      NEW p \in Procs, NEW v \in Vehicles, NEW c \in Pairs,
                      Alerts(p, c), alone'[p], req[p].vehicle = v
               PROVE  /\ active[c] = 0 /\ active'[c] = 1
                      /\ c \in DueOf(v, vehicles[v].mileage)'
    OBVIOUS
  <2>1. CreateAlert(p) /\ ~Fails(p)
    BY MovesItself, StepAt DEF Alerts, Fails, Fault, IInv, TypeOK
  <2>2. /\ active' = [active EXCEPT ![c] = @ + 1] /\ Writes(p)
        /\ UNCHANGED <<vehicles, plans, today>>
    BY <2>1 DEF CreateAlert, Alerts
  <2>3. alone[p]
    BY <2>2 DEF Writes
  <2>4. active[c] = 0 /\ c \in DueAt(plans, today, v, vehicles[v].mileage)
    BY <2>3 DEF HInv, Knows, Probed, Alerts
  <2>5. c \in DueOf(v, vehicles[v].mileage)'
    BY <2>2, <2>4, DueOfsNext
  <2>6. active'[c] = 1
    BY <2>2, <2>4 DEF IInv, TypeOK, Pairs
  <2> QED
    BY <2>4, <2>5, <2>6
<1> QED
  BY <1>1, InductiveInvariant, HistoryInvariant, PTL DEF Spec, UndisturbedAlertsAreNeeded

\* handleMaintenanceSideEffects of a completed preventive record resolves the
\* plan's alerts before it evaluates: what remains is due again.
THEOREM CompletedWorkEndsAlerts == Spec => CompletionEndsAlerts
<1> DEFINE Quiet == \A p \in Procs, l \in Plans:
                       /\ EndsCheck(p) /\ alone'[p]
                       /\ req[p].work # None /\ req[p].plan = l
                       /\ Live(plans[l])
                       => QuietUnlessDue(l)'
<1>1. IInv /\ HInv /\ [Next]_vars => [Quiet]_vars
  <2> SUFFICES ASSUME IInv, HInv, [Next]_vars, NEW p \in Procs, NEW l \in Plans,
                      EndsCheck(p), alone'[p], req[p].work # None, req[p].plan = l
               PROVE  QuietUnlessDue(l)'
    OBVIOUS
  <2>1. PICK v: v = req[p].vehicle
    OBVIOUS
  <2>2. Alerted(p, DueOf(v, vehicles[v].mileage)')
    BY <2>1, LastStep
  <2>3. ASSUME NEW k \in Kinds, active'[<<l, k>>] > 0
        PROVE  Due(<<l, k>>, vehicles[plans[l].vehicle].mileage)'
    <3>1. <<l, k>> \in DueOf(v, vehicles[v].mileage)'
      BY <2>2, <2>3 DEF Alerted, Pairs
    <3>2. plans'[l].vehicle = v /\ Due(<<l, k>>, vehicles[v].mileage)'
      BY <3>1 DEF DueOf
    <3> QED
      BY <3>2 DEF Due
  <2> QED
    BY <2>3 DEF QuietUnlessDue
<1> QED
  BY <1>1, InductiveInvariant, HistoryInvariant, PTL DEF Spec, CompletionEndsAlerts

\* handleMaintenanceSideEffects compares the odometer reading with the mileage,
\* reads the row a second time and writes it: undisturbed, it only raises it.
THEOREM UndisturbedWorkRaisesMileage == Spec => UndisturbedMileageNeverFalls
<1> DEFINE Raises == \A p \in Procs, v \in Vehicles:
                        /\ req[p].pc = "vehicleWrite" /\ req[p].work # None /\ alone'[p]
                        /\ req'[p] # req[p] /\ req[p].vehicle = v
                        => vehicles'[v].mileage >= vehicles[v].mileage
<1>1. IInv /\ HInv /\ [Next]_vars => [Raises]_vars
  <2> SUFFICES ASSUME IInv, HInv, [Next]_vars, NEW p \in Procs,
                      req[p].pc = "vehicleWrite", req[p].work # None, alone'[p],
                      req'[p] # req[p], req[p].vehicle \in Vehicles
               PROVE  vehicles'[req[p].vehicle].mileage >= vehicles[req[p].vehicle].mileage
    OBVIOUS
  <2>1. WriteVehicle(p) /\ ~Fails(p)
    BY MovesItself, StepAt DEF Fails, Fault, IInv, TypeOK
  <2>2. vehicles' = [vehicles EXCEPT ![req[p].vehicle] = req[p].car] /\ Writes(p)
    BY <2>1 DEF WriteVehicle
  <2>3. alone[p]
    BY <2>2 DEF Writes
  <2>4. req[p].car.mileage >= vehicles[req[p].vehicle].mileage
    BY <2>3 DEF HInv, Knows
  <2>5. vehicles'[req[p].vehicle] = req[p].car
    BY <2>2 DEF IInv, TypeOK
  <2> QED
    BY <2>4, <2>5
<1> QED
  BY <1>1, InductiveInvariant, HistoryInvariant, PTL DEF Spec, UndisturbedMileageNeverFalls

\* UpdatePlan and the side effects calculate the due point from one read of the
\* plan and merge it into another: undisturbed, the row written is consistent.
THEOREM UndisturbedPlansAreConsistent == Spec => UndisturbedPlanIsConsistent
<1> DEFINE Agrees == \A p \in Procs, l \in Plans:
                        /\ req[p].pc = "planWrite" /\ alone'[p] /\ req'[p] # req[p]
                        /\ req[p].plan = l
                        => Consistent(plans'[l])
<1>1. IInv /\ HInv /\ [Next]_vars => [Agrees]_vars
  <2> SUFFICES ASSUME IInv, HInv, [Next]_vars, NEW p \in Procs,
                      req[p].pc = "planWrite", alone'[p], req'[p] # req[p]
               PROVE  Consistent(plans'[req[p].plan])
    OBVIOUS
  <2>1. WritePlan(p) /\ ~Fails(p)
    BY MovesItself, StepAt DEF Fails, Fault, IInv, TypeOK
  <2>2. PICK row \in Plan:
            /\ plans' = [plans EXCEPT ![req[p].plan] = row] /\ Writes(p)
            /\ (alone[p] => Consistent(row)) /\ req[p].plan \in Plans
    BY <2>1, WritingAPlan
  <2>3. alone[p]
    BY <2>2 DEF Writes
  <2>4. plans'[req[p].plan] = row
    BY <2>2 DEF IInv, TypeOK
  <2> QED
    BY <2>2, <2>3, <2>4
<1> QED
  BY <1>1, InductiveInvariant, HistoryInvariant, PTL DEF Spec, UndisturbedPlanIsConsistent
===============================================================================
