--------------------------------- MODULE Fuel ---------------------------------
(***************************************************************************)
(* Fuel records: internal/usecase/fuel_usecase.go over the table           *)
(* fuel_records.  A creation compares the odometer with the latest record  *)
(* of the vehicle, inserts, and then reads the latest records again to     *)
(* judge its own consumption; an update compares, looks again when the     *)
(* comparison fails, and replaces the row.  Every one of these is a        *)
(* statement of its own.                                                   *)
(*                                                                         *)
(* Bodies that validateFuelInput refuses change nothing and are left out.  *)
(* Liters divide the constant Unit, so that a consumption is a natural     *)
(* number of kilometers per Unit liters.                                   *)
(***************************************************************************)
EXTENDS Naturals, FiniteSets, SequencesExt

CONSTANTS Vehicles,
          Ids,        \* record ids: uuids, never drawn twice
          Procs,      \* concurrent requests
          Bodies,     \* bodies of POST and PUT records
          Past,       \* the rows of the table at the start
          Unit,
          Window,     \* how many records the detection reads (8)
          MinPrior,   \* how many others it needs (3)
          Baseline,   \* how many consumptions it averages (5)
          MaxFaults,    \* bound on the statements that return an error
          MaxRequests,  \* bound on the requests that are served
          NoRow, NoId, NoBody

\* Date 0 is the zero time that an update without date writes.
Body == [vehicle: Vehicles, date: Nat, odometer: Nat, liters: Nat \ {0}]
Row == [vehicle: Vehicles, date: Nat, odometer: Nat, liters: Nat \ {0},
        anomaly: BOOLEAN,
        recent: BOOLEAN,   \* created within the last 24 hours
        live: BOOLEAN]

\* No live record of a vehicle reads less than another of its date or an
\* earlier one.
NeverRegresses(rows) ==
    \A i, j \in Ids:
        /\ rows[i] # NoRow /\ rows[j] # NoRow
        /\ rows[i].live /\ rows[j].live
        /\ rows[i].vehicle = rows[j].vehicle /\ rows[i].date <= rows[j].date
        => rows[i].odometer <= rows[j].odometer

ASSUME FuelAssumption ==
    /\ IsFiniteSet(Ids)
    /\ Bodies \subseteq Body
    /\ Past \in [Ids -> Row \cup {NoRow}] /\ NeverRegresses(Past)
    /\ Unit \in Nat /\ Window \in Nat /\ MinPrior \in Nat \ {0} /\ Baseline \in Nat
    /\ MaxFaults \in Nat /\ MaxRequests \in Nat
    /\ NoRow \notin Row /\ NoId \notin Ids /\ NoBody \notin Body

VARIABLES rows,     \* the table fuel_records
          req,      \* the request each process is serving
          begun,    \* the number of requests so far
          faults,   \* the number of failed statements so far
          alone,    \* history: no other request has written since this one began
          inOrder   \* history: every write so far kept the order of dates

vars == <<rows, req, begun, faults, alone, inOrder>>

Request == [pc: {"idle", "check", "insert", "detect", "flag",
                 "editCheck", "editLook", "edit"},
            id: Ids \cup {NoId},
            body: Body \cup {NoBody}]

Idle == [pc |-> "idle", id |-> NoId, body |-> NoBody]

Init ==
    /\ rows = Past
    /\ req = [p \in Procs |-> Idle]
    /\ begun = 0 /\ faults = 0
    /\ alone = [p \in Procs |-> TRUE]
    /\ inOrder = TRUE

-------------------------------------------------------------------------------

Live(i) == rows[i] # NoRow /\ rows[i].live

RecordsOf(v) == {i \in Ids: Live(i) /\ rows[i].vehicle = v}

\* Mutant: the oldest records come first.
OldestIn(S) == {i \in S: \A j \in S: rows[i].date <= rows[j].date}

\* ORDER BY date DESC: what may come first, equal dates in any order.
LatestIn(S) == {i \in S: \A j \in S: rows[j].date <= rows[i].date}

LatestOf(v) == LatestIn(RecordsOf(v))

\* GetLastNByVehicle
LastN(v) ==
    LET Orders[S \in SUBSET Ids] ==
            IF S = {} THEN {<<>>}
            ELSE UNION {{<<i>> \o t: t \in Orders[S \ {i}]}: i \in LatestIn(S)}
    IN {SubSeq(s, 1, IF Len(s) < Window THEN Len(s) ELSE Window): s \in Orders[RecordsOf(v)]}

Become(p, r) == req' = [req EXCEPT ![p] = r]

Goto(p, pc) == Become(p, [req[p] EXCEPT !.pc = pc])

Reads == UNCHANGED <<rows, begun, faults, alone, inOrder>>

Writes(p) == alone' = [q \in Procs |-> q = p /\ alone[q]]

Begin(p) ==
    /\ req[p].pc = "idle" /\ begun < MaxRequests
    /\ begun' = begun + 1
    /\ UNCHANGED <<faults, inOrder>>

\* A request whose first statement only reads.
BeginsReading(p) ==
    /\ Begin(p)
    /\ alone' = [alone EXCEPT ![p] = TRUE]
    /\ UNCHANGED rows

\* Any statement may fail.  Before the row is written the request then ends
\* with the error, afterwards the detection only logs it; a flag that fails
\* leaves the record as it is.
Fail(p) ==
    /\ req[p].pc # "idle" /\ faults < MaxFaults
    /\ faults' = faults + 1
    /\ IF req[p].pc = "editCheck" THEN Goto(p, "editLook") ELSE Become(p, Idle)
    /\ UNCHANGED <<rows, begun, alone, inOrder>>

-------------------------------------------------------------------------------
(* Creation *)

\* Mutant: liters are cut down to whole units.
RowOfUnits(b, recent) ==
    [vehicle |-> b.vehicle, date |-> b.date, odometer |-> b.odometer,
     liters |-> b.liters \div Unit, anomaly |-> FALSE, recent |-> recent, live |-> TRUE]

RowOf(b, recent) ==
    [vehicle |-> b.vehicle, date |-> b.date, odometer |-> b.odometer,
     liters |-> b.liters, anomaly |-> FALSE, recent |-> recent, live |-> TRUE]

\* POST requires a date.
BeginCreate(p, b) ==
    /\ b.date > 0
    /\ BeginsReading(p)
    /\ Become(p, [Idle EXCEPT !.pc = "check", !.body = b])

\* validateOdometerNotRegressed
NotRegressed(b) ==
    \/ RecordsOf(b.vehicle) = {}
    \/ \E i \in LatestOf(b.vehicle): b.odometer >= rows[i].odometer

Regressed(b) == \E i \in LatestOf(b.vehicle): b.odometer < rows[i].odometer

CheckOdometer(p) ==
    LET b == req[p].body IN
    /\ req[p].pc = "check"
    /\ \/ NotRegressed(b) /\ Goto(p, "insert")
       \/ Regressed(b) /\ Become(p, Idle)
    /\ Reads

\* A uuid that is not in use; which one makes no difference.
Fresh == CHOOSE i \in Ids: rows[i] = NoRow

IsLatest(b) == \A i \in RecordsOf(b.vehicle): rows[i].date < b.date

Insert(p, i) ==
    LET b == req[p].body IN
    /\ req[p].pc = "insert" /\ rows[i] = NoRow /\ i = Fresh
    /\ rows' = [rows EXCEPT ![i] = RowOf(b, TRUE)]
    /\ Become(p, [req[p] EXCEPT !.pc = "detect", !.id = i])
    /\ Writes(p)
    /\ inOrder' = (inOrder /\ alone[p] /\ IsLatest(b))
    /\ UNCHANGED <<begun, faults>>

\* Kilometers per Unit liters between record m and the one before it, over a
\* list from the latest to the oldest; 0 when they cannot be told.
Consumption(list, m) ==
    LET here == rows[list[m]]
        before == rows[list[m + 1]].odometer IN
    IF here.odometer > before THEN (here.odometer - before) * (Unit \div here.liters) ELSE 0

Consumptions(list) ==
    {m \in 1..(Len(list) - 1): m <= Baseline /\ Consumption(list, m) > 0}

\* |current - average| / average > 0.30, over whole numbers.
Deviates(current, n, sum) ==
    IF current * n > sum THEN 10 * (current * n - sum) > 3 * sum
                         ELSE 10 * (sum - current * n) > 3 * sum

\* runAnomalyDetection: judged against the latest other record, and the
\* consumptions between the others.
Anomalous(b, prior) ==
    LET used == Consumptions(prior)
        sum == FoldSet(LAMBDA m, acc: Consumption(prior, m) + acc, 0, used)
        before == rows[prior[1]].odometer IN
    /\ Len(prior) >= MinPrior
    /\ b.odometer > before
    /\ used # {}
    /\ Deviates((b.odometer - before) * (Unit \div b.liters), Cardinality(used), sum)

Detect(p) ==
    LET r == req[p] IN
    /\ r.pc = "detect"
    /\ \E list \in LastN(r.body.vehicle):
        IF Anomalous(r.body, SelectSeq(list, LAMBDA i: i # r.id))
        THEN Goto(p, "flag") ELSE Become(p, Idle)
    /\ Reads

\* Mutant: deleted rows are updated as well.
ReplacedDeletedToo(i, row) == [rows EXCEPT ![i] = row]

\* fuelRepo.Update: all columns but created_at and deleted_at, of a row that is
\* not deleted.
Replaced(i, row) ==
    IF Live(i) THEN [rows EXCEPT ![i] = [row EXCEPT !.recent = rows[i].recent]] ELSE rows

\* Mutant: the date is left out of the row that is written back.
FlaggedWithoutDate(b) == [RowOf(b, TRUE) EXCEPT !.anomaly = TRUE, !.date = 0]

\* The record as it was created, flagged.
Flagged(b) == [RowOf(b, TRUE) EXCEPT !.anomaly = TRUE]

KeepsOrder(i) ==
    rows' # rows => /\ rows'[i].date = rows[i].date
                    /\ rows'[i].odometer = rows[i].odometer
                    /\ rows'[i].vehicle = rows[i].vehicle

Flag(p) ==
    LET r == req[p] IN
    /\ r.pc = "flag"
    /\ rows' = Replaced(r.id, Flagged(r.body))
    /\ Become(p, Idle)
    /\ Writes(p)
    /\ inOrder' = (inOrder /\ KeepsOrder(r.id))
    /\ UNCHANGED <<begun, faults>>

-------------------------------------------------------------------------------
(* Update and deletion *)

\* GetByID and the 24 hours of an operator; an odometer and vehicle that stay
\* the same are not compared.
BeginUpdate(p, i, b, privileged) ==
    /\ Live(i)
    /\ privileged \/ rows[i].recent
    /\ BeginsReading(p)
    /\ Become(p, [id |-> i, body |-> b,
                  pc |-> IF b.odometer = rows[i].odometer /\ b.vehicle = rows[i].vehicle
                         THEN "edit" ELSE "editCheck"])

CheckEdit(p) ==
    LET b == req[p].body IN
    /\ req[p].pc = "editCheck"
    /\ \/ NotRegressed(b) /\ Goto(p, "edit")
       \/ Regressed(b) /\ Goto(p, "editLook")
    /\ Reads

\* A second look: the reading may regress against the record itself.
LookAgain(p) ==
    LET latest == LatestOf(req[p].body.vehicle) IN
    /\ req[p].pc = "editLook"
    /\ \/ req[p].id \in latest /\ Goto(p, "edit")
       \/ latest # {req[p].id} /\ Become(p, Idle)
    /\ Reads

\* The row becomes what the body says, a missing date and the flag included.
Edit(p) ==
    LET r == req[p] IN
    /\ r.pc = "edit"
    /\ rows' = Replaced(r.id, RowOf(r.body, TRUE))
    /\ Become(p, Idle)
    /\ Writes(p)
    /\ inOrder' = (inOrder /\ KeepsOrder(r.id))
    /\ UNCHANGED <<begun, faults>>

Delete(p, i) ==
    /\ Live(i)
    /\ Begin(p)
    /\ rows' = [rows EXCEPT ![i].live = FALSE]
    /\ Writes(p)
    /\ UNCHANGED req

\* A record turns 24 hours old.
Age(i) ==
    /\ Live(i) /\ rows[i].recent
    /\ rows' = [rows EXCEPT ![i].recent = FALSE]
    /\ UNCHANGED <<req, begun, faults, alone, inOrder>>

Step(p) ==
    \/ \E b \in Bodies: BeginCreate(p, b)
    \/ \E i \in Ids, b \in Bodies, privileged \in BOOLEAN: BeginUpdate(p, i, b, privileged)
    \/ CheckOdometer(p) \/ Detect(p) \/ Flag(p)
    \/ CheckEdit(p) \/ LookAgain(p) \/ Edit(p)
    \/ \E i \in Ids: Insert(p, i) \/ Delete(p, i)
    \/ Fail(p)

\* The bound on the requests is reached and all have been answered.
Served == begun = MaxRequests /\ (\A p \in Procs: req[p] = Idle) /\ UNCHANGED vars

Next == (\E p \in Procs: Step(p)) \/ (\E i \in Ids: Age(i)) \/ Served

Spec == Init /\ [][Next]_vars

-------------------------------------------------------------------------------
(* Properties *)

TypeOK ==
    /\ rows \in [Ids -> Row \cup {NoRow}]
    /\ req \in [Procs -> Request]
    /\ begun \in Nat /\ faults \in Nat
    /\ alone \in [Procs -> BOOLEAN]
    /\ inOrder \in BOOLEAN
    /\ \A p \in Procs:
        /\ req[p].pc # "idle" => req[p].body \in Body
        /\ req[p].pc \in {"detect", "flag", "edit", "editCheck", "editLook"}
             => req[p].id \in Ids

(***************************************************************************)
(* A reading is compared with one record only, the latest by date.  That   *)
(* is enough as long as records are created one after the other, each      *)
(* dated after all others of its vehicle, and edits leave date, reading    *)
(* and vehicle alone: then no reading is lower than an earlier one, in     *)
(* spite of deletions and of flags written after the fact.                 *)
(***************************************************************************)
InOrderRecordsNeverRegress == inOrder => NeverRegresses(rows)

(***************************************************************************)
(* A deleted record is not touched any more, although updates and flags    *)
(* that found it alive may still be under way.                             *)
(***************************************************************************)
DeletedRecordsStay ==
    [][\A i \in Ids: rows[i] # NoRow /\ ~rows[i].live => rows'[i] = rows[i]]_vars

SameReadings(a, b) ==
    /\ a.vehicle = b.vehicle /\ a.date = b.date
    /\ a.odometer = b.odometer /\ a.liters = b.liters

(***************************************************************************)
(* The flag is written with a copy of the whole record.  It changes        *)
(* nothing else of the record unless somebody wrote between the insertion  *)
(* and the flag.                                                           *)
(***************************************************************************)
UndisturbedFlagKeepsReadings ==
    [][\A p \in Procs, i \in Ids:
        req[p].pc = "flag" /\ req'[p] # req[p] /\ req[p].id = i /\ alone'[p]
            => SameReadings(rows'[i], rows[i])]_vars

(***************************************************************************)
(* The rest is what the repository says and the code does not deliver.     *)
(***************************************************************************)

\* fuel_usecase.go:185: "compare against the prior record for this vehicle,
\* excluding the record being updated itself".
EditsCompareWithPrior ==
    [][\A p \in Procs, i \in Ids:
        /\ req[p].pc = "edit" /\ req'[p] # req[p] /\ req[p].id = i /\ alone[p]
        /\ rows'[i].odometer # rows[i].odometer /\ rows'[i].vehicle = rows[i].vehicle
        => \A j \in RecordsOf(rows[i].vehicle) \ {i}:
            rows[j].date < rows[i].date => rows[j].odometer <= rows'[i].odometer]_vars

\* fuel_handler.go:204: "use case reads existing values for unset fields".
UnsetDateIsKept ==
    [][\A i \in Ids: Live(i) /\ rows[i].date > 0 => rows'[i].date > 0]_vars
===============================================================================
