------------------------------- MODULE FuelProofs -------------------------------
(***************************************************************************)
(* Proofs about Fuel for every set of vehicles, records, bodies and        *)
(* concurrent requests, and whatever the anomaly detection decides.        *)
(***************************************************************************)
EXTENDS Fuel, TLAPS

\* A creation that nobody disturbed has been compared with the rows there are.
InsertsWereCompared ==
    \A p \in Procs: req[p].pc = "insert" /\ alone[p] => NotRegressed(req[p].body)

\* A creation that nobody disturbed finds its row as it wrote it.
FlagsKnowTheirRow ==
    \A p \in Procs: req[p].pc \in {"detect", "flag"} /\ alone[p] =>
        SameReadings(RowOf(req[p].body, TRUE), rows[req[p].id])

IInv == TypeOK /\ InsertsWereCompared /\ FlagsKnowTheirRow /\ InOrderRecordsNeverRegress

-------------------------------------------------------------------------------

Shape(r) ==
    /\ r \in Request
    /\ r.pc # "idle" => r.body \in Body
    /\ r.pc \in {"detect", "flag", "edit", "editCheck", "editLook"} => r.id \in Ids

LEMMA IdleShape == Shape(Idle) /\ Idle.pc = "idle"
  BY DEF Shape, Idle, Request

LEMMA RowsAreRows ==
    ASSUME NEW b \in Body, NEW recent \in BOOLEAN
    PROVE  /\ RowOf(b, recent) \in Row /\ RowOf(b, recent) # NoRow
           /\ RowOf(b, recent).live /\ RowOf(b, recent).vehicle = b.vehicle
           /\ RowOf(b, recent).date = b.date /\ RowOf(b, recent).odometer = b.odometer
<1>1. RowOf(b, recent) \in Row
  BY DEF RowOf, Row, Body
<1>2. RowOf(b, recent) # NoRow
  BY <1>1, FuelAssumption
<1> QED
  BY <1>1, <1>2 DEF RowOf

LEMMA InitIInv == Init => IInv
<1> SUFFICES ASSUME Init PROVE IInv
  OBVIOUS
<1> USE DEF Init
<1>1. \A p \in Procs: req[p] = Idle /\ req[p].pc = "idle" /\ req[p] \in Request
  BY IdleShape DEF Shape
<1>2. TypeOK
  BY <1>1, FuelAssumption, IdleShape DEF TypeOK, Shape
<1>3. InsertsWereCompared /\ FlagsKnowTheirRow
  BY <1>1 DEF InsertsWereCompared, FlagsKnowTheirRow
<1>4. InOrderRecordsNeverRegress
  BY FuelAssumption DEF InOrderRecordsNeverRegress
<1> QED
  BY <1>2, <1>3, <1>4 DEF IInv

LEMMA Replacing ==
    ASSUME TypeOK, NEW p \in Procs, NEW r, Shape(r), Become(p, r)
    PROVE  /\ req' \in [Procs -> Request]
           /\ req'[p] = r /\ \A q \in Procs: q # p => req'[q] = req[q]
           /\ \A q \in Procs: Shape(req'[q])
  BY DEF TypeOK, Shape, Become

\* Tables and readings stand still while a request reads.
LEMMA ReadingKeeps ==
    ASSUME IInv, NEW p \in Procs, NEW r, Shape(r), Become(p, r),
           UNCHANGED <<rows, inOrder>>, begun' \in Nat, faults' \in Nat,
           alone' \in [Procs -> BOOLEAN], \A q \in Procs: q # p => alone'[q] = alone[q],
           r.pc = "insert" /\ alone'[p] => NotRegressed(r.body),
           r.pc \in {"detect", "flag"} /\ alone'[p] =>
               SameReadings(RowOf(r.body, TRUE), rows[r.id])
    PROVE  IInv'
<1>1. /\ req' \in [Procs -> Request] /\ \A q \in Procs: Shape(req'[q])
      /\ req'[p] = r /\ \A q \in Procs: q # p => req'[q] = req[q]
  BY Replacing DEF IInv
<1>2. TypeOK'
  BY <1>1 DEF IInv, TypeOK, Shape
<1>3. \A b: NotRegressed(b)' = NotRegressed(b)
  BY DEF NotRegressed, RecordsOf, LatestOf, LatestIn, Live
<1>4. InsertsWereCompared'
  BY <1>1, <1>3 DEF IInv, InsertsWereCompared
<1>5. FlagsKnowTheirRow'
  BY <1>1 DEF IInv, FlagsKnowTheirRow
<1>6. InOrderRecordsNeverRegress'
  BY DEF IInv, InOrderRecordsNeverRegress, NeverRegresses
<1> QED
  BY <1>2, <1>4, <1>5, <1>6 DEF IInv

\* A write disturbs everybody else.
LEMMA WritingKeeps ==
    ASSUME IInv, NEW p \in Procs, NEW r, Shape(r), Become(p, r), Writes(p),
           rows' \in [Ids -> Row \cup {NoRow}], inOrder' \in BOOLEAN,
           begun' \in Nat, faults' \in Nat, r.pc # "insert",
           r.pc \in {"detect", "flag"} => SameReadings(RowOf(r.body, TRUE), rows'[r.id]),
           inOrder' => NeverRegresses(rows')
    PROVE  IInv'
<1>1. /\ req' \in [Procs -> Request] /\ \A q \in Procs: Shape(req'[q])
      /\ req'[p] = r /\ \A q \in Procs: q # p => req'[q] = req[q]
  BY Replacing DEF IInv
<1>2. alone' \in [Procs -> BOOLEAN] /\ \A q \in Procs: alone'[q] => q = p
  BY DEF IInv, TypeOK, Writes
<1>3. TypeOK'
  BY <1>1, <1>2 DEF TypeOK, Shape
<1>4. InsertsWereCompared'
  BY <1>1, <1>2 DEF InsertsWereCompared
<1>5. FlagsKnowTheirRow'
  BY <1>1, <1>2 DEF FlagsKnowTheirRow
<1>6. InOrderRecordsNeverRegress'
  BY DEF InOrderRecordsNeverRegress
<1> QED
  BY <1>3, <1>4, <1>5, <1>6 DEF IInv

LEMMA RequestsHaveShape ==
    ASSUME IInv, NEW p \in Procs
    PROVE  /\ Shape(req[p])
           /\ \A pc \in {"idle", "insert", "flag", "edit", "editLook"}:
                /\ [req[p] EXCEPT !.pc = pc] \in Request
                /\ [req[p] EXCEPT !.pc = pc].pc = pc
                /\ [req[p] EXCEPT !.pc = pc].id = req[p].id
                /\ [req[p] EXCEPT !.pc = pc].body = req[p].body
  BY DEF IInv, TypeOK, Shape, Request

-------------------------------------------------------------------------------
(* The requests *)

LEMMA BeginKeeps ==
    ASSUME IInv, NEW p \in Procs, NEW r, Shape(r), Become(p, r), BeginsReading(p),
           r.pc \notin {"insert", "detect", "flag"}
    PROVE  IInv'
<1>1. /\ UNCHANGED <<rows, inOrder>> /\ begun' \in Nat /\ faults' \in Nat
      /\ alone' \in [Procs -> BOOLEAN] /\ \A q \in Procs: q # p => alone'[q] = alone[q]
  BY DEF BeginsReading, Begin, IInv, TypeOK
<1> QED
  BY <1>1, ReadingKeeps

LEMMA BeginCreateKeeps ==
    ASSUME IInv, NEW p \in Procs, NEW b \in Bodies, BeginCreate(p, b)
    PROVE  IInv'
<1> DEFINE r == [Idle EXCEPT !.pc = "check", !.body = b]
<1>1. b \in Body
  BY FuelAssumption
<1>2. r \in Request /\ r.pc = "check" /\ r.body = b
  BY <1>1 DEF Idle, Request
<1>3. Shape(r) /\ Become(p, r) /\ BeginsReading(p)
  BY <1>1, <1>2 DEF Shape, BeginCreate
<1> QED
  BY <1>2, <1>3, BeginKeeps

LEMMA BeginUpdateKeeps ==
    ASSUME IInv, NEW p \in Procs, NEW i \in Ids, NEW b \in Bodies, NEW privileged \in BOOLEAN,
           BeginUpdate(p, i, b, privileged)
    PROVE  IInv'
<1>1. b \in Body
  BY FuelAssumption
<1>2. PICK pc \in {"edit", "editCheck"}: Become(p, [id |-> i, body |-> b, pc |-> pc])
  BY DEF BeginUpdate
<1> DEFINE r == [id |-> i, body |-> b, pc |-> pc]
<1>3. Shape(r) /\ r.pc \notin {"insert", "detect", "flag"} /\ BeginsReading(p)
  BY <1>1 DEF Shape, Request, BeginUpdate
<1> QED
  BY <1>2, <1>3, BeginKeeps

\* A request moves on, or ends, without writing.
LEMMA MoveKeeps ==
    ASSUME IInv, NEW p \in Procs, NEW r, Shape(r), Become(p, r),
           UNCHANGED <<rows, inOrder, alone>>, begun' \in Nat, faults' \in Nat,
           r.pc = "insert" => NotRegressed(r.body),
           r.pc \in {"detect", "flag"} =>
               req[p].pc = "detect" /\ r.body = req[p].body /\ r.id = req[p].id
    PROVE  IInv'
<1>1. r.pc \in {"detect", "flag"} /\ alone'[p] => SameReadings(RowOf(r.body, TRUE), rows[r.id])
  BY DEF IInv, FlagsKnowTheirRow
<1>2. alone' \in [Procs -> BOOLEAN] /\ \A q \in Procs: q # p => alone'[q] = alone[q]
  BY DEF IInv, TypeOK
<1> QED
  BY <1>1, <1>2, ReadingKeeps

LEMMA ReadsKeep ==
    ASSUME IInv, NEW p \in Procs,
           CheckOdometer(p) \/ Detect(p) \/ CheckEdit(p) \/ LookAgain(p)
    PROVE  IInv'
<1>1. UNCHANGED <<rows, inOrder, alone>> /\ begun' \in Nat /\ faults' \in Nat
  BY DEF CheckOdometer, Detect, CheckEdit, LookAgain, Reads, IInv, TypeOK
<1>2. ASSUME Become(p, Idle) PROVE IInv'
  BY <1>1, <1>2, IdleShape, MoveKeeps
<1>3. ASSUME NEW pc \in {"insert", "flag", "edit", "editLook"}, Goto(p, pc),
             req[p].pc # "idle",
             pc = "insert" => NotRegressed(req[p].body),
             pc = "flag" => req[p].pc = "detect",
             pc \in {"edit", "editLook"} => req[p].id \in Ids
      PROVE  IInv'
  <2> DEFINE r == [req[p] EXCEPT !.pc = pc]
  <2>0. req[p] \in Request /\ Shape(req[p])
    BY RequestsHaveShape DEF Shape
  <2>1. /\ r \in Request /\ r.pc = pc /\ r.id = req[p].id /\ r.body = req[p].body
        /\ Shape(req[p])
    BY <2>0 DEF Request
  <2>2. Become(p, r)
    BY <1>3 DEF Goto
  <2> HIDE DEF r
  <2>3. Shape(r)
    BY <1>3, <2>1 DEF Shape
  <2> QED
    BY <1>1, <1>3, <2>1, <2>2, <2>3, MoveKeeps
<1>4. CASE CheckOdometer(p)
  <2>1. req[p].pc = "check"
    BY <1>4 DEF CheckOdometer
  <2>2. (NotRegressed(req[p].body) /\ Goto(p, "insert")) \/ Become(p, Idle)
    BY <1>4 DEF CheckOdometer
  <2> QED
    BY <1>2, <1>3, <2>1, <2>2
<1>5. CASE Detect(p)
  <2>1. req[p].pc = "detect" /\ (Goto(p, "flag") \/ Become(p, Idle))
    BY <1>5 DEF Detect
  <2> QED
    BY <1>2, <1>3, <2>1
<1>6. CASE CheckEdit(p)
  <2>1. req[p].pc = "editCheck" /\ (Goto(p, "edit") \/ Goto(p, "editLook"))
    BY <1>6 DEF CheckEdit
  <2>2. req[p].id \in Ids
    BY <2>1, RequestsHaveShape DEF Shape
  <2> QED
    BY <1>3, <2>1, <2>2
<1>7. CASE LookAgain(p)
  <2>1. req[p].pc = "editLook" /\ (Goto(p, "edit") \/ Become(p, Idle))
    BY <1>7 DEF LookAgain
  <2>2. req[p].id \in Ids
    BY <2>1, RequestsHaveShape DEF Shape
  <2> QED
    BY <1>2, <1>3, <2>1, <2>2
<1> QED
  BY <1>4, <1>5, <1>6, <1>7

LEMMA FailKeeps ==
    ASSUME IInv, NEW p \in Procs, Fail(p)
    PROVE  IInv'
<1>1. UNCHANGED <<rows, inOrder, alone>> /\ begun' \in Nat /\ faults' \in Nat
  BY DEF Fail, IInv, TypeOK
<1>2. CASE req[p].pc = "editCheck"
  <2> DEFINE r == [req[p] EXCEPT !.pc = "editLook"]
  <2>1. /\ r \in Request /\ r.pc = "editLook" /\ r.id = req[p].id /\ r.body = req[p].body
        /\ Shape(req[p]) /\ Become(p, r)
    BY <1>2, RequestsHaveShape DEF Fail, Goto
  <2> HIDE DEF r
  <2>2. Shape(r)
    BY <1>2, <2>1 DEF Shape
  <2> QED
    BY <1>1, <2>1, <2>2, MoveKeeps
<1>3. CASE req[p].pc # "editCheck"
  BY <1>1, <1>3, IdleShape, MoveKeeps DEF Fail
<1> QED
  BY <1>2, <1>3

\* The new record is later than all others of its vehicle and has been compared
\* with one of the latest of them.
LEMMA InsertKeeps ==
    ASSUME IInv, NEW p \in Procs, NEW i \in Ids, Insert(p, i)
    PROVE  IInv'
<1> DEFINE b == req[p].body
           row == RowOf(b, TRUE)
           r == [req[p] EXCEPT !.pc = "detect", !.id = i]
<1>1. req[p].pc = "insert" /\ b \in Body /\ req[p] \in Request /\ rows[i] = NoRow
  BY RequestsHaveShape DEF Insert, Shape
<1>2. /\ r \in Request /\ r.pc = "detect" /\ r.id = i /\ r.body = b
  BY <1>1 DEF Request
<1>3. Shape(r)
  BY <1>1, <1>2 DEF Shape
<1>4. /\ row \in Row /\ row # NoRow /\ row.live /\ row.vehicle = b.vehicle
      /\ row.date = b.date /\ row.odometer = b.odometer
  BY <1>1, RowsAreRows
<1>5. /\ rows' \in [Ids -> Row \cup {NoRow}] /\ rows'[i] = row
      /\ \A j \in Ids: j # i => rows'[j] = rows[j]
      /\ inOrder' \in BOOLEAN /\ begun' \in Nat /\ faults' \in Nat
      /\ Become(p, r) /\ Writes(p)
  BY <1>4 DEF Insert, IInv, TypeOK
<1>6. SameReadings(RowOf(r.body, TRUE), rows'[r.id])
  BY <1>2, <1>5 DEF SameReadings
<1>7. ASSUME inOrder' PROVE NeverRegresses(rows')
  <2>1. inOrder /\ alone[p] /\ IsLatest(b)
    BY <1>7 DEF Insert
  <2>2. NeverRegresses(rows) /\ NotRegressed(b)
    BY <1>1, <2>1 DEF IInv, InOrderRecordsNeverRegress, InsertsWereCompared
  <2>3. \A j \in RecordsOf(b.vehicle): rows[j].date < b.date
    BY <2>1 DEF IsLatest
  <2>4. \A j \in RecordsOf(b.vehicle):
          rows[j].odometer \in Nat /\ rows[j].date \in Nat
    BY DEF RecordsOf, Live, IInv, TypeOK, Row
  <2>5. b.odometer \in Nat /\ b.date \in Nat
    BY <1>1 DEF Body
  <2>6. ASSUME NEW j \in RecordsOf(b.vehicle) PROVE rows[j].odometer <= b.odometer
    <3>1. PICK k \in LatestOf(b.vehicle): b.odometer >= rows[k].odometer
      BY <2>2, <2>6 DEF NotRegressed
    <3>2. k \in RecordsOf(b.vehicle) /\ rows[j].date <= rows[k].date
      BY <2>6, <3>1 DEF LatestOf, LatestIn
    <3>3. rows[j].odometer <= rows[k].odometer
      BY <2>2, <2>6, <3>2 DEF NeverRegresses, RecordsOf, Live
    <3> QED
      BY <2>4, <2>5, <2>6, <3>1, <3>2, <3>3
  <2> SUFFICES ASSUME NEW j \in Ids, NEW k \in Ids,
                      rows'[j] # NoRow, rows'[k] # NoRow, rows'[j].live, rows'[k].live,
                      rows'[j].vehicle = rows'[k].vehicle, rows'[j].date <= rows'[k].date
               PROVE  rows'[j].odometer <= rows'[k].odometer
    BY DEF NeverRegresses
  <2>7. CASE j = i /\ k = i
    <3>1. rows'[j].odometer = b.odometer /\ rows'[k].odometer = b.odometer
      BY <1>4, <1>5, <2>7
    <3> QED
      BY <2>5, <3>1
  <2>8. CASE j # i /\ k = i
    <3>1. j \in RecordsOf(b.vehicle)
      BY <1>4, <1>5, <2>8 DEF RecordsOf, Live
    <3> QED
      BY <1>4, <1>5, <2>6, <2>8, <3>1
  <2>9. CASE j = i /\ k # i
    <3>1. k \in RecordsOf(b.vehicle)
      BY <1>4, <1>5, <2>9 DEF RecordsOf, Live
    <3>2. rows[k].date < b.date /\ b.date <= rows[k].date
      BY <1>4, <1>5, <2>3, <2>9, <3>1
    <3> QED
      BY <2>4, <2>5, <3>1, <3>2
  <2>10. CASE j # i /\ k # i
    BY <1>5, <2>2, <2>10 DEF NeverRegresses
  <2> QED
    BY <2>7, <2>8, <2>9, <2>10
<1> HIDE DEF r
<1> QED
  BY <1>2, <1>3, <1>5, <1>6, <1>7, WritingKeeps

\* A row is replaced by one that is alive, if it was.
LEMMA ReplacedRows ==
    ASSUME IInv, NEW i \in Ids, NEW row \in Row, row.live, rows' = Replaced(i, row)
    PROVE  /\ rows' \in [Ids -> Row \cup {NoRow}]
           /\ \A j \in Ids: j # i => rows'[j] = rows[j]
           /\ ~Live(i) => rows' = rows
           /\ Live(i) => /\ rows'[i] \in Row /\ rows'[i].live
                         /\ rows'[i].vehicle = row.vehicle /\ rows'[i].date = row.date
                         /\ rows'[i].odometer = row.odometer /\ rows'[i].liters = row.liters
<1>1. CASE ~Live(i)
  BY <1>1 DEF Replaced, IInv, TypeOK
<1>2. CASE Live(i)
  <2> DEFINE new == [row EXCEPT !.recent = rows[i].recent]
  <2>1. rows[i] \in Row /\ rows[i].recent \in BOOLEAN
    BY <1>2 DEF Live, IInv, TypeOK, Row
  <2>2. /\ new \in Row /\ new.live /\ new.vehicle = row.vehicle /\ new.date = row.date
        /\ new.odometer = row.odometer /\ new.liters = row.liters
    BY <2>1 DEF Row
  <2>3. rows' = [rows EXCEPT ![i] = new]
    BY <1>2 DEF Replaced
  <2> HIDE DEF new
  <2>4. /\ rows' \in [Ids -> Row \cup {NoRow}] /\ rows'[i] = new
        /\ \A j \in Ids: j # i => rows'[j] = rows[j]
    BY <2>2, <2>3 DEF IInv, TypeOK
  <2> QED
    BY <1>2, <2>2, <2>4
<1> QED
  BY <1>1, <1>2

\* Whoever replaces a row keeps the order if date, reading and vehicle stay.
LEMMA ReplacingKeeps ==
    ASSUME IInv, NEW p \in Procs, NEW i \in Ids, NEW row \in Row, row.live,
           rows' = Replaced(i, row), Become(p, Idle), Writes(p),
           inOrder' = (inOrder /\ KeepsOrder(i)), UNCHANGED <<begun, faults>>
    PROVE  IInv'
<1>1. /\ rows' \in [Ids -> Row \cup {NoRow}]
      /\ \A j \in Ids: j # i => rows'[j] = rows[j]
      /\ ~Live(i) => rows' = rows
      /\ Live(i) => rows'[i] \in Row /\ rows'[i].live
  BY ReplacedRows
<1>2. ASSUME inOrder' PROVE NeverRegresses(rows')
  <2>1. NeverRegresses(rows) /\ KeepsOrder(i)
    BY <1>2 DEF IInv, InOrderRecordsNeverRegress
  <2>2. CASE rows' = rows
    BY <2>1, <2>2
  <2>3. CASE rows' # rows
    <3>1. /\ Live(i) /\ rows'[i].date = rows[i].date
          /\ rows'[i].odometer = rows[i].odometer /\ rows'[i].vehicle = rows[i].vehicle
      BY <1>1, <2>1, <2>3 DEF KeepsOrder
    <3> QED
      BY <1>1, <2>1, <3>1 DEF NeverRegresses, Live
  <2> QED
    BY <2>2, <2>3
<1>3. inOrder' \in BOOLEAN /\ begun' \in Nat /\ faults' \in Nat
  BY DEF IInv, TypeOK
<1> QED
  BY <1>1, <1>2, <1>3, IdleShape, WritingKeeps

LEMMA FlagAndEditKeep ==
    ASSUME IInv, NEW p \in Procs, Flag(p) \/ Edit(p)
    PROVE  IInv'
<1> DEFINE b == req[p].body
<1>1. req[p].id \in Ids /\ b \in Body
  BY RequestsHaveShape DEF Flag, Edit, Shape
<1>2. RowOf(b, TRUE) \in Row /\ RowOf(b, TRUE).live
  BY <1>1, RowsAreRows
<1>3. Flagged(b) \in Row /\ Flagged(b).live
  BY <1>2 DEF Flagged, Row
<1> QED
  BY <1>1, <1>2, <1>3, ReplacingKeeps DEF Flag, Edit

LEMMA DeleteKeeps ==
    ASSUME IInv, NEW p \in Procs, NEW i \in Ids, Delete(p, i)
    PROVE  IInv'
<1>1. Live(i) /\ rows[i] \in Row
  BY DEF Delete, Live, IInv, TypeOK
<1> DEFINE gone == [rows[i] EXCEPT !.live = FALSE]
<1>2. gone \in Row /\ gone.live = FALSE
  BY <1>1 DEF Row
<1>3. rows' = [rows EXCEPT ![i] = gone]
  BY DEF Delete
<1> HIDE DEF gone
<1>4. /\ rows' \in [Ids -> Row \cup {NoRow}] /\ rows'[i].live = FALSE
      /\ \A j \in Ids: j # i => rows'[j] = rows[j]
  BY <1>2, <1>3 DEF IInv, TypeOK
<1> PICK r: r = req[p]
  OBVIOUS
<1>5. /\ r.pc = "idle" /\ Shape(r) /\ Writes(p) /\ inOrder' = inOrder
      /\ begun' \in Nat /\ faults' \in Nat
  <2>1. Shape(req[p])
    BY RequestsHaveShape
  <2>2. req[p].pc = "idle" /\ Writes(p) /\ inOrder' = inOrder
    BY DEF Delete, Begin
  <2>3. begun' \in Nat /\ faults' \in Nat
    BY DEF Delete, Begin, IInv, TypeOK
  <2> QED
    BY <2>1, <2>2, <2>3
<1>6. inOrder' => NeverRegresses(rows')
  BY <1>4, <1>5 DEF IInv, InOrderRecordsNeverRegress, NeverRegresses
<1>7. inOrder' \in BOOLEAN
  BY <1>5 DEF IInv, TypeOK
<1>8. Become(p, r)
  BY DEF Delete, Become, IInv, TypeOK
<1> QED
  BY <1>4, <1>5, <1>6, <1>7, <1>8, WritingKeeps

\* A record that turns old keeps its readings.
LEMMA AgeKeepsReadings ==
    ASSUME IInv, NEW i \in Ids, Age(i)
    PROVE  /\ rows' \in [Ids -> Row \cup {NoRow}]
           /\ \A j \in Ids:
                /\ (rows'[j] # NoRow /\ rows'[j].live) <=> (rows[j] # NoRow /\ rows[j].live)
                /\ SameReadings(rows'[j], rows[j])
           /\ \A v: LatestOf(v)' = LatestOf(v)
           /\ \A b: NotRegressed(b)' = NotRegressed(b)
<1>1. Live(i) /\ rows[i] \in Row
  BY DEF Age, Live, IInv, TypeOK
<1> DEFINE old == [rows[i] EXCEPT !.recent = FALSE]
<1>2. /\ old \in Row /\ old # NoRow /\ old.live /\ SameReadings(old, rows[i])
  BY <1>1, FuelAssumption DEF Row, SameReadings, Live
<1>3. rows' = [rows EXCEPT ![i] = old]
  BY DEF Age
<1> HIDE DEF old
<1>4. /\ rows' \in [Ids -> Row \cup {NoRow}] /\ rows'[i] = old
      /\ \A j \in Ids: j # i => rows'[j] = rows[j]
  BY <1>2, <1>3 DEF IInv, TypeOK
<1>5. \A j \in Ids:
        /\ (rows'[j] # NoRow /\ rows'[j].live) <=> (rows[j] # NoRow /\ rows[j].live)
        /\ SameReadings(rows'[j], rows[j])
  BY <1>1, <1>2, <1>4 DEF Live, SameReadings
<1>6. \A v: RecordsOf(v)' = RecordsOf(v) /\ LatestOf(v)' = LatestOf(v)
  <2> TAKE v
  <2>1. RecordsOf(v)' = RecordsOf(v)
    BY <1>5 DEF RecordsOf, Live, SameReadings
  <2>2. \A j \in RecordsOf(v): rows'[j].date = rows[j].date
    BY <1>5 DEF RecordsOf, SameReadings
  <2> QED
    BY <2>1, <2>2 DEF LatestOf, LatestIn
<1>7. \A b: NotRegressed(b)' = NotRegressed(b)
  <2> TAKE b
  <2>1. \A j \in LatestOf(b.vehicle): rows'[j].odometer = rows[j].odometer
    BY <1>5 DEF LatestOf, LatestIn, RecordsOf, SameReadings
  <2> QED
    BY <1>6, <2>1 DEF NotRegressed
<1> QED
  BY <1>4, <1>5, <1>6, <1>7

LEMMA AgeKeeps ==
    ASSUME IInv, NEW i \in Ids, Age(i)
    PROVE  IInv'
<1>1. UNCHANGED <<req, begun, faults, alone, inOrder>>
  BY DEF Age
<1>2. /\ rows' \in [Ids -> Row \cup {NoRow}]
      /\ \A j \in Ids:
            /\ (rows'[j] # NoRow /\ rows'[j].live) <=> (rows[j] # NoRow /\ rows[j].live)
            /\ SameReadings(rows'[j], rows[j])
  BY AgeKeepsReadings
<1>3. TypeOK'
  BY <1>1, <1>2 DEF IInv, TypeOK
<1>4. \A b: NotRegressed(b)' = NotRegressed(b)
  BY AgeKeepsReadings
<1>5. InsertsWereCompared'
  BY <1>1, <1>4 DEF IInv, InsertsWereCompared
<1>6. FlagsKnowTheirRow'
  <2> SUFFICES ASSUME NEW p \in Procs, req[p].pc \in {"detect", "flag"}, alone[p]
               PROVE  SameReadings(RowOf(req[p].body, TRUE), rows'[req[p].id])
    BY <1>1 DEF FlagsKnowTheirRow
  <2>1. SameReadings(RowOf(req[p].body, TRUE), rows[req[p].id]) /\ req[p].id \in Ids
    BY DEF IInv, FlagsKnowTheirRow, TypeOK
  <2> QED
    BY <1>2, <2>1 DEF SameReadings
<1>7. InOrderRecordsNeverRegress'
  <2> SUFFICES ASSUME inOrder, NEW j \in Ids, NEW k \in Ids,
                      rows'[j] # NoRow, rows'[k] # NoRow, rows'[j].live, rows'[k].live,
                      rows'[j].vehicle = rows'[k].vehicle, rows'[j].date <= rows'[k].date
               PROVE  rows'[j].odometer <= rows'[k].odometer
    BY <1>1 DEF InOrderRecordsNeverRegress, NeverRegresses
  <2>1. NeverRegresses(rows)
    BY DEF IInv, InOrderRecordsNeverRegress
  <2> QED
    BY <1>2, <2>1 DEF NeverRegresses, SameReadings
<1> QED
  BY <1>3, <1>5, <1>6, <1>7 DEF IInv

LEMMA NextIInv ==
    ASSUME IInv, [Next]_vars
    PROVE  IInv'
<1>1. ASSUME NEW p \in Procs, Step(p) PROVE IInv'
  <2>1. ASSUME NEW b \in Bodies, BeginCreate(p, b) PROVE IInv'
    BY <2>1, BeginCreateKeeps
  <2>2. ASSUME NEW i \in Ids, NEW b \in Bodies, NEW privileged \in BOOLEAN,
               BeginUpdate(p, i, b, privileged)
        PROVE  IInv'
    BY <2>2, BeginUpdateKeeps
  <2>3. ASSUME NEW i \in Ids, Insert(p, i) \/ Delete(p, i) PROVE IInv'
    BY <2>3, InsertKeeps, DeleteKeeps
  <2> QED
    BY <1>1, <2>1, <2>2, <2>3, ReadsKeep, FlagAndEditKeep, FailKeeps DEF Step
<1>2. ASSUME NEW i \in Ids, Age(i) PROVE IInv'
  BY <1>2, AgeKeeps
<1>3. ASSUME UNCHANGED vars PROVE IInv'
  <2>1. UNCHANGED <<rows, req, begun, faults, alone, inOrder>>
    BY <1>3 DEF vars
  <2>2. TypeOK'
    BY <2>1 DEF IInv, TypeOK
  <2>3. InsertsWereCompared' /\ FlagsKnowTheirRow'
    BY <2>1 DEF IInv, InsertsWereCompared, FlagsKnowTheirRow, NotRegressed, LatestOf,
                LatestIn, RecordsOf, Live
  <2>4. InOrderRecordsNeverRegress'
    BY <2>1 DEF IInv, InOrderRecordsNeverRegress
  <2> QED
    BY <2>2, <2>3, <2>4 DEF IInv
<1> QED
  BY <1>1, <1>2, <1>3 DEF Next, Served

(***************************************************************************)
(* Comparisons and flags of undisturbed requests stay true until they are  *)
(* used.                                                                   *)
(***************************************************************************)
THEOREM InductiveInvariant == Spec => []IInv
<1> QED
  BY InitIInv, NextIInv, PTL DEF Spec

-------------------------------------------------------------------------------
(* The theorems *)

(***************************************************************************)
(* Rows and requests keep their types, and every request knows its record. *)
(***************************************************************************)
THEOREM TypeCorrect == Spec => []TypeOK
<1>1. IInv => TypeOK
  BY DEF IInv
<1> QED
  BY <1>1, InductiveInvariant, PTL

(***************************************************************************)
(* validateOdometerNotRegressed is enough for records that arrive in the   *)
(* order of their dates.                                                   *)
(***************************************************************************)
THEOREM ReadingsInOrderNeverRegress == Spec => []InOrderRecordsNeverRegress
<1>1. IInv => InOrderRecordsNeverRegress
  BY DEF IInv
<1> QED
  BY <1>1, InductiveInvariant, PTL

(***************************************************************************)
(* No update or flag under way reaches a record that has been deleted.     *)
(***************************************************************************)
THEOREM DeletedRecordsAreFinal == Spec => DeletedRecordsStay
<1> DEFINE Stays == \A i \in Ids: rows[i] # NoRow /\ ~rows[i].live => rows'[i] = rows[i]
<1>1. ASSUME IInv, [Next]_vars PROVE [Stays]_vars
  <2> SUFFICES ASSUME Next, NEW i \in Ids, rows[i] # NoRow, ~rows[i].live
               PROVE  rows'[i] = rows[i]
    BY <1>1
  <2>1. ASSUME NEW j \in Ids, NEW row, rows' = Replaced(j, row) PROVE rows'[i] = rows[i]
    BY <1>1, <2>1 DEF Replaced, Live, IInv, TypeOK
  <2>2. ASSUME NEW p \in Procs, Step(p) PROVE rows'[i] = rows[i]
    <3>1. ASSUME NEW j \in Ids, Insert(p, j) \/ Delete(p, j) PROVE rows'[i] = rows[i]
      BY <1>1, <3>1 DEF Insert, Delete, Live, IInv, TypeOK
    <3>2. CASE Flag(p) \/ Edit(p)
      <4>1. req[p].id \in Ids
        BY <1>1, <3>2, RequestsHaveShape DEF Flag, Edit, Shape
      <4> QED
        BY <2>1, <3>2, <4>1 DEF Flag, Edit
    <3>3. CASE \/ CheckOdometer(p) \/ Detect(p) \/ CheckEdit(p) \/ LookAgain(p)
               \/ Fail(p)
      BY <3>3 DEF CheckOdometer, Detect, CheckEdit, LookAgain, Reads, Fail
    <3>4. ASSUME NEW b \in Bodies, BeginCreate(p, b) PROVE rows'[i] = rows[i]
      BY <3>4 DEF BeginCreate, BeginsReading
    <3>5. ASSUME NEW j \in Ids, NEW b \in Bodies, NEW privileged \in BOOLEAN,
                 BeginUpdate(p, j, b, privileged)
          PROVE  rows'[i] = rows[i]
      BY <3>5 DEF BeginUpdate, BeginsReading
    <3> QED
      BY <2>2, <3>1, <3>2, <3>3, <3>4, <3>5 DEF Step
  <2>3. ASSUME NEW j \in Ids, Age(j) PROVE rows'[i] = rows[i]
    BY <1>1, <2>3 DEF Age, Live, IInv, TypeOK
  <2> QED
    BY <2>2, <2>3 DEF Next, Served, vars
<1> QED
  BY <1>1, InductiveInvariant, PTL DEF Spec, DeletedRecordsStay

(***************************************************************************)
(* Between insertion and flag only somebody else can change a reading.     *)
(***************************************************************************)
THEOREM FlagsKeepReadings == Spec => UndisturbedFlagKeepsReadings
<1> DEFINE Keeps == \A p \in Procs, i \in Ids:
                      req[p].pc = "flag" /\ req'[p] # req[p] /\ req[p].id = i /\ alone'[p]
                          => SameReadings(rows'[i], rows[i])
<1>1. ASSUME IInv, [Next]_vars PROVE [Keeps]_vars
  <2> SUFFICES ASSUME Next, NEW p \in Procs, NEW i \in Ids,
                      req[p].pc = "flag", req'[p] # req[p], req[p].id = i, alone'[p]
               PROVE  SameReadings(rows'[i], rows[i])
    BY <1>1
  <2>1. CASE rows' = rows
    BY <2>1 DEF SameReadings
  <2>2. CASE Flag(p)
    <3>1. alone[p] /\ req[p].body \in Body
      BY <1>1, <2>2, RequestsHaveShape DEF Flag, Writes, IInv, TypeOK, Shape
    <3>2. SameReadings(RowOf(req[p].body, TRUE), rows[i])
      BY <1>1, <3>1 DEF IInv, FlagsKnowTheirRow
    <3>3. /\ Flagged(req[p].body) \in Row /\ Flagged(req[p].body).live
          /\ SameReadings(Flagged(req[p].body), RowOf(req[p].body, TRUE))
      <4> DEFINE row == RowOf(req[p].body, TRUE)
      <4>1. row \in Row /\ row.live
        BY <3>1, RowsAreRows
      <4>2. Flagged(req[p].body) = [row EXCEPT !.anomaly = TRUE]
        BY DEF Flagged
      <4> HIDE DEF row
      <4>3. /\ [row EXCEPT !.anomaly = TRUE] \in Row /\ [row EXCEPT !.anomaly = TRUE].live
            /\ SameReadings([row EXCEPT !.anomaly = TRUE], row)
        BY <4>1 DEF Row, SameReadings
      <4> QED
        BY <4>2, <4>3 DEF row
    <3>4. rows' = Replaced(i, Flagged(req[p].body))
      BY <2>2 DEF Flag
    <3>5. rows' = rows \/ SameReadings(rows'[i], Flagged(req[p].body))
      BY <1>1, <3>3, <3>4, ReplacedRows DEF SameReadings
    <3> QED
      BY <2>1, <3>2, <3>3, <3>5 DEF SameReadings
  <2>3. ASSUME NEW q \in Procs, Step(q) PROVE rows' = rows \/ Flag(p)
    <3>1. CASE q = p
      BY <2>3, <3>1 DEF Step, BeginCreate, BeginUpdate, BeginsReading, Begin, CheckOdometer,
             Detect, Flag, CheckEdit, LookAgain, Edit, Insert, Delete, Fail
    <3>2. CASE q # p
      <4>1. \A r: Become(q, r) => req'[p] = req[p]
        BY <1>1, <3>2 DEF Become, IInv, TypeOK
      <4>2. (\E r: Become(q, r)) \/ UNCHANGED req
        BY <2>3 DEF Step, BeginCreate, BeginUpdate, CheckOdometer, Detect, Flag, CheckEdit,
               LookAgain, Edit, Insert, Delete, Fail, Goto
      <4> QED
        BY <4>1, <4>2
    <3> QED
      BY <3>1, <3>2
  <2>4. ASSUME NEW j \in Ids, Age(j) PROVE rows' = rows \/ Flag(p)
    BY <2>4 DEF Age
  <2> QED
    BY <2>1, <2>2, <2>3, <2>4 DEF Next, Served, vars
<1> QED
  BY <1>1, InductiveInvariant, PTL DEF Spec, UndisturbedFlagKeepsReadings

-------------------------------------------------------------------------------
(***************************************************************************)
(* How far the two disagreements of the module go.                         *)
(***************************************************************************)

\* Whoever is about to edit undisturbed has been compared with a latest record,
\* is one, or reads what the record reads.
EditsWereCompared ==
    \A p \in Procs: req[p].pc = "edit" /\ alone[p] =>
        \/ NotRegressed(req[p].body)
        \/ req[p].id \in LatestOf(req[p].body.vehicle)
        \/ req[p].body.odometer = rows[req[p].id].odometer

\* No request carries a body without date.
RequestsAreDated == \A p \in Procs: req[p].pc # "idle" => req[p].body.date > 0

\* EditsCompareWithPrior, of all records but the latest, in a table in order.
OlderEditsCompareWithPrior ==
    [][\A p \in Procs, i \in Ids:
        /\ req[p].pc = "edit" /\ req'[p] # req[p] /\ req[p].id = i /\ alone[p] /\ inOrder
        /\ rows'[i].odometer # rows[i].odometer /\ rows'[i].vehicle = rows[i].vehicle
        /\ i \notin LatestOf(rows[i].vehicle)
        => \A j \in RecordsOf(rows[i].vehicle) \ {i}:
            rows[j].date < rows[i].date => rows[j].odometer <= rows'[i].odometer]_vars

LEMMA OthersWait ==
    ASSUME IInv, NEW p \in Procs, Step(p)
    PROVE  /\ \A q \in Procs: q # p => req'[q] = req[q]
           /\ (rows' = rows /\ \A q \in Procs: q # p => alone'[q] = alone[q]) \/ Writes(p)
<1>1. \A r: Become(p, r) => \A q \in Procs: q # p => req'[q] = req[q]
  BY DEF Become, IInv, TypeOK
<1>2. (\E r: Become(p, r)) \/ UNCHANGED req
  BY DEF Step, BeginCreate, BeginUpdate, CheckOdometer, Detect, Flag, CheckEdit, LookAgain,
         Edit, Insert, Delete, Fail, Goto
<1>3. (rows' = rows /\ \A q \in Procs: q # p => alone'[q] = alone[q]) \/ Writes(p)
  <2>1. (rows' = rows /\ (alone' = alone \/ alone' = [alone EXCEPT ![p] = TRUE])) \/ Writes(p)
    BY DEF Step, BeginCreate, BeginUpdate, BeginsReading, CheckOdometer, Detect, Flag,
           CheckEdit, LookAgain, Edit, Insert, Delete, Fail, Reads
  <2> QED
    BY <2>1 DEF IInv, TypeOK
<1> QED
  BY <1>1, <1>2, <1>3

\* A request carries one of the bodies from its beginning to its end.
LEMMA BodiesStay ==
    ASSUME IInv, NEW p \in Procs, Step(p), req'[p].pc # "idle"
    PROVE  req'[p].body \in Bodies \/ (req[p].pc # "idle" /\ req'[p].body = req[p].body)
<1>1. \A r: Become(p, r) => req'[p] = r
  BY DEF Become, IInv, TypeOK
<1>2. Idle.pc = "idle"
  BY IdleShape
<1>3. ASSUME NEW pc \in {"insert", "flag", "edit", "editLook"}, Goto(p, pc)
      PROVE  req'[p].body = req[p].body
  <2>1. Become(p, [req[p] EXCEPT !.pc = pc])
    BY <1>3 DEF Goto
  <2>2. req[p] \in Request
    BY RequestsHaveShape DEF Shape
  <2> QED
    BY <1>1, <2>1, <2>2 DEF Request
<1>4. ASSUME NEW b \in Bodies, BeginCreate(p, b) PROVE req'[p].body \in Bodies
  BY <1>1, <1>4 DEF BeginCreate, Idle
<1>5. ASSUME NEW i \in Ids, NEW b \in Bodies, NEW privileged \in BOOLEAN,
             BeginUpdate(p, i, b, privileged)
      PROVE  req'[p].body \in Bodies
  <2>1. PICK pc \in {"edit", "editCheck"}: Become(p, [id |-> i, body |-> b, pc |-> pc])
    BY <1>5 DEF BeginUpdate
  <2> QED
    BY <1>1, <2>1
<1>6. ASSUME NEW i \in Ids, Insert(p, i)
      PROVE  req'[p].body = req[p].body /\ req[p].pc # "idle"
  <2>1. Become(p, [req[p] EXCEPT !.pc = "detect", !.id = i]) /\ req[p].pc = "insert"
    BY <1>6 DEF Insert
  <2>2. req[p] \in Request
    BY RequestsHaveShape DEF Shape
  <2> QED
    BY <1>1, <2>1, <2>2 DEF Request
<1>7. ASSUME NEW i \in Ids, Delete(p, i) PROVE req' = req /\ req[p].pc = "idle"
  BY <1>7 DEF Delete, Begin
<1>8. CASE \/ CheckOdometer(p) \/ Detect(p) \/ CheckEdit(p) \/ LookAgain(p) \/ Flag(p)
           \/ Edit(p) \/ Fail(p)
  <2>1. req[p].pc # "idle"
    BY <1>8 DEF CheckOdometer, Detect, CheckEdit, LookAgain, Flag, Edit, Fail
  <2>2. Become(p, Idle) \/ \E pc \in {"insert", "flag", "edit", "editLook"}: Goto(p, pc)
    BY <1>8 DEF CheckOdometer, Detect, CheckEdit, LookAgain, Flag, Edit, Fail
  <2> QED
    BY <1>1, <1>2, <1>3, <2>1, <2>2
<1> QED
  BY <1>4, <1>5, <1>6, <1>7, <1>8 DEF Step

LEMMA DatedNext ==
    ASSUME \A b \in Bodies: b.date > 0, IInv, RequestsAreDated, [Next]_vars
    PROVE  RequestsAreDated'
<1> SUFFICES ASSUME NEW p \in Procs, req'[p].pc # "idle" PROVE req'[p].body.date > 0
  BY DEF RequestsAreDated
<1>1. CASE req'[p] = req[p]
  BY <1>1 DEF RequestsAreDated
<1>2. ASSUME NEW q \in Procs, Step(q) PROVE req'[p].body.date > 0
  <2>1. CASE q = p
    BY <1>2, <2>1, BodiesStay DEF RequestsAreDated
  <2>2. CASE q # p
    BY <1>1, <1>2, <2>2, OthersWait
  <2> QED
    BY <2>1, <2>2
<1> QED
  BY <1>1, <1>2 DEF Next, Age, Served, vars

(***************************************************************************)
(* A record loses its date only to a body without one: were UpdateFuel     *)
(* to require a date like POST, UnsetDateIsKept would hold.                *)
(***************************************************************************)
THEOREM DatedBodiesKeepDates ==
    ASSUME \A b \in Bodies: b.date > 0
    PROVE  Spec => UnsetDateIsKept
<1> DEFINE Kept == \A i \in Ids: Live(i) /\ rows[i].date > 0 => rows'[i].date > 0
<1>1. Init => RequestsAreDated
  BY IdleShape DEF Init, RequestsAreDated
<1>2. IInv /\ RequestsAreDated /\ [Next]_vars => RequestsAreDated'
  BY DatedNext
<1>3. ASSUME IInv, RequestsAreDated, [Next]_vars PROVE [Kept]_vars
  <2> SUFFICES ASSUME Next, NEW i \in Ids, Live(i), rows[i].date > 0
               PROVE  rows'[i].date > 0
    BY <1>3
  <2>1. CASE rows' = rows
    BY <2>1
  <2>2. ASSUME NEW p \in Procs, Flag(p) \/ Edit(p) PROVE rows'[i].date > 0
    <3> DEFINE b == req[p].body
    <3>1. req[p].id \in Ids /\ b \in Body /\ b.date > 0
      BY <1>3, <2>2, RequestsHaveShape DEF Flag, Edit, Shape, RequestsAreDated
    <3>2. RowOf(b, TRUE) \in Row /\ RowOf(b, TRUE).live /\ RowOf(b, TRUE).date = b.date
      BY <3>1, RowsAreRows
    <3>3. Flagged(b) \in Row /\ Flagged(b).live /\ Flagged(b).date = b.date
      BY <3>2 DEF Flagged, Row
    <3>4. PICK row \in Row: row.live /\ row.date = b.date /\ rows' = Replaced(req[p].id, row)
      BY <2>2, <3>2, <3>3 DEF Flag, Edit
    <3>5. /\ \A j \in Ids: j # req[p].id => rows'[j] = rows[j]
          /\ ~Live(req[p].id) => rows' = rows
          /\ Live(req[p].id) => rows'[req[p].id].date = row.date
      BY <1>3, <3>1, <3>4, ReplacedRows
    <3> QED
      BY <3>1, <3>4, <3>5
  <2>3. ASSUME NEW p \in Procs, NEW j \in Ids, Insert(p, j) \/ Delete(p, j)
        PROVE  rows'[i].date > 0
    <3>1. rows \in [Ids -> Row \cup {NoRow}] /\ rows[i] \in Row
      BY <1>3 DEF Live, IInv, TypeOK
    <3>2. CASE Insert(p, j)
      <4>1. i # j
        BY <3>2 DEF Insert, Live
      <4> QED
        BY <3>1, <3>2, <4>1 DEF Insert
    <3>3. CASE Delete(p, j)
      BY <3>1, <3>3 DEF Delete, Row
    <3> QED
      BY <2>3, <3>2, <3>3
  <2>4. ASSUME NEW j \in Ids, Age(j) PROVE rows'[i].date > 0
    BY <1>3, <2>4 DEF Age, Live, IInv, TypeOK, Row
  <2>5. ASSUME NEW p \in Procs, Step(p) PROVE rows'[i].date > 0
    BY <2>1, <2>2, <2>3, <2>5 DEF Step, BeginCreate, BeginUpdate, BeginsReading, CheckOdometer,
       Detect, CheckEdit, LookAgain, Fail, Reads
  <2> QED
    BY <2>1, <2>4, <2>5 DEF Next, Served, vars
<1> QED
  BY <1>1, <1>2, <1>3, InductiveInvariant, PTL DEF Spec, UnsetDateIsKept

LEMMA EditsNext ==
    ASSUME IInv, EditsWereCompared, [Next]_vars
    PROVE  EditsWereCompared'
<1> SUFFICES ASSUME NEW p \in Procs, req'[p].pc = "edit", alone'[p]
             PROVE  (\/ NotRegressed(req[p].body)
                     \/ req[p].id \in LatestOf(req[p].body.vehicle)
                     \/ req[p].body.odometer = rows[req[p].id].odometer)'
  BY DEF EditsWereCompared
<1>0. ASSUME rows' = rows
      PROVE  /\ \A v: LatestOf(v)' = LatestOf(v)
             /\ \A b: NotRegressed(b)' = NotRegressed(b)
  BY <1>0 DEF NotRegressed, LatestOf, LatestIn, RecordsOf, Live
<1>1. ASSUME rows' = rows, req'[p] = req[p], alone'[p] = alone[p]
      PROVE  (\/ NotRegressed(req[p].body)
              \/ req[p].id \in LatestOf(req[p].body.vehicle)
              \/ req[p].body.odometer = rows[req[p].id].odometer)'
  BY <1>0, <1>1 DEF EditsWereCompared
<1>2. ASSUME NEW i \in Ids, Age(i)
      PROVE  (\/ NotRegressed(req[p].body)
              \/ req[p].id \in LatestOf(req[p].body.vehicle)
              \/ req[p].body.odometer = rows[req[p].id].odometer)'
  <2>1. /\ \A j \in Ids: SameReadings(rows'[j], rows[j])
        /\ \A v: LatestOf(v)' = LatestOf(v)
        /\ \A b: NotRegressed(b)' = NotRegressed(b)
    BY <1>2, AgeKeepsReadings
  <2>2. req' = req /\ alone' = alone /\ req[p].id \in Ids
    BY <1>2 DEF Age, IInv, TypeOK
  <2> QED
    BY <2>1, <2>2 DEF EditsWereCompared, SameReadings
<1>3. ASSUME NEW q \in Procs, q # p, Step(q)
      PROVE  rows' = rows /\ req'[p] = req[p] /\ alone'[p] = alone[p]
  BY <1>3, OthersWait DEF Writes
<1>4. ASSUME Step(p)
      PROVE  (\/ NotRegressed(req[p].body)
              \/ req[p].id \in LatestOf(req[p].body.vehicle)
              \/ req[p].body.odometer = rows[req[p].id].odometer)'
  <2>1. \A r: Become(p, r) => req'[p] = r
    BY DEF Become, IInv, TypeOK
  <2>3. req[p] \in Request
    BY RequestsHaveShape DEF Shape
  <2>4. ASSUME NEW pc \in {"insert", "flag", "edit", "editLook"}, Goto(p, pc)
        PROVE  /\ req'[p].pc = pc /\ req'[p].body = req[p].body /\ req'[p].id = req[p].id
    <3>1. req'[p] = [req[p] EXCEPT !.pc = pc]
      BY <2>1, <2>4 DEF Goto
    <3> QED
      BY <2>3, <3>1 DEF Request
  <2>5. CASE CheckEdit(p)
    BY <1>0, <2>4, <2>5 DEF CheckEdit, Reads
  <2>6. CASE LookAgain(p)
    BY <1>0, <2>1, <2>4, <2>6, IdleShape DEF LookAgain, Reads
  <2>7. ASSUME NEW i \in Ids, NEW b \in Bodies, NEW privileged \in BOOLEAN,
               BeginUpdate(p, i, b, privileged)
        PROVE  req'[p].body.odometer = rows'[req'[p].id].odometer
    <3>1. /\ rows' = rows
          /\ Become(p, [id |-> i, body |-> b,
                        pc |-> IF b.odometer = rows[i].odometer /\ b.vehicle = rows[i].vehicle
                               THEN "edit" ELSE "editCheck"])
      BY <2>7 DEF BeginUpdate, BeginsReading
    <3> QED
      BY <2>1, <3>1
  <2>8. ASSUME NEW b \in Bodies, BeginCreate(p, b) PROVE FALSE
    <3>1. req'[p] = [Idle EXCEPT !.pc = "check", !.body = b]
      BY <2>1, <2>8 DEF BeginCreate
    <3> QED
      BY <3>1 DEF Idle
  <2>9. ASSUME NEW i \in Ids, Insert(p, i) PROVE FALSE
    <3>1. req'[p] = [req[p] EXCEPT !.pc = "detect", !.id = i]
      BY <2>1, <2>9 DEF Insert
    <3> QED
      BY <2>3, <3>1 DEF Request
  <2>10. ASSUME NEW i \in Ids, Delete(p, i) PROVE FALSE
    BY <2>10 DEF Delete, Begin
  <2>11. CASE CheckOdometer(p) \/ Detect(p) \/ Flag(p) \/ Edit(p) \/ Fail(p)
    <3>1. Become(p, Idle) \/ \E pc \in {"insert", "flag", "editLook"}: Goto(p, pc)
      BY <2>11 DEF CheckOdometer, Detect, Flag, Edit, Fail
    <3> QED
      BY <2>1, <2>4, <3>1, IdleShape
  <2> QED
    BY <1>4, <2>5, <2>6, <2>7, <2>8, <2>9, <2>10, <2>11 DEF Step
<1> QED
  BY <1>1, <1>2, <1>3, <1>4 DEF Next, Served, vars

(***************************************************************************)
(* validateOdometerNotRegressed keeps what fuel_usecase.go:185 says for    *)
(* every record but the latest: compared with the latest, such an edit is  *)
(* compared with all of them, as long as the readings before it are in     *)
(* order and nobody writes meanwhile.  Only an edit of the latest record   *)
(* is let through against the one before it.                               *)
(***************************************************************************)
THEOREM OlderEditsAreCompared == Spec => OlderEditsCompareWithPrior
<1> DEFINE Compared ==
      \A p \in Procs, i \in Ids:
        /\ req[p].pc = "edit" /\ req'[p] # req[p] /\ req[p].id = i /\ alone[p] /\ inOrder
        /\ rows'[i].odometer # rows[i].odometer /\ rows'[i].vehicle = rows[i].vehicle
        /\ i \notin LatestOf(rows[i].vehicle)
        => \A j \in RecordsOf(rows[i].vehicle) \ {i}:
            rows[j].date < rows[i].date => rows[j].odometer <= rows'[i].odometer
<1>1. Init => EditsWereCompared
  BY IdleShape DEF Init, EditsWereCompared
<1>2. IInv /\ EditsWereCompared /\ [Next]_vars => EditsWereCompared'
  BY EditsNext
<1>3. ASSUME IInv, EditsWereCompared, [Next]_vars PROVE [Compared]_vars
  <2> SUFFICES ASSUME Next, NEW p \in Procs, NEW i \in Ids,
                      req[p].pc = "edit", req'[p] # req[p], req[p].id = i, alone[p], inOrder,
                      rows'[i].odometer # rows[i].odometer, rows'[i].vehicle = rows[i].vehicle,
                      i \notin LatestOf(rows[i].vehicle),
                      NEW j \in RecordsOf(rows[i].vehicle) \ {i}
               PROVE  rows[j].odometer <= rows'[i].odometer
    BY <1>3
  <2> DEFINE b == req[p].body
  <2>1. Edit(p)
    <3>1. ASSUME NEW q \in Procs, Step(q) PROVE q = p
      BY <1>3, <3>1, OthersWait
    <3>2. PICK q \in Procs: Step(q)
      BY DEF Next, Age, Served, vars
    <3> QED
      BY <3>1, <3>2 DEF Step, BeginCreate, BeginUpdate, BeginsReading, Begin, CheckOdometer,
         Detect, Flag, CheckEdit, LookAgain, Insert, Delete, Fail
  <2>2. b \in Body
    BY <1>3, RequestsHaveShape DEF Shape
  <2>3. /\ RowOf(b, TRUE) \in Row /\ RowOf(b, TRUE).live
        /\ RowOf(b, TRUE).vehicle = b.vehicle /\ RowOf(b, TRUE).odometer = b.odometer
    BY <2>2, RowsAreRows
  <2>4. rows' = Replaced(i, RowOf(b, TRUE))
    BY <2>1 DEF Edit
  <2>5. Live(i) /\ rows'[i].vehicle = b.vehicle /\ rows'[i].odometer = b.odometer
    BY <1>3, <2>3, <2>4, ReplacedRows
  <2>6. NotRegressed(b)
    BY <1>3, <2>5 DEF EditsWereCompared
  <2>7. i \in RecordsOf(b.vehicle) /\ j \in RecordsOf(b.vehicle)
    BY <2>5 DEF RecordsOf
  <2>8. PICK k \in LatestOf(b.vehicle): b.odometer >= rows[k].odometer
    BY <2>6, <2>7 DEF NotRegressed
  <2>9. k \in RecordsOf(b.vehicle) /\ rows[j].date <= rows[k].date
    BY <2>7, <2>8 DEF LatestOf, LatestIn
  <2>10. rows[j].odometer <= rows[k].odometer
    BY <1>3, <2>7, <2>9 DEF IInv, InOrderRecordsNeverRegress, NeverRegresses, RecordsOf, Live
  <2>11. rows[j].odometer \in Nat /\ rows[k].odometer \in Nat /\ b.odometer \in Nat
    BY <1>3, <2>2, <2>7, <2>9 DEF RecordsOf, Live, IInv, TypeOK, Row, Body
  <2> QED
    BY <2>5, <2>8, <2>10, <2>11
<1> QED
  BY <1>1, <1>2, <1>3, InductiveInvariant, PTL DEF Spec, OlderEditsCompareWithPrior
===============================================================================
