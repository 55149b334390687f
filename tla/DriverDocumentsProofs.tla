------------------------- MODULE DriverDocumentsProofs -------------------------
(***************************************************************************)
(* Proofs about DriverDocuments for every number of drivers, documents,    *)
(* files, storage keys and concurrent requests, and every notice.          *)
(***************************************************************************)
EXTENDS DriverDocuments, FiniteSetTheorems, TLAPS

\* What a request is made of where it stands.
Shape(r) ==
    /\ r \in Request
    /\ r.pc \in {"insert", "write", "resolve", "alert", "files", "driverRead", "driverWrite"}
         => r.doc \in Docs /\ r.row \in Doc
    /\ r.pc = "driverWrite" => r.driver \in Driver
    /\ r.pc \in {"copy", "fileInsert"} => r.doc \in Docs /\ r.file \in Files /\ r.key \in Keys

RequestsHaveShape == \A p \in Procs: Shape(req[p])

\* determineStatus on a given day, and a row whose status it would not better.
StatusAt(day, exp) ==
    IF exp = None THEN "valid"
    ELSE IF exp - day < 0 THEN "expired"
    ELSE IF exp - day <= Notice THEN "expiring_soon" ELSE "valid"

Lags(day, row) ==
    /\ Severity(row.status) <= Severity(StatusAt(day, row.exp))
    /\ row.exp = None => row.status = "valid"

\* A row that waits to be written may lag by then, but no worse than a stored one.
PendingRowsLag == \A p \in Procs: req[p].pc \in {"insert", "write"} => Lags(today, req[p].row)

\* As long as nobody draws a key again, its file belongs to one request: it is
\* partial while the content is copied, and complete when the row is inserted.
UploadsOwnTheirKey ==
    \A p \in Procs: req[p].key \notin redrawn =>
        /\ req[p].pc = "copy" => /\ store[req[p].key] = Partial
                                 /\ \A q \in Procs: req[q].pc = "copy" /\ req[q].key = req[p].key
                                        => q = p
        /\ req[p].pc = "fileInsert" => store[req[p].key] = req[p].file

\* Alerts about to be created: the bound is not inductive without them.
Alerting(d) == {p \in Procs: req[p].pc = "alert" /\ req[p].doc = d}

Count(d) == active[d] + Cardinality(Alerting(d))

\* Active alerts and alerts to come rise by no more than statements have failed,
\* unless they have just been resolved.
RisesWithFaults ==
    \A d \in Docs: active'[d] = 0 \/ Count(d)' + faults <= Count(d) + faults'

IInv ==
    /\ TypeOK
    /\ RequestsHaveShape
    /\ StatusOnlyLags
    /\ PendingRowsLag
    /\ AttachmentsAreWhole
    /\ UploadsOwnTheirKey

\* What every step keeps.
Kept == IInv' /\ RisesWithFaults

-------------------------------------------------------------------------------
(* Statuses and counts *)

LEMMA Severities ==
    /\ Severity("valid") = 0 /\ Severity("expiring_soon") = 1 /\ Severity("expired") = 2
    /\ \A status \in Status: Severity(status) \in 0..2
  BY DEF Severity, Status

LEMMA StatusesLag ==
    /\ \A exp: StatusOf(exp) = StatusAt(today, exp)
    /\ StatusOnlyLags <=> \A d \in Docs: docs[d] # None => Lags(today, docs[d])
    /\ StatusOnlyLags' <=> \A d \in Docs: docs'[d] # None => Lags(today', docs'[d])
  BY DEF StatusOf, StatusAt, StatusOnlyLags, Lags

LEMMA NewStatusLags ==
    ASSUME NEW exp \in Date, today \in Nat
    PROVE  /\ StatusOf(exp) \in Status
           /\ \A row: row.exp = exp /\ row.status = StatusOf(exp) => Lags(today, row)
<1>1. StatusOf(exp) \in Status /\ (exp = None => StatusOf(exp) = "valid")
  BY DEF StatusOf, Status
<1>2. StatusOf(exp) = StatusAt(today, exp)
  BY StatusesLag
<1>3. Severity(StatusOf(exp)) <= Severity(StatusOf(exp))
  BY <1>1, Severities
<1> QED
  BY <1>1, <1>2, <1>3 DEF Lags

LEMMA StatusesWorsen ==
    ASSUME NEW exp \in Date, NEW day \in Nat
    PROVE  Severity(StatusAt(day, exp)) <= Severity(StatusAt(day + 1, exp))
<1>1. CASE exp = None
  <2>1. StatusAt(day, exp) = "valid" /\ StatusAt(day + 1, exp) = "valid"
    BY <1>1 DEF StatusAt
  <2> QED
    BY <2>1, Severities
<1>2. CASE exp # None
  <2>1. exp \in Nat
    BY <1>2 DEF Date
  <2>2. CASE exp - day < 0
    <3>1. StatusAt(day, exp) = "expired" /\ StatusAt(day + 1, exp) = "expired"
      BY <1>2, <2>1, <2>2 DEF StatusAt
    <3> QED
      BY <3>1, Severities
  <2>3. CASE ~(exp - day < 0) /\ exp - day <= Notice
    <3>1. /\ StatusAt(day, exp) = "expiring_soon"
          /\ StatusAt(day + 1, exp) \in {"expiring_soon", "expired"}
      BY <1>2, <2>1, <2>3, DocumentsAssumption DEF StatusAt
    <3> QED
      BY <3>1, Severities
  <2>4. CASE ~(exp - day < 0) /\ ~(exp - day <= Notice)
    <3>1. StatusAt(day, exp) = "valid" /\ StatusAt(day + 1, exp) \in Status
      BY <1>2, <2>1, <2>4, DocumentsAssumption DEF StatusAt, Status
    <3> QED
      BY <3>1, Severities
  <2> QED
    BY <2>2, <2>3, <2>4
<1> QED
  BY <1>1, <1>2

LEMMA AlertingIsCounted ==
    ASSUME NEW d
    PROVE  /\ IsFiniteSet(Procs) /\ Cardinality(Procs) \in Nat
           /\ IsFiniteSet(Alerting(d)) /\ Cardinality(Alerting(d)) \in Nat
           /\ IsFiniteSet(Alerting(d)') /\ Cardinality(Alerting(d)') \in Nat
           /\ Cardinality(Alerting(d)) <= Cardinality(Procs)
           /\ Cardinality(Alerting(d)') <= Cardinality(Procs)
<1>1. IsFiniteSet(Procs)
  BY DocumentsAssumption
<1>2. Alerting(d) \in SUBSET Procs /\ Alerting(d)' \in SUBSET Procs
  BY DEF Alerting
<1>3. /\ IsFiniteSet(Alerting(d)) /\ IsFiniteSet(Alerting(d)')
      /\ Cardinality(Alerting(d)) <= Cardinality(Procs)
      /\ Cardinality(Alerting(d)') <= Cardinality(Procs)
  BY <1>1, <1>2, FS_Subset
<1> QED
  BY <1>1, <1>3, FS_CardinalityType

LEMMA IdleShape == Shape(Idle) /\ Idle.pc = "idle"
  BY DEF Shape, Idle, Request

LEMMA InitIInv == Init => IInv
<1> SUFFICES ASSUME Init PROVE IInv
  OBVIOUS
<1> USE DEF Init
<1>1. \A p \in Procs: req[p] = Idle /\ req[p].pc = "idle" /\ Shape(req[p])
  BY IdleShape
<1>2. TypeOK
  BY IdleShape DEF TypeOK, Shape, Driver, Date
<1>3. RequestsHaveShape /\ PendingRowsLag /\ UploadsOwnTheirKey
  BY <1>1 DEF RequestsHaveShape, PendingRowsLag, UploadsOwnTheirKey
<1>4. StatusOnlyLags
  BY DEF StatusOnlyLags
<1>5. AttachmentsAreWhole
  BY DEF AttachmentsAreWhole, Live
<1> QED
  BY <1>2, <1>3, <1>4, <1>5 DEF IInv

-------------------------------------------------------------------------------
(* What a step keeps that does not concern itself with one of the parts.   *)

Replaces(p, r) == Shape(r) /\ req' = [req EXCEPT ![p] = r]

LEMMA Replacing ==
    ASSUME IInv, NEW p \in Procs, NEW r, Replaces(p, r)
    PROVE  /\ req' \in [Procs -> Request]
           /\ req'[p] = r /\ \A q \in Procs: q # p => req'[q] = req[q]
           /\ RequestsHaveShape'
<1>1. req \in [Procs -> Request] /\ r \in Request
  BY DEF IInv, TypeOK, Replaces, Shape
<1>2. /\ req' \in [Procs -> Request]
      /\ req'[p] = r /\ \A q \in Procs: q # p => req'[q] = req[q]
  BY <1>1 DEF Replaces
<1>3. \A q \in Procs: Shape(req'[q])
  BY <1>2 DEF IInv, RequestsHaveShape, Replaces
<1> QED
  BY <1>2, <1>3 DEF RequestsHaveShape, Shape

LEMMA LagFrame ==
    ASSUME IInv, NEW p \in Procs, NEW r, Replaces(p, r), UNCHANGED today,
           r.pc \in {"insert", "write"} => Lags(today, r.row),
           \A d \in Docs: docs'[d] # None =>
               \/ /\ docs[d] # None
                  /\ docs'[d].exp = docs[d].exp /\ docs'[d].status = docs[d].status
               \/ Lags(today, docs'[d])
    PROVE  StatusOnlyLags' /\ PendingRowsLag'
<1>1. req'[p] = r /\ \A q \in Procs: q # p => req'[q] = req[q]
  BY Replacing
<1>2. \A d \in Docs: docs'[d] # None => Lags(today, docs'[d])
  <2>1. \A d \in Docs: docs[d] # None => Lags(today, docs[d])
    BY StatusesLag DEF IInv
  <2> QED
    BY <2>1 DEF Lags
<1>3. PendingRowsLag'
  BY <1>1 DEF IInv, PendingRowsLag
<1> QED
  BY <1>2, <1>3, StatusesLag

LEMMA FileFrame ==
    ASSUME IInv, NEW p \in Procs, NEW r, Replaces(p, r), UNCHANGED <<store, redrawn>>,
           r.pc \notin {"copy", "fileInsert"},
           \A i \in Files: Live(files[i])' => Live(files[i]) /\ files'[i].key = files[i].key
    PROVE  AttachmentsAreWhole' /\ UploadsOwnTheirKey'
<1>1. req'[p] = r /\ \A q \in Procs: q # p => req'[q] = req[q]
  BY Replacing
<1>2. AttachmentsAreWhole'
  BY DEF IInv, AttachmentsAreWhole
<1>3. UploadsOwnTheirKey'
  BY <1>1 DEF IInv, UploadsOwnTheirKey
<1> QED
  BY <1>2, <1>3

LEMMA AlertFrame ==
    ASSUME IInv, NEW p \in Procs, NEW r, Replaces(p, r), UNCHANGED active,
           r.pc # "alert", faults' \in Nat, faults <= faults'
    PROVE  RisesWithFaults
<1>1. req'[p] = r /\ \A q \in Procs: q # p => req'[q] = req[q]
  BY Replacing
<1> SUFFICES ASSUME NEW d \in Docs
             PROVE  Count(d)' + faults <= Count(d) + faults'
  BY DEF RisesWithFaults
<1>2. Alerting(d)' \in SUBSET Alerting(d)
  BY <1>1 DEF Alerting
<1>3. Cardinality(Alerting(d)') <= Cardinality(Alerting(d))
  BY <1>2, AlertingIsCounted, FS_Subset
<1>4. active[d] \in Nat /\ faults \in Nat
  BY DEF IInv, TypeOK
<1> QED
  BY <1>3, <1>4, AlertingIsCounted DEF Count

\* The calendar stands and no failure is forgotten.
Serving ==
    /\ today' = today /\ begun' \in Nat /\ faults' \in Nat /\ faults <= faults'
    /\ alone' \in [Procs -> BOOLEAN]

LEMMA ServingSteps ==
    ASSUME IInv, NEW p \in Procs,
           \/ BeginsReading(p) \/ Reads \/ Writes(p) \/ Fails(p)
           \/ Begin(p) /\ alone' = [q \in Procs |-> q = p]
    PROVE  Serving
<1>1. alone \in [Procs -> BOOLEAN] /\ begun \in Nat /\ faults \in Nat
  BY DEF IInv, TypeOK
<1>2. [q \in Procs |-> q = p] \in [Procs -> BOOLEAN]
  OBVIOUS
<1>3. [q \in Procs |-> q = p /\ alone[q]] \in [Procs -> BOOLEAN]
  OBVIOUS
<1>4. [alone EXCEPT ![p] = TRUE] \in [Procs -> BOOLEAN]
  BY <1>1
<1>5. [alone EXCEPT ![p] = FALSE] \in [Procs -> BOOLEAN]
  BY <1>1
<1>6. alone' \in [Procs -> BOOLEAN]
  BY <1>1, <1>2, <1>3, <1>4, <1>5, Zenon DEF BeginsReading, Reads, Writes, Fails
<1>7. today' = today /\ begun' \in Nat /\ faults' \in Nat /\ faults <= faults'
  BY <1>1 DEF BeginsReading, Begin, Reads, Writes, Fails
<1> QED
  BY <1>6, <1>7 DEF Serving

LEMMA TypeFrame ==
    ASSUME IInv, NEW p \in Procs, NEW r, Replaces(p, r), Serving,
           docs' \in [Docs -> Doc \cup {None}],
           active' \in [Docs -> Nat],
           drivers' \in [Drivers -> Driver],
           files' \in [Files -> File \cup {None}],
           store' \in [Keys -> Files \cup {Partial, None}],
           redrawn' \subseteq Keys
    PROVE  TypeOK' /\ RequestsHaveShape'
<1>1. req' \in [Procs -> Request] /\ RequestsHaveShape'
  BY Replacing
<1> QED
  BY <1>1 DEF IInv, TypeOK, Serving

\* A request moves on without writing.
LEMMA MoveKeeps ==
    ASSUME IInv, NEW p \in Procs, NEW r, Replaces(p, r), Serving, UNCHANGED tables,
           r.pc \notin {"alert", "copy", "fileInsert"},
           r.pc \in {"insert", "write"} => Lags(today, r.row)
    PROVE  Kept
<1>1. UNCHANGED <<docs, active, drivers, files, store, redrawn, today>>
  BY DEF tables, Serving
<1>2. TypeOK' /\ RequestsHaveShape'
  BY <1>1, TypeFrame DEF IInv, TypeOK
<1>3. StatusOnlyLags' /\ PendingRowsLag'
  BY <1>1, LagFrame
<1>4. AttachmentsAreWhole' /\ UploadsOwnTheirKey'
  BY <1>1, FileFrame DEF Live
<1>5. RisesWithFaults
  BY <1>1, AlertFrame DEF Serving
<1> QED
  BY <1>2, <1>3, <1>4, <1>5 DEF IInv, Kept

\* A request writes the documents.
LEMMA SaveKeeps ==
    ASSUME IInv, NEW p \in Procs, NEW r, Replaces(p, r), Serving,
           UNCHANGED <<active, drivers, files, store, redrawn>>,
           r.pc \in {"resolve", "driverRead", "files"},
           docs' \in [Docs -> Doc \cup {None}],
           \A d \in Docs: docs'[d] # None =>
               \/ /\ docs[d] # None
                  /\ docs'[d].exp = docs[d].exp /\ docs'[d].status = docs[d].status
               \/ Lags(today, docs'[d])
    PROVE  Kept
<1>1. TypeOK' /\ RequestsHaveShape'
  BY TypeFrame DEF IInv, TypeOK
<1>2. StatusOnlyLags' /\ PendingRowsLag'
  BY LagFrame DEF Serving
<1>3. AttachmentsAreWhole' /\ UploadsOwnTheirKey'
  BY FileFrame DEF Live
<1>4. RisesWithFaults
  BY AlertFrame DEF Serving
<1> QED
  BY <1>1, <1>2, <1>3, <1>4 DEF IInv, Kept

\* A request goes on with what it has.
LEMMA Going ==
    ASSUME IInv, NEW p \in Procs, NEW pc, Goto(p, pc),
           \/ /\ req[p].pc \in {"insert", "write", "resolve", "alert", "files"}
              /\ pc \in {"resolve", "alert", "driverRead"}
           \/ req[p].pc = "copy" /\ pc = "fileInsert"
    PROVE  \E r: /\ Replaces(p, r) /\ r.pc = pc /\ r.doc = req[p].doc /\ r.row = req[p].row
                 /\ r.file = req[p].file /\ r.key = req[p].key
<1> DEFINE r == [req[p] EXCEPT !.pc = pc]
<1>1. Shape(req[p]) /\ req[p] \in Request
  BY DEF IInv, RequestsHaveShape, Shape
<1>2. pc \in {"resolve", "alert", "driverRead", "fileInsert"}
  OBVIOUS
<1>3. /\ r \in Request /\ r.pc = pc /\ r.doc = req[p].doc /\ r.row = req[p].row
      /\ r.file = req[p].file /\ r.key = req[p].key
  BY <1>1, <1>2 DEF Request
<1>4. req' = [req EXCEPT ![p] = r]
  BY DEF Goto, Become
<1> HIDE DEF r
<1>5. Shape(r)
  BY <1>1, <1>3 DEF Shape
<1> QED
  BY <1>3, <1>4, <1>5 DEF Replaces

LEMMA IdleReplaces ==
    ASSUME NEW p \in Procs, Become(p, Idle)
    PROVE  Replaces(p, Idle) /\ Idle.pc = "idle"
  BY IdleShape DEF Become, Replaces

-------------------------------------------------------------------------------
(* The actions *)

LEMMA EndKeeps ==
    ASSUME IInv, NEW p \in Procs, Become(p, Idle), Reads \/ Fails(p)
    PROVE  Kept
<1>1. Replaces(p, Idle) /\ Idle.pc = "idle" /\ Serving /\ UNCHANGED tables
  BY IdleReplaces, ServingSteps DEF Reads, Fails
<1> QED
  BY <1>1, MoveKeeps

LEMMA BeginCreateKeeps ==
    ASSUME IInv, NEW p \in Procs, NEW d \in Docs, NEW b \in Bodies, BeginCreate(p, d, b)
    PROVE  Kept
<1> DEFINE row == [driver |-> b.driver, type |-> b.type, exp |-> b.exp,
                   status |-> StatusOf(b.exp), live |-> TRUE]
           r == [Idle EXCEPT !.pc = "insert", !.doc = d, !.row = row]
<1>1. b \in Body /\ b.exp \in Date
  BY DocumentsAssumption DEF Body
<1>2. /\ StatusOf(b.exp) \in Status
      /\ row.exp = b.exp /\ row.status = StatusOf(b.exp) => Lags(today, row)
  BY <1>1, NewStatusLags DEF IInv, TypeOK
<1>3. row \in Doc /\ Lags(today, row)
  BY <1>1, <1>2 DEF Doc, Body
<1>4. BeginsReading(p) /\ req' = [req EXCEPT ![p] = r]
  BY DEF BeginCreate, Become
<1> HIDE DEF row
<1>5. r \in Request /\ r.pc = "insert" /\ r.doc = d /\ r.row = row
  BY <1>3 DEF Idle, Request
<1>6. Replaces(p, r) /\ Serving /\ UNCHANGED tables
  BY <1>3, <1>4, <1>5, ServingSteps DEF Replaces, Shape, BeginsReading
<1> HIDE DEF r
<1> QED
  BY <1>3, <1>5, <1>6, MoveKeeps

LEMMA BeginUpdateKeeps ==
    ASSUME IInv, NEW p \in Procs, NEW d \in Docs, NEW exp \in Dates, BeginUpdate(p, d, exp)
    PROVE  Kept
<1> DEFINE row == DocMerged(docs[d], exp)
           r == [Idle EXCEPT !.pc = "write", !.doc = d, !.row = row]
<1>1. exp \in Date /\ docs[d] \in Doc /\ docs[d] # None
  BY DocumentsAssumption DEF BeginUpdate, Live, IInv, TypeOK
<1>2. row \in Doc /\ Lags(today, row)
  <2>1. CASE exp = None
    BY <1>1, <2>1, StatusesLag DEF DocMerged, IInv
  <2>2. CASE exp # None
    <3> DEFINE new == [docs[d] EXCEPT !.exp = exp, !.status = StatusOf(exp)]
    <3>1. /\ StatusOf(exp) \in Status
          /\ new.exp = exp /\ new.status = StatusOf(exp) => Lags(today, new)
      BY <1>1, NewStatusLags DEF IInv, TypeOK
    <3>2. new \in Doc /\ new.exp = exp /\ new.status = StatusOf(exp)
      BY <1>1, <3>1 DEF Doc
    <3>3. row = new
      BY <2>2 DEF DocMerged
    <3> QED
      BY <3>1, <3>2, <3>3
  <2> QED
    BY <2>1, <2>2
<1>3. BeginsReading(p) /\ req' = [req EXCEPT ![p] = r]
  BY DEF BeginUpdate, Become
<1> HIDE DEF row
<1>4. r \in Request /\ r.pc = "write" /\ r.doc = d /\ r.row = row
  BY <1>2 DEF Idle, Request
<1>5. Replaces(p, r) /\ Serving /\ UNCHANGED tables
  BY <1>2, <1>3, <1>4, ServingSteps DEF Replaces, Shape, BeginsReading
<1> HIDE DEF r
<1> QED
  BY <1>2, <1>4, <1>5, MoveKeeps

LEMMA RowsOfRequests ==
    ASSUME IInv, NEW p \in Procs,
           req[p].pc \in {"insert", "write", "resolve", "alert", "files", "driverRead", "driverWrite"}
    PROVE  req[p].doc \in Docs /\ req[p].row \in Doc /\ req[p] \in Request
  BY DEF IInv, RequestsHaveShape, Shape

\* The row waited with a status that only lags.
LEMMA StoreKeeps ==
    ASSUME IInv, NEW p \in Procs, req[p].pc \in {"insert", "write"},
           \/ docs' = docs
           \/ docs' = [docs EXCEPT ![req[p].doc] = req[p].row],
           Goto(p, AfterSave(req[p].row)), Writes(p),
           UNCHANGED <<active, drivers, files, store, redrawn>>
    PROVE  Kept
<1>1. req[p].doc \in Docs /\ req[p].row \in Doc /\ Lags(today, req[p].row)
  BY RowsOfRequests DEF IInv, PendingRowsLag
<1>2. AfterSave(req[p].row) \in {"driverRead", "resolve"}
  BY DEF AfterSave
<1>3. PICK r: Replaces(p, r) /\ r.pc = AfterSave(req[p].row)
  BY <1>2, Going
<1>4. docs' \in [Docs -> Doc \cup {None}]
  BY <1>1 DEF IInv, TypeOK
<1>5. \A d \in Docs: docs'[d] = docs[d] \/ Lags(today, docs'[d])
  BY <1>1 DEF IInv, TypeOK
<1>6. Serving
  BY ServingSteps
<1> QED
  BY <1>2, <1>3, <1>4, <1>5, <1>6, SaveKeeps

LEMMA InsertAndWriteKeep ==
    ASSUME IInv, NEW p \in Procs, Insert(p) \/ Write(p)
    PROVE  Kept
  BY StoreKeeps, EndKeeps DEF Insert, Write

LEMMA DeleteDocumentKeeps ==
    ASSUME IInv, NEW p \in Procs, NEW d \in Docs, DeleteDocument(p, d)
    PROVE  Kept
<1> DEFINE gone == [docs[d] EXCEPT !.live = FALSE]
           row == [docs[d] EXCEPT !.exp = None]
           r == [Idle EXCEPT !.pc = "files", !.doc = d, !.row = row]
<1>1. docs[d] \in Doc /\ docs[d] # None
  BY DEF DeleteDocument, Live, IInv, TypeOK
<1>2. /\ gone \in Doc /\ gone.exp = docs[d].exp /\ gone.status = docs[d].status
      /\ row \in Doc
  BY <1>1 DEF Doc, Date
<1>3. /\ docs' = [docs EXCEPT ![d] = gone] /\ req' = [req EXCEPT ![p] = r]
      /\ Begin(p) /\ alone' = [q \in Procs |-> q = p]
      /\ UNCHANGED <<active, drivers, files, store, redrawn>>
  BY DEF DeleteDocument, Become
<1> HIDE DEF gone, row
<1>4. r \in Request /\ r.pc = "files" /\ r.doc = d /\ r.row = row
  BY <1>2 DEF Idle, Request
<1>5. Replaces(p, r) /\ Serving
  BY <1>2, <1>3, <1>4, ServingSteps DEF Replaces, Shape
<1>6. /\ docs' \in [Docs -> Doc \cup {None}] /\ docs'[d] = gone
      /\ \A e \in Docs: e # d => docs'[e] = docs[e]
  BY <1>2, <1>3 DEF IInv, TypeOK
<1> HIDE DEF r
<1> QED
  BY <1>1, <1>2, <1>3, <1>4, <1>5, <1>6, SaveKeeps

LEMMA ResolveKeeps ==
    ASSUME IInv, NEW p \in Procs, Resolve(p)
    PROVE  Kept
<1>1. PICK d \in Docs: req[p].pc = "resolve" /\ req[p].doc = d
  BY RowsOfRequests DEF Resolve
<1>2. PICK r: Replaces(p, r) /\ r.pc = "alert" /\ r.doc = d
  BY <1>1, Going DEF Resolve
<1>3. Serving /\ UNCHANGED <<docs, drivers, files, store, redrawn, today>>
  BY ServingSteps DEF Resolve, Fails, tables, Writes
<1>4. \/ active' = [active EXCEPT ![d] = 0]
      \/ active' = active /\ faults' = faults + 1
  BY <1>1 DEF Resolve, Resolved, Fails, tables
<1>5. active' \in [Docs -> Nat]
  BY <1>4 DEF IInv, TypeOK
<1>6. TypeOK' /\ RequestsHaveShape'
  BY <1>2, <1>3, <1>5, TypeFrame DEF IInv, TypeOK
<1>7. StatusOnlyLags' /\ PendingRowsLag'
  BY <1>2, <1>3, LagFrame
<1>8. AttachmentsAreWhole' /\ UploadsOwnTheirKey'
  BY <1>2, <1>3, FileFrame DEF Live
<1>9. RisesWithFaults
  <2>1. req'[p] = r /\ \A q \in Procs: q # p => req'[q] = req[q]
    BY <1>2, Replacing
  <2> SUFFICES ASSUME NEW e \in Docs
               PROVE  active'[e] = 0 \/ Count(e)' + faults <= Count(e) + faults'
    BY DEF RisesWithFaults
  <2>2. active[e] \in Nat /\ faults \in Nat /\ faults' \in Nat /\ faults <= faults'
    BY <1>3 DEF IInv, TypeOK, Serving
  <2>3. CASE e # d
    <3>1. Alerting(e)' = Alerting(e)
      BY <1>1, <1>2, <2>1, <2>3 DEF Alerting
    <3>2. active'[e] = active[e]
      BY <1>4, <2>3 DEF IInv, TypeOK
    <3> QED
      BY <2>2, <3>1, <3>2, AlertingIsCounted DEF Count
  <2>4. CASE e = d /\ active' = [active EXCEPT ![d] = 0]
    <3>1. active'[e] = 0
      BY <2>4 DEF IInv, TypeOK
    <3> QED
      BY <3>1
  <2>5. CASE e = d /\ active' = active /\ faults' = faults + 1
    <3>1. Alerting(e)' = Alerting(e) \cup {p} /\ p \notin Alerting(e)
      BY <1>1, <1>2, <2>1, <2>5 DEF Alerting
    <3>2. Cardinality(Alerting(e)') = Cardinality(Alerting(e)) + 1
      BY <3>1, AlertingIsCounted, FS_AddElement
    <3> QED
      BY <2>2, <2>5, <3>2, AlertingIsCounted DEF Count
  <2> QED
    BY <1>4, <2>3, <2>4, <2>5
<1> QED
  BY <1>6, <1>7, <1>8, <1>9 DEF IInv, Kept

LEMMA CreateAlertKeeps ==
    ASSUME IInv, NEW p \in Procs, CreateAlert(p)
    PROVE  Kept
<1>1. PICK d \in Docs: req[p].pc = "alert" /\ req[p].doc = d
  BY RowsOfRequests DEF CreateAlert
<1>2. PICK r: Replaces(p, r) /\ r.pc = "driverRead"
  BY <1>1, Going DEF CreateAlert
<1>3. Serving /\ UNCHANGED <<docs, drivers, files, store, redrawn, today>>
  BY ServingSteps DEF CreateAlert, Fails, Reads, tables, Writes
<1>4. active' = [active EXCEPT ![d] = @ + 1] \/ active' = active
  BY <1>1 DEF CreateAlert, Fails, Reads, tables
<1>5. active' \in [Docs -> Nat]
  BY <1>4 DEF IInv, TypeOK
<1>6. TypeOK' /\ RequestsHaveShape'
  BY <1>2, <1>3, <1>5, TypeFrame DEF IInv, TypeOK
<1>7. StatusOnlyLags' /\ PendingRowsLag'
  BY <1>2, <1>3, LagFrame
<1>8. AttachmentsAreWhole' /\ UploadsOwnTheirKey'
  BY <1>2, <1>3, FileFrame DEF Live
<1>9. RisesWithFaults
  <2>1. req'[p] = r /\ \A q \in Procs: q # p => req'[q] = req[q]
    BY <1>2, Replacing
  <2> SUFFICES ASSUME NEW e \in Docs
               PROVE  active'[e] = 0 \/ Count(e)' + faults <= Count(e) + faults'
    BY DEF RisesWithFaults
  <2>2. active[e] \in Nat /\ faults \in Nat /\ faults' \in Nat /\ faults <= faults'
    BY <1>3 DEF IInv, TypeOK, Serving
  <2>3. CASE e # d
    <3>1. Alerting(e)' = Alerting(e)
      BY <1>1, <1>2, <2>1, <2>3 DEF Alerting
    <3>2. active'[e] = active[e]
      BY <1>4, <2>3 DEF IInv, TypeOK
    <3> QED
      BY <2>2, <3>1, <3>2, AlertingIsCounted DEF Count
  <2>4. CASE e = d
    <3>1. Alerting(e)' = Alerting(e) \ {p} /\ p \in Alerting(e)
      BY <1>1, <1>2, <2>1, <2>4 DEF Alerting
    <3>2. Cardinality(Alerting(e)') = Cardinality(Alerting(e)) - 1
      BY <3>1, AlertingIsCounted, FS_RemoveElement
    <3>3. active'[e] <= active[e] + 1 /\ active'[e] \in Nat
      BY <1>4, <1>5, <2>4 DEF IInv, TypeOK
    <3> QED
      BY <2>2, <3>2, <3>3, AlertingIsCounted DEF Count
  <2> QED
    BY <2>3, <2>4
<1> QED
  BY <1>6, <1>7, <1>8, <1>9 DEF IInv, Kept

LEMMA ReadDriverKeeps ==
    ASSUME IInv, NEW p \in Procs, ReadDriver(p)
    PROVE  Kept
<1>1. CASE Become(p, Idle) /\ (Reads \/ Fails(p))
  BY <1>1, EndKeeps
<1>2. CASE ~(Become(p, Idle) /\ (Reads \/ Fails(p)))
  <2> DEFINE row == req[p].row
             merged == DriverMerged(drivers[row.driver], row.type, row.exp)
             r == [req[p] EXCEPT !.pc = "driverWrite", !.driver = merged]
  <2>1. /\ row \in Doc /\ req[p] \in Request /\ req[p].doc \in Docs
        /\ drivers \in [Drivers -> Driver]
    BY RowsOfRequests DEF ReadDriver, IInv, TypeOK
  <2>2. /\ ColumnOf(row.type) # None /\ Reads
        /\ req' = [req EXCEPT ![p] = r]
    BY <1>2 DEF ReadDriver, Become
  <2>3. ColumnOf(row.type) \in Columns
    BY <2>1, <2>2 DEF ColumnOf, Columns, Doc, Types
  <2>4. merged \in Driver
    <3>1. drivers[row.driver] \in Driver /\ row.exp \in Date
      BY <2>1 DEF Doc
    <3>2. [drivers[row.driver] EXCEPT ![ColumnOf(row.type)] = row.exp] \in Driver
      BY <2>3, <3>1 DEF Driver
    <3> QED
      BY <3>1, <3>2 DEF DriverMerged
  <2> HIDE DEF merged
  <2>5. /\ r \in Request /\ r.pc = "driverWrite" /\ r.driver = merged
        /\ r.doc = req[p].doc /\ r.row = row
    BY <2>1, <2>4 DEF Request
  <2> HIDE DEF row, r
  <2>6. Replaces(p, r) /\ Serving /\ UNCHANGED tables
    BY <2>1, <2>2, <2>4, <2>5, ServingSteps DEF Replaces, Shape, Reads
  <2> QED
    BY <2>5, <2>6, MoveKeeps
<1> QED
  BY <1>1, <1>2

LEMMA WriteDriverKeeps ==
    ASSUME IInv, NEW p \in Procs, WriteDriver(p)
    PROVE  Kept
<1>1. CASE Fails(p)
  BY <1>1, EndKeeps DEF WriteDriver
<1>2. CASE ~Fails(p)
  <2>1. /\ req[p].driver \in Driver /\ req[p].row \in Doc
        /\ drivers \in [Drivers -> Driver]
    BY RowsOfRequests DEF WriteDriver, IInv, TypeOK, RequestsHaveShape, Shape
  <2>2. /\ drivers' = [drivers EXCEPT ![req[p].row.driver] = req[p].driver]
        /\ UNCHANGED <<docs, active, files, store, redrawn>> /\ Writes(p)
        /\ Become(p, Idle)
    BY <1>2 DEF WriteDriver
  <2>3. drivers' \in [Drivers -> Driver]
    BY <2>1, <2>2
  <2>4. Replaces(p, Idle) /\ Idle.pc = "idle" /\ Serving
    BY <2>2, IdleReplaces, ServingSteps
  <2>5. TypeOK' /\ RequestsHaveShape'
    BY <2>2, <2>3, <2>4, TypeFrame DEF IInv, TypeOK
  <2>6. StatusOnlyLags' /\ PendingRowsLag'
    BY <2>2, <2>4, LagFrame DEF Serving
  <2>7. AttachmentsAreWhole' /\ UploadsOwnTheirKey'
    BY <2>2, <2>4, FileFrame DEF Live
  <2>8. RisesWithFaults
    BY <2>2, <2>4, AlertFrame DEF Serving
  <2> QED
    BY <2>5, <2>6, <2>7, <2>8 DEF IInv, Kept
<1> QED
  BY <1>1, <1>2

LEMMA DeleteFilesKeeps ==
    ASSUME IInv, NEW p \in Procs, DeleteFiles(p)
    PROVE  Kept
<1>1. PICK r: Replaces(p, r) /\ r.pc = "driverRead"
  BY Going DEF DeleteFiles
<1>2. Serving /\ UNCHANGED <<docs, active, drivers, store, redrawn, today>>
  BY ServingSteps DEF DeleteFiles, Fails, tables, Writes
<1>3. \/ files' = [i \in Files |->
                  IF files[i] # None /\ files[i].doc = req[p].doc
                  THEN [files[i] EXCEPT !.live = FALSE] ELSE files[i]]
      \/ files' = files
  BY DEF DeleteFiles, Fails, tables
<1>4. \A i \in Files: files'[i] = files[i] \/ (files[i] # None /\ files'[i] = [files[i] EXCEPT !.live = FALSE])
  BY <1>3
<1>5. \A i \in Files: /\ files'[i] \in File \cup {None}
                      /\ files'[i] = files[i] \/ ~Live(files'[i])
  <2> SUFFICES ASSUME NEW i \in Files
               PROVE  /\ files'[i] \in File \cup {None}
                      /\ files'[i] = files[i] \/ ~Live(files'[i])
    OBVIOUS
  <2>1. files[i] \in File \cup {None}
    BY DEF IInv, TypeOK
  <2> QED
    BY <1>4, <2>1 DEF File, Live
<1>6. files' \in [Files -> File \cup {None}]
  <2>1. CASE files' = files
    BY <2>1 DEF IInv, TypeOK
  <2>2. CASE files' # files
    BY <1>3, <1>5, <2>2
  <2> QED
    BY <2>1, <2>2
<1>7. TypeOK' /\ RequestsHaveShape'
  BY <1>1, <1>2, <1>6, TypeFrame DEF IInv, TypeOK
<1>8. StatusOnlyLags' /\ PendingRowsLag'
  BY <1>1, <1>2, LagFrame
<1>9. AttachmentsAreWhole' /\ UploadsOwnTheirKey'
  BY <1>1, <1>2, <1>5, FileFrame DEF Live
<1>10. RisesWithFaults
  BY <1>1, <1>2, AlertFrame DEF Serving
<1> QED
  BY <1>7, <1>8, <1>9, <1>10 DEF IInv, Kept

LEMMA BeginUploadKeeps ==
    ASSUME IInv, NEW p \in Procs, NEW d \in Docs, NEW i \in Files, NEW k \in Keys,
           BeginUpload(p, d, i, k)
    PROVE  Kept
<1> DEFINE r == [Idle EXCEPT !.pc = "copy", !.doc = d, !.file = i, !.key = k]
<1>1. /\ req' = [req EXCEPT ![p] = r] /\ Begin(p) /\ alone' = [q \in Procs |-> q = p]
      /\ store' = [store EXCEPT ![k] = Partial]
      /\ redrawn' = IF store[k] = None THEN redrawn ELSE redrawn \cup {k}
      /\ UNCHANGED <<docs, active, drivers, files>>
  BY DEF BeginUpload, Become
<1>2. r \in Request /\ r.pc = "copy" /\ r.doc = d /\ r.file = i /\ r.key = k
  BY DEF Idle, Request
<1> HIDE DEF r
<1>3. Replaces(p, r) /\ Serving
  BY <1>1, <1>2, ServingSteps DEF Replaces, Shape
<1>4. /\ store' \in [Keys -> Files \cup {Partial, None}]
      /\ store'[k] = Partial /\ \A j \in Keys: j # k => store'[j] = store[j]
      /\ redrawn \subseteq redrawn' /\ redrawn' \subseteq Keys
      /\ store[k] = None \/ k \in redrawn'
      /\ files \in [Files -> File \cup {None}]
  BY <1>1 DEF IInv, TypeOK
<1>5. req'[p] = r /\ \A q \in Procs: q # p => req'[q] = req[q]
  BY <1>3, Replacing
<1>6. TypeOK' /\ RequestsHaveShape'
  BY <1>1, <1>3, <1>4, TypeFrame DEF IInv, TypeOK
<1>7. StatusOnlyLags' /\ PendingRowsLag'
  BY <1>1, <1>2, <1>3, LagFrame DEF Serving
<1>8. AttachmentsAreWhole'
  <2> SUFFICES ASSUME NEW j \in Files, Live(files[j]), files[j].key \notin redrawn'
               PROVE  store'[files[j].key] = j
    BY <1>1 DEF AttachmentsAreWhole, Live
  <2>1. store[files[j].key] = j /\ files[j].key \in Keys
    BY <1>4 DEF IInv, AttachmentsAreWhole, Live, File
  <2>2. files[j].key # k
    BY <1>4, <2>1, DocumentsAssumption
  <2> QED
    BY <1>4, <2>1, <2>2
<1>9. UploadsOwnTheirKey'
  <2>1. \A q \in Procs: q # p /\ req[q].key \notin redrawn' /\ req[q].pc \in {"copy", "fileInsert"}
            => req[q].key # k /\ store'[req[q].key] = store[req[q].key]
    <3> SUFFICES ASSUME NEW q \in Procs, req[q].key \notin redrawn',
                        req[q].pc \in {"copy", "fileInsert"}
                 PROVE  req[q].key # k /\ store'[req[q].key] = store[req[q].key]
      OBVIOUS
    <3>1. req[q].key \in Keys /\ req[q].file \in Files
      BY DEF IInv, RequestsHaveShape, Shape
    <3>2. store[req[q].key] = Partial \/ store[req[q].key] = req[q].file
      BY <1>4 DEF IInv, UploadsOwnTheirKey
    <3>3. store[req[q].key] # None
      BY <3>1, <3>2, DocumentsAssumption
    <3> QED
      BY <1>4, <3>1, <3>3
  <2>2. \A q \in Procs: req[q].key \notin redrawn' => req[q].key \notin redrawn
    BY <1>4
  <2> SUFFICES ASSUME NEW q \in Procs, req'[q].key \notin redrawn'
               PROVE  /\ req'[q].pc = "copy" =>
                            /\ store'[req'[q].key] = Partial
                            /\ \A s \in Procs: req'[s].pc = "copy" /\ req'[s].key = req'[q].key
                                   => s = q
                      /\ req'[q].pc = "fileInsert" => store'[req'[q].key] = req'[q].file
    BY DEF UploadsOwnTheirKey
  <2>3. CASE q = p
    BY <1>2, <1>4, <1>5, <2>1, <2>3
  <2>4. CASE q # p
    BY <1>2, <1>4, <1>5, <2>1, <2>2, <2>4 DEF IInv, UploadsOwnTheirKey
  <2> QED
    BY <2>3, <2>4
<1>10. RisesWithFaults
  BY <1>1, <1>2, <1>3, AlertFrame DEF Serving
<1> QED
  BY <1>6, <1>7, <1>8, <1>9, <1>10 DEF IInv, Kept

LEMMA CopyContentKeeps ==
    ASSUME IInv, NEW p \in Procs, CopyContent(p)
    PROVE  Kept
<1>1. CASE AfterFailedCopy(p) /\ Fails(p)
  BY <1>1, EndKeeps DEF AfterFailedCopy
<1>2. CASE ~(AfterFailedCopy(p) /\ Fails(p))
  <2> DEFINE k == req[p].key
             i == req[p].file
  <2>1. /\ store' = [store EXCEPT ![k] = i] /\ Goto(p, "fileInsert") /\ Writes(p)
        /\ UNCHANGED <<docs, active, drivers, files, redrawn>> /\ req[p].pc = "copy"
    BY <1>2 DEF CopyContent
  <2>2. PICK r: Replaces(p, r) /\ r.pc = "fileInsert" /\ r.file = i /\ r.key = k
    BY <2>1, Going
  <2>3. k \in Keys /\ i \in Files /\ files \in [Files -> File \cup {None}]
    BY <2>1 DEF IInv, RequestsHaveShape, Shape, TypeOK
  <2>4. /\ store' \in [Keys -> Files \cup {Partial, None}]
        /\ store'[k] = i /\ \A j \in Keys: j # k => store'[j] = store[j]
    BY <2>1, <2>3 DEF IInv, TypeOK
  <2>5. k \notin redrawn => store[k] = Partial
    BY <2>1 DEF IInv, UploadsOwnTheirKey
  <2>6. req'[p] = r /\ \A q \in Procs: q # p => req'[q] = req[q]
    BY <2>2, Replacing
  <2>7. Serving
    BY <2>1, ServingSteps
  <2>8. k \notin redrawn => \A q \in Procs: req[q].pc = "copy" /\ req[q].key = k => q = p
    BY <2>1 DEF IInv, UploadsOwnTheirKey
  <2> HIDE DEF k, i
  <2>9. TypeOK' /\ RequestsHaveShape'
    BY <2>1, <2>2, <2>4, <2>7, TypeFrame DEF IInv, TypeOK
  <2>10. StatusOnlyLags' /\ PendingRowsLag'
    BY <2>1, <2>2, <2>7, LagFrame DEF Serving
  <2>11. AttachmentsAreWhole'
    <3> SUFFICES ASSUME NEW j \in Files, Live(files[j]), files[j].key \notin redrawn
                 PROVE  store'[files[j].key] = j
      BY <2>1 DEF AttachmentsAreWhole, Live
    <3>1. store[files[j].key] = j /\ files[j].key \in Keys
      BY <2>3 DEF IInv, AttachmentsAreWhole, Live, File
    <3>2. files[j].key # k
      BY <2>5, <3>1, DocumentsAssumption
    <3> QED
      BY <2>4, <3>1, <3>2
  <2>12. UploadsOwnTheirKey'
    <3> SUFFICES ASSUME NEW q \in Procs, req'[q].key \notin redrawn
                 PROVE  /\ req'[q].pc = "copy" =>
                              /\ store'[req'[q].key] = Partial
                              /\ \A s \in Procs: req'[s].pc = "copy" /\ req'[s].key = req'[q].key
                                     => s = q
                        /\ req'[q].pc = "fileInsert" => store'[req'[q].key] = req'[q].file
      BY <2>1 DEF UploadsOwnTheirKey
    <3>1. CASE q = p
      BY <2>2, <2>4, <2>6, <3>1
    <3>2. CASE q # p /\ req[q].pc \in {"copy", "fileInsert"}
      <4>1. req[q].key \in Keys /\ req[q].file \in Files /\ req[q].key \notin redrawn
        BY <2>6, <3>2 DEF IInv, RequestsHaveShape, Shape
      <4>2. req[q].pc = "fileInsert" => store[req[q].key] = req[q].file
        BY <4>1 DEF IInv, UploadsOwnTheirKey
      <4>3. req[q].key # k
        BY <2>5, <2>8, <3>2, <4>1, <4>2, DocumentsAssumption
      <4>4. /\ req[q].pc = "copy" => /\ store[req[q].key] = Partial
                                     /\ \A s \in Procs: req[s].pc = "copy" /\ req[s].key = req[q].key
                                            => s = q
        BY <4>1 DEF IInv, UploadsOwnTheirKey
      <4> QED
        BY <2>2, <2>4, <2>6, <3>2, <4>1, <4>2, <4>3, <4>4
    <3>3. CASE q # p /\ req[q].pc \notin {"copy", "fileInsert"}
      BY <2>6, <3>3
    <3> QED
      BY <3>1, <3>2, <3>3
  <2>13. RisesWithFaults
    BY <2>1, <2>2, <2>7, AlertFrame DEF Serving
  <2> QED
    BY <2>9, <2>10, <2>11, <2>12, <2>13 DEF IInv, Kept
<1> QED
  BY <1>1, <1>2

LEMMA InsertFileKeeps ==
    ASSUME IInv, NEW p \in Procs, InsertFile(p)
    PROVE  Kept
<1>1. CASE Fails(p)
  BY <1>1, EndKeeps DEF InsertFile
<1>2. CASE ~Fails(p)
  <2> DEFINE i == req[p].file
             row == [doc |-> req[p].doc, key |-> req[p].key, live |-> TRUE]
  <2>1. /\ files' = [files EXCEPT ![i] = row] /\ Become(p, Idle) /\ Writes(p)
        /\ UNCHANGED <<docs, active, drivers, store, redrawn>> /\ req[p].pc = "fileInsert"
    BY <1>2 DEF InsertFile
  <2>2. i \in Files /\ row \in File /\ files \in [Files -> File \cup {None}]
    BY <2>1 DEF IInv, RequestsHaveShape, Shape, TypeOK, File
  <2>3. row.key \notin redrawn => store[row.key] = i
    BY <2>1 DEF IInv, UploadsOwnTheirKey
  <2> HIDE DEF i, row
  <2>4. /\ files' \in [Files -> File \cup {None}]
        /\ files'[i] = row /\ \A j \in Files: j # i => files'[j] = files[j]
    BY <2>1, <2>2
  <2>5. Replaces(p, Idle) /\ Idle.pc = "idle" /\ Serving
    BY <2>1, IdleReplaces, ServingSteps
  <2>6. req'[p] = Idle /\ \A q \in Procs: q # p => req'[q] = req[q]
    BY <2>5, Replacing
  <2>7. TypeOK' /\ RequestsHaveShape'
    BY <2>1, <2>4, <2>5, TypeFrame DEF IInv, TypeOK
  <2>8. StatusOnlyLags' /\ PendingRowsLag'
    BY <2>1, <2>5, LagFrame DEF Serving
  <2>9. AttachmentsAreWhole'
    <3> SUFFICES ASSUME NEW j \in Files, Live(files'[j]), files'[j].key \notin redrawn
                 PROVE  store[files'[j].key] = j
      BY <2>1 DEF AttachmentsAreWhole, Live
    <3>1. CASE j = i
      BY <2>3, <2>4, <3>1
    <3>2. CASE j # i
      BY <2>4, <3>2 DEF IInv, AttachmentsAreWhole
    <3> QED
      BY <3>1, <3>2
  <2>10. UploadsOwnTheirKey'
    BY <2>1, <2>5, <2>6 DEF IInv, UploadsOwnTheirKey
  <2>11. RisesWithFaults
    BY <2>1, <2>5, AlertFrame DEF Serving
  <2> QED
    BY <2>7, <2>8, <2>9, <2>10, <2>11 DEF IInv, Kept
<1> QED
  BY <1>1, <1>2

LEMMA DeleteAttachmentKeeps ==
    ASSUME IInv, NEW p \in Procs, NEW d \in Docs, NEW i \in Files, DeleteAttachment(p, d, i)
    PROVE  Kept
<1>1. /\ req[p].pc = "idle" /\ Live(files[i]) /\ Begin(p) /\ alone' = [q \in Procs |-> q = p]
      /\ files' = [files EXCEPT ![i].live = FALSE]
      /\ UNCHANGED <<docs, active, drivers, store, req, redrawn>>
  BY DEF DeleteAttachment, Begin
<1>2. files[i] \in File /\ files \in [Files -> File \cup {None}]
  BY <1>1 DEF IInv, TypeOK, Live
<1>3. PICK gone: gone = [files[i] EXCEPT !.live = FALSE]
  OBVIOUS
<1>4. gone \in File /\ gone.live = FALSE
  BY <1>2, <1>3 DEF File
<1>5. /\ files' \in [Files -> File \cup {None}]
      /\ files'[i] = gone /\ \A j \in Files: j # i => files'[j] = files[j]
  BY <1>1, <1>2, <1>3, <1>4
<1>6. PICK r: r = req[p]
  OBVIOUS
<1>7. r.pc = "idle" /\ Replaces(p, r) /\ Serving
  BY <1>1, <1>6, ServingSteps DEF Replaces, IInv, RequestsHaveShape, TypeOK
<1>8. TypeOK' /\ RequestsHaveShape'
  BY <1>1, <1>5, <1>7, TypeFrame DEF IInv, TypeOK
<1>9. StatusOnlyLags' /\ PendingRowsLag'
  BY <1>1, <1>7, LagFrame DEF Serving
<1>10. AttachmentsAreWhole' /\ UploadsOwnTheirKey'
  BY <1>1, <1>4, <1>5, <1>7, FileFrame DEF Live
<1>11. RisesWithFaults
  BY <1>1, <1>7, AlertFrame DEF Serving
<1> QED
  BY <1>8, <1>9, <1>10, <1>11 DEF IInv, Kept

LEMMA NothingRises ==
    ASSUME IInv, UNCHANGED <<active, faults, req>>
    PROVE  RisesWithFaults
<1> SUFFICES ASSUME NEW d \in Docs PROVE Count(d)' + faults <= Count(d) + faults'
  BY DEF RisesWithFaults
<1>1. Alerting(d)' = Alerting(d)
  BY DEF Alerting
<1>2. active[d] \in Nat /\ faults \in Nat
  BY DEF IInv, TypeOK
<1> QED
  BY <1>1, <1>2, AlertingIsCounted DEF Count

LEMMA TickKeeps ==
    ASSUME IInv, Tick
    PROVE  Kept
<1>1. /\ today' = today + 1 /\ alone' = [p \in Procs |-> FALSE]
      /\ UNCHANGED <<docs, active, drivers, files, store, redrawn, begun, faults, req>>
  BY DEF Tick, tables
<1>2. alone' \in [Procs -> BOOLEAN]
  BY <1>1
<1>3. today \in Nat /\ today' \in Nat
  BY <1>1 DEF IInv, TypeOK
<1>4. TypeOK'
  BY <1>1, <1>2, <1>3 DEF IInv, TypeOK
<1>5. \A row \in Doc: Lags(today, row) => Lags(today', row)
  <2> SUFFICES ASSUME NEW row \in Doc, Lags(today, row)
               PROVE  Lags(today', row)
    OBVIOUS
  <2>1. row.exp \in Date /\ row.status \in Status
    BY DEF Doc
  <2>2. Severity(StatusAt(today, row.exp)) <= Severity(StatusAt(today', row.exp))
    BY <1>1, <1>3, <2>1, StatusesWorsen
  <2>3. StatusAt(today, row.exp) \in Status /\ StatusAt(today', row.exp) \in Status
    BY DEF StatusAt, Status
  <2>4. /\ Severity(row.status) \in Nat /\ Severity(StatusAt(today, row.exp)) \in Nat
        /\ Severity(StatusAt(today', row.exp)) \in Nat
    BY <2>1, <2>3, Severities
  <2> QED
    BY <2>2, <2>4 DEF Lags
<1>6. StatusOnlyLags'
  <2>1. \A d \in Docs: docs[d] # None => docs[d] \in Doc /\ Lags(today, docs[d])
    BY StatusesLag DEF IInv, TypeOK
  <2>2. \A d \in Docs: docs'[d] # None => Lags(today', docs'[d])
    BY <1>1, <1>5, <2>1
  <2> QED
    BY <2>2, StatusesLag
<1>7. PendingRowsLag'
  <2>1. \A p \in Procs: req[p].pc \in {"insert", "write"} => req[p].row \in Doc /\ Lags(today, req[p].row)
    BY RowsOfRequests DEF IInv, PendingRowsLag
  <2>2. \A p \in Procs: req'[p].pc \in {"insert", "write"} => Lags(today', req'[p].row)
    BY <1>1, <1>5, <2>1
  <2> QED
    BY <2>2 DEF PendingRowsLag
<1>8. RequestsHaveShape' /\ AttachmentsAreWhole' /\ UploadsOwnTheirKey'
  BY <1>1 DEF IInv, RequestsHaveShape, AttachmentsAreWhole, Live, UploadsOwnTheirKey
<1>9. RisesWithFaults
  BY <1>1, NothingRises
<1> QED
  BY <1>4, <1>6, <1>7, <1>8, <1>9 DEF IInv, Kept

LEMMA StutterKeeps ==
    ASSUME IInv, UNCHANGED vars
    PROVE  Kept
<1>1. /\ today' = today
      /\ UNCHANGED <<docs, active, drivers, files, store, redrawn, begun, faults, req, alone>>
  BY DEF vars
<1>2. TypeOK'
  BY <1>1 DEF IInv, TypeOK
<1>3. StatusOnlyLags' /\ PendingRowsLag'
  BY <1>1, StatusesLag DEF IInv, PendingRowsLag
<1>4. RequestsHaveShape' /\ AttachmentsAreWhole' /\ UploadsOwnTheirKey'
  BY <1>1 DEF IInv, RequestsHaveShape, AttachmentsAreWhole, Live, UploadsOwnTheirKey
<1>5. RisesWithFaults
  BY <1>1, NothingRises
<1> QED
  BY <1>2, <1>3, <1>4, <1>5 DEF IInv, Kept

LEMMA NextKeeps == IInv /\ [Next]_vars => Kept
<1> SUFFICES ASSUME IInv, [Next]_vars PROVE Kept
  OBVIOUS
<1>1. ASSUME NEW p \in Procs, Step(p) PROVE Kept
  <2>1. ASSUME NEW d \in Docs, NEW b \in Bodies, BeginCreate(p, d, b) PROVE Kept
    BY <2>1, BeginCreateKeeps
  <2>2. ASSUME NEW d \in Docs, NEW exp \in Dates, BeginUpdate(p, d, exp) PROVE Kept
    BY <2>2, BeginUpdateKeeps
  <2>3. ASSUME NEW d \in Docs, DeleteDocument(p, d) PROVE Kept
    BY <2>3, DeleteDocumentKeeps
  <2>4. ASSUME NEW d \in Docs, NEW i \in Files, NEW k \in Keys, BeginUpload(p, d, i, k)
        PROVE  Kept
    BY <2>4, BeginUploadKeeps
  <2>5. ASSUME NEW d \in Docs, NEW i \in Files, DeleteAttachment(p, d, i) PROVE Kept
    BY <2>5, DeleteAttachmentKeeps
  <2>6. CASE Insert(p) \/ Write(p)
    BY <2>6, InsertAndWriteKeep
  <2>7. CASE Resolve(p)
    BY <2>7, ResolveKeeps
  <2>8. CASE CreateAlert(p)
    BY <2>8, CreateAlertKeeps
  <2>9. CASE ReadDriver(p)
    BY <2>9, ReadDriverKeeps
  <2>10. CASE WriteDriver(p)
    BY <2>10, WriteDriverKeeps
  <2>11. CASE DeleteFiles(p)
    BY <2>11, DeleteFilesKeeps
  <2>12. CASE CopyContent(p)
    BY <2>12, CopyContentKeeps
  <2>13. CASE InsertFile(p)
    BY <2>13, InsertFileKeeps
  <2> QED
    BY <1>1, <2>1, <2>2, <2>3, <2>4, <2>5, <2>6, <2>7, <2>8, <2>9, <2>10, <2>11, <2>12,
       <2>13 DEF Step
<1>2. CASE Tick
  BY <1>2, TickKeeps
<1>3. CASE UNCHANGED vars
  BY <1>3, StutterKeeps
<1> QED
  BY <1>1, <1>2, <1>3 DEF Next, Served

LEMMA NextIInv == IInv /\ [Next]_vars => IInv'
  BY NextKeeps DEF Kept

-------------------------------------------------------------------------------
(* What an undisturbed request knows: the document it has saved, if it is  *)
(* still there, and the row of the driver it has read.                     *)

Saved == {"resolve", "alert", "driverRead", "driverWrite"}

Knows(r, ds, xs) ==
    /\ r.pc \in Saved \cup {"write", "files"} => ds[r.doc] # None
    /\ r.pc = "files" => ~ds[r.doc].live
    /\ r.pc \in Saved /\ ds[r.doc].live => r.row = ds[r.doc]
    /\ r.pc = "driverWrite"
         => /\ ColumnOf(r.row.type) # None
            /\ r.driver = DriverMerged(xs[r.row.driver], r.row.type, r.row.exp)

HInv == \A p \in Procs: alone[p] => Knows(req[p], docs, drivers)

\* Another request that is still undisturbed has seen nothing change.
Others(p) ==
    \A q \in Procs: q # p /\ alone'[q] => alone[q] /\ UNCHANGED <<docs, drivers>>

LEMMA OthersSteps ==
    ASSUME IInv, NEW p \in Procs,
           \/ BeginsReading(p) \/ Reads \/ Fails(p) \/ Writes(p)
           \/ alone' = [q \in Procs |-> q = p]
    PROVE  Others(p)
<1>1. alone \in [Procs -> BOOLEAN]
  BY DEF IInv, TypeOK
<1>2. CASE Writes(p) \/ alone' = [q \in Procs |-> q = p]
  <2>1. \A q \in Procs: q # p => ~alone'[q]
    BY <1>2 DEF Writes
  <2> QED
    BY <2>1 DEF Others
<1>3. CASE BeginsReading(p) \/ Reads \/ Fails(p)
  <2>1. UNCHANGED <<docs, drivers>>
    BY <1>3 DEF BeginsReading, Reads, Fails, tables
  <2>2. \A q \in Procs: q # p => alone'[q] = alone[q]
    BY <1>1, <1>3 DEF BeginsReading, Reads, Fails
  <2> QED
    BY <2>1, <2>2 DEF Others
<1> QED
  BY <1>2, <1>3

LEMMA HistoryFrame ==
    ASSUME IInv, HInv, NEW p \in Procs, NEW r, Replaces(p, r), Others(p),
           alone'[p] => Knows(r, docs', drivers')
    PROVE  HInv'
<1>1. req'[p] = r /\ \A q \in Procs: q # p => req'[q] = req[q]
  BY Replacing
<1>2. ASSUME NEW q \in Procs, alone'[q]
      PROVE  Knows(req'[q], docs', drivers')
  <2>1. CASE q = p
    BY <1>1, <1>2, <2>1
  <2>2. CASE q # p
    BY <1>1, <1>2, <2>2 DEF HInv, Others
  <2> QED
    BY <2>1, <2>2
<1>3. \A q \in Procs: alone[q]' => Knows(req[q], docs, drivers)'
  BY <1>2 DEF Knows
<1> QED
  BY <1>3 DEF HInv

LEMMA NothingKnown ==
    ASSUME NEW r, r.pc \in {"idle", "insert", "copy", "fileInsert"}
    PROVE  \A ds, xs: Knows(r, ds, xs)
  BY DEF Knows, Saved

LEMMA EndKnows ==
    ASSUME IInv, HInv, NEW p \in Procs, Become(p, Idle), Reads \/ Fails(p) \/ Writes(p)
    PROVE  HInv'
  BY IdleReplaces, NothingKnown, OthersSteps, HistoryFrame

LEMMA BeginsKnow ==
    ASSUME IInv, HInv, NEW p \in Procs,
           \/ \E d \in Docs, b \in Bodies: BeginCreate(p, d, b)
           \/ \E d \in Docs, exp \in Dates: BeginUpdate(p, d, exp)
           \/ \E d \in Docs: DeleteDocument(p, d)
           \/ \E d \in Docs, i \in Files, k \in Keys: BeginUpload(p, d, i, k)
           \/ \E d \in Docs, i \in Files: DeleteAttachment(p, d, i)
    PROVE  HInv'
<1>1. IInv'
  <2>1. Step(p)
    BY DEF Step
  <2> QED
    BY <2>1, NextIInv DEF Next
<1>2. /\ req \in [Procs -> Request] /\ req'[p] \in Request
      /\ \A r: Become(p, r) => Replaces(p, req'[p]) /\ req'[p] = r
  BY <1>1 DEF IInv, TypeOK, RequestsHaveShape, Shape, Become, Replaces
<1>3. ASSUME NEW r, Replaces(p, r), r.pc \in {"insert", "copy"},
             BeginsReading(p) \/ alone' = [q \in Procs |-> q = p]
      PROVE  HInv'
  BY <1>3, NothingKnown, OthersSteps, HistoryFrame
<1>4. ASSUME NEW d \in Docs, NEW b \in Bodies, BeginCreate(p, d, b)
      PROVE  HInv'
  <2>1. PICK r: r = [Idle EXCEPT !.pc = "insert", !.doc = d,
                     !.row = [driver |-> b.driver, type |-> b.type, exp |-> b.exp,
                              status |-> StatusOf(b.exp), live |-> TRUE]]
    OBVIOUS
  <2>2. r.pc = "insert" /\ Become(p, r)
    BY <1>4, <2>1 DEF BeginCreate, Idle
  <2>3. req'[p].pc = "insert" /\ Replaces(p, req'[p])
    BY <1>2, <2>2
  <2> QED
    BY <1>3, <1>4, <2>3 DEF BeginCreate
<1>5. ASSUME NEW d \in Docs, NEW i \in Files, NEW k \in Keys, BeginUpload(p, d, i, k)
      PROVE  HInv'
  <2>1. PICK r: r = [Idle EXCEPT !.pc = "copy", !.doc = d, !.file = i, !.key = k]
    OBVIOUS
  <2>2. r.pc = "copy" /\ Become(p, r)
    BY <1>5, <2>1 DEF BeginUpload, Idle
  <2>3. req'[p].pc = "copy" /\ Replaces(p, req'[p])
    BY <1>2, <2>2
  <2> QED
    BY <1>3, <1>5, <2>3 DEF BeginUpload
<1>6. ASSUME NEW d \in Docs, NEW exp \in Dates, BeginUpdate(p, d, exp)
      PROVE  HInv'
  <2>1. req'[p].pc = "write" /\ req'[p].doc = d /\ Replaces(p, req'[p])
    <3>1. PICK r: r = [Idle EXCEPT !.pc = "write", !.doc = d, !.row = DocMerged(docs[d], exp)]
      OBVIOUS
    <3>2. r.pc = "write" /\ r.doc = d /\ Become(p, r)
      BY <1>6, <3>1 DEF BeginUpdate, Idle
    <3> QED
      BY <1>2, <3>2
  <2>2. docs'[d] # None /\ BeginsReading(p)
    BY <1>6 DEF BeginUpdate, Live, BeginsReading, tables
  <2>3. Knows(req'[p], docs', drivers')
    BY <2>1, <2>2 DEF Knows, Saved
  <2> QED
    BY <2>1, <2>2, <2>3, OthersSteps, HistoryFrame
<1>7. ASSUME NEW d \in Docs, DeleteDocument(p, d)
      PROVE  HInv'
  <2>1. req'[p].pc = "files" /\ req'[p].doc = d /\ Replaces(p, req'[p])
    <3>1. PICK r: r = [Idle EXCEPT !.pc = "files", !.doc = d,
                                   !.row = [docs[d] EXCEPT !.exp = None]]
      OBVIOUS
    <3>2. r.pc = "files" /\ r.doc = d /\ Become(p, r)
      BY <1>7, <3>1 DEF DeleteDocument, Idle
    <3> QED
      BY <1>2, <3>2
  <2>2. docs[d] \in Doc /\ docs' = [docs EXCEPT ![d].live = FALSE]
    BY <1>7 DEF DeleteDocument, Live, IInv, TypeOK
  <2>3. docs'[d] \in Doc /\ ~docs'[d].live
    BY <2>2 DEF IInv, TypeOK, Doc
  <2>4. docs'[d] # None
    BY <2>3, DocumentsAssumption
  <2>5. Knows(req'[p], docs', drivers')
    BY <2>1, <2>3, <2>4 DEF Knows, Saved
  <2> QED
    BY <1>7, <2>1, <2>5, OthersSteps, HistoryFrame DEF DeleteDocument
<1>8. ASSUME NEW d \in Docs, NEW i \in Files, DeleteAttachment(p, d, i)
      PROVE  HInv'
  <2>1. req[p].pc = "idle" /\ req' = [req EXCEPT ![p] = req[p]]
    BY <1>2, <1>8 DEF DeleteAttachment, Begin
  <2>2. Replaces(p, req[p])
    BY <2>1 DEF Replaces, IInv, RequestsHaveShape
  <2> QED
    BY <1>8, <2>1, <2>2, NothingKnown, OthersSteps, HistoryFrame DEF DeleteAttachment
<1> QED
  BY <1>4, <1>5, <1>6, <1>7, <1>8

\* A statement that leaves documents and drivers alone.
LEMMA GoingKnows ==
    ASSUME IInv, HInv, NEW p \in Procs, NEW pc, Goto(p, pc),
           \/ req[p].pc \in {"resolve", "alert", "files"} /\ pc \in {"alert", "driverRead"}
           \/ req[p].pc = "copy" /\ pc = "fileInsert",
           \/ Fails(p)
           \/ (Writes(p) \/ Reads) /\ UNCHANGED <<docs, drivers>>
    PROVE  HInv'
<1>1. PICK r: /\ Replaces(p, r) /\ r.pc = pc /\ r.doc = req[p].doc /\ r.row = req[p].row
              /\ r.file = req[p].file /\ r.key = req[p].key
  BY Going
<1>2. Others(p)
  BY OthersSteps
<1>3. CASE Fails(p)
  <2>1. ~alone'[p]
    BY <1>3 DEF Fails, IInv, TypeOK
  <2> QED
    BY <1>1, <1>2, <2>1, HistoryFrame
<1>4. CASE (Writes(p) \/ Reads) /\ UNCHANGED <<docs, drivers>>
  <2>1. alone'[p] => alone[p]
    BY <1>4 DEF Writes, Reads
  <2>2. alone[p] => Knows(r, docs', drivers')
    BY <1>1, <1>4 DEF HInv, Knows, Saved
  <2> QED
    BY <1>1, <1>2, <2>1, <2>2, HistoryFrame
<1> QED
  BY <1>3, <1>4

LEMMA SavesKnow ==
    ASSUME IInv, HInv, NEW p \in Procs, Insert(p) \/ Write(p)
    PROVE  HInv'
<1>1. CASE Become(p, Idle) /\ (Reads \/ Fails(p))
  BY <1>1, EndKnows
<1>2. CASE ~(Become(p, Idle) /\ (Reads \/ Fails(p)))
  <2>1. /\ req[p].pc \in {"insert", "write"} /\ Writes(p) /\ UNCHANGED drivers
        /\ Goto(p, AfterSave(req[p].row))
    BY <1>2 DEF Insert, Write
  <2>2. req[p].doc \in Docs /\ req[p].row \in Doc /\ docs \in [Docs -> Doc \cup {None}]
    BY <2>1, RowsOfRequests DEF IInv, TypeOK
  <2>3. AfterSave(req[p].row) \in {"driverRead", "resolve"}
    BY DEF AfterSave
  <2>4. PICK r: /\ Replaces(p, r) /\ r.pc = AfterSave(req[p].row)
                /\ r.doc = req[p].doc /\ r.row = req[p].row
    BY <2>1, <2>3, Going
  <2>5. alone'[p] => alone[p]
    BY <2>1 DEF Writes
  <2>6. ASSUME alone[p]
        PROVE  docs'[req[p].doc] # None /\ (docs'[req[p].doc].live => docs'[req[p].doc] = req[p].row)
    <3>1. CASE docs' = [docs EXCEPT ![req[p].doc] = req[p].row]
      BY <2>2, <3>1, DocumentsAssumption
    <3>2. CASE docs' # [docs EXCEPT ![req[p].doc] = req[p].row]
      <4>1. req[p].pc = "write" /\ ~Live(docs[req[p].doc]) /\ docs' = docs
        BY <1>2, <3>2 DEF Insert, Write
      <4>2. docs[req[p].doc] # None
        BY <2>6, <4>1 DEF HInv, Knows
      <4> QED
        BY <4>1, <4>2 DEF Live
    <3> QED
      BY <3>1, <3>2
  <2>7. alone[p] => Knows(r, docs', drivers')
    BY <2>3, <2>4, <2>6 DEF Knows, Saved
  <2> QED
    BY <2>1, <2>4, <2>5, <2>7, OthersSteps, HistoryFrame
<1> QED
  BY <1>1, <1>2

LEMMA ReadDriverKnows ==
    ASSUME IInv, HInv, NEW p \in Procs, ReadDriver(p)
    PROVE  HInv'
<1>1. CASE Become(p, Idle) /\ (Reads \/ Fails(p))
  BY <1>1, EndKnows
<1>2. CASE ~(Become(p, Idle) /\ (Reads \/ Fails(p)))
  <2>1. PICK merged: merged = DriverMerged(drivers[req[p].row.driver], req[p].row.type,
                                           req[p].row.exp)
    OBVIOUS
  <2>2. PICK r: r = [req[p] EXCEPT !.pc = "driverWrite", !.driver = merged]
    OBVIOUS
  <2>3. /\ req[p].pc = "driverRead" /\ ColumnOf(req[p].row.type) # None /\ Reads
        /\ req' = [req EXCEPT ![p] = r]
    BY <1>2, <2>1, <2>2 DEF ReadDriver, Become
  <2>4. req[p] \in Request
    BY <2>3, RowsOfRequests
  <2>5. /\ r.pc = "driverWrite" /\ r.driver = merged
        /\ r.doc = req[p].doc /\ r.row = req[p].row
    BY <2>2, <2>4 DEF Request
  <2>6. Replaces(p, r)
    <3>1. IInv' /\ req'[p] = r
      BY <2>3, ReadDriverKeeps DEF Kept, IInv, TypeOK
    <3> QED
      BY <2>3, <3>1 DEF Replaces, IInv, RequestsHaveShape, Shape
  <2>7. UNCHANGED <<docs, drivers, alone>>
    BY <2>3 DEF Reads, tables
  <2>8. alone[p] => Knows(r, docs', drivers')
    BY <2>1, <2>3, <2>5, <2>7 DEF HInv, Knows, Saved
  <2> QED
    BY <2>3, <2>6, <2>7, <2>8, OthersSteps, HistoryFrame
<1> QED
  BY <1>1, <1>2

LEMMA OtherStepsKnow ==
    ASSUME IInv, HInv, NEW p \in Procs,
           \/ Resolve(p) \/ CreateAlert(p) \/ WriteDriver(p) \/ DeleteFiles(p)
           \/ CopyContent(p) \/ InsertFile(p)
    PROVE  HInv'
<1>1. CASE Resolve(p)
  BY <1>1, GoingKnows DEF Resolve
<1>2. CASE CreateAlert(p)
  <2>1. Reads => UNCHANGED <<docs, drivers>>
    BY DEF Reads, tables
  <2> QED
    BY <1>2, <2>1, GoingKnows DEF CreateAlert
<1>3. CASE DeleteFiles(p)
  BY <1>3, GoingKnows DEF DeleteFiles
<1>4. CASE WriteDriver(p) \/ InsertFile(p)
  BY <1>4, EndKnows DEF WriteDriver, InsertFile
<1>5. CASE CopyContent(p)
  BY <1>5, GoingKnows, EndKnows DEF CopyContent, AfterFailedCopy
<1> QED
  BY <1>1, <1>2, <1>3, <1>4, <1>5

LEMMA InitHInv == Init => HInv
<1> SUFFICES ASSUME Init PROVE HInv
  OBVIOUS
<1>1. \A p \in Procs: req[p].pc = "idle"
  BY IdleShape DEF Init
<1> QED
  BY <1>1, NothingKnown DEF HInv

LEMMA NextHInv == IInv /\ HInv /\ [Next]_vars => HInv'
<1> SUFFICES ASSUME IInv, HInv, [Next]_vars PROVE HInv'
  OBVIOUS
<1>1. ASSUME NEW p \in Procs, Step(p) PROVE HInv'
  <2>1. CASE \/ \E d \in Docs, b \in Bodies: BeginCreate(p, d, b)
             \/ \E d \in Docs, exp \in Dates: BeginUpdate(p, d, exp)
             \/ \E d \in Docs: DeleteDocument(p, d)
             \/ \E d \in Docs, i \in Files, k \in Keys: BeginUpload(p, d, i, k)
             \/ \E d \in Docs, i \in Files: DeleteAttachment(p, d, i)
    BY <2>1, BeginsKnow
  <2>2. CASE Insert(p) \/ Write(p)
    BY <2>2, SavesKnow
  <2>3. CASE ReadDriver(p)
    BY <2>3, ReadDriverKnows
  <2>4. CASE \/ Resolve(p) \/ CreateAlert(p) \/ WriteDriver(p) \/ DeleteFiles(p)
             \/ CopyContent(p) \/ InsertFile(p)
    BY <2>4, OtherStepsKnow
  <2> QED
    BY <1>1, <2>1, <2>2, <2>3, <2>4 DEF Step
<1>2. CASE Tick
  <2>1. \A p \in Procs: ~alone'[p]
    BY <1>2 DEF Tick
  <2> QED
    BY <2>1 DEF HInv
<1>3. CASE UNCHANGED vars
  <2>1. UNCHANGED <<alone, req, docs, drivers>>
    BY <1>3 DEF vars
  <2>2. \A p \in Procs: alone'[p] => Knows(req'[p], docs', drivers')
    BY <2>1 DEF HInv
  <2>3. \A p \in Procs: alone[p]' => Knows(req[p], docs, drivers)'
    BY <2>2 DEF Knows
  <2> QED
    BY <2>3 DEF HInv
<1> QED
  BY <1>1, <1>2, <1>3 DEF Next, Served

LEMMA StepsAreOwn ==
    ASSUME IInv, NEW p \in Procs, NEW q \in Procs, p # q, Step(q)
    PROVE  req'[p] = req[p]
<1>1. \A r: Become(q, r) => req'[p] = req[p]
  BY DEF Become, IInv, TypeOK
<1>2. \A pc: Goto(q, pc) => req'[p] = req[p]
  BY <1>1 DEF Goto
<1>3. \/ \E r: Become(q, r) \/ \E pc: Goto(q, pc)
      \/ req' = req
  BY DEF Step, BeginCreate, BeginUpdate, DeleteDocument, BeginUpload, DeleteAttachment,
         Insert, Write, Resolve, CreateAlert, ReadDriver, WriteDriver, DeleteFiles,
         CopyContent, AfterFailedCopy, InsertFile
<1> QED
  BY <1>1, <1>2, <1>3

\* A request at the write of the driver's row moves on by that write.
LEMMA WritesDriver ==
    ASSUME IInv, [Next]_vars, NEW p \in Procs, req[p].pc = "driverWrite", req'[p] # req[p]
    PROVE  WriteDriver(p)
<1>1. PICK q \in Procs: Step(q)
  BY DEF Next, Tick, Served, vars
<1>2. Step(p)
  BY <1>1, StepsAreOwn
<1>3. ~Begin(p) /\ ~BeginsReading(p)
  BY DEF Begin, BeginsReading
<1> QED
  BY <1>2, <1>3 DEF Step, BeginCreate, BeginUpdate, DeleteDocument, BeginUpload,
     DeleteAttachment, Insert, Write, Resolve, CreateAlert, ReadDriver, DeleteFiles,
     CopyContent, InsertFile

-------------------------------------------------------------------------------
(* Alerts are about a date, and an undisturbed request creates one only    *)
(* after it has resolved what there was.                                   *)

AlertsAreDated == \A p \in Procs: req[p].pc \in {"resolve", "alert"} => req[p].row.exp # None

AloneHasResolved == \A p \in Procs: alone[p] /\ req[p].pc = "alert" => active[req[p].doc] = 0

AInv == AlertsAreDated /\ AloneHasResolved

LEMMA InitAInv == Init => AInv
<1> SUFFICES ASSUME Init PROVE AInv
  OBVIOUS
<1>1. \A p \in Procs: req[p].pc = "idle"
  BY IdleShape DEF Init
<1> QED
  BY <1>1 DEF AInv, AlertsAreDated, AloneHasResolved

\* A step that takes its request to no alert.
LEMMA ElsewhereAInv ==
    ASSUME IInv, AInv, NEW p \in Procs, NEW r, Replaces(p, r),
           r.pc = "resolve" => r.row.exp # None, r.pc # "alert",
           \A q \in Procs: q # p /\ alone'[q] => alone[q] /\ UNCHANGED active
    PROVE  AInv'
<1>1. req'[p] = r /\ \A q \in Procs: q # p => req'[q] = req[q]
  BY Replacing
<1>2. AlertsAreDated'
  BY <1>1 DEF AInv, AlertsAreDated
<1>3. AloneHasResolved'
  <2> SUFFICES ASSUME NEW q \in Procs, alone'[q], req'[q].pc = "alert"
               PROVE  active'[req'[q].doc] = 0
    BY DEF AloneHasResolved
  <2>1. q # p /\ req'[q] = req[q] /\ alone[q] /\ active' = active
    BY <1>1
  <2> QED
    BY <2>1 DEF AInv, AloneHasResolved
<1> QED
  BY <1>2, <1>3 DEF AInv

LEMMA ResolveAInv ==
    ASSUME IInv, AInv, NEW p \in Procs, Resolve(p)
    PROVE  AInv'
<1>1. req[p].pc = "resolve" /\ Goto(p, "alert")
  BY DEF Resolve
<1>2. PICK r: /\ Replaces(p, r) /\ r.pc = "alert"
              /\ r.doc = req[p].doc /\ r.row = req[p].row
  BY <1>1, Going
<1>3. req'[p] = r /\ \A q \in Procs: q # p => req'[q] = req[q]
  BY <1>2, Replacing
<1>4. AlertsAreDated'
  BY <1>1, <1>2, <1>3 DEF AInv, AlertsAreDated
<1>5. AloneHasResolved'
  <2> SUFFICES ASSUME NEW q \in Procs, alone'[q], req'[q].pc = "alert"
               PROVE  active'[req'[q].doc] = 0
    BY DEF AloneHasResolved
  <2>1. CASE Fails(p)
    <3>1. alone' = [alone EXCEPT ![p] = FALSE] /\ active' = active
      BY <2>1 DEF Fails, tables
    <3>2. q # p /\ alone[q] /\ req'[q] = req[q]
      BY <1>3, <3>1 DEF IInv, TypeOK
    <3> QED
      BY <3>1, <3>2 DEF AInv, AloneHasResolved
  <2>2. CASE ~Fails(p)
    <3>1. Writes(p) /\ active' = Resolved(req[p].doc)
      BY <2>2 DEF Resolve
    <3>2. q = p
      BY <3>1 DEF Writes
    <3>3. req[p].doc \in Docs
      BY <1>1, RowsOfRequests
    <3> QED
      BY <1>2, <1>3, <3>1, <3>2, <3>3 DEF Resolved, IInv, TypeOK
  <2> QED
    BY <2>1, <2>2
<1> QED
  BY <1>4, <1>5 DEF AInv

\* Another undisturbed request has seen no alert come or go.
LEMMA OthersKeepAlerts ==
    ASSUME IInv, NEW p \in Procs,
           \/ BeginsReading(p) \/ Reads \/ Fails(p) \/ Writes(p)
           \/ alone' = [q \in Procs |-> q = p]
    PROVE  \A q \in Procs: q # p /\ alone'[q] => alone[q] /\ UNCHANGED active
<1>1. CASE Writes(p) \/ alone' = [q \in Procs |-> q = p]
  BY <1>1 DEF Writes
<1>2. CASE BeginsReading(p) \/ Reads \/ Fails(p)
  BY <1>2 DEF BeginsReading, Reads, Fails, tables, IInv, TypeOK
<1> QED
  BY <1>1, <1>2

LEMMA StepAInv ==
    ASSUME IInv, AInv, NEW p \in Procs, Step(p)
    PROVE  AInv'
<1>1. IInv'
  BY NextIInv DEF Next
<1>2. ASSUME NEW r, Become(p, r), r.pc \notin {"resolve", "alert"},
             \/ BeginsReading(p) \/ Reads \/ Fails(p) \/ Writes(p)
             \/ alone' = [q \in Procs |-> q = p]
      PROVE  AInv'
  <2>1. req'[p] = r /\ Replaces(p, r)
    BY <1>1, <1>2 DEF Become, Replaces, IInv, TypeOK, RequestsHaveShape, Shape
  <2> QED
    BY <1>2, <2>1, OthersKeepAlerts, ElsewhereAInv
<1>3. ASSUME NEW pc, Goto(p, pc), pc \notin {"resolve", "alert"},
             Reads \/ Fails(p) \/ Writes(p)
      PROVE  AInv'
  <2>1. PICK r: r = [req[p] EXCEPT !.pc = pc]
    OBVIOUS
  <2>2. req[p] \in Request
    BY DEF IInv, TypeOK
  <2>3. r.pc = pc /\ Become(p, r)
    BY <1>3, <2>1, <2>2 DEF Goto, Request
  <2> QED
    BY <1>2, <1>3, <2>3
<1>4. CASE Become(p, Idle) /\ (Reads \/ Fails(p))
  BY <1>2, <1>4, IdleShape
<1>5. ASSUME NEW d \in Docs, NEW b \in Bodies, BeginCreate(p, d, b) PROVE AInv'
  <2>1. PICK r: r = [Idle EXCEPT !.pc = "insert", !.doc = d,
                     !.row = [driver |-> b.driver, type |-> b.type, exp |-> b.exp,
                              status |-> StatusOf(b.exp), live |-> TRUE]]
    OBVIOUS
  <2>2. r.pc = "insert" /\ Become(p, r) /\ BeginsReading(p)
    BY <1>5, <2>1 DEF BeginCreate, Idle
  <2> QED
    BY <1>2, <2>2
<1>6. ASSUME NEW d \in Docs, NEW exp \in Dates, BeginUpdate(p, d, exp) PROVE AInv'
  <2>1. PICK r: r = [Idle EXCEPT !.pc = "write", !.doc = d, !.row = DocMerged(docs[d], exp)]
    OBVIOUS
  <2>2. r.pc = "write" /\ Become(p, r) /\ BeginsReading(p)
    BY <1>6, <2>1 DEF BeginUpdate, Idle
  <2> QED
    BY <1>2, <2>2
<1>7. ASSUME NEW d \in Docs, DeleteDocument(p, d) PROVE AInv'
  <2>1. PICK r: r = [Idle EXCEPT !.pc = "files", !.doc = d, !.row = [docs[d] EXCEPT !.exp = None]]
    OBVIOUS
  <2>2. r.pc = "files" /\ Become(p, r) /\ alone' = [q \in Procs |-> q = p]
    BY <1>7, <2>1 DEF DeleteDocument, Idle
  <2> QED
    BY <1>2, <2>2
<1>8. ASSUME NEW d \in Docs, NEW i \in Files, NEW k \in Keys, BeginUpload(p, d, i, k)
      PROVE  AInv'
  <2>1. PICK r: r = [Idle EXCEPT !.pc = "copy", !.doc = d, !.file = i, !.key = k]
    OBVIOUS
  <2>2. r.pc = "copy" /\ Become(p, r) /\ alone' = [q \in Procs |-> q = p]
    BY <1>8, <2>1 DEF BeginUpload, Idle
  <2> QED
    BY <1>2, <2>2
<1>9. ASSUME NEW d \in Docs, NEW i \in Files, DeleteAttachment(p, d, i) PROVE AInv'
  <2>1. PICK r: r = req[p]
    OBVIOUS
  <2>2. r.pc = "idle" /\ Become(p, r) /\ alone' = [q \in Procs |-> q = p]
    BY <1>9, <2>1 DEF DeleteAttachment, Begin, Become, IInv, TypeOK
  <2> QED
    BY <1>2, <2>2
<1>10. CASE Insert(p) \/ Write(p)
  <2>1. CASE Become(p, Idle) /\ (Reads \/ Fails(p))
    BY <1>4, <2>1
  <2>2. CASE ~(Become(p, Idle) /\ (Reads \/ Fails(p)))
    <3>1. /\ req[p].pc \in {"insert", "write"} /\ Writes(p)
          /\ Goto(p, AfterSave(req[p].row))
      BY <1>10, <2>2 DEF Insert, Write
    <3>2. /\ AfterSave(req[p].row) \in {"driverRead", "resolve"}
          /\ AfterSave(req[p].row) = "resolve" => req[p].row.exp # None
      BY DEF AfterSave
    <3>3. PICK r: Replaces(p, r) /\ r.pc = AfterSave(req[p].row) /\ r.row = req[p].row
      BY <3>1, <3>2, Going
    <3> QED
      BY <3>1, <3>2, <3>3, OthersKeepAlerts, ElsewhereAInv
  <2> QED
    BY <2>1, <2>2
<1>11. CASE ReadDriver(p)
  <2>1. CASE Become(p, Idle) /\ (Reads \/ Fails(p))
    BY <1>4, <2>1
  <2>2. CASE ~(Become(p, Idle) /\ (Reads \/ Fails(p)))
    <3>1. PICK r: r = [req[p] EXCEPT !.pc = "driverWrite",
                     !.driver = DriverMerged(drivers[req[p].row.driver], req[p].row.type,
                                             req[p].row.exp)]
      OBVIOUS
    <3>2. req[p] \in Request /\ Become(p, r) /\ Reads
      BY <1>11, <2>2, <3>1 DEF ReadDriver, IInv, TypeOK
    <3>3. r.pc = "driverWrite"
      BY <3>1, <3>2 DEF Request
    <3> QED
      BY <1>2, <3>2, <3>3
  <2> QED
    BY <2>1, <2>2
<1>12. CASE CreateAlert(p) \/ DeleteFiles(p)
  BY <1>3, <1>12 DEF CreateAlert, DeleteFiles
<1>13. CASE WriteDriver(p) \/ InsertFile(p)
  BY <1>2, <1>13, IdleShape DEF WriteDriver, InsertFile
<1>14. CASE CopyContent(p)
  BY <1>3, <1>4, <1>14 DEF CopyContent, AfterFailedCopy
<1>15. CASE Resolve(p)
  BY <1>15, ResolveAInv
<1> QED
  BY <1>5, <1>6, <1>7, <1>8, <1>9, <1>10, <1>11, <1>12, <1>13, <1>14, <1>15 DEF Step

LEMMA NextAInv == IInv /\ AInv /\ [Next]_vars => AInv'
<1> SUFFICES ASSUME IInv, AInv, [Next]_vars PROVE AInv'
  OBVIOUS
<1>1. CASE Tick
  <2>1. req' = req /\ \A p \in Procs: ~alone'[p]
    BY <1>1 DEF Tick
  <2> QED
    BY <2>1 DEF AInv, AlertsAreDated, AloneHasResolved
<1>2. CASE UNCHANGED vars
  BY <1>2 DEF vars, AInv, AlertsAreDated, AloneHasResolved
<1> QED
  BY <1>1, <1>2, StepAInv DEF Next, Served

\* A request at the creation of an alert moves on by that statement.
LEMMA CreatesAlert ==
    ASSUME IInv, [Next]_vars, NEW p \in Procs, req[p].pc = "alert", req'[p] # req[p]
    PROVE  CreateAlert(p)
<1>1. PICK q \in Procs: Step(q)
  BY DEF Next, Tick, Served, vars
<1>2. Step(p)
  BY <1>1, StepsAreOwn
<1>3. ~Begin(p) /\ ~BeginsReading(p)
  BY DEF Begin, BeginsReading
<1> QED
  BY <1>2, <1>3 DEF Step, BeginCreate, BeginUpdate, DeleteDocument, BeginUpload,
     DeleteAttachment, Insert, Write, Resolve, ReadDriver, WriteDriver, DeleteFiles,
     CopyContent, InsertFile

-------------------------------------------------------------------------------
(* Theorems *)

\* The invariant: rows that wait to be written carry a status that only lags, a
\* key nobody has drawn again belongs to one upload.
THEOREM InductiveInvariant == Spec => []IInv
  BY InitIInv, NextIInv, PTL DEF Spec

\* Whatever statements fail and however requests overlap, every table keeps its
\* types.
THEOREM TypeCorrect == Spec => []TypeOK
<1>1. IInv => TypeOK
  BY DEF IInv
<1> QED
  BY <1>1, InductiveInvariant, PTL

\* determineStatus at every save is enough for a stored status never to be worse
\* than the stored date, however updates of a document overlap.
THEOREM StatusesOnlyLag == Spec => []StatusOnlyLags
<1>1. IInv => StatusOnlyLags
  BY DEF IInv
<1> QED
  BY <1>1, InductiveInvariant, PTL

\* UploadAttachment copies the content before it writes the row, so no failure
\* leaves a live attachment without its content.
THEOREM AttachmentsKeepTheirContent == Spec => []AttachmentsAreWhole
<1>1. IInv => AttachmentsAreWhole
  BY DEF IInv
<1> QED
  BY <1>1, InductiveInvariant, PTL

\* How many requests are between resolving a document's alerts and recording one.
AlertingAtMost(K) == \A d \in Docs: Cardinality(Alerting(d)) <= K

AlertsFit(K) == \A d \in Docs: Count(d) <= K + faults

LEMMA InitAlertsFit ==
    ASSUME NEW K \in Nat, Init
    PROVE  AlertsFit(K)
<1>1. \A d \in Docs: active[d] = 0 /\ Alerting(d) = {}
  BY IdleShape DEF Init, Alerting
<1>2. faults = 0
  BY DEF Init
<1> QED
  BY <1>1, <1>2, FS_EmptySet DEF AlertsFit, Count

LEMMA NextAlertsFit ==
    ASSUME NEW K \in Nat, IInv, AlertsFit(K), AlertingAtMost(K)', [Next]_vars
    PROVE  AlertsFit(K)'
<1> SUFFICES ASSUME NEW d \in Docs PROVE Count(d)' <= K + faults'
  BY DEF AlertsFit
<1>1. /\ active'[d] = 0 \/ Count(d)' + faults <= Count(d) + faults'
      /\ active[d] \in Nat /\ active'[d] \in Nat /\ faults \in Nat /\ faults' \in Nat
  BY NextKeeps DEF Kept, RisesWithFaults, IInv, TypeOK
<1>2. Count(d) \in Nat /\ Count(d)' \in Nat
  BY <1>1, AlertingIsCounted DEF Count
<1>3. Count(d) <= K + faults /\ Cardinality(Alerting(d)') <= K
  BY DEF AlertsFit, AlertingAtMost
<1> QED
  BY <1>1, <1>2, <1>3, AlertingIsCounted DEF Count

LEMMA FittingAlerts ==
    ASSUME NEW K \in Nat, IInv, AlertsFit(K), NEW d \in Docs
    PROVE  active[d] <= K + faults
<1>1. active[d] \in Nat /\ Count(d) <= K + faults /\ faults \in Nat
  BY DEF AlertsFit, IInv, TypeOK
<1> QED
  BY <1>1, AlertingIsCounted DEF Count

\* What overlaps between the two statements of checkAlerts is the only source of
\* extra alerts besides failures: with at most K saves of a document there at a
\* time it never has more than K, plus one for every statement that failed.
THEOREM AlertsBoundedPerDocument ==
    ASSUME NEW K \in Nat
    PROVE  Spec /\ []AlertingAtMost(K) => [](\A d \in Docs: active[d] <= K + faults)
<1>1. Init => AlertsFit(K)
  BY InitAlertsFit
<1>2. IInv /\ AlertsFit(K) /\ AlertingAtMost(K)' /\ [Next]_vars => AlertsFit(K)'
  BY NextAlertsFit
<1>3. IInv /\ AlertsFit(K) => \A d \in Docs: active[d] <= K + faults
  BY FittingAlerts
<1> QED
  BY <1>1, <1>2, <1>3, InductiveInvariant, PTL DEF Spec

\* checkAlerts resolves before it creates, so the active alerts of a document are
\* bounded by the requests at a time and the statements that failed.
THEOREM AlertsAreBounded == Spec => []AlertsDoNotPileUp
<1> DEFINE K == Cardinality(Procs)
           Fit == AlertsFit(K)
<1>1. K \in Nat
  BY AlertingIsCounted
<1>2. AlertingAtMost(K)'
  BY AlertingIsCounted DEF AlertingAtMost
<1>3. Init => Fit
  BY <1>1, InitAlertsFit
<1>4. IInv /\ Fit /\ [Next]_vars => Fit'
  BY <1>1, <1>2, NextAlertsFit
<1>5. IInv /\ Fit => AlertsDoNotPileUp
  BY <1>1, FittingAlerts DEF AlertsDoNotPileUp
<1> HIDE DEF Fit
<1> QED
  BY <1>3, <1>4, <1>5, InductiveInvariant, PTL DEF Spec

\* As long as no other request has written and nothing has failed, the document
\* a request has saved and the driver it has read are still as they were.
THEOREM HistoryInvariant == Spec => []HInv
  BY InductiveInvariant, InitHInv, NextHInv, PTL DEF Spec

\* syncToLegacyDriver writes the whole row of the driver: undisturbed, it sets
\* the date of the stored document in its column and keeps the other two.
THEOREM UndisturbedSyncsSetOneDate == Spec => UndisturbedSyncSetsOneDate
<1> DEFINE Sets == \A p \in Procs, d \in Docs:
        /\ req[p].pc = "driverWrite" /\ alone'[p] /\ req'[p] # req[p]
        /\ req[p].doc = d /\ docs[d].live /\ docs[d].exp # None
        => LET x == docs[d].driver
               own == CASE docs[d].type = "cnh" -> "license"
                        [] docs[d].type = "toxicology" -> "toxicology"
                        [] OTHER -> "training"
           IN drivers'[x] = [drivers[x] EXCEPT ![own] = docs[d].exp]
<1>1. IInv /\ HInv /\ [Next]_vars => [Sets]_vars
  <2> SUFFICES ASSUME IInv, HInv, [Next]_vars, NEW p \in Procs, NEW d \in Docs,
                      req[p].pc = "driverWrite", alone'[p], req'[p] # req[p],
                      req[p].doc = d, docs[d].live, docs[d].exp # None
               PROVE  drivers'[docs[d].driver]
                        = [drivers[docs[d].driver] EXCEPT
                             ![CASE docs[d].type = "cnh" -> "license"
                                 [] docs[d].type = "toxicology" -> "toxicology"
                                 [] OTHER -> "training"] = docs[d].exp]
    OBVIOUS
  <2>1. WriteDriver(p) /\ ~Fails(p)
    BY WritesDriver DEF Fails, IInv, TypeOK
  <2>2. drivers' = [drivers EXCEPT ![req[p].row.driver] = req[p].driver] /\ Writes(p)
    BY <2>1 DEF WriteDriver
  <2>3. alone[p]
    BY <2>2 DEF Writes
  <2>4. /\ req[p].row = docs[d] /\ ColumnOf(docs[d].type) # None
        /\ req[p].driver = DriverMerged(drivers[docs[d].driver], docs[d].type, docs[d].exp)
    BY <2>3 DEF HInv, Knows, Saved
  <2>5. docs[d].driver \in Drivers /\ docs[d].type \in Types
    BY <2>4, RowsOfRequests DEF Doc
  <2>6. drivers'[docs[d].driver] = [drivers[docs[d].driver] EXCEPT
                                      ![ColumnOf(docs[d].type)] = docs[d].exp]
    BY <2>2, <2>4, <2>5 DEF DriverMerged, IInv, TypeOK
  <2>7. ColumnOf(docs[d].type) = CASE docs[d].type = "cnh" -> "license"
                                   [] docs[d].type = "toxicology" -> "toxicology"
                                   [] OTHER -> "training"
    BY <2>4, <2>5 DEF ColumnOf, Types
  <2> QED
    BY <2>6, <2>7, Zenon
<1> QED
  BY <1>1, InductiveInvariant, HistoryInvariant, PTL DEF Spec, UndisturbedSyncSetsOneDate

(***************************************************************************)
(* A save nobody disturbs leaves a document the alert its stored date asks *)
(* for on that day and no other: none while the date is valid, exactly one *)
(* once it is within the notice or past, whatever had piled up before.     *)
(***************************************************************************)
UndisturbedSavesAlertWhatIsDue ==
    [][\A p \in Procs, d \in Docs:
        /\ req[p].pc = "alert" /\ alone'[p] /\ req'[p] # req[p]
        /\ req[p].doc = d /\ docs[d].live
        => active'[d] = IF StatusOf(docs[d].exp) = "valid" THEN 0 ELSE 1]_vars

\* checkAlerts decides by the row of its request, which is the stored one.
THEOREM UndisturbedSavesAlert == Spec => UndisturbedSavesAlertWhatIsDue
<1> DEFINE Asks == \A p \in Procs, d \in Docs:
        /\ req[p].pc = "alert" /\ alone'[p] /\ req'[p] # req[p]
        /\ req[p].doc = d /\ docs[d].live
        => active'[d] = IF StatusOf(docs[d].exp) = "valid" THEN 0 ELSE 1
<1>1. IInv /\ HInv /\ AInv /\ [Next]_vars => [Asks]_vars
  <2> SUFFICES ASSUME IInv, HInv, AInv, [Next]_vars, NEW p \in Procs, NEW d \in Docs,
                      req[p].pc = "alert", alone'[p], req'[p] # req[p],
                      req[p].doc = d, docs[d].live
               PROVE  active'[d] = IF StatusOf(docs[d].exp) = "valid" THEN 0 ELSE 1
    OBVIOUS
  <2>1. CreateAlert(p) /\ ~Fails(p)
    BY CreatesAlert DEF Fails, IInv, TypeOK
  <2>2. alone[p]
    BY <2>1 DEF CreateAlert, Writes, Reads
  <2>3. req[p].row = docs[d] /\ active[d] = 0 /\ docs[d].exp # None
    BY <2>2 DEF HInv, Knows, Saved, AInv, AlertsAreDated, AloneHasResolved
  <2>4. docs[d].exp \in Nat /\ today \in Nat
    BY <2>3, RowsOfRequests DEF Doc, Date, IInv, TypeOK
  <2>5. StatusOf(docs[d].exp) = "valid" <=> ~(docs[d].exp - today <= Notice)
    BY <2>3, <2>4, DocumentsAssumption DEF StatusOf
  <2>6. CASE docs[d].exp - today <= Notice
    <3>1. active' = [active EXCEPT ![d] = @ + 1]
      BY <2>1, <2>3, <2>6 DEF CreateAlert
    <3> QED
      BY <2>3, <2>5, <2>6, <3>1 DEF IInv, TypeOK
  <2>7. CASE ~(docs[d].exp - today <= Notice)
    <3>1. active' = active
      BY <2>1, <2>3, <2>7 DEF CreateAlert, Reads, tables
    <3> QED
      BY <2>3, <2>5, <2>7, <3>1
  <2> QED
    BY <2>6, <2>7
<1> QED
  BY <1>1, InductiveInvariant, HistoryInvariant, InitAInv, NextAInv, PTL
     DEF Spec, UndisturbedSavesAlertWhatIsDue
===============================================================================
