---------------------------- MODULE DriverDocuments ----------------------------
(***************************************************************************)
(* The documents of drivers: internal/usecase/driver_document_usecase.go   *)
(* over the tables driver_documents, driver_document_alerts,               *)
(* driver_document_files and drivers, and the directory of                 *)
(* internal/platform/storage/local.go.  Saving a document replaces its     *)
(* alerts and copies its expiration date into the row of the driver; an    *)
(* attachment is a file and a row that names it.  All of these are         *)
(* statements of their own.                                                *)
(***************************************************************************)
EXTENDS Integers, FiniteSets

CONSTANTS Drivers, Docs, Files,
          Keys,         \* storage keys: a random number of five digits each
          Procs,        \* concurrent requests
          Bodies,       \* bodies of POST documents
          Dates,        \* expiration dates a PUT may carry
          Notice,       \* days ahead of the date a document is expiring soon (30)
          MaxDate,      \* bound on the calendar
          MaxFaults,    \* bound on the statements that return an error
          MaxRequests,  \* bound on the requests that are served
          None, Partial

Types == {"cnh", "toxicology", "aso", "mopp", "other"}
Columns == {"license", "toxicology", "training"}
Date == Nat \cup {None}
Status == {"valid", "expiring_soon", "expired"}
Doc == [driver: Drivers, type: Types, exp: Date, status: Status, live: BOOLEAN]
File == [doc: Docs, key: Keys, live: BOOLEAN]
Driver == [Columns -> Date]
Body == [driver: Drivers, type: Types, exp: Date]

ASSUME DocumentsAssumption ==
    /\ IsFiniteSet(Procs) /\ Procs # {}
    /\ Bodies \subseteq Body
    /\ Dates \subseteq Date
    /\ Notice \in Nat /\ MaxDate \in Nat /\ MaxFaults \in Nat /\ MaxRequests \in Nat
    /\ None \notin Nat \cup Docs \cup Files \cup Keys \cup Drivers
    /\ None \notin Doc \cup File \cup Driver \cup Columns
    /\ Partial \notin Files \cup {None}

VARIABLES docs,      \* the table driver_documents
          active,    \* the number of active alerts of each document
          drivers,   \* the expiry columns of the table drivers
          files,     \* the table driver_document_files
          store,     \* the directory: whose content is under each key
          today,     \* the calendar
          begun,     \* the number of requests so far
          faults,    \* the number of failed statements so far
          req,       \* the request each process is serving
          alone,     \* history: no other request has written and no statement
                     \* has failed since the request began
          redrawn    \* history: keys that were drawn a second time

vars == <<docs, active, drivers, files, store, today, begun, faults, req, alone, redrawn>>

Request == [pc: {"idle", "insert", "write", "resolve", "alert", "files",
                 "driverRead", "driverWrite", "copy", "fileInsert"},
            doc: Docs \cup {None},
            row: Doc \cup {None},        \* the document as saved
            driver: Driver \cup {None},  \* the driver's columns to be written
            file: Files \cup {None},
            key: Keys \cup {None}]

Idle == [pc |-> "idle", doc |-> None, row |-> None, driver |-> None,
         file |-> None, key |-> None]

Init ==
    /\ docs = [d \in Docs |-> None]
    /\ active = [d \in Docs |-> 0]
    /\ drivers = [x \in Drivers |-> [c \in Columns |-> None]]
    /\ files = [i \in Files |-> None]
    /\ store = [k \in Keys |-> None]
    /\ today = 0
    /\ begun = 0 /\ faults = 0
    /\ req = [p \in Procs |-> Idle]
    /\ alone = [p \in Procs |-> TRUE]
    /\ redrawn = {}

tables == <<docs, active, drivers, files, store, redrawn>>

-------------------------------------------------------------------------------

Live(row) == row # None /\ row.live

\* Mutant: a document without a date is left without a status.
StatusOfDated(exp) ==
    IF exp = None THEN None
    ELSE IF exp - today < 0 THEN "expired"
    ELSE IF exp - today <= Notice THEN "expiring_soon" ELSE "valid"

\* determineStatus
StatusOf(exp) ==
    IF exp = None THEN "valid"
    ELSE IF exp - today < 0 THEN "expired"
    ELSE IF exp - today <= Notice THEN "expiring_soon" ELSE "valid"

Become(p, r) == req' = [req EXCEPT ![p] = r]

Goto(p, pc) == Become(p, [req[p] EXCEPT !.pc = pc])

Begin(p) ==
    /\ req[p].pc = "idle" /\ begun < MaxRequests
    /\ begun' = begun + 1
    /\ UNCHANGED <<today, faults>>

\* A request whose first statement only reads.
BeginsReading(p) ==
    /\ Begin(p)
    /\ alone' = [alone EXCEPT ![p] = TRUE]
    /\ UNCHANGED tables

Reads == UNCHANGED <<tables, today, begun, faults, alone>>

Writes(p) ==
    /\ alone' = [q \in Procs |-> q = p /\ alone[q]]
    /\ UNCHANGED <<today, begun, faults>>

Fails(p) ==
    /\ faults < MaxFaults
    /\ faults' = faults + 1
    /\ alone' = [alone EXCEPT ![p] = FALSE]
    /\ UNCHANGED <<tables, today, begun>>

-------------------------------------------------------------------------------
(* Saving a document *)

\* CreateDocument: the driver has been found, the status is determined.
BeginCreate(p, d, b) ==
    /\ docs[d] = None
    /\ BeginsReading(p)
    /\ Become(p, [Idle EXCEPT !.pc = "insert", !.doc = d,
                     !.row = [driver |-> b.driver, type |-> b.type, exp |-> b.exp,
                              status |-> StatusOf(b.exp), live |-> TRUE]])

\* checkAlerts does nothing about a document without expiration date.
AfterSave(row) == IF row.exp = None THEN "driverRead" ELSE "resolve"

Insert(p) ==
    LET d == req[p].doc
        row == req[p].row IN
    /\ req[p].pc = "insert"
    /\ \/ /\ docs[d] = None
          /\ docs' = [docs EXCEPT ![d] = row]
          /\ Goto(p, AfterSave(row))
          /\ Writes(p)
          /\ UNCHANGED <<active, drivers, files, store, redrawn>>
       \/ docs[d] # None /\ Become(p, Idle) /\ Reads
       \/ Become(p, Idle) /\ Fails(p)

\* Mutant: the status of the row is kept.
DocMergedWithoutStatus(row, exp) == IF exp = None THEN row ELSE [row EXCEPT !.exp = exp]

\* A PUT with an expiration date sets the status that goes with it.
DocMerged(row, exp) ==
    IF exp = None THEN row ELSE [row EXCEPT !.exp = exp, !.status = StatusOf(exp)]

\* UpdateDocument: repo.Update reads the row it is about to overwrite.
BeginUpdate(p, d, exp) ==
    /\ Live(docs[d])
    /\ BeginsReading(p)
    /\ Become(p, [Idle EXCEPT !.pc = "write", !.doc = d, !.row = DocMerged(docs[d], exp)])

\* UPDATE ... WHERE deleted_at IS NULL; nobody asks whether a row was changed.
Write(p) ==
    LET d == req[p].doc IN
    /\ req[p].pc = "write"
    /\ \/ /\ docs' = IF Live(docs[d]) THEN [docs EXCEPT ![d] = req[p].row] ELSE docs
          /\ Goto(p, AfterSave(req[p].row))
          /\ Writes(p)
          /\ UNCHANGED <<active, drivers, files, store, redrawn>>
       \/ Become(p, Idle) /\ Fails(p)

\* Mutant: the alerts of the document are left as they are.
ResolvedNone(d) == active

\* ResolveAlertsForDocument
Resolved(d) == [active EXCEPT ![d] = 0]

\* An error is dropped.
Resolve(p) ==
    /\ req[p].pc = "resolve"
    /\ Goto(p, "alert")
    /\ \/ /\ active' = Resolved(req[p].doc)
          /\ Writes(p)
          /\ UNCHANGED <<docs, drivers, files, store, redrawn>>
       \/ Fails(p)

\* checkAlerts: within the notice the smallest threshold that applies is
\* recorded; CreateAlert's error is dropped.
CreateAlert(p) ==
    LET d == req[p].doc
        triggered == req[p].row.exp - today <= Notice IN
    /\ req[p].pc = "alert"
    /\ Goto(p, "driverRead")
    /\ \/ /\ triggered
          /\ active' = [active EXCEPT ![d] = @ + 1]
          /\ Writes(p)
          /\ UNCHANGED <<docs, drivers, files, store, redrawn>>
       \/ ~triggered /\ Reads
       \/ triggered /\ Fails(p)

\* Mutant: a toxicology report goes to the training column.
ColumnMixedUp(type) ==
    CASE type = "cnh" -> "license"
      [] type \in {"toxicology", "aso", "mopp"} -> "training"
      [] OTHER -> None

\* syncToLegacyDriver: the column that holds the date of a type.
ColumnOf(type) ==
    CASE type = "cnh" -> "license"
      [] type = "toxicology" -> "toxicology"
      [] type \in {"aso", "mopp"} -> "training"
      [] OTHER -> None

\* driverRepo.Update takes an empty date for an absent one.
DriverMerged(row, type, exp) ==
    IF exp = None THEN row ELSE [row EXCEPT ![ColumnOf(type)] = exp]

\* driverRepo.Update reads the driver ...
ReadDriver(p) ==
    LET row == req[p].row IN
    /\ req[p].pc = "driverRead"
    /\ \/ /\ IF ColumnOf(row.type) = None THEN Become(p, Idle)
             ELSE Become(p, [req[p] EXCEPT !.pc = "driverWrite",
                      !.driver = DriverMerged(drivers[row.driver], row.type, row.exp)])
          /\ Reads
       \/ Become(p, Idle) /\ Fails(p)

\* ... and writes all its columns.
WriteDriver(p) ==
    /\ req[p].pc = "driverWrite"
    /\ Become(p, Idle)
    /\ \/ /\ drivers' = [drivers EXCEPT ![req[p].row.driver] = req[p].driver]
          /\ Writes(p)
          /\ UNCHANGED <<docs, active, files, store, redrawn>>
       \/ Fails(p)

-------------------------------------------------------------------------------
(* Deleting a document *)

\* The row goes first; the alerts stay.  The driver is then to be told that
\* there is no date any more.
DeleteDocument(p, d) ==
    /\ Live(docs[d])
    /\ Begin(p)
    /\ alone' = [q \in Procs |-> q = p]
    /\ docs' = [docs EXCEPT ![d].live = FALSE]
    /\ Become(p, [Idle EXCEPT !.pc = "files", !.doc = d, !.row = [docs[d] EXCEPT !.exp = None]])
    /\ UNCHANGED <<active, drivers, files, store, redrawn>>

\* The rows of its files follow; an error is dropped.
DeleteFiles(p) ==
    /\ req[p].pc = "files"
    /\ Goto(p, "driverRead")
    /\ \/ /\ files' = [i \in Files |->
                  IF files[i] # None /\ files[i].doc = req[p].doc
                  THEN [files[i] EXCEPT !.live = FALSE] ELSE files[i]]
          /\ Writes(p)
          /\ UNCHANGED <<docs, active, drivers, store, redrawn>>
       \/ Fails(p)

-------------------------------------------------------------------------------
(* Attachments *)

InUse(i) == files[i] # None \/ \E q \in Procs: req[q].file = i

\* UploadAttachment: the document is read, a key is drawn, and os.Create makes
\* the file or empties the one that is there.
BeginUpload(p, d, i, k) ==
    /\ Live(docs[d]) /\ ~InUse(i)
    /\ Begin(p)
    /\ alone' = [q \in Procs |-> q = p]
    /\ store' = [store EXCEPT ![k] = Partial]
    /\ redrawn' = IF store[k] = None THEN redrawn ELSE redrawn \cup {k}
    /\ Become(p, [Idle EXCEPT !.pc = "copy", !.doc = d, !.file = i, !.key = k])
    /\ UNCHANGED <<docs, active, drivers, files>>

\* Mutant: the row is written although the content could not be copied.
AfterFailedCopyContinue(p) == Goto(p, "fileInsert")

AfterFailedCopy(p) == Become(p, Idle)

\* io.Copy; what it could not finish stays behind.
CopyContent(p) ==
    /\ req[p].pc = "copy"
    /\ \/ /\ store' = [store EXCEPT ![req[p].key] = req[p].file]
          /\ Goto(p, "fileInsert")
          /\ Writes(p)
          /\ UNCHANGED <<docs, active, drivers, files, redrawn>>
       \/ AfterFailedCopy(p) /\ Fails(p)

\* CreateFile; the file stays when its row could not be written.
InsertFile(p) ==
    LET r == req[p] IN
    /\ r.pc = "fileInsert"
    /\ Become(p, Idle)
    /\ \/ /\ files' = [files EXCEPT ![r.file] = [doc |-> r.doc, key |-> r.key, live |-> TRUE]]
          /\ Writes(p)
          /\ UNCHANGED <<docs, active, drivers, store, redrawn>>
       \/ Fails(p)

\* DeleteAttachment: the row only, and only one of the document in the path.
DeleteAttachment(p, d, i) ==
    /\ Live(docs[d]) /\ Live(files[i]) /\ files[i].doc = d
    /\ Begin(p)
    /\ alone' = [q \in Procs |-> q = p]
    /\ files' = [files EXCEPT ![i].live = FALSE]
    /\ UNCHANGED <<docs, active, drivers, store, req, redrawn>>

-------------------------------------------------------------------------------

Tick ==
    /\ today < MaxDate
    /\ today' = today + 1
    /\ alone' = [p \in Procs |-> FALSE]
    /\ UNCHANGED <<tables, begun, faults, req>>

Step(p) ==
    \/ \E d \in Docs, b \in Bodies: BeginCreate(p, d, b)
    \/ \E d \in Docs, exp \in Dates: BeginUpdate(p, d, exp)
    \/ \E d \in Docs: DeleteDocument(p, d)
    \/ \E d \in Docs, i \in Files, k \in Keys: BeginUpload(p, d, i, k)
    \/ \E d \in Docs, i \in Files: DeleteAttachment(p, d, i)
    \/ Insert(p) \/ Write(p) \/ Resolve(p) \/ CreateAlert(p)
    \/ ReadDriver(p) \/ WriteDriver(p)
    \/ DeleteFiles(p) \/ CopyContent(p) \/ InsertFile(p)

\* The bound on the requests is reached and all have been answered.
Served == begun = MaxRequests /\ (\A p \in Procs: req[p] = Idle) /\ UNCHANGED vars

Next == (\E p \in Procs: Step(p)) \/ Tick \/ Served

Spec == Init /\ [][Next]_vars

-------------------------------------------------------------------------------
(* Properties *)

TypeOK ==
    /\ docs \in [Docs -> Doc \cup {None}]
    /\ active \in [Docs -> Nat]
    /\ drivers \in [Drivers -> Driver]
    /\ files \in [Files -> File \cup {None}]
    /\ store \in [Keys -> Files \cup {Partial, None}]
    /\ today \in Nat /\ begun \in Nat /\ faults \in Nat
    /\ req \in [Procs -> Request]
    /\ alone \in [Procs -> BOOLEAN]
    /\ redrawn \subseteq Keys

Severity(status) ==
    CASE status = "valid" -> 0 [] status = "expiring_soon" -> 1 [] status = "expired" -> 2

(***************************************************************************)
(* Status and expiration date are stored together and never computed       *)
(* again.  Whatever updates overlap, the stored status belongs to the      *)
(* stored date: it may lag behind the calendar, but a document is never    *)
(* called worse than it is, and without a date it is valid.                *)
(***************************************************************************)
StatusOnlyLags ==
    \A d \in Docs: docs[d] # None =>
        /\ Severity(docs[d].status) <= Severity(StatusOf(docs[d].exp))
        /\ docs[d].exp = None => docs[d].status = "valid"

(***************************************************************************)
(* Alerts are resolved in one statement and created in another.  Requests  *)
(* that overlap may leave several active alerts of a document, but not     *)
(* more than there are requests at a time, plus one for every statement    *)
(* that failed: the next save cleans up after them.                        *)
(***************************************************************************)
AlertsDoNotPileUp ==
    \A d \in Docs: active[d] <= Cardinality(Procs) + faults

(***************************************************************************)
(* A row is written only after its file is complete: unless somebody draws *)
(* the key again, a live attachment leads to its own content, whichever    *)
(* statements failed on the way.                                           *)
(***************************************************************************)
AttachmentsAreWhole ==
    \A i \in Files:
        Live(files[i]) /\ files[i].key \notin redrawn => store[files[i].key] = i

(***************************************************************************)
(* The whole row of the driver is written to set one date.  Undisturbed,   *)
(* the sync sets the date of the document as it is stored, in its column,  *)
(* and keeps the other two.                                                *)
(***************************************************************************)
UndisturbedSyncSetsOneDate ==
    [][\A p \in Procs, d \in Docs:
        /\ req[p].pc = "driverWrite" /\ alone'[p] /\ req'[p] # req[p]
        /\ req[p].doc = d /\ docs[d].live /\ docs[d].exp # None
        => LET x == docs[d].driver
               own == CASE docs[d].type = "cnh" -> "license"
                        [] docs[d].type = "toxicology" -> "toxicology"
                        [] OTHER -> "training"
           IN drivers'[x] = [drivers[x] EXCEPT ![own] = docs[d].exp]]_vars

(***************************************************************************)
(* The rest is what the repository says and the code does not deliver.     *)
(***************************************************************************)

\* driver_document_usecase.go:136: "Sync legacy driver to nil expiry date since
\* document is deleted".
DeletionClearsDate ==
    [][\A p \in Procs, d \in Docs:
        /\ req[p].pc = "driverWrite" /\ alone'[p] /\ req'[p] # req[p]
        /\ req[p].doc = d /\ ~docs[d].live
        => drivers'[docs[d].driver][ColumnOf(docs[d].type)] = None]_vars
===============================================================================
