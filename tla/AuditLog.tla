-------------------------------- MODULE AuditLog --------------------------------
(***************************************************************************)
(* The audit pipeline of internal/usecase/audit_usecase.go: Log puts an    *)
(* entry on a buffered channel or, when the buffer is full, hands it to a  *)
(* goroutine of its own; one worker takes entries off the channel; both    *)
(* INSERT through the shared pool.  The process around it is that of       *)
(* cmd/api/main.go: it serves, drains its requests on a signal, closes the *)
(* pool and ends, or crashes, and is started again.                        *)
(***************************************************************************)
EXTENDS Naturals, Sequences

CONSTANTS Entries,          \* *domain.AuditLog values, told apart by their UUID
          Handlers,         \* request goroutines
          Capacity,         \* buffer of logChan (1000)
          InsertsMayFail, MayCrash, DrainMayTimeOut,   \* what the run allows
          NoEntry

ASSUME AuditAssumption ==
    /\ Capacity \in Nat
    /\ {InsertsMayFail, MayCrash, DrainMayTimeOut} \subseteq BOOLEAN
    /\ NoEntry \notin Entries

VARIABLES phase,       \* of the process
          running,     \* handlers that are serving a request
          queue,       \* logChan
          worker,      \* the entry startWorker holds
          fallback,    \* the entries held by goroutines of their own
          inserting,   \* entries whose INSERT holds a connection of the pool
          table,       \* audit_logs
          logged,      \* history: entries passed to Log
          failed,      \* history: entries whose Create returned an error
          gone         \* history: entries that ended with the process

memory == <<queue, worker, fallback, inserting>>
vars == <<phase, running, queue, worker, fallback, inserting, table, logged,
          failed, gone>>

Init ==
    /\ phase = "serving"
    /\ running = {}
    /\ queue = <<>>
    /\ worker = NoEntry
    /\ fallback = {}
    /\ inserting = {}
    /\ table = {}
    /\ logged = {}
    /\ failed = {}
    /\ gone = {}

Queued == {queue[i]: i \in 1..Len(queue)}

\* Entries some goroutine is about to write.
Held == fallback \cup ({worker} \ {NoEntry})

Alive == phase # "stopped"

-------------------------------------------------------------------------------
(* Requests *)

\* The server accepts connections until it is told to shut down.
BeginRequest(h) ==
    /\ phase = "serving"
    /\ h \notin running
    /\ running' = running \cup {h}
    /\ UNCHANGED <<phase, memory, table, logged, failed, gone>>

EndRequest(h) ==
    /\ Alive
    /\ h \in running
    /\ running' = running \ {h}
    /\ UNCHANGED <<phase, memory, table, logged, failed, gone>>

\* Mutant: a buffer without bound.
EnqueueUnbounded(e) == queue' = Append(queue, e) /\ UNCHANGED fallback

\* The select of Log: it never blocks.
Enqueue(e) ==
    IF Len(queue) < Capacity
    THEN queue' = Append(queue, e) /\ UNCHANGED fallback
    ELSE fallback' = fallback \cup {e} /\ UNCHANGED queue

Log(h, e) ==
    /\ Alive
    /\ h \in running
    /\ e \notin logged
    /\ Enqueue(e)
    /\ logged' = logged \cup {e}
    /\ UNCHANGED <<phase, running, worker, inserting, table, failed, gone>>

-------------------------------------------------------------------------------
(* Writers *)

\* Mutant: the entry is read without being taken off the channel.
Peek == worker' = Head(queue) /\ UNCHANGED queue

Receive == worker' = Head(queue) /\ queue' = Tail(queue)

WorkerReceive ==
    /\ Alive
    /\ worker = NoEntry
    /\ queue # <<>>
    /\ Receive
    /\ UNCHANGED <<phase, running, fallback, inserting, table, logged, failed, gone>>

\* Mutant: the worker never comes back for the next entry.
ReleaseGoroutineOnly(e) ==
    /\ fallback' = fallback \ {e}
    /\ inserting' = inserting \ {e}
    /\ UNCHANGED worker

\* Create returned to the goroutine that holds e; an error is only logged.
Release(e) ==
    /\ worker' = IF worker = e THEN NoEntry ELSE worker
    /\ fallback' = fallback \ {e}
    /\ inserting' = inserting \ {e}

\* repo.Create acquires a connection.
StartInsert(e) ==
    /\ phase \in {"serving", "draining"}
    /\ e \in Held \ inserting
    /\ inserting' = inserting \cup {e}
    /\ UNCHANGED <<phase, running, queue, worker, fallback, table, logged, failed, gone>>

\* A closed pool hands out no connection.
RefuseInsert(e) ==
    /\ phase = "closing"
    /\ e \in Held \ inserting
    /\ failed' = failed \cup {e}
    /\ Release(e)
    /\ UNCHANGED <<phase, running, queue, table, logged, gone>>

\* The statement returns: applied, not applied, or applied but reported as
\* an error.
FinishInsert(e) ==
    /\ Alive
    /\ e \in inserting
    /\ \E applied, error \in BOOLEAN:
        /\ ~applied => error
        /\ error => InsertsMayFail
        /\ table' = IF applied THEN table \cup {e} ELSE table
        /\ failed' = IF error THEN failed \cup {e} ELSE failed
    /\ Release(e)
    /\ UNCHANGED <<phase, running, queue, logged, gone>>

-------------------------------------------------------------------------------
(* The process *)

Signal ==
    /\ phase = "serving"
    /\ phase' = "draining"
    /\ UNCHANGED <<running, memory, table, logged, failed, gone>>

\* srv.Shutdown returns when no request is left or after 15 seconds, then
\* db.Close begins.  A request that outlasts the wait runs on.
ClosePool ==
    /\ phase = "draining"
    /\ running = {} \/ DrainMayTimeOut
    /\ phase' = "closing"
    /\ UNCHANGED <<running, memory, table, logged, failed, gone>>

\* All goroutines end; INSERTs under way may or may not have been applied.
End(applied) ==
    /\ phase' = "stopped"
    /\ running' = {}
    /\ table' = table \cup applied
    /\ gone' = gone \cup ((Queued \cup Held) \ applied)
    /\ queue' = <<>>
    /\ worker' = NoEntry
    /\ fallback' = {}
    /\ inserting' = {}
    /\ UNCHANGED <<logged, failed>>

\* db.Close waits for the connections in use; main returns.
Exit ==
    /\ phase = "closing"
    /\ inserting = {}
    /\ End({})

Crash ==
    /\ MayCrash
    /\ Alive
    /\ \E applied \in SUBSET inserting: End(applied)

Restart ==
    /\ phase = "stopped"
    /\ phase' = "serving"
    /\ UNCHANGED <<running, memory, table, logged, failed, gone>>

-------------------------------------------------------------------------------

Next ==
    \/ \E h \in Handlers: BeginRequest(h) \/ EndRequest(h)
    \/ \E h \in Handlers, e \in Entries: Log(h, e)
    \/ WorkerReceive
    \/ \E e \in Entries: StartInsert(e) \/ RefuseInsert(e) \/ FinishInsert(e)
    \/ Signal \/ ClosePool \/ Exit \/ Crash \/ Restart

(***************************************************************************)
(* The scheduler runs every goroutine that can run, and PostgreSQL answers *)
(* every statement.  Nothing obliges clients to send requests, the         *)
(* operator to stop the process, or the process to crash.                  *)
(***************************************************************************)
Fairness ==
    /\ WF_vars(WorkerReceive)
    /\ \A e \in Entries: WF_vars(StartInsert(e)) /\ WF_vars(RefuseInsert(e))
                         /\ WF_vars(FinishInsert(e))

Safety == Init /\ [][Next]_vars

Spec == Safety /\ Fairness

-------------------------------------------------------------------------------
(* Properties *)

TypeOK ==
    /\ phase \in {"serving", "draining", "closing", "stopped"}
    /\ running \subseteq Handlers
    /\ queue \in Seq(Entries)
    /\ Len(queue) <= Capacity
    /\ worker \in Entries \cup {NoEntry}
    /\ fallback \subseteq Entries
    /\ inserting \subseteq Held
    /\ table \subseteq Entries
    /\ logged \subseteq Entries
    /\ failed \subseteq Entries
    /\ gone \subseteq Entries

Settled == table \cup failed \cup gone

(***************************************************************************)
(* Between the channel, the worker and the goroutines of the full buffer   *)
(* no entry is ever in two places, so none is inserted twice, and none is  *)
(* unaccounted for.                                                        *)
(***************************************************************************)
EntriesAreInOnePlace ==
    /\ logged = Queued \cup Held \cup Settled
    /\ \A i, j \in 1..Len(queue): queue[i] = queue[j] => i = j
    /\ Queued \cap Held = {}
    /\ (Queued \cup Held) \cap Settled = {}
    /\ worker \notin fallback
    /\ gone \cap table = {}

(***************************************************************************)
(* audit_usecase.go: "Use Background context to ensure write completes     *)
(* even if the original request context was cancelled".  main.go shuts     *)
(* down in order, and drops what the channel still holds.                  *)
(***************************************************************************)
OrderlyStopLosesNothing == ~MayCrash /\ ~DrainMayTimeOut => gone = {}

\* The pipeline settles every entry exactly once, and eventually.
Trail == INSTANCE AuditTrail WITH
    accepted <- logged,
    recorded <- table,
    dropped  <- (failed \ table) \cup gone

ImplementsTrail == Trail!Spec
===============================================================================
