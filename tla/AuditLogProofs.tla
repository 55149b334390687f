---------------------------- MODULE AuditLogProofs ----------------------------
(***************************************************************************)
(* Proofs about AuditLog for every set of entries and handlers and every   *)
(* capacity of the channel.                                                *)
(***************************************************************************)
EXTENDS AuditLog, SequenceTheorems, TLAPS

Elements(q) == {q[i]: i \in 1..Len(q)}

NoRepeats(q) == \A i, j \in 1..Len(q): q[i] = q[j] => i = j

\* Sending on the channel.
LEMMA AppendFacts ==
    ASSUME NEW q \in Seq(Entries), NEW e \in Entries
    PROVE  /\ Append(q, e) \in Seq(Entries)
           /\ Len(Append(q, e)) = Len(q) + 1
           /\ Elements(Append(q, e)) = Elements(q) \cup {e}
           /\ NoRepeats(q) /\ e \notin Elements(q) => NoRepeats(Append(q, e))
<1> DEFINE a == Append(q, e)
           n == Len(q)
<1>1. a \in Seq(Entries) /\ Len(a) = n + 1 /\ n \in Nat
  OBVIOUS
<1>2. \A i \in 1..n: a[i] = q[i]
  OBVIOUS
<1>3. a[n + 1] = e
  OBVIOUS
<1>4. Elements(a) = Elements(q) \cup {e}
  <2>1. 1..(n + 1) = (1..n) \cup {n + 1}
    BY <1>1
  <2> HIDE DEF a, n
  <2>2. Len(q) = n
    BY DEF n
  <2> QED
    BY <1>1, <1>2, <1>3, <2>1, <2>2 DEF Elements
<1>5. ASSUME NoRepeats(q), e \notin Elements(q) PROVE NoRepeats(a)
  <2>1. \A i \in 1..n: q[i] # e
    BY <1>5 DEF Elements
  <2> SUFFICES ASSUME NEW i \in 1..(n + 1), NEW j \in 1..(n + 1), a[i] = a[j]
               PROVE  i = j
    BY <1>1 DEF NoRepeats
  <2>2. CASE i \in 1..n /\ j \in 1..n
    BY <1>2, <1>5, <2>2 DEF NoRepeats
  <2>3. CASE i = n + 1 \/ j = n + 1
    BY <1>1, <1>2, <1>3, <2>1, <2>3
  <2> QED
    BY <1>1, <2>2, <2>3
<1> QED
  BY <1>1, <1>4, <1>5

\* Receiving from the channel.
LEMMA ReceiveFacts ==
    ASSUME NEW q \in Seq(Entries), q # <<>>
    PROVE  /\ Head(q) \in Entries
           /\ Tail(q) \in Seq(Entries)
           /\ Len(Tail(q)) = Len(q) - 1
           /\ Len(q) \in Nat \ {0}
           /\ Elements(q) = Elements(Tail(q)) \cup {Head(q)}
           /\ NoRepeats(q) => NoRepeats(Tail(q)) /\ Head(q) \notin Elements(Tail(q))
<1> DEFINE t == Tail(q)
           n == Len(q)
<1>1. /\ Head(q) \in Entries /\ t \in Seq(Entries) /\ Len(t) = n - 1
      /\ \A i \in 1..Len(t): t[i] = q[i + 1]
  BY HeadTailProperties
<1>2. n \in Nat \ {0} /\ Head(q) = q[1]
  BY EmptySeq
<1> HIDE DEF t, n
<1>3. Len(q) = n /\ Tail(q) = t
  BY DEF n, t
<1>4. \A i \in 1..n: i = 1 \/ (i - 1 \in 1..(n - 1) /\ q[i] = t[i - 1])
  BY <1>1, <1>2
<1>5. \A i \in 1..(n - 1): i + 1 \in 1..n /\ t[i] = q[i + 1]
  BY <1>1, <1>2
<1>6. Elements(q) = Elements(t) \cup {Head(q)}
  <2>1. Elements(q) \subseteq Elements(t) \cup {Head(q)}
    BY <1>1, <1>2, <1>3, <1>4 DEF Elements
  <2>2. Elements(t) \subseteq Elements(q)
    BY <1>1, <1>3, <1>5 DEF Elements
  <2>3. Head(q) \in Elements(q)
    BY <1>2, <1>3 DEF Elements
  <2> QED
    BY <2>1, <2>2, <2>3
<1>7. ASSUME NoRepeats(q) PROVE NoRepeats(t) /\ Head(q) \notin Elements(t)
  <2>1. \A i, j \in 1..n: q[i] = q[j] => i = j
    BY <1>3, <1>7 DEF NoRepeats
  <2>2. NoRepeats(t)
    <3> SUFFICES ASSUME NEW i \in 1..(n - 1), NEW j \in 1..(n - 1), t[i] = t[j]
                 PROVE  i = j
      BY <1>1 DEF NoRepeats
    <3>1. q[i + 1] = q[j + 1] /\ i + 1 \in 1..n /\ j + 1 \in 1..n
      BY <1>5
    <3>2. i + 1 = j + 1
      BY <2>1, <3>1
    <3> QED
      BY <1>2, <3>2
  <2>3. Head(q) \notin Elements(t)
    <3> SUFFICES ASSUME NEW i \in 1..(n - 1), t[i] = Head(q) PROVE FALSE
      BY <1>1 DEF Elements
    <3>1. q[i + 1] = q[1] /\ i + 1 \in 1..n /\ 1 \in 1..n
      BY <1>2, <1>5
    <3>2. i + 1 = 1
      BY <2>1, <3>1
    <3> QED
      BY <1>2, <3>2
  <2> QED
    BY <2>2, <2>3
<1> QED
  BY <1>1, <1>2, <1>3, <1>6, <1>7

-------------------------------------------------------------------------------
(***************************************************************************)
(* TypeOK and EntriesAreInOnePlace are inductive together.                 *)
(***************************************************************************)
IInv == TypeOK /\ EntriesAreInOnePlace

\* The second conjunct in terms of the lemmas above.
LEMMA OnePlace ==
    EntriesAreInOnePlace <=>
        /\ logged = Elements(queue) \cup Held \cup Settled
        /\ NoRepeats(queue)
        /\ Elements(queue) \cap Held = {}
        /\ (Elements(queue) \cup Held) \cap Settled = {}
        /\ worker \notin fallback
        /\ gone \cap table = {}
<1>1. Elements(queue) = Queued
  BY DEF Elements, Queued
<1>2. NoRepeats(queue) <=> \A i, j \in 1..Len(queue): queue[i] = queue[j] => i = j
  BY DEF NoRepeats
<1> QED
  BY <1>1, <1>2, Zenon DEF EntriesAreInOnePlace

LEMMA NextOnePlace ==
    EntriesAreInOnePlace' <=>
        /\ logged' = Elements(queue') \cup Held' \cup Settled'
        /\ NoRepeats(queue')
        /\ Elements(queue') \cap Held' = {}
        /\ (Elements(queue') \cup Held') \cap Settled' = {}
        /\ worker' \notin fallback'
        /\ gone' \cap table' = {}
<1>1. Elements(queue') = Queued'
  BY DEF Elements, Queued
<1>2. NoRepeats(queue') <=> \A i, j \in 1..Len(queue'): queue'[i] = queue'[j] => i = j
  BY DEF NoRepeats
<1> QED
  BY <1>1, <1>2, Zenon DEF EntriesAreInOnePlace

LEMMA EmptyQueue == Elements(<<>>) = {} /\ NoRepeats(<<>>)
  BY DEF Elements, NoRepeats

LEMMA InitIInv == Init => IInv
<1> SUFFICES ASSUME Init PROVE IInv
  OBVIOUS
<1> USE AuditAssumption DEF Init
<1>1. Held = {} /\ Settled = {} /\ Elements(queue) = {} /\ NoRepeats(queue)
  BY EmptyQueue DEF Held, Settled
<1>2. TypeOK
  BY DEF TypeOK
<1>3. EntriesAreInOnePlace
  BY <1>1, OnePlace
<1> QED
  BY <1>2, <1>3 DEF IInv

LEMMA LogStep ==
    ASSUME IInv, NEW h \in Handlers, NEW e \in Entries, Log(h, e)
    PROVE  IInv'
<1> USE AuditAssumption
<1>1. /\ queue \in Seq(Entries) /\ Len(queue) \in Nat
      /\ e \notin logged /\ logged' = logged \cup {e}
      /\ worker' = worker /\ Settled' = Settled
  BY DEF Log, IInv, TypeOK, Settled
<1>2. /\ e \notin Elements(queue) /\ e \notin Held /\ e \notin Settled
  BY <1>1, OnePlace DEF IInv
<1>3. CASE Len(queue) < Capacity
  <2>1. queue' = Append(queue, e) /\ fallback' = fallback
    BY <1>3 DEF Log, Enqueue
  <2>2. /\ queue' \in Seq(Entries) /\ Len(queue') = Len(queue) + 1
        /\ Elements(queue') = Elements(queue) \cup {e}
        /\ NoRepeats(queue')
    BY <1>1, <1>2, <2>1, AppendFacts, OnePlace DEF IInv
  <2>3. Held' = Held
    BY <1>1, <2>1 DEF Held
  <2>4. Len(queue') <= Capacity
    BY <1>1, <1>3, <2>2
  <2>5. TypeOK'
    BY <2>1, <2>2, <2>3, <2>4 DEF Log, IInv, TypeOK
  <2>6. EntriesAreInOnePlace'
    BY <1>1, <1>2, <2>1, <2>2, <2>3, OnePlace, NextOnePlace DEF IInv, Log
  <2> QED
    BY <2>5, <2>6 DEF IInv
<1>4. CASE ~(Len(queue) < Capacity)
  <2>1. queue' = queue /\ fallback' = fallback \cup {e}
    BY <1>4 DEF Log, Enqueue
  <2>2. Held' = Held \cup {e}
    BY <1>1, <2>1 DEF Held
  <2>3. TypeOK'
    BY <2>1, <2>2 DEF Log, IInv, TypeOK
  <2>4. worker # e
    BY <1>2 DEF Held
  <2>5. EntriesAreInOnePlace'
    BY <1>1, <1>2, <2>1, <2>2, <2>4, OnePlace, NextOnePlace DEF IInv, Log
  <2> QED
    BY <2>3, <2>5 DEF IInv
<1> QED
  BY <1>3, <1>4

LEMMA ReceiveStep ==
    ASSUME IInv, WorkerReceive
    PROVE  IInv'
<1> USE AuditAssumption
<1>1. /\ queue \in Seq(Entries) /\ queue # <<>> /\ worker = NoEntry
      /\ worker' = Head(queue) /\ queue' = Tail(queue)
      /\ UNCHANGED <<phase, running, fallback, inserting, table, logged, failed, gone>>
  BY DEF WorkerReceive, Receive, IInv, TypeOK
<1>2. /\ worker' \in Entries /\ queue' \in Seq(Entries)
      /\ Len(queue') = Len(queue) - 1 /\ Len(queue) \in Nat \ {0}
      /\ Elements(queue) = Elements(queue') \cup {worker'}
      /\ NoRepeats(queue') /\ worker' \notin Elements(queue')
  BY <1>1, ReceiveFacts, OnePlace DEF IInv
<1>3. Held = fallback /\ Held' = fallback \cup {worker'} /\ Settled' = Settled
  BY <1>1, <1>2 DEF Held, Settled
<1>4. Len(queue') <= Capacity
  BY <1>2 DEF IInv, TypeOK
<1>5. TypeOK'
  BY <1>1, <1>2, <1>3, <1>4 DEF IInv, TypeOK
<1>6. EntriesAreInOnePlace'
  BY <1>1, <1>2, <1>3, OnePlace, NextOnePlace DEF IInv
<1> QED
  BY <1>5, <1>6 DEF IInv

\* Create returned for e: it leaves the goroutine that held it, and has a row
\* or an error to show for it.
LEMMA ReleaseStep ==
    ASSUME IInv, NEW e \in Held, Release(e), table' \subseteq table \cup {e},
           table \subseteq table', failed' \subseteq failed \cup {e}, failed \subseteq failed',
           e \in table' \cup failed', UNCHANGED <<phase, running, queue, logged, gone>>
    PROVE  IInv'
<1> USE AuditAssumption
<1>1. e \in Entries /\ Held \subseteq Entries
  BY DEF IInv, TypeOK, Held
<1>2. Held' = Held \ {e} /\ worker' \in {worker, NoEntry} /\ fallback' \subseteq fallback
  BY <1>1 DEF Release, Held, IInv, TypeOK
<1>3. Settled' = Settled \cup {e}
  BY DEF Settled
<1>4. TypeOK'
  BY <1>1, <1>2 DEF IInv, TypeOK, Release
<1>5. worker' \notin fallback'
  BY <1>2, OnePlace DEF IInv, TypeOK
<1>6. e \notin gone
  BY OnePlace DEF IInv, Settled
<1>7. EntriesAreInOnePlace'
  BY <1>1, <1>2, <1>3, <1>5, <1>6, OnePlace, NextOnePlace DEF IInv
<1> QED
  BY <1>4, <1>7 DEF IInv

LEMMA WriterStep ==
    ASSUME IInv, NEW e \in Entries,
           StartInsert(e) \/ RefuseInsert(e) \/ FinishInsert(e)
    PROVE  IInv'
<1>1. CASE StartInsert(e)
  <2>1. /\ UNCHANGED <<phase, running, queue, worker, fallback, table, logged, failed, gone>>
        /\ inserting' = inserting \cup {e} /\ e \in Held
    BY <1>1 DEF StartInsert
  <2>2. Held' = Held /\ Settled' = Settled
    BY <2>1 DEF Held, Settled
  <2>3. TypeOK'
    BY <2>1, <2>2 DEF IInv, TypeOK
  <2>4. EntriesAreInOnePlace'
    BY <2>1, <2>2, OnePlace, NextOnePlace DEF IInv
  <2> QED
    BY <2>3, <2>4 DEF IInv
<1>2. CASE RefuseInsert(e)
  BY <1>2, ReleaseStep DEF RefuseInsert
<1>3. CASE FinishInsert(e)
  <2>1. PICK applied \in BOOLEAN, error \in BOOLEAN:
            /\ ~applied => error
            /\ table' = IF applied THEN table \cup {e} ELSE table
            /\ failed' = IF error THEN failed \cup {e} ELSE failed
    BY <1>3 DEF FinishInsert
  <2>2. e \in Held
    BY <1>3 DEF FinishInsert, IInv, TypeOK
  <2> QED
    BY <1>3, <2>1, <2>2, ReleaseStep DEF FinishInsert
<1> QED
  BY <1>1, <1>2, <1>3

LEMMA EndStep ==
    ASSUME IInv, NEW applied \in SUBSET inserting, End(applied)
    PROVE  IInv'
<1> USE AuditAssumption
<1>1. /\ queue' = <<>> /\ worker' = NoEntry /\ fallback' = {} /\ inserting' = {}
      /\ running' = {} /\ phase' = "stopped"
      /\ table' = table \cup applied /\ logged' = logged /\ failed' = failed
      /\ gone' = gone \cup ((Elements(queue) \cup Held) \ applied)
  BY DEF End, Elements, Queued
<1>2. applied \subseteq Held /\ Held \subseteq Entries /\ Elements(queue) \subseteq Entries
  BY DEF IInv, TypeOK, Held, Elements
<1>3. Held' = {} /\ Elements(queue') = {} /\ NoRepeats(queue')
  BY <1>1, EmptyQueue DEF Held
<1>4. Settled' = Settled \cup Elements(queue) \cup Held
  BY <1>1, <1>2 DEF Settled
<1>5. TypeOK'
  BY <1>1, <1>2, <1>3 DEF IInv, TypeOK
<1>6. gone' \cap table' = {}
  BY <1>1, <1>2, OnePlace DEF IInv, Settled
<1>7. EntriesAreInOnePlace'
  BY <1>1, <1>3, <1>4, <1>6, OnePlace, NextOnePlace DEF IInv
<1> QED
  BY <1>5, <1>7 DEF IInv

\* Steps of the requests and of the process that touch no entry.
LEMMA QuietStep ==
    ASSUME IInv, UNCHANGED <<memory, table, logged, failed, gone>>,
           phase' \in {"serving", "draining", "closing", "stopped"},
           running' \subseteq Handlers
    PROVE  IInv'
<1>1. Held' = Held /\ Settled' = Settled /\ queue' = queue /\ worker' = worker
      /\ fallback' = fallback /\ inserting' = inserting
  BY DEF memory, Held, Settled
<1>2. TypeOK'
  BY <1>1 DEF IInv, TypeOK
<1>3. EntriesAreInOnePlace'
  BY <1>1, OnePlace, NextOnePlace DEF IInv
<1> QED
  BY <1>2, <1>3 DEF IInv

LEMMA NextIInv == IInv /\ [Next]_vars => IInv'
<1> SUFFICES ASSUME IInv, [Next]_vars PROVE IInv'
  OBVIOUS
<1>1. ASSUME NEW h \in Handlers, BeginRequest(h) \/ EndRequest(h) PROVE IInv'
  BY <1>1, QuietStep DEF BeginRequest, EndRequest, IInv, TypeOK
<1>2. ASSUME NEW h \in Handlers, NEW e \in Entries, Log(h, e) PROVE IInv'
  BY <1>2, LogStep
<1>3. CASE WorkerReceive
  BY <1>3, ReceiveStep
<1>4. ASSUME NEW e \in Entries, StartInsert(e) \/ RefuseInsert(e) \/ FinishInsert(e)
      PROVE  IInv'
  BY <1>4, WriterStep
<1>5. CASE Signal \/ ClosePool \/ Restart
  BY <1>5, QuietStep DEF Signal, ClosePool, Restart, IInv, TypeOK
<1>6. CASE Exit
  BY <1>6, EndStep DEF Exit
<1>7. CASE Crash
  BY <1>7, EndStep DEF Crash
<1>8. CASE UNCHANGED vars
  BY <1>8, QuietStep DEF vars, memory, IInv, TypeOK
<1> QED
  BY <1>1, <1>2, <1>3, <1>4, <1>5, <1>6, <1>7, <1>8 DEF Next

THEOREM InductiveInvariant == Safety => []IInv
<1>1. Init => IInv
  BY InitIInv
<1>2. IInv /\ [Next]_vars => IInv'
  BY NextIInv
<1> QED
  BY <1>1, <1>2, PTL DEF Safety

\* Every variable stays within its type; the channel within its capacity.
THEOREM TypeCorrect == Safety => []TypeOK
<1>1. IInv => TypeOK
  BY DEF IInv
<1> QED
  BY <1>1, InductiveInvariant, PTL

(***************************************************************************)
(* No entry is lost sight of or written twice, through full buffers,       *)
(* failing statements, shutdowns, crashes and restarts.                    *)
(***************************************************************************)
THEOREM OnePlacePerEntry == Safety => []EntriesAreInOnePlace
<1>1. IInv => EntriesAreInOnePlace
  BY DEF IInv
<1> QED
  BY <1>1, InductiveInvariant, PTL

-------------------------------------------------------------------------------
(***************************************************************************)
(* The safety part of the refinement.  An entry waits in the sense of      *)
(* AuditTrail while it is queued or held.                                  *)
(***************************************************************************)
dropped == (failed \ table) \cup gone

LEMMA WaitingIsInMemory ==
    ASSUME IInv
    PROVE  /\ Trail!Waiting = Elements(queue) \cup Held
           /\ Elements(queue) \cup Held \subseteq Entries
           /\ (Elements(queue) \cup Held) \cap Settled = {}
<1>1. /\ logged = Elements(queue) \cup Held \cup Settled
      /\ (Elements(queue) \cup Held) \cap Settled = {}
  BY OnePlace DEF IInv
<1>2. table \cup dropped = Settled
  BY DEF dropped, Settled
<1>3. Elements(queue) \cup Held \subseteq Entries
  BY DEF IInv, TypeOK, Elements, Held
<1> QED
  BY <1>1, <1>2, <1>3 DEF Trail!Waiting, dropped

\* What settles the entries of R with a row and those of D without.
LEMMA SettleStep ==
    ASSUME IInv, NEW R, NEW D, R \subseteq Elements(queue) \cup Held,
           D \subseteq Elements(queue) \cup Held, R \cap D = {},
           table' = table \cup R, dropped' = dropped \cup D, logged' = logged
    PROVE  Trail!Next
<1>1. Trail!Settle(R, D)
  BY WaitingIsInMemory DEF Trail!Settle, dropped
<1>2. R \in SUBSET Entries /\ D \in SUBSET Entries
  BY WaitingIsInMemory
<1> QED
  BY <1>1, <1>2 DEF Trail!Next

LEMMA ReturnSettles ==
    ASSUME IInv, NEW e \in Entries, RefuseInsert(e) \/ FinishInsert(e)
    PROVE  Trail!Next
<1>1. e \in Held /\ logged' = logged /\ gone' = gone
  BY DEF RefuseInsert, FinishInsert, IInv, TypeOK
<1>2. e \notin table /\ e \notin failed /\ e \notin gone
  BY <1>1, WaitingIsInMemory DEF Settled
<1>3. CASE RefuseInsert(e)
  <2>1. table' = table \cup {} /\ dropped' = dropped \cup {e}
    BY <1>1, <1>2, <1>3 DEF RefuseInsert, dropped
  <2> QED
    BY <1>1, <2>1, SettleStep
<1>4. CASE FinishInsert(e)
  <2>1. PICK applied \in BOOLEAN, error \in BOOLEAN:
            /\ ~applied => error
            /\ table' = IF applied THEN table \cup {e} ELSE table
            /\ failed' = IF error THEN failed \cup {e} ELSE failed
    BY <1>4 DEF FinishInsert
  <2>2. CASE applied
    <3>1. table' = table \cup {e} /\ dropped' = dropped \cup {}
      BY <1>1, <1>2, <2>1, <2>2 DEF dropped
    <3> QED
      BY <1>1, <3>1, SettleStep
  <2>3. CASE ~applied
    <3>1. table' = table \cup {} /\ dropped' = dropped \cup {e}
      BY <1>1, <1>2, <2>1, <2>3 DEF dropped
    <3> QED
      BY <1>1, <3>1, SettleStep
  <2> QED
    BY <2>2, <2>3
<1> QED
  BY <1>3, <1>4

LEMMA EndSettles ==
    ASSUME IInv, NEW applied \in SUBSET inserting, End(applied)
    PROVE  Trail!Next
<1> DEFINE D == (Elements(queue) \cup Held) \ applied
<1>1. applied \subseteq Held
  BY DEF IInv, TypeOK
<1>2. /\ table' = table \cup applied /\ logged' = logged /\ failed' = failed
      /\ gone' = gone \cup D
  BY DEF End, Elements, Queued
<1>3. applied \cap Settled = {}
  BY <1>1, WaitingIsInMemory
<1>4. dropped' = dropped \cup D
  BY <1>2, <1>3 DEF dropped, Settled
<1> QED
  BY <1>1, <1>2, <1>4, SettleStep

(***************************************************************************)
(* Every step of the pipeline accepts an entry, settles waiting ones, or   *)
(* does nothing a caller of Log could tell.                                *)
(***************************************************************************)
THEOREM PipelineImplementsTrail == Safety => Trail!Safety
<1>1. Init => Trail!Init
  BY DEF Init, Trail!Init
<1>2. IInv /\ [Next]_vars => [Trail!Next]_(Trail!trail)
  <2> SUFFICES ASSUME IInv, [Next]_vars
               PROVE  Trail!Next \/ UNCHANGED <<logged, table, dropped>>
    BY DEF Trail!trail, dropped
  <2>1. ASSUME NEW h \in Handlers, NEW e \in Entries, Log(h, e) PROVE Trail!Next
    BY <2>1 DEF Log, Trail!Next, Trail!Accept, dropped
  <2>2. ASSUME NEW e \in Entries, RefuseInsert(e) \/ FinishInsert(e) PROVE Trail!Next
    BY <2>2, ReturnSettles
  <2>3. CASE Exit
    BY <2>3, EndSettles DEF Exit
  <2>4. CASE Crash
    BY <2>4, EndSettles DEF Crash
  <2>5. CASE UNCHANGED <<logged, table, failed, gone>>
    BY <2>5 DEF dropped
  <2> QED
    BY <2>1, <2>2, <2>3, <2>4, <2>5 DEF Next, vars, BeginRequest, EndRequest,
       WorkerReceive, StartInsert, Signal, ClosePool, Restart
<1> QED
  BY <1>1, <1>2, InductiveInvariant, PTL DEF Safety, Trail!Safety

-------------------------------------------------------------------------------
(***************************************************************************)
(* What an orderly stop would have to wait for.                            *)
(***************************************************************************)

\* The pool is closed only when no goroutine has an entry left to write.
StopsWhenDrained == phase = "closing" => Queued \cup Held = {}

LEMMA DrainedKeeps ==
    ASSUME ~MayCrash, IInv, StopsWhenDrained, [Next]_vars
    PROVE  /\ gone' = gone
           /\ ~InsertsMayFail => failed' = failed
<1>1. \A e \in Entries: ~RefuseInsert(e)
  BY DEF StopsWhenDrained, RefuseInsert
<1>2. CASE Exit
  BY <1>2 DEF Exit, End, StopsWhenDrained
<1>3. ASSUME NEW e \in Entries, FinishInsert(e)
      PROVE  gone' = gone /\ (~InsertsMayFail => failed' = failed)
  BY <1>3 DEF FinishInsert
<1>4. CASE UNCHANGED <<failed, gone>>
  BY <1>4
<1> QED
  BY <1>1, <1>2, <1>3, <1>4 DEF Next, vars, BeginRequest, EndRequest, Log, WorkerReceive,
     StartInsert, Signal, ClosePool, Crash, Restart

(***************************************************************************)
(* The stop of main.go loses entries because it closes the pool without    *)
(* asking the audit pipeline, and for no other reason: were it drained by  *)
(* then, nothing would go with an orderly stop, however full the buffer is *)
(* and even if the wait for requests times out.  If besides no INSERT      *)
(* fails, every entry passed to Log is in the table or on its way.         *)
(***************************************************************************)
THEOREM DrainedStopsLoseNothing ==
    ASSUME ~MayCrash
    PROVE  Safety /\ []StopsWhenDrained
             => [](/\ gone = {} /\ OrderlyStopLosesNothing
                   /\ ~InsertsMayFail => logged = table \cup Queued \cup Held)
<1> DEFINE Kept == gone = {} /\ (~InsertsMayFail => failed = {})
           Recorded == /\ gone = {} /\ OrderlyStopLosesNothing
                       /\ ~InsertsMayFail => logged = table \cup Queued \cup Held
<1>1. Init => Kept
  BY DEF Init
<1>2. IInv /\ StopsWhenDrained /\ Kept /\ [Next]_vars => Kept'
  <2> SUFFICES ASSUME IInv, StopsWhenDrained, Kept, [Next]_vars PROVE Kept'
    OBVIOUS
  <2> QED
    BY DrainedKeeps
<1>3. IInv /\ Kept => Recorded
  BY DEF IInv, EntriesAreInOnePlace, Settled, OrderlyStopLosesNothing
<1> HIDE DEF Kept
<1> QED
  BY <1>1, <1>2, <1>3, InductiveInvariant, PTL DEF Safety
===============================================================================
