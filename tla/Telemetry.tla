----------------------------- MODULE Telemetry -----------------------------
(***************************************************************************)
(* The request log: records of requests and events of the pool, on their   *)
(* way from memory to a file (src/src/observability/telemetry.ts) or to    *)
(* two tables (PostgresTelemetryStore of src/src/storage/postgres.ts), and *)
(* the shutdown that drains them (main.ts).                                *)
(*                                                                         *)
(* A record is named by its kind and the order of emission.  The file has  *)
(* one chain of promises, so one write at a time; the tables get batches,  *)
(* any number of them under way at once, each its requests first.          *)
(***************************************************************************)
EXTENDS Naturals, Sequences, SequencesExt, FiniteSets

CONSTANTS
    Sinks,      \* the backends of the deployments: "off", "file", "postgres"
    MaxLines,   \* the size of the file beyond which it is rotated, in lines
    BatchSize,  \* records of one kind that trigger a flush
    MaxRecords, \* bound: records emitted; then the traffic has stopped
    MaxFaults,  \* bound: failing writes
    MaxBoots    \* bound: restarts

ASSUME SinksAreKnown == Sinks \subseteq {"off", "file", "postgres"}
ASSUME SizesAreNumbers ==
    /\ {MaxLines, BatchSize} \subseteq Nat /\ BatchSize > 0
    /\ {MaxRecords, MaxFaults, MaxBoots} \subseteq Nat

VARIABLES
    sink,       \* the backend
    phase,      \* of the process, see Phases
    emitted,    \* ghost: records emitted so far
    queue,      \* file: the records in the chain of promises
    buffers,    \* tables: requestBuffer and poolBuffer
    step,       \* of the file's writer: "idle", or "append" after the rotation
    batches,    \* inserts under way
    broken,     \* `failed` of the file, `degraded` of the tables
    seen,       \* file: the end of the queue that flush() waits for
    stored,     \* the lines of the file, or the rows, in the order written
    rotated,    \* the lines of the rotated file
    torn,       \* the file ends in the middle of a line
    lost,       \* ghost: records that will never be stored
    gone,       \* ghost: records of files that were rotated away
    born,       \* ghost: the first record of this process
    mark,       \* ghost: the last record before the shutdown began
    faults, boots

fileVars == <<queue, step, seen, rotated, torn, gone>>
ghosts == <<born, mark, faults, boots>>
telemetryVars == <<sink, phase, emitted, queue, buffers, step, batches, broken, seen,
                   stored, rotated, torn, lost, gone, born, mark, faults, boots>>

-----------------------------------------------------------------------------
(* Types *)

\* serving; storage.close() flushes; db.close() lets queries finish; app.close()
\* waits for requests; exited
Phases == {"up", "closing", "ending", "closed", "down"}
Kinds == {"request", "pool"}
Record == [n : 1 .. MaxRecords, kind : Kinds]
NoRecords == [request |-> <<>>, pool |-> <<>>]

\* a batch: the records that flush() took out of the buffers, the table it is
\* being inserted into, and whether storage.close() waits for it
Batch == [request : Seq(Record), pool : Seq(Record), part : Kinds, drain : BOOLEAN]

\* what a batch inserts now, what it has still to insert, and the records in memory
Rows(b) == IF b.part = "request" THEN b.request ELSE b.pool
Left(b) == ToSet(Rows(b)) \cup ToSet(b.pool)
Held(records) == ToSet(records.request) \cup ToSet(records.pool)
Buffered == Held(buffers)
InMemory == ToSet(queue) \cup Buffered \cup UNION {Left(b) : b \in batches}

TelemetryInit ==
    /\ sink \in Sinks
    /\ phase = "up"
    /\ emitted = 0 /\ queue = <<>> /\ buffers = NoRecords
    /\ step = "idle" /\ batches = {}
    /\ broken = FALSE /\ seen = 0
    /\ stored = <<>> /\ rotated = <<>> /\ torn = FALSE
    /\ lost = {} /\ gone = {} /\ born = 1 /\ mark = 0
    /\ faults = 0 /\ boots = 0

-----------------------------------------------------------------------------
(* The file: one record at a time goes through the chain *)

\* rotateIfNeeded: a rename that fails is ignored
RotateIfNeeded ==
    /\ sink = "file" /\ phase # "down"
    /\ step = "idle" /\ queue # <<>> /\ ~broken
    /\ step' = "append"
    /\ \/ /\ Len(stored) > MaxLines
          /\ gone' = gone \cup ToSet(rotated)
          /\ rotated' = stored /\ stored' = <<>> /\ torn' = FALSE
          /\ UNCHANGED faults
       \/ /\ Len(stored) > MaxLines => faults < MaxFaults
          /\ faults' = IF Len(stored) > MaxLines THEN faults + 1 ELSE faults
          /\ UNCHANGED <<stored, rotated, torn, gone>>
    /\ UNCHANGED <<sink, phase, emitted, queue, buffers, batches, broken, seen, lost,
                   born, mark, boots>>

\* appendFile.  After a crash that tore the last line the first append makes one
\* line of the two, which read() skips.
Appended ==
    /\ step = "append"
    /\ step' = "idle"
    /\ queue' = Tail(queue)
    /\ IF torn
       THEN lost' = lost \cup {Head(queue)} /\ UNCHANGED stored
       ELSE stored' = Append(stored, Head(queue)) /\ UNCHANGED lost
    /\ torn' = FALSE
    /\ UNCHANGED <<sink, phase, emitted, buffers, batches, broken, seen, rotated, gone, ghosts>>

\* slip: a failure leaves the queue to wait for ever
Stuck == queue
\* the records queued behind a failed write find `failed` set and do nothing
NothingPending == <<>>

\* the catch of enqueue: the first failure disables the sink
AppendFails ==
    /\ step = "append"
    /\ faults < MaxFaults
    /\ faults' = faults + 1
    /\ step' = "idle"
    /\ broken' = TRUE
    /\ torn' \in {torn, TRUE}
    /\ queue' = NothingPending
    /\ lost' = lost \cup ToSet(queue)
    /\ UNCHANGED <<sink, phase, emitted, buffers, batches, seen, stored, rotated, gone,
                   born, mark, boots>>

-----------------------------------------------------------------------------
(* The tables: batches *)

\* slip: the buffers are emptied after the insert, not before it
StillPending(records) == records
\* splice(0)
Spliced(records) == NoRecords

\* the part of flush() up to its first await, when there is something to write;
\* a database that is closing refuses the insert
Flush(records, drain) ==
    /\ buffers' = Spliced(records)
    /\ IF phase \in {"ending", "closed"}
       THEN /\ broken' = TRUE
            /\ lost' = lost \cup Held(records)
            /\ UNCHANGED batches
       ELSE /\ batches' = batches \cup
                  {[request |-> records.request, pool |-> records.pool, drain |-> drain,
                    part |-> IF records.request # <<>> THEN "request" ELSE "pool"]}
            /\ UNCHANGED <<broken, lost>>

\* the timer, or a reader of the log
FlushDue ==
    /\ sink = "postgres" /\ phase # "down" /\ ~broken
    /\ buffers # NoRecords
    /\ Flush(buffers, FALSE)
    /\ UNCHANGED <<sink, phase, emitted, stored, fileVars, ghosts>>

\* an insert is done; a batch with events goes on to their table, unless the
\* database is being closed
Inserted(b) ==
    LET more == b.part = "request" /\ b.pool # <<>>
    IN  /\ stored' = stored \o Rows(b)
        /\ batches' = (batches \ {b}) \cup
              (IF more /\ phase # "ending" THEN {[b EXCEPT !.part = "pool"]} ELSE {})
        /\ IF more /\ phase = "ending"
           THEN broken' = TRUE /\ lost' = lost \cup ToSet(b.pool)
           ELSE UNCHANGED <<broken, lost>>
        /\ UNCHANGED <<sink, phase, emitted, buffers, fileVars, ghosts>>

\* the insert fails, before or after the server made it: the store degrades, and
\* what is still in its buffers stays there
InsertFails(b) ==
    /\ faults < MaxFaults
    /\ faults' = faults + 1
    /\ broken' = TRUE
    /\ batches' = batches \ {b}
    /\ \E made \in {<<>>, Rows(b)} :
          /\ stored' = stored \o made
          /\ lost' = lost \cup (Left(b) \ ToSet(made))
    /\ UNCHANGED <<sink, phase, emitted, buffers, fileVars, born, mark, boots>>

-----------------------------------------------------------------------------
(* request(), pool() *)

\* the record joins the chain of the file
Enqueued(r) ==
    /\ queue' = Append(queue, r)
    /\ UNCHANGED <<buffers, batches, broken, lost>>

\* it joins its buffer, and a buffer that is full is flushed with the other one
Pushed(r) ==
    LET records == [buffers EXCEPT ![r.kind] = Append(@, r)]
    IN  /\ IF Len(records[r.kind]) >= BatchSize
           THEN Flush(records, FALSE)
           ELSE buffers' = records /\ UNCHANGED <<batches, broken, lost>>
        /\ UNCHANGED queue

\* a sink that is disabled drops it
Dropped(r) ==
    /\ lost' = lost \cup {r}
    /\ UNCHANGED <<queue, buffers, batches, broken>>

\* The application emits records in every phase, also while it shuts down, until
\* app.close(): main.ts closes the storage first.  The bound MaxRecords means that
\* at some time no more requests come.
Emit(kind) ==
    /\ phase # "down"
    /\ LET r == [n |-> emitted + 1, kind |-> kind]
       IN  IF sink = "off"
           THEN UNCHANGED telemetryVars
           ELSE /\ emitted < MaxRecords
                /\ emitted' = r.n
                /\ IF broken THEN Dropped(r)
                   ELSE IF sink = "file" THEN Enqueued(r) ELSE Pushed(r)
                /\ UNCHANGED <<sink, phase, stored, step, seen, rotated, torn, gone, ghosts>>

-----------------------------------------------------------------------------
(* Shutdown: storage.close(), app.close(), process.exit(); or a crash *)

\* shutdown() calls storage.close(), which flushes
Shutdown ==
    /\ phase = "up"
    /\ mark' = emitted
    /\ IF sink = "postgres" /\ ~broken /\ buffers # NoRecords
       THEN Flush(buffers, TRUE)
       ELSE UNCHANGED <<buffers, batches, broken, lost>>
    /\ phase' = "closing"
    /\ seen' = IF queue = <<>> THEN 0 ELSE Last(queue).n
    /\ UNCHANGED <<sink, emitted, queue, step, stored, rotated, torn, gone, born, faults, boots>>

\* slip: one look at the queue, without the loop
LooksOnce == FALSE
\* the queue has changed since flush() looked
Changed == queue # <<>>

\* TelemetrySink.flush: what it waited for is written; if more has been queued
\* it waits for that too, as often as it takes
Flushed ==
    /\ sink # "postgres" /\ phase = "closing"
    /\ \A i \in DOMAIN queue : queue[i].n > seen
    /\ IF Changed
       THEN seen' = Last(queue).n /\ UNCHANGED phase
       ELSE phase' = "closed" /\ UNCHANGED seen
    /\ UNCHANGED <<sink, emitted, queue, buffers, step, batches, broken, stored, rotated,
                   torn, lost, gone, ghosts>>

\* flush() of the tables waits for its own batch only
Drained == \A b \in batches : ~b.drain

\* db.close(): queries under way finish, no new one is taken
EndPool ==
    /\ sink = "postgres" /\ phase = "closing"
    /\ Drained
    /\ phase' = "ending"
    /\ UNCHANGED <<sink, emitted, buffers, batches, broken, stored, lost, fileVars, ghosts>>

PoolEnded ==
    /\ phase = "ending"
    /\ batches = {}
    /\ phase' = "closed"
    /\ UNCHANGED <<sink, emitted, buffers, batches, broken, stored, lost, fileVars, ghosts>>

\* the process is over, and what was in memory with it
Stopped ==
    /\ phase' = "down"
    /\ lost' = lost \cup InMemory
    /\ queue' = <<>> /\ buffers' = NoRecords /\ batches' = {}
    /\ step' = "idle" /\ seen' = 0
    /\ torn' \in {torn, torn \/ step = "append"}
    /\ UNCHANGED <<sink, emitted, broken, stored, rotated, gone, ghosts>>

\* app.close() has waited for the requests
Exit == phase = "closed" /\ Stopped
\* a crash; a query that reached the server is made before or not at all
Crash ==
    /\ phase # "down" /\ boots < MaxBoots
    /\ Stopped

Boot ==
    /\ phase = "down" /\ boots < MaxBoots
    /\ boots' = boots + 1
    /\ phase' = "up" /\ broken' = FALSE
    /\ born' = emitted + 1 /\ mark' = emitted
    /\ UNCHANGED <<sink, emitted, queue, buffers, batches, stored, lost, step, seen,
                   rotated, torn, gone, faults>>

TelemetryStep ==
    \/ \E kind \in {"request", "pool"} : Emit(kind)
    \/ RotateIfNeeded \/ Appended \/ AppendFails
    \/ FlushDue
    \/ \E b \in batches : Inserted(b) \/ InsertFails(b)
    \/ Shutdown \/ Flushed \/ EndPool \/ PoolEnded
    \/ Exit \/ Crash \/ Boot

\* every call to the file system and the database returns, the timer fires
TelemetryFairness ==
    /\ WF_telemetryVars(RotateIfNeeded)
    /\ WF_telemetryVars(Appended \/ AppendFails)
    /\ WF_telemetryVars(FlushDue)
    /\ WF_telemetryVars(\E b \in batches : Inserted(b) \/ InsertFails(b))
    /\ WF_telemetryVars(Flushed)
    /\ WF_telemetryVars(EndPool)
    /\ WF_telemetryVars(PoolEnded)

-----------------------------------------------------------------------------
(* Properties *)

History == rotated \o stored
InOrder(records) == \A i, j \in DOMAIN records : i < j => records[i].n < records[j].n

\* Every record that was emitted is in one place: in the queue, a buffer, one
\* batch, the history, a file rotated away, or lost.  Nothing is written twice,
\* though a flush may start while another waits for the database, and the file
\* keeps the order of emission through rotations, failures and crashes.
AccountedFor ==
    /\ {r.n : r \in InMemory \cup ToSet(History) \cup lost \cup gone} = 1 .. emitted
    /\ IsInjective(History)
    /\ \A b, c \in batches : b # c => Left(b) \cap Left(c) = {}
    /\ LET settled == ToSet(History)
       IN  /\ (InMemory \cup lost \cup gone) \cap settled = {}
           /\ InMemory \cap (lost \cup gone) = {} /\ lost \cap gone = {}
           /\ \A b \in batches : Left(b) \cap Buffered = {}
    /\ sink = "file" => InOrder(History \o queue)

\* When storage.close() resolves and no write of this process has failed, what the
\* process accepted is written: to the file everything accepted up to that moment
\* ("every record accepted so far", telemetry.ts:136), to the tables the requests
\* accepted before the shutdown began, those in batches of earlier flushes
\* included.  The first append after a crash may be glued to a torn line.
DrainIsComplete ==
    [][phase # "closed" /\ phase' = "closed" /\ sink # "off"
          /\ (broken' => sink = "postgres" /\ faults = 0) =>
          \A r \in InMemory' \cup lost' :
              \/ r.n < born
              \/ r.n = born /\ boots > 0
              \/ sink = "postgres" /\ (r.kind = "pool" \/ r.n > mark)]_telemetryVars

\* Whatever is in memory is written or given up, whatever was emitted behind it and
\* whichever write fails; so no round of the drain lasts for ever.  And a shutdown
\* ends once the traffic has stopped (MaxRecords), though every record that was
\* emitted while it waited makes the file's drain wait again.  That the traffic
\* stops is needed: flush() of the file loops while records keep coming
\* (telemetry.ts:150-154), and the application takes requests until the drain is
\* over (main.ts:351-354).
RecordsAreWritten ==
    \A n \in 1 .. MaxRecords :
        ~broken /\ (\E r \in InMemory : r.n = n)
            ~> (broken \/ \A r \in InMemory : r.n # n)
ShutdownEnds == phase \in {"closing", "ending"} ~> phase \in {"closed", "down"}
DrainEnds == RecordsAreWritten /\ ShutdownEnds
=============================================================================
