----------------------------- MODULE Ingestion -----------------------------
(***************************************************************************)
(* From Kafka into the table observation_events: the consumer loop of      *)
(* backend/ingestion/ingest.py.  A batch is written in one transaction; if *)
(* that fails its events are written one at a time; then the offset of     *)
(* the batch is committed.  The process may stop between any two steps and *)
(* starts again at the committed offset.                                   *)
(*                                                                         *)
(* The log of the topic is one partition.  It may hold an event more than  *)
(* once, and two events under one event_id (Uplink.tla shows how).         *)
(***************************************************************************)
EXTENDS Naturals, Sequences, FiniteSets

CONSTANTS Events,
          Id,            \* the event_id of each
          Malformed,     \* events the envelope schema refuses
          Late,          \* events of a device that is registered later
          Unwritable,    \* events of a valid form that the database refuses
          BATCH,         \* messages of one transaction
          MaxLog,        \* bound: messages in the log
          None

ASSUME IngestionAssumption ==
    /\ IsFiniteSet(Events) /\ DOMAIN Id = Events /\ None \notin Events
    /\ Malformed \subseteq Events /\ Late \subseteq Events
    /\ Unwritable \subseteq Events
    /\ BATCH \in Nat \ {0} /\ MaxLog \in Nat

VARIABLES
    log,           \* the messages of the topic
    registered,    \* the loader has registered the devices of Late
    offset,        \* the committed offset: messages never read again
    mode,          \* what the loop does next
    done, upto,    \* of the batch in hand: up to where written, its end
    table,         \* observation_events: per event_id, an event or None
    rejections,    \* ingestion_rejections: <<event, reason>>
    skipped        \* given up with a log line and nothing else

database == <<table, rejections, skipped>>
vars == <<log, registered, offset, mode, done, upto, database>>

Ids == {Id[e] : e \in Events}
Reasons == {"schema_invalid", "unknown_device", "content_conflict"}

Init ==
    /\ log = <<>> /\ registered \in BOOLEAN
    /\ offset = 0 /\ mode = "consume" /\ done = 0 /\ upto = 0
    /\ table = [i \in Ids |-> None] /\ rejections = {} /\ skipped = {}
-----------------------------------------------------------------------------
(* _ingest_one: the verdict on an event, given what is recorded under its  *)
(* id once the event has had its chance to be.                             *)

Acceptable(e) == e \notin Malformed /\ (e \in Late => registered)

\* Of the messages lo+1 .. hi, those whose event is the first acceptable one
\* under its id: INSERT ... ON CONFLICT (event_id) DO NOTHING, in order.
Firsts(lo, hi) ==
    {i \in (lo + 1)..hi :
        /\ Acceptable(log[i])
        /\ \A j \in (lo + 1)..(i - 1) :
              Acceptable(log[j]) => Id[log[j]] # Id[log[i]]}

\* Mutant: ON CONFLICT (event_id) DO UPDATE.
Overwritten(lo, hi) ==
    [id \in Ids |->
        IF \E i \in Firsts(lo, hi) : Id[log[i]] = id
        THEN log[CHOOSE i \in Firsts(lo, hi) : Id[log[i]] = id]
        ELSE table[id]]

Recorded(lo, hi) ==
    [id \in Ids |->
        IF table[id] = None /\ \E i \in Firsts(lo, hi) : Id[log[i]] = id
        THEN log[CHOOSE i \in Firsts(lo, hi) : Id[log[i]] = id]
        ELSE table[id]]

\* Mutant: the stored hash is read before the INSERT.
VerdictsBefore(rows, lo, hi) ==
    {<<log[i], "content_conflict">> :
        i \in {j \in (lo + 1)..hi : Acceptable(log[j]) /\ table[Id[log[j]]] # log[j]}}

Verdicts(rows, lo, hi) ==
    {<<log[i], "schema_invalid">> : i \in {j \in (lo + 1)..hi : log[j] \in Malformed}}
    \cup {<<log[i], "unknown_device">> :
            i \in {j \in (lo + 1)..hi : /\ log[j] \in Late \ Malformed
                                        /\ ~registered}}
    \cup {<<log[i], "content_conflict">> :
            i \in {j \in (lo + 1)..hi : /\ Acceptable(log[j])
                                        /\ rows[Id[log[j]]] # log[j]}}

\* One transaction with the messages lo+1 .. hi, that commits.
Write(lo, hi) ==
    LET rows == Recorded(lo, hi)
    IN  table' = rows /\ rejections' = rejections \cup Verdicts(rows, lo, hi)
-----------------------------------------------------------------------------
(* The loop.                                                               *)

\* Mutant: offsets are committed when the batch is read.
ConsumeAndCommit(n) ==
    /\ mode = "consume" /\ offset + n <= Len(log)
    /\ done' = offset /\ upto' = offset + n /\ mode' = "batch"
    /\ offset' = offset + n
    /\ UNCHANGED <<log, registered, database>>

Consume(n) ==
    /\ mode = "consume" /\ offset + n <= Len(log)
    /\ done' = offset /\ upto' = offset + n /\ mode' = "batch"
    /\ UNCHANGED <<log, registered, offset, database>>

\* The database takes every message of the batch.
WriteBatch ==
    /\ mode = "batch"
    /\ \A i \in (done + 1)..upto : log[i] \in Unwritable => ~Acceptable(log[i])
    /\ Write(done, upto)
    /\ done' = upto /\ mode' = "commit"
    /\ UNCHANGED <<log, registered, offset, upto, skipped>>

\* An error at any message, or at the commit: all of it is rolled back.
BatchFails ==
    /\ mode = "batch"
    /\ mode' = "single"
    /\ UNCHANGED <<log, registered, offset, done, upto, database>>

WriteOne ==
    /\ mode = "single" /\ done < upto
    /\ log[done + 1] \in Unwritable => ~Acceptable(log[done + 1])
    /\ Write(done, done + 1)
    /\ done' = done + 1
    /\ UNCHANGED <<log, registered, offset, mode, upto, skipped>>

\* Mutant: an error at one message sends the whole batch round again.
RetryBatch ==
    /\ mode = "single" /\ done < upto
    /\ mode' = "batch" /\ done' = offset
    /\ UNCHANGED <<log, registered, offset, upto, database>>

\* An error at one message: it is logged, and the loop goes on.
SkipOne ==
    /\ mode = "single" /\ done < upto
    /\ skipped' = skipped \cup {log[done + 1]}
    /\ done' = done + 1
    /\ UNCHANGED <<log, registered, offset, mode, upto, table, rejections>>

SinglesDone ==
    /\ mode = "single" /\ done = upto
    /\ mode' = "commit"
    /\ UNCHANGED <<log, registered, offset, done, upto, database>>

\* consumer.commit(): the position of the consumer, the end of the batch.
CommitOffsets ==
    /\ mode = "commit"
    /\ offset' = upto /\ mode' = "consume"
    /\ UNCHANGED <<log, registered, done, upto, database>>

\* Killed, or an error that is not caught (the connection is gone, the
\* commit fails), and started again.
IngestionStops ==
    /\ mode # "consume"
    /\ mode' = "consume" /\ done' = offset /\ upto' = offset
    /\ UNCHANGED <<log, registered, offset, database>>
-----------------------------------------------------------------------------
(* The world: the gateway produces, the loader registers devices.          *)

Arrive(e) ==
    /\ Len(log) < MaxLog
    /\ log' = Append(log, e)
    /\ UNCHANGED <<registered, offset, mode, done, upto, database>>

Register ==
    /\ ~registered /\ registered' = TRUE
    /\ UNCHANGED <<log, offset, mode, done, upto, database>>

Loop == \/ \E n \in 1..BATCH : Consume(n)
        \/ WriteBatch \/ BatchFails \/ WriteOne \/ SkipOne \/ SinglesDone
        \/ CommitOffsets

Next == Loop \/ IngestionStops \/ Register \/ \E e \in Events : Arrive(e)

Spec == Init /\ [][Next]_vars

\* The loop polls without end, and one day nothing stops it any more.
FairSpec == Spec /\ WF_vars(Loop) /\ <>[][~IngestionStops]_vars
-----------------------------------------------------------------------------
TypeOK ==
    /\ log \in Seq(Events) /\ Len(log) <= MaxLog
    /\ registered \in BOOLEAN
    /\ offset \in 0..Len(log) /\ done \in offset..upto /\ upto \in 0..Len(log)
    /\ mode \in {"consume", "batch", "single", "commit"}
    /\ table \in [Ids -> Events \cup {None}]
    /\ rejections \subseteq Events \X Reasons
    /\ skipped \subseteq Events

Answered(e) == \/ table[Id[e]] = e
               \/ \E r \in Reasons : <<e, r>> \in rejections

\* A committed offset leaves nothing behind that was not written, refused or
\* given up with a log line: "the offsets move only now, after the
\* transaction that wrote them committed" (ingest.py:291).
OffsetIsSettled ==
    \A i \in 1..offset : Answered(log[i]) \/ log[i] \in skipped

\* An event is refused as a conflict only if other content is recorded under
\* its id, also after the batch that refused it was read a second time
\* (ingest.py:16, content conflict).
ConflictsAreTrue ==
    \A e \in Events : <<e, "content_conflict">> \in rejections
                       => table[Id[e]] \notin {None, e}

\* What is recorded under an id came first in the log: an event before it
\* was not acceptable when it was read, or was given up (ON CONFLICT DO
\* NOTHING, batches, restarts and replays together).
FirstWins ==
    \A i \in 1..Len(log) :
        LET kept == table[Id[log[i]]]
        IN  kept # None /\ (\A j \in 1..i : log[j] # kept)
            => log[i] \in Malformed \cup Late \cup skipped

\* The table keeps the promise of Telemetry.tla.
Promise == INSTANCE Telemetry WITH
    conflicts <- {e \in Events : <<e, "content_conflict">> \in rejections}
KeepsRecords == Promise!Spec

\* Every message of the log is read for good: no batch, whatever is in it,
\* holds back what comes after ("one bad event cannot hold back the good
\* ones", ingest.py:22).
MessagesAreRead == \A i \in 1..MaxLog : Len(log) >= i ~> offset >= i

\* "... and nothing is lost" (ingest.py:23): every message the offset has
\* passed was written or refused on the record.
NothingIsLost == \A i \in 1..offset : Answered(log[i])
=============================================================================
