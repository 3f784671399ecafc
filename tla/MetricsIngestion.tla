-------------------------- MODULE MetricsIngestion --------------------------
(***************************************************************************)
(* Metrics on their way to InfluxDB: InfluxDBIntegration records one point *)
(* per call, MetricsIngestionService collects points into a batch that a   *)
(* full batch, a timer, POST /flush or shutdown writes, and InfluxDBService *)
(* writes it.  A step is a turn of the event loop.                         *)
(***************************************************************************)
EXTENDS Naturals, FiniteSets

CONSTANTS
  Points,           \* every point is recorded at most once
  Invalid,          \* the points that validatePoints rejects
  BatchSize,
  WritesFail        \* whether a write to the database may fail

ASSUME IngestionAssumption ==
  /\ Invalid \subseteq Points /\ BatchSize \in Nat \ {0} /\ WritesFail \in BOOLEAN

VARIABLES
  status,               \* progress of initialize and shutdown
  connected, initialized,
  pending,              \* pendingPoints
  batchTimer, armed,    \* the field is not null; the timer is going to fire
  writes,               \* the writes under way, each with who waits for it
  result,               \* what the caller that recorded a point was told
  stored, dropped       \* in the database; given up

ingestionVars == <<status, connected, initialized, pending, batchTimer, armed, writes, result, stored, dropped>>
batch == <<pending, batchTimer, armed, writes, stored, dropped>>

Nobody == "nobody"
AtShutdown == "shutdown"

IngestionInit ==
  /\ status = "new" /\ connected = FALSE /\ initialized = FALSE
  /\ pending = {} /\ batchTimer = FALSE /\ armed = FALSE /\ writes = {}
  /\ result = [p \in Points |-> "none"]
  /\ stored = {} /\ dropped = {}

-----------------------------------------------------------------------------
(* Initialization.                                                         *)

\* The ping decides; creating the database and its policies never throws.
Connect ==
  /\ status = "new"
  /\ connected' \in BOOLEAN
  /\ status' = IF connected' THEN "connected" ELSE "failed"
  /\ UNCHANGED <<initialized, pending, batchTimer, armed, writes, result, stored, dropped>>

Initialized ==
  /\ status = "connected"
  /\ initialized' = TRUE /\ status' = "up"
  /\ UNCHANGED <<connected, pending, batchTimer, armed, writes, result, stored, dropped>>

-----------------------------------------------------------------------------
(* flushBatch, up to its first await.  `points` is pendingPoints, `waiter` *)
(* the point whose caller awaits the write.                                *)

Valid(points) == points \ Invalid

\* A write starts only for valid points, and only on a connected client.
Starts(points) == Valid(points) # {} /\ connected

\* What a caller that awaits flushBatch is told at once when no write starts.
Immediate(points) == IF Valid(points) = {} THEN "true" ELSE "false"

\* Mutant: the points are copied but stay in the batch.
FlushKeepsPoints(points, waiter) ==
  /\ pending' = points /\ armed' = (points # {} /\ ~armed) /\ batchTimer' = armed'
  /\ writes' = IF Starts(points) THEN writes \cup {[points |-> Valid(points), waiter |-> waiter]} ELSE writes
  /\ dropped' = dropped \cup (IF Starts(points) THEN points \cap Invalid ELSE points)
  /\ UNCHANGED stored

\* An empty batch returns before the timer is looked at.
FlushBatch(points, waiter) ==
  IF points = {} THEN UNCHANGED batch
  ELSE /\ pending' = {} /\ batchTimer' = FALSE /\ armed' = FALSE
       /\ writes' = IF Starts(points)
                    THEN writes \cup {[points |-> Valid(points), waiter |-> waiter]} ELSE writes
       /\ dropped' = dropped \cup (IF Starts(points) THEN points \cap Invalid ELSE points)
       /\ UNCHANGED stored

-----------------------------------------------------------------------------
(* Callers.                                                                *)

\* Before initialize has ended and after shutdown the point is skipped.
RecordSkipped(p) ==
  /\ result[p] = "none" /\ ~initialized
  /\ result' = [result EXCEPT ![p] = "false"]
  /\ UNCHANGED <<status, connected, initialized, batch>>

\* batchIngest with room left in the batch: success is returned at once.
Ingest(p) ==
  /\ result[p] = "none" /\ initialized
  /\ Cardinality(pending \cup {p}) < BatchSize
  /\ pending' = pending \cup {p}
  /\ batchTimer' = TRUE
  /\ armed' = (armed \/ ~batchTimer)
  /\ result' = [result EXCEPT ![p] = "buffered"]
  /\ UNCHANGED <<status, connected, initialized, writes, stored, dropped>>

\* batchIngest that fills the batch: its caller waits for the write.
IngestFull(p) ==
  LET points == pending \cup {p}
  IN /\ result[p] = "none" /\ initialized
     /\ Cardinality(points) >= BatchSize
     /\ FlushBatch(points, p)
     /\ result' = [result EXCEPT ![p] = IF Starts(points) THEN "waiting" ELSE Immediate(points)]
     /\ UNCHANGED <<status, connected, initialized>>

Record(p) == RecordSkipped(p) \/ Ingest(p) \/ IngestFull(p)

\* POST /flush, whose caller is told nothing about the write.
FlushMetrics ==
  /\ initialized /\ pending # {}
  /\ FlushBatch(pending, Nobody)
  /\ UNCHANGED <<status, connected, initialized, result>>

\* Mutant: a timer that finds one point only waits for another interval.
TimerFiresForTwo ==
  /\ armed /\ Cardinality(pending) # 1
  /\ FlushBatch(pending, Nobody)
  /\ UNCHANGED <<status, connected, initialized, result>>

TimerFires ==
  /\ armed
  /\ IF pending = {} THEN armed' = FALSE /\ UNCHANGED <<pending, batchTimer, writes, stored, dropped>>
     ELSE FlushBatch(pending, Nobody)
  /\ UNCHANGED <<status, connected, initialized, result>>

-----------------------------------------------------------------------------
(* Shutdown: flush, stop the retention service, disconnect.                *)

Disconnected == status' = "down" /\ connected' = FALSE /\ initialized' = FALSE

\* With nothing to write, shutdown runs to its end in one turn.
Shutdown ==
  /\ status = "up"
  /\ FlushBatch(pending, AtShutdown)
  /\ IF pending # {} /\ Starts(pending)
     THEN status' = "stopping" /\ UNCHANGED <<connected, initialized>>
     ELSE Disconnected
  /\ UNCHANGED result

-----------------------------------------------------------------------------
(* The database answers a write; flushBatch and its caller go on.          *)

Told(w, answer) == IF w.waiter \in Points THEN [result EXCEPT ![w.waiter] = answer] ELSE result

GoesOn(w) ==
  IF w.waiter = AtShutdown THEN Disconnected ELSE UNCHANGED <<status, connected, initialized>>

Written(w) ==
  /\ w \in writes
  /\ writes' = writes \ {w}
  /\ stored' = stored \cup w.points
  /\ result' = Told(w, "true")
  /\ GoesOn(w)
  /\ UNCHANGED <<pending, batchTimer, armed, dropped>>

\* The write is lost, or only its answer is; either way the points are given up.
NotWritten(w) ==
  /\ w \in writes /\ WritesFail
  /\ writes' = writes \ {w}
  /\ dropped' = dropped \cup w.points
  /\ stored' \in {stored, stored \cup w.points}
  /\ result' = Told(w, "false")
  /\ GoesOn(w)
  /\ UNCHANGED <<pending, batchTimer, armed>>

-----------------------------------------------------------------------------
IngestionNext ==
  \/ Connect \/ Initialized \/ FlushMetrics \/ TimerFires \/ Shutdown
  \/ \E p \in Points : Record(p)
  \/ \E w \in writes : Written(w) \/ NotWritten(w)

\* A timer that is set fires, and a write is answered or fails.
IngestionFairness == WF_ingestionVars(TimerFires) /\ WF_ingestionVars(\E w \in writes : Written(w) \/ NotWritten(w))

IngestionSpec == IngestionInit /\ [][IngestionNext]_ingestionVars /\ IngestionFairness

-----------------------------------------------------------------------------

InFlight == UNION {w.points : w \in writes}
Settled == stored \cup dropped
Accepted == {p \in Points : result[p] \in {"buffered", "waiting", "true"}}

\* A point that was taken is in the batch, in one write, or settled, and never
\* in two of these places: flushBatch hands the points over in one turn
\* (MetricsIngestionService.ts, flushBatch), so concurrent flushes cannot write
\* a point twice or lose it.  And a caller that waited for its batch and was told
\* true has its point in the database, unless the point was invalid (write).
OnePlace ==
  /\ pending \cap InFlight = {} /\ (pending \cup InFlight) \cap Settled = {}
  /\ \A v, w \in writes : v # w => v.points \cap w.points = {}
  /\ Accepted \subseteq pending \cup InFlight \cup Settled
  /\ \A p \in Points : result[p] = "true" => p \in stored \cup Invalid

\* Points that wait in the batch are handed to a write or given up, also when no
\* further point fills the batch (batchIngest).
PendingLeaves == pending # {} ~> pending = {}
=============================================================================
