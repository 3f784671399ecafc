-------------------------- MODULE VisitorCardinality --------------------------
(***************************************************************************)
(* Unique visitors: HyperLogLog, VisitorTracker (one HyperLogLog per kind  *)
(* of item and one more per time window) and HyperLogLogManager.           *)
(*                                                                         *)
(* The hash of an item is seen through its bucket and rank only (HLLHash). *)
(* The field `seen` of an HyperLogLog is a ghost: the items it was given   *)
(* since it was cleared.  Requests and clears run to their end without     *)
(* waiting; only persisting and loading wait for Redis, and neither        *)
(* touches a HyperLogLog.  No step merges.                                 *)
(***************************************************************************)
EXTENDS Integers, FiniteSets, FiniteSetsExt

CONSTANTS
  Types,        \* tracking types: ips, sessions...
  Windows,      \* config.timeWindows, in ticks
  Visitors,
  Ages,         \* how old the timestamp of a request may be, in ticks
  Buckets,      \* 0..2^precision - 1
  Bucket, Rank, \* extractBucket and getLeadingZeroCount of an item's hash
  SparseMode,   \* config.sparseMode
  Oversized,    \* may the memory exceed maxMemoryUsage?
  MaxHistory    \* points kept of a metric (1000 in the code)

ASSUME VisitorAssumption ==
  /\ IsFiniteSet(Buckets)
  /\ Bucket \in [Visitors -> Buckets]
  /\ Rank \in [Visitors -> Nat \ {0}]

ASSUME SparseAssumption == SparseMode \in BOOLEAN

VARIABLES
  hll,       \* hlls and timeWindowData: <<type, window>> -> HyperLogLog
  phase,     \* "new", "loading", "up", "stopping", "down"
  history    \* HLLAnalytics.historicalData: metric -> number of points

visitorVars == <<hll, phase, history>>

All == 0
Keys == Types \X (Windows \cup {All})
Recorded == {"total_visitors", "unique_ips", "unique_sessions"}

-----------------------------------------------------------------------------
(* HyperLogLog                                                             *)

NewHLL == [reg |-> [b \in Buckets |-> 0], sparse |-> SparseMode, seen |-> {}]

Used(h) == {b \in Buckets : h.reg[b] > 0}

\* shouldConvertToDense: more than a quarter of the registers are used.
Converted(h) ==
  [h EXCEPT !.sparse = @ /\ 4 * Cardinality(Used(h)) <= Cardinality(Buckets)]

\* Mutant: the register takes the rank of the last item.
AddLast(h, x) ==
  Converted([h EXCEPT !.reg = [h.reg EXCEPT ![Bucket[x]] = Rank[x]],
                      !.seen = @ \cup {x}])

Add(h, x) ==
  Converted([h EXCEPT !.reg = [h.reg EXCEPT ![Bucket[x]] =
                                 IF Rank[x] > h.reg[Bucket[x]] THEN Rank[x]
                                 ELSE h.reg[Bucket[x]]],
                      !.seen = @ \cup {x}])

\* Both become dense if one is.
MergedHLL(g, h) ==
  [reg |-> [b \in Buckets |-> IF g.reg[b] > h.reg[b] THEN g.reg[b] ELSE h.reg[b]],
   sparse |-> g.sparse /\ h.sparse,
   seen |-> g.seen \cup h.seen]

-----------------------------------------------------------------------------
(* VisitorTracker                                                          *)

\* The timestamp is not before the window's start, which is counted from now.
WithinTimeWindow(age, w) == age <= w

AddToTracking(fields, age) ==
  hll' = [k \in Keys |->
            IF k[1] \in DOMAIN fields /\ (k[2] = All \/ WithinTimeWindow(age, k[2]))
            THEN Add(hll[k], fields[k[1]]) ELSE hll[k]]

Clear == hll' = [k \in Keys |-> NewHLL]

-----------------------------------------------------------------------------
(* HyperLogLogManager                                                      *)

VisitorInit ==
  /\ hll = [k \in Keys |-> NewHLL]
  /\ phase = "new"
  /\ history = [m \in Recorded |-> 0]

InitializeHLL ==
  /\ phase = "new"
  /\ phase' = "loading"
  /\ UNCHANGED <<hll, history>>

\* The stored metrics were read; the trackers are not stored.
StartedHLL ==
  /\ phase = "loading"
  /\ phase' = "up"
  /\ UNCHANGED <<hll, history>>

\* A request names an item for some of the types and may carry its own time.
ProcessVisit(fields, age) ==
  /\ phase \in {"up", "stopping"}
  /\ AddToTracking(fields, age)
  /\ UNCHANGED <<phase, history>>

RecordHistoricalData(m) == IF history[m] = MaxHistory THEN MaxHistory ELSE history[m] + 1

Record ==
  history' = [m \in Recorded |-> RecordHistoricalData(m)]

PersistHLL ==
  /\ phase = "up"
  /\ Record
  /\ UNCHANGED <<hll, phase>>

CleanupHLL ==
  /\ phase = "up"
  /\ Oversized
  /\ Clear
  /\ UNCHANGED <<phase, history>>

ResetHLL ==
  /\ phase = "up"
  /\ Clear
  /\ UNCHANGED <<phase, history>>

ShutdownHLL ==
  /\ phase = "up"
  /\ phase' = "stopping"
  /\ UNCHANGED <<hll, history>>

ShutdownEnd ==
  /\ phase = "stopping"
  /\ Record
  /\ phase' = "down"
  /\ UNCHANGED <<hll>>

VisitorNext ==
  \/ InitializeHLL \/ StartedHLL \/ PersistHLL \/ CleanupHLL \/ ResetHLL
  \/ ShutdownHLL \/ ShutdownEnd
  \/ \E some \in (SUBSET Types) \ {{}}, age \in Ages :
       \E fields \in [some -> Visitors] : ProcessVisit(fields, age)

VisitorSpec == VisitorInit /\ [][VisitorNext]_visitorVars

-----------------------------------------------------------------------------
(* Properties                                                              *)

HyperLogLog == [reg : [Buckets -> Nat], sparse : BOOLEAN, seen : SUBSET Visitors]

\* Each register holds the largest rank among the items of its bucket.
Exact(h) ==
  /\ \A x \in h.seen : h.reg[Bucket[x]] >= Rank[x]
  /\ \A n \in Buckets : h.reg[n] > 0 =>
       \E x \in h.seen : Bucket[x] = n /\ Rank[x] = h.reg[n]

\* The registers are determined by the set of distinct items: repetitions, the
\* order of add and the change from sparse to dense do not matter; and merge
\* makes the HyperLogLog of the union, whatever the two representations are.
RegistersExact ==
  \A k, l \in Keys :
    /\ Exact(hll[k])
    /\ Exact(MergedHLL(hll[k], hll[l]))
    /\ MergedHLL(hll[k], hll[l]).seen = hll[k].seen \cup hll[l].seen
===============================================================================
