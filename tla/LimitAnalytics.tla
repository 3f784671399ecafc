--------------------------- MODULE LimitAnalytics ---------------------------
(***************************************************************************)
(* services/RateLimitAnalytics.ts, as RateLimitManager.checkRateLimit uses *)
(* it: the counters of an endpoint and an hour and the violations of an    *)
(* hour, both objects in Redis that every check reads and writes back, and *)
(* the violations the process remembers, from which reports are made.      *)
(*                                                                         *)
(* Redis commands of the process run in the order in which they are        *)
(* issued: a command takes effect in the step that issues it and the       *)
(* check goes on in a later one.  A failed command answers as if the key   *)
(* did not exist, and a failed write is not noticed.                       *)
(***************************************************************************)
EXTENDS Null, Integers, Sequences, FiniteSets, FiniteSetsExt, SequencesExt

CONSTANTS
  Checks,            \* the rate limit checks
  Identifiers, Endpoints, ThreatLevels,
  Retention,         \* hours both objects are kept after a write
  ViolationCap,      \* violations kept in a list (1000)
  TopCap,            \* violators in a report (10)
  ManyViolations,    \* above which a report advises more measures (100)
  MaxHour, MaxLost   \* bounds

VARIABLES
  event,             \* check -> the event it records
  metricsKeys,       \* endpoint and slot -> the counters, or Nil
  violationKeys,     \* slot -> the violations, or Nil
  violationsCache,
  report,            \* what the last step reported, if it did
  hour, lost

analyticsVars == <<event, metricsKeys, violationKeys, violationsCache, report, hour, lost>>

Slots == 0..MaxHour

NoEvent == [pc |-> "new", id |-> Nil, endpoint |-> Nil, allowed |-> TRUE, slot |-> 0, severity |-> Nil,
            answer |-> Nil]

AnalyticsInit ==
  /\ event = [c \in Checks |-> NoEvent]
  /\ metricsKeys = [k \in Endpoints \X Slots |-> Nil]
  /\ violationKeys = [s \in Slots |-> Nil]
  /\ violationsCache = <<>> /\ report = Nil
  /\ hour = 0 /\ lost = 0

CommandLost(failed) ==
  /\ failed => lost < MaxLost
  /\ lost' = IF failed THEN lost + 1 ELSE lost

\* What a read answers: an object is gone when it has expired.
Answer(key, failed) == IF failed \/ key = Nil THEN Nil ELSE IF key.until > hour THEN key ELSE Nil

Written(keys, k, value, failed) ==
  IF failed THEN keys ELSE [keys EXCEPT ![k] = [value |-> value, until |-> hour + Retention]]

MetricsKey(e) == <<e.endpoint, e.slot>>

\* The newest ViolationCap violations.
NewestViolations(vs) == IF Len(vs) > ViolationCap THEN SubSeq(vs, Len(vs) - ViolationCap + 1, Len(vs)) ELSE vs

-----------------------------------------------------------------------------

\* calculateViolationSeverity: the manager passes a count of 1.
CalculateViolationSeverity(level) == IF level = Nil THEN "low" ELSE level

\* recordRateLimitEvent as far as the exists of updateMetrics.
RecordRateLimitEvent(c, id, endpoint, level, allowed, failed) ==
  /\ event[c].pc = "new"
  /\ event' = [event EXCEPT ![c] =
       [pc |-> "exists", id |-> id, endpoint |-> endpoint, allowed |-> allowed, slot |-> hour,
        severity |-> CalculateViolationSeverity(level),
        answer |-> Answer(metricsKeys[<<endpoint, hour>>], failed)]]
  /\ UNCHANGED <<metricsKeys, violationKeys, violationsCache, hour>>

\* The counters of one request.
FirstMetrics(allowed) ==
  [total |-> 1, allowed |-> IF allowed THEN 1 ELSE 0, blocked |-> IF allowed THEN 0 ELSE 1]

\* Mutant: an allowed request is counted as blocked too.
CountBoth(m, allowed) ==
  [total |-> m.total + 1, allowed |-> m.allowed + FirstMetrics(allowed).allowed, blocked |-> m.blocked + 1]

CountedMetrics(m, allowed) ==
  [total |-> m.total + 1, allowed |-> m.allowed + FirstMetrics(allowed).allowed,
   blocked |-> m.blocked + FirstMetrics(allowed).blocked]

\* The object exists: it is read.
ReadMetrics(c, failed) ==
  LET e == event[c]
  IN /\ e.pc = "exists" /\ e.answer # Nil
     /\ event' = [event EXCEPT ![c].pc = "read", ![c].answer = Answer(metricsKeys[MetricsKey(e)], failed)]
     /\ UNCHANGED <<metricsKeys, violationKeys, violationsCache, hour>>

\* It does not, or it has been read: it is written for Retention hours.
WriteMetrics(c, failed) ==
  LET e == event[c]
      m == IF e.pc = "exists" THEN FirstMetrics(e.allowed) ELSE CountedMetrics(e.answer.value, e.allowed)
  IN /\ \/ e.pc = "exists" /\ e.answer = Nil
        \/ e.pc = "read" /\ e.answer # Nil
     /\ metricsKeys' = Written(metricsKeys, MetricsKey(e), m, failed)
     /\ event' = [event EXCEPT ![c].pc = "counted", ![c].answer = Nil]
     /\ UNCHANGED <<violationKeys, violationsCache, hour>>

\* updateMetrics is over, also when the object had gone: a blocked request
\* reads the violations of its hour (recordViolation).
ReadViolations(c, failed) ==
  LET e == event[c]
  IN /\ e.pc = "counted" \/ (e.pc = "read" /\ e.answer = Nil)
     /\ event' = [event EXCEPT ![c] =
          IF e.allowed THEN [@ EXCEPT !.pc = "done"]
          ELSE [@ EXCEPT !.pc = "violations", !.answer = Answer(violationKeys[e.slot], failed)]]
     /\ UNCHANGED <<metricsKeys, violationKeys, violationsCache, hour>>

Violation(c) == [of |-> c, id |-> event[c].id, at |-> event[c].slot, severity |-> event[c].severity]

WriteViolations(c, failed) ==
  LET e == event[c]
      known == IF e.answer = Nil THEN <<>> ELSE e.answer.value
  IN /\ e.pc = "violations"
     /\ violationKeys' = Written(violationKeys, e.slot, NewestViolations(Append(known, Violation(c))), failed)
     /\ event' = [event EXCEPT ![c].pc = "stored", ![c].answer = Nil]
     /\ UNCHANGED <<metricsKeys, violationsCache, hour>>

CacheViolation(c) ==
  /\ event[c].pc = "stored"
  /\ violationsCache' = NewestViolations(Append(violationsCache, Violation(c)))
  /\ event' = [event EXCEPT ![c].pc = "done"]
  /\ report' = Nil /\ UNCHANGED <<metricsKeys, violationKeys, hour, lost>>

-----------------------------------------------------------------------------

\* getTopViolators: by count, then in the order in which they appear.
TopViolators(vs) ==
  LET ids == {vs[i].id : i \in DOMAIN vs}
      Count(id) == Cardinality({i \in DOMAIN vs : vs[i].id = id})
      First(id) == Min({i \in DOMAIN vs : vs[i].id = id})
      Before(a, b) == Count(a) > Count(b) \/ (Count(a) = Count(b) /\ First(a) < First(b))
  IN {<<id, Count(id)>> : id \in {b \in ids : Cardinality({a \in ids : Before(a, b)}) < TopCap}}

\* getViolations; getOverallMetrics and getGroupedMetrics answer constants.
Violations(from, to) == SelectSeq(violationsCache, LAMBDA v : v.at >= from /\ v.at <= to)

Recommendations(vs) == IF Len(vs) > ManyViolations THEN {"additional measures"} ELSE {}

\* getAnalytics over the hours from..to.
GetAnalytics(from, to) ==
  LET vs == Violations(from, to)
  IN /\ report' = [from |-> from, to |-> to, top |-> TopViolators(vs), recommendations |-> Recommendations(vs)]
     /\ UNCHANGED <<event, metricsKeys, violationKeys, violationsCache, hour, lost>>

AnalyticsTick ==
  /\ hour < MaxHour /\ hour' = hour + 1
  /\ report' = Nil /\ UNCHANGED <<event, metricsKeys, violationKeys, violationsCache, lost>>

AnalyticsNext ==
  \/ \E c \in Checks, failed \in BOOLEAN :
       /\ CommandLost(failed) /\ report' = Nil
       /\ \/ \E id \in Identifiers, endpoint \in Endpoints, level \in ThreatLevels, allowed \in BOOLEAN :
               RecordRateLimitEvent(c, id, endpoint, level, allowed, failed)
          \/ ReadMetrics(c, failed) \/ WriteMetrics(c, failed)
          \/ ReadViolations(c, failed) \/ WriteViolations(c, failed)
  \/ \E c \in Checks : CacheViolation(c)
  \/ \E from, to \in Slots : GetAnalytics(from, to)
  \/ AnalyticsTick

AnalyticsSpec == AnalyticsInit /\ [][AnalyticsNext]_analyticsVars

-----------------------------------------------------------------------------

Started(c) == event[c].pc # "new"

\* Counting may be lost, to overlapping checks, failed commands and expiry, but
\* never invented: the counters of an endpoint and hour are at most the checks
\* made there and add up, and a report never names a violator more often than
\* it was blocked in the hours reported (updateMetrics, recordViolation and
\* getTopViolators).
NeverOvercounts ==
  /\ \A k \in Endpoints \X Slots : metricsKeys[k] # Nil =>
       LET m == metricsKeys[k].value
           here == {c \in Checks : Started(c) /\ MetricsKey(event[c]) = k}
       IN /\ m.total = m.allowed + m.blocked
          /\ m.allowed <= Cardinality({c \in here : event[c].allowed})
          /\ m.blocked <= Cardinality({c \in here : ~event[c].allowed})
  /\ report # Nil => \A v \in report.top :
       v[2] <= Cardinality({c \in Checks : /\ Started(c) /\ ~event[c].allowed /\ event[c].id = v[1]
                                           /\ event[c].slot \in report.from..report.to})
=============================================================================
