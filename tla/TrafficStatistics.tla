-------------------------- MODULE TrafficStatistics --------------------------
(***************************************************************************)
(* core/StatisticalAnalyzer.ts: the traffic windows of the process, the    *)
(* request rate and its baseline.                                          *)
(*                                                                         *)
(* A request suspends where the analyzer awaits Redis.  The commands of a  *)
(* process run in the order in which they are issued, so a command takes   *)
(* effect in the step that issues it and the request goes on in a later    *)
(* one.  A failed read is a miss and a failed write is not noticed         *)
(* (RedisService.safeOperation).                                           *)
(***************************************************************************)
EXTENDS Null, Integers, Sequences, FiniteSets, FiniteSetsExt, SequencesExt

CONSTANTS
  Analyses,            \* the calls of analyze
  TrafficWindows,      \* timeWindows, shortest (a minute) first
  DefaultRate,         \* averageRequestsPerMinute by default
  SavedRates,          \* what an earlier process may have left in baseline:metrics
  Unit,                \* rates are kept in units of 1 / Unit, exact for as many updates as it has zeros
  MaxInstant, MaxFailures   \* bounds

VARIABLES
  analysis,        \* the calls in progress
  trafficCache,    \* window -> its entries
  trafficKeys,     \* window -> when its Redis key expires, or Nil
  baseline,        \* averageRequestsPerMinute: 0 before it is loaded
  savedRate,       \* the same in Redis, or Nil
  loading,         \* the answer initializeBaselineMetrics waits for, if it does
  instant, failures

trafficVars == <<analysis, trafficCache, trafficKeys, baseline, savedRate, loading, instant, failures>>

\* A window is the index of its length, which is also its key's TTL.
LastWindow == Len(TrafficWindows)
Minute == TrafficWindows[1]

NoAnalysis == [pc |-> "new", at |-> Nil, window |-> 0, hit |-> FALSE, since |-> 0, old |-> <<>>,
               rate |-> 0, ratedAt |-> Nil, risk |-> 0]

TrafficInit ==
  /\ analysis = [r \in Analyses |-> NoAnalysis]
  /\ trafficCache = [w \in 1..LastWindow |-> <<>>]
  /\ trafficKeys = [w \in 1..LastWindow |-> Nil]
  /\ savedRate \in SavedRates
  /\ loading \in {<<savedRate>>, <<Nil>>}
  /\ baseline = 0 /\ instant = 0 /\ failures = 0

-----------------------------------------------------------------------------

\* The command that a step issues fails.
CommandFails(failed) ==
  /\ failed => failures < MaxFailures
  /\ failures' = IF failed THEN failures + 1 ELSE failures

Present(w) == trafficKeys[w] # Nil /\ instant < trafficKeys[w]

\* updateTrafficWindow up to its read: the cached entries and the time are
\* taken before it, and the read may fail.
ReadWindow(v, w, failed) ==
  [v EXCEPT !.pc = "window", !.window = w, !.since = instant, !.old = trafficCache[w],
            !.hit = Present(w) /\ ~failed]

\* Mutant: the entries that have left the minute are counted.
AllPatterns(t) == [w \in 1..LastWindow |-> trafficCache[w]]

\* getPatternsInWindow looks at every window's entries, so a request counts
\* once for each window that holds it.
PatternsInWindow(t) ==
  [w \in 1..LastWindow |-> SelectSeq(trafficCache[w], LAMBDA e : e.at >= t - Minute /\ e.at <= t)]

RequestsPerMinute(t) ==
  MapThenSumSet(LAMBDA w : Len(PatternsInWindow(t)[w]), 1..LastWindow)

\* detectRequestRateAnomaly: more than 200% away from the baseline.  A rate
\* divided by a baseline of 0 is Infinity, and 0 / 0 is NaN.
RequestRateAnomaly(rate) ==
  IF baseline = 0 THEN rate > 0
  ELSE (IF rate * Unit > baseline THEN rate * Unit - baseline ELSE baseline - rate * Unit) > 2 * baseline

\* calculateStatisticalRisk.  A request carries no response time, error or
\* length, so those are 0 and at most 100% away from what is expected: no
\* other anomaly is found, and this one has the full score.
CalculateStatisticalRisk(rate) == IF RequestRateAnomaly(rate) THEN 600 ELSE 0

\* The statistics over the windows, the anomaly, and the baseline, which is
\* written for a day.
Statistics(r, v, failed) ==
  LET rate == RequestsPerMinute(instant)
      moved == (9 * baseline + rate * Unit) \div 10
  IN /\ analysis' = [analysis EXCEPT ![r] = [v EXCEPT !.pc = "rated", !.old = <<>>, !.rate = rate, !.ratedAt = instant,
                                        !.risk = CalculateStatisticalRisk(rate)]]
     /\ baseline' = moved
     /\ savedRate' = IF failed THEN savedRate ELSE moved

\* The next window, or the statistics after the last.
GoOn(r, v, failed) ==
  IF v.window < LastWindow
  THEN /\ analysis' = [analysis EXCEPT ![r] = ReadWindow(v, v.window + 1, failed)]
       /\ UNCHANGED <<baseline, savedRate>>
  ELSE Statistics(r, v, failed)

\* analyze: the time of the request, and its first window.
BeginAnalysis(r, failed) ==
  /\ analysis[r].pc = "new"
  /\ GoOn(r, [analysis[r] EXCEPT !.at = instant], failed)
  /\ UNCHANGED <<trafficCache, trafficKeys, loading, instant>>

\* The read found entries: JSON turns their timestamps into strings, getTime
\* throws, and the window is left as it is.
WindowThrows(r, failed) ==
  /\ analysis[r].pc = "window" /\ analysis[r].hit
  /\ GoOn(r, analysis[r], failed)
  /\ UNCHANGED <<trafficCache, trafficKeys, loading, instant>>

\* The read found nothing: the entries taken before it are filtered, the
\* request is added, and both copies are replaced.
StoreWindow(r, failed) ==
  LET v == analysis[r]
      length == TrafficWindows[v.window]
      kept == SelectSeq(v.old, LAMBDA e : e.at > v.since - length)
  IN /\ v.pc = "window" /\ ~v.hit
     /\ trafficCache' = [trafficCache EXCEPT ![v.window] = Append(kept, [of |-> r, at |-> v.at])]
     /\ trafficKeys' = IF failed THEN trafficKeys
                       ELSE [trafficKeys EXCEPT ![v.window] = instant + length]
     /\ analysis' = [analysis EXCEPT ![r].pc = "written", ![r].old = <<>>]
     /\ UNCHANGED <<baseline, savedRate, loading, instant>>

WindowWritten(r, failed) ==
  /\ analysis[r].pc = "written"
  /\ GoOn(r, analysis[r], failed)
  /\ UNCHANGED <<trafficCache, trafficKeys, loading, instant>>

\* initializeBaselineMetrics, which the constructor does not wait for: the
\* saved baseline, or the default when there is none or the read failed.
LoadBaseline(failed) ==
  /\ loading # <<>> /\ loading' = <<>>
  /\ baseline' = IF loading[1] = Nil THEN DefaultRate * Unit ELSE loading[1]
  /\ savedRate' = IF loading[1] = Nil /\ ~failed THEN DefaultRate * Unit ELSE savedRate
  /\ UNCHANGED <<analysis, trafficCache, trafficKeys, instant>>

\* The baseline is written: analyze returns its risk.
EndAnalysis(r) ==
  /\ analysis[r].pc = "rated"
  /\ analysis' = [analysis EXCEPT ![r] = [NoAnalysis EXCEPT !.pc = "done", !.at = analysis[r].at]]
  /\ UNCHANGED <<trafficCache, trafficKeys, baseline, savedRate, loading, instant, failures>>

TrafficTick ==
  /\ instant < MaxInstant /\ instant' = instant + 1
  /\ UNCHANGED <<analysis, trafficCache, trafficKeys, baseline, savedRate, loading, failures>>

TrafficNext ==
  \/ \E failed \in BOOLEAN :
       /\ CommandFails(failed)
       /\ \/ LoadBaseline(failed)
          \/ \E r \in Analyses : \/ BeginAnalysis(r, failed) \/ WindowThrows(r, failed)
                                 \/ StoreWindow(r, failed) \/ WindowWritten(r, failed)
  \/ \E r \in Analyses : EndAnalysis(r)
  \/ TrafficTick

TrafficSpec == TrafficInit /\ [][TrafficNext]_trafficVars

-----------------------------------------------------------------------------

\* The rate an anomaly is judged by counts a request at most once for each
\* window, and only requests of the last minute, however the windows are
\* updated by overlapping requests, lost in Redis or expire
\* (StatisticalAnalyzer.calculateCurrentStatistics).
RateCountsRequests ==
  \A r \in Analyses : analysis[r].ratedAt # Nil =>
    LET t == analysis[r].ratedAt
        counted == {q \in Analyses : analysis[q].at # Nil /\ analysis[q].at \in (t - Minute)..t}
    IN analysis[r].rate <= LastWindow * Cardinality(counted)
=============================================================================
