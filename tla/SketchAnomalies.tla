--------------------------- MODULE SketchAnomalies ---------------------------
(***************************************************************************)
(* SketchAnomalyDetector on top of the frequency sketches: what a request  *)
(* that SketchManager counts reports, from the estimate of its item, the   *)
(* pattern of the item's minute windows and the earlier detections.  One   *)
(* sketch is watched; the histories of the others share nothing with it.   *)
(*                                                                         *)
(* Severities, confidences and recommendations decide nothing here and are *)
(* left out.  A pattern's confidence is 0.8 whenever it is a burst, so the *)
(* check against 0.6 always passes.  No caller sets a baseline: it is 1.   *)
(* Nothing of the detector is stored, so a restart is the initial state.   *)
(***************************************************************************)
EXTENDS FrequencySketch

CONSTANTS
  Watched,          \* the sketch whose detections are followed
  Enabled,          \* the detectors that are switched on
  Thresholds,       \* frequencies from which a level holds
  SpikeThreshold,   \* multiple of the baseline that is a spike (five)
  MinSamples,       \* inserts before anything counts as rare (ten)
  RareShare,        \* an item is rare up to one insert in this many (1000)
  SuspiciousItems,  \* items isSuspiciousItem matches
  VarianceN, VarianceD,  \* variance over mean above which it is a burst (2/1)
  SustainedDuration,     \* minutes (ten)
  HistorySpan,           \* minutes of history that are kept (a day)
  MaxObserved, MaxMinutes   \* bounds

VARIABLES
  detections, \* detectionHistory of Watched: sequence of [item, type, end]
  latest,     \* what a request has just reported, Nobody after any other step
  alarms,     \* ghost: the stored detections by request, since the last clear
  counted,    \* ghost: <<item, minute>> of every request of this process
  observed    \* requests so far

detectorVars == <<detections, latest, alarms, counted, observed>>
anomalyVars == <<sketchVars, detectorVars>>

Detectors == {"spike", "rare", "burst", "sustained"}
Baseline == 1
Nobody == [types |-> {}]

-----------------------------------------------------------------------------
(* FrequencyAnalyzer                                                       *)

DetermineRiskLevel(f) ==
  CASE f >= Thresholds.critical -> "critical"
    [] f >= Thresholds.anomalous /\ f < Thresholds.critical -> "anomalous"
    [] f >= Thresholds.suspicious /\ f < Thresholds.anomalous -> "suspicious"
    [] OTHER -> "normal"

\* Variance over mean of the frequencies, compared without division.
Bursty(W) ==
  LET n == Cardinality(W)
      sum == MapThenSumSet(LAMBDA w : w.frequency, W)
      squares == MapThenSumSet(LAMBDA w : w.frequency * w.frequency, W)
  IN VarianceD * (n * squares - sum * sum) > VarianceN * n * sum

\* The change from the first window to the last, as a multiple of the first.
FirstWindow(W) == CHOOSE w \in W : \A v \in W : w.start <= v.start
LastWindow(W) == CHOOSE w \in W : \A v \in W : w.start >= v.start
Rises(W) == 2 * (LastWindow(W).frequency - FirstWindow(W).frequency) > FirstWindow(W).frequency
Falls(W) == 2 * (FirstWindow(W).frequency - LastWindow(W).frequency) > FirstWindow(W).frequency

AnalyzePattern(ws, x) ==
  LET W == {w \in ws : w.item = x} IN
  CASE Cardinality(W) < 2 -> "steady"
    [] Cardinality(W) >= 2 /\ Bursty(W) -> "burst"
    [] Cardinality(W) >= 2 /\ ~Bursty(W) /\ Rises(W) -> "increasing"
    [] Cardinality(W) >= 2 /\ ~Bursty(W) /\ Falls(W) -> "decreasing"
    [] OTHER -> "steady"

-----------------------------------------------------------------------------
(* SketchAnomalyDetector                                                   *)

\* Each detector either reports or returns null; s and ws are the sketch and
\* its windows after the request was counted.
FrequencySpike(f, pattern) ==
  f >= Baseline * SpikeThreshold /\ pattern \in {"increasing", "burst"}

RareItem(s, x, f) ==
  /\ s.inserts >= MinSamples
  /\ f * RareShare <= s.inserts
  /\ f = 1 /\ x \in SuspiciousItems

BurstPattern(pattern) == pattern = "burst"

\* Mutant: detections of any item count.
RecentOfAnyItem(x) == SelectSeq(detections, LAMBDA a : a.end > now - SustainedDuration)

RecentAnomalies(x) ==
  SelectSeq(detections, LAMBDA a : a.item = x /\ a.end > now - SustainedDuration)

HighLevel(f) == DetermineRiskLevel(f) \in {"anomalous", "critical"}

SustainedHighActivity(x, f, pattern) ==
  /\ HighLevel(f)
  /\ pattern \in {"steady", "increasing"}
  /\ Len(RecentAnomalies(x)) >= 3

\* The order in which analyzeFrequency runs the detectors.
Found(s, ws, x, f) ==
  LET pattern == AnalyzePattern(ws, x)
      reports == [d \in Detectors |->
        CASE d = "spike" -> FrequencySpike(f, pattern)
          [] d = "rare" -> RareItem(s, x, f)
          [] d = "burst" -> BurstPattern(pattern)
          [] d = "sustained" -> SustainedHighActivity(x, f, pattern)]
  IN SelectSeq(<<"spike", "rare", "burst", "sustained">>, LAMBDA d : d \in Enabled /\ reports[d])

\* After clearAll the sketch has no list of windows and analyzePattern throws:
\* what was found before that is returned and nothing is stored.
SpikeThrows(f) == "spike" \in Enabled /\ f >= Baseline * SpikeThreshold
Throws(f) == SpikeThrows(f) \/ "burst" \in Enabled \/ ("sustained" \in Enabled /\ HighLevel(f))

FoundBeforeThrow(s, x, f) ==
  IF ~SpikeThrows(f) /\ "rare" \in Enabled /\ RareItem(s, x, f) THEN <<"rare">> ELSE <<>>

\* storeDetectionHistory appends and then drops what is older than a day.
StoreDetectionHistory(x, types) ==
  detections' = SelectSeq(detections \o [k \in DOMAIN types |-> [item |-> x, type |-> types[k], end |-> now]],
                       LAMBDA a : a.end > now - HistorySpan)

AnalyzeFrequency(s, ws, tracked, x) ==
  LET f == Query(s, x)
      types == IF tracked THEN Found(s, ws, x, f) ELSE FoundBeforeThrow(s, x, f)
      stores == types # <<>> /\ (tracked \/ ~Throws(f))
  IN /\ latest' = [types |-> {types[k] : k \in DOMAIN types}, item |-> x]
     /\ IF stores
          THEN /\ StoreDetectionHistory(x, types)
               /\ alarms' = alarms \cup {[item |-> x, at |-> now, nth |-> observed]}
          ELSE UNCHANGED <<detections, alarms>>

-----------------------------------------------------------------------------
(* SketchManager                                                           *)

AnomalyInit ==
  /\ SketchInit
  /\ detections = <<>> /\ latest = Nobody /\ alarms = {} /\ counted = {} /\ observed = 0

\* processRequest: the request is counted, then analysed, in one turn.
ProcessAndAnalyze(x) ==
  /\ status \in {"up", "stopping"}
  /\ observed < MaxObserved
  /\ TrackItem({Watched}, x)
  /\ LET tracked == Watched \in DOMAIN windows' IN
       AnalyzeFrequency(sketch'[Watched], IF tracked THEN windows'[Watched] ELSE {}, tracked, x)
  /\ counted' = counted \cup {<<x, now>>}
  /\ observed' = observed + 1
  /\ UNCHANGED <<stored, status, loading, job, live, now, restarts>>

ClearHistory ==
  /\ detections' = <<>> /\ alarms' = {} /\ latest' = Nobody
  /\ UNCHANGED <<counted, observed>>

\* The cleanup clears the sketches when the memory is over the limit, which
\* updateConfiguration may change, and the history of every sketch in any case.
PerformCleanup ==
  /\ \/ Cleanup
     \/ live["cleanup"] > 0 /\ UNCHANGED sketchVars
  /\ ClearHistory

ResetAll == Reset /\ ClearHistory

StartUp == (Initialize \/ LoadOne \/ Started) /\ UNCHANGED detectorVars

\* A minute passes, in the windows' unit.
Minute ==
  /\ now < MaxMinutes
  /\ now' = now + 1
  /\ latest' = Nobody
  /\ UNCHANGED <<sketch, stored, windows, status, loading, job, live, restarts>>
  /\ UNCHANGED <<detections, alarms, counted, observed>>

AnomalyNext ==
  \/ StartUp \/ PerformCleanup \/ ResetAll \/ Minute
  \/ \E x \in Items : ProcessAndAnalyze(x)

AnomalySpec == AnomalyInit /\ [][AnomalyNext]_anomalyVars

-----------------------------------------------------------------------------
(* Properties                                                              *)

\* Sustained activity (detectSustainedHighActivity) is never reported of an item
\* by the noise of others or by its first rush: the item itself was reported at
\* two or more earlier requests within the sustained duration, since the history
\* was last cleared, and it was already counted in an earlier minute.
SustainedEarned ==
  "sustained" \in latest.types =>
    LET x == latest.item
        earlier == {a \in alarms : a.item = x /\ a.nth < observed - 1 /\ a.at > now - SustainedDuration}
    IN Cardinality(earlier) >= 2 /\ \E c \in counted : c[1] = x /\ c[2] < now
=============================================================================
