------------------------------ MODULE MCAnalysis ------------------------------
(* What the backend computes from the traffic, for TLC: Count-Min sketches,  *)
(* HyperLogLogs and their hash, moving averages, adaptive baselines and      *)
(* behavioural sequences.  They share nothing, so one of them moves in each  *)
(* behaviour.                                                                *)
EXTENDS SketchAnomalies, VisitorCardinality, HLLHash, EWMA, BaselineAdaptation,
        SequenceAnalysis, TLC

CONSTANTS s1, s2, x1, x2, v1, v2, v3, m1, m2
VARIABLE part

TwoSketches == <<"ip_addresses", "request_paths">>
FewInserts == [n \in SketchNames |-> IF n = "ip_addresses" THEN 2 ELSE 0]

\* Two rows of two cells.  Under every seed the two items collide in one row
\* only; the seeds differ in that row, and are alike but for the names of rows
\* and cells, so that the first process may as well draw s1.
Colliding ==
  [s \in Seeds |-> [i \in Rows |-> [z \in Items |->
    IF s = s1 THEN (IF i = 2 /\ z = x2 THEN 1 ELSE 0)
    ELSE (IF i = 1 /\ z = x2 THEN 0 ELSE 1)]]]

\* Levels close enough to be passed within a few requests.
LowThresholds == [suspicious |-> 1, anomalous |-> 2, critical |-> 4]

\* Visitors that share a bucket with equal and with different ranks, and one of
\* its own bucket.
BucketOf == [v \in Visitors |-> IF v = v3 THEN 1 ELSE 0]
RankOf == [v \in Visitors |-> IF v = v1 THEN 2 ELSE 1]

\* The alphas of the three default windows, and windows of two points.
TenthsOf == "1min" :> 3 @@ "5min" :> 2 @@ "15min" :> 1
Tenths == [w \in EwmaWindows |-> 10]
Sizes == [w \in EwmaWindows |-> 2]

\* One metric is fed data, the baseline of the other is set by hand.
SameDefault == [m \in Metrics |-> 16]
FewValues == [m \in Metrics |-> IF m = m1 THEN {24} ELSE {}]
FewByHand == [m \in Metrics |-> IF m = m2 THEN {0} ELSE {}]

\* A page in quick succession, and a bot's failure after a long pause.
PageView == [marks |-> {}, method |-> "GET", status |-> 200, user |-> Nil,
             agent |-> "browser", ip |-> "other", risk |-> Nil, gap |-> 0]
BotError == [PageView EXCEPT !.agent = "bot", !.status = 404, !.risk = 9, !.gap = 4]
TwoShapes == {PageView, BotError}

Parts == {"sketch", "anomalies", "visitors", "hash", "ewma", "baseline", "sequence"}

Init ==
  /\ part \in Parts
  /\ AnomalyInit /\ VisitorInit /\ HashInit /\ EwmaInit /\ BaselineInit /\ SequenceInit
  /\ sketch = Analyzer(s1)
  /\ part # "hash" => h1 = 0 /\ h2 = 0

Next ==
  \/ /\ part = "sketch" /\ SketchNext
     /\ UNCHANGED <<part, detectorVars, visitorVars, hashVars, ewmaVars, baselineVars, sequenceVars>>
  \/ /\ part = "anomalies" /\ AnomalyNext
     /\ UNCHANGED <<part, visitorVars, hashVars, ewmaVars, baselineVars, sequenceVars>>
  \/ /\ part = "visitors" /\ VisitorNext
     /\ UNCHANGED <<part, anomalyVars, hashVars, ewmaVars, baselineVars, sequenceVars>>
  \/ /\ part = "hash" /\ HashNext
     /\ UNCHANGED <<part, anomalyVars, visitorVars, ewmaVars, baselineVars, sequenceVars>>
  \/ /\ part = "ewma" /\ EwmaNext
     /\ UNCHANGED <<part, anomalyVars, visitorVars, hashVars, baselineVars, sequenceVars>>
  \/ /\ part = "baseline" /\ BaselineNext
     /\ UNCHANGED <<part, anomalyVars, visitorVars, hashVars, ewmaVars, sequenceVars>>
  \/ /\ part = "sequence" /\ SequenceNext
     /\ UNCHANGED <<part, anomalyVars, visitorVars, hashVars, ewmaVars, baselineVars>>

Spec ==
  Init /\ [][Next]_<<part, anomalyVars, visitorVars, hashVars, ewmaVars, baselineVars, sequenceVars>>
=============================================================================
