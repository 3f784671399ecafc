-------------------------------- MODULE EWMA --------------------------------
(***************************************************************************)
(* The moving averages of a metric stream: core/ewma/EWMA.ts in its        *)
(* 'simple' variant, which every window of services/EWMAManager.ts uses,   *)
(* and the manager that feeds one average for each time window, counts     *)
(* their anomalies, saves the counts in Redis and loads them at a start.   *)
(*                                                                         *)
(* Averages are kept exactly.  With alpha = n/d, an average that has been  *)
(* updated k times since it was initialized is level / d^k, and its        *)
(* variance is spread / d^(2k-1).                                          *)
(***************************************************************************)
EXTENDS Null, Integers, FiniteSets, FiniteSetsExt

CONSTANTS
  EwmaWindows, Num, Den,     \* the alpha of a window is Num[w] / Den[w]
  Points,                \* the values of data points
  WindowSize,            \* window -> data points it keeps
  MaxMemory,             \* maxMemoryUsage, in hundreds of bytes
  MaxPoints, MaxStarts   \* bounds

ASSUME EwmaAssumption ==
  /\ Num \in [EwmaWindows -> Nat] /\ Den \in [EwmaWindows -> Nat]
  /\ \A w \in EwmaWindows : 0 < Num[w] /\ Num[w] < Den[w]
  /\ Points \subseteq Int
  /\ WindowSize \in [EwmaWindows -> Nat]
  /\ MaxMemory \in Nat /\ MaxPoints \in Nat /\ MaxStarts \in Nat

VARIABLES
  average,    \* ewmaInstances: window -> its average
  flagged,    \* the windows that reported an anomaly for the last data point
  processed,  \* processedDataPoints
  detected,   \* detectedAnomalies
  stats,      \* ewma_manager:stats in Redis, or Nil
  running,    \* "up", "closing": shutdown waits for Redis, or "down"
  fed, starts

ewmaVars == <<average, flagged, processed, detected, stats, running, fed, starts>>

-----------------------------------------------------------------------------

\* reset, and a new instance: scale is d^k, 0 before the first data point; low
\* and high are history variables, the extremes of the values since then.
EmptyAverage == [scale |-> 0, level |-> 0, spread |-> 0, points |-> 0, low |-> 0, high |-> 0]

Sq(x) == x * x

\* calculateSimpleEWMA and updateVariance, whose error is the value less the
\* average before the update.
Smooth(a, v, n, d) ==
  LET error == v * a.scale - a.level
  IN [scale |-> d * a.scale, level |-> n * (v * a.scale) + (d - n) * a.level,
      spread |-> n * Sq(error) + (d - n) * (d * a.spread), points |-> a.points,
      low |-> IF v < a.low THEN v ELSE a.low, high |-> IF v > a.high THEN v ELSE a.high]

\* initialize, and the update with the same value, which leaves it alone.
InitializeAverage(a, v) ==
  [scale |-> 1, level |-> v, spread |-> 0, points |-> a.points, low |-> v, high |-> v]

\* maintainWindowSize
Kept(points, size) == IF points + 1 > size THEN size ELSE points + 1

Update(w, v) ==
  LET a == [average[w] EXCEPT !.points = Kept(@, WindowSize[w])]
  IN IF a.scale = 0 THEN InitializeAverage(a, v) ELSE Smooth(a, v, Num[w], Den[w])

\* Mutant: the anomaly is looked for before the variance is updated.
AnomalyBeforeVariance(w, v) ==
  LET a == average[w]
      error == v * a.scale - a.level
  IN a.scale # 0
     /\ 4 * (Sq(Den[w] - Num[w]) * Sq(error)) > 25 * (Den[w] * (Den[w] * (Den[w] * a.spread)))

\* detectAnomaly: the value is more than 2.5 standard deviations from the new
\* average.  Squared, and multiplied by the square of the new scale.
IsAnomalous(w, v) ==
  LET a == average[w]
      error == v * a.scale - a.level
  IN a.scale # 0
     /\ 4 * (Sq(Den[w] - Num[w]) * Sq(error)) > 25 * (Den[w] * Update(w, v).spread)

-----------------------------------------------------------------------------

EwmaInit ==
  /\ average = [w \in EwmaWindows |-> EmptyAverage] /\ flagged = {}
  /\ processed = 0 /\ detected = 0 /\ stats = Nil
  /\ running = "up" /\ fed = 0 /\ starts = 0

\* EWMAManager.processDataPoint; isInitialized is false only after a shutdown.
ProcessPoint(v) ==
  /\ running # "down" /\ fed < MaxPoints
  /\ fed' = fed + 1
  /\ average' = [w \in EwmaWindows |-> Update(w, v)]
  /\ flagged' = {w \in EwmaWindows : IsAnomalous(w, v)}
  /\ detected' = detected + Cardinality(flagged')
  /\ processed' = processed + 1
  /\ UNCHANGED <<stats, running, starts>>

\* getTotalMemoryUsage: 500 bytes, and 100 for each data point.
MemoryHealthy == MapThenSumSet(LAMBDA w : 5 + average[w].points, EwmaWindows) <= MaxMemory

\* performCleanup: over the limit every average starts again.
PerformEwmaCleanup ==
  /\ running = "up" /\ ~MemoryHealthy
  /\ average' = [w \in EwmaWindows |-> EmptyAverage]
  /\ UNCHANGED <<flagged, processed, detected, stats, running, fed, starts>>

ResetManager ==
  /\ running # "down"
  /\ average' = [w \in EwmaWindows |-> EmptyAverage]
  /\ processed' = 0 /\ detected' = 0
  /\ UNCHANGED <<flagged, stats, running, fed, starts>>

Stats == [processed |-> processed, detected |-> detected]

\* persistToStorage: the statistics are taken before the first wait.  A set
\* that fails is only logged.
PersistStats(stored) ==
  /\ running = "up"
  /\ stats' = IF stored THEN Stats ELSE stats
  /\ UNCHANGED <<average, flagged, processed, detected, running, fed, starts>>

\* shutdown: data points are still taken until the writes are over.
BeginShutdown(stored) ==
  /\ running = "up" /\ running' = "closing"
  /\ stats' = IF stored THEN Stats ELSE stats
  /\ UNCHANGED <<average, flagged, processed, detected, fed, starts>>

\* The end of shutdown, or a crash.
StopManager ==
  /\ running # "down" /\ running' = "down"
  /\ average' = [w \in EwmaWindows |-> EmptyAverage] /\ flagged' = {}
  /\ processed' = 0 /\ detected' = 0
  /\ UNCHANGED <<stats, fed, starts>>

\* initialize and loadFromPersistence: fresh averages, the saved counts.
StartManager(got) ==
  /\ running = "down" /\ running' = "up" /\ starts < MaxStarts
  /\ starts' = starts + 1
  /\ IF got /\ stats # Nil
     THEN processed' = stats.processed /\ detected' = stats.detected
     ELSE UNCHANGED <<processed, detected>>
  /\ UNCHANGED <<average, flagged, stats, fed>>

\* Redis drops the statistics an hour after they were written.
StatsExpire ==
  /\ stats # Nil /\ stats' = Nil
  /\ UNCHANGED <<average, flagged, processed, detected, running, fed, starts>>

EwmaNext ==
  \/ \E v \in Points : ProcessPoint(v)
  \/ PerformEwmaCleanup \/ ResetManager \/ StopManager \/ StatsExpire
  \/ \E ok \in BOOLEAN : PersistStats(ok) \/ BeginShutdown(ok) \/ StartManager(ok)

EwmaSpec == EwmaInit /\ [][EwmaNext]_ewmaVars

-----------------------------------------------------------------------------
(* Properties.                                                              *)

\* With an alpha of n/d, a deviation of (1 - alpha) * error is never above 2.5
\* times the root of a variance that is at least alpha * error^2.
TooResponsive(w) == 4 * Sq(Den[w] - Num[w]) <= 25 * (Den[w] * Num[w])

\* detectAnomaly after updateVariance: a window whose alpha is so large (above
\* about 0.117: those of one and of five minutes) never reports an anomaly,
\* whatever values arrive.
ShortWindowsNeverFlag == \A w \in flagged : ~TooResponsive(w)

\* calculateSimpleEWMA: between resets an average stays within the values seen.
AverageWithinValues ==
  \A w \in EwmaWindows :
    LET a == average[w]
    IN a.scale # 0 => a.low * a.scale <= a.level /\ a.level <= a.high * a.scale
=============================================================================
