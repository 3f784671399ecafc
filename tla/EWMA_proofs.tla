---------------------------- MODULE EWMA_proofs ----------------------------
(* The averages for any windows, any alpha between 0 and 1 and any values. *)
EXTENDS EWMA, TLAPS

Averages == [scale : Nat, level : Int, spread : Nat, points : Nat, low : Int, high : Int]

\* The representation of an average: a variance is never negative, and the
\* extremes are those of at least one value.
AverageType ==
  /\ average \in [EwmaWindows -> Averages]
  /\ \A w \in EwmaWindows : average[w].scale # 0 => average[w].low <= average[w].high

-----------------------------------------------------------------------------

\* Multiplying both sides by a natural number.
LEMMA Monotone ==
  ASSUME NEW x \in Int, NEW y \in Int, NEW k \in Nat, x <= y
  PROVE  k * x <= k * y /\ x * k <= y * k
  BY SMTT(30)

LEMMA Products ==
  ASSUME NEW x \in Nat, NEW y \in Nat
  PROVE  x * y \in Nat
  BY SMTT(30)

LEMMA Squares ==
  ASSUME NEW x \in Int
  PROVE  Sq(x) \in Nat
<1>1. CASE x >= 0
  BY <1>1, Products DEF Sq
<1>2. CASE x < 0
  <2>1. -x \in Nat
    BY <1>2
  <2>2. (-x) * (-x) \in Nat
    BY <2>1, Products
  <2>3. (-x) * (-x) = x * x
    BY SMTT(30)
  <2> QED
    BY <2>2, <2>3 DEF Sq
<1> QED
  BY <1>1, <1>2

\* A weighted mean of two numbers that are at least m is at least m.
LEMMA MeanAbove ==
  ASSUME NEW n \in Nat, NEW k \in Nat, NEW x \in Int, NEW y \in Int, NEW m \in Int,
         m <= x, m <= y
  PROVE  (n + k) * m <= n * x + k * y
<1>1. n * m <= n * x /\ k * m <= k * y
  BY Monotone
<1>2. (n + k) * m = n * m + k * m
  BY SMTT(30)
<1>3. n * m \in Int /\ k * m \in Int /\ n * x \in Int /\ k * y \in Int /\ (n + k) * m \in Int
  OBVIOUS
<1> QED
  BY <1>1, <1>2, <1>3

LEMMA MeanBelow ==
  ASSUME NEW n \in Nat, NEW k \in Nat, NEW x \in Int, NEW y \in Int, NEW m \in Int,
         x <= m, y <= m
  PROVE  n * x + k * y <= (n + k) * m
<1>1. n * x <= n * m /\ k * y <= k * m
  BY Monotone
<1>2. (n + k) * m = n * m + k * m
  BY SMTT(30)
<1>3. n * m \in Int /\ k * m \in Int /\ n * x \in Int /\ k * y \in Int /\ (n + k) * m \in Int
  OBVIOUS
<1> QED
  BY <1>1, <1>2, <1>3

-----------------------------------------------------------------------------

\* Smooth keeps the representation, and the average within its extremes.
LEMMA SmoothSound ==
  ASSUME NEW a \in Averages, NEW v \in Int, NEW n \in Nat, NEW d \in Nat, 0 < n, n < d,
         a.scale # 0, a.low <= a.high
  PROVE  LET b == Smooth(a, v, n, d)
         IN /\ b \in Averages /\ b.scale # 0 /\ b.low <= b.high
            /\ a.low * a.scale <= a.level /\ a.level <= a.high * a.scale
                 => b.low * b.scale <= b.level /\ b.level <= b.high * b.scale
<1> DEFINE b == Smooth(a, v, n, d)
           k == d - n
           error == v * a.scale - a.level
<1>1. /\ a.scale \in Nat /\ a.level \in Int /\ a.spread \in Nat /\ a.points \in Nat
      /\ a.low \in Int /\ a.high \in Int /\ k \in Nat
  BY DEF Averages
<1>2. /\ b.scale = d * a.scale /\ b.level = n * (v * a.scale) + k * a.level
      /\ b.spread = n * Sq(error) + k * (d * a.spread) /\ b.points = a.points
      /\ b.low = (IF v < a.low THEN v ELSE a.low) /\ b.high = (IF v > a.high THEN v ELSE a.high)
      /\ b = [scale |-> b.scale, level |-> b.level, spread |-> b.spread, points |-> b.points,
              low |-> b.low, high |-> b.high]
  BY DEF Smooth
<1>3. b.scale \in Nat /\ b.scale # 0
  <2>1. a.scale >= 1
    BY <1>1
  <2>2. d * 1 <= d * a.scale
    BY <1>1, <2>1, Monotone
  <2> QED
    BY <1>1, <1>2, <2>2, Products
<1>4. v * a.scale \in Int /\ error \in Int /\ b.level \in Int
  BY <1>1, <1>2
<1>5. b.spread \in Nat
  <2>1. Sq(error) \in Nat
    BY <1>4, Squares
  <2>2. n * Sq(error) \in Nat /\ d * a.spread \in Nat
    BY <1>1, <2>1, Products
  <2>3. k * (d * a.spread) \in Nat
    BY <1>1, <2>2, Products
  <2> QED
    BY <1>2, <2>2, <2>3
<1>6. /\ b.low \in Int /\ b.high \in Int /\ b.low <= b.high
      /\ b.low <= v /\ v <= b.high /\ b.low <= a.low /\ a.high <= b.high
  BY <1>1, <1>2
<1>7. b \in Averages
  BY <1>1, <1>2, <1>3, <1>4, <1>5, <1>6 DEF Averages
<1>8. ASSUME a.low * a.scale <= a.level, a.level <= a.high * a.scale
      PROVE  b.low * b.scale <= b.level /\ b.level <= b.high * b.scale
  <2>1. /\ b.low * a.scale <= v * a.scale /\ v * a.scale <= b.high * a.scale
        /\ b.low * a.scale <= a.low * a.scale /\ a.high * a.scale <= b.high * a.scale
    BY <1>1, <1>6, Monotone
  <2>2. /\ b.low * a.scale \in Int /\ b.high * a.scale \in Int
        /\ a.low * a.scale \in Int /\ a.high * a.scale \in Int
    BY <1>1, <1>6
  <2>3. b.low * a.scale <= a.level /\ a.level <= b.high * a.scale
    BY <1>1, <1>8, <2>1, <2>2
  <2>4. /\ (n + k) * (b.low * a.scale) <= n * (v * a.scale) + k * a.level
        /\ n * (v * a.scale) + k * a.level <= (n + k) * (b.high * a.scale)
    BY <1>1, <1>4, <2>1, <2>2, <2>3, MeanAbove, MeanBelow
  <2>5. n + k = d
    BY <1>1
  <2>6. ASSUME NEW x \in Int
        PROVE  (n + k) * (x * a.scale) = x * (d * a.scale)
    BY <1>1, <2>5, SMTT(30)
  <2> HIDE DEF b, k
  <2> QED
    BY <1>2, <1>6, <2>4, <2>6
<1> QED
  BY <1>3, <1>6, <1>7, <1>8

\* What an update makes of the average of one window.
LEMMA UpdateSound ==
  ASSUME AverageType, NEW w \in EwmaWindows, NEW v \in Int
  PROVE  LET b == Update(w, v)
         IN /\ b \in Averages /\ b.scale # 0 /\ b.low <= b.high
            /\ AverageWithinValues => b.low * b.scale <= b.level /\ b.level <= b.high * b.scale
<1> DEFINE a == [average[w] EXCEPT !.points = Kept(@, WindowSize[w])]
<1>1. average[w] \in Averages /\ WindowSize[w] \in Nat
  BY EwmaAssumption DEF AverageType
<1>2. Kept(average[w].points, WindowSize[w]) \in Nat
  BY <1>1 DEF Averages, Kept
<1>3. /\ a \in Averages /\ a.scale = average[w].scale /\ a.level = average[w].level
      /\ a.low = average[w].low /\ a.high = average[w].high
  BY <1>1, <1>2 DEF Averages
<1>4. CASE a.scale = 0
  <2>1. Update(w, v) = InitializeAverage(a, v)
    BY <1>4 DEF Update
  <2> QED
    BY <1>3, <2>1 DEF InitializeAverage, Averages
<1>5. CASE a.scale # 0
  <2>1. Update(w, v) = Smooth(a, v, Num[w], Den[w])
    BY <1>5 DEF Update
  <2>2. Num[w] \in Nat /\ Den[w] \in Nat /\ 0 < Num[w] /\ Num[w] < Den[w]
    BY EwmaAssumption
  <2>3. a.low <= a.high
    BY <1>3, <1>5 DEF AverageType
  <2>4. AverageWithinValues => a.low * a.scale <= a.level /\ a.level <= a.high * a.scale
    BY <1>3, <1>5 DEF AverageWithinValues
  <2> HIDE DEF a
  <2> QED
    BY <1>3, <1>5, <2>1, <2>2, <2>3, <2>4, SmoothSound
<1> QED
  BY <1>4, <1>5

\* The inequality behind the silence of responsive windows.
LEMMA NeverAbove ==
  ASSUME AverageType, NEW w \in EwmaWindows, NEW v \in Int, TooResponsive(w)
  PROVE  ~IsAnomalous(w, v)
<1> DEFINE a == average[w]
           n == Num[w]
           d == Den[w]
           q == Sq(v * a.scale - a.level)
           rest == (d - n) * (d * a.spread)
<1>1. a \in Averages /\ n \in Nat /\ d \in Nat /\ 0 < n /\ n < d
  BY EwmaAssumption DEF AverageType
<1>2. SUFFICES ASSUME a.scale # 0
               PROVE  4 * (Sq(d - n) * q) <= 25 * (d * Update(w, v).spread)
  <2>1. Update(w, v).spread \in Nat
    BY UpdateSound DEF Averages
  <2>2. v * a.scale - a.level \in Int /\ d - n \in Int
    BY <1>1 DEF Averages
  <2>3. q \in Nat /\ Sq(d - n) \in Nat
    BY <2>2, Squares
  <2>4. 4 * (Sq(d - n) * q) \in Int /\ 25 * (d * Update(w, v).spread) \in Int
    BY <1>1, <2>1, <2>3
  <2> QED
    BY <1>2, <2>4 DEF IsAnomalous
<1>3. Update(w, v).spread = n * q + rest
  BY <1>1, <1>2 DEF Update, Smooth, Averages
<1>4. q \in Nat /\ Sq(d - n) \in Nat
  <2>1. v * a.scale - a.level \in Int /\ d - n \in Int
    BY <1>1 DEF Averages
  <2> QED
    BY <2>1, Squares
<1>5. rest \in Nat
  <2>1. d - n \in Nat /\ a.spread \in Nat
    BY <1>1 DEF Averages
  <2>2. d * a.spread \in Nat
    BY <1>1, <2>1, Products
  <2> QED
    BY <2>1, <2>2, Products
<1>6. 4 * Sq(d - n) <= 25 * (d * n)
  BY DEF TooResponsive
<1> HIDE DEF q, rest, a, n, d
<1>7. (4 * Sq(d - n)) * q <= (25 * (d * n)) * q
  <2>1. 4 * Sq(d - n) \in Int /\ 25 * (d * n) \in Int
    BY <1>1, <1>4
  <2> QED
    BY <1>4, <1>6, <2>1, Monotone
<1>8. d * rest \in Nat
  BY <1>1, <1>5, Products
<1>9. 25 * (d * (n * q + rest)) = (25 * (d * n)) * q + 25 * (d * rest)
  BY <1>1, <1>4, <1>5, SMTT(30)
<1>10. 4 * (Sq(d - n) * q) = (4 * Sq(d - n)) * q
  BY <1>4, SMTT(30)
<1>11. (4 * Sq(d - n)) * q \in Int /\ (25 * (d * n)) * q \in Int
  BY <1>1, <1>4
<1> QED
  BY <1>3, <1>7, <1>8, <1>9, <1>10, <1>11

-----------------------------------------------------------------------------

EwmaInv == AverageType /\ AverageWithinValues /\ ShortWindowsNeverFlag

LEMMA InitInv == EwmaInit => EwmaInv
  BY DEF EwmaInit, EwmaInv, AverageType, Averages, EmptyAverage, AverageWithinValues, ShortWindowsNeverFlag

\* A step that starts every average again, or leaves them alone.
LEMMA Restarted ==
  ASSUME EwmaInv,
         average' = [w \in EwmaWindows |-> EmptyAverage] \/ average' = average,
         flagged' = {} \/ flagged' = flagged
  PROVE  EwmaInv'
  BY DEF EwmaInv, AverageType, Averages, EmptyAverage, AverageWithinValues, ShortWindowsNeverFlag, TooResponsive

LEMMA StepInv == EwmaInv /\ [EwmaNext]_ewmaVars => EwmaInv'
<1> SUFFICES ASSUME EwmaInv, [EwmaNext]_ewmaVars
             PROVE  EwmaInv'
  OBVIOUS
<1>1. ASSUME NEW v \in Points, ProcessPoint(v)
      PROVE  EwmaInv'
  <2>1. v \in Int
    BY EwmaAssumption
  <2>2. /\ average' = [w \in EwmaWindows |-> Update(w, v)]
        /\ flagged' = {w \in EwmaWindows : IsAnomalous(w, v)}
    BY <1>1 DEF ProcessPoint
  <2>3. \A w \in EwmaWindows :
          /\ average'[w] \in Averages /\ average'[w].scale # 0
          /\ average'[w].low <= average'[w].high
          /\ average'[w].low * average'[w].scale <= average'[w].level
          /\ average'[w].level <= average'[w].high * average'[w].scale
    BY <2>1, <2>2, UpdateSound DEF EwmaInv
  <2>4. AverageType'
    BY <2>2, <2>3 DEF AverageType
  <2>5. AverageWithinValues'
    BY <2>3 DEF AverageWithinValues
  <2>6. ShortWindowsNeverFlag'
    BY <2>1, <2>2, NeverAbove DEF EwmaInv, ShortWindowsNeverFlag, TooResponsive
  <2> QED
    BY <2>4, <2>5, <2>6 DEF EwmaInv
<1>2. CASE PerformEwmaCleanup \/ ResetManager \/ StopManager \/ StatsExpire
  BY <1>2, Restarted DEF PerformEwmaCleanup, ResetManager, StopManager, StatsExpire
<1>3. ASSUME NEW ok \in BOOLEAN, PersistStats(ok) \/ BeginShutdown(ok) \/ StartManager(ok)
      PROVE  EwmaInv'
  BY <1>3, Restarted DEF PersistStats, BeginShutdown, StartManager
<1>4. CASE UNCHANGED ewmaVars
  BY <1>4, Restarted DEF ewmaVars
<1> QED
  BY <1>1, <1>2, <1>3, <1>4 DEF EwmaNext

\* detectAnomaly: a window with a large alpha never reports an anomaly.
THEOREM ShortWindowsSilent == EwmaSpec => []ShortWindowsNeverFlag
<1>1. EwmaInv => ShortWindowsNeverFlag
  BY DEF EwmaInv
<1> QED
  BY <1>1, InitInv, StepInv, PTL DEF EwmaSpec

\* calculateSimpleEWMA: an average stays within the values it was fed.
THEOREM AveragesStayWithin == EwmaSpec => []AverageWithinValues
<1>1. EwmaInv => AverageWithinValues
  BY DEF EwmaInv
<1> QED
  BY <1>1, InitInv, StepInv, PTL DEF EwmaSpec
=============================================================================
