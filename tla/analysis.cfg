SPECIFICATION Spec
CONSTANTS
  s1 = s1
  s2 = s2
  x1 = x1
  x2 = x2
  v1 = v1
  v2 = v2
  v3 = v3
  Names <- TwoSketches
  Items = {x1, x2}
  Rows = {1, 2}
  Cells = {0, 1}
  Seeds = {s1, s2}
  Hash <- Colliding
  Jobs = {j1}
  Span = 2
  Watched = "request_paths"
  Enabled = {"spike", "rare", "burst", "sustained"}
  Thresholds <- LowThresholds
  SpikeThreshold = 2
  MinSamples = 3
  RareShare = 3
  SuspiciousItems = {x2}
  VarianceN = 1
  VarianceD = 2
  SustainedDuration = 2
  HistorySpan = 3
  MaxObserved = 6
  MaxMinutes = 3
  Ttl = 1
  Unhealthy = TRUE
  MaxInserts <- FewInserts
  MaxTime = 1
  MaxUpdates = 1
  MaxRestarts = 1
  Types = {"ips", "sessions"}
  Windows = {1, 3}
  Visitors = {v1, v2, v3}
  Ages = {0, 2}
  Buckets = {0, 1, 2, 3, 4}
  Bucket <- BucketOf
  Rank <- RankOf
  SparseMode = TRUE
  Oversized = TRUE
  MaxHistory = 2
  Width = 6
  Precision = 2
  m1 = m1
  m2 = m2
  EwmaWindows = {"1min", "5min", "15min"}
  Num <- TenthsOf
  Den <- Tenths
  WindowSize <- Sizes
  Points = {0, 1, 2}
  MaxMemory = 20
  MaxPoints = 4
  MaxStarts = 1
  Metrics = {m1, m2}
  Values <- FewValues
  Averages = {16, 20, 32}
  ByHand <- FewByHand
  DefaultBaselines <- SameDefault
  RateN = 1
  RateD = 2
  DriftTenths = 4
  RollbackTenths = 2
  ValidationPeriod = 0
  MinValidated = 1
  MaxAdaptations = 3
  MaxSaved = 1
  MaxRecords = 3
  MaxClock = 1
  BrowserSessions = {"unknown"}
  Shapes <- TwoShapes
  TooFast = 1
  TooSlow = 3
  Order = 2
  Smoothing = 1
  PruneBelow = 4
  MaxStates = 3
  ChainMemory = 600
  CompressAbove = 5
  GlobalMemory = 3000
  MaxServed = 5
  MaxBoots = 1
  Nil = Nil
CHECK_DEADLOCK FALSE
INVARIANTS NeverUnderestimates SustainedEarned RegistersExact RankReference  ValidatesLatest FlaggedOnlyWhenPruned
