SPECIFICATION MCSpec
CONSTANTS
  Nil = Nil
  a1 = a1
  a2 = a2
  a3 = a3
  Calls = {c1, c2}
  Sessions = {s1, s2}
  Scores = {70, 85}
  EscalateAt = 1
  Recent = 1
  HistoryCap = 2
  RateRequests <- OneRequest
  RateWindow = 1
  BlockDuration <- ShortBlocks
  MaxTime = 2
  MaxResponses = 3
  Visits = {c1, c2}
  Addresses = {a1, a2, a3}
  PlaceOf <- SamePlace
  HighRiskPlaces = {"x"}
  PrivateAddresses = {a2}
  Gone = a3
  Agents = {"browser"}
  BotAgents = {"bot"}
  MouseMoves = {1, 2}
  StatisticalScores = {0, 600}
  Hours = {"business", "weekend night"}
  DenseAbove = 1
  DensityStep = 60
  ContextCap = 1
  Analyses = {c1, c2}
  TrafficWindows <- TwoWindows
  DefaultRate = 1
  SavedRates = {Nil}
  Unit = 1000
  MaxInstant = 2
  MaxFailures = 1
  Checks = {c1, c2}
  Identifiers = {s1, s2}
  Endpoints = {"e"}
  ThreatLevels = {"low"}
  Retention = 1
  ViolationCap = 2
  TopCap = 1
  ManyViolations = 1
  MaxHour = 1
  MaxLost = 1
  Points = {c1, c2}
  Trainings = {t1, t2, t3}
  MinDataPoints = 2
  RetrainInterval = 1
  DataCap = 1
  MaxMinute = 1
  MaxStops = 1
  MaxDropped = 1
  Traps = {a1, a2}
  Configured = {a1}
  Touches = {c1, c2}
  Details = {3}
  EventCap = 1
  MaxEdits = 2
  MaxRestartsOfService = 1
  MaxMissed = 1
  MaxSignals = 2
  MaxClients = 1
  MaxOutages = 1
  MaxFeedback = 1
  Users = {u1, u2}
  Admin = u1
  Requests = {c1, c2}
  MaxTokens = 2
  MaxLoads = 1
  MaxRevocations = 1
  NoOne = Nil
  Arrivals = {c1, c2}
  Forms <- FourForms
  CacheTTL = 1
  Week = 1
  Quarter = 1
  ManySessions = 0
  MaxMoment = 1
  MaxFaults = 1
SYMMETRY Symmetry
CHECK_DEADLOCK FALSE
INVARIANTS  LevelFollowsBehaviour  NeverOvercounts OneTraining NewestEventsKept  OwnerShown  TrustEarned
PROPERTY AnnouncedBlocksHold
