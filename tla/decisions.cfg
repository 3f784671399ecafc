SPECIFICATION MCSpec
CONSTANTS
  Calls = {r1, r2}
  Sessions = {r1, r2}
  Nil = Nil
  Scores = {50, 90}
  EscalateAt = 1
  Recent = 1
  HistoryCap = 2
  RateRequests <- OneRequest
  RateWindow = 1
  BlockDuration <- ShortBlocks
  MaxTime = 1
  MaxResponses = 3
  Contexts = {"high"}
  Actions = {0, 4}
  Prior <- FlatPrior
  MinSamples = 1
  OperatorSignals <- TwoFeedbacks
  Decisions = {d1}
  Development = TRUE
  WritesFail = TRUE
  Torn = Torn
  MaxUpdates = 4
  MaxRestarts = 1
  Ids = {p1}
  Books <- TwoBooks
  Executions = {e1}
  MaxTriggers = 2
CHECK_DEADLOCK FALSE
INVARIANTS EvidenceAccounted CleanMeansSaved EffectsWithinRetries
PROPERTIES EveryRequestAnswered ExecutionsEnd
