SPECIFICATION MCSpec
CONSTANTS
  Calls = {r1}
  Sessions = {r1}
  Nil = Nil
  Scores = {85}
  EscalateAt = 1
  Recent = 1
  HistoryCap = 2
  RateRequests <- OneRequest
  RateWindow = 1
  BlockDuration <- ShortBlocks
  MaxTime = 0
  MaxResponses = 3
  Contexts = {"high"}
  Actions = {0, 4}
  Prior <- FlatPrior
  OperatorSignals <- TwoFeedbacks
  MinSamples = 1
  Decisions = {d1}
  Development = TRUE
  WritesFail = TRUE
  Torn = Torn
  MaxUpdates = 0
  MaxRestarts = 1
  Ids = {p1}
  Books <- TwoBooks
  Executions = {e1}
  MaxTriggers = 0
CHECK_DEADLOCK FALSE
INVARIANT RefusedNotHandled
