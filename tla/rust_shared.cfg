SPECIFICATION Spec
CONSTANTS
  Threads = {t1}
  Keys = {k1, k2, k3}
  Nil = Nil
  MaxSize = 2
  Ttls = {Nil, 1}
  Policies = {"LRU", "LFU", "TTL", "Random"}
  EnableStats = TRUE
  MaxTime = 2
  MaxOps = 4
  Jobs = {j1, j2, j3}
  MaxWorkers = 3
  InitialWorkers = 2
  Capacity = 1
  Panics = {j1}
  p1 = p1
  p2 = p2
  x1 = x1
  x2 = x2
  Patterns = {p1, p2}
  Texts = {x1, x2}
  Matches <- FewMatches
  Matchers = {m1, m2}
  CacheSize = 1
  MaxChanges = 4
  Escape = 255
  OtherBytes = {1, 4}
  MaxRun = 5
  BlockSize = 6
  MaxInput = 8
CHECK_DEADLOCK FALSE
INVARIANTS RoundTrips NewestCached
PROPERTIES  AcceptedJobsRun 
