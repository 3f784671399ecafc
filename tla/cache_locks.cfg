SPECIFICATION CacheSpec
CONSTANTS
  Threads = {t1, t2}
  Keys = {k1}
  Nil = Nil
  MaxSize = 2
  Ttls = {Nil, 1}
  Policies = {"LRU", "LFU", "TTL", "Random"}
  EnableStats = TRUE
  MaxTime = 1
  MaxOps = 3
CHECK_DEADLOCK FALSE
PROPERTY CallsReturn
