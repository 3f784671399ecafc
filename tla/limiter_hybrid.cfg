SPECIFICATION Spec
SYMMETRY Symmetry
CONSTANTS
  Requests = {r1, r2}
  Ids = {a}
  Nil = Nil
  Algorithm = "adaptive_hybrid"
  BaseLimit = 1
  Limits = {1}
  Window = 1
  RateNum = 1
  RateDen = 1
  Second = 1
  RedisTtl = 2
  CacheSize = 1
  EvictCount = 1
  MaxTime = 2
INVARIANT SequentialWindowLimit
