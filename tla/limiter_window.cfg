SPECIFICATION Spec
SYMMETRY Symmetry
CONSTRAINT SomeSerial
VIEW WindowView
CONSTANTS
  Requests = {r1, r2, r3}
  Ids = {a, b}
  Nil = Nil
  Algorithm = "sliding_window"
  BaseLimit = 1
  Limits = {1}
  Window = 1
  RateNum = 1
  RateDen = 1
  Second = 1
  RedisTtl = 2
  CacheSize = 1
  EvictCount = 1
  MaxTime = 3
INVARIANT SequentialWindowLimit
