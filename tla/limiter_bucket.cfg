SPECIFICATION Spec
SYMMETRY Symmetry
CONSTRAINT SomeSerial
VIEW BucketView
CONSTANTS
  Requests = {r1, r2, r3}
  Ids = {a, b}
  Nil = Nil
  Algorithm = "token_bucket"
  BaseLimit = 1
  Limits = {1}
  Window = 2
  RateNum = 1
  RateDen = 2
  Second = 3
  RedisTtl = 4
  CacheSize = 1
  EvictCount = 1
  MaxTime = 3
INVARIANTS BucketConservation SequentialBurstLimit RetryAfterHonoured
