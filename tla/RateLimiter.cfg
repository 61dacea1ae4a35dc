SPECIFICATION Spec
CONSTANTS
  Hit = {h1, h2, h3}
  Windows = {3, 4}
  Limit <- Limits
  NaN = NaN
  Second = 2
  Retention = 3
  GcPeriod = 2
  MaxDelay = 1
  MaxTime = 5
  EnableCache = TRUE
  RedisMayFail = TRUE
INVARIANTS TypeOK RedisWindow MemoryWindow RefusalExplained MemoryForgets RedisForgets
SYMMETRY Symmetry
CHECK_DEADLOCK FALSE
