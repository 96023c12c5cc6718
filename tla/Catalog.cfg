SPECIFICATION Spec
CONSTANTS
  Readers = {r1}
  Ttl = 2
  MaxLsn = 2
  MaxShards = 3
  MaxLives = 2
  MaxTime = 2
  MaxFaults = 1
INVARIANTS StaleRowsExpire InvalidationSticks GapNeedsTwoFolds
CHECK_DEADLOCK FALSE
