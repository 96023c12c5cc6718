CONSTANTS
  Ids = {i1, i2}
  Builders = {b1, b2}
  Readers = {}
  NoBuilder = NoBuilder
  RecallMaxRows = 1
  MaxBatch = 2
  MaxLsn = 3
  MaxQueue = 1
  MaxFaults = 1
SPECIFICATION FairSpec
INVARIANTS NoWriteLost
PROPERTIES WatermarkNeverRegresses DrainsWhenIdle
CHECK_DEADLOCK FALSE
