CONSTANTS
  Ids = {i1, i2}
  Deletable = {i1, i2}
  Readers = {}
  MaxDeltas = 2
  MaxLsn = 5
  MaxShards = 9
  MaxFaults = 0
SPECIFICATION Spec
SYMMETRY IdSymmetry
INVARIANTS ReUpsertKeepsNewestCopy
CHECK_DEADLOCK FALSE
