CONSTANTS
  Ids = {1, 2}
  Readers = {r1}
  DefaultLimit = 1
  MaxLimit = 1
  Limits = {0, 3}
  MaxTopK = 1
  TopKs = {0, 1, 2}
  Nears = {"low"}
  RecallMaxRows = 1
  MaxBatch = 2
  MaxLsn = 3
  MaxFaults = 1
SPECIFICATION Spec
INVARIANTS GetReadsTruth WalkIsExact MatchesAreLive
