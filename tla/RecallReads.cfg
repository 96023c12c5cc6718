CONSTANTS
  Ids = {i1, i2}
  Builders = {b1}
  Readers = {r1}
  NoBuilder = NoBuilder
  RecallMaxRows = 1
  MaxBatch = 2
  MaxLsn = 3
  MaxQueue = 1
  MaxFaults = 0
SPECIFICATION Spec
SYMMETRY IdSymmetry
INVARIANTS FoldInv TimelyAnswers SweptOnlyWhenTwiceSuperseded
PROPERTIES RefinesVectorStore
