CONSTANTS
  Ids = {i1, i2}
  Deletable = {i1, i2}
  Readers = {r1}
  MaxDeltas = 2
  MaxLsn = 4
  MaxShards = 9
  MaxFaults = 1
SPECIFICATION Spec
SYMMETRY IdSymmetry
INVARIANTS GenerationsHoldTruth RetainedReadable NeverStale TimelyAnswers
PROPERTIES FrontierNeverRegresses
CHECK_DEADLOCK FALSE
