CONSTANTS
  Msgs = {m1}
  Workers = {w1, w2}
  Reapers = {p1, p2}
  None = None
  MaxAttempts = 2
  TopicReclaimed = TRUE
  MaxCrashes = 2
  MaxAged = 1
SPECIFICATION FairSpec
INVARIANTS OneCopy NoSilentLoss PoisonIsBounded
PROPERTIES QueueDrains
CHECK_DEADLOCK FALSE
