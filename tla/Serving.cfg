SPECIFICATION FairSpec
CONSTANTS
  Threads = {t1, t2}
  NoThread = NoThread
  Jobs = {j1}
  Runners = {r1, r2}
  Consumers = {c1, c2}
  MaxAttempts = 2
  MaxFailures = 2
INVARIANTS AnswersAreWhole DownloadsAreShared
PROPERTY JobSettles
CHECK_DEADLOCK FALSE
