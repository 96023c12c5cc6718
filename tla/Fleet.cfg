CONSTANTS
  Procs = {p1, p2}
  Named = {}
  Job = job
  NoProc = NoProc
  Versions = {1, 2}
  LegacyDepths = {0, 1}
  Uris = {u1}
  MaxStarts = 3
  MaxFaults = 2
SPECIFICATION FairSpec
INVARIANTS SchemaOnce
PROPERTIES WarmIsListed
CHECK_DEADLOCK FALSE
