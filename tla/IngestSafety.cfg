CONSTANTS
  u1 = u1
  u2 = u2
  x1 = x1
  x2 = x2
  Ids = {x1, x2}
  Uploads = {u1, u2}
  Kind <- MCKind
  Carries <- MCCarries
  Bad = {}
  Deletable = {x1}
  VectorQuota = 3
  Validators = {v1}
  Builders = {b1, b2}
  None = None
  MaxFaults = 1
SPECIFICATION FairSpec
INVARIANTS CompletedIsIndexed NoUploadLost ShardMatchesManifest LandedIsCharged
PROPERTIES ImportsEnd StatusSettles
CHECK_DEADLOCK FALSE
