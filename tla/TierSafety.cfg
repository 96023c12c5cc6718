CONSTANTS
  Uris = {u1, u2, u3}
  Large = {u3}
  Size <- MCSize
  TierBytes = 2
  Threads = {t1, t2}
  NoThread = NoThread
  Allowed = {"download", "timeout", "unlink", "operator", "restart", "evict"}
SPECIFICATION Spec
SYMMETRY Symmetry
INVARIANTS WaitersAreOwed NoRedundantDownload BudgetHolds FilesAccounted
