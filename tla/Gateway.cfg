CONSTANTS
  Workers = {w1}
  Slots = {s1, s2}
  AuthTtl = 1
  PoolTtl = 1
  Burst = 1
  Rate = 1
  DailyQuota = 1
  Retries = 1
  MaxTime = 2
  MaxDay = 1
SPECIFICATION Spec
SYMMETRY SlotSymmetry
INVARIANTS CachesExpire DailyQuotaHolds ForwardedAtMostOnce
CHECK_DEADLOCK FALSE
