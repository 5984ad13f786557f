SPECIFICATION Spec
CONSTANTS
  u1 = u1
  u2 = u2
  t1 = t1
  t2 = t2
  t3 = t3
  k1 = k1
  k2 = k2
  k3 = k3
  Users <- MCUsers
  Threads <- MCThreads
  Tokens <- MCTokens
  None = None
  MaxActivePerUser = 2
  MaxActiveProcess = 2
  RateLimit = 2
  Window = 3
  HistoryTTL = 3
  SecondTicks = 2
  MaxTime = 4
SYMMETRY Interchangeable
INVARIANTS LeaseAccounting RateWindow RetryAfterSuffices
PROPERTIES IsLeasePool
CHECK_DEADLOCK FALSE
