SPECIFICATION FairSpec
CONSTANTS
  w1 = w1
  w2 = w2
  single = single
  pooled = pooled
  u1 = u1
  u2 = u2
  u3 = u3
  h1 = h1
  h2 = h2
  Workers <- MCWorkers
  Routes <- MCRoutes
  Pool <- MCPool
  HostOf <- MCHostOf
  RetryOf <- MCRetryOf
  Limits <- MCLimits
  MaxTime = 1
  Threshold = 2
  Window = 0
  NoBreaker = NoBreaker
  NoLimiter = NoLimiter
  NoReq = NoReq
INVARIANTS TypeOK SentOnce BurstRespected BreakerTripped
PROPERTIES Answered
