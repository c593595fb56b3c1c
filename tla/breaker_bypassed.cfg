SPECIFICATION Spec
CONSTANTS
  w1 = w1
  w2 = w2
  single = single
  pooled = pooled
  u1 = u1
  u2 = u2
  u3 = u3
  h1 = h1
  h2 = h2
  Workers <- MCOneWorker
  Routes <- MCOneRoute
  Pool <- MCOnePool
  HostOf <- MCOneHostOf
  RetryOf <- MCOneRetry
  Limits <- MCOneLimit
  MaxTime = 1
  Threshold = 2
  Window = 0
  NoBreaker = NoBreaker
  NoLimiter = NoLimiter
  NoReq = NoReq
PROPERTIES ChoosesHealthy
