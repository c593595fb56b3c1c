SPECIFICATION Spec
CONSTANTS
  RouteIds = {r1}
  KeyIds = {k1}
  RouteVals = {v1}
  ConfigVals = {c1}
  MaxSecret = 2
  SaveOutcomes = {TRUE}
  None = None
  Admins = {a1}
  Reloaders = {}
  Stampers = {}
  Threads <- MCThreads
  MaxRestarts = 0
INVARIANT HotUpdate
