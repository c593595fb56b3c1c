SPECIFICATION Spec
CONSTANTS
  RouteIds = {r1, r2}
  KeyIds = {k1}
  RouteVals = {v1}
  ConfigVals = {c1}
  MaxSecret = 2
  SaveOutcomes = {TRUE, FALSE}
  None = None
  Admins = {a1}
  Reloaders = {d1}
  Stampers = {u1}
  Threads <- MCThreads
  MaxRestarts = 1
SYMMETRY Symmetric
CONSTRAINT Bounded
INVARIANTS CleanReloadServesStore NoOrphans
PROPERTY DeletedStaysDeleted
