SPECIFICATION Spec
CONSTANTS
  Profiles = {p1}
  EntryIds = {e1, e2}
  Hostnames = {h1}
  Workers = {w1, w2}
  KeepBackups = 2
  MaxTime = 0
  MaxRestarts = 0
  SaveOutcomes = {TRUE}
  WriteOutcomes = {"ok"}
  None = None
SYMMETRY Symmetric
INVARIANT UniqueHostnames
CHECK_DEADLOCK FALSE
