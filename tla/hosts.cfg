SPECIFICATION Spec
CONSTANTS
  Profiles = {p1, p2}
  EntryIds = {e1}
  Hostnames = {h1}
  Workers = {w1, w2}
  KeepBackups = 2
  MaxTime = 1
  MaxRestarts = 1
  SaveOutcomes = {TRUE, FALSE}
  WriteOutcomes = {"ok", "failed", "cut"}
  None = None
SYMMETRY Symmetric
CONSTRAINT Bounded
INVARIANTS OneActive InSync OriginalBackedUp
PROPERTY EntryStaysDeleted
CHECK_DEADLOCK FALSE
