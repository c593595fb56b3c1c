SPECIFICATION Spec
CONSTANTS
  Profiles = {p1}
  EntryIds = {e1}
  Hostnames = {h1}
  Workers = {w1}
  KeepBackups = 2
  MaxTime = 0
  MaxRestarts = 0
  SaveOutcomes = {TRUE, FALSE}
  WriteOutcomes = {"ok", "failed", "cut"}
  None = None
PROPERTY UntouchedOnFailure
CHECK_DEADLOCK FALSE
