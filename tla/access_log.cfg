SPECIFICATION MCSpec
CONSTANTS
  q1 = q1
  q2 = q2
  q3 = q3
  Requests <- MCRequests
  Filters <- MCFilters
  Capacity = 2
  Admins = {a1}
  Cleaner = cleaner
  Retentions = {0, 1}
  MaxTime = 3
  MaxRestarts = 1
  SaveOutcomes = {TRUE, FALSE}
INVARIANTS PurgedStayGone StoppedIsSaved PreviewNotExceeded
PROPERTIES NobodyStarves ImplementsRetainedLog
