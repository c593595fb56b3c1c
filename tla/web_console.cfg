SPECIFICATION WebSpec
CONSTANTS
  Rows = {r1, r2, r3}
  InitialRows = {r1, r2}
  MaxActs = 2
  MaxOpens = 3
  MaxWaiting = 1
  MaxInputs = 3
  None = None
  Pages = {"routes", "users", "groups", "certificates", "rules", "auth", "logs", "hosts", "route form", "user form", "group form", "rule form", "certificate form"}
  Tabs = {t1, t2}
  Users = {u1, u2}
  MaxLogins = 2
  MaxCalls = 1
  Null = Null
INVARIANTS StoredUserOwnsToken ViewCatchesUp SettledShowsServer OneRequestPerRow DialogShowsItsRoute ResultsAreOfView PurgesAsPreviewed DraftIsCommitted OneActiveShown PathsOfAssigned
PROPERTIES Late401Ignored TabsDecide NewestShown EditsKept NothingHangs SavedAsShown
CHECK_DEADLOCK FALSE
