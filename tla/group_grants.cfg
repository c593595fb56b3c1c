SPECIFICATION AdminSpec
CONSTANTS
  None = None
  u1 = u1
  u2 = u2
  g1 = g1
  r1 = r1
  n1 = n1
  n2 = n2
  p1 = p1
  p2 = p2
  h1 = h1
  h2 = h2
  b1 = b1
  d1 = d1
  host1 = host1
  host2 = host2
  header1 = header1
  UserIds = {u1, u2}
  GroupIds = {g1}
  RouteIds = {r1}
  Paths = {p1, p2}
  Names = {n1, n2}
  Handlers = {h1, h2}
  MaxRequests = 5
  Browsers = {b1}
  NewUsers <- MCNewUsers
  UserEdits <- MCUserEdits
  NewGroups <- MCNewGroups
  GroupEdits <- MCGroupEdits
  NoRow = NoRow
  CertIds = {u1, u2}
  Bases = {d1}
  Editors = {h1, h2}
  Renewer = renewer
  MaxLeaves = 4
  MaxRestarts = 1
  SaveOutcomes = {TRUE, FALSE}
  FileOutcomes = {TRUE, FALSE}
  Ids = {1, 2, 3}
  Patterns <- MCSegments
  Length <- MCLength
  Regexes <- MCRegexes
  Hosts = {host1, host2}
  Headers = {header1}
  AnyHost = AnyHost
  NoHeader = NoHeader
  Stores <- MCStores
  Requests <- MCRequests
  NoRoute = NoRoute
CONSTRAINT Bounded
CHECK_DEADLOCK FALSE
INVARIANT GroupsGrant
