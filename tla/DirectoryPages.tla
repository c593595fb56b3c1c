---------------------------- MODULE DirectoryPages ----------------------------
(* The pages of the console that are made alike (RoutesPage, UsersPage,      *)
(* GroupsPage, CertificatesPage and AuthRulesPage) together, and what they   *)
(* all promise.                                                              *)
EXTENDS RoutesPage, UsersPage, GroupsPage, CertificatesPage, AuthRulesPage

DirectoryServer ==
  [rows |-> [r \in InitialRows |-> Original], taken |-> FALSE]

DirectoryMounted(name, can) ==
  CASE name = "routes"       -> RoutesMounted(can)
    [] name = "users"        -> UsersMounted(can)
    [] name = "groups"       -> GroupsMounted(can)
    [] name = "certificates" -> CertificatesMounted(can)
    [] name = "rules"        -> RulesMounted(can)

DirectoryClick ==
  RoutesClick \/ UsersClick \/ GroupsClick \/ CertificatesClick \/ RulesClick

DirectoryAnswered(c) ==
  \/ RoutesAnswered(c)
  \/ UsersAnswered(c)
  \/ GroupsAnswered(c)
  \/ CertificatesAnswered(c)
  \/ RulesAnswered(c)

-----------------------------------------------------------------------------
(* Properties.                                                               *)

Names == {"routes", "users", "groups", "certificates", "rules"}
(* Once everything it asked for is answered, a page whose list did not fail  *)
(* shows what the server holds, in whatever order the refreshes after its    *)
(* changes came back (the generations of fetchRoutes and fetchData).         *)
(* GroupsPage, which has none, is left out: it does not keep this.           *)
SettledShowsServer ==
  /\ page.name \in Names \ {"groups"} /\ page.gen > 0
  /\ calls = {} /\ page.available /\ "lost" \notin faults
  => page.rows = Snapshot

(* A certificate is signed again, and a row of the routes, the users and the *)
(* certificates is deleted, by one request at a time: none is sent before    *)
(* the one sent last for the row has failed or the refresh after it is done, *)
(* however fast the clicks come (DataTable.tsx handleDelete,                 *)
(* CertificatesPage.tsx handleResign). For deletions this needs the table to *)
(* stay mounted while one it knows of is under way, so it is not said once a *)
(* list has failed, nor of GroupsPage, where an empty list takes the table   *)
(* away and an older one, answered after it, brings it back. AuthRulesPage   *)
(* has no such mark, and refuses no second deletion.                         *)
Of(kind, c) == kind \in {c.kind, c.after}
Acting(kind, r) == {c \in calls : Of(kind, c) /\ c.row = r}
OneRequestPerRow ==
  page.name \in Names => \A r \in Rows :
    /\ Cardinality(Acting("resign", r)) <= 1
    /\ page.name \notin {"groups", "rules"} /\ "list" \notin faults
       => Cardinality(Acting("delete", r)) <= 1
=============================================================================
