------------------------------- MODULE Accounts -------------------------------
(***************************************************************************)
(* The accounts of the gateway and their permission groups: the users and   *)
(* groups of JSONStore (internal/store/json.go), internal/service/users,    *)
(* internal/service/groups and the first-run setup of                        *)
(* internal/http/admin/routes.go. A service reads the store in one call and  *)
(* writes it in a later one; each call is atomic, the handler is not.        *)
(* Passwords, timestamps and the file behind the store are left out: whoever *)
(* logs in knows the password.                                               *)
(***************************************************************************)
EXTENDS Naturals, FiniteSets, TLC

CONSTANTS
  UserIds, GroupIds,  \* uuids of users and of groups, none given twice
  RouteIds,           \* ids of routes, as ConfigStore has them
  Paths,              \* patterns of request paths
  Names,              \* of users and groups
  NewUsers,           \* accounts a request may ask to create
  UserEdits,          \* partial updates: records of the fields that are sent
  NewGroups, GroupEdits,
  Handlers,           \* admin requests that may be under way at once
  MaxRequests,        \* bound on the changes asked for in a behaviour
  None

Roles == {"admin", "member"}

(* A member stands for all who are no administrator.                         *)
Account == [name: Names, role: Roles, enabled: BOOLEAN, routes: SUBSET RouteIds,
            groups: SUBSET GroupIds, paths: [RouteIds -> SUBSET Paths]]
Group == [name: Names, routes: SUBSET RouteIds, paths: [RouteIds -> SUBSET Paths]]

(* What was not sent keeps its value.                                        *)
Sent(edit, row) == edit @@ row

ASSUME AccountsAssumption ==
  /\ NewUsers \subseteq Account /\ NewGroups \subseteq Group
  /\ \A edit \in UserEdits, row \in Account : Sent(edit, row) \in Account
  /\ \A edit \in GroupEdits, row \in Group : Sent(edit, row) \in Group
  /\ None \notin Account \cup Group
  /\ MaxRequests \in Nat

VARIABLES
  users,    \* JSONStore.data.Users
  groups,   \* JSONStore.data.PermissionGroups
  routes,   \* the ids of JSONStore.data.Routes
  jobs,     \* what each handler read and is about to store
  gone,     \* ids of users deleted so far
  asked     \* changes asked for so far

accounts == <<users, groups, routes, jobs, gone, asked>>

(* No list of paths and an empty one are the same: every path is allowed.   *)
NoPaths == [r \in RouteIds |-> {}]

Idle == [pc |-> "idle"]

Stored(table) == {id \in DOMAIN table : table[id] # None}

(* AuthMiddleware and RequireRole: the role is the one stored now.          *)
Admin(u) == users[u] # None /\ users[u].enabled /\ users[u].role = "admin"
SignedIn == \E u \in UserIds : Admin(u)

Asked == asked < MaxRequests /\ asked' = asked + 1

(* A variant of NameFree: only a new row is looked at.                       *)
NewNameFree(table, id, name) ==
  table[id] # None \/ \A other \in Stored(table) : table[other].name # name

(* The store refuses a name another row has.                                *)
NameFree(table, id, name) ==
  \A other \in Stored(table) \ {id} : table[other].name # name

(* The bound on accounts: no request asks for one when no id is left.        *)
Unused == UserIds \ (Stored(users) \cup gone)
Inserting(job) == job.pc = "insert" \/ (job.pc = "routes" /\ job.then = "insert")
IdLeft == Cardinality(Unused) > Cardinality({h \in Handlers : Inserting(jobs[h])})

-----------------------------------------------------------------------------
(* internal/service/users. The routes of an account are looked up if routes  *)
(* or a role were sent, before it is stored.                                 *)

Does(h, job) == jobs' = [jobs EXCEPT ![h] = job]
Ends(h) == Does(h, Idle)

AskCreateUser(h) ==
  /\ SignedIn /\ Asked /\ jobs[h] = Idle /\ IdLeft
  /\ \E new \in NewUsers : Does(h, [pc |-> "routes", then |-> "insert", row |-> new])
  /\ UNCHANGED <<users, groups, routes, gone>>

AskUpdateUser(h) ==
  /\ SignedIn /\ Asked /\ jobs[h] = Idle
  /\ \E u \in Stored(users), edit \in UserEdits :
       Does(h, [pc |-> IF {"role", "routes"} \cap DOMAIN edit = {} THEN "update"
                                                                   ELSE "routes",
                then |-> "update", id |-> u, row |-> Sent(edit, users[u])])
  /\ UNCHANGED <<users, groups, routes, gone>>

(* A route that is not stored, or no longer, refuses the account.            *)
ValidateRouteAccess(h) ==
  /\ jobs[h].pc = "routes"
  /\ IF jobs[h].row.routes \subseteq routes
     THEN Does(h, [jobs[h] EXCEPT !.pc = jobs[h].then])
     ELSE Ends(h)
  /\ UNCHANGED <<users, groups, routes, gone, asked>>

CreateUser(h) ==
  /\ jobs[h].pc = "insert"
  /\ \E u \in Unused :
       users' = IF NameFree(users, u, jobs[h].row.name)
                THEN [users EXCEPT ![u] = jobs[h].row] ELSE users
  /\ Ends(h)
  /\ UNCHANGED <<groups, routes, gone, asked>>

AnyId(u) == TRUE  \* a variant of Found: the store does not look the id up

(* An account deleted since it was read is not found.                        *)
Found(u) == users[u] # None

UpdateUser(h) ==
  /\ jobs[h].pc = "update"
  /\ LET u == jobs[h].id IN
     users' = IF Found(u) /\ NameFree(users, u, jobs[h].row.name)
              THEN [users EXCEPT ![u] = jobs[h].row] ELSE users
  /\ Ends(h)
  /\ UNCHANGED <<groups, routes, gone, asked>>

AskDeleteUser(h) ==
  /\ SignedIn /\ Asked /\ jobs[h] = Idle
  /\ \E u \in Stored(users) : Does(h, [pc |-> "delete", id |-> u])
  /\ UNCHANGED <<users, groups, routes, gone>>

DeleteUser(h) ==
  /\ jobs[h].pc = "delete"
  /\ users' = [users EXCEPT ![jobs[h].id] = None]
  /\ gone' = gone \cup {jobs[h].id}
  /\ Ends(h)
  /\ UNCHANGED <<groups, routes, asked>>

-----------------------------------------------------------------------------
(* POST /setup: whoever asks while no administrator is stored, enabled or    *)
(* not, creates one.                                                         *)

FirstAdmin(name) ==
  [name |-> name, role |-> "admin", enabled |-> TRUE, routes |-> {}, groups |-> {},
   paths |-> NoPaths]

Setup(h) ==
  /\ Asked /\ jobs[h] = Idle /\ IdLeft
  /\ \A u \in Stored(users) : users[u].role # "admin"
  /\ \E new \in NewUsers : Does(h, [pc |-> "insert", row |-> FirstAdmin(new.name)])
  /\ UNCHANGED <<users, groups, routes, gone>>

-----------------------------------------------------------------------------
(* internal/service/groups. Nothing looks the routes of a group up.          *)

CreateGroup ==
  /\ SignedIn /\ Asked
  /\ \E g \in GroupIds \ Stored(groups), new \in NewGroups :
       /\ NameFree(groups, g, new.name)
       /\ groups' = [groups EXCEPT ![g] = new]
  /\ UNCHANGED <<users, routes, jobs, gone>>

AskUpdateGroup(h) ==
  /\ SignedIn /\ Asked /\ jobs[h] = Idle
  /\ \E g \in Stored(groups), edit \in GroupEdits :
       Does(h, [pc |-> "update group", id |-> g, row |-> Sent(edit, groups[g])])
  /\ UNCHANGED <<users, groups, routes, gone>>

UpdateGroup(h) ==
  /\ jobs[h].pc = "update group"
  /\ LET g == jobs[h].id IN
     groups' = IF groups[g] # None /\ NameFree(groups, g, jobs[h].row.name)
               THEN [groups EXCEPT ![g] = jobs[h].row] ELSE groups
  /\ Ends(h)
  /\ UNCHANGED <<users, routes, gone, asked>>

(* The group goes, and the references the accounts have to it. Its Get finds *)
(* what DeletePermissionGroup looks up again under the lock.                 *)
DeleteGroup(g) ==
  /\ SignedIn /\ Asked /\ groups[g] # None
  /\ groups' = [groups EXCEPT ![g] = None]
  /\ users' = [u \in UserIds |-> IF users[u] = None THEN None
                                 ELSE [users[u] EXCEPT !.groups = @ \ {g}]]
  /\ UNCHANGED <<routes, jobs, gone>>

(* DeleteRoute leaves the assignments of users and groups as they are.       *)
DeleteRoute(r) ==
  /\ SignedIn /\ Asked /\ r \in routes
  /\ routes' = routes \ {r}
  /\ UNCHANGED <<users, groups, jobs, gone>>

-----------------------------------------------------------------------------
Job ==
  {Idle} \cup [pc: {"insert"}, row: Account]
    \cup [pc: {"routes", "insert"}, then: {"insert"}, row: Account]
    \cup [pc: {"routes", "update"}, then: {"update"}, id: UserIds, row: Account]
    \cup [pc: {"delete"}, id: UserIds]
    \cup [pc: {"update group"}, id: GroupIds, row: Group]

AccountsInit ==
  /\ users = [u \in UserIds |-> None]
  /\ groups = [g \in GroupIds |-> None]
  /\ routes = RouteIds
  /\ jobs = [h \in Handlers |-> Idle]
  /\ gone = {}
  /\ asked = 0

AccountsStep ==
  \/ \E h \in Handlers :
       \/ AskCreateUser(h) \/ CreateUser(h) \/ AskUpdateUser(h) \/ UpdateUser(h)
       \/ ValidateRouteAccess(h) \/ AskDeleteUser(h) \/ DeleteUser(h)
       \/ Setup(h) \/ AskUpdateGroup(h) \/ UpdateGroup(h)
  \/ CreateGroup
  \/ \E g \in GroupIds : DeleteGroup(g)
  \/ \E r \in RouteIds : DeleteRoute(r)

(* Two accounts never share a name, however requests overlap: the login      *)
(* looks an account up by its name (service/users/service_test.go:157).      *)
UniqueUsernames ==
  \A u, v \in Stored(users) : u # v => users[u].name # users[v].name
=============================================================================
