----------------------------- MODULE RouteAccess ------------------------------
(***************************************************************************)
(* Signing in to a route: LoginForRoute of internal/service/session, called *)
(* by POST /api/access/login, and what the proxy admits with the cookie it   *)
(* set (internal/proxy/access.go and proxy.go), among the changes of         *)
(* Accounts. The routing table is taken as loaded (RouterManager has the     *)
(* delay). A login reads the account once and its groups up to three times.  *)
(***************************************************************************)
EXTENDS Accounts

CONSTANTS Browsers

VARIABLES
  logins,   \* the login request of each browser
  cookies   \* its auth_gate_route_token

vars == <<accounts, logins, cookies>>

-----------------------------------------------------------------------------
(* What a token is given. A group deleted since is passed over.              *)

GroupsOf(account, table) == {table[g] : g \in account.groups} \ {None}

HasRoute(account, r) == account.role = "admin" \/ r \in account.routes

EffectiveRouteIDs(account, table) ==
  IF account.role = "admin" THEN account.routes
  ELSE account.routes \cup UNION {g.routes : g \in GroupsOf(account, table)}

(* A variant of EffectivePaths: paths of its own hide those of the groups.   *)
OwnPathsFirst(account, table) ==
  [r \in RouteIds |->
     IF account.role = "admin" THEN {}
     ELSE IF account.paths[r] # {} THEN account.paths[r]
     ELSE UNION {g.paths[r] : g \in GroupsOf(account, table)}]

EffectivePaths(account, table) ==
  [r \in RouteIds |->
     IF account.role = "admin" THEN {}
     ELSE account.paths[r] \cup UNION {g.paths[r] : g \in GroupsOf(account, table)}]

(* What the console says they are, "the union of all groups and personal      *)
(* paths" (web/src/lib/i18n/resources/users.ts:83), with what the store holds. *)
UnionOfPaths(account, table) ==
  [r \in RouteIds |->
     {p \in Paths :
        /\ account.role # "admin"
        /\ \/ p \in account.paths[r]
           \/ \E g \in Stored(table) : g \in account.groups /\ p \in table[g].paths[r]}]

-----------------------------------------------------------------------------
(* LoginForRoute. Of each login, seen and changes record what the paths of   *)
(* its account were while it ran, and how often the accounts changed (two    *)
(* stands for more).                                                         *)

LoggingIn(b) == logins[b] # Idle
LoginDoes(b, login) == logins' = [logins EXCEPT ![b] = login]

AccessLogin(b, r, u) ==
  /\ ~LoggingIn(b)
  /\ r \in routes
  /\ users[u] # None /\ users[u].enabled
  /\ LoginDoes(b, [pc |-> IF HasRoute(users[u], r) THEN "routes" ELSE "groups",
                   route |-> r, user |-> u, account |-> users[u], routes |-> {},
                   seen |-> {UnionOfPaths(users[u], groups)}, changes |-> 0])
  /\ UNCHANGED <<accounts, cookies>>

(* The route may be one of a group; else the login is refused.               *)
CheckGroups(b) ==
  /\ logins[b].pc = "groups"
  /\ IF \E g \in GroupsOf(logins[b].account, groups) : logins[b].route \in g.routes
     THEN LoginDoes(b, [logins[b] EXCEPT !.pc = "routes"])
     ELSE LoginDoes(b, Idle)
  /\ UNCHANGED <<accounts, cookies>>

BuildRouteIDs(b) ==
  /\ logins[b].pc = "routes"
  /\ LoginDoes(b, [logins[b] EXCEPT !.pc = "paths",
                     !.routes = EffectiveRouteIDs(logins[b].account, groups)])
  /\ UNCHANGED <<accounts, cookies>>

(* The last read, and the answer that sets the cookie.                       *)
IssueToken(b) ==
  /\ logins[b].pc = "paths"
  /\ cookies' = [cookies EXCEPT ![b] =
       [user |-> logins[b].user, routes |-> logins[b].routes,
        paths |-> EffectivePaths(logins[b].account, groups)]]
  /\ LoginDoes(b, Idle)
  /\ UNCHANGED accounts

(* The cookie is cleared by a logout or outlives its day.                    *)
Forget(b) ==
  /\ cookies[b] # None
  /\ cookies' = [cookies EXCEPT ![b] = None]
  /\ UNCHANGED <<accounts, logins>>

-----------------------------------------------------------------------------
(* What the proxy lets through: routeAccessClaims takes the role and routes  *)
(* of the account as stored, the paths of the token stay.                    *)

RoutesOf(token) == users[token.user].routes

RouteAllowed(token, r) ==
  users[token.user].role = "admin" \/ r \in RoutesOf(token)

PathAllowed(token, r, p) ==
  users[token.user].role = "admin" \/ token.paths[r] = {} \/ p \in token.paths[r]

Admits(token, r, p) ==
  /\ users[token.user] # None /\ users[token.user].enabled
  /\ RouteAllowed(token, r)
  /\ PathAllowed(token, r, p)

-----------------------------------------------------------------------------
Witnessed(login) ==
  IF login = Idle \/ <<users, groups>>' = <<users, groups>> THEN login
  ELSE [login EXCEPT !.changes = IF @ < 2 THEN @ + 1 ELSE @,
                     !.seen = IF users'[login.user] = None THEN @
                              ELSE @ \cup {UnionOfPaths(users'[login.user], groups')}]

ChangeAccounts ==
  /\ AccountsStep
  /\ logins' = [b \in Browsers |-> Witnessed(logins[b])]
  /\ UNCHANGED cookies

Init ==
  /\ AccountsInit
  /\ logins = [b \in Browsers |-> Idle]
  /\ cookies = [b \in Browsers |-> None]

Next ==
  \/ ChangeAccounts
  \/ \E b \in Browsers :
       \/ \E r \in RouteIds, u \in UserIds : AccessLogin(b, r, u)
       \/ CheckGroups(b) \/ BuildRouteIDs(b) \/ IssueToken(b) \/ Forget(b)

Spec == Init /\ [][Next]_vars

-----------------------------------------------------------------------------
(* Properties.                                                               *)

(* The token of a deleted account opens no route, however old it is and       *)
(* whatever update was under way when the account was deleted (service.go of  *)
(* users, UpdateUser in json.go, routeAccessClaims in proxy/access.go).       *)
DeletedShutOut ==
  \A b \in Browsers, r \in RouteIds, p \in Paths :
    cookies[b] # None /\ cookies[b].user \in gone => ~Admits(cookies[b], r, p)

(* A permission group says "which routes this group grants access to"        *)
(* (web/src/lib/i18n/resources/groups.ts:26): the session of an enabled       *)
(* account is let through to the routes of the groups it is in.              *)
GroupsGrant ==
  \A b \in Browsers : cookies[b] # None =>
    LET token == cookies[b]
        account == users[token.user]
    IN  account # None /\ account.enabled =>
          \A g \in GroupsOf(account, groups) : \A r \in g.routes : RouteAllowed(token, r)

(* A login that one change of the accounts overlaps gives the paths of       *)
(* before or of after it, never a mixture of them; two changes may be mixed, *)
(* as the account and its groups are read apart (service.go:137).            *)
TokenOfOneMoment ==
  [][\A b \in Browsers :
       cookies'[b] \notin {None, cookies[b]} /\ logins[b].changes <= 1
         => cookies'[b].paths \in logins[b].seen]_vars
=============================================================================
