----------------------------- MODULE RouteProofs ------------------------------
(***************************************************************************)
(* Proofs about RouteAccess and RouteMatch. For any number of accounts,      *)
(* handlers and browsers: names stay unique and a token admits nobody who    *)
(* lost the route. For every set of routes, patterns and requests: the       *)
(* comparison is a strict total order, the exchange sort puts any number of  *)
(* routes into it, and Match finds the route that outranks the others.       *)
(***************************************************************************)
EXTENDS RouteAccess, RouteMatch, FiniteSetTheorems, WellFoundedInduction, TLAPS

AccountsTypes ==
  /\ users \in [UserIds -> Account \cup {None}]
  /\ groups \in [GroupIds -> Group \cup {None}]
  /\ jobs \in [Handlers -> Job]
  /\ gone \subseteq UserIds

(* No deleted account is stored again. *)
GoneStayGone == \A u \in gone : users[u] = None

Login == [pc: {"groups", "routes", "paths"}, route: RouteIds, user: UserIds,
          account: Account, routes: SUBSET RouteIds,
          seen: SUBSET [RouteIds -> SUBSET Paths], changes: 0..2]

(* While at most one change overlapped a login, the paths its groups give it  *)
(* now are among those its account had; while none did, its account is the    *)
(* one stored. *)
Sound(login, accountTable, groupTable) ==
  login # Idle =>
    /\ login.changes = 0 => accountTable[login.user] = login.account
    /\ login.changes <= 1 => UnionOfPaths(login.account, groupTable) \in login.seen

LoginsSound ==
  /\ logins \in [Browsers -> Login \cup {Idle}]
  /\ \A b \in Browsers : Sound(logins[b], users, groups)

IInv ==
  /\ AccountsTypes /\ UniqueUsernames /\ GoneStayGone /\ LoginsSound
  /\ DOMAIN cookies = Browsers

-----------------------------------------------------------------------------
LEMMA UnionTyped ==
  ASSUME NEW account, NEW groupTable
  PROVE  UnionOfPaths(account, groupTable) \in [RouteIds -> SUBSET Paths]
BY DEF UnionOfPaths

(* The code's merge of lists is the union the console speaks of. *)
LEMMA EffectiveIsUnion ==
  ASSUME NEW account \in Account, NEW groupTable \in [GroupIds -> Group \cup {None}]
  PROVE  EffectivePaths(account, groupTable) = UnionOfPaths(account, groupTable)
<1>1. ASSUME NEW r \in RouteIds, NEW p
      PROVE  (\E g \in GroupsOf(account, groupTable) : p \in g.paths[r])
               <=> p \in Paths
                   /\ \E g \in Stored(groupTable) : g \in account.groups /\ p \in groupTable[g].paths[r]
  <2>1. account.groups \subseteq GroupIds /\ DOMAIN groupTable = GroupIds
    BY DEF Account
  <2>2. \A g \in GroupIds : groupTable[g] # None => groupTable[g].paths[r] \subseteq Paths
    BY DEF Group
  <2> QED
    BY <2>1, <2>2 DEF GroupsOf, Stored
<1>2. \A r \in RouteIds : account.paths[r] \subseteq Paths
  BY DEF Account
<1>3. ASSUME NEW r \in RouteIds
      PROVE  EffectivePaths(account, groupTable)[r] = UnionOfPaths(account, groupTable)[r]
  BY <1>1, <1>2 DEF EffectivePaths, UnionOfPaths
<1> QED
  BY <1>3 DEF EffectivePaths, UnionOfPaths

-----------------------------------------------------------------------------
(* What each request leaves of the accounts. *)

(* What a handler at each point has read. *)
LEMMA JobTyped ==
  ASSUME NEW job \in Job
  PROVE  /\ job.pc = "insert" => job.row \in Account
         /\ job.pc \in {"update", "delete"} => job.id \in UserIds
         /\ job.pc = "update" => job.row \in Account
         /\ job.pc = "update group" => job.id \in GroupIds /\ job.row \in Group
         /\ job.pc = "routes" => [job EXCEPT !.pc = job.then] \in Job
<1>1. CASE job = Idle
  BY <1>1 DEF Idle
<1>2. CASE job \in [pc: {"insert"}, row: Account]
  BY <1>2
<1>3. CASE job \in [pc: {"routes", "insert"}, then: {"insert"}, row: Account]
  <2>1. [job EXCEPT !.pc = job.then] \in [pc: {"routes", "insert"}, then: {"insert"}, row: Account]
    BY <1>3
  <2> QED
    BY <1>3, <2>1 DEF Job
<1>4. CASE job \in [pc: {"routes", "update"}, then: {"update"}, id: UserIds, row: Account]
  <2>1. [job EXCEPT !.pc = job.then]
          \in [pc: {"routes", "update"}, then: {"update"}, id: UserIds, row: Account]
    BY <1>4
  <2> QED
    BY <1>4, <2>1 DEF Job
<1>5. CASE job \in [pc: {"delete"}, id: UserIds]
  BY <1>5
<1>6. CASE job \in [pc: {"update group"}, id: GroupIds, row: Group]
  BY <1>6
<1> QED
  BY <1>1, <1>2, <1>3, <1>4, <1>5, <1>6 DEF Job

LEMMA IdleIsJob == Idle \in Job
BY DEF Job

LEMMA DeletedGroupTyped ==
  ASSUME NEW account \in Account, NEW g
  PROVE  LET a == [account EXCEPT !.groups = @ \ {g}]
         IN a \in Account /\ a.name = account.name
BY DEF Account

LEMMA TypesKept ==
  ASSUME AccountsTypes, AccountsStep
  PROVE  AccountsTypes'
<1> USE AccountsAssumption DEF AccountsTypes, Does, Ends
<1>1. ASSUME NEW h \in Handlers, AskCreateUser(h)
      PROVE  AccountsTypes'
  <2>1. PICK new \in NewUsers : Does(h, [pc |-> "routes", then |-> "insert", row |-> new])
    BY <1>1 DEF AskCreateUser
  <2>2. [pc |-> "routes", then |-> "insert", row |-> new] \in Job
    BY DEF Job
  <2> QED
    BY <1>1, <2>1, <2>2 DEF AskCreateUser
<1>2. ASSUME NEW h \in Handlers, CreateUser(h)
      PROVE  AccountsTypes'
  <2>1. jobs[h].row \in Account
    BY <1>2, JobTyped DEF CreateUser
  <2> QED
    BY <1>2, <2>1, IdleIsJob DEF CreateUser, Unused
<1>3. ASSUME NEW h \in Handlers, AskUpdateUser(h)
      PROVE  AccountsTypes'
  <2>1. PICK u \in Stored(users), edit \in UserEdits :
          Does(h, [pc |-> IF {"role", "routes"} \cap DOMAIN edit = {} THEN "update" ELSE "routes",
                   then |-> "update", id |-> u, row |-> Sent(edit, users[u])])
    BY <1>3 DEF AskUpdateUser
  <2>2. u \in UserIds /\ users[u] \in Account
    BY DEF Stored
  <2>3. \A pc \in {"routes", "update"} :
          [pc |-> pc, then |-> "update", id |-> u, row |-> Sent(edit, users[u])] \in Job
    BY <2>2 DEF Job
  <2> QED
    BY <1>3, <2>1, <2>3 DEF AskUpdateUser
<1>4. ASSUME NEW h \in Handlers, UpdateUser(h)
      PROVE  AccountsTypes'
  <2>1. jobs[h].id \in UserIds /\ jobs[h].row \in Account
    BY <1>4, JobTyped DEF UpdateUser
  <2> QED
    BY <1>4, <2>1, IdleIsJob DEF UpdateUser
<1>5. ASSUME NEW h \in Handlers, ValidateRouteAccess(h)
      PROVE  AccountsTypes'
  <2>1. [jobs[h] EXCEPT !.pc = jobs[h].then] \in Job
    BY <1>5, JobTyped DEF ValidateRouteAccess
  <2> QED
    BY <1>5, <2>1, IdleIsJob DEF ValidateRouteAccess
<1>6. ASSUME NEW h \in Handlers, AskDeleteUser(h)
      PROVE  AccountsTypes'
  <2>1. PICK u \in Stored(users) : Does(h, [pc |-> "delete", id |-> u])
    BY <1>6 DEF AskDeleteUser
  <2>2. [pc |-> "delete", id |-> u] \in Job
    BY DEF Stored, Job
  <2> QED
    BY <1>6, <2>1, <2>2 DEF AskDeleteUser
<1>7. ASSUME NEW h \in Handlers, DeleteUser(h)
      PROVE  AccountsTypes'
  <2>1. jobs[h].id \in UserIds
    BY <1>7, JobTyped DEF DeleteUser
  <2> QED
    BY <1>7, <2>1, IdleIsJob DEF DeleteUser
<1>8. ASSUME NEW h \in Handlers, Setup(h)
      PROVE  AccountsTypes'
  <2>1. PICK new \in NewUsers : Does(h, [pc |-> "insert", row |-> FirstAdmin(new.name)])
    BY <1>8 DEF Setup
  <2>2. FirstAdmin(new.name) \in Account
    BY DEF FirstAdmin, Account, Roles, NoPaths
  <2>3. [pc |-> "insert", row |-> FirstAdmin(new.name)] \in Job
    BY <2>2 DEF Job
  <2> QED
    BY <1>8, <2>1, <2>3 DEF Setup
<1>9. ASSUME NEW h \in Handlers, AskUpdateGroup(h)
      PROVE  AccountsTypes'
  <2>1. PICK g \in Stored(groups), edit \in GroupEdits :
          Does(h, [pc |-> "update group", id |-> g, row |-> Sent(edit, groups[g])])
    BY <1>9 DEF AskUpdateGroup
  <2>2. g \in GroupIds /\ groups[g] \in Group
    BY DEF Stored
  <2>3. [pc |-> "update group", id |-> g, row |-> Sent(edit, groups[g])] \in Job
    BY <2>2 DEF Job
  <2> QED
    BY <1>9, <2>1, <2>3 DEF AskUpdateGroup
<1>10. ASSUME NEW h \in Handlers, UpdateGroup(h)
       PROVE  AccountsTypes'
  <2>1. jobs[h].id \in GroupIds /\ jobs[h].row \in Group
    BY <1>10, JobTyped DEF UpdateGroup
  <2> QED
    BY <1>10, <2>1, IdleIsJob DEF UpdateGroup
<1>11. CASE CreateGroup
  BY <1>11 DEF CreateGroup
<1>12. ASSUME NEW g \in GroupIds, DeleteGroup(g)
       PROVE  AccountsTypes'
  BY <1>12, DeletedGroupTyped DEF DeleteGroup
<1>13. ASSUME NEW r \in RouteIds, DeleteRoute(r)
       PROVE  AccountsTypes'
  BY <1>13 DEF DeleteRoute
<1> HIDE DEF AccountsTypes
<1> QED
  BY <1>1, <1>2, <1>3, <1>4, <1>5, <1>6, <1>7, <1>8, <1>9, <1>10, <1>11, <1>12, <1>13
     DEF AccountsStep

(* How a step may change the stored accounts: a free id or a stored one gets  *)
(* a row whose name is free, one is removed, a group is taken out of all, or  *)
(* none changes. *)
Written(u, row) ==
  /\ u \notin gone /\ NameFree(users, u, row.name)
  /\ users' = [users EXCEPT ![u] = row]

LEMMA UsersChange ==
  ASSUME AccountsTypes, GoneStayGone, AccountsStep
  PROVE  \/ \E u \in UserIds, row \in Account :
               Written(u, row) /\ groups' = groups /\ gone' = gone
         \/ \E u \in UserIds :
               /\ users' = [users EXCEPT ![u] = None] /\ groups' = groups
               /\ gone' = gone \cup {u}
         \/ \E g \in GroupIds : DeleteGroup(g)
         \/ users' = users /\ gone' = gone
<1> USE DEF AccountsTypes
<1>1. ASSUME NEW h \in Handlers, CreateUser(h)
      PROVE  \/ \E u \in UserIds, row \in Account :
                   Written(u, row) /\ groups' = groups /\ gone' = gone
             \/ users' = users /\ gone' = gone
  <2>1. jobs[h].row \in Account
    BY <1>1, JobTyped DEF CreateUser
  <2> QED
    BY <1>1, <2>1 DEF CreateUser, Unused, Written
<1>2. ASSUME NEW h \in Handlers, UpdateUser(h)
      PROVE  \/ \E u \in UserIds, row \in Account :
                   Written(u, row) /\ groups' = groups /\ gone' = gone
             \/ users' = users /\ gone' = gone
  <2>1. jobs[h].id \in UserIds /\ jobs[h].row \in Account
    BY <1>2, JobTyped DEF UpdateUser
  <2>2. Found(jobs[h].id) => jobs[h].id \notin gone
    BY DEF Found, GoneStayGone
  <2> QED
    BY <1>2, <2>1, <2>2 DEF UpdateUser, Written
<1>3. ASSUME NEW h \in Handlers, DeleteUser(h)
      PROVE  \E u \in UserIds :
               /\ users' = [users EXCEPT ![u] = None] /\ groups' = groups
               /\ gone' = gone \cup {u}
  <2>1. jobs[h].id \in UserIds
    BY <1>3, JobTyped DEF DeleteUser
  <2> QED
    BY <1>3, <2>1 DEF DeleteUser
<1>4. ASSUME NEW h \in Handlers,
             \/ AskCreateUser(h) \/ AskUpdateUser(h) \/ ValidateRouteAccess(h)
             \/ AskDeleteUser(h) \/ Setup(h) \/ AskUpdateGroup(h) \/ UpdateGroup(h)
      PROVE  users' = users /\ gone' = gone
  BY <1>4 DEF AskCreateUser, AskUpdateUser, ValidateRouteAccess, AskDeleteUser, Setup,
              AskUpdateGroup, UpdateGroup
<1>5. CreateGroup => users' = users /\ gone' = gone
  BY DEF CreateGroup
<1>6. \A r \in RouteIds : DeleteRoute(r) => users' = users /\ gone' = gone
  BY DEF DeleteRoute
<1> QED
  BY <1>1, <1>2, <1>3, <1>4, <1>5, <1>6 DEF AccountsStep

LEMMA NamesKept ==
  ASSUME AccountsTypes, GoneStayGone, UniqueUsernames, AccountsStep
  PROVE  UniqueUsernames' /\ GoneStayGone'
<1> USE DEF AccountsTypes
<1>1. ASSUME NEW u \in UserIds, NEW row \in Account, Written(u, row), gone' = gone
      PROVE  UniqueUsernames' /\ GoneStayGone'
  <2>1. GoneStayGone'
    BY <1>1 DEF Written, GoneStayGone
  <2>2. ASSUME NEW v \in Stored(users)', NEW w \in Stored(users)', v # w,
               users'[v].name = users'[w].name
        PROVE  FALSE
    BY <1>1, <2>2 DEF Written, NameFree, Stored, UniqueUsernames
  <2> QED
    BY <2>1, <2>2 DEF UniqueUsernames
<1>2. ASSUME NEW u \in UserIds, users' = [users EXCEPT ![u] = None], gone' = gone \cup {u}
      PROVE  UniqueUsernames' /\ GoneStayGone'
  BY <1>2 DEF GoneStayGone, UniqueUsernames, Stored
<1>3. ASSUME NEW g \in GroupIds, DeleteGroup(g)
      PROVE  UniqueUsernames' /\ GoneStayGone'
  <2>1. Stored(users)' \subseteq Stored(users)
    BY <1>3 DEF DeleteGroup, Stored
  <2>2. \A u \in Stored(users)' : users'[u].name = users[u].name
    BY <1>3, <2>1, DeletedGroupTyped DEF DeleteGroup, Stored
  <2>3. GoneStayGone'
    BY <1>3 DEF DeleteGroup, GoneStayGone
  <2> QED
    BY <2>1, <2>2, <2>3 DEF UniqueUsernames
<1>4. ASSUME users' = users, gone' = gone
      PROVE  UniqueUsernames' /\ GoneStayGone'
  BY <1>4 DEF GoneStayGone, UniqueUsernames, Stored
<1> QED
  BY <1>1, <1>2, <1>3, <1>4, UsersChange

-----------------------------------------------------------------------------
(* A login under way sees the changes of the accounts. *)

(* No step that adds a row to the groups, changes one or none touches users,  *)
(* and a group that goes is gone from the accounts too, so of one step either *)
(* the paths the groups now give to the account read before were seen before, *)
(* or they are those of the account now. *)
LEMMA OneChangeSeen ==
  ASSUME AccountsTypes, GoneStayGone, AccountsStep, NEW u \in UserIds,
         users[u] # None
  PROVE  \/ groups' = groups
         \/ /\ users'[u] # None
            /\ UnionOfPaths(users'[u], groups') = UnionOfPaths(users[u], groups')
<1>1. ASSUME NEW g \in GroupIds, DeleteGroup(g)
      PROVE  /\ users'[u] # None
             /\ UnionOfPaths(users'[u], groups') = UnionOfPaths(users[u], groups')
  <2>1. users[u] \in Account /\ users'[u] = [users[u] EXCEPT !.groups = @ \ {g}]
    BY <1>1 DEF DeleteGroup, AccountsTypes
  <2>2. users'[u] \in Account
    BY <2>1, DeletedGroupTyped
  <2>3. /\ users'[u].role = users[u].role /\ users'[u].paths = users[u].paths
        /\ users'[u].groups = users[u].groups \ {g}
    BY <2>1 DEF Account
  <2>4. g \notin Stored(groups')
    BY <1>1 DEF DeleteGroup, Stored, AccountsTypes
  <2>5. users'[u] # None
    BY <2>2, AccountsAssumption
  <2> QED
    BY <2>3, <2>4, <2>5 DEF UnionOfPaths
<1>2. ASSUME users' = users
      PROVE  UnionOfPaths(users'[u], groups') = UnionOfPaths(users[u], groups')
  BY <1>2
<1> QED
  BY <1>1, <1>2, UsersChange

(* What the ghosts of a login record of such a step is true of it.            *)
LEMMA WitnessSound ==
  ASSUME AccountsTypes, AccountsTypes', GoneStayGone, AccountsStep,
         NEW login \in Login \cup {Idle}, Sound(login, users, groups)
  PROVE  /\ Witnessed(login) \in Login \cup {Idle}
         /\ Sound(Witnessed(login), users', groups')
<1>1. CASE login = Idle \/ <<users, groups>>' = <<users, groups>>
  BY <1>1 DEF Witnessed, Sound
<1>2. CASE ~(login = Idle \/ <<users, groups>>' = <<users, groups>>)
  <2> DEFINE u == login.user
             n == IF login.changes < 2 THEN login.changes + 1 ELSE login.changes
             more == IF users'[u] = None THEN login.seen
                     ELSE login.seen \cup {UnionOfPaths(users'[u], groups')}
             next == [login EXCEPT !.changes = n, !.seen = more]
  <2>1. login \in Login
    BY <1>2
  <2>2. Witnessed(login) = next
    BY <1>2 DEF Witnessed
  <2>3. /\ u \in UserIds /\ login.account \in Account /\ login.changes \in 0..2
        /\ login.seen \subseteq [RouteIds -> SUBSET Paths]
    BY <2>1 DEF Login
  <2>4. n \in 0..2 /\ n # 0 /\ (n <= 1 => login.changes = 0)
    BY <2>3
  <2>5. more \subseteq [RouteIds -> SUBSET Paths]
    BY <2>3, UnionTyped
  <2> HIDE DEF n, more
  <2>6. /\ next \in Login
        /\ next.changes = n /\ next.account = login.account /\ next.seen = more
    BY <2>1, <2>4, <2>5 DEF Login
  <2>7. ASSUME n <= 1
        PROVE  UnionOfPaths(login.account, groups') \in more
    <3>1. users[u] = login.account /\ UnionOfPaths(login.account, groups) \in login.seen
      BY <1>2, <2>4, <2>7 DEF Sound
    <3>2. users[u] # None
      BY <2>3, <3>1, AccountsAssumption
    <3>3. CASE groups' = groups
      BY <3>1, <3>3 DEF more
    <3>4. CASE users'[u] # None
                 /\ UnionOfPaths(users'[u], groups') = UnionOfPaths(users[u], groups')
      BY <3>1, <3>4 DEF more
    <3> QED
      BY <2>3, <3>2, <3>3, <3>4, OneChangeSeen
  <2> QED
    BY <2>2, <2>4, <2>6, <2>7 DEF Sound
<1> QED
  BY <1>1, <1>2

-----------------------------------------------------------------------------
(* The steps of a login keep what is true of every login.                    *)

LEMMA RouteIDsTyped ==
  ASSUME NEW account \in Account, NEW groupTable \in [GroupIds -> Group \cup {None}]
  PROVE  EffectiveRouteIDs(account, groupTable) \subseteq RouteIds
<1>1. \A g \in GroupsOf(account, groupTable) : g \in Group
  BY DEF GroupsOf, Account
<1> QED
  BY <1>1 DEF EffectiveRouteIDs, Account, Group

(* One login put in the place of another of the same kind.                   *)
LEMMA OneLogin ==
  ASSUME LoginsSound, NEW b \in Browsers, NEW login \in Login \cup {Idle},
         Sound(login, users, groups), LoginDoes(b, login), UNCHANGED accounts
  PROVE  LoginsSound'
BY DEF LoginsSound, LoginDoes, accounts

(* Where it stands and the routes it found are of no account for it.         *)
LEMMA LoginGoesOn ==
  ASSUME NEW login \in Login, Sound(login, users, groups),
         NEW pc \in {"groups", "routes", "paths"}, NEW found \in SUBSET RouteIds
  PROVE  /\ [login EXCEPT !.pc = pc] \in Login
         /\ Sound([login EXCEPT !.pc = pc], users, groups)
         /\ [login EXCEPT !.pc = pc, !.routes = found] \in Login
         /\ Sound([login EXCEPT !.pc = pc, !.routes = found], users, groups)
<1>1. login # Idle
  BY DEF Login, Idle
<1> DEFINE one == [login EXCEPT !.pc = pc]
           two == [one EXCEPT !.routes = found]
<1>2. /\ one \in Login /\ one.changes = login.changes /\ one.user = login.user
      /\ one.account = login.account /\ one.seen = login.seen
  BY DEF Login
<1> HIDE DEF one
<1>3. /\ two \in Login /\ two.changes = one.changes /\ two.user = one.user
      /\ two.account = one.account /\ two.seen = one.seen
  BY <1>2 DEF Login
<1>4. two = [login EXCEPT !.pc = pc, !.routes = found]
  BY DEF one
<1> HIDE DEF two
<1>5. Sound(one, users, groups) /\ Sound(two, users, groups)
  BY <1>1, <1>2, <1>3 DEF Sound
<1> QED
  BY <1>2, <1>3, <1>4, <1>5 DEF one

LEMMA UnderWay ==
  ASSUME LoginsSound, NEW b \in Browsers, logins[b].pc \in {"groups", "routes", "paths"}
  PROVE  logins[b] \in Login /\ Sound(logins[b], users, groups)
BY DEF LoginsSound, Idle

LEMMA LoginsKept ==
  ASSUME IInv, [Next]_vars
  PROVE  LoginsSound'
<1> USE DEF IInv
<1>1. CASE ChangeAccounts
  <2>1. \A b \in Browsers : /\ Witnessed(logins[b]) \in Login \cup {Idle}
                            /\ Sound(Witnessed(logins[b]), users', groups')
    BY <1>1, TypesKept, WitnessSound DEF ChangeAccounts, LoginsSound
  <2> QED
    BY <1>1, <2>1 DEF ChangeAccounts, LoginsSound
<1>2. ASSUME NEW b \in Browsers, NEW r \in RouteIds, NEW u \in UserIds, AccessLogin(b, r, u)
      PROVE  LoginsSound'
  <2> DEFINE login == [pc |-> IF HasRoute(users[u], r) THEN "routes" ELSE "groups",
                       route |-> r, user |-> u, account |-> users[u], routes |-> {},
                       seen |-> {UnionOfPaths(users[u], groups)}, changes |-> 0]
  <2>1. users[u] \in Account
    BY <1>2 DEF AccessLogin, AccountsTypes
  <2>2. login \in Login
    BY <2>1, UnionTyped DEF Login
  <2>3. Sound(login, users, groups)
    BY DEF Sound
  <2> QED
    BY <1>2, <2>2, <2>3, OneLogin DEF AccessLogin
<1>3. ASSUME NEW b \in Browsers, LoginDoes(b, Idle), UNCHANGED accounts
      PROVE  LoginsSound'
  BY <1>3, OneLogin DEF Sound
<1>4. ASSUME NEW b \in Browsers, CheckGroups(b)
      PROVE  LoginsSound'
  <2>1. logins[b] \in Login /\ Sound(logins[b], users, groups)
    BY <1>4, UnderWay DEF CheckGroups
  <2>2. /\ [logins[b] EXCEPT !.pc = "routes"] \in Login
        /\ Sound([logins[b] EXCEPT !.pc = "routes"], users, groups)
    BY <2>1, LoginGoesOn
  <2> QED
    BY <1>3, <1>4, <2>2, OneLogin DEF CheckGroups
<1>5. ASSUME NEW b \in Browsers, BuildRouteIDs(b)
      PROVE  LoginsSound'
  <2> DEFINE found == EffectiveRouteIDs(logins[b].account, groups)
  <2>1. logins[b] \in Login /\ Sound(logins[b], users, groups)
    BY <1>5, UnderWay DEF BuildRouteIDs
  <2>2. found \in SUBSET RouteIds
    BY <2>1, RouteIDsTyped DEF Login, AccountsTypes
  <2> HIDE DEF found
  <2>3. /\ [logins[b] EXCEPT !.pc = "paths", !.routes = found] \in Login
        /\ Sound([logins[b] EXCEPT !.pc = "paths", !.routes = found], users, groups)
    BY <2>1, <2>2, LoginGoesOn
  <2> QED
    BY <1>5, <2>3, OneLogin DEF BuildRouteIDs, found
<1>6. ASSUME NEW b \in Browsers, IssueToken(b)
      PROVE  LoginsSound'
  BY <1>3, <1>6 DEF IssueToken
<1>7. ASSUME UNCHANGED <<accounts, logins>>
      PROVE  LoginsSound'
  BY <1>7 DEF LoginsSound, accounts
<1>8. \A b \in Browsers : Forget(b) => LoginsSound'
  BY <1>7 DEF Forget
<1>9. UNCHANGED vars => LoginsSound'
  BY <1>7 DEF vars
<1> HIDE DEF IInv
<1> QED
  BY <1>1, <1>2, <1>4, <1>5, <1>6, <1>8, <1>9 DEF Next

-----------------------------------------------------------------------------
LEMMA InitSound == Init => IInv
<1> SUFFICES ASSUME Init PROVE IInv
  OBVIOUS
<1>1. AccountsTypes
  BY IdleIsJob DEF Init, AccountsInit, AccountsTypes
<1>2. UniqueUsernames /\ GoneStayGone
  BY DEF Init, AccountsInit, UniqueUsernames, GoneStayGone, Stored
<1>3. LoginsSound
  BY DEF Init, LoginsSound, Sound
<1> QED
  BY <1>1, <1>2, <1>3 DEF IInv, Init

LEMMA StepSound == IInv /\ [Next]_vars => IInv'
<1> SUFFICES ASSUME IInv, [Next]_vars PROVE IInv'
  OBVIOUS
<1>1. LoginsSound'
  BY LoginsKept
<1>2. DOMAIN cookies' = Browsers
  BY DEF IInv, Next, vars, ChangeAccounts, AccessLogin, CheckGroups, BuildRouteIDs,
         IssueToken, Forget
<1>3. CASE AccountsStep
  BY <1>1, <1>2, <1>3, TypesKept, NamesKept DEF IInv
<1>4. CASE UNCHANGED accounts
  BY <1>1, <1>2, <1>4 DEF IInv, accounts, AccountsTypes, UniqueUsernames, GoneStayGone, Stored
<1>5. AccountsStep \/ UNCHANGED accounts
  BY DEF Next, vars, ChangeAccounts, AccessLogin, CheckGroups, BuildRouteIDs, IssueToken,
         Forget
<1> QED
  BY <1>3, <1>4, <1>5

LEMMA Inductive == Spec => []IInv
BY InitSound, StepSound, PTL DEF Spec

(* Two accounts never share a name, however many requests overlap.           *)
THEOREM UniqueNames == Spec => []UniqueUsernames
<1>1. IInv => UniqueUsernames
  BY DEF IInv
<1> QED
  BY <1>1, Inductive, PTL

(* No token opens a route to an account that was deleted, whatever requests   *)
(* were under way: a deleted id is never stored again. *)
THEOREM DeletionShutsOut == Spec => []DeletedShutOut
<1>1. IInv => DeletedShutOut
  BY DEF IInv, GoneStayGone, DeletedShutOut, Admits
<1> QED
  BY <1>1, Inductive, PTL

(* A login one change of the accounts overlapped gives the paths its account  *)
(* had before or after that change. *)
THEOREM OneMoment == Spec => TokenOfOneMoment
<1>1. ASSUME IInv, [Next]_vars, NEW b \in Browsers, cookies'[b] \notin {None, cookies[b]},
             logins[b].changes <= 1
      PROVE  cookies'[b].paths \in logins[b].seen
  <2>1. IssueToken(b)
    <3>1. cookies' # cookies
      BY <1>1
    <3>2. PICK c \in Browsers : IssueToken(c) \/ Forget(c)
      BY <1>1, <3>1 DEF Next, vars, ChangeAccounts, AccessLogin, CheckGroups, BuildRouteIDs
    <3>3. c = b
      BY <1>1, <3>2 DEF IInv, IssueToken, Forget
    <3>4. ~Forget(b)
      BY <1>1 DEF IInv, Forget
    <3> QED
      BY <3>2, <3>3, <3>4
  <2>2. logins[b] \in Login /\ Sound(logins[b], users, groups)
    BY <1>1, <2>1, UnderWay DEF IInv, IssueToken
  <2>3. cookies'[b].paths = EffectivePaths(logins[b].account, groups)
    BY <1>1, <2>1 DEF IInv, IssueToken
  <2>4. cookies'[b].paths = UnionOfPaths(logins[b].account, groups)
    BY <1>1, <2>2, <2>3, EffectiveIsUnion DEF IInv, AccountsTypes, Login
  <2>5. logins[b] # Idle
    BY <2>2 DEF Login, Idle
  <2> QED
    BY <1>1, <2>2, <2>4, <2>5 DEF Sound
<1>2. IInv /\ [Next]_vars =>
        [\A b \in Browsers :
           cookies'[b] \notin {None, cookies[b]} /\ logins[b].changes <= 1
             => cookies'[b].paths \in logins[b].seen]_vars
  BY <1>1
<1> QED
  BY <1>2, Inductive, PTL DEF Spec, TokenOfOneMoment

-----------------------------------------------------------------------------
(* RouteMatch. *)

CompiledRoute ==
  [id: Nat, host: Hosts \cup {AnyHost}, mode: Modes, path: Patterns, signed: BOOLEAN,
   header: Headers \cup {NoHeader}, priority: Int, enabled: BOOLEAN]

Before(a, b) == priorityCmp(a, b) > 0

(* A sequence of the routes compiled from the rows, each once.               *)
ListsAll(s, rows) ==
  /\ s \in Seq(CompiledRoute)
  /\ \A k, l \in DOMAIN s : s[k].id = s[l].id => k = l
  /\ Range(s) = Compiled(rows)

Ordered(s) == \A k, l \in DOMAIN s : k < l => Before(s[k], s[l])

(* The places before i are final, and of those up to j the best is at i.     *)
SortedSoFar ==
  /\ i \in 1..(Len(result) + 1) /\ j \in Nat /\ i < j
  /\ \A k, l \in DOMAIN result : k < i /\ k < l => Before(result[k], result[l])
  /\ \A l \in DOMAIN result : i < l /\ l < j => Before(result[i], result[l])

SortInv ==
  /\ ListsAll(table, served) /\ Ordered(table)
  /\ loading \in BOOLEAN
  /\ loading => ListsAll(result, loaded) /\ SortedSoFar

-----------------------------------------------------------------------------
(* The comparison. *)

LEMMA PathLengthType ==
  ASSUME NEW a \in CompiledRoute
  PROVE  PathLength(a) \in Nat
BY MatchAssumption DEF PathLength, CompiledRoute

LEMMA PriorityCmpType ==
  ASSUME NEW a \in CompiledRoute, NEW b \in CompiledRoute
  PROVE  priorityCmp(a, b) \in Int
BY MatchAssumption, PathLengthType DEF priorityCmp, pathLenCmp, matchOrder, CompiledRoute, Modes

(* Of two routes one goes before the other. *)
LEMMA BeforeTotal ==
  ASSUME NEW a \in CompiledRoute, NEW b \in CompiledRoute, a.id # b.id
  PROVE  /\ priorityCmp(a, b) < 0 <=> Before(b, a)
         /\ Before(a, b) \/ Before(b, a)
BY MatchAssumption, PathLengthType DEF Before, priorityCmp, pathLenCmp, matchOrder, CompiledRoute, Modes

LEMMA BeforeTransitive ==
  ASSUME NEW a \in CompiledRoute, NEW b \in CompiledRoute, NEW c \in CompiledRoute,
         Before(a, b), Before(b, c)
  PROVE  Before(a, c)
BY MatchAssumption, PathLengthType DEF Before, priorityCmp, pathLenCmp, matchOrder, CompiledRoute, Modes

(* The order of the code is the order of precedence. *)
LEMMA BeforeOutranks ==
  ASSUME NEW a \in CompiledRoute, NEW b \in CompiledRoute, Before(a, b)
  PROVE  Outranks(a, b)
BY MatchAssumption, PathLengthType DEF Before, Outranks, priorityCmp, pathLenCmp, matchOrder,
     matchPriority, CompiledRoute, Modes

-----------------------------------------------------------------------------
(* Compiling and exchanging. *)

LEMMA CompileRouteType ==
  ASSUME NEW rows \in Stores, NEW row \in Usable(rows)
  PROVE  CompileRoute(row) \in CompiledRoute /\ CompileRoute(row).id = row.id
<1>1. row \in StoredRoute /\ row.mode # "unknown"
  BY MatchAssumption DEF Usable
<1>2. EffectiveMode(row) \in Modes
  BY <1>1 DEF StoredRoute, EffectiveMode, SignKept, Modes
<1>3. Priority(EffectiveMode(row), row.priority) \in Int
  <2>1. matchPriority[EffectiveMode(row)] \in Int
    BY <1>2 DEF matchPriority, Modes
  <2>2. row.priority \in Int
    BY <1>1 DEF StoredRoute
  <2> QED
    BY <2>1, <2>2 DEF Priority
<1>4. SignKept(row) \in BOOLEAN
  BY DEF SignKept
<1> QED
  BY <1>1, <1>2, <1>3, <1>4, MatchAssumption DEF CompileRoute, CompiledRoute, StoredRoute

(* Whatever the order of the listing, the compiler starts from every usable  *)
(* route once.                                                               *)
LEMMA ListingComplete ==
  ASSUME NEW rows \in Stores, NEW s \in Listings(Usable(rows))
  PROVE  ListsAll([k \in DOMAIN s |-> CompileRoute(s[k])], rows)
<1> DEFINE c == [k \in DOMAIN s |-> CompileRoute(s[k])]
<1>1. IsFiniteSet(Usable(rows))
  BY MatchAssumption, FS_Subset DEF Usable
<1>2. Cardinality(Usable(rows)) \in Nat
  BY <1>1, FS_CardinalityType
<1>3. /\ s \in [1..Cardinality(Usable(rows)) -> Usable(rows)]
      /\ IsInjective(s) /\ Range(s) = Usable(rows)
  BY DEF Listings
<1>4. \A k \in DOMAIN s : c[k] \in CompiledRoute /\ c[k].id = s[k].id
  BY <1>3, CompileRouteType
<1>5. c \in Seq(CompiledRoute) /\ DOMAIN c = DOMAIN s
  BY <1>2, <1>3, <1>4
<1>6. \A k, l \in DOMAIN c : c[k].id = c[l].id => k = l
  BY <1>3, <1>4, <1>5, MatchAssumption DEF IsInjective, Usable
<1>7. Range(c) = Compiled(rows)
  BY <1>3, <1>5 DEF Range, Compiled
<1> QED
  BY <1>5, <1>6, <1>7 DEF ListsAll

LEMMA ExchangedFacts ==
  ASSUME NEW s \in Seq(CompiledRoute), NEW k \in DOMAIN s, NEW l \in DOMAIN s
  PROVE  /\ Exchanged(s, k, l) \in Seq(CompiledRoute)
         /\ Len(Exchanged(s, k, l)) = Len(s)
         /\ DOMAIN Exchanged(s, k, l) = DOMAIN s
         /\ \A m \in DOMAIN s :
              Exchanged(s, k, l)[m] = IF m = l THEN s[k] ELSE IF m = k THEN s[l] ELSE s[m]
BY DEF Exchanged

LEMMA ExchangedListsAll ==
  ASSUME NEW rows, NEW s, ListsAll(s, rows), NEW k \in DOMAIN s, NEW l \in DOMAIN s
  PROVE  ListsAll(Exchanged(s, k, l), rows)
<1> DEFINE t == Exchanged(s, k, l)
<1>1. /\ t \in Seq(CompiledRoute) /\ DOMAIN t = DOMAIN s
      /\ \A m \in DOMAIN s :
           t[m] = IF m = l THEN s[k] ELSE IF m = k THEN s[l] ELSE s[m]
  BY ExchangedFacts DEF ListsAll
<1> HIDE DEF t
<1>2. \A m, n \in DOMAIN t : t[m].id = t[n].id => m = n
  BY <1>1 DEF ListsAll
<1>3. Range(t) = Range(s)
  <2>1. ASSUME NEW m \in DOMAIN s PROVE t[m] \in Range(s) /\ s[m] \in Range(t)
    <3>1. \E n \in DOMAIN s : t[n] = s[m]
      BY <1>1
    <3>2. \E n \in DOMAIN s : t[m] = s[n]
      BY <1>1
    <3> QED
      BY <1>1, <3>1, <3>2 DEF Range
  <2> QED
    BY <1>1, <2>1 DEF Range
<1> QED
  BY <1>1, <1>2, <1>3 DEF ListsAll, t

-----------------------------------------------------------------------------
(* The sort. *)

LEMMA CompareSorts ==
  ASSUME loading, ListsAll(result, loaded), SortedSoFar, Compare
  PROVE  ListsAll(result', loaded) /\ SortedSoFar'
<1>1. /\ result \in Seq(CompiledRoute) /\ i \in DOMAIN result /\ j \in DOMAIN result
      /\ i \in Nat /\ j \in Nat /\ i < j /\ i' = i /\ j' = j + 1
      /\ DOMAIN result = 1..Len(result)
  BY DEF SortedSoFar, ListsAll, Compare
<1>2. \A k \in DOMAIN result : result[k] \in CompiledRoute
  BY <1>1
<1>3. result[i].id # result[j].id
  BY <1>1 DEF ListsAll
<1>4. CASE priorityCmp(result[i], result[j]) < 0
  <2>1. Before(result[j], result[i])
    BY <1>1, <1>2, <1>3, <1>4, BeforeTotal
  <2>2. result' = Exchanged(result, i, j)
    BY <1>4 DEF Compare
  <2>3. /\ DOMAIN result' = DOMAIN result /\ Len(result') = Len(result)
        /\ \A m \in DOMAIN result :
             result'[m] = IF m = j THEN result[i] ELSE IF m = i THEN result[j] ELSE result[m]
    <3>1. /\ DOMAIN Exchanged(result, i, j) = DOMAIN result
          /\ Len(Exchanged(result, i, j)) = Len(result)
      BY <1>1, ExchangedFacts
    <3>2. \A m \in DOMAIN result : Exchanged(result, i, j)[m] =
            IF m = j THEN result[i] ELSE IF m = i THEN result[j] ELSE result[m]
      BY <1>1 DEF Exchanged
    <3> QED
      BY <2>2, <3>1, <3>2
  <2>4. ListsAll(result', loaded)
    BY <1>1, <2>2, ExchangedListsAll
  <2>5. ASSUME NEW k \in DOMAIN result, NEW l \in DOMAIN result, k < i, k < l
        PROVE  Before(result'[k], result'[l])
    <3>1. result'[k] = result[k]
      BY <1>1, <2>3, <2>5
    <3>2. PICK m \in DOMAIN result : k < m /\ result'[l] = result[m]
      BY <1>1, <2>3, <2>5
    <3> QED
      BY <2>5, <3>1, <3>2 DEF SortedSoFar
  <2>6. ASSUME NEW l \in DOMAIN result, i < l, l < j + 1
        PROVE  Before(result'[i], result'[l])
    <3>1. result'[i] = result[j]
      BY <1>1, <2>3
    <3>2. CASE l = j
      BY <1>1, <2>1, <2>3, <3>1, <3>2
    <3>3. CASE l # j
      <4>1. l < j /\ result'[l] = result[l]
        BY <1>1, <2>3, <2>6, <3>3
      <4>2. Before(result[i], result[l])
        BY <2>6, <4>1 DEF SortedSoFar
      <4> QED
        BY <1>1, <1>2, <2>1, <3>1, <4>1, <4>2, BeforeTransitive
    <3> QED
      BY <3>2, <3>3
  <2> QED
    BY <1>1, <2>3, <2>4, <2>5, <2>6 DEF SortedSoFar
<1>5. CASE ~ (priorityCmp(result[i], result[j]) < 0)
  <2>1. result' = result
    BY <1>5 DEF Compare
  <2>2. Before(result[i], result[j])
    BY <1>1, <1>2, <1>3, <1>5, BeforeTotal
  <2>3. \A l \in DOMAIN result : i < l /\ l < j + 1 => Before(result[i], result[l])
    BY <1>1, <2>2 DEF SortedSoFar
  <2> QED
    BY <1>1, <2>1, <2>3 DEF SortedSoFar
<1> QED
  BY <1>4, <1>5

LEMMA NextPlaceSorts ==
  ASSUME loading, ListsAll(result, loaded), SortedSoFar, NextPlace
  PROVE  SortedSoFar'
<1>1. /\ DOMAIN result = 1..Len(result) /\ Len(result) \in Nat
      /\ result' = result /\ i' = i + 1 /\ j' = i + 2 /\ i <= Len(result) /\ j > Len(result)
      /\ i \in Nat /\ 1 <= i /\ j \in Nat
  BY DEF ListsAll, SortedSoFar, NextPlace
<1>2. \A k, l \in DOMAIN result : k < i + 1 /\ k < l => Before(result[k], result[l])
  <2>1. TAKE k, l \in DOMAIN result
  <2>2. HAVE k < i + 1 /\ k < l
  <2>3. CASE k < i
    BY <2>2, <2>3 DEF SortedSoFar
  <2>4. CASE k = i
    BY <1>1, <2>2, <2>4 DEF SortedSoFar
  <2> QED
    BY <1>1, <2>2, <2>3, <2>4
<1>3. \A l \in DOMAIN result : ~ (i + 1 < l /\ l < i + 2)
  BY <1>1
<1>4. i + 1 \in 1..(Len(result) + 1) /\ i + 2 \in Nat /\ i + 1 < i + 2
  BY <1>1
<1>5. \A l \in DOMAIN result : i + 1 < l /\ l < i + 2 => Before(result[i + 1], result[l])
  BY <1>3
<1> QED
  BY <1>1, <1>2, <1>4, <1>5, Zenon DEF SortedSoFar

LEMMA SortInvariance ==
  MatchSpec => []SortInv
<1>1. ASSUME MatchInit PROVE SortInv
  <2>1. /\ table = <<>> /\ served = {} /\ loading = FALSE
        /\ table \in Seq(CompiledRoute) /\ DOMAIN table = {}
    BY <1>1 DEF MatchInit
  <2>2. Range(table) = {} /\ Compiled(served) = {}
    BY <2>1, Zenon DEF Range, Compiled, Usable
  <2> QED
    BY <2>1, <2>2 DEF SortInv, ListsAll, Ordered
<1>2. ASSUME SortInv, [MatchNext]_matchVars PROVE SortInv'
  <2>1. CASE \E rows \in Stores : ListRoutes(rows)
    <3>1. PICK rows \in Stores : ListRoutes(rows)
      BY <2>1
    <3>2. ListsAll(result', rows)
      BY <3>1, ListingComplete DEF ListRoutes
    <3>3. loaded' = rows /\ i' = 1 /\ j' = 2 /\ loading' = TRUE /\ UNCHANGED <<table, served>>
      BY <3>1 DEF ListRoutes
    <3>4. SortedSoFar'
      BY <3>2, <3>3 DEF SortedSoFar, ListsAll
    <3> QED
      BY <1>2, <3>2, <3>3, <3>4 DEF SortInv
  <2>2. CASE Compare
    <3>1. loading /\ UNCHANGED <<table, served, loading, loaded>>
      BY <2>2 DEF Compare
    <3>2. ListsAll(result', loaded) /\ SortedSoFar'
      BY <1>2, <2>2, <3>1, CompareSorts DEF SortInv
    <3> QED
      BY <1>2, <3>1, <3>2 DEF SortInv
  <2>3. CASE NextPlace
    <3>1. loading /\ UNCHANGED <<table, served, loading, loaded, result>>
      BY <2>3 DEF NextPlace
    <3>2. SortedSoFar'
      BY <1>2, <2>3, <3>1, NextPlaceSorts DEF SortInv
    <3> QED
      BY <1>2, <3>1, <3>2 DEF SortInv
  <2>4. CASE Install
    <3>1. /\ ListsAll(result, loaded) /\ SortedSoFar
          /\ table' = result /\ served' = loaded /\ loading' = FALSE /\ i > Len(result)
      BY <1>2, <2>4 DEF Install, SortInv
    <3>2. Ordered(result)
      BY <3>1 DEF Ordered, SortedSoFar, ListsAll
    <3> QED
      BY <3>1, <3>2 DEF SortInv
  <2>5. CASE UNCHANGED matchVars
    BY <1>2, <2>5 DEF matchVars, SortInv, ListsAll, Ordered, SortedSoFar
  <2> QED
    BY <1>2, <2>1, <2>2, <2>3, <2>4, <2>5 DEF MatchNext
<1> QED
  BY <1>1, <1>2, PTL DEF MatchSpec

-----------------------------------------------------------------------------
(* A nonempty set of naturals has a least element.                           *)
LEMMA Least ==
  ASSUME NEW S, S \subseteq Nat, S # {}
  PROVE  \E n \in S : \A m \in S : n <= m
<1> DEFINE R == {p \in Nat \X Nat : p[1] < p[2]}
<1>1. IsWellFoundedOn(R, Nat)
  <2>1. R = OpToRel(<, Nat)
    BY Zenon DEF OpToRel
  <2> QED
    BY ONLY <2>1, NatLessThanWellFounded, Zenon
<1>2. PICK n \in S : \A m \in S : ~ (<<m, n>> \in R)
  BY <1>1, WFMin, Zenon
<1>3. \A m \in S : ~ (m < n)
  BY <1>2
<1>4. \A m \in S : n <= m
  BY <1>3
<1> HIDE DEF R
<1> QED
  BY <1>4

(* What Match returns comes before every other route that accepts.           *)
LEMMA MatchIsFirst ==
  ASSUME ListsAll(table, served), Ordered(table), NEW q \in Requests,
         NEW r \in Compiled(served), Accepts(r, q)
  PROVE  /\ Match(q) \in Compiled(served) /\ Accepts(Match(q), q)
         /\ r # Match(q) => Outranks(Match(q), r)
<1> DEFINE hits == {k \in DOMAIN table : Accepts(table[k], q)}
           first == CHOOSE k \in hits : \A l \in hits : k <= l
<1>1. PICK k \in DOMAIN table : r = table[k]
  BY DEF ListsAll, Range
<1>2. k \in hits
  BY <1>1
<1>3. hits \subseteq Nat
  BY DEF ListsAll
<1>4. \E n \in hits : \A m \in hits : n <= m
  BY <1>2, <1>3, Least
<1>5. first \in hits /\ first <= k
  BY <1>2, <1>4
<1>6. Match(q) = table[first]
  BY <1>2 DEF Match
<1> HIDE DEF first
<1>7. first \in DOMAIN table /\ Accepts(table[first], q)
  BY <1>5
<1>8. table[first] \in Compiled(served)
  BY <1>7 DEF ListsAll, Range
<1>9. ASSUME r # table[first] PROVE Outranks(table[first], r)
  <2>1. first < k
    BY <1>1, <1>2, <1>3, <1>5, <1>9
  <2>2. Before(table[first], r)
    BY <1>1, <1>7, <2>1 DEF Ordered
  <2>3. table[first] \in CompiledRoute /\ r \in CompiledRoute
    BY <1>1, <1>7 DEF ListsAll
  <2> QED
    BY <2>2, <2>3, BeforeOutranks
<1> QED
  BY <1>6, <1>7, <1>8, <1>9

(* Match gives every request the route, among those loaded that accept it,   *)
(* that outranks the others (compiler.go's order, router.go's first match).  *)
THEOREM Matched == MatchSpec => []MatchesBest
<1>1. ASSUME SortInv PROVE MatchesBest
  <2>1. SUFFICES ASSUME NEW q \in Requests
                 PROVE  LET candidates == {r \in Compiled(served) : Accepts(r, q)} IN
                        IF candidates = {} THEN Match(q) = NoRoute
                        ELSE /\ Match(q) \in candidates
                             /\ \A r \in candidates \ {Match(q)} : Outranks(Match(q), r)
    BY DEF MatchesBest
  <2> DEFINE candidates == {r \in Compiled(served) : Accepts(r, q)}
  <2>2. ListsAll(table, served) /\ Ordered(table)
    BY <1>1 DEF SortInv
  <2>3. CASE candidates = {}
    <3>1. \A k \in DOMAIN table : ~ Accepts(table[k], q)
      BY <2>2, <2>3 DEF ListsAll, Range
    <3> QED
      BY <2>3, <3>1 DEF Match
  <2>4. CASE candidates # {}
    <3>1. PICK r \in Compiled(served) : Accepts(r, q)
      BY <2>4
    <3>2. Match(q) \in candidates
      BY <2>2, <3>1, MatchIsFirst
    <3>3. \A s \in candidates \ {Match(q)} : Outranks(Match(q), s)
      BY <2>2, MatchIsFirst
    <3> QED
      BY <2>4, <3>2, <3>3
  <2> QED
    BY <2>3, <2>4
<1> QED
  BY SortInvariance, <1>1, PTL
=============================================================================
