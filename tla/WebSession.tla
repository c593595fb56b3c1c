------------------------------ MODULE WebSession ------------------------------
(* The session of the web console: the token and user that all tabs of a     *)
(* browser share in localStorage, the copies each tab keeps in its session   *)
(* store and in React state, the requests under way in each tab, and         *)
(* what App renders. A tab runs one handler at a time; handlers of different *)
(* tabs, the server and the delivery of answers and storage events           *)
(* interleave. A token is the number of the login that issued it. The notice *)
(* that says a session expired is left out.                                  *)
EXTENDS Naturals, Sequences, FiniteSets

CONSTANTS Tabs,       \* tabs of one browser
          Users,      \* ids of the accounts that can manage the console
          MaxLogins,  \* bound on the tokens the server issues
          MaxCalls,   \* bound on the requests a tab starts while others run
          Null        \* null

ASSUME LoginsAssumption == MaxLogins \in Nat \ {0}
ASSUME NullAssumption == Null \notin Nat /\ Null \notin Users

Tokens == 1..MaxLogins

VARIABLES configured, \* the server has an administrator
          owner,      \* the user of each token issued, in order
          live,       \* the tokens the server accepts
          storage,    \* localStorage: token and user
          mem,        \* per tab, the variables of session-store
          view,       \* per tab, the state of useSession; Null: not open
          requests,   \* per tab, the requests under way
          dirty       \* per tab, a storage event not yet dispatched

issuer == <<configured, owner, live>>
sessionVars == <<configured, owner, live, storage, mem, view, requests, dirty>>

-----------------------------------------------------------------------------
(* The records the session is made of.                                       *)

Session(token, user) == [token |-> token, user |-> user]
Empty == Session(Null, Null)

RequestWith(kind, token) ==
  [kind |-> kind, token |-> token,
   status |-> "pending", user |-> Null, issued |-> Null, setup |-> "unknown"]
Plain(kind) == RequestWith(kind, Null)

(* What useSession starts with and, with its mount effect, asks at once.     *)
TabMounted(s) ==
  [token |-> s.token, user |-> s.user,
   loading |-> s.token # Null /\ s.user = Null, setup |-> "unknown"]

FirstCall(s) ==
  IF s.token = Null THEN Plain("status")
  ELSE RequestWith("boot", s.token)

(* The listener of useSession: the next state, and whether it asks whether  *)
(* setup is required.                                                        *)
Seen(v, s) ==
  [token |-> s.token, user |-> s.user,
   loading |-> s.token # Null /\ s.user = Null,
   setup |-> IF s.token # Null THEN "done" ELSE v.setup]

AsksNever(v, s) == {}

AsksStatus(v, s) ==
  IF s.token = Null /\ v.setup = "unknown" THEN {Plain("status")} ELSE {}

(* The end of the mount effect, once /auth/me is answered or has failed.     *)
Booted(s) ==
  [token |-> s.token, user |-> s.user, loading |-> FALSE, setup |-> "done"]

(* What App renders.                                                         *)
Open(t) == view[t] # Null
SignedIn(t) == view[t].token # Null /\ view[t].user # Null

Screen(t) ==
  IF ~Open(t) THEN "closed"
  ELSE IF view[t].loading THEN "spinner"
  ELSE IF SignedIn(t) THEN "layout"
  ELSE CASE view[t].setup = "unknown"  -> "spinner"
         [] view[t].setup = "required" -> "setup"
         [] view[t].setup = "done"     -> "login"

-----------------------------------------------------------------------------
(* Storage writes of a tab: its own copies follow, its listener runs, other  *)
(* tabs get a storage event when a value changed.                            *)

Others(t) == {o \in Tabs \ {t} : Open(o)}
Notified(t, s) ==
  dirty' = [o \in Tabs |-> dirty[o] \/ (o \in Others(t) /\ s # storage)]

(* A handler of tab t that drops the request gone, stores s, and emits.         *)
Stores(t, gone, s) ==
  /\ storage' = s
  /\ mem' = [mem EXCEPT ![t] = s]
  /\ view' = [view EXCEPT ![t] = Seen(view[t], s)]
  /\ requests' = [requests EXCEPT ![t] = (@ \ gone) \cup AsksStatus(view[t], s)]
  /\ Notified(t, s)
  /\ UNCHANGED issuer

(* A handler of tab t that drops the request gone and only reads the token.     *)
ReadsToken(t, gone, v) ==
  /\ mem' = [mem EXCEPT ![t].token = storage.token]
  /\ view' = [view EXCEPT ![t] = v]
  /\ requests' = [requests EXCEPT ![t] = @ \ gone]
  /\ UNCHANGED <<issuer, storage, dirty>>

Starts(t, c) ==
  /\ ~\E d \in requests[t] : d.kind = c.kind
  /\ Cardinality(requests[t]) < MaxCalls
  /\ requests' = [requests EXCEPT ![t] = @ \cup {c}]

(* Mutant: the token is not compared.                                       *)
After401Always(token) == Empty

(* The session once a 401 to a request sent with the token is handled.       *)
After401(token) ==
  IF token # Null /\ storage.token = token THEN Empty ELSE storage

-----------------------------------------------------------------------------
(* Tabs.                                                                     *)

Mount(t) ==
  /\ ~Open(t)
  /\ mem' = [mem EXCEPT ![t] = storage]
  /\ view' = [view EXCEPT ![t] = TabMounted(storage)]
  /\ requests' = [requests EXCEPT ![t] = {FirstCall(storage)}]
  /\ UNCHANGED <<issuer, storage, dirty>>

(* Mutant: only a change of the token is noticed.                            *)
StorageEventOfToken(t) ==
  /\ dirty[t]
  /\ dirty' = [dirty EXCEPT ![t] = FALSE]
  /\ mem' = [mem EXCEPT ![t] = storage]
  /\ IF mem[t].token = storage.token THEN UNCHANGED <<view, requests>>
     ELSE /\ view' = [view EXCEPT ![t] = Seen(view[t], storage)]
          /\ requests' = [requests EXCEPT ![t] = @ \cup AsksStatus(view[t], storage)]
  /\ UNCHANGED <<issuer, storage>>

StorageEvent(t) ==
  /\ dirty[t]
  /\ dirty' = [dirty EXCEPT ![t] = FALSE]
  /\ mem' = [mem EXCEPT ![t] = storage]
  /\ IF mem[t] = storage THEN UNCHANGED <<view, requests>>
     ELSE /\ view' = [view EXCEPT ![t] = Seen(view[t], storage)]
          /\ requests' = [requests EXCEPT ![t] = @ \cup AsksStatus(view[t], storage)]
  /\ UNCHANGED <<issuer, storage>>

Submit(t, kind) ==
  /\ Screen(t) = kind
  /\ Starts(t, Plain(kind))
  /\ UNCHANGED <<issuer, storage, mem, view, dirty>>

Request(t, kind) ==
  /\ Screen(t) = "layout" /\ storage.token # Null
  /\ mem' = [mem EXCEPT ![t].token = storage.token]
  /\ Starts(t, RequestWith(kind, storage.token))
  /\ UNCHANGED <<issuer, storage, view, dirty>>

-----------------------------------------------------------------------------
(* The server, and the network that may lose an answer.                      *)

Replies(c) ==
  CASE c.kind \in {"boot", "api", "logout"} /\ c.token \notin live ->
         {[c EXCEPT !.status = "unauthorized"]}
    [] c.kind = "boot" /\ c.token \in live ->
         {[c EXCEPT !.status = "ok", !.user = owner[c.token]],
          [c EXCEPT !.status = "failed"]}
    [] c.kind \in {"api", "logout"} /\ c.token \in live ->
         {[c EXCEPT !.status = "ok"]}
    [] c.kind = "status" ->
         {[c EXCEPT !.status = "ok",
                    !.setup = IF configured THEN "done" ELSE "required"],
          [c EXCEPT !.status = "failed"]}
    [] c.kind = "login" \/ (c.kind = "setup" /\ configured) ->
         {[c EXCEPT !.status = "failed"]}
    [] OTHER -> {}

Replied(t, c, a) == requests' = [requests EXCEPT ![t] = (@ \ {c}) \cup {a}]

Reply(t, c) ==
  /\ c.status = "pending"
  /\ \E a \in Replies(c) : Replied(t, c, a)
  /\ UNCHANGED <<issuer, storage, mem, view, dirty>>

(* A login with the right password, or the setup of an empty server.         *)
Issue(t, c) ==
  /\ c.status = "pending"
  /\ c.kind \in {"login", "setup"}
  /\ c.kind = "login" <=> configured
  /\ Len(owner) < MaxLogins
  /\ \E u \in Users :
       /\ owner' = Append(owner, u)
       /\ live' = live \cup {Len(owner) + 1}
       /\ configured' = TRUE
       /\ Replied(t, c, [c EXCEPT !.status = "ok", !.issued = Len(owner) + 1,
                            !.user = u])
  /\ UNCHANGED <<storage, mem, view, dirty>>

(* A token expires, or its account is deleted.                               *)
Revoke(token) ==
  /\ live' = live \ {token}
  /\ UNCHANGED <<configured, owner, storage, mem, view, requests, dirty>>

-----------------------------------------------------------------------------
(* Answers reach the tab.                                                    *)

Delivered(t, c) == c \in requests[t] /\ c.status # "pending"

(* What the answer to /auth/me leaves in storage; the mutant stores the user *)
(* whatever token is there by now.                                           *)
RefreshedAlways(c) ==
  CASE c.status = "ok" -> [storage EXCEPT !.user = c.user]
    [] c.status = "unauthorized" -> After401(c.token)
    [] OTHER -> storage

Refreshed(c) ==
  CASE c.status = "ok" /\ storage.token = c.token ->
         [storage EXCEPT !.user = c.user]
    [] c.status = "unauthorized" -> After401(c.token)
    [] OTHER -> storage

(* The end of refreshSessionUser and of the mount effect.                    *)
BootAnswered(t, c) ==
  LET s == Refreshed(c)
  IN /\ Delivered(t, c) /\ c.kind = "boot"
     /\ storage' = s
     /\ mem' = [mem EXCEPT ![t] = s]
     /\ view' = [view EXCEPT ![t] = Booted(s)]
     /\ requests' = [requests EXCEPT ![t] =
                    (@ \ {c}) \cup (IF s # storage THEN AsksStatus(view[t], s) ELSE {})]
     /\ Notified(t, s)
     /\ UNCHANGED issuer

StatusAnswered(t, c) ==
  /\ Delivered(t, c) /\ c.kind = "status"
  /\ IF c.status = "ok"
     THEN ReadsToken(t, {c}, IF storage.token = Null
                             THEN [view[t] EXCEPT !.setup = c.setup]
                             ELSE view[t])
     ELSE /\ view' = [view EXCEPT ![t].setup = "done"]
          /\ requests' = [requests EXCEPT ![t] = @ \ {c}]
          /\ UNCHANGED <<issuer, storage, mem, dirty>>

(* login and setup store the session they were given, whatever is there.     *)
LoginAnswered(t, c) ==
  /\ Delivered(t, c) /\ c.kind \in {"login", "setup"}
  /\ IF c.status = "ok" THEN Stores(t, {c}, Session(c.issued, c.user))
     ELSE /\ requests' = [requests EXCEPT ![t] = @ \ {c}]
          /\ UNCHANGED <<issuer, storage, mem, view, dirty>>

(* logout clears the session in a finally, whatever the answer.              *)
LogoutAnswered(t, c) ==
  /\ Delivered(t, c) /\ c.kind = "logout"
  /\ Stores(t, {c}, Empty)

(* doRequest: any other request of a page.                                   *)
ApiAnswered(t, c) ==
  /\ Delivered(t, c) /\ c.kind = "api"
  /\ IF c.status = "unauthorized" /\ After401(c.token) # storage
     THEN Stores(t, {c}, After401(c.token))
     ELSE ReadsToken(t, {c}, view[t])

-----------------------------------------------------------------------------

(* A first visit, a visit with a session of an earlier day, and one with     *)
(* only a token, as stored before the user was.                              *)
SessionInit ==
  /\ configured \in BOOLEAN
  /\ view = [t \in Tabs |-> Null]
  /\ mem = [t \in Tabs |-> Empty]
  /\ requests = [t \in Tabs |-> {}]
  /\ dirty = [t \in Tabs |-> FALSE]
  /\ \/ owner = <<>> /\ live = {} /\ storage = Empty
     \/ /\ configured
        /\ \E u \in Users :
             owner = <<u>> /\ storage \in {Session(1, u), Session(1, Null)}
        /\ live \in {{}, {1}}

Deliver(t) ==
  \E c \in requests[t] :
    \/ BootAnswered(t, c)
    \/ StatusAnswered(t, c)
    \/ LoginAnswered(t, c)
    \/ LogoutAnswered(t, c)
    \/ ApiAnswered(t, c)

Handle(t) == \E c \in requests[t] : Reply(t, c) \/ Issue(t, c)

SessionNext ==
  \/ \E t \in Tabs :
       \/ Mount(t)
       \/ StorageEvent(t)
       \/ \E kind \in {"login", "setup"} : Submit(t, kind)
       \/ \E kind \in {"api", "logout"} : Request(t, kind)
       \/ Handle(t)
       \/ Deliver(t)
  \/ \E token \in live : Revoke(token)

SessionSpec == SessionInit /\ [][SessionNext]_sessionVars

(* Requests are answered or fail, answers and events are dispatched.         *)
SessionFairness ==
  \A t \in Tabs : /\ WF_sessionVars(StorageEvent(t))
                  /\ WF_sessionVars(Handle(t))
                  /\ WF_sessionVars(Deliver(t))

SessionFairSpec == SessionSpec /\ SessionFairness

-----------------------------------------------------------------------------
(* Properties.                                                               *)

Stored == [token: Tokens \cup {Null}, user: Users \cup {Null}]
TabViews == [token: Tokens \cup {Null}, user: Users \cup {Null},
          loading: BOOLEAN, setup: {"unknown", "required", "done"}]
Kinds == {"boot", "status", "login", "setup", "api", "logout"}
RequestRecord ==
  [kind: Kinds, token: Tokens \cup {Null},
   status: {"pending", "ok", "unauthorized", "failed"},
   user: Users \cup {Null}, issued: Tokens \cup {Null},
   setup: {"unknown", "required", "done"}]

(* null is not the state of an open tab.                                     *)
ASSUME ViewAssumption == Null \notin TabViews

(* The types of the variables.                                               *)
TypeOK ==
  /\ configured \in BOOLEAN
  /\ owner \in Seq(Users) /\ Len(owner) <= MaxLogins
  /\ live \subseteq 1..Len(owner)
  /\ storage \in Stored
  /\ mem \in [Tabs -> Stored]
  /\ view \in [Tabs -> TabViews \cup {Null}]
  /\ requests \in [Tabs -> SUBSET RequestRecord]
  /\ dirty \in [Tabs -> BOOLEAN]

(* The user whose name and permissions the console shows is the one whose    *)
(* token it sends: a late /auth/me never pairs the user of an older session  *)
(* with the token of a newer one (session.ts refreshSessionUser).            *)
StoredUserOwnsToken ==
  storage.user # Null =>
    /\ storage.token # Null
    /\ storage.user = owner[storage.token]

(* Once its storage events are dispatched a tab shows the session that is    *)
(* stored: no change of another tab is missed, although a getter may have    *)
(* read it before the event came (session-store).                            *)
UpToDate(t) == Open(t) /\ ~dirty[t]
ViewCatchesUp ==
  \A t \in Tabs : UpToDate(t) =>
    /\ view[t].token = Null <=> storage.token = Null
    /\ view[t].user = storage.user

(* The requests whose answers may clear a stored token, and replace it.      *)
Clears(c) ==
  \/ c.kind = "logout"
  \/ /\ c.kind \in {"boot", "api"} /\ c.status = "unauthorized"
     /\ c.token = storage.token
Replaces(c) ==
  /\ c.kind \in {"login", "setup"} /\ c.status = "ok"
  /\ storage'.token = c.issued
Dropped(t) == requests[t] \ requests'[t]
TokenStays ==
  storage.token # Null /\ storage'.token # storage.token =>
    \E t \in Tabs : \E c \in Dropped(t) :
      IF storage'.token = Null THEN Clears(c) ELSE Replaces(c)

(* A 401 to a request of a page or of a tab's start that was sent with an    *)
(* older token does not end the session stored now (client.ts doRequest,     *)
(* session.test.ts:118): the stored token is cleared by a 401 to a request   *)
(* that carried it, replaced by a login or setup, and otherwise only cleared *)
(* by logouts. These are left out: the answer to any logout clears whatever  *)
(* is stored by then (session.ts logout), also when it comes late, after a   *)
(* newer session began.                                                      *)
Late401Ignored == [][TokenStays]_sessionVars

(* Every tab leaves the loading screen, whatever other tabs do meanwhile.    *)
TabsDecide ==
  \A t \in Tabs : Screen(t) = "spinner" ~> (Screen(t) # "spinner")
=============================================================================
