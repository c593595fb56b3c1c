--------------------------- MODULE WebSessionProofs ---------------------------
(***************************************************************************)
(* Proofs about WebSession, for any number of tabs, users, logins and        *)
(* requests under way: the user a tab shows is the owner of the token it     *)
(* sends, a tab whose storage events are dispatched shows what is stored,    *)
(* and a session is ended only by its logout or a 401 to its own token.      *)
(***************************************************************************)
EXTENDS WebSession, TLAPS

(* Only open tabs have requests under way or storage events to come. *)
OpenInv == \A t \in Tabs : dirty[t] \/ requests[t] # {} => Open(t)

-----------------------------------------------------------------------------
(* The records of a session. *)

LEMMA EmptyStored == Empty \in Stored
  BY DEF Empty, Session, Stored

LEMMA RequestTyped ==
  ASSUME NEW kind \in Kinds, NEW token \in Tokens \cup {Null}
  PROVE  /\ RequestWith(kind, token) \in RequestRecord
         /\ RequestWith(kind, token).kind = kind /\ RequestWith(kind, token).token = token
         /\ RequestWith(kind, token).status = "pending"
  BY DEF RequestWith, RequestRecord

LEMMA PlainTyped ==
  ASSUME NEW kind \in Kinds
  PROVE  /\ Plain(kind) \in RequestRecord
         /\ Plain(kind).kind = kind /\ Plain(kind).status = "pending"
  BY RequestTyped DEF Plain

LEMMA ViewsTyped ==
  ASSUME NEW s \in Stored
  PROVE  /\ TabMounted(s) \in TabViews /\ Booted(s) \in TabViews
         /\ FirstCall(s) \in RequestRecord /\ FirstCall(s).status = "pending"
         /\ FirstCall(s).kind = IF s.token = Null THEN "status" ELSE "boot"
         /\ \A v \in TabViews : Seen(v, s) \in TabViews
<1>1. s.token \in Tokens \cup {Null} /\ s.user \in Users \cup {Null}
  BY DEF Stored
<1>2. TabMounted(s) \in TabViews /\ Booted(s) \in TabViews
  BY <1>1 DEF TabMounted, Booted, TabViews
<1>3. \A v \in TabViews : Seen(v, s) \in TabViews
  BY <1>1 DEF Seen, TabViews
<1>4. "status" \in Kinds /\ "boot" \in Kinds
  BY DEF Kinds
<1>5. /\ FirstCall(s) \in RequestRecord /\ FirstCall(s).status = "pending"
      /\ FirstCall(s).kind = IF s.token = Null THEN "status" ELSE "boot"
  BY <1>1, <1>4, PlainTyped, RequestTyped DEF FirstCall
<1> QED
  BY <1>2, <1>3, <1>5

LEMMA AsksTyped ==
  ASSUME NEW v, NEW s
  PROVE  /\ AsksStatus(v, s) \in SUBSET RequestRecord
         /\ \A c \in AsksStatus(v, s) : c = Plain("status") /\ s.token = Null
<1>1. "status" \in Kinds
  BY DEF Kinds
<1> QED
  BY <1>1, PlainTyped DEF AsksStatus

(* What a 401 leaves, and what the answer to /auth/me leaves. *)
LEMMA After401Typed ==
  ASSUME TypeOK, NEW token
  PROVE  After401(token) \in Stored /\ After401(token) \in {Empty, storage}
  BY EmptyStored DEF After401, TypeOK

LEMMA RefreshedTyped ==
  ASSUME TypeOK, NEW c \in RequestRecord
  PROVE  Refreshed(c) \in Stored
<1>1. [storage EXCEPT !.user = c.user] \in Stored
  BY DEF TypeOK, Stored, RequestRecord
<1> QED
  BY <1>1, After401Typed DEF Refreshed, TypeOK

-----------------------------------------------------------------------------
(* Types. *)

(* A step of tab t. *)
LEMMA TabTyped ==
  ASSUME TypeOK, OpenInv, NEW t \in Tabs, storage' \in Stored,
         NEW m \in Stored, mem' = [mem EXCEPT ![t] = m],
         NEW v \in TabViews, view' = [view EXCEPT ![t] = v],
         NEW k \in SUBSET RequestRecord, requests' = [requests EXCEPT ![t] = k],
         dirty' \in [Tabs -> BOOLEAN],
         \A o \in Tabs : dirty'[o] => dirty[o] \/ Open(o),
         UNCHANGED issuer
  PROVE  TypeOK' /\ OpenInv'
<1>1. TypeOK'
  BY DEF TypeOK, issuer
<1>2. view'[t] # Null /\ \A o \in Tabs \ {t} : view'[o] = view[o] /\ requests'[o] = requests[o]
  BY ViewAssumption DEF TypeOK
<1>3. OpenInv'
  BY <1>2 DEF OpenInv, Open
<1> QED
  BY <1>1, <1>3

LEMMA NotifiedTyped ==
  ASSUME TypeOK, NEW t, NEW s, Notified(t, s)
  PROVE  /\ dirty' \in [Tabs -> BOOLEAN]
         /\ \A o \in Tabs : dirty'[o] <=> dirty[o] \/ (o # t /\ Open(o) /\ s # storage)
<1>1. dirty' = [o \in Tabs |-> dirty[o] \/ (o \in Others(t) /\ s # storage)]
  BY DEF Notified
<1>2. \A o \in Tabs : o \in Others(t) <=> o # t /\ Open(o)
  BY DEF Others
<1>3. \A o \in Tabs : dirty[o] \in BOOLEAN
  BY DEF TypeOK
<1> QED
  BY <1>1, <1>2, <1>3

LEMMA RequestOpen ==
  ASSUME TypeOK, OpenInv, NEW t \in Tabs, NEW c \in requests[t]
  PROVE  c \in RequestRecord /\ Open(t) /\ view[t] \in TabViews
  BY DEF TypeOK, OpenInv, Open

LEMMA StoresTyped ==
  ASSUME TypeOK, OpenInv, NEW t \in Tabs, Open(t), NEW gone, NEW s \in Stored, Stores(t, gone, s)
  PROVE  TypeOK' /\ OpenInv'
<1>1. view[t] \in TabViews /\ Seen(view[t], s) \in TabViews
  BY ViewsTyped DEF TypeOK, Open
<1>2. (requests[t] \ gone) \cup AsksStatus(view[t], s) \in SUBSET RequestRecord
  BY AsksTyped DEF TypeOK
<1>3. /\ dirty' \in [Tabs -> BOOLEAN]
      /\ \A o \in Tabs : dirty'[o] => dirty[o] \/ Open(o)
  BY NotifiedTyped DEF Stores
<1>4. /\ storage' \in Stored
      /\ mem' = [mem EXCEPT ![t] = s]
      /\ view' = [view EXCEPT ![t] = Seen(view[t], s)]
      /\ requests' = [requests EXCEPT ![t] = (requests[t] \ gone) \cup AsksStatus(view[t], s)]
      /\ UNCHANGED issuer
  BY DEF Stores, TypeOK
<1> HIDE DEF Stores
<1> QED
  BY <1>1, <1>2, <1>3, <1>4, TabTyped

LEMMA ReadsTyped ==
  ASSUME TypeOK, OpenInv, NEW t \in Tabs, NEW gone, NEW v \in TabViews, ReadsToken(t, gone, v)
  PROVE  TypeOK' /\ OpenInv'
<1>1. [mem[t] EXCEPT !.token = storage.token] \in Stored
  BY DEF TypeOK, Stored
<1>2. requests[t] \ gone \in SUBSET RequestRecord
  BY DEF TypeOK
<1>3. /\ storage' \in Stored
      /\ mem' = [mem EXCEPT ![t] = [mem[t] EXCEPT !.token = storage.token]]
      /\ view' = [view EXCEPT ![t] = v]
      /\ requests' = [requests EXCEPT ![t] = requests[t] \ gone]
      /\ dirty' \in [Tabs -> BOOLEAN] /\ \A o \in Tabs : dirty'[o] => dirty[o]
      /\ UNCHANGED issuer
  BY DEF ReadsToken, TypeOK
<1> QED
  BY <1>1, <1>2, <1>3, TabTyped

LEMMA InitTyped == SessionInit => TypeOK /\ OpenInv
<1> SUFFICES ASSUME SessionInit PROVE TypeOK /\ OpenInv
  OBVIOUS
<1>0. MaxLogins \in Nat \ {0} /\ 1 \in Tokens
  BY LoginsAssumption DEF Tokens
<1>1. CASE owner = <<>> /\ live = {} /\ storage = Empty
  <2>1. owner \in Seq(Users) /\ Len(owner) <= MaxLogins /\ live \subseteq 1..Len(owner)
    BY <1>0, <1>1
  <2>2. TypeOK
    BY <1>1, <2>1, EmptyStored DEF SessionInit, TypeOK
  <2> QED
    BY <2>2 DEF SessionInit, OpenInv
<1>2. CASE \E u \in Users :
              /\ owner = <<u>> /\ storage \in {Session(1, u), Session(1, Null)}
              /\ live \in {{}, {1}}
  <2>1. PICK u \in Users : /\ owner = <<u>> /\ storage \in {Session(1, u), Session(1, Null)}
                           /\ live \in {{}, {1}}
    BY <1>2
  <2>2. owner \in Seq(Users) /\ Len(owner) <= MaxLogins /\ live \subseteq 1..Len(owner)
    BY <1>0, <2>1
  <2>3. storage \in Stored
    BY <1>0, <2>1 DEF Session, Stored
  <2>4. TypeOK
    BY <2>2, <2>3, EmptyStored DEF SessionInit, TypeOK
  <2> QED
    BY <2>4 DEF SessionInit, OpenInv
<1> QED
  BY <1>1, <1>2 DEF SessionInit

(* The server's answers to a pending call have its kind and its token. *)
LEMMA AnswersTyped ==
  ASSUME TypeOK, NEW c \in RequestRecord, NEW a \in Replies(c)
  PROVE  /\ a \in RequestRecord /\ a.kind = c.kind /\ a.token = c.token /\ a.status # "pending"
         /\ a.status = "ok" => c.kind \notin {"login", "setup"}
         /\ a.status = "ok" /\ c.kind = "boot" => c.token \in live /\ a.user = owner[c.token]
<1>1. \A token \in live : owner[token] \in Users
  BY DEF TypeOK
<1>2. CASE c.kind \in {"boot", "api", "logout"} /\ c.token \notin live
  BY <1>2 DEF Replies, RequestRecord
<1>3. CASE c.kind = "boot" /\ c.token \in live
  BY <1>1, <1>3 DEF Replies, RequestRecord
<1>4. CASE c.kind \in {"api", "logout"} /\ c.token \in live
  BY <1>4 DEF Replies, RequestRecord
<1>5. CASE c.kind = "status"
  BY <1>5 DEF Replies, RequestRecord
<1>6. CASE c.kind = "login" \/ (c.kind = "setup" /\ configured)
  BY <1>6 DEF Replies, RequestRecord
<1>7. CASE c.kind = "setup" /\ ~configured
  BY <1>7 DEF Replies
<1> QED
  BY <1>2, <1>3, <1>4, <1>5, <1>6, <1>7 DEF RequestRecord, Kinds

LEMMA AnsweredTyped ==
  ASSUME TypeOK, OpenInv, NEW t \in Tabs, NEW c \in requests[t], NEW a \in RequestRecord,
         Replied(t, c, a)
  PROVE  /\ requests' \in [Tabs -> SUBSET RequestRecord]
         /\ requests'[t] = (requests[t] \ {c}) \cup {a}
         /\ \A o \in Tabs : o # t => requests'[o] = requests[o]
         /\ \A o \in Tabs : requests'[o] # {} => Open(o)
<1>1. requests' = [requests EXCEPT ![t] = (requests[t] \ {c}) \cup {a}]
  BY DEF Replied
<1>2. (requests[t] \ {c}) \cup {a} \in SUBSET RequestRecord
  BY DEF TypeOK
<1>3. /\ requests'[t] = (requests[t] \ {c}) \cup {a}
      /\ \A o \in Tabs : o # t => requests'[o] = requests[o]
  BY <1>1 DEF TypeOK
<1>4. requests' \in [Tabs -> SUBSET RequestRecord]
  BY <1>1, <1>2 DEF TypeOK
<1>5. \A o \in Tabs : requests'[o] # {} => Open(o)
  BY <1>3 DEF OpenInv
<1> QED
  BY <1>3, <1>4, <1>5

(* The user and the token an issued session is sent with. *)
LEMMA IssueTyped ==
  ASSUME TypeOK, OpenInv, NEW t \in Tabs, NEW c \in requests[t], Issue(t, c)
  PROVE  \E u \in Users : \E a \in RequestRecord :
           /\ owner' = Append(owner, u) /\ owner' \in Seq(Users)
           /\ Len(owner') = Len(owner) + 1 /\ Len(owner') <= MaxLogins
           /\ owner'[Len(owner) + 1] = u
           /\ \A token \in DOMAIN owner : token \in DOMAIN owner' /\ owner'[token] = owner[token]
           /\ live' \subseteq 1..Len(owner')
           /\ a.kind = c.kind /\ a.token = c.token /\ a.status = "ok"
           /\ a.issued = Len(owner) + 1 /\ a.user = u
           /\ Replied(t, c, a)
<1>1. /\ owner \in Seq(Users) /\ Len(owner) < MaxLogins /\ MaxLogins \in Nat
      /\ live \subseteq 1..Len(owner)
  BY LoginsAssumption DEF Issue, TypeOK
<1>2. PICK u \in Users :
        /\ owner' = Append(owner, u)
        /\ live' = live \cup {Len(owner) + 1}
        /\ Replied(t, c, [c EXCEPT !.status = "ok", !.issued = Len(owner) + 1, !.user = u])
  BY DEF Issue
<1> DEFINE a == [c EXCEPT !.status = "ok", !.issued = Len(owner) + 1, !.user = u]
<1>3. Len(owner) + 1 \in Tokens
  BY <1>1 DEF Tokens
<1>4. c \in RequestRecord
  BY RequestOpen
<1>5. /\ a \in RequestRecord /\ a.kind = c.kind /\ a.token = c.token /\ a.status = "ok"
      /\ a.issued = Len(owner) + 1 /\ a.user = u
  BY <1>3, <1>4 DEF RequestRecord
<1>6. /\ owner' \in Seq(Users) /\ Len(owner') = Len(owner) + 1 /\ Len(owner') <= MaxLogins
      /\ owner'[Len(owner) + 1] = u
      /\ \A token \in DOMAIN owner : token \in DOMAIN owner' /\ owner'[token] = owner[token]
      /\ live' \subseteq 1..Len(owner')
  BY <1>1, <1>2
<1> QED
  BY <1>2, <1>5, <1>6

LEMMA StepTyped == TypeOK /\ OpenInv /\ [SessionNext]_sessionVars => TypeOK' /\ OpenInv'
<1> SUFFICES ASSUME TypeOK, OpenInv, [SessionNext]_sessionVars PROVE TypeOK' /\ OpenInv'
  OBVIOUS
<1> DEFINE Goal == TypeOK' /\ OpenInv'
<1>0. /\ storage \in Stored /\ mem \in [Tabs -> Stored] /\ view \in [Tabs -> TabViews \cup {Null}]
      /\ requests \in [Tabs -> SUBSET RequestRecord] /\ dirty \in [Tabs -> BOOLEAN]
  BY DEF TypeOK
<1>k. /\ {"login", "setup", "api", "logout"} \subseteq Kinds
      /\ Null \in Tokens \cup {Null}
  BY DEF Kinds
<1>1. ASSUME NEW t \in Tabs, Mount(t) PROVE Goal
  <2>1. TabMounted(storage) \in TabViews /\ {FirstCall(storage)} \in SUBSET RequestRecord
    BY <1>0, ViewsTyped
  <2>2. /\ mem' = [mem EXCEPT ![t] = storage]
        /\ view' = [view EXCEPT ![t] = TabMounted(storage)]
        /\ requests' = [requests EXCEPT ![t] = {FirstCall(storage)}]
        /\ UNCHANGED <<issuer, storage, dirty>>
    BY <1>1 DEF Mount
  <2>3. \A o \in Tabs : dirty'[o] => dirty[o] \/ Open(o)
    BY <2>2
  <2> QED
    BY <1>0, <2>1, <2>2, <2>3, TabTyped
<1>2. ASSUME NEW t \in Tabs, StorageEvent(t) PROVE Goal
  <2>1. Open(t) /\ view[t] \in TabViews
    BY <1>0, <1>2 DEF StorageEvent, OpenInv, Open
  <2>2. /\ dirty' = [dirty EXCEPT ![t] = FALSE]
        /\ mem' = [mem EXCEPT ![t] = storage]
        /\ UNCHANGED <<issuer, storage>>
    BY <1>2 DEF StorageEvent
  <2>3. /\ dirty' \in [Tabs -> BOOLEAN]
        /\ \A o \in Tabs : dirty'[o] => dirty[o] \/ Open(o)
    BY <1>0, <2>2
  <2>4. CASE mem[t] = storage
    <3>1. view' = view /\ requests' = requests
      BY <1>2, <2>4 DEF StorageEvent
    <3>2. TypeOK'
      BY <1>0, <2>2, <2>3, <3>1 DEF TypeOK, issuer
    <3>3. OpenInv'
      BY <2>3, <3>1 DEF OpenInv, Open
    <3> QED
      BY <3>2, <3>3
  <2>5. CASE mem[t] # storage
    <3>1. /\ view' = [view EXCEPT ![t] = Seen(view[t], storage)]
          /\ requests' = [requests EXCEPT ![t] = requests[t] \cup AsksStatus(view[t], storage)]
      BY <1>2, <2>5 DEF StorageEvent
    <3>2. Seen(view[t], storage) \in TabViews
      BY <1>0, <2>1, ViewsTyped
    <3>3. requests[t] \cup AsksStatus(view[t], storage) \in SUBSET RequestRecord
      BY <1>0, AsksTyped
    <3> QED
      BY <1>0, <2>2, <2>3, <3>1, <3>2, <3>3, TabTyped
  <2> QED
    BY <2>4, <2>5
(* A tab that sends a request is open and keeps its view. *)
<1>s. ASSUME NEW t \in Tabs, Open(t), NEW c \in RequestRecord, Starts(t, c),
             mem' \in [Tabs -> Stored], UNCHANGED <<issuer, storage, view, dirty>>
      PROVE  Goal
  <2>1. requests' = [requests EXCEPT ![t] = requests[t] \cup {c}]
    BY <1>s DEF Starts
  <2>2. requests[t] \cup {c} \in SUBSET RequestRecord
    BY <1>0
  <2>3. requests' \in [Tabs -> SUBSET RequestRecord]
    BY <1>0, <2>1, <2>2
  <2>4. TypeOK'
    BY <1>0, <1>s, <2>3 DEF TypeOK, issuer
  <2>5. \A o \in Tabs \ {t} : requests'[o] = requests[o]
    BY <1>0, <2>1
  <2>6. OpenInv'
    BY <1>s, <2>5 DEF OpenInv, Open
  <2> QED
    BY <2>4, <2>6
<1>3. ASSUME NEW t \in Tabs, NEW kind \in {"login", "setup"}, Submit(t, kind) PROVE Goal
  <2>1. Open(t)
    BY <1>3 DEF Submit, Screen
  <2>2. Plain(kind) \in RequestRecord
    BY <1>k, PlainTyped
  <2>3. Starts(t, Plain(kind)) /\ UNCHANGED <<issuer, storage, mem, view, dirty>>
    BY <1>3 DEF Submit
  <2> QED
    BY <1>0, <1>s, <2>1, <2>2, <2>3
<1>4. ASSUME NEW t \in Tabs, NEW kind \in {"api", "logout"}, Request(t, kind) PROVE Goal
  <2>1. Open(t)
    BY <1>4 DEF Request, Screen
  <2>2. RequestWith(kind, storage.token) \in RequestRecord
    BY <1>0, <1>k, RequestTyped DEF Stored
  <2>3. /\ Starts(t, RequestWith(kind, storage.token))
        /\ mem' = [mem EXCEPT ![t].token = storage.token]
        /\ UNCHANGED <<issuer, storage, view, dirty>>
    BY <1>4 DEF Request
  <2>4. [mem[t] EXCEPT !.token = storage.token] \in Stored
    BY <1>0 DEF Stored
  <2>5. mem' \in [Tabs -> Stored]
    BY <1>0, <2>3, <2>4
  <2> QED
    BY <1>s, <2>1, <2>2, <2>3, <2>5
<1>5. ASSUME NEW t \in Tabs, NEW c \in requests[t], Reply(t, c) PROVE Goal
  <2>1. PICK a \in Replies(c) : Replied(t, c, a)
    BY <1>5 DEF Reply
  <2>2. a \in RequestRecord
    BY AnswersTyped, RequestOpen
  <2>3. /\ requests' \in [Tabs -> SUBSET RequestRecord]
        /\ \A o \in Tabs : requests'[o] # {} => Open(o)
    BY <2>1, <2>2, AnsweredTyped
  <2>4. UNCHANGED <<issuer, storage, mem, view, dirty>>
    BY <1>5 DEF Reply
  <2>5. TypeOK'
    BY <1>0, <2>3, <2>4 DEF TypeOK, issuer
  <2>6. OpenInv'
    BY <2>3, <2>4 DEF OpenInv, Open
  <2> QED
    BY <2>5, <2>6
<1>6. ASSUME NEW t \in Tabs, NEW c \in requests[t], Issue(t, c) PROVE Goal
  <2>1. PICK u \in Users, a \in RequestRecord :
          /\ owner' \in Seq(Users) /\ Len(owner') <= MaxLogins
          /\ live' \subseteq 1..Len(owner')
          /\ Replied(t, c, a)
    BY <1>6, IssueTyped
  <2>3. /\ requests' \in [Tabs -> SUBSET RequestRecord]
        /\ \A o \in Tabs : requests'[o] # {} => Open(o)
    BY <2>1, AnsweredTyped
  <2>4. configured' \in BOOLEAN /\ UNCHANGED <<storage, mem, view, dirty>>
    BY <1>6 DEF Issue
  <2>5. TypeOK'
    BY <1>0, <2>1, <2>3, <2>4 DEF TypeOK
  <2>6. OpenInv'
    BY <2>3, <2>4 DEF OpenInv, Open
  <2> QED
    BY <2>5, <2>6
<1>7. ASSUME NEW t \in Tabs, NEW c \in requests[t], BootAnswered(t, c) PROVE Goal
  <2> DEFINE s == Refreshed(c)
             k == (requests[t] \ {c}) \cup (IF s # storage THEN AsksStatus(view[t], s) ELSE {})
  <2>1. s \in Stored /\ Booted(s) \in TabViews
    BY RefreshedTyped, ViewsTyped, RequestOpen
  <2>2. k \in SUBSET RequestRecord
    BY <1>0, AsksTyped
  <2>3. /\ storage' = s /\ mem' = [mem EXCEPT ![t] = s]
        /\ view' = [view EXCEPT ![t] = Booted(s)]
        /\ requests' = [requests EXCEPT ![t] = k]
        /\ Notified(t, s) /\ UNCHANGED issuer
    BY <1>7 DEF BootAnswered
  <2> HIDE DEF s, k
  <2>4. /\ dirty' \in [Tabs -> BOOLEAN]
        /\ \A o \in Tabs : dirty'[o] => dirty[o] \/ Open(o)
    BY <2>3, NotifiedTyped
  <2> QED
    BY <2>1, <2>2, <2>3, <2>4, TabTyped
<1>8. ASSUME NEW t \in Tabs, NEW c \in requests[t], StatusAnswered(t, c) PROVE Goal
  <2>1. view[t] \in TabViews /\ c \in RequestRecord /\ Open(t)
    BY RequestOpen
  <2>2. [view[t] EXCEPT !.setup = c.setup] \in TabViews /\ [view[t] EXCEPT !.setup = "done"] \in TabViews
    BY <2>1 DEF TabViews, RequestRecord
  <2>3. CASE c.status = "ok"
    <3>1. ReadsToken(t, {c}, IF storage.token = Null THEN [view[t] EXCEPT !.setup = c.setup]
                             ELSE view[t])
      BY <1>8, <2>3 DEF StatusAnswered
    <3> QED
      BY <2>1, <2>2, <3>1, ReadsTyped
  <2>4. CASE c.status # "ok"
    <3>1. /\ view' = [view EXCEPT ![t] = [view[t] EXCEPT !.setup = "done"]]
          /\ requests' = [requests EXCEPT ![t] = requests[t] \ {c}]
          /\ mem' = [mem EXCEPT ![t] = mem[t]]
          /\ UNCHANGED <<issuer, storage, dirty>>
      BY <1>0, <1>8, <2>4 DEF StatusAnswered
    <3>2. requests[t] \ {c} \in SUBSET RequestRecord /\ mem[t] \in Stored
      BY <1>0
    <3>3. \A o \in Tabs : dirty'[o] => dirty[o] \/ Open(o)
      BY <3>1
    <3> QED
      BY <1>0, <2>2, <3>1, <3>2, <3>3, TabTyped
  <2> QED
    BY <2>3, <2>4
<1>9. ASSUME NEW t \in Tabs, NEW c \in requests[t], LoginAnswered(t, c) PROVE Goal
  <2>1. view[t] \in TabViews /\ c \in RequestRecord /\ Open(t)
    BY RequestOpen
  <2>2. CASE c.status = "ok"
    <3>1. Session(c.issued, c.user) \in Stored
      BY <2>1 DEF Session, Stored, RequestRecord
    <3> QED
      BY <1>9, <2>1, <2>2, <3>1, StoresTyped DEF LoginAnswered
  <2>3. CASE c.status # "ok"
    <3>1. /\ view' = [view EXCEPT ![t] = view[t]]
          /\ requests' = [requests EXCEPT ![t] = requests[t] \ {c}]
          /\ mem' = [mem EXCEPT ![t] = mem[t]]
          /\ UNCHANGED <<issuer, storage, dirty>>
      BY <1>0, <1>9, <2>3 DEF LoginAnswered
    <3>2. requests[t] \ {c} \in SUBSET RequestRecord /\ mem[t] \in Stored
      BY <1>0
    <3>3. \A o \in Tabs : dirty'[o] => dirty[o] \/ Open(o)
      BY <3>1
    <3> QED
      BY <1>0, <2>1, <3>1, <3>2, <3>3, TabTyped
  <2> QED
    BY <2>2, <2>3
<1>10. ASSUME NEW t \in Tabs, NEW c \in requests[t], LogoutAnswered(t, c) PROVE Goal
  BY <1>10, RequestOpen, EmptyStored, StoresTyped DEF LogoutAnswered
<1>11. ASSUME NEW t \in Tabs, NEW c \in requests[t], ApiAnswered(t, c) PROVE Goal
  <2>1. view[t] \in TabViews /\ Open(t) /\ After401(c.token) \in Stored
    BY RequestOpen, After401Typed
  <2>2. Stores(t, {c}, After401(c.token)) \/ ReadsToken(t, {c}, view[t])
    BY <1>11 DEF ApiAnswered
  <2> QED
    BY <2>1, <2>2, StoresTyped, ReadsTyped
<1>12. ASSUME NEW token \in live, Revoke(token) PROVE Goal
  <2>1. live' \subseteq live /\ UNCHANGED <<configured, owner, storage, mem, view, requests, dirty>>
    BY <1>12 DEF Revoke
  <2>2. TypeOK' /\ OpenInv'
    BY <2>1 DEF TypeOK, OpenInv, Open
  <2> QED
    BY <2>2
<1>13. CASE UNCHANGED sessionVars
  BY <1>13 DEF sessionVars, TypeOK, OpenInv, Open
<1>14. ASSUME NEW t \in Tabs, Handle(t) PROVE Goal
  BY <1>5, <1>6, <1>14 DEF Handle
<1>15. ASSUME NEW t \in Tabs, Deliver(t) PROVE Goal
  BY <1>7, <1>8, <1>9, <1>10, <1>11, <1>15 DEF Deliver
<1>16. CASE SessionNext
  BY <1>1, <1>2, <1>3, <1>4, <1>12, <1>14, <1>15, <1>16 DEF SessionNext
<1> QED
  BY <1>13, <1>16

(* Type correctness; in particular a tab that is not open has no request
   under way and no event to handle. *)
THEOREM SessionTypes == SessionSpec => []TypeOK
  BY InitTyped, StepTyped, PTL DEF SessionSpec

-----------------------------------------------------------------------------
(* Whose token is stored. *)

(* A session names a token that was issued, and with a user its owner. *)
Owned(s) ==
  /\ s.token # Null => s.token \in DOMAIN owner
  /\ s.user # Null => s.token # Null /\ s.user = owner[s.token]

(* The user an answer gives is the owner of the token it is about. *)
Honest(c) ==
  c.status = "ok" =>
    /\ c.kind = "boot" => c.token \in DOMAIN owner /\ c.user = owner[c.token]
    /\ c.kind \in {"login", "setup"} => c.issued \in DOMAIN owner /\ c.user = owner[c.issued]

OwnInv == Owned(storage) /\ \A t \in Tabs : \A c \in requests[t] : Honest(c)

LEMMA OwnerTyped ==
  ASSUME TypeOK
  PROVE  /\ live \subseteq DOMAIN owner
         /\ \A token \in DOMAIN owner : owner[token] \in Users /\ token # Null
         /\ \A u \in Users : u # Null
<1>1. DOMAIN owner \subseteq Nat
  BY DEF TypeOK
<1> QED
  BY <1>1, NullAssumption DEF TypeOK

LEMMA RefreshedOwned ==
  ASSUME TypeOK, OwnInv, NEW t \in Tabs, NEW c \in requests[t], c.kind = "boot"
  PROVE  Owned(Refreshed(c))
<1>1. Owned(storage) /\ Owned(Empty)
  BY DEF OwnInv, Owned, Empty, Session
<1>2. Owned(After401(c.token))
  BY <1>1 DEF After401
<1>3. CASE c.status = "ok" /\ storage.token = c.token
  <2>1. c.token \in DOMAIN owner /\ c.user = owner[c.token] /\ c.token # Null
    BY <1>3, OwnerTyped DEF OwnInv, Honest
  <2>2. Refreshed(c) = [storage EXCEPT !.user = c.user]
    BY <1>3 DEF Refreshed
  <2>3. Refreshed(c).token = storage.token /\ Refreshed(c).user = c.user
    BY <2>2 DEF TypeOK, Stored
  <2> QED
    BY <1>3, <2>1, <2>3 DEF Owned
<1>4. CASE ~(c.status = "ok" /\ storage.token = c.token)
  BY <1>1, <1>2, <1>4 DEF Refreshed
<1> QED
  BY <1>3, <1>4

LEMMA StepOwn == TypeOK /\ OpenInv /\ OwnInv /\ [SessionNext]_sessionVars => OwnInv'
<1> SUFFICES ASSUME TypeOK, OpenInv, OwnInv, [SessionNext]_sessionVars PROVE OwnInv'
  OBVIOUS
<1>0. requests \in [Tabs -> SUBSET RequestRecord] /\ storage \in Stored
  BY DEF TypeOK
(* The tokens stay issued, and no call is answered. *)
<1>f. ASSUME UNCHANGED owner, Owned(storage'),
             \A t \in Tabs : \A c \in requests'[t] : c \in requests[t] \/ c.status = "pending"
      PROVE  OwnInv'
  <2>1. \A t \in Tabs : \A c \in requests'[t] : Honest(c)
    BY <1>f DEF OwnInv, Honest
  <2> QED
    BY <1>f, <2>1 DEF OwnInv, Owned, Honest
<1>a. \A v, s : \A c \in AsksStatus(v, s) : c.status = "pending"
  <2>1. "status" \in Kinds
    BY DEF Kinds
  <2> QED
    BY <2>1, AsksTyped, PlainTyped
(* A tab step that adds no more calls than a question whether setup is required. *)
<1>g. ASSUME NEW t \in Tabs, UNCHANGED owner, Owned(storage'), NEW k, NEW v, NEW s,
             k \subseteq requests[t] \cup AsksStatus(v, s), requests' = [requests EXCEPT ![t] = k]
      PROVE  OwnInv'
  <2>1. \A o \in Tabs : requests'[o] \subseteq requests[o] \cup AsksStatus(v, s)
    BY <1>0, <1>g
  <2> QED
    BY <1>a, <1>f, <1>g, <2>1
<1>h. Owned(storage)
  BY DEF OwnInv
<1>k. {"login", "setup", "api", "logout"} \subseteq Kinds
  BY DEF Kinds
<1>1. ASSUME NEW t \in Tabs, Mount(t) PROVE OwnInv'
  <2>1. requests' = [requests EXCEPT ![t] = {FirstCall(storage)}] /\ UNCHANGED <<owner, storage>>
    BY <1>1 DEF Mount, issuer
  <2>2. FirstCall(storage).status = "pending"
    BY <1>0, ViewsTyped
  <2>3. \A o \in Tabs : \A c \in requests'[o] : c \in requests[o] \/ c.status = "pending"
    BY <1>0, <2>1, <2>2
  <2>4. Owned(storage')
    BY <1>h, <2>1
  <2> QED
    BY <1>f, <2>1, <2>3, <2>4
<1>2. ASSUME NEW t \in Tabs, StorageEvent(t) PROVE OwnInv'
  <2>1. UNCHANGED <<owner, storage>> /\ Owned(storage')
    BY <1>2, <1>h DEF StorageEvent, issuer
  <2>2. requests' = requests \/ requests' = [requests EXCEPT ![t] = requests[t] \cup AsksStatus(view[t], storage)]
    BY <1>2 DEF StorageEvent
  <2> QED
    BY <1>f, <1>g, <2>1, <2>2
<1>s. ASSUME NEW t \in Tabs, NEW c, c.status = "pending", Starts(t, c), UNCHANGED <<owner, storage>>
      PROVE  OwnInv'
  <2>1. requests' = [requests EXCEPT ![t] = requests[t] \cup {c}]
    BY <1>s DEF Starts
  <2>2. \A o \in Tabs : \A d \in requests'[o] : d \in requests[o] \/ d.status = "pending"
    BY <1>0, <1>s, <2>1
  <2>3. Owned(storage')
    BY <1>h, <1>s
  <2> QED
    BY <1>f, <1>s, <2>2, <2>3
<1>3. ASSUME NEW t \in Tabs, NEW kind \in {"login", "setup"}, Submit(t, kind) PROVE OwnInv'
  <2>1. Plain(kind).status = "pending"
    BY <1>k, PlainTyped
  <2> QED
    BY <1>3, <1>s, <2>1 DEF Submit, issuer
<1>4. ASSUME NEW t \in Tabs, NEW kind \in {"api", "logout"}, Request(t, kind) PROVE OwnInv'
  <2>1. RequestWith(kind, storage.token).status = "pending"
    BY DEF RequestWith
  <2> QED
    BY <1>4, <1>s, <2>1 DEF Request, issuer
<1>5. ASSUME NEW t \in Tabs, NEW c \in requests[t], Reply(t, c) PROVE OwnInv'
  <2>1. PICK a \in Replies(c) : Replied(t, c, a)
    BY <1>5 DEF Reply
  <2>2. UNCHANGED <<owner, storage>>
    BY <1>5 DEF Reply, issuer
  <2>3. a \in RequestRecord /\ Honest(a)
    BY AnswersTyped, RequestOpen, OwnerTyped DEF Honest
  <2>4. \A o \in Tabs : \A d \in requests'[o] : d \in requests[o] \/ d = a
    BY <2>1, <2>3, AnsweredTyped
  <2>5. \A o \in Tabs : \A d \in requests'[o] : Honest(d)
    BY <2>3, <2>4 DEF OwnInv
  <2> QED
    BY <1>h, <2>2, <2>5 DEF OwnInv, Owned, Honest
<1>6. ASSUME NEW t \in Tabs, NEW c \in requests[t], Issue(t, c) PROVE OwnInv'
  <2>1. PICK u \in Users, a \in RequestRecord :
          /\ owner' \in Seq(Users) /\ Len(owner') = Len(owner) + 1
          /\ owner'[Len(owner) + 1] = u
          /\ \A token \in DOMAIN owner : token \in DOMAIN owner' /\ owner'[token] = owner[token]
          /\ a.kind = c.kind /\ a.issued = Len(owner) + 1 /\ a.user = u
          /\ Replied(t, c, a)
    BY <1>6, IssueTyped
  <2>2. c.kind \in {"login", "setup"} /\ storage' = storage
    BY <1>6 DEF Issue
  <2>3. Len(owner) + 1 \in DOMAIN owner'
    BY <2>1 DEF TypeOK
  <2>4. \A o \in Tabs : \A d \in requests'[o] : d \in requests[o] \/ d = a
    BY <2>1, AnsweredTyped
  <2>5. \A d : Honest(d) => Honest(d)'
    BY <2>1 DEF Honest
  <2>6. Honest(a)'
    BY <2>1, <2>2, <2>3 DEF Honest
  <2>7. \A o \in Tabs : \A d \in requests'[o] : Honest(d)'
    BY <2>4, <2>5, <2>6 DEF OwnInv
  <2>8. Owned(storage)'
    BY <1>h, <2>1, <2>2 DEF Owned
  <2> QED
    BY <2>7, <2>8 DEF OwnInv
<1>7. ASSUME NEW t \in Tabs, NEW c \in requests[t], BootAnswered(t, c) PROVE OwnInv'
  <2> DEFINE s == Refreshed(c)
             k == (requests[t] \ {c}) \cup (IF s # storage THEN AsksStatus(view[t], s) ELSE {})
  <2>1. /\ c.kind = "boot" /\ storage' = s /\ requests' = [requests EXCEPT ![t] = k]
        /\ UNCHANGED owner
    BY <1>7 DEF BootAnswered, issuer
  <2>2. Owned(s)
    BY <2>1, RefreshedOwned
  <2>3. k \subseteq requests[t] \cup AsksStatus(view[t], s)
    OBVIOUS
  <2> HIDE DEF s, k
  <2>4. Owned(storage')
    BY <2>1, <2>2
  <2> QED
    BY <1>g, <2>1, <2>3, <2>4
<1>8. ASSUME NEW t \in Tabs, NEW c \in requests[t], StatusAnswered(t, c) PROVE OwnInv'
  <2>1. requests' = [requests EXCEPT ![t] = requests[t] \ {c}] /\ UNCHANGED <<owner, storage>>
    BY <1>8 DEF StatusAnswered, ReadsToken, issuer
  <2> QED
    BY <1>g, <1>h, <2>1
(* A session stored by a tab. *)
<1>t. ASSUME NEW t \in Tabs, NEW gone, NEW s, Owned(s), Stores(t, gone, s) PROVE OwnInv'
  <2>1. /\ requests' = [requests EXCEPT ![t] = (requests[t] \ gone) \cup AsksStatus(view[t], s)]
        /\ storage' = s /\ UNCHANGED owner
    BY <1>t DEF Stores, issuer
  <2>2. Owned(storage')
    BY <1>t, <2>1
  <2>3. (requests[t] \ gone) \cup AsksStatus(view[t], s) \subseteq requests[t] \cup AsksStatus(view[t], s)
    OBVIOUS
  <2> QED
    BY <1>g, <2>1, <2>2, <2>3
<1>9. ASSUME NEW t \in Tabs, NEW c \in requests[t], LoginAnswered(t, c) PROVE OwnInv'
  <2>1. CASE c.status = "ok"
    <3>1. c.issued \in DOMAIN owner /\ c.user = owner[c.issued]
      BY <1>9, <2>1 DEF LoginAnswered, OwnInv, Honest
    <3>2. Owned(Session(c.issued, c.user))
      BY <3>1, OwnerTyped DEF Owned, Session
    <3> QED
      BY <1>9, <1>t, <2>1, <3>2 DEF LoginAnswered
  <2>2. CASE c.status # "ok"
    <3>1. requests' = [requests EXCEPT ![t] = requests[t] \ {c}] /\ UNCHANGED <<owner, storage>>
      BY <1>9, <2>2 DEF LoginAnswered, issuer
    <3> QED
      BY <1>g, <1>h, <3>1
  <2> QED
    BY <2>1, <2>2
<1>e. Owned(Empty)
  BY DEF Owned, Empty, Session
<1>10. ASSUME NEW t \in Tabs, NEW c \in requests[t], LogoutAnswered(t, c) PROVE OwnInv'
  BY <1>10, <1>e, <1>t DEF LogoutAnswered
<1>11. ASSUME NEW t \in Tabs, NEW c \in requests[t], ApiAnswered(t, c) PROVE OwnInv'
  <2>1. CASE Stores(t, {c}, After401(c.token))
    <3>1. Owned(After401(c.token))
      BY <1>e, <1>h DEF After401
    <3> QED
      BY <1>t, <2>1, <3>1
  <2>2. CASE ReadsToken(t, {c}, view[t])
    <3>1. requests' = [requests EXCEPT ![t] = requests[t] \ {c}] /\ UNCHANGED <<owner, storage>>
      BY <2>2 DEF ReadsToken, issuer
    <3> QED
      BY <1>g, <1>h, <3>1
  <2> QED
    BY <1>11, <2>1, <2>2 DEF ApiAnswered
<1>12. ASSUME NEW token \in live, Revoke(token) PROVE OwnInv'
  BY <1>12, <1>f, <1>h DEF Revoke
<1>13. CASE UNCHANGED sessionVars
  BY <1>13, <1>f, <1>h DEF sessionVars
<1>14. ASSUME NEW t \in Tabs, Handle(t) PROVE OwnInv'
  BY <1>5, <1>6, <1>14 DEF Handle
<1>15. ASSUME NEW t \in Tabs, Deliver(t) PROVE OwnInv'
  BY <1>7, <1>8, <1>9, <1>10, <1>11, <1>15 DEF Deliver
<1>16. CASE SessionNext
  BY <1>1, <1>2, <1>3, <1>4, <1>12, <1>14, <1>15, <1>16 DEF SessionNext
<1> QED
  BY <1>13, <1>16

LEMMA InitOwn == SessionInit => OwnInv
<1> SUFFICES ASSUME SessionInit PROVE OwnInv
  OBVIOUS
<1>1. Owned(storage)
  <2>1. CASE storage = Empty
    BY <2>1 DEF Owned, Empty, Session
  <2>2. CASE \E u \in Users : owner = <<u>> /\ storage \in {Session(1, u), Session(1, Null)}
    <3>1. PICK u \in Users : owner = <<u>> /\ storage \in {Session(1, u), Session(1, Null)}
      BY <2>2
    <3>2. 1 \in DOMAIN owner /\ owner[1] = u /\ 1 # Null
      BY <3>1, NullAssumption
    <3> QED
      BY <3>1, <3>2 DEF Owned, Session
  <2> QED
    BY <2>1, <2>2 DEF SessionInit
<1> QED
  BY <1>1 DEF SessionInit, OwnInv

(* The user the console shows is the one whose token it sends, in whatever
   order the answers to /auth/me and to logins of all tabs come. *)
THEOREM UserOwnsToken == SessionSpec => []StoredUserOwnsToken
<1>1. TypeOK /\ OpenInv /\ OwnInv /\ [SessionNext]_sessionVars => OwnInv'
  BY StepOwn
<1>2. OwnInv => StoredUserOwnsToken
  BY DEF OwnInv, Owned, StoredUserOwnsToken
<1> QED
  BY <1>1, <1>2, InitOwn, InitTyped, StepTyped, PTL DEF SessionSpec

-----------------------------------------------------------------------------
(* What a settled tab shows. *)

(* A token stored without its user: the session of an earlier day before
   /auth/me answers. Nothing stores one any more. *)
Bare(s) == s.token # Null /\ s.user = Null

(* The tab has no request that only a tab without a token, or with a user,
   sends; these are the ones whose answers read the token of storage without
   the user. *)
Quiet(t) == \A c \in requests[t] : c.kind \notin {"status", "api", "logout"}

(* What t holds of storage: its copies follow with the event, its view has the
   user of its copies. A bare session is only seen by tabs that saw no other. *)
Synced(t) ==
  /\ Bare(storage) => /\ ~dirty[t] /\ Quiet(t)
                      /\ Open(t) => mem[t] = storage /\ Bare(view[t])
  /\ Open(t) => /\ ~dirty[t] => mem[t] = storage
                /\ view[t].user = mem[t].user
                /\ view[t].user # Null => view[t].token # Null
                /\ Bare(view[t]) => Bare(mem[t]) /\ Quiet(t)

SyncInv == \A t \in Tabs : Synced(t)

LEMMA SyncedShows ==
  TypeOK /\ OwnInv /\ SyncInv => ViewCatchesUp
<1> SUFFICES ASSUME TypeOK, OwnInv, SyncInv, NEW t \in Tabs, Open(t), ~dirty[t]
             PROVE  /\ view[t].token = Null <=> storage.token = Null
                    /\ view[t].user = storage.user
  BY DEF ViewCatchesUp, UpToDate
<1>1. /\ mem[t] = storage /\ view[t].user = storage.user
      /\ view[t].user # Null => view[t].token # Null
      /\ Bare(view[t]) => Bare(storage)
      /\ Bare(storage) => Bare(view[t])
  BY DEF SyncInv, Synced
<1>2. storage.user # Null => storage.token # Null
  BY DEF OwnInv, Owned
<1> QED
  BY <1>1, <1>2 DEF Bare

(* What a step of tab t leaves to the other tabs: an event when it stored
   something else, and never a bare session. *)
LEMMA OthersSynced ==
  ASSUME TypeOK, SyncInv, NEW t \in Tabs,
         Bare(storage') => storage' = storage,
         \A o \in Tabs \ {t} :
           /\ mem'[o] = mem[o] /\ view'[o] = view[o] /\ requests'[o] = requests[o]
           /\ dirty'[o] <=> dirty[o] \/ (Open(o) /\ storage' # storage),
         Synced(t)'
  PROVE  SyncInv'
<1> SUFFICES ASSUME NEW o \in Tabs \ {t} PROVE Synced(o)'
  BY DEF SyncInv
<1>1. Synced(o)
  BY DEF SyncInv
<1>2. /\ mem'[o] = mem[o] /\ view'[o] = view[o] /\ requests'[o] = requests[o]
      /\ dirty'[o] <=> dirty[o] \/ (Open(o) /\ storage' # storage)
      /\ Open(o)' <=> Open(o)
      /\ Quiet(o)' <=> Quiet(o)
  BY DEF Open, Quiet
<1>3. Bare(storage') <=> Bare(storage)'
  OBVIOUS
<1>4. ASSUME Bare(storage)'
      PROVE  /\ ~dirty'[o] /\ Quiet(o)'
             /\ Open(o)' => mem'[o] = storage' /\ Bare(view'[o])
  <2>1. storage' = storage /\ Bare(storage)
    BY <1>3, <1>4
  <2> QED
    BY <1>1, <1>2, <2>1 DEF Synced
<1>5. ASSUME Open(o)'
      PROVE  /\ ~dirty'[o] => mem'[o] = storage'
             /\ view'[o].user = mem'[o].user
             /\ view'[o].user # Null => view'[o].token # Null
             /\ Bare(view'[o]) => Bare(mem'[o]) /\ Quiet(o)'
  BY <1>1, <1>2, <1>5 DEF Synced
<1> QED
  BY <1>4, <1>5 DEF Synced, Bare

LEMMA SeenFields ==
  ASSUME NEW v, NEW s
  PROVE  /\ Seen(v, s).token = s.token /\ Seen(v, s).user = s.user
         /\ Booted(s).token = s.token /\ Booted(s).user = s.user
         /\ TabMounted(s).token = s.token /\ TabMounted(s).user = s.user
  BY DEF Seen, Booted, TabMounted

LEMMA StoresSynced ==
  ASSUME TypeOK, OpenInv, SyncInv, NEW t \in Tabs, Open(t), NEW gone, NEW s \in Stored,
         ~Bare(s), s.user # Null => s.token # Null, Stores(t, gone, s)
  PROVE  SyncInv'
<1>1. /\ storage' = s /\ mem'[t] = s /\ view'[t] = Seen(view[t], s)
      /\ \A o \in Tabs \ {t} : mem'[o] = mem[o] /\ view'[o] = view[o] /\ requests'[o] = requests[o]
  BY DEF Stores, TypeOK
<1>2. \A o \in Tabs \ {t} : dirty'[o] <=> dirty[o] \/ (Open(o) /\ storage' # storage)
  BY <1>1, NotifiedTyped DEF Stores
<1>3. view'[t].token = s.token /\ view'[t].user = s.user
  BY <1>1, SeenFields
<1>4. Synced(t)'
  BY <1>1, <1>3 DEF Synced, Bare
<1>5. Bare(storage') => storage' = storage
  BY <1>1
<1> QED
  BY <1>1, <1>2, <1>4, <1>5, OthersSynced

(* A getter of a tab that is not bare reads the token alone. *)
LEMMA ReadsSynced ==
  ASSUME TypeOK, OpenInv, SyncInv, NEW t \in Tabs, Open(t), NEW gone, NEW v,
         v.token = view[t].token, v.user = view[t].user, ~Quiet(t), ReadsToken(t, gone, v)
  PROVE  SyncInv'
<1>1. /\ storage' = storage /\ mem'[t] = [mem[t] EXCEPT !.token = storage.token]
      /\ view'[t] = v /\ dirty' = dirty
      /\ \A o \in Tabs \ {t} : mem'[o] = mem[o] /\ view'[o] = view[o] /\ requests'[o] = requests[o]
  BY DEF ReadsToken, TypeOK
<1>2. Synced(t)
  BY DEF SyncInv
<1>3. ~Bare(storage) /\ ~Bare(view[t])
  BY <1>2 DEF Synced
<1>4. mem[t] \in Stored /\ storage \in Stored
  BY DEF TypeOK
<1>5. mem'[t].user = mem[t].user
  BY <1>1, <1>4 DEF Stored
<1>6. mem[t] = storage => mem'[t] = storage
  BY <1>1, <1>4 DEF Stored
<1>7. Synced(t)'
  BY <1>1, <1>2, <1>3, <1>5, <1>6 DEF Synced, Bare
<1> QED
  BY <1>1, <1>7, OthersSynced

(* A step that keeps a tab's copies, and its calls but for some without harm. *)
LEMMA CallsSynced ==
  ASSUME TypeOK, OpenInv, SyncInv, NEW t \in Tabs, Open(t),
         UNCHANGED <<storage, dirty, mem>>,
         Open(t)', view'[t].token = view[t].token, view'[t].user = view[t].user,
         Quiet(t) => Quiet(t)',
         \A o \in Tabs \ {t} : view'[o] = view[o] /\ requests'[o] = requests[o]
  PROVE  SyncInv'
<1>1. Synced(t)
  BY DEF SyncInv
<1>2. Synced(t)'
  BY <1>1 DEF Synced, Bare
<1>3. Bare(storage') => storage' = storage
  OBVIOUS
<1> QED
  BY <1>2, <1>3, OthersSynced

(* What the answer to /auth/me leaves is no bare session, but the one it found. *)
LEMMA RefreshedKept ==
  ASSUME TypeOK, OwnInv, NEW t \in Tabs, NEW c \in requests[t], c.kind = "boot"
  PROVE  Bare(Refreshed(c)) => Refreshed(c) = storage
<1>1. ~Bare(Empty) /\ After401(c.token) \in {Empty, storage}
  BY After401Typed DEF Bare, Empty, Session
<1>2. CASE c.status = "ok" /\ storage.token = c.token
  <2>1. c.user # Null
    BY <1>2, OwnerTyped DEF OwnInv, Honest
  <2>2. Refreshed(c) = [storage EXCEPT !.user = c.user]
    BY <1>2 DEF Refreshed
  <2>3. Refreshed(c).user = c.user
    BY <2>2 DEF TypeOK, Stored
  <2> QED
    BY <2>1, <2>3 DEF Bare
<1>3. CASE ~(c.status = "ok" /\ storage.token = c.token)
  BY <1>1, <1>3 DEF Refreshed
<1> QED
  BY <1>2, <1>3

LEMMA StepSync ==
  TypeOK /\ OpenInv /\ OwnInv /\ SyncInv /\ [SessionNext]_sessionVars => SyncInv'
<1> SUFFICES ASSUME TypeOK, OpenInv, OwnInv, SyncInv, [SessionNext]_sessionVars PROVE SyncInv'
  OBVIOUS
<1>0. /\ storage \in Stored /\ mem \in [Tabs -> Stored] /\ view \in [Tabs -> TabViews \cup {Null}]
      /\ requests \in [Tabs -> SUBSET RequestRecord] /\ dirty \in [Tabs -> BOOLEAN]
  BY DEF TypeOK
<1>h. storage.user # Null => storage.token # Null
  BY DEF OwnInv, Owned
<1>e. ~Bare(Empty) /\ (Empty.user # Null => Empty.token # Null) /\ Empty \in Stored
  BY EmptyStored DEF Bare, Empty, Session
<1>k. {"login", "setup", "api", "logout", "status"} \subseteq Kinds
  BY DEF Kinds
(* Nothing of the session moves. *)
<1>u. ASSUME UNCHANGED <<storage, mem, view, requests, dirty>> PROVE SyncInv'
  BY <1>u DEF SyncInv, Synced, Open, Quiet, Bare
(* A tab gives up, gets or answers calls whose kinds it had, or that are harmless. *)
<1>c. ASSUME NEW t \in Tabs, Open(t), UNCHANGED <<storage, mem, view, dirty>>,
             \A c \in requests'[t] : c.kind \in {"login", "setup"} \/ \E d \in requests[t] : d.kind = c.kind,
             \A o \in Tabs \ {t} : requests'[o] = requests[o]
      PROVE  SyncInv'
  <2>1. Quiet(t) => Quiet(t)'
    BY <1>c DEF Quiet
  <2>2. Open(t)'
    BY <1>c DEF Open
  <2> QED
    BY <1>c, <2>1, <2>2, CallsSynced
<1>1. ASSUME NEW t \in Tabs, Mount(t) PROVE SyncInv'
  <2>1. /\ mem'[t] = storage /\ view'[t] = TabMounted(storage) /\ requests'[t] = {FirstCall(storage)}
        /\ \A o \in Tabs \ {t} : mem'[o] = mem[o] /\ view'[o] = view[o] /\ requests'[o] = requests[o]
        /\ UNCHANGED <<storage, dirty>>
    BY <1>0, <1>1 DEF Mount
  <2>2. FirstCall(storage).kind = IF storage.token = Null THEN "status" ELSE "boot"
    BY <1>0, ViewsTyped
  <2>3. view'[t].token = storage.token /\ view'[t].user = storage.user
    BY <2>1, SeenFields
  <2>4. Bare(storage) => Quiet(t)'
    BY <2>1, <2>2 DEF Bare, Quiet
  <2>5. Bare(storage) => ~dirty[t]
    BY DEF SyncInv, Synced
  <2>6. Synced(t)'
    BY <1>h, <2>1, <2>3, <2>4, <2>5 DEF Synced, Bare
  <2> QED
    BY <2>1, <2>6, OthersSynced
<1>2. ASSUME NEW t \in Tabs, StorageEvent(t) PROVE SyncInv'
  <2>1. /\ dirty[t] /\ ~dirty'[t] /\ mem'[t] = storage /\ storage' = storage
        /\ \A o \in Tabs \ {t} : mem'[o] = mem[o] /\ dirty'[o] = dirty[o]
    BY <1>0, <1>2 DEF StorageEvent
  <2>2. ~Bare(storage) /\ Open(t)
    BY <2>1 DEF SyncInv, Synced, OpenInv
  <2>3. CASE mem[t] = storage
    <3>1. view' = view /\ requests' = requests
      BY <1>2, <2>3 DEF StorageEvent
    <3>2. Synced(t)'
      BY <2>1, <2>2, <2>3, <3>1 DEF SyncInv, Synced, Open, Bare
    <3> QED
      BY <2>1, <3>1, <3>2, OthersSynced
  <2>4. CASE mem[t] # storage
    <3>1. /\ view'[t] = Seen(view[t], storage)
          /\ \A o \in Tabs \ {t} : view'[o] = view[o] /\ requests'[o] = requests[o]
      BY <1>0, <1>2, <2>4 DEF StorageEvent
    <3>2. view'[t].token = storage.token /\ view'[t].user = storage.user
      BY <3>1, SeenFields
    <3>3. Synced(t)'
      BY <1>h, <2>1, <2>2, <3>2 DEF Synced, Bare
    <3> QED
      BY <2>1, <3>1, <3>3, OthersSynced
  <2> QED
    BY <2>3, <2>4
<1>3. ASSUME NEW t \in Tabs, NEW kind \in {"login", "setup"}, Submit(t, kind) PROVE SyncInv'
  <2>1. Open(t) /\ UNCHANGED <<storage, mem, view, dirty>>
    BY <1>3 DEF Submit, Screen
  <2>2. requests' = [requests EXCEPT ![t] = requests[t] \cup {Plain(kind)}]
    BY <1>3 DEF Submit, Starts
  <2>3. Plain(kind).kind = kind
    BY <1>k, PlainTyped
  <2>4. /\ requests'[t] = requests[t] \cup {Plain(kind)}
        /\ \A o \in Tabs \ {t} : requests'[o] = requests[o]
    BY <1>0, <2>2
  <2> QED
    BY <1>c, <2>1, <2>3, <2>4
<1>4. ASSUME NEW t \in Tabs, NEW kind \in {"api", "logout"}, Request(t, kind) PROVE SyncInv'
  <2>1. Open(t) /\ view[t].user # Null /\ view[t].token # Null
    <3>1. Open(t) /\ Screen(t) = "layout"
      BY <1>4 DEF Request, Screen
    <3>2. view[t].setup \in {"unknown", "required", "done"}
      BY <1>0, <3>1 DEF Open, TabViews
    <3>3. SignedIn(t)
      BY <3>1, <3>2 DEF Screen
    <3> QED
      BY <3>1, <3>3 DEF SignedIn
  <2>2. /\ mem' = [mem EXCEPT ![t] = [mem[t] EXCEPT !.token = storage.token]]
        /\ UNCHANGED <<storage, view, dirty>>
    BY <1>0, <1>4 DEF Request
  <2>3. \A o \in Tabs \ {t} : requests'[o] = requests[o] /\ mem'[o] = mem[o]
    BY <1>0, <1>4, <2>2 DEF Request, Starts
  <2>4. ~Bare(storage) /\ ~Bare(view[t])
    BY <2>1 DEF SyncInv, Synced, Bare
  <2>5. mem'[t].user = mem[t].user /\ (mem[t] = storage => mem'[t] = storage)
    BY <1>0, <2>2 DEF Stored
  <2>6. Synced(t)'
    BY <2>1, <2>2, <2>4, <2>5 DEF SyncInv, Synced, Bare, Open
  <2> QED
    BY <2>2, <2>3, <2>6, OthersSynced
<1>5. ASSUME NEW t \in Tabs, NEW c \in requests[t], Reply(t, c) PROVE SyncInv'
  <2>1. PICK a \in Replies(c) : Replied(t, c, a)
    BY <1>5 DEF Reply
  <2>2. a \in RequestRecord /\ a.kind = c.kind /\ Open(t)
    BY AnswersTyped, RequestOpen
  <2>3. /\ requests'[t] = (requests[t] \ {c}) \cup {a}
        /\ \A o \in Tabs \ {t} : requests'[o] = requests[o]
    BY <2>1, <2>2, AnsweredTyped
  <2>4. UNCHANGED <<storage, mem, view, dirty>>
    BY <1>5 DEF Reply
  <2> QED
    BY <1>c, <2>2, <2>3, <2>4
<1>6. ASSUME NEW t \in Tabs, NEW c \in requests[t], Issue(t, c) PROVE SyncInv'
  <2>1. PICK u \in Users, a \in RequestRecord : a.kind = c.kind /\ Replied(t, c, a)
    BY <1>6, IssueTyped
  <2>2. /\ requests'[t] = (requests[t] \ {c}) \cup {a}
        /\ \A o \in Tabs \ {t} : requests'[o] = requests[o]
    BY <2>1, AnsweredTyped
  <2>3. UNCHANGED <<storage, mem, view, dirty>> /\ Open(t)
    BY <1>6, RequestOpen DEF Issue
  <2> QED
    BY <1>c, <2>1, <2>2, <2>3
<1>7. ASSUME NEW t \in Tabs, NEW c \in requests[t], BootAnswered(t, c) PROVE SyncInv'
  <2> DEFINE s == Refreshed(c)
  <2>1. /\ c.kind = "boot" /\ storage' = s /\ mem'[t] = s /\ view'[t] = Booted(s)
        /\ requests'[t] = (requests[t] \ {c}) \cup (IF s # storage THEN AsksStatus(view[t], s) ELSE {})
        /\ \A o \in Tabs \ {t} : mem'[o] = mem[o] /\ view'[o] = view[o] /\ requests'[o] = requests[o]
    BY <1>0, <1>7 DEF BootAnswered
  <2>2. Open(t) /\ s \in Stored /\ (s.user # Null => s.token # Null)
    BY <2>1, RequestOpen, RefreshedTyped, RefreshedOwned DEF Owned
  <2>3. Bare(s) => s = storage
    BY <2>1, RefreshedKept
  <2>4. \A o \in Tabs : dirty'[o] <=> dirty[o] \/ (o # t /\ Open(o) /\ s # storage)
    BY <1>7, NotifiedTyped DEF BootAnswered
  <2> HIDE DEF s
  <2>5. view'[t].token = s.token /\ view'[t].user = s.user
    BY <2>1, SeenFields
  <2>6. Bare(s) => ~dirty'[t] /\ Quiet(t)'
    BY <2>1, <2>3, <2>4 DEF SyncInv, Synced, Quiet
  <2>7. Synced(t)'
    BY <2>1, <2>2, <2>5, <2>6 DEF Synced, Bare
  <2> QED
    BY <2>1, <2>3, <2>4, <2>7, OthersSynced
<1>8. ASSUME NEW t \in Tabs, NEW c \in requests[t], StatusAnswered(t, c) PROVE SyncInv'
  <2>1. c.kind = "status" /\ Open(t) /\ view[t] \in TabViews
    BY <1>8, RequestOpen DEF StatusAnswered
  <2>2. \A setup : /\ [view[t] EXCEPT !.setup = setup].token = view[t].token
                   /\ [view[t] EXCEPT !.setup = setup].user = view[t].user
    BY <2>1 DEF TabViews
  <2>3. CASE c.status = "ok"
    <3> DEFINE v == IF storage.token = Null THEN [view[t] EXCEPT !.setup = c.setup] ELSE view[t]
    <3>1. ReadsToken(t, {c}, v) /\ ~Quiet(t)
      BY <1>8, <2>1, <2>3 DEF StatusAnswered, Quiet
    <3>2. v.token = view[t].token /\ v.user = view[t].user
      BY <2>2
    <3> HIDE DEF v
    <3> QED
      BY <2>1, <3>1, <3>2, ReadsSynced
  <2>4. CASE c.status # "ok"
    <3>1. /\ view' = [view EXCEPT ![t] = [view[t] EXCEPT !.setup = "done"]]
          /\ requests' = [requests EXCEPT ![t] = requests[t] \ {c}]
          /\ UNCHANGED <<storage, mem, dirty>>
      BY <1>0, <1>8, <2>4 DEF StatusAnswered
    <3>2. view'[t] = [view[t] EXCEPT !.setup = "done"] /\ [view[t] EXCEPT !.setup = "done"] \in TabViews
      BY <1>0, <2>1, <3>1 DEF TabViews
    <3>3. Open(t)' /\ view'[t].token = view[t].token /\ view'[t].user = view[t].user
      BY <2>2, <3>2, ViewAssumption DEF Open
    <3>4. /\ requests'[t] = requests[t] \ {c}
          /\ \A o \in Tabs \ {t} : view'[o] = view[o] /\ requests'[o] = requests[o]
      BY <1>0, <3>1
    <3>5. Quiet(t) => Quiet(t)'
      BY <3>4 DEF Quiet
    <3> QED
      BY <2>1, <3>1, <3>3, <3>4, <3>5, CallsSynced
  <2> QED
    BY <2>3, <2>4
<1>9. ASSUME NEW t \in Tabs, NEW c \in requests[t], LoginAnswered(t, c) PROVE SyncInv'
  <2>1. c \in RequestRecord /\ Open(t)
    BY RequestOpen
  <2>2. CASE c.status = "ok"
    <3> DEFINE s == Session(c.issued, c.user)
    <3>1. c.issued # Null /\ c.user # Null
      BY <1>9, <2>2, OwnerTyped DEF LoginAnswered, OwnInv, Honest
    <3>2. s \in Stored /\ ~Bare(s) /\ s.token # Null
      BY <2>1, <3>1 DEF Session, Stored, RequestRecord, Bare
    <3>3. Stores(t, {c}, s)
      BY <1>9, <2>2 DEF LoginAnswered
    <3> HIDE DEF s
    <3> QED
      BY <2>1, <3>2, <3>3, StoresSynced
  <2>3. CASE c.status # "ok"
    <3>1. /\ requests' = [requests EXCEPT ![t] = requests[t] \ {c}]
          /\ UNCHANGED <<storage, mem, view, dirty>>
      BY <1>9, <2>3 DEF LoginAnswered
    <3>2. requests'[t] = requests[t] \ {c} /\ \A o \in Tabs \ {t} : requests'[o] = requests[o]
      BY <1>0, <3>1
    <3> QED
      BY <1>c, <2>1, <3>1, <3>2
  <2> QED
    BY <2>2, <2>3
<1>10. ASSUME NEW t \in Tabs, NEW c \in requests[t], LogoutAnswered(t, c) PROVE SyncInv'
  BY <1>10, <1>e, RequestOpen, StoresSynced DEF LogoutAnswered
<1>11. ASSUME NEW t \in Tabs, NEW c \in requests[t], ApiAnswered(t, c) PROVE SyncInv'
  <2>1. c.kind = "api" /\ Open(t) /\ ~Quiet(t)
    BY <1>11, RequestOpen DEF ApiAnswered, Quiet
  <2>2. CASE c.status = "unauthorized" /\ After401(c.token) # storage
    <3>1. After401(c.token) = Empty /\ Stores(t, {c}, After401(c.token))
      BY <1>11, <2>2, After401Typed DEF ApiAnswered
    <3>2. Stores(t, {c}, Empty)
      BY <3>1
    <3> QED
      BY <1>e, <2>1, <3>2, StoresSynced
  <2>3. CASE ~(c.status = "unauthorized" /\ After401(c.token) # storage)
    <3>1. ReadsToken(t, {c}, view[t])
      BY <1>11, <2>3 DEF ApiAnswered
    <3> QED
      BY <2>1, <3>1, ReadsSynced
  <2> QED
    BY <2>2, <2>3
<1>12. ASSUME NEW token \in live, Revoke(token) PROVE SyncInv'
  BY <1>12, <1>u DEF Revoke
<1>13. CASE UNCHANGED sessionVars
  BY <1>13, <1>u DEF sessionVars
<1>14. ASSUME NEW t \in Tabs, Handle(t) PROVE SyncInv'
  BY <1>5, <1>6, <1>14 DEF Handle
<1>15. ASSUME NEW t \in Tabs, Deliver(t) PROVE SyncInv'
  BY <1>7, <1>8, <1>9, <1>10, <1>11, <1>15 DEF Deliver
<1>16. CASE SessionNext
  BY <1>1, <1>2, <1>3, <1>4, <1>12, <1>14, <1>15, <1>16 DEF SessionNext
<1> QED
  BY <1>13, <1>16

LEMMA InitSync == SessionInit => SyncInv
  BY DEF SessionInit, SyncInv, Synced, Open, Quiet

(* A tab that has handled its storage events shows the stored session, although
   its getters may have moved its copy of the token before the event came. *)
THEOREM TabsCatchUp == SessionSpec => []ViewCatchesUp
<1>1. TypeOK /\ OpenInv /\ OwnInv /\ [SessionNext]_sessionVars => OwnInv'
  BY StepOwn
<1>2. TypeOK /\ OpenInv /\ OwnInv /\ SyncInv /\ [SessionNext]_sessionVars => SyncInv'
  BY StepSync
<1> QED
  BY <1>1, <1>2, SyncedShows, InitOwn, InitSync, InitTyped, StepTyped, PTL DEF SessionSpec

-----------------------------------------------------------------------------
(* Who ends a session. *)

LEMMA StepEnds ==
  TypeOK /\ OpenInv /\ OwnInv /\ [SessionNext]_sessionVars => TokenStays
<1> SUFFICES ASSUME TypeOK, OpenInv, OwnInv, [SessionNext]_sessionVars,
                    storage.token # Null, storage'.token # storage.token
             PROVE  \E t \in Tabs : \E c \in Dropped(t) :
                      IF storage'.token = Null THEN Clears(c) ELSE Replaces(c)
  BY DEF TokenStays
<1> DEFINE Goal == \E t \in Tabs : \E c \in Dropped(t) :
                     IF storage'.token = Null THEN Clears(c) ELSE Replaces(c)
<1>0. requests \in [Tabs -> SUBSET RequestRecord]
  BY DEF TypeOK
<1>u. storage' # storage
  OBVIOUS
(* A delivered request is gone: what may be asked in its place is another. *)
<1>g. ASSUME NEW t \in Tabs, NEW c \in requests[t],
             c.kind \in {"boot", "api", "logout", "login", "setup"}, NEW v, NEW s, NEW k, k \subseteq (requests[t] \ {c}) \cup AsksStatus(v, s),
             requests' = [requests EXCEPT ![t] = k],
             IF storage'.token = Null THEN Clears(c) ELSE Replaces(c)
      PROVE  Goal
  <2>1. "status" \in Kinds
    BY DEF Kinds
  <2>2. \A d \in AsksStatus(v, s) : d.kind = "status"
    BY <2>1, AsksTyped, PlainTyped
  <2>3. c \notin k
    BY <1>g, <2>2
  <2>4. requests'[t] = k
    BY <1>0, <1>g
  <2>5. c \in Dropped(t)
    BY <1>g, <2>3, <2>4 DEF Dropped
  <2> QED
    BY <1>g, <2>5
<1>w. \A token : After401(token) = storage \/ (After401(token) = Empty /\ storage.token = token)
  BY DEF After401
<1>7. ASSUME NEW t \in Tabs, NEW c \in requests[t], BootAnswered(t, c) PROVE Goal
  <2> DEFINE s == Refreshed(c)
             k == (requests[t] \ {c}) \cup (IF s # storage THEN AsksStatus(view[t], s) ELSE {})
  <2>1. c.kind = "boot" /\ storage' = s /\ requests' = [requests EXCEPT ![t] = k]
    BY <1>7 DEF BootAnswered
  <2>2. s.token = storage.token \/ (c.status = "unauthorized" /\ s = After401(c.token))
    BY DEF Refreshed, TypeOK, Stored
  <2>3. storage'.token = Null /\ Clears(c)
    BY <1>w, <2>1, <2>2 DEF Clears, Empty, Session
  <2>4. k \subseteq (requests[t] \ {c}) \cup AsksStatus(view[t], s)
    OBVIOUS
  <2> HIDE DEF s, k
  <2> QED
    BY <1>g, <2>1, <2>3, <2>4
<1>t. ASSUME NEW t \in Tabs, NEW c \in requests[t], c.kind \in {"api", "logout", "login", "setup"},
             NEW s, Stores(t, {c}, s), IF storage'.token = Null THEN Clears(c) ELSE Replaces(c)
      PROVE  Goal
  <2>1. requests' = [requests EXCEPT ![t] = (requests[t] \ {c}) \cup AsksStatus(view[t], s)]
    BY <1>t DEF Stores
  <2> QED
    BY <1>g, <1>t, <2>1
<1>9. ASSUME NEW t \in Tabs, NEW c \in requests[t], LoginAnswered(t, c) PROVE Goal
  <2>1. /\ c.status = "ok" /\ storage' = Session(c.issued, c.user)
        /\ c.kind \in {"login", "setup"} /\ Stores(t, {c}, Session(c.issued, c.user))
    BY <1>9, <1>u DEF LoginAnswered, Stores
  <2>2. c.issued # Null
    BY <1>9, <2>1, OwnerTyped DEF LoginAnswered, OwnInv, Honest
  <2>3. storage'.token # Null /\ Replaces(c)
    BY <2>1, <2>2 DEF Session, Replaces
  <2> QED
    BY <1>t, <2>1, <2>3
<1>10. ASSUME NEW t \in Tabs, NEW c \in requests[t], LogoutAnswered(t, c) PROVE Goal
  <2>1. c.kind = "logout" /\ Stores(t, {c}, Empty) /\ storage' = Empty
    BY <1>10 DEF LogoutAnswered, Stores
  <2>2. storage'.token = Null /\ Clears(c)
    BY <2>1 DEF Clears, Empty, Session
  <2> QED
    BY <1>t, <2>1, <2>2
<1>11. ASSUME NEW t \in Tabs, NEW c \in requests[t], ApiAnswered(t, c) PROVE Goal
  <2>1. /\ c.kind = "api" /\ Stores(t, {c}, After401(c.token)) /\ storage' = After401(c.token)
        /\ c.status = "unauthorized"
    BY <1>11, <1>u DEF ApiAnswered, ReadsToken, Stores
  <2>2. storage'.token = Null /\ Clears(c)
    BY <1>u, <1>w, <2>1 DEF Clears, Empty, Session
  <2> QED
    BY <1>t, <2>1, <2>2
<1>15. ASSUME NEW t \in Tabs, Deliver(t) PROVE Goal
  <2>1. ASSUME NEW c \in requests[t], StatusAnswered(t, c) PROVE FALSE
    BY <1>u, <2>1 DEF StatusAnswered, ReadsToken
  <2> QED
    BY <1>7, <1>9, <1>10, <1>11, <1>15, <2>1 DEF Deliver
<1>16. ASSUME NEW t \in Tabs,
              \/ Mount(t) \/ StorageEvent(t) \/ Handle(t)
              \/ \E kind : Submit(t, kind) \/ Request(t, kind)
       PROVE  FALSE
  BY <1>u, <1>16 DEF Mount, StorageEvent, Submit, Request, Handle, Reply, Issue
<1>17. ASSUME NEW token, Revoke(token) PROVE FALSE
  BY <1>u, <1>17 DEF Revoke
<1>18. CASE UNCHANGED sessionVars
  BY <1>18, <1>u DEF sessionVars
<1>19. CASE SessionNext
  BY <1>15, <1>16, <1>17, <1>19 DEF SessionNext
<1> QED
  BY <1>18, <1>19

(* A late 401 to a request sent with an older token leaves the session alone:
   but for logouts, whose answers clear whatever is stored by then, the stored
   token goes with a 401 to a request that carried it or with a new login. *)
THEOREM SessionsSurviveLate401s == SessionSpec => Late401Ignored
<1>1. TypeOK /\ OpenInv /\ OwnInv /\ [SessionNext]_sessionVars => OwnInv'
  BY StepOwn
<1>2. TypeOK /\ OpenInv /\ OwnInv /\ [SessionNext]_sessionVars => [TokenStays]_sessionVars
  BY StepEnds
<1> QED
  BY <1>1, <1>2, InitOwn, InitTyped, StepTyped, PTL DEF SessionSpec, Late401Ignored

=============================================================================
