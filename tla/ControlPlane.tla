---------------------------- MODULE ControlPlane -----------------------------
(***************************************************************************)
(* The admin API's handlers for routes, route auth configs and API keys      *)
(* (internal/http/admin over internal/service/{routes,routeauth,apikeys}),   *)
(* the reload the certificate service starts in a goroutine, and the         *)
(* goroutine the proxy starts to stamp LastUsedAt, all over one JSONStore    *)
(* and one router.Manager.  A handler that reloads does so in its own        *)
(* goroutine after its store call succeeded; rotating, expiring, renaming    *)
(* and deleting a key reload nothing.                                        *)
(***************************************************************************)
EXTENDS RouterManager

CONSTANTS
  Admins,       \* goroutines serving admin requests
  Reloaders,    \* certificate.Service.triggerReload goroutines
  Stampers,     \* LastUsedAt goroutines of the proxy
  MaxRestarts   \* bound on process restarts

ASSUME ControlPlaneAssumption ==
  /\ Threads = Admins \cup Reloaders
  /\ (Admins \cup Reloaders) \cap Stampers = {}
  /\ MaxRestarts \in Nat

VARIABLES
  work,    \* per goroutine, the key record it will write back
  born,    \* route ids already handed out (uuids are never reused)
  issued,  \* per key, how many secrets were generated for it (0: no such key)
  epoch,   \* how often the process was restarted
  clean,   \* history: no store mutation since this goroutine's ListRoutes
  agreed   \* history: no store mutation and no unclean install since a clean one

storeVars  == <<mem, disk>>
routerVars == <<table, loads>>
idVars     == <<born, issued, epoch>>
history    == <<clean, agreed>>
vars       == <<mem, disk, table, loads, work, born, issued, epoch, clean, agreed>>

KeyOps == {"rotate", "expire", "rename", "stamp"}

(* "spawned" is a stamping goroutine that has not read its key yet; rec is the
   record to be written back. *)
Work == [op: KeyOps \cup {"spawned"}, key: KeyIds, rec: Key \cup {None}]

Idle(a) == work[a] = None /\ loads[a].pc = "idle"

Mutated ==
  /\ clean' = [t \in Threads |-> FALSE]
  /\ agreed' = FALSE

(* A store mutation by a's handler; the handler goes on to reload only when
   the store call returned nil. *)
MutateAndReload(a, s, saved) ==
  /\ Commit(s, saved)
  /\ loads' = IF saved THEN [loads EXCEPT ![a] = ReadyLoad] ELSE loads
  /\ Mutated
  /\ UNCHANGED table

MutateOnly(s, saved) ==
  /\ Commit(s, saved)
  /\ Mutated
  /\ UNCHANGED routerVars

-----------------------------------------------------------------------------
(* Handlers of routes and route auth configs. *)

CreateRoute(a, r, v, saved) ==
  /\ Idle(a)
  /\ r \notin born
  /\ born' = born \cup {r}
  /\ MutateAndReload(a, PutRoute(mem, r, v), saved)
  /\ UNCHANGED <<work, issued, epoch>>

(* Get and UpdateRoute: the merged record may be any content, and UpdateRoute
   itself looks the row up again. *)
UpdateRoute(a, r, v, saved) ==
  /\ Idle(a)
  /\ mem.routes[r] # None
  /\ MutateAndReload(a, PutRoute(mem, r, v), saved)
  /\ UNCHANGED <<work, idVars>>

(* service.Delete's Get may be stale when the store is asked to delete, which
   looks nothing up: the route may be gone, or have been gone for long. *)
DeleteRoute(a, r, saved) ==
  /\ Idle(a)
  /\ r \in born
  /\ MutateAndReload(a, DropRoute(mem, r), saved)
  /\ UNCHANGED <<work, idVars>>

(* CreateOrUpdateRouteAuthConfig refuses a route that is not stored. *)
UpdateRouteAuthConfig(a, r, c, saved) ==
  /\ Idle(a)
  /\ mem.routes[r] # None
  /\ MutateAndReload(a, PutConfig(mem, r, c), saved)
  /\ UNCHANGED <<work, idVars>>

(* Deletes the route's keys too, and looks nothing up first. *)
DeleteRouteAuthConfig(a, r, saved) ==
  /\ Idle(a)
  /\ MutateAndReload(a, DropConfig(mem, r), saved)
  /\ UNCHANGED <<work, idVars>>

ReloadConfig(a) ==
  /\ Idle(a)
  /\ loads' = [loads EXCEPT ![a] = ReadyLoad]
  /\ UNCHANGED <<storeVars, table, work, idVars, history>>

-----------------------------------------------------------------------------
(* Handlers of API keys. *)

CreateApiKey(a, r, k, saved) ==
  /\ Idle(a)
  /\ issued[k] = 0
  /\ mem.routes[r] # None
  /\ issued' = [issued EXCEPT ![k] = 1]
  /\ MutateAndReload(a, PutKey(mem, k, [route |-> r, secret |-> 1, status |-> "active"]), saved)
  /\ UNCHANGED <<work, born, epoch>>

(* What Rotate, Expire, UpdateName and the stamping goroutine make of the key
   they read; LastUsedAt and the name are not represented. *)
Edit(op, rec, secret) ==
  CASE op = "rotate" -> [rec EXCEPT !.secret = secret, !.status = "active"]
    [] op = "expire" -> [rec EXCEPT !.status = "revoked"]
    [] OTHER -> rec

(* GetApiKey and the edit, in a handler that will write the record back. *)
GetApiKey(a, k, op) ==
  /\ Idle(a)
  /\ mem.keys[k] # None
  /\ op = "rotate" => issued[k] < MaxSecret
  /\ issued' = IF op = "rotate" THEN [issued EXCEPT ![k] = @ + 1] ELSE issued
  /\ work' = [work EXCEPT ![a] =
                [op |-> op, key |-> k, rec |-> Edit(op, mem.keys[k], issued'[k])]]
  /\ UNCHANGED <<storeVars, routerVars, born, epoch, history>>

(* UpdateApiKey's lookup, and a faulty variant without it. *)
AlwaysStored(k) == TRUE
KeyStored(k) == mem.keys[k] # None

(* UpdateApiKey at the tail of the handlers and of the stamping goroutine:
   the whole record replaces what the store holds by then, unless the key was
   deleted meanwhile (ErrNoRows). *)
UpdateApiKey(g, saved) ==
  LET w == work[g] IN
  /\ w # None
  /\ w.op # "spawned"
  /\ work' = [work EXCEPT ![g] = None]
  /\ IF KeyStored(w.key)
       THEN MutateOnly(PutKey(mem, w.key, w.rec), saved)
       ELSE UNCHANGED <<storeVars, routerVars, history>>
  /\ UNCHANGED idVars

DeleteApiKey(a, k, saved) ==
  /\ Idle(a)
  /\ mem.keys[k] # None
  /\ MutateOnly(DropKey(mem, k), saved)
  /\ UNCHANGED <<work, idVars>>

-----------------------------------------------------------------------------
(* Goroutines of other components. *)

(* certificate.Service.triggerReload: any certificate operation. *)
CertificateReload(c) ==
  /\ loads[c].pc = "idle"
  /\ loads' = [loads EXCEPT ![c] = ReadyLoad]
  /\ UNCHANGED <<storeVars, table, work, idVars, history>>

(* proxy.Handler accepts a request by key k of the table and starts the
   goroutine. An empty key value is never compared. *)
AcceptKey(u, k) ==
  /\ work[u] = None
  /\ \E r \in RouteIds : /\ table[r] # None
                         /\ table[r].config # None
                         /\ \E e \in table[r].keys : e.id = k /\ e.secret # NoSecret
  /\ work' = [work EXCEPT ![u] = [op |-> "spawned", key |-> k, rec |-> None]]
  /\ UNCHANGED <<storeVars, routerVars, idVars, history>>

(* Its GetApiKey; on an error the goroutine ends. *)
StampRead(u) ==
  /\ work[u] # None
  /\ work[u].op = "spawned"
  /\ LET k == work[u].key IN
     work' = [work EXCEPT ![u] =
       IF mem.keys[k] = None THEN None
       ELSE [op |-> "stamp", key |-> k, rec |-> Edit("stamp", mem.keys[k], issued[k])]]
  /\ UNCHANGED <<storeVars, routerVars, idVars, history>>

(* A reload's steps, with what they mean for the history variables. *)
Reload(t) ==
  /\ LoadStep(t)
  /\ clean' = IF loads[t].pc = "list" THEN [clean EXCEPT ![t] = TRUE] ELSE clean
  /\ agreed' = IF loads[t].pc = "install" THEN clean[t] ELSE agreed
  /\ UNCHANGED <<storeVars, work, idVars>>

(* The process stops anywhere and starts again: NewJSONStore, NewManager. *)
Restart ==
  /\ epoch < MaxRestarts
  /\ epoch' = epoch + 1
  /\ LoadStore
  /\ table' = Compile(mem')
  /\ loads' = [t \in Threads |-> IdleLoad]
  /\ work' = [g \in Admins \cup Stampers |-> None]
  /\ clean' = [t \in Threads |-> FALSE]
  /\ agreed' = TRUE
  /\ UNCHANGED <<born, issued>>

-----------------------------------------------------------------------------
Init ==
  /\ StoreInit
  /\ RouterInit
  /\ work = [g \in Admins \cup Stampers |-> None]
  /\ born = {}
  /\ issued = [k \in KeyIds |-> 0]
  /\ epoch = 0
  /\ clean = [t \in Threads |-> FALSE]
  /\ agreed = TRUE

AdminStep(a) ==
  \/ ReloadConfig(a)
  \/ \E k \in KeyIds, op \in {"rotate", "expire", "rename"} : GetApiKey(a, k, op)
  \/ \E saved \in SaveOutcomes :
       \/ \E r \in RouteIds, v \in RouteVals :
            CreateRoute(a, r, v, saved) \/ UpdateRoute(a, r, v, saved)
       \/ \E r \in RouteIds, c \in ConfigVals : UpdateRouteAuthConfig(a, r, c, saved)
       \/ \E r \in RouteIds : DeleteRoute(a, r, saved) \/ DeleteRouteAuthConfig(a, r, saved)
       \/ \E r \in RouteIds, k \in KeyIds : CreateApiKey(a, r, k, saved)
       \/ \E k \in KeyIds : DeleteApiKey(a, k, saved)
       \/ UpdateApiKey(a, saved)

StamperStep(u) ==
  \/ \E k \in KeyIds : AcceptKey(u, k)
  \/ StampRead(u)
  \/ \E saved \in SaveOutcomes : UpdateApiKey(u, saved)

Next ==
  \/ \E a \in Admins : AdminStep(a)
  \/ \E c \in Reloaders : CertificateReload(c)
  \/ \E u \in Stampers : StamperStep(u)
  \/ \E t \in Threads : Reload(t)
  \/ Restart

Spec == Init /\ [][Next]_vars

-----------------------------------------------------------------------------
(* Every variable has its type, in particular a key's status is one the
   compiler and the UI know. *)
TypeOK ==
  /\ StoreTypeOK
  /\ RouterTypeOK
  /\ work \in [Admins \cup Stampers -> Work \cup {None}]
  /\ born \subseteq RouteIds
  /\ issued \in [KeyIds -> 0..MaxSecret]
  /\ epoch \in 0..MaxRestarts
  /\ clean \in [Threads -> BOOLEAN]
  /\ agreed \in BOOLEAN

(* No config and no key outlives its route, in memory or in store.json,
   whatever handlers and stamping goroutines were half way when the route was
   deleted, and whichever saves failed (JSONStore's cascades and lookups). *)
NoOrphans == Referential(mem) /\ Referential(disk)

(* A reload whose reads no store mutation interrupted leaves the data plane
   serving exactly what the store holds, until the next mutation or the
   install of an older, interrupted load (loadRoutes reads piecemeal). *)
CleanReloadServesStore == agreed => table = Compile(mem)

(* Within one run of the process a deleted route or key never comes back,
   although handlers and the stamping goroutine write whole records they read
   before the deletion (UpdateRoute's and UpdateApiKey's lookups). *)
DeletedStaysDeleted ==
  [][epoch' = epoch =>
       /\ \A r \in born : mem.routes[r] = None => mem'.routes[r] = None
       /\ \A k \in KeyIds : issued[k] > 0 /\ mem.keys[k] = None => mem'.keys[k] = None]_vars

(* README.md:14: configuration is hot-updated and "takes effect immediately".
   With every handler answered and every save written, what the proxy serves
   is what the store holds. *)
HotUpdate ==
  (/\ \A t \in Threads : loads[t].pc = "idle"
   /\ \A g \in Admins \cup Stampers : work[g] = None) => table = Compile(mem)
=============================================================================
