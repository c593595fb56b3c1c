----------------------------- MODULE ConfigStore -----------------------------
(***************************************************************************)
(* internal/store/json.go: the part of JSONStore the data plane is          *)
(* configured from, i.e. routes, their auth configs and their API keys.     *)
(* One RWMutex guards all maps, so each exported method is one atomic step.  *)
(* A mutator edits the maps first and then rewrites store.json (temporary    *)
(* file and rename); when that write fails the method returns the error      *)
(* and the edit stays in memory.                                             *)
(***************************************************************************)
EXTENDS Naturals

CONSTANTS
  RouteIds,      \* uuids the store may hand to routes
  KeyIds,        \* uuids the store may hand to API keys
  RouteVals,     \* contents of a route record (host, path, backends, ...)
  ConfigVals,    \* contents of a RouteAuthConfig (toggles, limits, CORS, ...)
  MaxSecret,     \* secrets generated per key in a behaviour
  SaveOutcomes,  \* results save() may have: TRUE written, FALSE failed
  None           \* no such row

ASSUME StoreAssumption ==
  /\ MaxSecret \in Nat \ {0}
  /\ SaveOutcomes \subseteq BOOLEAN
  /\ None \notin RouteVals \cup ConfigVals

VARIABLES
  mem,   \* JSONStore.data
  disk   \* the contents of store.json

(* A secret is the number of its generation; NoSecret is the empty string. *)
NoSecret == 0
Statuses == {"active", "revoked"}

Key == [route: RouteIds, secret: 0..MaxSecret, status: Statuses]

Data == [routes:  [RouteIds -> RouteVals \cup {None}],
         configs: [RouteIds -> ConfigVals \cup {None}],
         keys:    [KeyIds -> Key \cup {None}]]

Empty == [routes  |-> [r \in RouteIds |-> None],
          configs |-> [r \in RouteIds |-> None],
          keys    |-> [k \in KeyIds |-> None]]

-----------------------------------------------------------------------------
(* Edits of the maps.                                                       *)

PutRoute(s, r, v)  == [s EXCEPT !.routes[r] = v]
PutConfig(s, r, c) == [s EXCEPT !.configs[r] = c]
PutKey(s, k, rec)  == [s EXCEPT !.keys[k] = rec]
DropKey(s, k)      == [s EXCEPT !.keys[k] = None]

(* The keys left when every key of route r is deleted. *)
KeysWithout(s, r) ==
  [k \in KeyIds |-> IF s.keys[k] # None /\ s.keys[k].route = r THEN None ELSE s.keys[k]]

DropConfig(s, r) ==
  [s EXCEPT !.configs[r] = None, !.keys = KeysWithout(s, r)]

(* Faulty variant of DropRoute: the cascade forgets the keys. *)
DropRouteKeepKeys(s, r) == [s EXCEPT !.routes[r] = None, !.configs[r] = None]

DropRoute(s, r) ==
  [s EXCEPT !.routes[r] = None, !.configs[r] = None, !.keys = KeysWithout(s, r)]

(* What store.json holds of s: ApiKey.Secret is tagged json:"-". *)
Persisted(s) ==
  [s EXCEPT !.keys =
     [k \in KeyIds |-> IF s.keys[k] = None THEN None
                       ELSE [s.keys[k] EXCEPT !.secret = NoSecret]]]

(* A mutator's tail: memory holds s whatever save() returned. *)
Commit(s, saved) ==
  /\ mem' = s
  /\ disk' = IF saved THEN Persisted(s) ELSE disk

(* NewJSONStore on a directory with or without a store.json. *)
LoadStore == mem' = disk /\ disk' = disk

-----------------------------------------------------------------------------
StoreInit == mem = Empty /\ disk = Empty

StoreTypeOK == mem \in Data /\ disk \in Data

(* What DeleteRoute's cascade and the existence checks of the other methods
   are for: a config or a key belongs to a stored route. *)
Referential(s) ==
  /\ \A r \in RouteIds : s.configs[r] # None => s.routes[r] # None
  /\ \A k \in KeyIds : s.keys[k] # None => s.routes[s.keys[k].route] # None
=============================================================================
