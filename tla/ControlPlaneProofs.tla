------------------------- MODULE ControlPlaneProofs --------------------------
(***************************************************************************)
(* Proofs about ControlPlane, for every set of routes, keys, contents and    *)
(* goroutines: types, NoOrphans, CleanReloadServesStore and                  *)
(* DeletedStaysDeleted.                                                      *)
(***************************************************************************)
EXTENDS ControlPlane, TLAPS

-----------------------------------------------------------------------------
(* Inductive strengthenings. *)

(* Keys that are, or may become, visible again have been issued: those of
   memory, of store.json, of a loaded snapshot, of the table and of pending
   work.  So CreateApiKey never meets a pending write of the same id. *)
KnownKeys(s) == \A k \in KeyIds : s.keys[k] # None => issued[k] > 0

Issued ==
  /\ KnownKeys(mem)
  /\ KnownKeys(disk)
  /\ \A t \in Threads : KnownKeys(loads[t].snap)
  /\ \A r \in RouteIds : table[r] # None => \A e \in table[r].keys : issued[e.id] > 0
  /\ \A g \in Admins \cup Stampers : work[g] # None => issued[work[g].key] > 0

(* A record waiting to be written back names the route its key names now. *)
PendingRoute ==
  \A g \in Admins \cup Stampers :
    /\ work[g] # None
    /\ work[g].rec # None
    /\ mem.keys[work[g].key] # None
    => mem.keys[work[g].key].route = work[g].rec.route

OrphanInv == NoOrphans /\ Issued /\ PendingRoute

(* What an uninterrupted load has read so far agrees with the store. *)
ConfigsRead(t, rs) == \A r \in rs : loads[t].snap.configs[r] = mem.configs[r]

KeysReadOf(t, rs) ==
  \A k \in KeyIds :
    /\ loads[t].snap.keys[k] \in {None, mem.keys[k]}
    /\ mem.keys[k] # None /\ mem.keys[k].route \in rs => loads[t].snap.keys[k] = mem.keys[k]

ReadsAgree(t) ==
  /\ loads[t].pc = "configs" =>
       /\ loads[t].snap.routes = mem.routes
       /\ ConfigsRead(t, Stored(mem) \ loads[t].todo)
       /\ \A k \in KeyIds : loads[t].snap.keys[k] = None
  /\ loads[t].pc = "keys" =>
       /\ loads[t].snap.routes = mem.routes
       /\ ConfigsRead(t, Stored(mem))
       /\ KeysReadOf(t, Stored(mem) \ loads[t].todo)
  /\ loads[t].pc = "install" => Compile(loads[t].snap) = Compile(mem)

ReloadInv ==
  /\ CleanReloadServesStore
  /\ \A t \in Threads : clean[t] => ReadsAgree(t)

-----------------------------------------------------------------------------
(* What the edits of ConfigStore return. *)

(* Every edit keeps a store well typed. *)
LEMMA EditTypes ==
  ASSUME NEW s \in Data
  PROVE  /\ \A r \in RouteIds, v \in RouteVals : PutRoute(s, r, v) \in Data
         /\ \A r \in RouteIds, c \in ConfigVals \cup {None} : PutConfig(s, r, c) \in Data
         /\ \A k \in KeyIds, rec \in Key \cup {None} : PutKey(s, k, rec) \in Data
         /\ \A k \in KeyIds : DropKey(s, k) \in Data
         /\ \A r \in RouteIds : DropConfig(s, r) \in Data
         /\ \A r \in RouteIds : DropRoute(s, r) \in Data
         /\ Persisted(s) \in Data
<1>1. \A r \in RouteIds, v \in RouteVals : PutRoute(s, r, v) \in Data
  BY DEF PutRoute, Data
<1>2. \A r \in RouteIds, c \in ConfigVals \cup {None} : PutConfig(s, r, c) \in Data
  BY DEF PutConfig, Data
<1>3. \A k \in KeyIds, rec \in Key \cup {None} : PutKey(s, k, rec) \in Data
  BY DEF PutKey, Data
<1>4. \A k \in KeyIds : DropKey(s, k) \in Data
  BY DEF DropKey, Data
<1>5. \A r \in RouteIds : KeysWithout(s, r) \in [KeyIds -> Key \cup {None}]
  BY DEF KeysWithout, Data
<1>6. \A r \in RouteIds : DropConfig(s, r) \in Data /\ DropRoute(s, r) \in Data
  BY <1>5 DEF DropConfig, DropRoute, Data
<1>7. Persisted(s) \in Data
  <2>1. \A k \in KeyIds : s.keys[k] # None => [s.keys[k] EXCEPT !.secret = NoSecret] \in Key
    BY StoreAssumption DEF Data, Key, NoSecret
  <2> QED
    BY <2>1 DEF Persisted, Data
<1> QED
  BY <1>1, <1>2, <1>3, <1>4, <1>6, <1>7

LEMMA EmptyType == Empty \in Data
  BY DEF Empty, Data

LEMMA CommitType ==
  ASSUME StoreTypeOK, NEW s \in Data, NEW saved \in BOOLEAN, Commit(s, saved)
  PROVE  StoreTypeOK'
  BY EditTypes DEF StoreTypeOK, Commit

LEMMA CompileType ==
  ASSUME NEW s \in Data
  PROVE  Compile(s) \in Tables
<1>1. \A r \in RouteIds : ActiveKeys(s, r) \in SUBSET [id: KeyIds, secret: 0..MaxSecret]
  BY DEF ActiveKeys, Data, Key
<1> QED
  BY <1>1 DEF Compile, Tables, Entry, Data

LEMMA EditType ==
  ASSUME NEW op \in KeyOps, NEW rec \in Key, NEW secret \in 0..MaxSecret
  PROVE  Edit(op, rec, secret) \in Key /\ Edit(op, rec, secret).route = rec.route
  BY DEF Edit, Key, Statuses, KeyOps

LEMMA ReadyLoadType == ReadyLoad \in Load /\ IdleLoad \in Load
  BY EmptyType DEF ReadyLoad, IdleLoad, Load

(* One step of a reload keeps the router's variables well typed. *)
LEMMA LoadStepType ==
  ASSUME StoreTypeOK, RouterTypeOK, NEW t \in Threads, LoadStep(t)
  PROVE  RouterTypeOK'
<1> USE DEF RouterTypeOK, StoreTypeOK
<1>0. loads[t] \in Load
  OBVIOUS
<1>1. CASE ListRoutes(t)
  <2>1. [Empty EXCEPT !.routes = mem.routes] \in Data
    BY EmptyType DEF Data
  <2>2. Stored(mem) \subseteq RouteIds
    BY DEF Stored
  <2> QED
    BY <1>1, <2>1, <2>2 DEF ListRoutes, Load
<1>2. CASE ReadConfig(t)
  <2>1. PICK r \in loads[t].todo :
          loads' = [loads EXCEPT ![t] =
            [pc   |-> IF loads[t].todo \ {r} = {} THEN "keys" ELSE "configs",
             snap |-> PutConfig(loads[t].snap, r, mem.configs[r]),
             todo |-> IF loads[t].todo \ {r} = {} THEN Stored(loads[t].snap)
                      ELSE loads[t].todo \ {r}]]
    BY <1>2 DEF ReadConfig
  <2>2. loads[t].snap \in Data /\ r \in RouteIds /\ loads[t].todo \subseteq RouteIds
    BY <1>0 DEF Load
  <2>3. PutConfig(loads[t].snap, r, mem.configs[r]) \in Data
    BY <2>2, EditTypes DEF Data
  <2>4. Stored(loads[t].snap) \subseteq RouteIds
    BY DEF Stored
  <2> QED
    BY <1>2, <2>1, <2>2, <2>3, <2>4 DEF ReadConfig, Load
<1>3. CASE ReadKeys(t)
  <2>1. PICK r \in loads[t].todo :
          loads' = [loads EXCEPT ![t] =
            [pc   |-> IF loads[t].todo \ {r} = {} THEN "install" ELSE "keys",
             snap |-> KeysRead(loads[t].snap, r),
             todo |-> loads[t].todo \ {r}]]
    BY <1>3 DEF ReadKeys
  <2>2. loads[t].snap \in Data /\ loads[t].todo \subseteq RouteIds
    BY <1>0 DEF Load
  <2>3. KeysRead(loads[t].snap, r) \in Data
    BY <2>2 DEF KeysRead, Data
  <2> QED
    BY <1>3, <2>1, <2>2, <2>3 DEF ReadKeys, Load
<1>4. CASE Install(t)
  <2>1. Compile(loads[t].snap) \in Tables
    BY <1>0, CompileType DEF Load
  <2> QED
    BY <1>4, <2>1, ReadyLoadType DEF Install
<1> QED
  BY <1>1, <1>2, <1>3, <1>4 DEF LoadStep

(* A handler's store mutation keeps types, and so does starting its reload. *)
LEMMA MutationType ==
  ASSUME StoreTypeOK, RouterTypeOK, NEW s \in Data, NEW saved \in BOOLEAN,
         NEW a \in Threads,
         MutateAndReload(a, s, saved) \/ MutateOnly(s, saved)
  PROVE  /\ StoreTypeOK'
         /\ RouterTypeOK'
         /\ clean' \in [Threads -> BOOLEAN]
         /\ agreed' \in BOOLEAN
<1>1. Commit(s, saved) /\ Mutated
  BY DEF MutateAndReload, MutateOnly
<1>2. StoreTypeOK'
  BY <1>1, CommitType
<1>3. RouterTypeOK'
  BY ReadyLoadType DEF MutateAndReload, MutateOnly, RouterTypeOK, routerVars
<1> QED
  BY <1>1, <1>2, <1>3 DEF Mutated

LEMMA InitTypeOK == Init => TypeOK
<1>1. ASSUME Init PROVE TypeOK
  <2>1. Compile(Empty) \in Tables
    BY EmptyType, CompileType
  <2> QED
    BY <1>1, <2>1, EmptyType, ReadyLoadType, StoreAssumption, ControlPlaneAssumption
    DEF Init, StoreInit, RouterInit, TypeOK, StoreTypeOK, RouterTypeOK
<1> QED
  BY <1>1

LEMMA StepTypeOK == TypeOK /\ [Next]_vars => TypeOK'
<1> SUFFICES ASSUME TypeOK, [Next]_vars PROVE TypeOK'
  OBVIOUS
<1> USE ControlPlaneAssumption, StoreAssumption
<1> DEFINE Rest == /\ work \in [Admins \cup Stampers -> Work \cup {None}]
                   /\ born \subseteq RouteIds
                   /\ issued \in [KeyIds -> 0..MaxSecret]
                   /\ epoch \in 0..MaxRestarts
<1>0. StoreTypeOK /\ RouterTypeOK /\ Rest /\ mem \in Data
  BY DEF TypeOK, StoreTypeOK
<1>m. ASSUME NEW a \in Threads, NEW s \in Data, NEW saved \in SaveOutcomes,
             MutateAndReload(a, s, saved) \/ MutateOnly(s, saved), Rest'
      PROVE  TypeOK'
  <2>1. saved \in BOOLEAN
    OBVIOUS
  <2> QED
    BY <1>0, <1>m, <2>1, MutationType DEF TypeOK
<1>1. ASSUME NEW a \in Admins, ReloadConfig(a) PROVE TypeOK'
  BY <1>0, <1>1, ReadyLoadType
  DEF ReloadConfig, TypeOK, StoreTypeOK, RouterTypeOK, storeVars, idVars, history
<1>2. ASSUME NEW a \in Admins, NEW r \in RouteIds, NEW v \in RouteVals,
             NEW saved \in SaveOutcomes, CreateRoute(a, r, v, saved)
      PROVE TypeOK'
  BY <1>0, <1>2, <1>m, EditTypes DEF CreateRoute
<1>3. ASSUME NEW a \in Admins, NEW r \in RouteIds, NEW v \in RouteVals,
             NEW saved \in SaveOutcomes, UpdateRoute(a, r, v, saved)
      PROVE TypeOK'
  BY <1>0, <1>3, <1>m, EditTypes DEF UpdateRoute, idVars
<1>4. ASSUME NEW a \in Admins, NEW r \in RouteIds, NEW saved \in SaveOutcomes,
             DeleteRoute(a, r, saved)
      PROVE TypeOK'
  BY <1>0, <1>4, <1>m, EditTypes DEF DeleteRoute, idVars
<1>5. ASSUME NEW a \in Admins, NEW r \in RouteIds, NEW c \in ConfigVals,
             NEW saved \in SaveOutcomes, UpdateRouteAuthConfig(a, r, c, saved)
      PROVE TypeOK'
  BY <1>0, <1>5, <1>m, EditTypes DEF UpdateRouteAuthConfig, idVars
<1>6. ASSUME NEW a \in Admins, NEW r \in RouteIds, NEW saved \in SaveOutcomes,
             DeleteRouteAuthConfig(a, r, saved)
      PROVE TypeOK'
  BY <1>0, <1>6, <1>m, EditTypes DEF DeleteRouteAuthConfig, idVars
<1>7. ASSUME NEW a \in Admins, NEW r \in RouteIds, NEW k \in KeyIds,
             NEW saved \in SaveOutcomes, CreateApiKey(a, r, k, saved)
      PROVE TypeOK'
  <2>1. [route |-> r, secret |-> 1, status |-> "active"] \in Key
    BY DEF Key, Statuses
  <2> QED
    BY <1>0, <1>7, <1>m, <2>1, EditTypes DEF CreateApiKey
<1>8. ASSUME NEW a \in Admins, NEW k \in KeyIds, NEW op \in {"rotate", "expire", "rename"},
             GetApiKey(a, k, op)
      PROVE TypeOK'
  <2>1. mem.keys[k] \in Key /\ op \in KeyOps
    BY <1>0, <1>8 DEF GetApiKey, Data, KeyOps
  <2>2. issued' \in [KeyIds -> 0..MaxSecret]
    BY <1>0, <1>8 DEF GetApiKey
  <2>3. Edit(op, mem.keys[k], issued'[k]) \in Key
    BY <2>1, <2>2, EditType
  <2>4. work' \in [Admins \cup Stampers -> Work \cup {None}]
    BY <1>0, <1>8, <2>1, <2>3 DEF GetApiKey, Work
  <2> QED
    BY <1>8, <2>2, <2>4
    DEF GetApiKey, TypeOK, StoreTypeOK, RouterTypeOK, storeVars, routerVars, history
<1>9. ASSUME NEW g \in Admins \cup Stampers, NEW saved \in SaveOutcomes,
             UpdateApiKey(g, saved)
      PROVE TypeOK'
  <2>0. work[g] \in Work
    BY <1>0, <1>9 DEF UpdateApiKey
  <2>1. Rest'
    BY <1>0, <1>9 DEF UpdateApiKey, idVars
  <2>2. CASE MutateOnly(PutKey(mem, work[g].key, work[g].rec), saved)
    <3>1. PutKey(mem, work[g].key, work[g].rec) \in Data
      BY <1>0, <2>0, EditTypes DEF Work
    <3>2. StoreTypeOK'
      BY <1>0, <2>2, <3>1, CommitType DEF MutateOnly
    <3> QED
      BY <1>0, <2>1, <2>2, <3>2 DEF MutateOnly, Mutated, TypeOK, RouterTypeOK, routerVars
  <2>3. CASE UNCHANGED <<storeVars, routerVars, history>>
    BY <2>1, <2>3 DEF TypeOK, StoreTypeOK, RouterTypeOK, storeVars, routerVars, history
  <2> QED
    BY <1>9, <2>2, <2>3 DEF UpdateApiKey
<1>10. ASSUME NEW a \in Admins, NEW k \in KeyIds, NEW saved \in SaveOutcomes,
              DeleteApiKey(a, k, saved)
       PROVE TypeOK'
  BY <1>0, <1>10, <1>m, EditTypes DEF DeleteApiKey, idVars
<1>11. ASSUME NEW c \in Reloaders, CertificateReload(c) PROVE TypeOK'
  BY <1>0, <1>11, ReadyLoadType
  DEF CertificateReload, TypeOK, StoreTypeOK, RouterTypeOK, storeVars, idVars, history
<1>12. ASSUME NEW u \in Stampers, NEW k \in KeyIds, AcceptKey(u, k) PROVE TypeOK'
  <2>1. [op |-> "spawned", key |-> k, rec |-> None] \in Work
    BY DEF Work
  <2> QED
    BY <1>12, <2>1
    DEF AcceptKey, TypeOK, StoreTypeOK, RouterTypeOK, storeVars, routerVars, idVars, history
<1>13. ASSUME NEW u \in Stampers, StampRead(u) PROVE TypeOK'
  <2> DEFINE k == work[u].key
  <2>1. k \in KeyIds
    BY <1>0, <1>13 DEF StampRead, Work
  <2>2. mem.keys[k] # None => Edit("stamp", mem.keys[k], issued[k]) \in Key
    BY <1>0, <2>1, EditType DEF Data, KeyOps
  <2>3. work' \in [Admins \cup Stampers -> Work \cup {None}]
    BY <1>0, <1>13, <2>1, <2>2 DEF StampRead, Work, KeyOps
  <2> QED
    BY <1>13, <2>3
    DEF StampRead, TypeOK, StoreTypeOK, RouterTypeOK, storeVars, routerVars, idVars, history
<1>14. ASSUME NEW t \in Threads, Reload(t) PROVE TypeOK'
  <2>1. RouterTypeOK'
    BY <1>0, <1>14, LoadStepType DEF Reload
  <2> QED
    BY <1>14, <2>1 DEF Reload, TypeOK, StoreTypeOK, storeVars, idVars
<1>15. ASSUME Restart PROVE TypeOK'
  <2>1. mem' \in Data /\ disk' \in Data
    BY <1>0, <1>15 DEF Restart, LoadStore, StoreTypeOK
  <2>2. table' \in Tables
    BY <1>15, <2>1, CompileType DEF Restart
  <2>3. epoch' \in 0..MaxRestarts
    BY <1>0, <1>15 DEF Restart
  <2> QED
    BY <1>0, <1>15, <2>1, <2>2, <2>3, ReadyLoadType
    DEF Restart, TypeOK, StoreTypeOK, RouterTypeOK
<1>16. CASE UNCHANGED vars
  BY <1>16 DEF vars, TypeOK, StoreTypeOK, RouterTypeOK
<1>17. ASSUME NEW a \in Admins, AdminStep(a) PROVE TypeOK'
  BY <1>1, <1>2, <1>3, <1>4, <1>5, <1>6, <1>7, <1>8, <1>9, <1>10, <1>17 DEF AdminStep
<1>18. ASSUME NEW u \in Stampers, StamperStep(u) PROVE TypeOK'
  BY <1>9, <1>12, <1>13, <1>18 DEF StamperStep
<1> QED
  BY <1>11, <1>14, <1>15, <1>16, <1>17, <1>18 DEF Next

(* Type correctness (mem, disk, table, loads and the histories). *)
THEOREM TypeCorrect == Spec => []TypeOK
  BY InitTypeOK, StepTypeOK, PTL DEF Spec

-----------------------------------------------------------------------------
(* Deletion is final within a run of the process. *)

(* What DeletedStaysDeleted forbids, for one step. *)
NoRevival ==
  epoch' = epoch =>
    /\ \A r \in born : mem.routes[r] = None => mem'.routes[r] = None
    /\ \A k \in KeyIds : issued[k] > 0 /\ mem.keys[k] = None => mem'.keys[k] = None

LEMMA StepNoRevival == TypeOK /\ [Next]_vars => NoRevival
<1> SUFFICES ASSUME TypeOK, [Next]_vars PROVE NoRevival
  OBVIOUS
<1> USE DEF NoRevival
<1>0. mem \in Data /\ born \subseteq RouteIds /\ epoch \in Nat
  BY ControlPlaneAssumption DEF TypeOK, StoreTypeOK
<1>1. ASSUME NEW a \in Admins, AdminStep(a) PROVE NoRevival
  <2>1. CASE ReloadConfig(a)
    BY <2>1 DEF ReloadConfig, storeVars
  <2>2. ASSUME NEW r \in RouteIds, NEW v \in RouteVals, NEW saved, CreateRoute(a, r, v, saved)
        PROVE NoRevival
    BY <1>0, <2>2 DEF CreateRoute, MutateAndReload, Commit, PutRoute, Data
  <2>3. ASSUME NEW r \in RouteIds, NEW v \in RouteVals, NEW saved, UpdateRoute(a, r, v, saved)
        PROVE NoRevival
    BY <1>0, <2>3 DEF UpdateRoute, MutateAndReload, Commit, PutRoute, Data
  <2>4. ASSUME NEW r \in RouteIds, NEW saved, DeleteRoute(a, r, saved) PROVE NoRevival
    BY <1>0, <2>4 DEF DeleteRoute, MutateAndReload, Commit, DropRoute, KeysWithout, Data
  <2>5. ASSUME NEW r \in RouteIds, NEW c \in ConfigVals, NEW saved,
               UpdateRouteAuthConfig(a, r, c, saved)
        PROVE NoRevival
    BY <1>0, <2>5 DEF UpdateRouteAuthConfig, MutateAndReload, Commit, PutConfig, Data
  <2>6. ASSUME NEW r \in RouteIds, NEW saved, DeleteRouteAuthConfig(a, r, saved)
        PROVE NoRevival
    BY <1>0, <2>6
    DEF DeleteRouteAuthConfig, MutateAndReload, Commit, DropConfig, KeysWithout, Data
  <2>7. ASSUME NEW r \in RouteIds, NEW k \in KeyIds, NEW saved, CreateApiKey(a, r, k, saved)
        PROVE NoRevival
    BY <1>0, <2>7 DEF CreateApiKey, MutateAndReload, Commit, PutKey, Data
  <2>8. ASSUME NEW k \in KeyIds, NEW op, GetApiKey(a, k, op) PROVE NoRevival
    BY <2>8 DEF GetApiKey, storeVars
  <2>9. ASSUME NEW k \in KeyIds, NEW saved, DeleteApiKey(a, k, saved) PROVE NoRevival
    BY <1>0, <2>9 DEF DeleteApiKey, MutateOnly, Commit, DropKey, Data
  <2>10. ASSUME NEW saved, UpdateApiKey(a, saved) PROVE NoRevival
    BY <1>0, <2>10 DEF UpdateApiKey, KeyStored, MutateOnly, Commit, PutKey, Data, storeVars
  <2> QED
    BY <1>1, <2>1, <2>2, <2>3, <2>4, <2>5, <2>6, <2>7, <2>8, <2>9, <2>10 DEF AdminStep
<1>2. ASSUME NEW c \in Reloaders, CertificateReload(c) PROVE NoRevival
  BY <1>2 DEF CertificateReload, storeVars
<1>3. ASSUME NEW u \in Stampers, StamperStep(u) PROVE NoRevival
  <2>1. ASSUME NEW saved, UpdateApiKey(u, saved) PROVE NoRevival
    BY <1>0, <2>1 DEF UpdateApiKey, KeyStored, MutateOnly, Commit, PutKey, Data, storeVars
  <2> QED
    BY <1>3, <2>1 DEF StamperStep, AcceptKey, StampRead, storeVars
<1>4. ASSUME NEW t \in Threads, Reload(t) PROVE NoRevival
  BY <1>4 DEF Reload, storeVars
<1>5. CASE Restart
  BY <1>0, <1>5 DEF Restart
<1>6. CASE UNCHANGED vars
  BY <1>6 DEF vars
<1> QED
  BY <1>1, <1>2, <1>3, <1>4, <1>5, <1>6 DEF Next

(* Within one run of the process no pending or late write brings a deleted
   route or key back: UpdateRoute's and UpdateApiKey's lookups suffice. *)
THEOREM DeletionIsFinal == Spec => DeletedStaysDeleted
<1>1. TypeOK /\ [Next]_vars => [NoRevival]_vars
  BY StepNoRevival
<1>2. Spec => [][NoRevival]_vars
  BY <1>1, TypeCorrect, PTL DEF Spec
<1> QED
  BY <1>2 DEF DeletedStaysDeleted, NoRevival

-----------------------------------------------------------------------------
(* A load no mutation interrupted installs what the store holds. *)

(* Two stores that agree on routes, and on the configs and keys of stored
   routes, compile to the same table. *)
LEMMA CompileAgree ==
  ASSUME NEW s \in Data, NEW d \in Data,
         s.routes = d.routes,
         \A r \in Stored(d) : s.configs[r] = d.configs[r],
         \A k \in KeyIds : s.keys[k] \in {None, d.keys[k]},
         \A k \in KeyIds :
           d.keys[k] # None /\ d.keys[k].route \in Stored(d) => s.keys[k] = d.keys[k]
  PROVE  Compile(s) = Compile(d)
<1>1. ASSUME NEW r \in Stored(d) PROVE ActiveKeys(s, r) = ActiveKeys(d, r)
  BY <1>1 DEF ActiveKeys
<1> QED
  BY <1>1 DEF Compile, Stored

(* Each step of a load keeps ReadsAgree, and an agreeing load installs the
   table of the store. *)
LEMMA LoadStepAgree ==
  ASSUME TypeOK, ReloadInv, NEW t \in Threads, Reload(t)
  PROVE  ReloadInv'
<1> USE DEF ReloadInv
<1>0. /\ mem \in Data /\ mem' = mem
      /\ loads \in [Threads -> Load]
      /\ loads[t].snap \in Data
      /\ clean \in [Threads -> BOOLEAN]
  BY DEF TypeOK, StoreTypeOK, RouterTypeOK, Reload, storeVars, Load
<1>1. CASE ListRoutes(t)
  <2> DEFINE snap == [Empty EXCEPT !.routes = mem.routes]
  <2>1. /\ snap.routes = mem.routes
        /\ \A k \in KeyIds : snap.keys[k] = None
        /\ snap \in Data
    BY <1>0, EmptyType DEF Empty, Data
  <2>2. Stored(mem) = {} => Compile(snap) = Compile(mem)
    BY <2>1 DEF Compile, Stored
  <2>3. loads'[t] = [pc   |-> IF Stored(mem) = {} THEN "install" ELSE "configs",
                     snap |-> snap, todo |-> Stored(mem)]
    BY <1>0, <1>1 DEF ListRoutes
  <2>4. ReadsAgree(t)'
    <3> HIDE DEF snap
    <3>1. /\ loads'[t].snap = snap
          /\ loads'[t].todo = Stored(mem)
          /\ loads'[t].pc = IF Stored(mem) = {} THEN "install" ELSE "configs"
      BY <2>3
    <3> QED
      BY <1>0, <2>1, <2>2, <3>1 DEF ReadsAgree, ConfigsRead
  <2>5. \A u \in Threads \ {t} : ReadsAgree(u) => ReadsAgree(u)'
    BY <1>0, <1>1 DEF ListRoutes, ReadsAgree, ConfigsRead, KeysReadOf
  <2>6. \A u \in Threads \ {t} : clean'[u] = clean[u]
    BY <1>0, <1>1 DEF Reload
  <2>7. table' = table /\ agreed' = agreed
    BY <1>1 DEF ListRoutes, Reload
  <2> QED
    BY <1>0, <2>4, <2>5, <2>6, <2>7 DEF CleanReloadServesStore
<1>2. CASE ReadConfig(t)
  <2>1. PICK r \in loads[t].todo :
          loads' = [loads EXCEPT ![t] =
            [pc   |-> IF loads[t].todo \ {r} = {} THEN "keys" ELSE "configs",
             snap |-> PutConfig(loads[t].snap, r, mem.configs[r]),
             todo |-> IF loads[t].todo \ {r} = {} THEN Stored(loads[t].snap)
                      ELSE loads[t].todo \ {r}]]
    BY <1>2 DEF ReadConfig
  <2> DEFINE snap == PutConfig(loads[t].snap, r, mem.configs[r])
  <2>2. r \in RouteIds
    BY <1>0 DEF Load
  <2>3. /\ snap.routes = loads[t].snap.routes
        /\ snap.keys = loads[t].snap.keys
        /\ snap.configs[r] = mem.configs[r]
        /\ \A q \in RouteIds \ {r} : snap.configs[q] = loads[t].snap.configs[q]
    BY <1>0, <2>2 DEF PutConfig, Data
  <2>4. ASSUME clean[t] PROVE ReadsAgree(t)'
    <3>1. /\ loads[t].snap.routes = mem.routes
          /\ ConfigsRead(t, Stored(mem) \ loads[t].todo)
          /\ \A k \in KeyIds : loads[t].snap.keys[k] = None
      BY <1>2, <2>4 DEF ReadConfig, ReadsAgree
    <3>2. Stored(mem) \subseteq RouteIds /\ Stored(mem) = Stored(loads[t].snap)
      BY <3>1 DEF Stored
    <3>3. \A q \in Stored(mem) : q \notin loads[t].todo \ {r} => snap.configs[q] = mem.configs[q]
      BY <2>2, <2>3, <3>1, <3>2 DEF ConfigsRead
    <3>4. /\ loads'[t].snap = snap
          /\ loads'[t].pc = IF loads[t].todo \ {r} = {} THEN "keys" ELSE "configs"
          /\ loads'[t].todo = IF loads[t].todo \ {r} = {} THEN Stored(mem)
                              ELSE loads[t].todo \ {r}
      BY <1>0, <2>1, <3>2
    <3>5. loads'[t].snap.routes = mem'.routes
      BY <1>0, <2>3, <3>1, <3>4
    <3>6. \A q \in Stored(mem') : q \notin loads[t].todo \ {r} =>
             loads'[t].snap.configs[q] = mem'.configs[q]
      BY <1>0, <3>3, <3>4
    <3>7. \A k \in KeyIds : loads'[t].snap.keys[k] = None
      BY <2>3, <3>1, <3>4
    <3> QED
      BY <1>0, <3>4, <3>5, <3>6, <3>7 DEF ReadsAgree, ConfigsRead, KeysReadOf
  <2>5. \A u \in Threads \ {t} : ReadsAgree(u) => ReadsAgree(u)'
    BY <1>0, <2>1 DEF ReadsAgree, ConfigsRead, KeysReadOf
  <2>6. clean' = clean /\ table' = table /\ agreed' = agreed
    BY <1>2 DEF ReadConfig, Reload
  <2> QED
    BY <1>0, <2>4, <2>5, <2>6 DEF CleanReloadServesStore
<1>3. CASE ReadKeys(t)
  <2>1. PICK r \in loads[t].todo :
          loads' = [loads EXCEPT ![t] =
            [pc   |-> IF loads[t].todo \ {r} = {} THEN "install" ELSE "keys",
             snap |-> KeysRead(loads[t].snap, r),
             todo |-> loads[t].todo \ {r}]]
    BY <1>3 DEF ReadKeys
  <2> DEFINE snap == KeysRead(loads[t].snap, r)
  <2>2. /\ snap.routes = loads[t].snap.routes
        /\ snap.configs = loads[t].snap.configs
        /\ \A k \in KeyIds : snap.keys[k] = IF mem.keys[k] # None /\ mem.keys[k].route = r
                                            THEN mem.keys[k] ELSE loads[t].snap.keys[k]
    BY <1>0 DEF KeysRead, Data
  <2>3. ASSUME clean[t] PROVE ReadsAgree(t)'
    <3>1. /\ loads[t].snap.routes = mem.routes
          /\ ConfigsRead(t, Stored(mem))
          /\ KeysReadOf(t, Stored(mem) \ loads[t].todo)
      BY <1>3, <2>3 DEF ReadKeys, ReadsAgree
    <3>2. /\ snap.routes = mem.routes
          /\ \A q \in Stored(mem) : snap.configs[q] = mem.configs[q]
      BY <2>2, <3>1 DEF ConfigsRead
    <3>3. \A k \in KeyIds : snap.keys[k] \in {None, mem.keys[k]}
      BY <2>2, <3>1 DEF KeysReadOf
    <3>4. \A k \in KeyIds :
            mem.keys[k] # None /\ mem.keys[k].route \in Stored(mem) \ (loads[t].todo \ {r})
            => snap.keys[k] = mem.keys[k]
      BY <2>2, <3>1 DEF KeysReadOf
    <3>5. /\ loads'[t].snap = snap
          /\ loads'[t].todo = loads[t].todo \ {r}
          /\ loads'[t].pc = IF loads[t].todo \ {r} = {} THEN "install" ELSE "keys"
      BY <1>0, <2>1
    <3>6. snap \in Data
      BY <1>0 DEF KeysRead, Data
    <3>7. loads[t].todo \ {r} = {} => Compile(snap) = Compile(mem)
      BY <1>0, <3>2, <3>3, <3>4, <3>6, CompileAgree
    <3> QED
      BY <1>0, <3>2, <3>3, <3>4, <3>5, <3>7 DEF ReadsAgree, ConfigsRead, KeysReadOf
  <2>4. \A u \in Threads \ {t} : ReadsAgree(u) => ReadsAgree(u)'
    BY <1>0, <2>1 DEF ReadsAgree, ConfigsRead, KeysReadOf
  <2>5. clean' = clean /\ table' = table /\ agreed' = agreed
    BY <1>3 DEF ReadKeys, Reload
  <2> QED
    BY <1>0, <2>3, <2>4, <2>5 DEF CleanReloadServesStore
<1>4. CASE Install(t)
  <2>1. /\ table' = Compile(loads[t].snap)
        /\ agreed' = clean[t]
        /\ clean' = clean
        /\ loads' = [loads EXCEPT ![t] = IdleLoad]
        /\ loads[t].pc = "install"
    BY <1>4 DEF Install, Reload
  <2>2. clean[t] => table' = Compile(mem')
    BY <1>0, <2>1 DEF ReadsAgree
  <2>3. \A u \in Threads \ {t} : ReadsAgree(u) => ReadsAgree(u)'
    BY <1>0, <2>1 DEF ReadsAgree, ConfigsRead, KeysReadOf
  <2>4. ReadsAgree(t)'
    BY <1>0, <2>1 DEF ReadsAgree, IdleLoad
  <2> QED
    BY <2>1, <2>2, <2>3, <2>4 DEF CleanReloadServesStore
<1> QED
  BY <1>1, <1>2, <1>3, <1>4 DEF Reload, LoadStep

(* A mutation clears both histories, so nothing is left to show. *)
LEMMA MutationReloadInv ==
  ASSUME ReloadInv, Mutated PROVE ReloadInv'
  BY DEF Mutated, ReloadInv, CleanReloadServesStore

(* Starting a load, or a step that leaves store, router and histories alone. *)
LEMMA StartReloadInv ==
  ASSUME TypeOK, ReloadInv, UNCHANGED <<storeVars, table, history>>,
         \/ UNCHANGED loads
         \/ \E t \in Threads : loads' = [loads EXCEPT ![t] = ReadyLoad]
  PROVE  ReloadInv'
<1>1. /\ mem' = mem /\ table' = table /\ clean' = clean /\ agreed' = agreed
      /\ loads \in [Threads -> Load]
  BY DEF storeVars, history, TypeOK, RouterTypeOK
<1>2. ASSUME NEW u \in Threads, ReadsAgree(u) PROVE ReadsAgree(u)'
  BY <1>1, <1>2 DEF ReadsAgree, ConfigsRead, KeysReadOf, ReadyLoad
<1> QED
  BY <1>1, <1>2 DEF ReloadInv, CleanReloadServesStore

LEMMA StepReloadInv == TypeOK /\ ReloadInv /\ [Next]_vars => ReloadInv'
<1> SUFFICES ASSUME TypeOK, ReloadInv, [Next]_vars PROVE ReloadInv'
  OBVIOUS
<1> USE DEF storeVars, routerVars, history
<1>1. ASSUME NEW g \in Admins \cup Stampers, NEW saved, UpdateApiKey(g, saved) PROVE ReloadInv'
  <2>1. CASE MutateOnly(PutKey(mem, work[g].key, work[g].rec), saved)
    BY <2>1, MutationReloadInv DEF MutateOnly
  <2>2. CASE UNCHANGED <<storeVars, routerVars, history>>
    BY <2>2, StartReloadInv
  <2> QED
    BY <1>1, <2>1, <2>2 DEF UpdateApiKey
<1>2. ASSUME NEW a \in Admins, AdminStep(a) PROVE ReloadInv'
  <2>1. CASE ReloadConfig(a)
    BY <2>1, StartReloadInv, ControlPlaneAssumption DEF ReloadConfig
  <2>2. ASSUME NEW k \in KeyIds, NEW op, GetApiKey(a, k, op) PROVE ReloadInv'
    BY <2>2, StartReloadInv DEF GetApiKey
  <2>3. ASSUME NEW r \in RouteIds, NEW v \in RouteVals, NEW saved, CreateRoute(a, r, v, saved)
        PROVE ReloadInv'
    BY <2>3, MutationReloadInv DEF CreateRoute, MutateAndReload
  <2>4. ASSUME NEW r \in RouteIds, NEW v \in RouteVals, NEW saved, UpdateRoute(a, r, v, saved)
        PROVE ReloadInv'
    BY <2>4, MutationReloadInv DEF UpdateRoute, MutateAndReload
  <2>5. ASSUME NEW r \in RouteIds, NEW c \in ConfigVals, NEW saved,
               UpdateRouteAuthConfig(a, r, c, saved)
        PROVE ReloadInv'
    BY <2>5, MutationReloadInv DEF UpdateRouteAuthConfig, MutateAndReload
  <2>6. ASSUME NEW r \in RouteIds, NEW saved, DeleteRoute(a, r, saved) PROVE ReloadInv'
    BY <2>6, MutationReloadInv DEF DeleteRoute, MutateAndReload
  <2>7. ASSUME NEW r \in RouteIds, NEW saved, DeleteRouteAuthConfig(a, r, saved)
        PROVE ReloadInv'
    BY <2>7, MutationReloadInv DEF DeleteRouteAuthConfig, MutateAndReload
  <2>8. ASSUME NEW r \in RouteIds, NEW k \in KeyIds, NEW saved, CreateApiKey(a, r, k, saved)
        PROVE ReloadInv'
    BY <2>8, MutationReloadInv DEF CreateApiKey, MutateAndReload
  <2>9. ASSUME NEW k \in KeyIds, NEW saved, DeleteApiKey(a, k, saved) PROVE ReloadInv'
    BY <2>9, MutationReloadInv DEF DeleteApiKey, MutateOnly
  <2> QED
    BY <1>1, <1>2, <2>1, <2>2, <2>3, <2>4, <2>5, <2>6, <2>7, <2>8, <2>9 DEF AdminStep
<1>3. ASSUME NEW c \in Reloaders, CertificateReload(c) PROVE ReloadInv'
  BY <1>3, StartReloadInv, ControlPlaneAssumption DEF CertificateReload
<1>4. ASSUME NEW u \in Stampers, StamperStep(u) PROVE ReloadInv'
  BY <1>1, <1>4, StartReloadInv DEF StamperStep, AcceptKey, StampRead
<1>5. ASSUME NEW t \in Threads, Reload(t) PROVE ReloadInv'
  BY <1>5, LoadStepAgree
<1>6. CASE Restart
  <2>1. table' = Compile(mem')
    BY <1>6 DEF Restart
  <2>2. \A t \in Threads : ~ clean'[t]
    BY <1>6 DEF Restart
  <2> QED
    BY <2>1, <2>2 DEF ReloadInv, CleanReloadServesStore
<1>7. CASE UNCHANGED vars
  BY <1>7, StartReloadInv DEF vars
<1> QED
  BY <1>2, <1>3, <1>4, <1>5, <1>6, <1>7 DEF Next

(* However loads and mutations interleave, a load that no mutation interrupted
   leaves the proxy serving the store, until the next mutation or the install
   of an interrupted load. *)
THEOREM CleanReload == Spec => []CleanReloadServesStore
<1>1. Init => ReloadInv
  BY DEF Init, RouterInit, ReloadInv, CleanReloadServesStore
<1>2. ReloadInv => CleanReloadServesStore
  BY DEF ReloadInv
<1> QED
  BY <1>1, <1>2, TypeCorrect, StepReloadInv, PTL DEF Spec

-----------------------------------------------------------------------------
(* Configs and keys never outlive their route. *)

(* What each edit keeps of the referential integrity of a store. *)
LEMMA EditReferential ==
  ASSUME NEW s \in Data, Referential(s)
  PROVE  /\ \A r \in RouteIds, v \in RouteVals : Referential(PutRoute(s, r, v))
         /\ \A r \in RouteIds, c \in ConfigVals :
              s.routes[r] # None => Referential(PutConfig(s, r, c))
         /\ \A k \in KeyIds, rec \in Key \cup {None} :
              (rec # None => s.routes[rec.route] # None) => Referential(PutKey(s, k, rec))
         /\ \A k \in KeyIds : Referential(DropKey(s, k))
         /\ \A r \in RouteIds : Referential(DropConfig(s, r))
         /\ \A r \in RouteIds : Referential(DropRoute(s, r))
         /\ Referential(Persisted(s))
<1> USE DEF Referential, Data
<1>1. \A r \in RouteIds, v \in RouteVals : Referential(PutRoute(s, r, v))
  BY StoreAssumption DEF PutRoute, Key
<1>2. \A r \in RouteIds, c \in ConfigVals :
        s.routes[r] # None => Referential(PutConfig(s, r, c))
  BY DEF PutConfig
<1>3. \A k \in KeyIds, rec \in Key \cup {None} :
        (rec # None => s.routes[rec.route] # None) => Referential(PutKey(s, k, rec))
  BY DEF PutKey
<1>4. \A k \in KeyIds : Referential(DropKey(s, k))
  BY DEF DropKey
<1>5. \A r \in RouteIds : Referential(DropConfig(s, r))
  BY DEF DropConfig, KeysWithout
<1>6. \A r \in RouteIds : Referential(DropRoute(s, r))
  BY DEF DropRoute, KeysWithout, Key
<1>7. Referential(Persisted(s))
  <2>1. /\ Persisted(s).routes = s.routes
        /\ Persisted(s).configs = s.configs
        /\ \A k \in KeyIds : Persisted(s).keys[k] =
             IF s.keys[k] = None THEN None ELSE [s.keys[k] EXCEPT !.secret = NoSecret]
    BY DEF Persisted
  <2>2. ASSUME NEW k \in KeyIds, Persisted(s).keys[k] # None
        PROVE  s.keys[k] # None /\ Persisted(s).keys[k].route = s.keys[k].route
    <3>1. s.keys[k] # None /\ Persisted(s).keys[k] = [s.keys[k] EXCEPT !.secret = NoSecret]
      BY <2>1, <2>2
    <3>2. s.keys[k] \in Key
      BY <3>1
    <3>3. [s.keys[k] EXCEPT !.secret = NoSecret].route = s.keys[k].route
      BY <3>2 DEF Key
    <3> QED
      BY <3>1, <3>3
  <2> QED
    BY <2>1, <2>2
<1> QED
  BY <1>1, <1>2, <1>3, <1>4, <1>5, <1>6, <1>7

(* A mutation keeps Issued when the keys it leaves, and the pending work, are
   issued by then. *)
LEMMA MutationIssued ==
  ASSUME TypeOK, Issued, NEW s \in Data, NEW saved \in BOOLEAN, NEW a,
         MutateAndReload(a, s, saved) \/ MutateOnly(s, saved),
         \A k \in KeyIds : issued[k] > 0 => issued'[k] > 0,
         \A k \in KeyIds : s.keys[k] # None => issued'[k] > 0,
         \A g \in Admins \cup Stampers : work'[g] # None => issued'[work'[g].key] > 0
  PROVE  Issued'
<1>1. mem' = s /\ disk' \in {disk, Persisted(s)} /\ table' = table
  BY DEF MutateAndReload, MutateOnly, Commit, routerVars
<1>2. \A k \in KeyIds : Persisted(s).keys[k] # None => s.keys[k] # None
  <2>1. \A k \in KeyIds : Persisted(s).keys[k] =
          IF s.keys[k] = None THEN None ELSE [s.keys[k] EXCEPT !.secret = NoSecret]
    BY DEF Persisted, Data
  <2> QED
    BY <2>1
<1>3. \A k \in KeyIds : disk'.keys[k] # None => issued'[k] > 0
  BY <1>1, <1>2 DEF Issued, KnownKeys
<1>4. \A t \in Threads : loads'[t].snap \in {loads[t].snap, Empty}
  BY DEF MutateAndReload, MutateOnly, routerVars, ReadyLoad, TypeOK, RouterTypeOK
<1>5. \A t \in Threads : \A k \in KeyIds : loads'[t].snap.keys[k] # None => issued'[k] > 0
  BY <1>4 DEF Issued, KnownKeys, Empty
<1>6. \A r \in RouteIds : table[r] # None => \A e \in table[r].keys : e.id \in KeyIds
  BY DEF TypeOK, RouterTypeOK, Tables, Entry
<1> QED
  BY <1>1, <1>3, <1>5, <1>6 DEF Issued, KnownKeys

(* One step of a reload keeps Issued. *)
LEMMA LoadStepIssued ==
  ASSUME TypeOK, Issued, NEW t \in Threads, Reload(t)
  PROVE  Issued'
<1>0. /\ loads \in [Threads -> Load]
      /\ loads[t].snap \in Data
      /\ mem \in Data
      /\ mem' = mem /\ disk' = disk /\ issued' = issued /\ work' = work
  BY DEF TypeOK, StoreTypeOK, RouterTypeOK, Reload, storeVars, idVars, Load
<1>a. ASSUME KnownKeys(loads'[t].snap), table' = table,
             \A u \in Threads \ {t} : loads'[u] = loads[u]
      PROVE  Issued'
  BY <1>0, <1>a DEF Issued, KnownKeys
<1>1. CASE ListRoutes(t)
  <2>1. KnownKeys(loads'[t].snap)
    BY <1>0, <1>1 DEF ListRoutes, KnownKeys, Empty
  <2> QED
    BY <1>0, <1>1, <1>a, <2>1 DEF ListRoutes
<1>2. CASE ReadConfig(t)
  <2>1. loads'[t].snap.keys = loads[t].snap.keys
    BY <1>0, <1>2 DEF ReadConfig, PutConfig, Data
  <2>2. KnownKeys(loads'[t].snap)
    BY <2>1 DEF Issued, KnownKeys
  <2> QED
    BY <1>0, <1>2, <1>a, <2>2 DEF ReadConfig
<1>3. CASE ReadKeys(t)
  <2>1. \A k \in KeyIds : loads'[t].snap.keys[k] \in {mem.keys[k], loads[t].snap.keys[k]}
    BY <1>0, <1>3 DEF ReadKeys, KeysRead, Data
  <2>2. KnownKeys(loads'[t].snap)
    BY <2>1 DEF Issued, KnownKeys
  <2> QED
    BY <1>0, <1>3, <1>a, <2>2 DEF ReadKeys
<1>4. CASE Install(t)
  <2>1. \A r \in RouteIds : table'[r] # None =>
           \A e \in table'[r].keys : issued[e.id] > 0
    BY <1>0, <1>4 DEF Install, Compile, ActiveKeys, Issued, KnownKeys
  <2>2. \A u \in Threads : loads'[u].snap \in {loads[u].snap, Empty}
    BY <1>0, <1>4 DEF Install, IdleLoad
  <2>3. \A u \in Threads : \A k \in KeyIds : loads'[u].snap.keys[k] # None => issued[k] > 0
    BY <2>2 DEF Issued, KnownKeys, Empty
  <2> QED
    BY <1>0, <2>1, <2>3 DEF Issued, KnownKeys
<1> QED
  BY <1>1, <1>2, <1>3, <1>4 DEF Reload, LoadStep

LEMMA StepIssued == TypeOK /\ Issued /\ [Next]_vars => Issued'
<1> SUFFICES ASSUME TypeOK, Issued, [Next]_vars PROVE Issued'
  OBVIOUS
<1> USE StoreAssumption
<1>0. /\ mem \in Data /\ disk \in Data
      /\ issued \in [KeyIds -> Nat]
      /\ work \in [Admins \cup Stampers -> Work \cup {None}]
      /\ \A k \in KeyIds : mem.keys[k] # None => issued[k] > 0
      /\ \A g \in Admins \cup Stampers : work[g] # None =>
           work[g].key \in KeyIds /\ issued[work[g].key] > 0
  BY DEF TypeOK, StoreTypeOK, Issued, KnownKeys, Work
<1>a. ASSUME NEW s \in Data, NEW saved \in SaveOutcomes, NEW a,
             MutateAndReload(a, s, saved) \/ MutateOnly(s, saved),
             issued' = issued, work' = work,
             \A k \in KeyIds : s.keys[k] # None => mem.keys[k] # None
      PROVE  Issued'
  <2>1. saved \in BOOLEAN
    OBVIOUS
  <2> QED
    BY <1>0, <1>a, <2>1, MutationIssued
<1>b. ASSUME UNCHANGED <<storeVars, table, issued>>,
             \A t \in Threads : loads'[t].snap \in {loads[t].snap, Empty},
             \A g \in Admins \cup Stampers :
               work'[g] = work[g] \/ (work'[g] # None => issued[work'[g].key] > 0)
      PROVE  Issued'
  <2>1. \A t \in Threads : \A k \in KeyIds : loads'[t].snap.keys[k] # None => issued[k] > 0
    BY <1>b DEF Issued, KnownKeys, Empty
  <2> QED
    BY <1>b, <2>1 DEF Issued, KnownKeys, storeVars
<1>s. ASSUME NEW t \in Threads, loads' = [loads EXCEPT ![t] = ReadyLoad]
      PROVE  \A u \in Threads : loads'[u].snap \in {loads[u].snap, Empty}
  BY <1>s DEF ReadyLoad, TypeOK, RouterTypeOK
<1>1. ASSUME NEW a \in Admins, ReloadConfig(a) PROVE Issued'
  BY <1>1, <1>b, <1>s, ControlPlaneAssumption DEF ReloadConfig, idVars
<1>2. ASSUME NEW a \in Admins, NEW r \in RouteIds, NEW v \in RouteVals,
             NEW saved \in SaveOutcomes, CreateRoute(a, r, v, saved)
      PROVE Issued'
  <2>1. PutRoute(mem, r, v) \in Data /\ PutRoute(mem, r, v).keys = mem.keys
    BY <1>0, EditTypes DEF PutRoute, Data
  <2> QED
    BY <1>2, <1>a, <2>1 DEF CreateRoute
<1>3. ASSUME NEW a \in Admins, NEW r \in RouteIds, NEW v \in RouteVals,
             NEW saved \in SaveOutcomes, UpdateRoute(a, r, v, saved)
      PROVE Issued'
  <2>1. PutRoute(mem, r, v) \in Data /\ PutRoute(mem, r, v).keys = mem.keys
    BY <1>0, EditTypes DEF PutRoute, Data
  <2> QED
    BY <1>3, <1>a, <2>1 DEF UpdateRoute, idVars
<1>4. ASSUME NEW a \in Admins, NEW r \in RouteIds, NEW saved \in SaveOutcomes,
             DeleteRoute(a, r, saved)
      PROVE Issued'
  <2>1. /\ DropRoute(mem, r) \in Data
        /\ DropRoute(mem, r).keys = KeysWithout(mem, r)
    BY <1>0, EditTypes DEF DropRoute, Data
  <2>2. \A k \in KeyIds : KeysWithout(mem, r)[k] # None => mem.keys[k] # None
    BY DEF KeysWithout
  <2> QED
    BY <1>4, <1>a, <2>1, <2>2 DEF DeleteRoute, idVars
<1>5. ASSUME NEW a \in Admins, NEW r \in RouteIds, NEW c \in ConfigVals,
             NEW saved \in SaveOutcomes, UpdateRouteAuthConfig(a, r, c, saved)
      PROVE Issued'
  <2>1. PutConfig(mem, r, c) \in Data /\ PutConfig(mem, r, c).keys = mem.keys
    BY <1>0, EditTypes DEF PutConfig, Data
  <2> QED
    BY <1>5, <1>a, <2>1 DEF UpdateRouteAuthConfig, idVars
<1>6. ASSUME NEW a \in Admins, NEW r \in RouteIds, NEW saved \in SaveOutcomes,
             DeleteRouteAuthConfig(a, r, saved)
      PROVE Issued'
  <2>1. /\ DropConfig(mem, r) \in Data
        /\ DropConfig(mem, r).keys = KeysWithout(mem, r)
    BY <1>0, EditTypes DEF DropConfig, Data
  <2>2. \A k \in KeyIds : KeysWithout(mem, r)[k] # None => mem.keys[k] # None
    BY DEF KeysWithout
  <2> QED
    BY <1>6, <1>a, <2>1, <2>2 DEF DeleteRouteAuthConfig, idVars
<1>7. ASSUME NEW a \in Admins, NEW r \in RouteIds, NEW k \in KeyIds,
             NEW saved \in SaveOutcomes, CreateApiKey(a, r, k, saved)
      PROVE Issued'
  <2> DEFINE rec == [route |-> r, secret |-> 1, status |-> "active"]
  <2>1. rec \in Key
    BY DEF Key, Statuses
  <2> HIDE DEF rec
  <2>2. PutKey(mem, k, rec) \in Data
    BY <1>0, <2>1, EditTypes
  <2>8. \A j \in KeyIds : PutKey(mem, k, rec).keys[j] = IF j = k THEN rec ELSE mem.keys[j]
    BY <1>0, <2>1 DEF PutKey, Data
  <2>3. \A j \in KeyIds : issued'[j] = IF j = k THEN 1 ELSE issued[j]
    BY <1>0, <1>7 DEF CreateApiKey
  <2>4. work' = work /\ MutateAndReload(a, PutKey(mem, k, rec), saved) /\ saved \in BOOLEAN
    BY <1>7 DEF CreateApiKey, rec
  <2>5. \A j \in KeyIds : issued[j] > 0 => issued'[j] > 0
    BY <2>3
  <2>6. \A j \in KeyIds : PutKey(mem, k, rec).keys[j] # None => issued'[j] > 0
    BY <1>0, <2>3, <2>8
  <2>7. \A g \in Admins \cup Stampers : work'[g] # None => issued'[work'[g].key] > 0
    BY <1>0, <2>4, <2>5
  <2> QED
    BY <2>2, <2>4, <2>5, <2>6, <2>7, MutationIssued
<1>8. ASSUME NEW a \in Admins, NEW k \in KeyIds, NEW op \in {"rotate", "expire", "rename"},
             GetApiKey(a, k, op)
      PROVE Issued'
  <2>1. \A j \in KeyIds : issued[j] > 0 => issued'[j] > 0
    BY <1>0, <1>8 DEF GetApiKey
  <2>2. \A g \in Admins \cup Stampers : work'[g] # None => issued'[work'[g].key] > 0
    <3>1. issued'[k] > 0
      BY <1>0, <1>8, <2>1 DEF GetApiKey
    <3>2. \A g \in (Admins \cup Stampers) \ {a} : work'[g] = work[g]
      BY <1>0, <1>8 DEF GetApiKey
    <3>3. work'[a].key = k
      BY <1>0, <1>8 DEF GetApiKey
    <3> QED
      BY <1>0, <2>1, <3>1, <3>2, <3>3
  <2>3. UNCHANGED <<storeVars, routerVars>>
    BY <1>8 DEF GetApiKey
  <2>4. \A r \in RouteIds : table[r] # None => \A e \in table[r].keys : e.id \in KeyIds
    BY DEF TypeOK, RouterTypeOK, Tables, Entry
  <2> QED
    BY <2>1, <2>2, <2>3, <2>4 DEF Issued, KnownKeys, storeVars, routerVars
<1>9. ASSUME NEW g \in Admins \cup Stampers, NEW saved \in SaveOutcomes,
             UpdateApiKey(g, saved)
      PROVE Issued'
  <2>0. work[g].key \in KeyIds /\ work[g].rec \in Key \cup {None} /\ work'[g] = None
    BY <1>0, <1>9 DEF UpdateApiKey, Work
  <2>1. \A h \in Admins \cup Stampers : work'[h] # None => work'[h] = work[h]
    BY <1>0, <1>9, <2>0 DEF UpdateApiKey
  <2>2. CASE KeyStored(work[g].key) /\ MutateOnly(PutKey(mem, work[g].key, work[g].rec), saved)
    <3>0. PutKey(mem, work[g].key, work[g].rec) \in Data
      BY <1>0, <2>0, EditTypes
    <3>1. \A j \in KeyIds \ {work[g].key} :
            PutKey(mem, work[g].key, work[g].rec).keys[j] = mem.keys[j]
      BY <1>0, <2>0 DEF PutKey, Data
    <3>2. issued' = issued /\ issued[work[g].key] > 0 /\ saved \in BOOLEAN
      BY <1>0, <1>9 DEF UpdateApiKey, idVars
    <3> QED
      BY <1>0, <2>1, <2>2, <3>0, <3>1, <3>2, MutationIssued
  <2>3. CASE UNCHANGED <<storeVars, routerVars, history>>
    BY <1>9, <1>b, <2>1, <2>3 DEF UpdateApiKey, routerVars, idVars
  <2> QED
    BY <1>9, <2>2, <2>3 DEF UpdateApiKey
<1>10. ASSUME NEW a \in Admins, NEW k \in KeyIds, NEW saved \in SaveOutcomes,
              DeleteApiKey(a, k, saved)
       PROVE Issued'
  <2>1. DropKey(mem, k) \in Data
    BY <1>0, EditTypes
  <2>2. DropKey(mem, k).keys = [mem.keys EXCEPT ![k] = None] /\ mem.keys \in [KeyIds -> Key \cup {None}]
    BY <1>0 DEF DropKey, Data
  <2>3. \A j \in KeyIds : DropKey(mem, k).keys[j] # None => mem.keys[j] # None
    BY <2>2
  <2> QED
    BY <1>10, <1>a, <2>1, <2>3 DEF DeleteApiKey, idVars
<1>11. ASSUME NEW c \in Reloaders, CertificateReload(c) PROVE Issued'
  BY <1>11, <1>b, <1>s, ControlPlaneAssumption DEF CertificateReload, idVars
<1>12. ASSUME NEW u \in Stampers, NEW k \in KeyIds, AcceptKey(u, k) PROVE Issued'
  <2>1. issued[k] > 0
    BY <1>12 DEF AcceptKey, Issued
  <2>2. \A g \in Admins \cup Stampers : work'[g] = work[g] \/ work'[g].key = k
    BY <1>0, <1>12 DEF AcceptKey
  <2> QED
    BY <1>12, <1>b, <2>1, <2>2 DEF AcceptKey, routerVars, idVars
<1>13. ASSUME NEW u \in Stampers, StampRead(u) PROVE Issued'
  <2>1. \A g \in Admins \cup Stampers :
          work'[g] = work[g] \/ (work'[g] # None => work'[g].key = work[u].key)
    BY <1>0, <1>13 DEF StampRead
  <2>2. issued[work[u].key] > 0
    BY <1>0, <1>13 DEF StampRead
  <2> QED
    BY <1>13, <1>b, <2>1, <2>2 DEF StampRead, routerVars, idVars
<1>14. ASSUME NEW t \in Threads, Reload(t) PROVE Issued'
  BY <1>14, LoadStepIssued
<1>15. ASSUME Restart PROVE Issued'
  <2>1. mem' = disk /\ disk' = disk /\ issued' = issued
    BY <1>15 DEF Restart, LoadStore
  <2>2. \A k \in KeyIds : disk.keys[k] # None => issued[k] > 0
    BY DEF Issued, KnownKeys
  <2>3. \A r \in RouteIds : table'[r] # None => \A e \in table'[r].keys : issued[e.id] > 0
    BY <1>15, <2>1, <2>2 DEF Restart, Compile, ActiveKeys
  <2>4. \A t \in Threads : \A k \in KeyIds : loads'[t].snap.keys[k] = None
    BY <1>15 DEF Restart, IdleLoad, Empty
  <2>5. \A g \in Admins \cup Stampers : work'[g] = None
    BY <1>15 DEF Restart
  <2> QED
    BY <2>1, <2>2, <2>3, <2>4, <2>5 DEF Issued, KnownKeys
<1>16. CASE UNCHANGED vars
  BY <1>16 DEF vars, Issued, KnownKeys
<1>17. ASSUME NEW a \in Admins, AdminStep(a) PROVE Issued'
  BY <1>1, <1>2, <1>3, <1>4, <1>5, <1>6, <1>7, <1>8, <1>9, <1>10, <1>17 DEF AdminStep
<1>18. ASSUME NEW u \in Stampers, StamperStep(u) PROVE Issued'
  BY <1>9, <1>12, <1>13, <1>18 DEF StamperStep
<1> QED
  BY <1>11, <1>14, <1>15, <1>16, <1>17, <1>18 DEF Next

(* No stored key changed its route or appeared. *)
RoutesKept ==
  \A k \in KeyIds : mem'.keys[k] # None =>
    mem.keys[k] # None /\ mem'.keys[k].route = mem.keys[k].route

(* Committing a store of which Referential holds. *)
LEMMA CommitOrphans ==
  ASSUME TypeOK, NoOrphans, NEW s \in Data, NEW saved, Commit(s, saved), Referential(s)
  PROVE  NoOrphans'
<1>1. Referential(Persisted(s))
  BY EditReferential
<1> QED
  BY <1>1 DEF Commit, NoOrphans

LEMMA PendingKept ==
  ASSUME PendingRoute, RoutesKept,
         \A g \in Admins \cup Stampers : work'[g] \in {None, work[g]},
         \A g \in Admins \cup Stampers : work[g] # None => work[g].key \in KeyIds
  PROVE  PendingRoute'
  BY DEF PendingRoute, RoutesKept

LEMMA StepOrphans ==
  TypeOK /\ OrphanInv /\ [Next]_vars => NoOrphans' /\ PendingRoute'
<1> SUFFICES ASSUME TypeOK, NoOrphans, Issued, PendingRoute, [Next]_vars
             PROVE  NoOrphans' /\ PendingRoute'
  BY DEF OrphanInv
<1> DEFINE Goal == NoOrphans' /\ PendingRoute'
<1>0. /\ mem \in Data /\ disk \in Data
      /\ Referential(mem) /\ Referential(disk)
      /\ work \in [Admins \cup Stampers -> Work \cup {None}]
      /\ \A g \in Admins \cup Stampers : work[g] # None =>
           work[g].key \in KeyIds /\ work[g].rec \in Key \cup {None}
  BY DEF TypeOK, StoreTypeOK, NoOrphans, Work
<1>a. ASSUME NEW s \in Data, NEW saved, NEW a,
             MutateAndReload(a, s, saved) \/ MutateOnly(s, saved),
             work' = work, Referential(s),
             \A k \in KeyIds : s.keys[k] # None =>
               mem.keys[k] # None /\ s.keys[k].route = mem.keys[k].route
      PROVE  Goal
  <2>1. Commit(s, saved)
    BY <1>a DEF MutateAndReload, MutateOnly
  <2>2. RoutesKept
    BY <1>a, <2>1 DEF Commit, RoutesKept
  <2>3. PendingRoute'
    BY <1>0, <1>a, <2>2, PendingKept
  <2> QED
    BY <1>a, <2>1, <2>3, CommitOrphans
<1>b. ASSUME UNCHANGED storeVars,
             \A g \in Admins \cup Stampers : work'[g] \in {None, work[g]}
      PROVE  Goal
  <2>1. RoutesKept
    BY <1>b DEF RoutesKept, storeVars
  <2>2. PendingRoute'
    BY <1>0, <1>b, <2>1, PendingKept
  <2> QED
    BY <1>b, <2>2 DEF NoOrphans, storeVars
<1>w. \A r \in RouteIds : \A k \in KeyIds : KeysWithout(mem, r)[k] \in {None, mem.keys[k]}
  BY DEF KeysWithout
<1>2. ASSUME NEW a \in Admins, NEW r \in RouteIds, NEW v \in RouteVals, NEW saved,
             CreateRoute(a, r, v, saved)
      PROVE Goal
  <2>1. PutRoute(mem, r, v) \in Data /\ Referential(PutRoute(mem, r, v))
    BY <1>0, EditTypes, EditReferential
  <2>2. PutRoute(mem, r, v).keys = mem.keys
    BY <1>0 DEF PutRoute, Data
  <2> QED
    BY <1>2, <1>a, <2>1, <2>2 DEF CreateRoute
<1>3. ASSUME NEW a \in Admins, NEW r \in RouteIds, NEW v \in RouteVals, NEW saved,
             UpdateRoute(a, r, v, saved)
      PROVE Goal
  <2>1. PutRoute(mem, r, v) \in Data /\ Referential(PutRoute(mem, r, v))
    BY <1>0, EditTypes, EditReferential
  <2>2. PutRoute(mem, r, v).keys = mem.keys
    BY <1>0 DEF PutRoute, Data
  <2> QED
    BY <1>3, <1>a, <2>1, <2>2 DEF UpdateRoute
<1>4. ASSUME NEW a \in Admins, NEW r \in RouteIds, NEW saved, DeleteRoute(a, r, saved)
      PROVE Goal
  <2>1. DropRoute(mem, r) \in Data /\ Referential(DropRoute(mem, r))
    BY <1>0, EditTypes, EditReferential
  <2>2. DropRoute(mem, r).keys = KeysWithout(mem, r)
    BY <1>0 DEF DropRoute, Data
  <2> QED
    BY <1>4, <1>a, <1>w, <2>1, <2>2 DEF DeleteRoute
<1>5. ASSUME NEW a \in Admins, NEW r \in RouteIds, NEW c \in ConfigVals, NEW saved,
             UpdateRouteAuthConfig(a, r, c, saved)
      PROVE Goal
  <2>0. mem.routes[r] # None
    BY <1>5 DEF UpdateRouteAuthConfig
  <2>1. PutConfig(mem, r, c) \in Data /\ Referential(PutConfig(mem, r, c))
    BY <1>0, <2>0, EditTypes, EditReferential
  <2>2. PutConfig(mem, r, c).keys = mem.keys
    BY <1>0 DEF PutConfig, Data
  <2> QED
    BY <1>5, <1>a, <2>1, <2>2 DEF UpdateRouteAuthConfig
<1>6. ASSUME NEW a \in Admins, NEW r \in RouteIds, NEW saved,
             DeleteRouteAuthConfig(a, r, saved)
      PROVE Goal
  <2>1. DropConfig(mem, r) \in Data /\ Referential(DropConfig(mem, r))
    BY <1>0, EditTypes, EditReferential
  <2>2. DropConfig(mem, r).keys = KeysWithout(mem, r)
    BY <1>0 DEF DropConfig, Data
  <2> QED
    BY <1>6, <1>a, <1>w, <2>1, <2>2 DEF DeleteRouteAuthConfig
<1>7. ASSUME NEW a \in Admins, NEW r \in RouteIds, NEW k \in KeyIds, NEW saved,
             CreateApiKey(a, r, k, saved)
      PROVE Goal
  <2> DEFINE rec == [route |-> r, secret |-> 1, status |-> "active"]
  <2>1. rec \in Key /\ rec.route = r
    BY StoreAssumption DEF Key, Statuses
  <2> HIDE DEF rec
  <2>2. mem.routes[r] # None /\ issued[k] = 0 /\ work' = work
    BY <1>7 DEF CreateApiKey
  <2>3. PutKey(mem, k, rec) \in Data /\ Referential(PutKey(mem, k, rec))
    BY <1>0, <2>1, <2>2, EditTypes, EditReferential
  <2>4. Commit(PutKey(mem, k, rec), saved)
    BY <1>7 DEF CreateApiKey, MutateAndReload, rec
  <2>5. \A j \in KeyIds \ {k} : mem'.keys[j] = mem.keys[j]
    BY <1>0, <2>4 DEF Commit, PutKey, Data
  <2>6. \A g \in Admins \cup Stampers : work[g] # None => work[g].key # k
    BY <2>2 DEF Issued
  <2>7. PendingRoute'
    BY <1>0, <2>2, <2>5, <2>6 DEF PendingRoute
  <2> QED
    BY <2>3, <2>4, <2>7, CommitOrphans
<1>8. ASSUME NEW a \in Admins, NEW k \in KeyIds, NEW op \in {"rotate", "expire", "rename"},
             GetApiKey(a, k, op)
      PROVE Goal
  <2>1. mem.keys[k] \in Key /\ op \in KeyOps
    BY <1>0, <1>8 DEF GetApiKey, Data, KeyOps
  <2>2. issued'[k] \in 0..MaxSecret
    BY <1>8, StoreAssumption DEF GetApiKey, TypeOK
  <2>3. /\ work'[a].key = k
        /\ work'[a].rec.route = mem.keys[k].route
    BY <1>0, <1>8, <2>1, <2>2, EditType DEF GetApiKey
  <2>4. mem' = mem /\ disk' = disk /\ \A g \in (Admins \cup Stampers) \ {a} : work'[g] = work[g]
    BY <1>0, <1>8 DEF GetApiKey, storeVars
  <2>5. PendingRoute'
    BY <2>3, <2>4 DEF PendingRoute
  <2> QED
    BY <2>4, <2>5 DEF NoOrphans
<1>9. ASSUME NEW g \in Admins \cup Stampers, NEW saved, UpdateApiKey(g, saved)
      PROVE Goal
  <2> DEFINE k == work[g].key
             rec == work[g].rec
  <2>0. k \in KeyIds /\ rec \in Key \cup {None} /\ work[g] # None
    BY <1>0, <1>9 DEF UpdateApiKey
  <2>1. \A h \in Admins \cup Stampers : work'[h] \in {None, work[h]}
    BY <1>0, <1>9 DEF UpdateApiKey
  <2>2. CASE KeyStored(k) /\ MutateOnly(PutKey(mem, k, rec), saved)
    <3>1. mem.keys[k] # None /\ Commit(PutKey(mem, k, rec), saved)
      BY <2>2 DEF KeyStored, MutateOnly
    <3>2. rec # None => mem.keys[k].route = rec.route
      BY <2>0, <3>1 DEF PendingRoute
    <3>3. mem.routes[mem.keys[k].route] # None
      BY <1>0, <2>0, <3>1 DEF Referential
    <3>4. PutKey(mem, k, rec) \in Data /\ Referential(PutKey(mem, k, rec))
      BY <1>0, <2>0, <3>2, <3>3, EditTypes, EditReferential
    <3>5. mem'.keys[k] = rec /\ \A j \in KeyIds \ {k} : mem'.keys[j] = mem.keys[j]
      BY <1>0, <2>0, <3>1 DEF Commit, PutKey, Data
    <3>6. RoutesKept
      BY <3>1, <3>2, <3>5 DEF RoutesKept
    <3>7. PendingRoute'
      BY <1>0, <2>1, <3>6, PendingKept
    <3> QED
      BY <3>1, <3>4, <3>7, CommitOrphans
  <2>3. CASE UNCHANGED <<storeVars, routerVars, history>>
    BY <1>b, <2>1, <2>3
  <2> QED
    BY <1>9, <2>2, <2>3 DEF UpdateApiKey
<1>10. ASSUME NEW a \in Admins, NEW k \in KeyIds, NEW saved, DeleteApiKey(a, k, saved)
       PROVE Goal
  <2>1. DropKey(mem, k) \in Data /\ Referential(DropKey(mem, k))
    BY <1>0, EditTypes, EditReferential
  <2>2. /\ DropKey(mem, k).keys = [mem.keys EXCEPT ![k] = None]
        /\ mem.keys \in [KeyIds -> Key \cup {None}]
    BY <1>0 DEF DropKey, Data
  <2>3. \A j \in KeyIds : DropKey(mem, k).keys[j] \in {None, mem.keys[j]}
    BY <2>2
  <2> QED
    BY <1>10, <1>a, <2>1, <2>3 DEF DeleteApiKey
<1>12. ASSUME NEW u \in Stampers, NEW k \in KeyIds, AcceptKey(u, k) PROVE Goal
  <2>1. /\ mem' = mem /\ disk' = disk
        /\ \A g \in Admins \cup Stampers : work'[g] = work[g] \/ work'[g].rec = None
    BY <1>0, <1>12 DEF AcceptKey, storeVars
  <2>2. PendingRoute'
    BY <2>1 DEF PendingRoute
  <2> QED
    BY <2>1, <2>2 DEF NoOrphans
<1>13. ASSUME NEW u \in Stampers, StampRead(u) PROVE Goal
  <2> DEFINE k == work[u].key
  <2>1. mem' = mem /\ disk' = disk /\ \A g \in (Admins \cup Stampers) \ {u} : work'[g] = work[g]
    BY <1>0, <1>13 DEF StampRead, storeVars
  <2>2. k \in KeyIds /\ issued[k] \in 0..MaxSecret
    BY <1>0, <1>13 DEF StampRead, TypeOK
  <2>3. mem.keys[k] # None => Edit("stamp", mem.keys[k], issued[k]).route = mem.keys[k].route
    BY <1>0, <2>2, EditType DEF Data, KeyOps
  <2>4. work'[u] = IF mem.keys[k] = None THEN None
                   ELSE [op |-> "stamp", key |-> k, rec |-> Edit("stamp", mem.keys[k], issued[k])]
    BY <1>0, <1>13 DEF StampRead
  <2>5. PendingRoute'
    BY <2>1, <2>3, <2>4 DEF PendingRoute
  <2> QED
    BY <2>1, <2>5 DEF NoOrphans
<1>15. ASSUME Restart PROVE Goal
  <2>1. mem' = disk /\ disk' = disk /\ \A g \in Admins \cup Stampers : work'[g] = None
    BY <1>15 DEF Restart, LoadStore
  <2> QED
    BY <1>0, <2>1 DEF NoOrphans, PendingRoute
<1>16. CASE UNCHANGED vars
  BY <1>16, <1>b DEF vars, storeVars
<1>17. ASSUME NEW a \in Admins, AdminStep(a) PROVE Goal
  <2>1. ReloadConfig(a) => Goal
    BY <1>b DEF ReloadConfig
  <2> QED
    BY <1>2, <1>3, <1>4, <1>5, <1>6, <1>7, <1>8, <1>9, <1>10, <1>17, <2>1 DEF AdminStep
<1>18. ASSUME NEW u \in Stampers, StamperStep(u) PROVE Goal
  BY <1>9, <1>12, <1>13, <1>18 DEF StamperStep
<1>19. ASSUME NEW c \in Reloaders, CertificateReload(c) PROVE Goal
  BY <1>19, <1>b DEF CertificateReload
<1>20. ASSUME NEW t \in Threads, Reload(t) PROVE Goal
  BY <1>20, <1>b DEF Reload
<1> QED
  BY <1>15, <1>16, <1>17, <1>18, <1>19, <1>20 DEF Next

(* A config or key never outlives its route, in memory or in store.json, at
   any interleaving of deletions with pending whole-record writes. *)
THEOREM NoOrphanRows == Spec => []NoOrphans
<1>1. Init => OrphanInv
  BY DEF Init, StoreInit, RouterInit, IdleLoad, Empty, Compile, ActiveKeys,
         OrphanInv, NoOrphans, Referential, Issued, KnownKeys, PendingRoute
<1>2. TypeOK /\ OrphanInv /\ [Next]_vars => OrphanInv'
  BY StepOrphans, StepIssued DEF OrphanInv
<1>3. OrphanInv => NoOrphans
  BY DEF OrphanInv
<1> QED
  BY <1>1, <1>2, <1>3, TypeCorrect, PTL DEF Spec

=============================================================================
