---------------------------- MODULE RouterManager ----------------------------
(***************************************************************************)
(* internal/router: Manager keeps the compiled table the proxy matches       *)
(* requests against. loadRoutes reads the store in many separately locked    *)
(* calls (the routes, then one config per route, then the keys of each       *)
(* route) and swaps the table in under the manager's own lock, so several    *)
(* loads and any store mutation may interleave with one load's steps.        *)
(***************************************************************************)
EXTENDS ConfigStore, FiniteSets

CONSTANT Threads    \* goroutines that may be inside loadRoutes

VARIABLES
  table,   \* Manager.routes: per route id the compiled route, or None
  loads    \* per goroutine, the locals of its loadRoutes call

Entry == [val: RouteVals, config: ConfigVals \cup {None},
          keys: SUBSET [id: KeyIds, secret: 0..MaxSecret]]
Tables == [RouteIds -> Entry \cup {None}]

Load == [pc: {"idle", "list", "configs", "keys", "install"},
         snap: Data, todo: SUBSET RouteIds]

IdleLoad  == [pc |-> "idle", snap |-> Empty, todo |-> {}]
ReadyLoad == [pc |-> "list", snap |-> Empty, todo |-> {}]

(* compileRoutes: only active keys are attached, to the route they name. *)
ActiveKeys(s, r) ==
  {[id |-> k, secret |-> s.keys[k].secret] :
     k \in {j \in KeyIds : /\ s.keys[j] # None
                           /\ s.keys[j].route = r
                           /\ s.keys[j].status = "active"}}

Compile(s) ==
  [r \in RouteIds |->
     IF s.routes[r] = None THEN None
     ELSE [val |-> s.routes[r], config |-> s.configs[r], keys |-> ActiveKeys(s, r)]]

Stored(s) == {r \in RouteIds : s.routes[r] # None}

-----------------------------------------------------------------------------
(* m.db.ListRoutes() *)
ListRoutes(t) ==
  LET live == Stored(mem) IN
  /\ loads[t].pc = "list"
  /\ loads' = [loads EXCEPT ![t] =
       [pc   |-> IF live = {} THEN "install" ELSE "configs",
        snap |-> [Empty EXCEPT !.routes = mem.routes],
        todo |-> live]]
  /\ UNCHANGED table

(* m.db.GetRouteAuthConfig(r) of one more route of the list. *)
ReadConfig(t) ==
  /\ loads[t].pc = "configs"
  /\ \E r \in loads[t].todo :
       LET rest == loads[t].todo \ {r} IN
       loads' = [loads EXCEPT ![t] =
         [pc   |-> IF rest = {} THEN "keys" ELSE "configs",
          snap |-> PutConfig(loads[t].snap, r, mem.configs[r]),
          todo |-> IF rest = {} THEN Stored(loads[t].snap) ELSE rest]]
  /\ UNCHANGED table

(* Faulty variant of KeysRead: skips the routes that have no auth config. *)
KeysReadIfConfigured(snap, r) ==
  [snap EXCEPT !.keys =
     [k \in KeyIds |-> IF /\ snap.configs[r] # None
                          /\ mem.keys[k] # None
                          /\ mem.keys[k].route = r
                       THEN mem.keys[k] ELSE snap.keys[k]]]

(* The keys collected so far, with those ListApiKeysByRoute(r) returns. *)
KeysRead(snap, r) ==
  [snap EXCEPT !.keys =
     [k \in KeyIds |-> IF mem.keys[k] # None /\ mem.keys[k].route = r
                       THEN mem.keys[k] ELSE snap.keys[k]]]

ReadKeys(t) ==
  /\ loads[t].pc = "keys"
  /\ \E r \in loads[t].todo :
       LET rest == loads[t].todo \ {r} IN
       loads' = [loads EXCEPT ![t] =
         [pc   |-> IF rest = {} THEN "install" ELSE "keys",
          snap |-> KeysRead(loads[t].snap, r),
          todo |-> rest]]
  /\ UNCHANGED table

(* compileRoutes and the assignment of m.routes under m.mu. *)
Install(t) ==
  /\ loads[t].pc = "install"
  /\ table' = Compile(loads[t].snap)
  /\ loads' = [loads EXCEPT ![t] = IdleLoad]

LoadStep(t) == ListRoutes(t) \/ ReadConfig(t) \/ ReadKeys(t) \/ Install(t)

RouterInit ==
  /\ table = Compile(mem)
  /\ loads = [t \in Threads |-> IdleLoad]

RouterTypeOK == table \in Tables /\ loads \in [Threads -> Load]
=============================================================================
