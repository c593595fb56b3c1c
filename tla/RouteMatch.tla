------------------------------ MODULE RouteMatch ------------------------------
(***************************************************************************)
(* internal/router: how the stored routes become the table of Manager        *)
(* (compiler.go) and which of them a request gets (Match in router.go). The  *)
(* rows come from the store in an order that maps and an unstable sort leave *)
(* open; the exchange sort of the compiler, one comparison a step, puts them *)
(* in the order of precedence, and Match takes the first that accepts.       *)
(* RouterManager has the loads that overlap; here one load follows another   *)
(* while requests are matched. Left out: backends, auth, rewriting and the   *)
(* spelling of hosts, which are compared as routehost.Normalize gives them.  *)
(***************************************************************************)
EXTENDS Integers, Sequences, FiniteSets, Functions

CONSTANTS
  Ids,        \* uuids of routes, by their place in the order of strings
  Patterns,   \* values of path_prefix after the sign of a legacy row: sequences
              \* of the segments after each slash, <<>> for the empty string
  Length,     \* per pattern its length in bytes
  Regexes,    \* per kind of regular expression and pattern the paths it matches
  Hosts, Headers, AnyHost, NoHeader,
  Stores,     \* sets of rows the store may hold when it is loaded
  Requests,   \* what the proxy may ask for: host, path, and the pairs of header
              \* name and value of which Get(name) is the value
  NoRoute     \* what Match returns when nothing accepts

Modes == {"exact", "stop", "regex", "regex_i", "prefix"}

(* A stored row. The mode of a row made before modes were stored is empty,   *)
(* as is that of a prefix, and a sign in front of its pattern says what it   *)
(* is; "unknown" is what only a file edited by hand can hold.                *)
StoredRoute == [id: Ids, host: Hosts \cup {AnyHost}, mode: (Modes \ {"prefix"}) \cup {"", "unknown"},
        sign: Modes, path: Patterns, header: Headers \cup {NoHeader},
        priority: Int, enabled: BOOLEAN]

ASSUME MatchAssumption ==
  /\ Ids \subseteq Nat
  /\ Length \in [Patterns -> Nat]
  /\ \A rows \in Stores :
       /\ IsFiniteSet(rows) /\ rows \subseteq StoredRoute
       /\ \A a, b \in rows : a.id = b.id => a = b

VARIABLES
  table,     \* Manager.routes
  served,    \* the rows that table was compiled from
  loading, loaded, result, i, j   \* loadRoutes: the rows it read, and sortByPriority

matchVars == <<table, served, loading, loaded, result, i, j>>

-----------------------------------------------------------------------------
(* compileRoutes *)

Usable(rows) == {row \in rows : row.mode # "unknown"}

(* parsePathMatchMode compares two characters with the three of "^~ ": a legacy *)
(* row with that sign is a prefix route, and its sign stays in its pattern.    *)
SignKept(row) == row.mode = "" /\ row.sign = "stop"

(* normalizeStoredPathMatchMode, then parsePathMatchMode if it gave none.    *)
EffectiveMode(row) ==
  CASE row.mode # "" -> row.mode
    [] SignKept(row) -> "prefix"
    [] OTHER         -> row.sign

matchPriority ==
  [exact |-> 100, stop |-> 90, regex |-> 80, regex_i |-> 80, prefix |-> 70]

(* A sum of zero is taken for a priority that was never set (sortRoutes).    *)
Priority(mode, given) ==
  LET sum == matchPriority[mode] + given IN IF sum = 0 THEN matchPriority[mode] ELSE sum

CompileRoute(row) ==
  LET mode == EffectiveMode(row) IN
  [id |-> row.id, host |-> row.host, mode |-> mode, path |-> row.path, signed |-> SignKept(row),
   header |-> row.header, priority |-> Priority(mode, row.priority),
   enabled |-> row.enabled]

Compiled(rows) == {CompileRoute(row) : row \in Usable(rows)}

-----------------------------------------------------------------------------
(* Precedence: positive when a goes before b, negative when b does.          *)
matchOrder == [exact |-> 4, stop |-> 3, regex |-> 2, regex_i |-> 2, prefix |-> 1]

PathLength(r) == Length[r.path] + (IF r.signed THEN 3 ELSE 0)

(* Faulty variant: routes alike in mode, length and priority stay as listed. *)
LenCmpUntied(a, b) ==
  IF PathLength(a) # PathLength(b) THEN PathLength(a) - PathLength(b)
  ELSE a.priority - b.priority

pathLenCmp(a, b) ==
  IF PathLength(a) # PathLength(b) THEN PathLength(a) - PathLength(b)
  ELSE IF a.priority # b.priority THEN a.priority - b.priority
  ELSE a.id - b.id

priorityCmp(a, b) ==
  IF matchOrder[a.mode] # matchOrder[b.mode] THEN matchOrder[a.mode] - matchOrder[b.mode]
  ELSE pathLenCmp(a, b)

-----------------------------------------------------------------------------
(* Match *)
pathMatchesPrefix(path, prefix) ==
  \/ prefix \in {<<>>, <<"">>}
  \/ /\ Len(prefix) <= Len(path)
     /\ \A n \in 1..Len(prefix) : path[n] = prefix[n]

PathAccepted(r, path) ==
  CASE r.mode = "exact" -> path = r.path
    [] r.mode \in {"regex", "regex_i"} -> path \in Regexes[r.mode][r.path]
    [] OTHER -> ~r.signed /\ pathMatchesPrefix(path, r.path)  \* a path begins with a slash

Accepts(r, q) ==
  /\ r.enabled
  /\ r.host \in {AnyHost, q.host}
  /\ r.header \in {NoHeader} \cup q.headers
  /\ PathAccepted(r, q.path)

Match(q) ==
  LET hits == {k \in DOMAIN table : Accepts(table[k], q)} IN
  IF hits = {} THEN NoRoute
  ELSE table[CHOOSE k \in hits : \A l \in hits : k <= l]

-----------------------------------------------------------------------------
(* The orders in which ListRoutes may return the rows: by stored priority,   *)
(* and by the text of their patterns, which is left open like the rest.      *)
Listings(rows) ==
  {s \in [1..Cardinality(rows) -> rows] :
     /\ IsInjective(s) /\ Range(s) = rows
     /\ \A k, l \in DOMAIN s : k < l => s[k].priority >= s[l].priority}

ListRoutes(rows) ==
  /\ ~loading
  /\ loading' = TRUE /\ loaded' = rows
  /\ \E s \in Listings(Usable(rows)) : result' = [k \in DOMAIN s |-> CompileRoute(s[k])]
  /\ i' = 1 /\ j' = 2
  /\ UNCHANGED <<table, served>>

Exchanged(s, k, l) == [s EXCEPT ![k] = s[l], ![l] = s[k]]

(* The body of the inner loop of sortByPriority.                             *)
Compare ==
  /\ loading /\ j <= Len(result)
  /\ result' = IF priorityCmp(result[i], result[j]) < 0 THEN Exchanged(result, i, j) ELSE result
  /\ j' = j + 1
  /\ UNCHANGED <<table, served, loading, loaded, i>>

NextPlace ==
  /\ loading /\ j > Len(result) /\ i <= Len(result)
  /\ i' = i + 1 /\ j' = i + 2
  /\ UNCHANGED <<table, served, loading, loaded, result>>

Install ==
  /\ loading /\ i > Len(result)
  /\ table' = result /\ served' = loaded
  /\ loading' = FALSE /\ loaded' = {} /\ result' = <<>> /\ i' = 0 /\ j' = 0

MatchInit ==
  /\ table = <<>> /\ served = {}
  /\ loading = FALSE /\ loaded = {} /\ result = <<>> /\ i = 0 /\ j = 0

MatchNext == (\E rows \in Stores : ListRoutes(rows)) \/ Compare \/ NextPlace \/ Install

MatchSpec == MatchInit /\ [][MatchNext]_matchVars

-----------------------------------------------------------------------------
(* The order of precedence of compiler.go (l.13 and 233): exact, then prefix *)
(* that stops the search, regular expression, plain prefix; within one of    *)
(* these the longer pattern, the higher priority, the greater id. The        *)
(* priority an administrator gives decides only between patterns of one      *)
(* length, though the console says that the higher one wins                  *)
(* (web/src/lib/i18n/resources/routes.ts:119) and docs/SPEC.md:91 that the longer *)
(* prefix does.                                                              *)
Outranks(a, b) ==
  \/ matchPriority[a.mode] > matchPriority[b.mode]
  \/ /\ matchPriority[a.mode] = matchPriority[b.mode]
     /\ \/ PathLength(a) > PathLength(b)
        \/ /\ PathLength(a) = PathLength(b)
           /\ \/ a.priority > b.priority
              \/ a.priority = b.priority /\ a.id > b.id

(* A request is given to the one route, of those that were loaded and accept *)
(* it, that outranks all others, in whatever order the store loaded them:    *)
(* loading the same routes again changes no request's route (sortByPriority, *)
(* Match). It says nothing for the order itself, nor for the legacy rows of  *)
(* "^~", which accept nothing.                                               *)
MatchesBest ==
  \A q \in Requests :
    LET candidates == {r \in Compiled(served) : Accepts(r, q)} IN
    IF candidates = {} THEN Match(q) = NoRoute
    ELSE /\ Match(q) \in candidates
         /\ \A r \in candidates \ {Match(q)} : Outranks(Match(q), r)
=============================================================================
