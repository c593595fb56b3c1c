# auth-gate: TLA+ models, model checking and proofs

auth-gate is a reverse proxy with its own administration console. One Go process
(`src/packages/server`) serves the admin API and the proxied traffic; a React
application (`src/packages/web`) drives the API. All configuration is one
in-memory value saved to `store.json` after every change; the proxy serves from a
table compiled out of it.

Paths below are relative to `src/packages/server/` unless they start with `docs/`
or `README`; those of the console (`lib/`, `pages/`, `components/`) to
`src/packages/web/src/`.

## 1. Inventory

| Component | State | Operations | What is hard | What makes it correct |
|---|---|---|---|---|
| JSON store, `internal/store/json.go` | maps of routes, auth configs, keys, users, groups, certificates, host profiles and entries, settings; `store.json` | one mutator per row kind, each under one RWMutex, then `save()`; `load()` | `save()` may fail after memory changed; cascades; reads and writes of one request are separate calls; secrets are not saved | no row without its owner; deleted rows stay deleted |
| Router manager, `internal/router` | the compiled table | `Reload`, `Match`, `FindByID` | a load is many store calls; several loads run at once and install in any order | an undisturbed load serves the store; matching picks the most specific route |
| Configuration services, `internal/service/{routes,routeauth,apikeys,authrules}`, handlers in `internal/http/admin` | none | CRUD followed (mostly) by a reload | check-then-act, read-modify-write without a lock, missing reloads | every change reaches the proxy |
| Proxy, `internal/proxy` | circuit breakers, transports; a balancer per request | authenticate, rate-limit, pick a backend, forward, retry, log, WebSocket copy | goroutine that stamps a key; breaker state shared by all requests | only admitted requests are forwarded; a failing backend is avoided and comes back |
| Users and groups, `internal/service/{users,groups}` | accounts and permission groups of the store | create, update in part, delete | a row read, then written back whole; routes looked up apart | names stay unique, deleted accounts stay deleted |
| Sessions, `internal/service/session`, `internal/auth`, `internal/proxy/access.go` | signed tokens held by browsers | login, login for a route, check | account and groups read apart; tokens outlive changes of users, groups, routes | a token admits no more than its user may, with paths of one moment |
| Rate limiter, `internal/middleware/ratelimit.go` | a limiter per route | `Allow` | cached for ever | limits follow the route |
| Access log, `internal/store/accesslog.go` | ring buffer, `access-logs.jsonl` | record, flush every 30 s, final flush, daily cleanup, preview and execute purge, load | two locks, a snapshot between them, crash and restart | nothing retained is lost at a stop, nothing purged returns |
| Hosts profiles, `internal/service/hosts`, `internal/syshosts` | profiles, entries, the managed block of the system hosts file, backups | edit, activate, deactivate | two files that change one after the other; failures of either; copy fallback | file and store agree; the operator's file is recoverable |
| Certificates, `internal/service/certificate`, `internal/localca` | rows, PEM files, local CA | provision, import, resign, delete, renewer | files and row change separately, without a lock, failing apart; `*.x` and `x` share a directory | the last operation alone in a directory leaves row and files in agreement; deleted rows stay deleted; scans pass nothing over |
| Setup, `http/admin/routes.go:216` | first admin user | setup | two at once | one admin |
| Process, `cmd/server` | pid file | start, daemon, stop, graceful shutdown | pid reuse, timeouts | one server per data directory |
| Legacy rules, `service/authrules`, `store/json.go:255` | auth rules | CRUD, migration at load | crash before the migration is saved | migration happens once |
| Console: session, `lib/session.ts`, `lib/session-store.ts`, `lib/api/client.ts`, `App.tsx` | token and user in localStorage, copies per tab, React state | login, setup, refresh, logout, 401, storage events | answers that arrive after the session changed; several tabs | the user shown is the token's; a session ends by its own requests |
| Console: directory pages, `pages/{Routes,Users,Groups,Certificates,AuthRules}Page.tsx`, `components/DataTable.tsx` | rows, flags, dialog, generation of the newest refresh | list, delete, resign, open and submit forms | refreshes out of order, failures, double clicks | a settled page shows the server; one request per row |
| Console: forms, `components/*Form.tsx` | a draft | edit, submit, cancel | what a request leaves out keeps its stored value; lists and maps edited in any order | what is stored is what was shown |
| Console: route auth, `pages/RouteAuthPage.tsx` | configurations, the dialog of a route with draft, keys and one-time secret, five tokens and generations | toggle, open, edit, save, change keys, close | a dialog closed and reopened under answers still to come | nothing of another dialog gets in; edits are kept |
| Console: access log, `pages/AccessLogsPage.tsx`, `components/AccessLog*.tsx` | view, results, delayed text, preview | filter, turn pages, drill down, purge | debounce, composition, generations, preview of another scope | results are those of the view; purges are as previewed |
| Console: hosts, `pages/HostsPage.tsx`, `components/Hosts` | profiles, selected entries | select, apply, edit | lists and activations out of order | at most one active profile is shown |
| Console: settings, dashboard, layout | - | read, navigate | - | - |
| config, metrics, i18n, static files, dto | - | parsing, counters, pages | - | - |

How they interact: an admin request runs a service, which calls the store once or
more and then `router.Manager.Reload`; the certificate service and its renewer call
`Reload` too; the proxy reads the manager's table on every request, calls the store
to stamp keys and check sessions, and records into the access log; `main` starts
the flusher, the cleanup and the renewer and stops the flusher at exit. Requests
are goroutines: everything interleaves at the granularity of one store call.

`PROJECT.json` lists every component with its status and, under `hazards`, each
place of the code where an interleaving, a failure or a boundary can go wrong,
with the property that guards it.

## 2. Plan

1. `ConfigStore`, `RouterManager`, `ControlPlane` - configuration from an admin request to the proxy (done, proved).
2. `AccessLog` and the abstract `RetainedLog` (done; safety and refinement proved).
3. `HostsActivation` (done, proved).
4. `CircuitBreaker`, `RateLimiter` and `Traffic`, which composes them - the traffic path (done, proved except liveness).
5. `WebSession` - the session of the console across tabs (done, proved except liveness).
6. `Directory` with the five directory pages, `FormVisit` with the forms, `RouteAuthPage`, `LogsPage`, `HostsPage`, composed by `Console` (done, proved except liveness).
7. `Accounts` and `RouteAccess` - users, groups, first-run setup, tokens and what the proxy admits by them (done, proved).
8. `Certificates` - rows, PEM files and the renewer (done, proved).
9. `RouteMatch` - compile, sort and match, against the order of precedence (done, proved).
10. `LegacyAuthRules`, `ProcLifecycle`, the console's settings page and route login page.

Every property a passing run checks is now a theorem but for the four liveness properties. Proofs
still planned: the safety of what 10 adds, and refinements of further abstract specifications (the proxy's table as
a copy of the store that lags behind, the hosts file as a copy of the active profile).

## 3. Modules

### ConfigStore, RouterManager, ControlPlane

`ConfigStore` is `JSONStore` restricted to routes, auth configs and API keys: `mem`
and `disk` are one record of functions each. A mutator is an operator on that
record (`PutRoute`, `DropRoute`, ...); `Commit` is what they share, memory changes
and the file follows if `save()` succeeds. `Persisted` models the `json:"-"` tag: a
restart finds keys with the empty secret.

`RouterManager` has the table and, per goroutine, a load in progress. The load is
taken apart as `loadRoutes` is: `ListRoutes`, then `ReadConfig` once per route, then
`ReadKeys` once per route, then `Install`. `Compile` is what an undisturbed load computes:
enabled routes, their config, their active keys.

`ControlPlane` composes the two. Each admin handler is an action
(`MutateAndReload` ends in a load of the handler's goroutine, `MutateOnly` does
not - that is the difference between the route and the key handlers). Edits of a
key are `GetApiKey` and `UpdateApiKey`, two steps; the proxy's stamping goroutine
is `AcceptKey`, `StampRead`, `UpdateApiKey`. `Restart` may happen anywhere.
Abstracted: names and their uniqueness, certificate resolution, path rules (a
route's contents are one model value), expiry times, `LastUsedAt`.
A caller that saw an error does not reload.

### AccessLog, RetainedLog

`entries`, `writeIndex`, `count` are the ring as coded, `disk` the file, `flush` the
snapshot a flush holds between releasing `mu` and writing. The two mutexes are
read off the program counters: `DiskMuFree`, `MuFree`. `PurgeMatching` is
`Preview`/`Execute`/`Cleanup` (start), `PurgePersist`, `PurgeApply`; a flush is
`FlushSnapshot`, `FlushWrite`; `StopFlusher` and `WorkersDone` are main's way out,
`Restart` both a crash and a new start. Times are small integers, an entry is the
request it logs. `RetainedLog` is the abstract log: the last `Capacity` entries,
copied, saved, erased, recovered; `LogView` maps the ring to it. What an erasure leaves is a
relation between two sequences (`Without`): an increasing choice of the places that remain.

### HostsActivation

`mem` and `disk` hold the host tables, `hosts` the hosts file as the state of the
managed block and whether the rest is intact, `backups` the backup directory.
`Service.mu` is the set of program counters `Locked`. Activation is `ActivateProfile`
or `DeactivateProfile`, `BackUp` (read, split, back up, prune) or `GiveUp`,
`WriteFile`, `SetActive`, and on a failed commit `Restore`. A write succeeds, fails
before the rename, or breaks off in the copy fallback (`Written`). Entry edits are
two steps each. Abstracted: names, IP addresses, comments, positions and
`ReorderEntries`.

### CircuitBreaker, RateLimiter, Traffic, RoundRobin

`CircuitBreaker` and `RateLimiter` hold the two maps that all requests share, with one
operator per method; each method is one step because it holds its mutex throughout,
except `getLimiter`, which is two (`Known` under the read lock, `MakeLimiter` under the
write lock). `Traffic` follows one request per worker from the rate limit on: `Arrive`
takes the route from the table (its limits with it), `Lookup`, `Create`, `ReadClock`, then `Admit` or `TooMany`
are the limiter - the time is read before the bucket's lock is taken, so an older one may be used after a newer -, `PickOnly` is a pool of one, `Pick` one turn of the balancer's loop,
`Try`, `Retry`, `Succeed`, `Answer`, `Fail` what a backend does and what the breaker is
told. `SetLimits` is a reload. `HostOf` is the host of a backend's URL: the code asks
breakers by the one and records by the other. `RoundRobin` adds to the instance `MCTraffic` the history of
choices that its one property needs.
Abstracted: static routes and invalid backends (they answer at once), headers,
rewriting, bodies, the transport cache. The bucket's clock counts whole seconds.

### WebSession

`storage` is localStorage, `mem` the variables of `session-store` in each tab, `view` the
state of `useSession`, `requests` those under way, `dirty` a storage event not yet
dispatched. One action is one handler, from an event or an answer to its next await:
`Mount` is the effect of `useSession`, `BootAnswered` the end of `refreshSessionUser`,
`LoginAnswered` and `LogoutAnswered` the ends of `login` and `logout`, `ApiAnswered` that of any other
request (`doRequest`), `StorageEvent` the listener. Getters read localStorage again, which is
why a tab may know a token before its event comes. `Screen` is what `App` renders. A token
is the number of the login that issued it; `Revoke` is its expiry or the deletion of its
account.

### Directory, FormVisit and the pages of Console

Five pages share `Directory`: `server` the rows with the number of the change that wrote
each, `page` the state and refs of the mounted page, `calls` the requests under way,
`faults` what failed. `Handles` and `Resumes` are a handler up to its next await, started by a click or
by an answer; `Newest` is the comparison of generations after it. `RoutesPage`, `UsersPage`,
`GroupsPage`, `CertificatesPage` and `AuthRulesPage` differ in what they list beside, which of them
have a generation, and what their dialogs clear; `DirectoryPages` is their union. `App` has no
route to `AuthRulesPage` (`App.tsx:126-138`); its tests mount it.

The forms are a page of their own here: `FormVisit` follows one row from the list to a
draft, to a request, to the server and back. `RouteForm` (header maps and lists, backend pool,
certificate chosen or uploaded), `AssignmentForms` (users and groups with their routes
and paths), `AuthRuleForm` and `CertificateForm` give the drafts, the checks, the payloads and what the
service stores (`SavedRoutes`, ...). Text is drawn from a few values, with and without blanks, numbers
and not; one input stands for those handled alike.

`RouteAuthPage` has the dialog of a route with the five tokens the code compares (`load`,
`saving`, `mutation`, `refresh`, `opens`); a route may be opened from the list while a dialog is open, the same one too, but
the quick toggles behind an open dialog are left out. `LogsPage` has questions instead of results, the draft of the text filters
and their timer, and the preview of a purge, `HostsPage` profiles with their marker. `Console`
composes them: `Init` chooses the page of the visit, `Click` is a handler started by the
user (or a timer) while at most `MaxWaiting` requests are under way, `Served` an answer of the
server, `Resume` a handler that goes on.

`MCWeb` instantiates `Console` and `WebSession`: a behaviour is one of them, the session
over two tabs or a visit to one page.

### Accounts, RouteAccess

`Accounts` holds the users and groups of the store. A service reads in one call and writes in a
later one, so a request is a job of its handler: `AskUpdateUser` reads the row and lays what was
sent over it, `ValidateRouteAccess` looks its routes up (only if routes or a role were sent),
`UpdateUser` stores the whole row. The store itself looks the id up again (`Found`) and refuses a
name another row has (`NameFree`). `Setup` is a check for an administrator and, later, `CreateUser`.
`CreateGroup` and `DeleteGroup` are one step, as their only write checks everything again.

`RouteAccess` adds the browsers. `LoginForRoute` reads the account once (`AccessLogin`) and the groups
up to three times: `CheckGroups` if the account lacks the route, `BuildRouteIDs`, `IssueToken`. What the
proxy lets through is `Admits`: role and routes of the account as stored, paths of the token. The
fields `seen` and `changes` of a login are history for `TokenOfOneMoment`: the paths its account
had while it ran, and how often the accounts changed.
Abstracted: the roles editor and viewer are both `member`; passwords and timestamps; the
file (`ConfigStore` has it); the routing table, taken as loaded (`RouterManager` has its delay);
the expiry of a token, which may come at any time (`Forget`).

### Certificates

`certs` and `saved` are the rows in memory and on disk, `files` the two PEM files of each
directory, `work` the goroutines at work: `Editors` are admin requests, `Renewer` is the background
one. Nothing is locked from the read of a row to its write, so an operation is a chain of steps:
`AskCertificate` (`ProvisionLocal` and `Import` up to their lookup of the domain), `AskResign` or
`Renew` lead through `WriteCert`, `WriteKey` to `CreateRow` or `UpdateRow`; `AskDelete`
and a creation that was not saved through two `Remove` to `DropRow` or `GiveUp`. A write that fails
leaves a file as it was or torn, and a failed write of the key removes the certificate
(`service/certificate/service.go:309`). `DirOf` is `normalizeDomainForPath`. A crash may tear the files being
written; the renewer then starts with a scan (`Scan`). A leaf is the number of its issue, `due` the leaves whose
`RenewAt` has passed.
`settled`, `listed`, `failed`, `dropped` and the field `alone` of a job are history for the properties: which row's
operation ended in a directory without company and without a failure, what the scan found,
what was deleted.
Abstracted: X.509, names, subjects, the local CA's own files, the reload after each change.

### RouteMatch

What `RouterManager` calls `Compile` keeps no order; here is the order. `ListRoutes` takes any set of rows the
store may hold, in any order `JSONStore.ListRoutes` may return them (`Listings`: a map has no order, `sort.Slice` is
not stable), and compiles them: `EffectiveMode` is `normalizeStoredPathMatchMode` and `parsePathMatchMode`,
`Priority` the sum with the base of the mode and what `sortRoutes` makes of a sum of zero. `Compare` and `NextPlace`
are the loops of `sortByPriority`, with its `i` and `j`; `Install` the assignment to `Manager.routes`. `Match` is the
function of that name, a path the sequence of its segments; what regular expressions match is a constant.
Loads that overlap are `RouterManager`'s; here they follow one another, and requests are matched at every step between.

`MCAdmin` instantiates `RouteAccess`, `Certificates` and `RouteMatch`: they share no row and no lock, so a behaviour is
one of them.

`*Proofs` modules hold the theorems, `MC*` modules the sets and symmetries of the
instances. `MCAccessLog` has two: the one in which everything races, and one with more time and less company for the purge.

## 4. Runs

| Run | Question | Bounds |
|---|---|---|
| `config` | does an undisturbed load serve the store while loads overlap; rows and deletions under failing saves, a restart and stamps | 2 routes, 1 key, 2 secrets, an admin, a renewer and a stamper, 1 restart, within `Bounded` |
| `hot_update` | does every answered change reach the proxy (violated) | 1 route, 1 key, 1 admin |
| `access_log` | safety, refinement and liveness of the log, preview against execution | 3 requests through a ring of 2, an admin and the cleanup, 1 restart, failing saves; or 2 requests, time 1..3, retention 0 or 1 |
| `traffic` | limiter, retries, breaker counts and the end of every request | 2 workers, a pool of one without limits and a pool of two with limits 0 or 1 per second, 1 retry, threshold 2, time 0..1 |
| `breaker_bypassed` | is an open breaker avoided (violated) | 1 worker, 1 pool of two, threshold 2 |
| `round_robin` | does a pool share its requests (violated) | 1 worker, 1 pool of two |
| `hosts` | file, store and backups under every fault, and of two requests at once | 2 profiles, 1 entry, 2 workers, 2 seconds, 1 restart, within `Bounded` |
| `hosts_duplicates` | is a host name unique in its profile (violated) | 1 profile, 2 entries, 2 workers |
| `hosts_torn` | does a failed activation leave the hosts file as it was (violated) | 1 profile, 1 worker |
| `group_grants` | do the routes of a group let its users through (violated) | as `admin` |
| `admin` | which names, accounts and tokens, and which rows and PEM files, can overlapping requests leave behind | 2 users, 1 group, 1 route, 2 paths, 2 names, 2 handlers, 1 browser, 5 requests; or 2 certificates, a directory and its two domains, 2 requests and the renewer, 4 leaves, 1 restart, failing saves and files, within `MCAdmin!Bounded`; or does each request get the route that outranks the others, with up to 3 routes of every mode, 2 hosts, a header, 7 paths |
| `web_console` | does what is shown, sent and stored belong together, on every page; who is shown, with which token, what ends a session, and does every tab come off its spinner | 13 pages and forms, 3 rows of which 2 exist at first, 2 changes, 3 dialogs, 1 request under way when another is clicked, 3 inputs of a form; or 2 tabs, 2 users, 2 tokens, one request of each tab beside its start-up |

Why the bounds are enough to be of interest: two loads at once are the least that
can install out of order and two routes the least a load can read apart; a ring of
two is full, wraps and drops with three requests; two profiles are needed to have
two active; two workers are the least that can both miss a limiter and make it, a
threshold of two the least that tells a count from a flag; two seconds allow backup names to collide and not to collide, and more
than two backups make pruning choose. The theorems of section 6 remove the bounds
for the properties they state.

In the console two changes are the least that can be answered out of order (four are needed for what section 6
says of `GroupsPage`), three dialogs
the least that open a route, another and the first again, three inputs enough to clear a
field, fill another and save twice. A click with one request under way is what makes two of them race; more
waiting requests would only be more of the same generations to compare, and the theorems have no such bound.

Two handlers and two accounts are the least that can take one name twice or write back a deleted
account; five requests are enough to set up, create a group and an account, and change it twice
during a login. Four leaves are two certificates and their two renewals by one scan; one directory is
enough, as operations in different ones meet only in the rows. Three routes are the least for which an exchange moves a
route that is itself exchanged again; `MCStores` has routes alike in everything but their id, hosts, headers and
legacy rows among them, and a priority that makes the sum zero.

`MCAdmin!Bounded` keeps two requests at once to the first two leaves and away from failed saves, torn files and
restarts, a request beside the third leaf away from restarts and, while the renewer works too, from failures, and the fourth leaf to a scan of two certificates that nothing disturbs.
`MCControlPlane!Bounded` keeps a run from having both a second route and a failure, restart or
stamp; `MCHostsActivation!Bounded` keeps two requests at once, or more than two rows, to the first second. They are
constraints: states beyond them are generated and checked but not continued from. Each half is
explored in full, what they leave out is only the two together; the theorems have no such bound.

Three kinds of bound appear: sets of identifiers (a row id is used once, as uuids
are), `MaxSecret`, `MaxTime`, `MaxRestarts` on counters, and `SaveOutcomes`,
`WriteOutcomes` that switch faults off. In the console `MaxActs`, `MaxOpens`, `MaxWaiting` and
`MaxInputs` bound changes, dialogs, waiting requests and inputs of one visit, `MaxLogins` and
`MaxCalls` tokens and requests, `MaxRequests` the changes of accounts, `MaxLeaves` the certificates
issued. The runs of `MCHostsActivation`, `MCWeb` and `MCAdmin` have `CHECK_DEADLOCK FALSE`: with every id used, the clock at its bound or the visit's changes
made, nothing is left to do; and an administrator who disables the only such account leaves
nobody who may act, as setup counts disabled administrators. The other runs check deadlock.

Every property of a passing run has a mutant in `PROJECT.json`: a faulty variant of
one definition (a dropped lookup, a lock not taken, a file forgotten) under which
TLC finds the property violated. The type invariants of `ControlPlane`, `AccessLog` and
`HostsActivation` are proved and no longer checked by a run of their own.

## 5. Fairness

`traffic` assumes weak fairness of each request's own steps (`Traffic!FairSpec`): its
goroutine runs on, and dialling and waiting for response headers have time limits, so
every try of a backend whose responses end comes to an end. Arrivals, time, reloads and
the end of a connected WebSocket are not fair.

`web_console` assumes it, for the session, per tab of `Handle`, `Deliver` and `StorageEvent`
(`WebSession!SessionFairness`): a request is answered or fails, its handler goes on, an event is dispatched; and for a
visit of `Served \/ Resume`: some request under way is answered, or its handler goes on. There are finitely many
requests, none waits for another, and clicks are never fair, so nothing more is
needed; `fetch` itself settles, with an error when the connection is lost.

The only other run with fairness is `access_log` (`AccessLog!Fairness`). Flusher, main and the purging
goroutines are goroutines that the Go scheduler keeps running (weak fairness of a
flush's write and of main's wait). Acquiring `diskMu` competes with others that take
it again and again; `sync.Mutex` hands itself to a waiter after a millisecond, so
acquisition is strongly fair. A request's end, new purges, time and crashes are not
fair: nothing forces them.

## 6. Proofs

TLAPS checks all of these for every value of the constants.

`ControlPlaneProofs`: `TypeCorrect`, `DeletionIsFinal`, `CleanReload`, `NoOrphanRows`.
`CleanReloadServesStore` alone says nothing of a load still under way; `ReloadInv`
adds that whatever an uninterrupted load has read so far - all configs of the routes
it has passed, then all their keys - agrees with memory (`ReadsAgree`), so that what
it installs is `Compile(mem)`. `NoOrphans` alone does not survive the write-back of a
key read earlier: `OrphanInv` adds that such a record names the route the stored key
names (`PendingRoute`), and, so that an id is never issued twice, that every key
seen anywhere has been issued (`Issued`). `DeletionIsFinal` is an action property
that follows from the types and the lookups of each mutator.

`AccessLogProofs`: `TypeCorrect` (the ring's modular arithmetic for any capacity,
through lemmas on what a collection and a refill of the ring return),
`PurgesAreFinal`, `PurgesKeepToPreview`, `StopSaves` and `RetainsLog`. They rest on `LockInv` (a purge
between its write and its refill is alone, no snapshot exists, and the file is what the ring is about
to hold), `GoneInv` (ring, file and snapshots hold only entries that ended and are not gone),
`PreviewInv` (an entry a preview spared has ended, so its timestamp stands and it
is neither matched nor doomed later) and `SavedInv` (the final flush's snapshot holds every live entry that is
not `late`; once down, so does the file). `RetainsLog` is the refinement
`AccessLog!ImplementsRetainedLog`: `RingShape` reads the ring by its slots, `ViewShape` says that a query sees the
ring while `mu` is free and, while a purge holds it, what the file already holds. Recording is `Add`, with
the oldest slot of a full ring overwritten; the rename of a purge is `Erase`, its refill a stutter; the
entries a purge keeps are enumerated in increasing order to show `Without`.

`HostsActivationProofs`: `TypeCorrect`, `OneProfileActive`, `FileAndStoreAgree`,
`ReplacedIsBackedUp`, `EntryDeletionIsFinal`, all from one invariant
`IInv`: types; at most one goroutine in a state that holds `Service.mu` (`Mutex`); the
active flag sits on the profile activated last, in memory, on disk and in the record
an update is about to write back (`Flags`); the file differs from the last activation
only while an operation is between its write and its commit, and that operation
knows what to restore (`FileFollows`); backup names are unique and what was replaced
is in one of the newest two (`Recoverable`). `TypeCorrect` adds `KnownProfiles`, that
every entry stored or pending names a profile that was handed out. `Recoverable` needs `KeepBackups >= 2` (20 in
the code), because within a second the later name sorts first, and it uses that a new
process, whose pid would add a third name to a second, is up no sooner than the next
second (`Restart`).

`TrafficProofs`: `TypeCorrect`, `UnsafeSentOnce`, `LimiterRespected`, `BreakersFollow`, from
one `IInv`: each request is `Sound` (before a try is made there are none, before the last
one fewer than allowed; at the bucket its route has one), each bucket is `Accounted` (what
it let through plus what it holds is at most its burst and refill - the bound alone
does not survive a refill that the burst cuts off; a request holding an old time may have the bucket refilled once more
with the seconds since that time, so the refill is counted once per worker), and each breaker `Follows` the count of
failures. That `pick` always ends at a backend of the pool is `BackendInPool`, by
well-foundedness of the naturals; asking by URL never touches the breaker of a host, because
no URL is a host.

`WebSessionProofs`: `SessionTypes`, `UserOwnsToken`, `TabsCatchUp`, `SessionsSurviveLate401s`. `StoredUserOwnsToken` adds
to what is stored that every answer under way names the owner of the token it was asked with
(`OwnInv`: `Owned`, `Honest`). `ViewCatchesUp` says that a tab with no event to come
and no request that may still change it shows the stored session, one still starting
included; its invariant `SyncInv` follows the three copies a tab has: the variables of the module are what is stored unless an
event is to come, and the view is what they hold unless the session is `Bare` (a token whose user
`/auth/me` has not brought yet). `Late401Ignored` is an action property: a 401 ends the stored session only if its
request carried the stored token. Logouts are outside it, as section 7 tells.

`RouteProofs` (for `RouteAccess`): `UniqueNames`, `DeletionShutsOut`, `OneMoment`, from one `IInv`: types, among
them what each job has read; `UniqueUsernames`; no deleted id is stored again (`GoneStayGone`, which needs that
the store looks ids up); and every login is `Sound`: while no change overlapped it the account stored is
the one it read, while at most one did the paths its groups give it now are among those seen.
That a single change keeps this is `OneChangeSeen`: every step either leaves the groups alone or
leaves the account such that the groups give it what they give the one read before -
the one step that changes both is the deletion of a group, which takes the group
out of the accounts. `EffectiveIsUnion` shows that the merge of lists in the code is the union of
the account's paths and those of its groups. `UsersChange` sums up what any step does to the accounts.

`CertificatesProofs`: `Invariance`, `Settled`, `DeletedStays`, `ScanCovers`. `SettledMatches` says nothing of an
operation under way; `InProgress` adds how far the files have come of one that is alone in its directory
(`Progress`), `Alone` that its claim to be so is true, `Quiet` that nobody is at work where a directory is
settled, `Home` that a certificate never changes its directory. `DeletedCertificateStays` needs that what is being
created is stored nowhere yet (`Fresh`), `ScanLeavesNothingDue` that a leaf on its way to a row is in no
row and on no list (`NewLeaves`). The steps of one operation are proved together: `Works` is
what each of them does to the rest, `WorksKeeps` that this keeps the invariant, and likewise
`Starts` and `StartsKeeps` for its beginning.

`RouteProofs` (for `RouteMatch`): `Matched`, for any number of routes. `MatchesBest` says nothing of a sort under way; `SortedSoFar` adds
that the places before `i` are final and that no route up to `j` goes before the one at `i`, `ListsAll` that no exchange
loses or doubles a route. It rests on `BeforeTotal` and `BeforeTransitive` - that the comparison is a strict total order, which needs
the ids as its last resort - and on `BeforeOutranks`, that it is the order of precedence.

`ConsoleProofs` treats the pages one at a time, as a visit never leaves its page: `Named` says
that every handler of every page keeps the page's name, and only then does a step of `Console` reduce to the
handlers of one page.
- Hosts: `OneProfileShown`. `HostsInv`: every list of profiles, shown or under way, marks one at most.
- Access log: `ResultsFollowView`, `PurgesFollowPreview`, `DraftsCommitted`, from `LogsInv`: the newest question's answer, whether
  under way or taken, is of the view shown (`OwnResults`); a preview whose number the dialog waits for is of the dialog's scope
  (`OwnPreview`); a text not committed is in the timer (`Drafts`).
- Route auth: `DialogsApart`, `EditsStay`, `NewestStay`, from `AuthInv`: the dialog's tokens are no newer than the requests that
  carry them, one request loads a dialog and one at a time serves a change (`AuthCallsApart`), and keys or a secret under way that
  may still be taken are no older than those shown (`AuthCallTimely`). The two action properties are proved with it, step by step (`AuthStep`).
- Forms: `PathsFollowRoutes`, `SavesShown`, from `FormInv`: rows, drafts and requests have what their form keeps of them - paths
  only of assigned routes, a payload computed from the draft it was sent with (`SentFrom`) - and a request's number is its own, so
  that the answer is to the save it seems to answer.
- Directory pages: `SettledPages`, `RowsOneByOne`, from `DirInv`. `SettledShowsServer` speaks of a page at rest; `Fresher` adds what
  leads there: as soon as no change is served whose refresh is not yet sent, the newest list, served or shown, is the
  server's. `OneRequestPerRow` counts a request until the refresh after it
is done (`Of`), and needs that a request not marked in the table deletes what is gone: `DeletesMarked` adds that a row whose
  mark the table forgot is in no list still to be shown (`Held`, `Forgotten`).

The proof of `OneRequestPerRow` failed at first for `GroupsPage`, and rightly: that page compares no generations, and
a list without groups unmounts the table and its marks with it (`pages/GroupsPage.tsx:44`, `:191`). A list read before a
deletion and answered after it brings the row back, unmarked, while the first deletion's answer is under way, and it can be
deleted again. This takes four changes on the page, so the two of `web_console` do not meet it; TLC shows it with `MaxActs` = 4. The property
therefore leaves out deletions on `GroupsPage`, on `AuthRulesPage` (which marks nothing), and on any page once a list
failed, which unmounts the table; the code has no document that says otherwise.

Assumptions are the named `ASSUME`s of the modules: bounds are naturals, `None` is
no member of the sets, fault switches are subsets of what may happen, there is a first login, the visit is to one of
the pages modelled.

Left to TLC is liveness (`NobodyStarves`, `Answered`, `TabsDecide`, `NothingHangs`), since fairness and `ENABLED` are
beyond the prover.

## 7. What the code does otherwise than its documents

- `hot_update`: the handlers that rotate, expire, rename or delete an API key do not
  reload (`http/admin/routes.go:1267-1325`), so the proxy accepts the old secret until
  something else reloads; `README.md:14` promises immediate effect.
- `hosts_duplicates`: `CreateEntry` checks and stores without a lock
  (`service/hosts/service.go:185`), against
  `docs/superpowers/specs/2026-06-14-hosts-management-design.md:116`.
- `breaker_bypassed`: failures are recorded under the host of the backend's URL
  (`proxy/proxy.go:638`, `:730`) and the balancer asks about the URL (`:245`), so no breaker ever
  keeps a request away, against the comment at `:40` and
  `docs/route-capability-audit.md:53`. For the same reason `halfOpen` is never
  reached: the automatic recovery both texts speak of never happens, and a breaker that opened stays open until a request
  succeeds. `BreakerTripped` says when a breaker leaves the closed state and when it returns, and nothing of a recovery.
- `round_robin`: the balancer is built for each request (`proxy/proxy.go:430`), so the first backend of
  a pool gets every request, against the comment at `:32` and
  `docs/route-capability-audit.md:52`.
- `hosts_torn`: when the rename is refused the file is copied in place (`syshosts/render.go:249`), and when that copy
  breaks off the activation ends with the error and the file stays torn (`:115-117`; only a failed commit restores, `:118-125`), against
  `docs/superpowers/specs/2026-06-14-hosts-management-design.md:127` ("on failure, the file is untouched") and `:165`, and
  `CHANGELOG.md:17-18`. `InSync` excepts this case, as it excepts a failed restoration and a crash between file and store.
- `group_grants`: a route of a group is granted at the login (`service/session/service.go:129`) and then refused, because the
  proxy replaces the token's routes by those of the account alone (`proxy/access.go:45`, `proxy/proxy.go:536`), while the
  console says "Select which routes this group grants access to." (`lib/i18n/resources/groups.ts:26`).

Met while modelling, contradicted by no document, and therefore only hazards: header
rules all removed in `RouteForm` are not sent and stay stored (`components/RouteForm.tsx:99-113`); a header renamed to the
key of another row replaces it (`:151`); a managed certificate turns TLS on again whatever the switch says, and
its paths stay when it is cleared (`service/routes/service.go:496-509`) - with the emptied headers these are what
`SavedAsShown` leaves out; a refused save after an upload cannot be repeated, since
the domain is taken by then; commas alone in the paths of a route store an empty list, which means every path
(`components/UserForm.tsx:62`); the draft of a new rule starts again when a refresh brings another first
route (`components/AuthRuleForm.tsx:88`); two quick toggles may be shown in the wrong order (`pages/RouteAuthPage.tsx:264`); a route opened from the list behind an open dialog discards an unsaved draft
unasked (`:187`; `EditsKept` leaves it out), and if it is the one already open the dialog stays on its spinner, as the effect that
loads it (`:253-258`) does not run again (`NothingHangs` is about the page's own spinners and buttons); a list that says a profile is in
force may be stale (`OneActiveShown` says there is one at most, not which);
`GroupsPage` compares no generations (`pages/GroupsPage.tsx:44`); `AuthRulesPage` deletes twice (`pages/AuthRulesPage.tsx:129`).

In the server likewise: two setups at once create two administrators, of different names (`http/admin/routes.go:220`; `UniqueUsernames` does not speak of their number); an account
that holds a route since deleted is refused whenever its routes or role are sent
(`service/users/service.go:162`); updates of one account in different fields overwrite each other (`:139`); the last
administrator may disable itself; two changes during one login may give a mixture of their paths
(`service/session/service.go:137`). Of certificates: `*.x` and `x` have one directory
(`service/certificate/helpers.go:17`), so issuing, renewing or deleting the one replaces or removes the other's files, an
imported one's too, although `service/certificate/service.go:30-33` leaves imported ones to the user; two
requests for one domain both pass the check (`:79`); a failed write of the key removes a
certificate that was in use (`:309`); a creation whose save fails leaves a row without files (`:118`);
a route that names an unknown certificate is a nil dereference (`service/routes/service.go:503-507`).

Some more disagree with a text of the console, a comment or a test and are documented here without a run of their own.
`logout` clears the session in a `finally`, whichever is stored by then
(`lib/session.ts:52`), so one answered after another tab logged in again ends the newer session, although
`lib/session.test.ts:118` lets late answers end only their own; `WebSession!LogoutAnswered` models it, `Late401Ignored`
leaves logouts out.
The time a request takes from its bucket at is read before the bucket's lock (`middleware/ratelimit.go:45`): an older one used after a
newer sets the bucket back and has it refilled twice, so more than the "max requests per second" of `:129` may
pass; `BurstRespected` bounds by how much.

Three texts about matching likewise. `parsePathMatchMode` promises a stop match for a legacy path that begins with `^~` (`router/compiler.go:33`),
and compares its first two characters with three (`:44`), so such a row is a prefix route whose pattern keeps the sign, which no
path begins with: `RouteMatch!SignKept`, and `MatchesBest` says nothing of it. The console says of the priority "Higher values win when multiple routes can
match the same request." (`lib/i18n/resources/routes.ts:119`), and `docs/SPEC.md:91` that the host is matched before the path; the code
compares mode, length of the pattern and only then the priority, and never the host (`router/compiler.go:235-285`), so a route for all hosts
with a longer pattern precedes one for the host asked for. `RouteMatch!priorityCmp` models it. A stored priority that makes the sum
with the base zero counts as none (`:212`).

Limits that change do not reach a bucket already made (`middleware/ratelimit.go:54`); no document
says when they should, so this is a hazard and not a finding.

## 8. Not modelled

See `components` in `PROJECT.json`. Planned: legacy rules, process, the route login and settings pages. Not planned: X.509, the local CA's files and
JWT cryptography (libraries), pages that only show figures or settings, texts and layout, metrics, configuration parsing,
installers: stateless, or pure input and output.
