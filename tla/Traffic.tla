------------------------------- MODULE Traffic -------------------------------
(***************************************************************************)
(* The way of an admitted request through internal/proxy/proxy.go: the rate  *)
(* limit of its route, the choice of a backend, the tries, and what the      *)
(* answer tells the circuit breaker.  Workers are request goroutines; they    *)
(* share the limiters, the breakers and the compiled table, from which a      *)
(* request takes its route once.                                             *)
(***************************************************************************)
EXTENDS Naturals, Sequences, FiniteSets

CONSTANTS
  Workers,
  Routes,
  Pool,         \* per route, its backends in order, each a url and a weight
  HostOf,       \* the host part of a backend's URL
  RetryOf,      \* per route, RetryAttempts, or 1 when it has none
  Limits,       \* per route, rates and bursts it may be configured with
  MaxTime, Threshold, Window,
  NoBreaker, NoLimiter, NoReq

Urls     == UNION {{Pool[r][i].url : i \in DOMAIN Pool[r]} : r \in Routes}
Hosts    == {HostOf[u] : u \in Urls}
Instants == 0..MaxTime

VARIABLES
  breakers,   \* circuitState
  limiters,   \* globalLimiter
  limits,     \* the limits of each route in the compiled table
  reqs,       \* per worker, its request
  now,
  admitted,   \* history: per route, requests its buckets let through
  streak      \* history: per host, requests failed since the last success, up to Threshold

vars == <<breakers, limiters, limits, reqs, now, admitted, streak>>

INSTANCE CircuitBreaker WITH Keys <- Urls \cup Hosts, Times <- Instants
INSTANCE RateLimiter

Kinds   == {"safe", "unsafe", "websocket"}
Indices(r) == DOMAIN Pool[r]

(* The request of a worker: pc is what it does next, limits what its route
   said when it was matched, at the time it read for its bucket, index the
   balancer's, tries the attempts made.  Limits and time go once they are used. *)
Request ==
  [pc: {"lookup", "create", "clock", "bucket", "pick", "send", "wait"}, route: Routes,
   kind: Kinds, limits: [rate: Nat, burst: Nat], at: Instants, index: Nat, url: Urls,
   tries: Nat]

(* A host is a proper part of a URL and so never equal to one.  Runtime
   validation refuses an empty pool and weights below one. *)
ASSUME TrafficAssumption ==
  /\ IsFiniteSet(Workers)
  /\ \A r \in Routes : /\ Pool[r] \in Seq([url: Urls, weight: Nat \ {0}])
                       /\ Pool[r] # <<>>
  /\ DOMAIN HostOf = Urls
  /\ Urls \cap Hosts = {}
  /\ RetryOf \in [Routes -> Nat \ {0}]
  /\ Limits \in [Routes -> SUBSET [rate: Nat, burst: Nat]]
  /\ MaxTime \in Nat
  /\ Threshold \in Nat \ {0}
  /\ Window \in Nat
  /\ NoReq \notin Request
  /\ NoBreaker \notin Breaker
  /\ NoLimiter \notin Limiter

Unlimited == [rate |-> 0, burst |-> 0]

Goto(w, pc) == reqs' = [reqs EXCEPT ![w].pc = pc]
Leave(w)    == reqs' = [reqs EXCEPT ![w] = NoReq]
At(w, pc)   == reqs[w] # NoReq /\ reqs[w].pc = pc

-----------------------------------------------------------------------------
(* Handler, after the request was matched and admitted.  listed: its client
   is on the route's whitelist. *)
Arrive(w, r, kind, listed) ==
  LET limited == Limited(limits[r]) /\ ~listed
  IN  /\ reqs[w] = NoReq
      /\ reqs' = [reqs EXCEPT ![w] =
           [pc     |-> IF limited THEN "lookup" ELSE "pick",
            route  |-> r,
            kind   |-> kind,
            limits |-> IF limited THEN limits[r] ELSE Unlimited,
            at     |-> 0,
            index  |-> 0,
            url    |-> Pool[r][1].url,
            tries  |-> 0]]
      /\ UNCHANGED <<breakers, limiters, limits, now, admitted, streak>>

Lookup(w) ==
  /\ At(w, "lookup")
  /\ Goto(w, IF Known(reqs[w].route) THEN "clock" ELSE "create")
  /\ UNCHANGED <<breakers, limiters, limits, now, admitted, streak>>

Create(w) ==
  /\ At(w, "create")
  /\ MakeLimiter(reqs[w].route, reqs[w].limits, now)
  /\ Goto(w, "clock")
  /\ UNCHANGED <<breakers, limits, now, admitted, streak>>

(* Allow reads the clock before the bucket's lock is taken. *)
ReadClock(w) ==
  /\ At(w, "clock")
  /\ reqs' = [reqs EXCEPT ![w].pc = "bucket", ![w].limits = Unlimited, ![w].at = now]
  /\ UNCHANGED <<breakers, limiters, limits, now, admitted, streak>>

(* allowWithDeadline, at the time read, which other requests' may be after. *)
Admit(w) ==
  LET r == reqs[w].route
  IN  /\ At(w, "bucket")
      /\ Allows(r, reqs[w].at)
      /\ Take(r, reqs[w].at)
      /\ admitted' = [admitted EXCEPT ![r] = @ + 1]
      /\ reqs' = [reqs EXCEPT ![w].pc = "pick", ![w].at = 0]
      /\ UNCHANGED <<breakers, limits, now, streak>>

TooMany(w) ==
  /\ At(w, "bucket")
  /\ ~Allows(reqs[w].route, reqs[w].at)
  /\ Leave(w)
  /\ UNCHANGED <<breakers, limiters, limits, now, admitted, streak>>

-----------------------------------------------------------------------------
(* newBalancer, pick: the backend that a position in the cycle of weights
   falls to. *)
UpTo(r, i) == LET sum[j \in 0..i] == IF j = 0 THEN 0 ELSE sum[j - 1] + Pool[r][j].weight
              IN  sum[i]
Cycle(r)   == UpTo(r, Len(Pool[r]))
Hits(r, n) == {i \in Indices(r) : n % Cycle(r) < UpTo(r, i)}
BackendAt(r, n) ==
  IF Hits(r, n) = {} THEN 1 ELSE CHOOSE i \in Hits(r, n) : \A j \in Hits(r, n) : i <= j

Chosen(w, u) == reqs' = [reqs EXCEPT ![w].pc = "send", ![w].url = u]

(* selectRuntimeBackend with one backend: no breaker is asked. *)
PickOnly(w) ==
  /\ At(w, "pick")
  /\ Len(Pool[reqs[w].route]) = 1
  /\ Chosen(w, Pool[reqs[w].route][1].url)
  /\ UNCHANGED <<breakers, limiters, limits, now, admitted, streak>>

(* selectRuntimeBackend with several: one turn of pick's loop, with a
   balancer made for this request.  The breaker is asked about the URL. *)
Pick(w) ==
  LET r == reqs[w].route
      n == reqs[w].index
      u == Pool[r][BackendAt(r, n)].url
      skip == IsOpen(u, now) /\ n + 1 < 2 * Len(Pool[r])
  IN  /\ At(w, "pick")
      /\ Len(Pool[r]) > 1
      /\ AskOpen(u, now)
      /\ IF skip
           THEN reqs' = [reqs EXCEPT ![w].index = n + 1]
           ELSE Chosen(w, u)
      /\ UNCHANGED <<limiters, limits, now, admitted, streak>>

-----------------------------------------------------------------------------
(* What a backend may do with one try.  A response is a 2xx or another one;
   an error is one isRetryableError knows or another one. *)
Proxied(w) == At(w, "wait") /\ reqs[w].kind # "websocket"

(* A try counted, and a faulty variant that forgets to. *)
SameTry(n) == n
NextTry(n) == n + 1

Try(w) ==
  /\ At(w, "send")
  /\ reqs' = [reqs EXCEPT ![w].pc = "wait", ![w].tries = NextTry(@)]
  /\ UNCHANGED <<breakers, limiters, limits, now, admitted, streak>>

Succeed(w) ==
  /\ Proxied(w)
  /\ RecordSuccess(HostOf[reqs[w].url])
  /\ streak' = [streak EXCEPT ![HostOf[reqs[w].url]] = 0]
  /\ Leave(w)
  /\ UNCHANGED <<limiters, limits, now, admitted>>

(* Any other response is passed on and tells the breaker nothing; neither
   does a WebSocket, however it ends. *)
Answer(w) ==
  /\ At(w, "wait")
  /\ Leave(w)
  /\ UNCHANGED <<breakers, limiters, limits, now, admitted, streak>>

(* RoundTrip's test for another try, and faulty variants without the test of
   the method and without the bound. *)
MayRetryAny(q) == q.tries <= RetryOf[q.route]
MayRetryForever(q) == q.kind = "safe"
MayRetry(q) == q.kind = "safe" /\ q.tries <= RetryOf[q.route]

Retry(w) ==
  /\ Proxied(w)
  /\ MayRetry(reqs[w])
  /\ Goto(w, "send")
  /\ UNCHANGED <<breakers, limiters, limits, now, admitted, streak>>

(* The error handler runs once for a request, after the last try. *)
Fail(w, retryable) ==
  LET h == HostOf[reqs[w].url]
  IN  /\ Proxied(w)
      /\ retryable => ~MayRetry(reqs[w])
      /\ RecordFailure(h, now)
      /\ streak' = [streak EXCEPT ![h] = Counted(@)]
      /\ Leave(w)
      /\ UNCHANGED <<limiters, limits, now, admitted>>

-----------------------------------------------------------------------------
(* A reload installs other limits for a route. *)
SetLimits(r, l) ==
  /\ l # limits[r]
  /\ limits' = [limits EXCEPT ![r] = l]
  /\ UNCHANGED <<breakers, limiters, reqs, now, admitted, streak>>

Tick ==
  /\ now < MaxTime
  /\ now' = now + 1
  /\ UNCHANGED <<breakers, limiters, limits, reqs, admitted, streak>>

Init ==
  /\ BreakersInit /\ LimitersInit
  /\ limits \in {f \in [Routes -> UNION {Limits[r] : r \in Routes}] : \A r \in Routes : f[r] \in Limits[r]}
  /\ reqs = [w \in Workers |-> NoReq]
  /\ now = 0
  /\ admitted = [r \in Routes |-> 0]
  /\ streak = [h \in Hosts |-> 0]

Limiting(w)  == Lookup(w) \/ Create(w) \/ ReadClock(w) \/ Admit(w) \/ TooMany(w)
Selecting(w) == PickOnly(w) \/ Pick(w)
Sending(w)   == Try(w) \/ Succeed(w) \/ Answer(w) \/ Retry(w) \/ \E e \in BOOLEAN : Fail(w, e)
Serve(w)     == Limiting(w) \/ Selecting(w) \/ Sending(w)

Next ==
  \/ \E w \in Workers, r \in Routes, k \in Kinds, listed \in BOOLEAN : Arrive(w, r, k, listed)
  \/ \E w \in Workers : Serve(w)
  \/ \E r \in Routes : \E l \in Limits[r] : SetLimits(r, l)
  \/ Tick

Spec == Init /\ [][Next]_vars

(* A request's goroutine runs on, dialling and waiting for the response headers
   have time limits, and bodies end.  A WebSocket lasts as long as its ends want. *)
Connected(w) == At(w, "wait") /\ reqs[w].kind = "websocket"
FairSpec == Spec /\ \A w \in Workers : WF_vars(~Connected(w) /\ Serve(w))

-----------------------------------------------------------------------------
(* Types.  RoundTrip makes at most maxRetries + 1 tries, and pick at most
   twice as many questions as there are backends. *)
TypeOK ==
  /\ BreakersType
  /\ LimitersType
  /\ limits \in [Routes -> [rate: Nat, burst: Nat]]
  /\ reqs \in [Workers -> Request \cup {NoReq}]
  /\ \A w \in Workers : reqs[w] # NoReq =>
       /\ reqs[w].tries <= RetryOf[reqs[w].route] + 1
       /\ reqs[w].index < 2 * Len(Pool[reqs[w].route])
  /\ now \in Instants
  /\ admitted \in [Routes -> Nat]
  /\ streak \in [Hosts -> 0..Threshold]

(* What is not safe to repeat reaches a backend once: RoundTrip (proxy.go:279)
   tries again only for GET, HEAD and OPTIONS. *)
SentOnce == \A w \in Workers : reqs[w] # NoReq /\ reqs[w].kind # "safe" => reqs[w].tries <= 1

(* However many first requests come at once, whatever the limits are changed to,
   and however late a request uses the time it read, a route lets through no
   more than its bucket's burst and its refill since it was made, counted once
   for each request that may be under way: a time older than the last one sets
   the bucket back, and what it was refilled with since is refilled again
   (ratelimit.go:42, 54).  With one request at a time that is the limit as
   configured. *)
BurstRespected ==
  \A r \in Routes : admitted[r] > 0 =>
    /\ Known(r)
    /\ admitted[r] <= limiters[r].burst
                      + limiters[r].rate * (Cardinality(Workers) * (now - limiters[r].made))

(* The breaker of a host is closed unless Threshold requests, however often
   each was tried, failed since the last success; after that it stays open or
   half open until a success (proxy.go:107, 142).  Whether it is asked is another
   matter: ChoosesHealthy. *)
BreakerTripped == \A h \in Hosts : NotClosed(h) <=> streak[h] = Threshold

(* Every request ends or is a WebSocket connected to its backend: neither the
   limiter, nor the search for a backend with a closed breaker, nor the retries
   go on for ever (proxy.go:222, 272). *)
Answered == \A w \in Workers : reqs[w] # NoReq ~> (reqs[w] = NoReq \/ Connected(w))

(* A backend whose breaker is open is chosen only when every backend of its
   pool has an open breaker (proxy.go:40, 230). *)
ChoosesHealthy ==
  [][\A w \in Workers : At(w, "pick") /\ At(w, "send")' =>
       \/ ~IsOpen(HostOf[reqs'[w].url], now)
       \/ \A i \in Indices(reqs[w].route) : IsOpen(HostOf[Pool[reqs[w].route][i].url], now)]_vars
=============================================================================
