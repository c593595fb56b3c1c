---------------------------- MODULE TrafficProofs ----------------------------
(***************************************************************************)
(* Proofs about Traffic, for every set of workers, routes, pools and limits:  *)
(* types and the bound on tries, no second try of an unsafe request, the      *)
(* bound of the rate limiter, and the state of the breakers.                  *)
(***************************************************************************)
EXTENDS Traffic, FiniteSetTheorems, WellFoundedInduction, TLAPS

-----------------------------------------------------------------------------
(* The inductive invariant. *)

(* A request: its tries are bounded, and it has limits as long as it is on its
   way to a bucket; once its route has one, the time it reads is not before that
   one was made. *)
Sound(q) ==
  /\ q \in Request
  /\ q.index < 2 * Len(Pool[q.route])
  /\ q.pc \in {"lookup", "create"} => Limited(q.limits)
  /\ q.pc \in {"clock", "bucket"} => Known(q.route)
  /\ q.pc = "bucket" => limiters[q.route].made <= q.at /\ q.at <= now
  /\ q.pc \in {"lookup", "create", "clock", "bucket", "pick"} => q.tries = 0
  /\ q.pc = "send" => q.tries <= RetryOf[q.route]
  /\ q.pc = "send" /\ q.kind # "safe" => q.tries = 0
  /\ q.kind # "safe" => q.tries <= 1
  /\ q.tries <= RetryOf[q.route] + 1

Requests ==
  /\ reqs \in [Workers -> Request \cup {NoReq}]
  /\ \A w \in Workers : reqs[w] # NoReq => Sound(reqs[w])

(* Refills.  A second that has passed since a bucket was made may have been
   counted once for each worker, except by those that hold a time not after it:
   fresh are the pairs of a second and a worker that may.  Behind are the seconds
   the next refill may still count; each needs a fresh pair of its own, so what
   is credited is the rest. *)
Holding(w, r) == At(w, "bucket") /\ reqs[w].route = r
Passed(m, t) == (m..(t - 1)) \X Workers
Fresh(r) ==
  {p \in Passed(limiters[r].made, now) : Holding(p[2], r) => p[1] < reqs[p[2]].at}

Behind(F, l, t) == {s \in l..(t - 1) : \E w \in Workers : <<s, w>> \in F}
Credit(F, l, t) == Cardinality(F) - Cardinality(Behind(F, l, t))

(* A bucket and what it let through, when F are the fresh pairs. *)
Accounted(b, n, F, t) ==
  /\ b.made <= b.last
  /\ b.last <= t
  /\ n + b.tokens <= b.burst + b.rate * Credit(F, b.last, t)

Buckets ==
  \A r \in Routes : IF Known(r) THEN Accounted(limiters[r], admitted[r], Fresh(r), now)
                    ELSE admitted[r] = 0

(* A breaker and the requests that failed. *)
Follows(b, n) ==
  IF b = NoBreaker THEN n = 0
  ELSE b.failures = n /\ (b.state # "closed" <=> n = Threshold)

Breakers == \A h \in Hosts : Follows(breakers[h], streak[h])

SharedTypes ==
  /\ BreakersType
  /\ LimitersType
  /\ limits \in [Routes -> [rate: Nat, burst: Nat]]
  /\ now \in Instants
  /\ admitted \in [Routes -> Nat]
  /\ streak \in [Hosts -> 0..Threshold]

IInv == SharedTypes /\ Requests /\ Buckets /\ Breakers

-----------------------------------------------------------------------------
(* A nonempty set of naturals has a least element. *)
LEMMA Least ==
  ASSUME NEW S, S \subseteq Nat, S # {}
  PROVE  \E i \in S : \A j \in S : i <= j
<1> DEFINE R == {p \in Nat \X Nat : p[1] < p[2]}
<1>1. R = OpToRel(<, Nat)
  BY Zenon DEF OpToRel
<1>2. IsWellFoundedOn(R, Nat)
  BY ONLY <1>1, NatLessThanWellFounded, Zenon
<1>3. \E i \in S : \A j \in S : ~ (<<j, i>> \in R)
  BY <1>2, WFMin, Zenon
<1>4. \A i, j \in S : <<j, i>> \in R <=> j < i
  OBVIOUS
<1>5. \A i, j \in S : ~ (j < i) => i <= j
  OBVIOUS
<1> HIDE DEF R
<1> QED
  BY <1>3, <1>4, <1>5, Zenon

(* pick's search ends at one of the route's backends. *)
LEMMA BackendInPool ==
  ASSUME NEW r \in Routes, NEW n
  PROVE  BackendAt(r, n) \in Indices(r) /\ Pool[r][BackendAt(r, n)].url \in Urls
<1>1. Pool[r] \in Seq([url: Urls, weight: Nat \ {0}]) /\ Pool[r] # <<>>
  BY TrafficAssumption
<1>2. /\ Indices(r) = 1..Len(Pool[r]) /\ Len(Pool[r]) \in Nat \ {0}
      /\ \A i \in Indices(r) : Pool[r][i] \in [url: Urls, weight: Nat \ {0}]
  <2> DEFINE B == [url: Urls, weight: Nat \ {0}]
  <2>1. Pool[r] \in Seq(B)
    BY <1>1
  <2> HIDE DEF B
  <2>2. Len(Pool[r]) # 0
    BY <1>1, <2>1
  <2> SUFFICES /\ Indices(r) = 1..Len(Pool[r]) /\ Len(Pool[r]) \in Nat \ {0}
               /\ \A i \in Indices(r) : Pool[r][i] \in B
    BY DEF B
  <2> QED
    BY <2>1, <2>2 DEF Indices
<1>3. Hits(r, n) \subseteq Indices(r)
  BY DEF Hits
<1>4. CASE Hits(r, n) = {}
  BY <1>1, <1>2, <1>4 DEF BackendAt
<1>5. CASE Hits(r, n) # {}
  <2>1. Hits(r, n) \subseteq Nat
    BY <1>2, <1>3
  <2>2. \E i \in Hits(r, n) : \A j \in Hits(r, n) : i <= j
    BY <1>5, <2>1, Least
  <2>3. BackendAt(r, n) \in Hits(r, n)
    BY <1>5, <2>2 DEF BackendAt
  <2> QED
    BY <1>1, <1>2, <1>3, <2>3
<1> QED
  BY <1>4, <1>5

-----------------------------------------------------------------------------
(* Requests. *)

LEMMA Constants ==
  /\ \A r \in Routes : RetryOf[r] \in Nat \ {0} /\ Len(Pool[r]) \in Nat \ {0}
  /\ \A r \in Routes : Limits[r] \subseteq [rate: Nat, burst: Nat]
  /\ \A r \in Routes : Pool[r][1].url \in Urls
  /\ \A u \in Urls : HostOf[u] \in Hosts /\ u \notin Hosts
  /\ MaxTime \in Nat /\ Threshold \in Nat \ {0} /\ Window \in Nat
<1>1. ASSUME NEW r \in Routes
      PROVE  Len(Pool[r]) \in Nat \ {0} /\ Pool[r][1].url \in Urls
  <2> DEFINE B == [url: Urls, weight: Nat \ {0}]
  <2>1. Pool[r] \in Seq(B) /\ Pool[r] # <<>>
    BY TrafficAssumption
  <2>2. \A b \in B : b.url \in Urls
    OBVIOUS
  <2> HIDE DEF B
  <2>3. Len(Pool[r]) \in Nat \ {0} /\ Pool[r][1] \in B
    BY <2>1
  <2> QED
    BY <2>2, <2>3
<1> QED
  BY <1>1, TrafficAssumption DEF Hosts

(* Limiters are only added, and time goes on. *)
Grown ==
  /\ now \in Nat /\ now' \in Nat /\ now <= now'
  /\ \A r \in Routes : Known(r) => Known(r)' /\ limiters'[r].made = limiters[r].made

(* A step that replaces one request by a sound one, or ends it, keeps them
   all sound, unless it loses a limiter. *)
LEMMA StaysSound ==
  ASSUME NEW v, Sound(reqs[v]), Grown, reqs'[v] = reqs[v]
  PROVE  Sound(reqs[v])'
<1> DEFINE q == reqs[v]
<1>1. q \in Request /\ q.route \in Routes /\ q.at \in Nat
  BY Constants DEF Sound, Request, Instants
<1>2. q.pc \in {"clock", "bucket"} => Known(q.route)'
  BY <1>1 DEF Sound, Grown
<1>3. q.pc = "bucket" => limiters'[q.route].made <= q.at /\ q.at <= now'
  <2> SUFFICES ASSUME q.pc = "bucket" PROVE limiters'[q.route].made <= q.at /\ q.at <= now'
    OBVIOUS
  <2>1. limiters[q.route].made <= q.at /\ q.at <= now /\ Known(q.route)
    BY DEF Sound
  <2>2. limiters'[q.route].made = limiters[q.route].made
    BY <1>1, <2>1 DEF Grown
  <2>3. q.at <= now'
    BY <1>1, <2>1 DEF Grown
  <2> QED
    BY <2>1, <2>2, <2>3
<1> QED
  BY <1>2, <1>3 DEF Sound

LEMMA OneRequest ==
  ASSUME Requests, NEW w \in Workers,
         reqs' = [reqs EXCEPT ![w] = reqs'[w]],
         reqs'[w] = NoReq \/ Sound(reqs[w])',
         Grown
  PROVE  Requests'
<1>1. reqs'[w] \in Request \cup {NoReq}
  BY DEF Sound
<1>2. reqs' \in [Workers -> Request \cup {NoReq}]
  BY <1>1 DEF Requests
<1>3. ASSUME NEW v \in Workers, reqs'[v] # NoReq PROVE Sound(reqs[v])'
  <2>1. CASE v = w
    BY <2>1, <1>3
  <2>2. CASE v # w
    BY <2>2, <1>3, StaysSound DEF Requests
  <2> QED
    BY <2>1, <2>2
<1> QED
  BY <1>2, <1>3 DEF Requests

LEMMA SameRequests ==
  ASSUME Requests, UNCHANGED reqs, Grown
  PROVE  Requests'
<1>1. ASSUME NEW v \in Workers, reqs[v] # NoReq PROVE Sound(reqs[v])'
  BY <1>1, StaysSound DEF Requests
<1> QED
  BY <1>1 DEF Requests

-----------------------------------------------------------------------------
(* Counting refills. *)

LEMMA Multiplied ==
  ASSUME NEW k \in Nat, NEW x \in Int, NEW y \in Int, x <= y
  PROVE  k * x \in Int /\ k * y \in Int /\ k * x <= k * y
<1>1. k * y - k * x = k * (y - x) /\ k * (y - x) >= 0
  OBVIOUS
<1> QED
  BY <1>1

LEMMA CountingFinite ==
  ASSUME NEW m \in Nat, NEW t \in Nat, m <= t, NEW F \in SUBSET Passed(m, t),
         NEW l \in Nat, l <= t
  PROVE  /\ IsFiniteSet(F) /\ Cardinality(F) \in Nat
         /\ Cardinality(F) <= Cardinality(Workers) * (t - m)
         /\ IsFiniteSet(Behind(F, l, t)) /\ Cardinality(Behind(F, l, t)) \in Nat
         /\ Cardinality(Behind(F, l, t)) <= t - l
         /\ Credit(F, l, t) \in Int
<1>1. IsFiniteSet(Workers) /\ Cardinality(Workers) \in Nat
  BY TrafficAssumption, FS_CardinalityType
<1>2. /\ IsFiniteSet(m..(t - 1)) /\ Cardinality(m..(t - 1)) = t - m
      /\ IsFiniteSet(l..(t - 1)) /\ Cardinality(l..(t - 1)) = t - l
  <2>1. ASSUME NEW k \in Nat, k <= t
        PROVE  IsFiniteSet(k..(t - 1)) /\ Cardinality(k..(t - 1)) = t - k
    <3>1. k \in Int /\ t - 1 \in Int
      OBVIOUS
    <3>2. /\ IsFiniteSet(k..(t - 1))
          /\ Cardinality(k..(t - 1)) = IF k > t - 1 THEN 0 ELSE (t - 1) - k + 1
      BY <3>1, FS_Interval, Zenon
    <3> QED
      BY <2>1, <3>2
  <2> QED
    BY <2>1
<1>3. IsFiniteSet(Passed(m, t)) /\ Cardinality(Passed(m, t)) = (t - m) * Cardinality(Workers)
  BY <1>1, <1>2, FS_Product DEF Passed
<1>4. /\ IsFiniteSet(F) /\ Cardinality(F) \in Nat
      /\ Cardinality(F) <= (t - m) * Cardinality(Workers)
  BY <1>3, FS_Subset, FS_CardinalityType
<1>5. Behind(F, l, t) \in SUBSET (l..(t - 1))
  BY DEF Behind
<1>6. /\ IsFiniteSet(Behind(F, l, t)) /\ Cardinality(Behind(F, l, t)) \in Nat
      /\ Cardinality(Behind(F, l, t)) <= t - l
  BY <1>2, <1>5, FS_Subset, FS_CardinalityType
<1>7. Credit(F, l, t) \in Int
  BY <1>4, <1>6 DEF Credit
<1>8. (t - m) * Cardinality(Workers) = Cardinality(Workers) * (t - m)
  BY <1>1
<1> QED
  BY <1>4, <1>6, <1>7, <1>8

(* A second passes: the requests under way hold times up to it, each of the
   other workers V may still count it. *)
LEMMA CreditTicks ==
  ASSUME NEW m \in Nat, NEW l \in Nat, NEW t \in Nat, m <= l, l <= t,
         NEW F \in SUBSET Passed(m, t), NEW V \in SUBSET Workers
  PROVE  LET G == F \cup ({t} \X V)
         IN  G \in SUBSET Passed(m, t + 1) /\ Credit(F, l, t) <= Credit(G, l, t + 1)
<1> DEFINE P == {t} \X V
           G == F \cup P
           B == Behind(F, l, t)
           C == Behind(G, l, t + 1)
<1>1. G \in SUBSET Passed(m, t + 1)
  BY DEF Passed
<1>2. /\ IsFiniteSet(F) /\ Cardinality(F) \in Nat
      /\ IsFiniteSet(B) /\ Cardinality(B) \in Nat
  <2>1. m <= t
    OBVIOUS
  <2> QED
    BY <2>1, CountingFinite, Zenon
<1>3. /\ IsFiniteSet(G) /\ Cardinality(G) \in Nat
      /\ IsFiniteSet(C) /\ Cardinality(C) \in Nat
  <2>1. m <= t + 1 /\ l <= t + 1 /\ t + 1 \in Nat
    OBVIOUS
  <2> HIDE DEF G
  <2> QED
    BY <1>1, <2>1, CountingFinite
<1>4. F \cap P = {}
  BY DEF Passed
<1>5. CASE V = {}
  <2>1. G = F
    BY <1>5
  <2>2. C = B
    <3>1. \A p \in F : p[1] # t
      BY DEF Passed
    <3>2. \A s \in l..t : (\E w \in Workers : <<s, w>> \in F) => s \in l..(t - 1)
      BY <3>1
    <3>3. l..(t - 1) \subseteq l..t /\ (t + 1) - 1 = t
      OBVIOUS
    <3> QED
      BY <2>1, <3>2, <3>3 DEF Behind
  <2>3. Credit(G, l, t + 1) = Credit(F, l, t) /\ Credit(F, l, t) \in Int
    <3>1. Credit(F, l, t) = Cardinality(F) - Cardinality(B) /\ Credit(G, l, t + 1) = Cardinality(G) - Cardinality(C)
      BY DEF Credit
    <3> HIDE DEF B, C, G
    <3> QED
      BY <1>2, <2>1, <2>2, <3>1
  <2> QED
    BY <1>1, <2>3
<1>6. CASE V # {}
  <2>1. IsFiniteSet(P) /\ Cardinality(P) = Cardinality(V) /\ Cardinality(V) \in Nat \ {0}
    <3>1. IsFiniteSet(V) /\ Cardinality(V) \in Nat /\ Cardinality(V) # 0
      BY <1>6, TrafficAssumption, FS_Subset, FS_CardinalityType, FS_EmptySet
    <3>2. IsFiniteSet({t}) /\ Cardinality({t}) = 1
      BY FS_Singleton
    <3>3. IsFiniteSet(P) /\ Cardinality(P) = 1 * Cardinality(V)
      BY <3>1, <3>2, FS_Product
    <3> QED
      BY <3>1, <3>3
  <2>2. Cardinality(G) = Cardinality(F) + Cardinality(P)
    <3>1. Cardinality(F \cup P) = Cardinality(F) + Cardinality(P) - Cardinality(F \cap P)
      BY <1>2, <2>1, FS_Union, Zenon
    <3>2. Cardinality(F \cap P) = 0 /\ Cardinality(P) \in Nat
      BY <1>4, <2>1, FS_EmptySet, Zenon
    <3>3. G = F \cup P
      OBVIOUS
    <3> HIDE DEF G, P
    <3> QED
      BY <1>2, <3>1, <3>2, <3>3
  <2>3. C \subseteq B \cup {t}
    BY DEF Behind
  <2>4. Cardinality(C) <= Cardinality(B) + 1
    <3>1. IsFiniteSet(B \cup {t}) /\ Cardinality(B \cup {t}) <= Cardinality(B) + 1
      BY <1>2, FS_AddElement
    <3>2. Cardinality(C) <= Cardinality(B \cup {t}) /\ Cardinality(B \cup {t}) \in Nat
      BY <2>3, <3>1, FS_Subset, FS_CardinalityType
    <3> QED
      BY <1>2, <1>3, <3>1, <3>2
  <2>5. Cardinality(F) - Cardinality(B) <= Cardinality(G) - Cardinality(C)
    BY <1>2, <1>3, <2>1, <2>2, <2>4
  <2> QED
    BY <1>1, <2>5 DEF Credit
<1> QED
  BY <1>5, <1>6

(* The seconds a worker counts when its request leaves with the time a, and what
   it counted until then. *)
Seconds(w, a, t) == (a..(t - 1)) \X {w}
CountsUpTo(F, w, m, a, t) == \A s \in m..(t - 1) : <<s, w>> \in F <=> s < a
GivesUp(F, H, m, l, a, t) ==
    /\ H \in SUBSET Passed(m, t)
    /\ Credit(F, l, t) <= Credit(H, l, t)
    /\ Credit(F, l, t) + (IF a < l THEN 0 ELSE a - l) <= Credit(H, a, t)

(* A request gives up the time a it held: its worker may count the seconds from
   a on once more.  Setting the bucket to a, back or ahead, is paid for. *)
LEMMA CreditGivenUp ==
  ASSUME NEW m \in Nat, NEW l \in Nat, NEW t \in Nat, NEW a \in Nat,
         m <= l, l <= t, m <= a, a <= t, NEW w \in Workers,
         NEW F \in SUBSET Passed(m, t),
         CountsUpTo(F, w, m, a, t),
         NEW H, H = F \cup Seconds(w, a, t)
  PROVE  GivesUp(F, H, m, l, a, t)
<1> DEFINE I == a..(t - 1)
           P == I \X {w}
           G == F \cup P
           B == Behind(F, l, t)
           C == Behind(G, l, t)
           D == Behind(G, a, t)
<1>0. (\A s \in m..(t - 1) : <<s, w>> \in F <=> s < a) /\ G = H
  BY DEF CountsUpTo, Seconds
<1>1. G \in SUBSET Passed(m, t)
  BY DEF Passed
<1>2. /\ IsFiniteSet(F) /\ Cardinality(F) \in Nat
      /\ IsFiniteSet(B) /\ Cardinality(B) \in Nat
  <2>1. m <= t
    OBVIOUS
  <2> QED
    BY <2>1, CountingFinite, Zenon
<1>3. /\ IsFiniteSet(G) /\ Cardinality(G) \in Nat
      /\ IsFiniteSet(C) /\ Cardinality(C) \in Nat
      /\ IsFiniteSet(D) /\ Cardinality(D) \in Nat /\ Cardinality(D) <= t - a
  <2>1. m <= t
    OBVIOUS
  <2> HIDE DEF G
  <2>2. /\ IsFiniteSet(G) /\ Cardinality(G) \in Nat
        /\ IsFiniteSet(C) /\ Cardinality(C) \in Nat
    BY <1>1, <2>1, CountingFinite, Zenon
  <2>3. IsFiniteSet(D) /\ Cardinality(D) \in Nat /\ Cardinality(D) <= t - a
    BY <1>1, <2>1, CountingFinite, Zenon
  <2> QED
    BY <2>2, <2>3
<1>4. IsFiniteSet(I) /\ Cardinality(I) = t - a
  <2>1. a \in Int /\ t - 1 \in Int
    OBVIOUS
  <2>2. IsFiniteSet(I) /\ Cardinality(I) = IF a > t - 1 THEN 0 ELSE (t - 1) - a + 1
    BY <2>1, FS_Interval, Zenon
  <2> QED
    BY <2>2
<1>5. IsFiniteSet(P) /\ Cardinality(P) = t - a
  <2>1. IsFiniteSet({w}) /\ Cardinality({w}) = 1
    BY FS_Singleton
  <2>2. IsFiniteSet(P) /\ Cardinality(P) = (t - a) * 1
    BY <1>4, <2>1, FS_Product
  <2> QED
    BY <2>2
<1>6. F \cap P = {}
  BY <1>0 DEF Passed
<1>7. Cardinality(G) = Cardinality(F) + (t - a)
  <2>1. Cardinality(F \cup P) = Cardinality(F) + Cardinality(P) - Cardinality(F \cap P)
    BY <1>2, <1>5, FS_Union, Zenon
  <2>2. Cardinality(F \cap P) = 0
    BY <1>6, FS_EmptySet, Zenon
  <2>3. G = F \cup P
    OBVIOUS
  <2> HIDE DEF G, P
  <2> QED
    BY <1>2, <1>5, <2>1, <2>2, <2>3
<1>8. Cardinality(C) <= Cardinality(B) + (t - a)
  <2>1. C \subseteq B \cup I
    BY DEF Behind
  <2>2. /\ IsFiniteSet(B \cup I)
        /\ Cardinality(B \cup I) = Cardinality(B) + Cardinality(I) - Cardinality(B \cap I)
    BY <1>2, <1>4, FS_Union
  <2>3. Cardinality(B \cap I) \in Nat
    BY <1>2, FS_Intersection, FS_CardinalityType
  <2>4. Cardinality(C) <= Cardinality(B \cup I)
    BY <2>1, <2>2, FS_Subset
  <2> QED
    BY <1>2, <1>3, <1>4, <2>2, <2>3, <2>4
<1>9. (IF a < l THEN 0 ELSE a - l) <= Cardinality(B)
  <2>1. CASE a < l
    BY <1>2, <2>1
  <2>2. CASE ~(a < l)
    <3>1. IsFiniteSet(l..(a - 1)) /\ Cardinality(l..(a - 1)) = a - l
      <4>1. l \in Int /\ a - 1 \in Int
        OBVIOUS
      <4>2. /\ IsFiniteSet(l..(a - 1))
            /\ Cardinality(l..(a - 1)) = IF l > a - 1 THEN 0 ELSE (a - 1) - l + 1
        BY <4>1, FS_Interval, Zenon
      <4> QED
        BY <2>2, <4>2
    <3>2. l..(a - 1) \subseteq B
      BY <1>0 DEF Behind
    <3>3. Cardinality(l..(a - 1)) <= Cardinality(B)
      BY <1>2, <3>2, FS_Subset
    <3> QED
      BY <2>2, <3>1, <3>3
  <2> QED
    BY <2>1, <2>2
<1>10. /\ Credit(F, l, t) = Cardinality(F) - Cardinality(B)
       /\ Credit(G, l, t) = Cardinality(G) - Cardinality(C)
       /\ Credit(G, a, t) = Cardinality(G) - Cardinality(D)
  BY DEF Credit
<1> HIDE DEF B, C, D, G
<1>11. /\ Credit(F, l, t) <= Credit(G, l, t)
       /\ Credit(F, l, t) + (IF a < l THEN 0 ELSE a - l) <= Credit(G, a, t)
  BY <1>2, <1>3, <1>7, <1>8, <1>9, <1>10
<1> QED
  BY <1>0, <1>1, <1>11 DEF GivesUp

-----------------------------------------------------------------------------
(* Limiters. *)

LEMMA NewLimiterAccounted ==
  ASSUME NEW l \in [rate: Nat, burst: Nat], Limited(l), NEW t \in Instants,
         NEW F, F = {}
  PROVE  NewLimiter(l, t) \in Limiter /\ Accounted(NewLimiter(l, t), 0, F, t)
<1>1. t \in Nat
  BY Constants DEF Instants
<1>2. Credit(F, t, t) = 0
  <2>1. Behind(F, t, t) = {}
    BY DEF Behind
  <2> QED
    BY <2>1, FS_EmptySet DEF Credit
<1>3. NewLimiter(l, t) \in Limiter
  BY <1>1 DEF Limited, NewLimiter, Limiter
<1>4. l.rate * 0 = 0
  OBVIOUS
<1> QED
  BY <1>1, <1>2, <1>3, <1>4 DEF NewLimiter, Accounted

(* More credit is as good. *)
LEMMA AccountedMore ==
  ASSUME NEW b \in Limiter, NEW n \in Nat, NEW t \in Nat, NEW u \in Nat, t <= u,
         NEW F, NEW G, Accounted(b, n, F, t),
         Credit(F, b.last, t) \in Int, Credit(G, b.last, u) \in Int,
         Credit(F, b.last, t) <= Credit(G, b.last, u)
  PROVE  Accounted(b, n, G, u)
<1>1. /\ b.last \in Nat /\ b.made \in Nat /\ b.rate \in Nat /\ b.burst \in Nat /\ b.tokens \in Nat
  BY Constants DEF Instants, Limiter
<1>2. b.rate * Credit(F, b.last, t) <= b.rate * Credit(G, b.last, u)
      /\ b.rate * Credit(F, b.last, t) \in Int /\ b.rate * Credit(G, b.last, u) \in Int
  BY <1>1, Multiplied
<1> QED
  BY <1>1, <1>2 DEF Accounted

(* A bucket after Take. *)
Taken(b, t) == [b EXCEPT !.tokens = Tokens(b, t) - 1, !.last = t]

LEMMA TakeAccounted ==
  ASSUME NEW b \in Limiter, NEW n \in Nat, NEW t \in Nat, NEW a \in Instants,
         NEW F, NEW G, Accounted(b, n, F, t), Tokens(b, a) > 0,
         b.made <= a, a <= t,
         Credit(F, b.last, t) \in Int, Credit(G, a, t) \in Int,
         Credit(F, b.last, t) + Elapsed(b, a) <= Credit(G, a, t)
  PROVE  Taken(b, a) \in Limiter /\ Accounted(Taken(b, a), n + 1, G, t)
<1> DEFINE c == Taken(b, a)
           x == Credit(F, b.last, t)
           y == Credit(G, a, t)
           e == Elapsed(b, a)
<1>1. /\ a \in Nat /\ b.last \in Nat /\ b.made \in Nat
      /\ b.rate \in Nat /\ b.burst \in Nat /\ b.tokens \in Nat
  BY Constants DEF Instants, Limiter
<1>2. e \in Nat
  BY <1>1 DEF Elapsed
<1>3. b.rate * e \in Nat
  BY <1>1, <1>2
<1>4. Tokens(b, a) \in Nat /\ Tokens(b, a) <= b.tokens + b.rate * e
  BY <1>1, <1>3 DEF Tokens
<1>5. n + b.tokens <= b.burst + b.rate * x
  BY DEF Accounted
<1> HIDE DEF x, y, e
<1>6. x \in Int /\ y \in Int /\ x + e <= y
  BY DEF x, y, e
<1>7. b.rate * (x + e) = b.rate * x + b.rate * e /\ b.rate * x \in Int
  BY <1>1, <1>2, <1>6
<1>8. b.rate * (x + e) <= b.rate * y /\ b.rate * y \in Int
  BY <1>1, <1>2, <1>6, Multiplied
<1>9. n + 1 + (Tokens(b, a) - 1) <= b.burst + b.rate * y
  BY <1>1, <1>3, <1>4, <1>5, <1>7, <1>8
<1>10. c \in Limiter
  <2>1. Tokens(b, a) - 1 \in Nat
    BY <1>4
  <2> QED
    BY <2>1 DEF Limiter, Taken
<1>11. /\ c.tokens = Tokens(b, a) - 1 /\ c.last = a
       /\ c.made = b.made /\ c.rate = b.rate /\ c.burst = b.burst
  BY DEF Limiter, Taken
<1>12. Accounted(c, n + 1, G, t)
  BY <1>1, <1>9, <1>11 DEF Accounted, y
<1> QED
  BY <1>10, <1>12

-----------------------------------------------------------------------------
(* Breakers. *)

LEMMA FailedFollows ==
  ASSUME NEW b \in Breaker \cup {NoBreaker}, NEW n \in 0..Threshold, NEW t \in Instants,
         Follows(b, n)
  PROVE  LET c == Failed(IF b = NoBreaker THEN FreshBreaker(t) ELSE b, t)
         IN  c \in Breaker /\ Follows(c, Counted(n)) /\ Counted(n) \in 0..Threshold
<1>1. NoBreaker \notin Breaker /\ Threshold \in Nat \ {0}
  BY TrafficAssumption
<1> QED
  BY <1>1 DEF Failed, FreshBreaker, Follows, Counted, Breaker

LEMMA ClosedFollows ==
  ASSUME NEW b \in Breaker, NEW n \in 0..Threshold, Follows(b, n)
  PROVE  Closed(b) \in Breaker /\ Follows(Closed(b), 0)
<1>1. NoBreaker \notin Breaker /\ Threshold \in Nat \ {0}
  BY TrafficAssumption
<1>2. Closed(b) \in Breaker /\ Closed(b).failures = 0 /\ Closed(b).state = "closed"
  <2>1. 0 \in 0..Threshold
    BY <1>1
  <2>2. b.lastFailure \in Instants
    BY DEF Breaker
  <2> QED
    BY <2>1, <2>2 DEF Breaker, Closed
<1> QED
  BY <1>1, <1>2 DEF Follows

-----------------------------------------------------------------------------
(* The steps. *)

LEMMA InitInv == Init => IInv
<1> SUFFICES ASSUME Init PROVE IInv
  OBVIOUS
<1>1. SharedTypes
  BY Constants DEF Init, SharedTypes, BreakersInit, BreakersType, LimitersInit, LimitersType, Instants
<1>2. Requests
  BY DEF Init, Requests
<1>3. Buckets
  BY DEF Init, Buckets, LimitersInit, Known
<1>4. Breakers
  BY DEF Init, Breakers, BreakersInit, Follows, Hosts
<1> QED
  BY <1>1, <1>2, <1>3, <1>4 DEF IInv

(* What a step leaves alone stays sound. *)
LEMMA SameShared ==
  ASSUME IInv, UNCHANGED <<breakers, limiters, limits, now, admitted, streak>>
  PROVE  SharedTypes' /\ Breakers' /\ Grown
<1>1. SharedTypes'
  BY DEF IInv, SharedTypes, BreakersType, LimitersType
<1>2. now \in Nat
  BY Constants DEF IInv, SharedTypes, Instants
<1>3. Grown
  BY <1>2 DEF Grown, Known
<1>4. Breakers'
  BY DEF IInv, Breakers
<1> QED
  BY <1>1, <1>3, <1>4

(* The pairs of a route's bucket change only with the times its requests hold. *)
LEMMA FreshSame ==
  ASSUME NEW r \in Routes, limiters'[r] = limiters[r], now \in Nat, now' = now,
         \A v \in Workers : Holding(v, r) => Holding(v, r)' /\ reqs'[v].at = reqs[v].at,
         \A v \in Workers : Holding(v, r)' => Holding(v, r) \/ reqs'[v].at = now
  PROVE  Fresh(r)' = Fresh(r)
<1> DEFINE P == Passed(limiters[r].made, now)
<1>1. Passed(limiters[r].made, now)' = P
  BY DEF Passed
<1>2. ASSUME NEW p \in P
      PROVE  (Holding(p[2], r)' => p[1] < reqs'[p[2]].at) <=> (Holding(p[2], r) => p[1] < reqs[p[2]].at)
  <2>1. p[2] \in Workers /\ p[1] \in limiters[r].made..(now - 1)
    BY DEF Passed
  <2>2. p[1] < now
    BY <2>1
  <2> QED
    BY <2>1, <2>2
<1> QED
  BY <1>1, <1>2 DEF Fresh

LEMMA SameBuckets ==
  ASSUME IInv, UNCHANGED <<limiters, now, admitted>>, \A r \in Routes : Fresh(r)' = Fresh(r)
  PROVE  Buckets'
  BY DEF IInv, Buckets, Known, Accounted

(* A request that neither comes to a bucket nor leaves one. *)
LEMMA OtherRequest ==
  ASSUME IInv, NEW w \in Workers, UNCHANGED <<limiters, now, admitted>>,
         reqs' = [reqs EXCEPT ![w] = reqs'[w]],
         ~At(w, "bucket"), ~At(w, "bucket")'
  PROVE  Buckets'
<1>1. \A v \in Workers : v # w => reqs'[v] = reqs[v]
  BY DEF IInv, Requests
<1>0. now \in Nat
  BY Constants DEF IInv, SharedTypes, Instants
<1>2. ASSUME NEW r \in Routes PROVE Fresh(r)' = Fresh(r)
  <2>1. \A v \in Workers : Holding(v, r)' <=> Holding(v, r)
    BY <1>1 DEF Holding, At
  <2>2. \A v \in Workers : Holding(v, r) => reqs'[v].at = reqs[v].at
    BY <1>1 DEF Holding
  <2> QED
    BY <1>0, <2>1, <2>2, FreshSame
<1> QED
  BY <1>2, SameBuckets

(* The facts of a request at a control point. *)
LEMMA Here ==
  ASSUME IInv, NEW w \in Workers, reqs[w] # NoReq
  PROVE  /\ Sound(reqs[w]) /\ reqs[w] \in Request
         /\ reqs[w].route \in Routes /\ reqs[w].url \in Urls
         /\ HostOf[reqs[w].url] \in Hosts /\ reqs[w].limits \in [rate: Nat, burst: Nat]
         /\ reqs[w].tries \in Nat /\ reqs[w].index \in Nat
         /\ RetryOf[reqs[w].route] \in Nat \ {0}
<1>1. Sound(reqs[w]) /\ reqs[w] \in Request
  BY DEF IInv, Requests, Sound
<1>2. /\ reqs[w].route \in Routes /\ reqs[w].url \in Urls
      /\ reqs[w].limits \in [rate: Nat, burst: Nat]
      /\ reqs[w].tries \in Nat /\ reqs[w].index \in Nat
  BY <1>1 DEF Request
<1> QED
  BY <1>1, <1>2, Constants

(* A request that ends, or goes on, while limiters are only added. *)
LEMMA Leaving ==
  ASSUME IInv, NEW w \in Workers, Leave(w), Grown
  PROVE  Requests' /\ reqs'[w] = NoReq /\ reqs' = [reqs EXCEPT ![w] = reqs'[w]]
<1>1. reqs'[w] = NoReq /\ reqs' = [reqs EXCEPT ![w] = reqs'[w]]
  BY DEF IInv, Requests, Leave
<1> QED
  BY <1>1, OneRequest DEF IInv

LEMMA Going ==
  ASSUME IInv, NEW w \in Workers, reqs[w] # NoReq,
         NEW pc \in {"create", "clock", "pick", "send"}, Goto(w, pc)
  PROVE  /\ reqs' = [reqs EXCEPT ![w] = reqs'[w]]
         /\ reqs'[w] \in Request /\ reqs'[w].pc = pc
         /\ reqs'[w].route = reqs[w].route /\ reqs'[w].kind = reqs[w].kind
         /\ reqs'[w].tries = reqs[w].tries /\ reqs'[w].index = reqs[w].index
         /\ reqs'[w].limits = reqs[w].limits
<1>1. reqs[w] \in Request /\ reqs' = [reqs EXCEPT ![w] = [reqs[w] EXCEPT !.pc = pc]]
  BY Here DEF Goto
<1>2. reqs'[w] = [reqs[w] EXCEPT !.pc = pc]
  BY <1>1 DEF IInv, Requests
<1>3. reqs' = [reqs EXCEPT ![w] = reqs'[w]]
  BY <1>1, <1>2
<1> DEFINE q == [reqs[w] EXCEPT !.pc = pc]
<1>4. /\ q \in Request /\ q.pc = pc /\ q.route = reqs[w].route /\ q.kind = reqs[w].kind
      /\ q.tries = reqs[w].tries /\ q.index = reqs[w].index /\ q.limits = reqs[w].limits
  BY <1>1 DEF Request
<1> HIDE DEF q
<1>5. reqs'[w] = q
  BY <1>2 DEF q
<1> QED
  BY <1>3, <1>4, <1>5

LEMMA ArriveInv ==
  ASSUME IInv, NEW w \in Workers, NEW r \in Routes, NEW k \in Kinds, NEW l \in BOOLEAN,
         Arrive(w, r, k, l)
  PROVE  IInv'
<1> DEFINE limited == Limited(limits[r]) /\ ~l
           q == [pc     |-> IF limited THEN "lookup" ELSE "pick",
                 route  |-> r,
                 kind   |-> k,
                 limits |-> IF limited THEN limits[r] ELSE Unlimited,
                 at     |-> 0,
                 index  |-> 0,
                 url    |-> Pool[r][1].url,
                 tries  |-> 0]
<1>1. q \in Request
  <2>1. limits[r] \in [rate: Nat, burst: Nat] /\ Pool[r][1].url \in Urls /\ 0 \in Instants
    BY Constants DEF IInv, SharedTypes, Instants
  <2>2. Unlimited \in [rate: Nat, burst: Nat]
    BY DEF Unlimited
  <2> QED
    BY <2>1, <2>2 DEF Request
<1>2. Sound(q) /\ q.pc # "bucket" /\ q.pc # "clock"
  <2>1. 0 < 2 * Len(Pool[r]) /\ 0 <= RetryOf[r] /\ 0 <= RetryOf[r] + 1
    BY Constants
  <2> QED
    BY <1>1, <2>1 DEF Sound
<1> HIDE DEF q
<1>3. SharedTypes' /\ Breakers' /\ Grown /\ UNCHANGED <<limiters, now, admitted>>
  BY SameShared DEF Arrive
<1>4. reqs' = [reqs EXCEPT ![w] = q] /\ reqs[w] = NoReq
  BY DEF Arrive, q
<1>5. reqs'[w] = q
  BY <1>4 DEF IInv, Requests
<1>6. Sound(reqs[w])'
  BY <1>1, <1>2, <1>3, <1>5 DEF Sound
<1>7. Requests'
  BY <1>3, <1>4, <1>5, <1>6, OneRequest DEF IInv
<1>8. Buckets'
  BY <1>2, <1>3, <1>4, <1>5, OtherRequest DEF At
<1> QED
  BY <1>3, <1>7, <1>8 DEF IInv

LEMMA LookupInv == ASSUME IInv, NEW w \in Workers, Lookup(w) PROVE IInv'
<1>1. reqs[w] # NoReq /\ reqs[w].pc = "lookup"
  BY DEF Lookup, At
<1>2. SharedTypes' /\ Breakers' /\ Grown /\ UNCHANGED <<limiters, now, admitted>>
  BY SameShared DEF Lookup
<1>3. PICK pc \in {"clock", "create"} :
        Goto(w, pc) /\ (pc = "clock" => Known(reqs[w].route))
  BY DEF Lookup
<1>4. /\ reqs' = [reqs EXCEPT ![w] = reqs'[w]]
      /\ reqs'[w] \in Request /\ reqs'[w].pc = pc
      /\ reqs'[w].route = reqs[w].route /\ reqs'[w].kind = reqs[w].kind
      /\ reqs'[w].tries = reqs[w].tries /\ reqs'[w].index = reqs[w].index
      /\ reqs'[w].limits = reqs[w].limits
  BY <1>1, <1>3, Going
<1>5. Sound(reqs[w])'
  BY <1>1, <1>2, <1>3, <1>4, Here DEF Sound, Known
<1>6. Requests'
  BY <1>2, <1>4, <1>5, OneRequest DEF IInv
<1>7. Buckets'
  BY <1>1, <1>2, <1>4, OtherRequest DEF At
<1> QED
  BY <1>2, <1>6, <1>7 DEF IInv

LEMMA CreateInv == ASSUME IInv, NEW w \in Workers, Create(w) PROVE IInv'
<1> DEFINE r == reqs[w].route
           b == NewLimiter(reqs[w].limits, now)
<1>1. reqs[w] # NoReq /\ reqs[w].pc = "create" /\ Goto(w, "clock")
  BY DEF Create, At
<1>2. /\ r \in Routes /\ Limited(reqs[w].limits) /\ now \in Instants /\ now \in Nat
      /\ reqs[w].limits \in [rate: Nat, burst: Nat]
  BY <1>1, Here, Constants DEF Sound, IInv, SharedTypes, Instants
<1>3. b \in Limiter /\ b # NoLimiter /\ b.made = now /\ Accounted(b, 0, {}, now)
  BY <1>2, NewLimiterAccounted, TrafficAssumption DEF NewLimiter
<1> HIDE DEF b
<1>4. /\ limiters' = [limiters EXCEPT ![r] = IF Known(r) THEN limiters[r] ELSE b]
      /\ UNCHANGED <<breakers, limits, now, admitted, streak>>
  BY DEF Create, MakeLimiter, StillUnknown, b
<1>5. LimitersType' /\ limiters \in [Routes -> Limiter \cup {NoLimiter}]
  BY <1>2, <1>3, <1>4 DEF IInv, SharedTypes, LimitersType
<1>6. SharedTypes'
  BY <1>4, <1>5 DEF IInv, SharedTypes, BreakersType
<1>7. /\ \A s \in Routes : Known(s) => Known(s)' /\ limiters'[s] = limiters[s]
      /\ \A s \in Routes : ~Known(s) /\ Known(s)' => s = r /\ limiters'[s] = b
      /\ limiters'[r] # NoLimiter
  <2>1. \A s \in Routes : limiters'[s] = IF s = r /\ ~Known(r) THEN b ELSE limiters[s]
    BY <1>2, <1>4, <1>5
  <2>2. b # NoLimiter /\ r \in Routes
    BY <1>2, <1>3
  <2>3. \A s \in Routes : Known(s) => limiters'[s] = limiters[s]
    BY <2>1 DEF Known
  <2>4. \A s \in Routes : Known(s) => Known(s)'
    BY <2>3 DEF Known
  <2>5. limiters'[r] # NoLimiter
    BY <2>1, <2>2 DEF Known
  <2>6. \A s \in Routes : ~Known(s) /\ Known(s)' => s = r /\ limiters'[s] = b
    BY <2>1 DEF Known
  <2> QED
    BY <2>3, <2>4, <2>5, <2>6
<1>8. Grown
  BY <1>2, <1>4, <1>7 DEF Grown
<1>9. /\ reqs' = [reqs EXCEPT ![w] = reqs'[w]]
      /\ reqs'[w] \in Request /\ reqs'[w].pc = "clock"
      /\ reqs'[w].route = reqs[w].route /\ reqs'[w].kind = reqs[w].kind
      /\ reqs'[w].tries = reqs[w].tries /\ reqs'[w].index = reqs[w].index
  BY <1>1, Going
<1>10. Buckets'
  <2> SUFFICES ASSUME NEW s \in Routes
               PROVE  (IF Known(s) THEN Accounted(limiters[s], admitted[s], Fresh(s), now)
                       ELSE admitted[s] = 0)'
    BY DEF Buckets
  <2>1. IF Known(s) THEN Accounted(limiters[s], admitted[s], Fresh(s), now) ELSE admitted[s] = 0
    BY DEF IInv, Buckets
  <2>2. CASE Known(s)
    <3>1. \A v \in Workers : v # w => reqs'[v] = reqs[v]
      BY <1>9 DEF IInv, Requests
    <3>2. \A v \in Workers : Holding(v, s)' <=> Holding(v, s)
      BY <1>1, <1>9, <3>1 DEF Holding, At
    <3>3. \A v \in Workers : Holding(v, s) => reqs'[v].at = reqs[v].at
      BY <1>1, <3>1 DEF Holding, At
    <3>4. Fresh(s)' = Fresh(s)
      BY <1>2, <1>4, <1>7, <2>2, <3>2, <3>3, FreshSame
    <3>5. Accounted(limiters[s], admitted[s], Fresh(s), now)' /\ Known(s)'
      BY <1>4, <1>7, <2>1, <2>2, <3>4 DEF Accounted
    <3> QED
      BY <3>5
  <2>3. CASE ~Known(s) /\ Known(s)'
    <3>1. limiters'[s] = b /\ now' = now /\ admitted'[s] = 0
      BY <1>4, <1>7, <2>1, <2>3
    <3>2. Passed(now, now) = {}
      BY <1>2 DEF Passed
    <3>3. Fresh(s)' = {}
      BY <1>3, <3>1, <3>2 DEF Fresh, Passed
    <3>4. Accounted(limiters[s], admitted[s], Fresh(s), now)'
      BY <1>3, <3>1, <3>3
    <3> QED
      BY <2>3, <3>4
  <2>4. CASE ~Known(s) /\ ~Known(s)'
    BY <1>4, <2>1, <2>4
  <2> QED
    BY <2>2, <2>3, <2>4
<1>11. Breakers'
  BY <1>4 DEF IInv, Breakers
<1>12. Sound(reqs[w])'
  BY <1>1, <1>7, <1>9, Here DEF Sound, Known
<1>13. Requests'
  BY <1>8, <1>9, <1>12, OneRequest DEF IInv
<1> QED
  BY <1>6, <1>10, <1>11, <1>13 DEF IInv

LEMMA ReadClockInv == ASSUME IInv, NEW w \in Workers, ReadClock(w) PROVE IInv'
<1> DEFINE q == [reqs[w] EXCEPT !.pc = "bucket", !.limits = Unlimited, !.at = now]
<1>1. reqs[w] # NoReq /\ reqs[w].pc = "clock" /\ reqs' = [reqs EXCEPT ![w] = q]
  BY DEF ReadClock, At
<1>2. SharedTypes' /\ Breakers' /\ Grown /\ UNCHANGED <<limiters, now, admitted>>
  BY SameShared DEF ReadClock
<1>3. now \in Instants /\ now \in Nat /\ Unlimited \in [rate: Nat, burst: Nat]
  BY Constants DEF IInv, SharedTypes, Instants, Unlimited
<1>4. /\ q \in Request /\ q.pc = "bucket" /\ q.at = now /\ q.route = reqs[w].route
      /\ q.kind = reqs[w].kind /\ q.tries = reqs[w].tries /\ q.index = reqs[w].index
  <2>1. reqs[w] \in Request
    BY <1>1, Here
  <2> QED
    BY <1>3, <2>1 DEF Request
<1> HIDE DEF q
<1>5. reqs'[w] = q /\ \A v \in Workers : v # w => reqs'[v] = reqs[v]
  BY <1>1 DEF IInv, Requests
<1>6. Known(reqs[w].route) /\ reqs[w].route \in Routes
  BY <1>1, Here DEF Sound
<1>7. limiters[reqs[w].route].made <= now
  <2>1. Accounted(limiters[reqs[w].route], admitted[reqs[w].route], Fresh(reqs[w].route), now)
    BY <1>6 DEF IInv, Buckets
  <2>2. limiters[reqs[w].route] \in Limiter
    BY <1>6 DEF IInv, SharedTypes, LimitersType, Known
  <2>3. limiters[reqs[w].route].made \in Nat /\ limiters[reqs[w].route].last \in Nat
    BY <2>2, Constants DEF Limiter, Instants
  <2> QED
    BY <1>3, <2>1, <2>3 DEF Accounted
<1>8. Sound(reqs[w])'
  <2>1. PICK p \in Request : p = q
    BY <1>4
  <2>2. limiters'[p.route].made <= p.at /\ p.at <= now' /\ Known(p.route)'
    BY <1>2, <1>3, <1>4, <1>6, <1>7, <2>1 DEF Known
  <2>3. reqs'[w] = p
    BY <1>5, <2>1
  <2> QED
    BY <1>1, <1>4, <2>1, <2>2, <2>3, Here DEF Sound
<1>9. Requests'
  BY <1>1, <1>2, <1>5, <1>8, OneRequest DEF IInv
<1>10. ASSUME NEW r \in Routes PROVE Fresh(r)' = Fresh(r)
  <2>1. \A v \in Workers : Holding(v, r) => Holding(v, r)' /\ reqs'[v].at = reqs[v].at
    BY <1>1, <1>5 DEF Holding, At
  <2>2. \A v \in Workers : Holding(v, r)' => Holding(v, r) \/ reqs'[v].at = now
    BY <1>4, <1>5 DEF Holding, At
  <2> QED
    BY <1>2, <1>3, <2>1, <2>2, FreshSame
<1>11. Buckets'
  BY <1>2, <1>10, SameBuckets
<1> QED
  BY <1>2, <1>9, <1>11 DEF IInv

(* The pairs of the buckets once a request gives up the time it held. *)
LEMMA GivenUp ==
  ASSUME IInv, NEW w \in Workers, At(w, "bucket"), ~At(w, "bucket")', now' = now,
         NEW r, r = reqs[w].route, NEW a, a = reqs[w].at, NEW b, b = limiters[r],
         reqs' = [reqs EXCEPT ![w] = reqs'[w]],
         \A s \in Routes : Known(s) => limiters'[s].made = limiters[s].made,
         \A s \in Routes : s # r => limiters'[s] = limiters[s]
  PROVE  /\ r \in Routes /\ Known(r) /\ b \in Limiter
         /\ a \in Instants /\ b.made <= a /\ a <= now
         /\ b.made \in Nat /\ b.last \in Nat /\ now \in Nat /\ a \in Nat
         /\ Credit(Fresh(r), b.last, now) \in Int /\ Credit(Fresh(r)', b.last, now) \in Int
         /\ Credit(Fresh(r)', a, now) \in Int
         /\ Credit(Fresh(r), b.last, now) <= Credit(Fresh(r)', b.last, now)
         /\ Credit(Fresh(r), b.last, now) + Elapsed(b, a) <= Credit(Fresh(r)', a, now)
         /\ \A s \in Routes : s # r => Fresh(s)' = Fresh(s)
<1> DEFINE F == Fresh(r)
           G == Fresh(r)'
<1>1. reqs[w] # NoReq /\ reqs[w].pc = "bucket"
  BY DEF At
<1>2. /\ r \in Routes /\ Known(r) /\ b.made <= a /\ a <= now /\ a \in Instants
  BY <1>1, Here DEF Sound, Request
<1>3. b \in Limiter /\ now \in Instants
  BY <1>2 DEF IInv, SharedTypes, LimitersType, Known
<1>4. b.made \in Nat /\ b.last \in Nat /\ now \in Nat /\ a \in Nat
  BY <1>2, <1>3, Constants DEF Limiter, Instants
<1>5. b.made <= b.last /\ b.last <= now
  <2>1. Accounted(b, admitted[r], F, now)
    BY <1>2 DEF IInv, Buckets
  <2> QED
    BY <2>1 DEF Accounted
<1>6. \A v \in Workers : v # w => reqs'[v] = reqs[v]
  BY DEF IInv, Requests
<1>7. F \in SUBSET Passed(b.made, now)
  BY DEF Fresh
<1>8. \A s \in b.made..(now - 1) : <<s, w>> \in F <=> s < a
  <2>1. Holding(w, r)
    BY DEF Holding
  <2>2. ASSUME NEW s \in b.made..(now - 1) PROVE <<s, w>> \in Passed(b.made, now)
    BY DEF Passed
  <2> QED
    BY <2>1, <2>2 DEF Fresh
<1>9. G = F \cup ((a..(now - 1)) \X {w})
  <2>1. Passed(limiters[r].made, now)' = Passed(b.made, now)
    BY <1>2 DEF Passed
  <2>2. G = {p \in Passed(b.made, now) : Holding(p[2], r)' => p[1] < reqs'[p[2]].at}
    BY <2>1 DEF Fresh
  <2>3. ASSUME NEW p \in Passed(b.made, now)
        PROVE  (Holding(p[2], r)' => p[1] < reqs'[p[2]].at)
                 <=> ((Holding(p[2], r) => p[1] < reqs[p[2]].at) \/ p \in (a..(now - 1)) \X {w})
    <3>1. p[2] \in Workers /\ p[1] \in b.made..(now - 1) /\ p = <<p[1], p[2]>>
      BY DEF Passed
    <3>2. CASE p[2] = w
      <4>1. ~Holding(w, r)' /\ Holding(w, r)
        BY DEF Holding
      <4>2. p[1] < a \/ p[1] \in a..(now - 1)
        BY <1>4, <3>1
      <4>3. p[1] < a \/ p \in (a..(now - 1)) \X {w}
        BY <3>1, <3>2, <4>2
      <4> QED
        BY <3>2, <4>1, <4>3
    <3>3. CASE p[2] # w
      <4>1. p \notin (a..(now - 1)) \X {w}
        BY <3>1, <3>3
      <4>2. reqs'[p[2]] = reqs[p[2]]
        BY <1>6, <3>1, <3>3
      <4>3. Holding(p[2], r)' <=> Holding(p[2], r)
        BY <4>2 DEF Holding, At
      <4> QED
        BY <4>1, <4>2, <4>3
    <3> QED
      BY <3>2, <3>3
  <2>4. (a..(now - 1)) \X {w} \subseteq Passed(b.made, now)
    BY <1>2, <1>4 DEF Passed
  <2>5. F = {p \in Passed(b.made, now) : Holding(p[2], r) => p[1] < reqs[p[2]].at}
    BY DEF Fresh
  <2> HIDE DEF F, G
  <2> QED
    BY <2>2, <2>3, <2>4, <2>5
<1>10. \A s \in Routes : s # r => Fresh(s)' = Fresh(s)
  <2> SUFFICES ASSUME NEW s \in Routes, s # r PROVE Fresh(s)' = Fresh(s)
    OBVIOUS
  <2>1. \A v \in Workers : Holding(v, s)' <=> Holding(v, s)
    BY <1>6 DEF Holding, At
  <2>2. \A v \in Workers : Holding(v, s) => reqs'[v].at = reqs[v].at
    BY <1>6 DEF Holding
  <2> QED
    BY <1>4, <2>1, <2>2, FreshSame
<1> DEFINE m == b.made
           l == b.last
<1>11. /\ G \in SUBSET Passed(m, now)
       /\ Credit(F, l, now) <= Credit(G, l, now)
       /\ Credit(F, l, now) + (IF a < l THEN 0 ELSE a - l) <= Credit(G, a, now)
  <2>1. /\ m \in Nat /\ l \in Nat /\ m <= l /\ l <= now /\ m <= a
        /\ a \in Nat /\ now \in Nat /\ a <= now
    BY <1>2, <1>4, <1>5
  <2>2. CountsUpTo(F, w, m, a, now) /\ G = F \cup Seconds(w, a, now)
    BY <1>8, <1>9 DEF CountsUpTo, Seconds
  <2>3. F \in SUBSET Passed(m, now)
    BY <1>7
  <2> HIDE DEF F, G, m, l
  <2>4. GivesUp(F, G, m, l, a, now)
    BY <2>1, <2>2, <2>3, CreditGivenUp, Zenon
  <2> QED
    BY <2>4 DEF GivesUp
<1>12. /\ Credit(F, l, now) \in Int /\ Credit(G, l, now) \in Int /\ Credit(G, a, now) \in Int
  <2>1. m \in Nat /\ l \in Nat /\ l <= now /\ m <= now
    BY <1>4, <1>5
  <2>2. F \in SUBSET Passed(m, now)
    BY <1>7
  <2> HIDE DEF F, G, m, l
  <2>3. Credit(F, l, now) \in Int /\ Credit(G, l, now) \in Int
    BY <1>4, <1>11, <2>1, <2>2, CountingFinite, Zenon
  <2>4. Credit(G, a, now) \in Int
    BY <1>2, <1>4, <1>11, <2>1, CountingFinite, Zenon
  <2> QED
    BY <2>3, <2>4
<1> QED
  BY <1>2, <1>3, <1>4, <1>10, <1>11, <1>12 DEF Elapsed

LEMMA TooManyInv == ASSUME IInv, NEW w \in Workers, TooMany(w) PROVE IInv'
<1>1. At(w, "bucket") /\ Leave(w) /\ UNCHANGED <<limiters, now, admitted>>
  BY DEF TooMany
<1>2. SharedTypes' /\ Breakers' /\ Grown
  BY SameShared DEF TooMany
<1>3. Requests' /\ reqs'[w] = NoReq /\ reqs' = [reqs EXCEPT ![w] = reqs'[w]]
  BY <1>1, <1>2, Leaving
<1>4. ~At(w, "bucket")'
  BY <1>3 DEF At
<1>5. PICK r \in Routes : r = reqs[w].route
  BY <1>1, Here DEF At
<1>6. PICK b \in Limiter : b = limiters[r]
  BY <1>1, <1>5, Here DEF At, Sound, Known, IInv, SharedTypes, LimitersType
<1>7. /\ Known(r) /\ b.last \in Nat /\ now \in Nat
      /\ Credit(Fresh(r), b.last, now) \in Int /\ Credit(Fresh(r)', b.last, now) \in Int
      /\ Credit(Fresh(r), b.last, now) <= Credit(Fresh(r)', b.last, now)
      /\ \A s \in Routes : s # r => Fresh(s)' = Fresh(s)
  <2>1. PICK a : a = reqs[w].at
    OBVIOUS
  <2> QED
    BY <1>1, <1>3, <1>4, <1>5, <1>6, <2>1, GivenUp
<1>8. ASSUME NEW s \in Routes
      PROVE  (IF Known(s) THEN Accounted(limiters[s], admitted[s], Fresh(s), now)
              ELSE admitted[s] = 0)'
  <2>1. IF Known(s) THEN Accounted(limiters[s], admitted[s], Fresh(s), now) ELSE admitted[s] = 0
    BY DEF IInv, Buckets
  <2>2. CASE s # r
    BY <1>1, <1>7, <2>1, <2>2 DEF Known, Accounted
  <2>3. CASE s = r
    <3>1. Accounted(b, admitted[s], Fresh(r), now) /\ admitted[s] \in Nat
      BY <1>6, <1>7, <2>1, <2>3 DEF IInv, SharedTypes
    <3>2. Accounted(b, admitted[s], Fresh(r)', now)
      BY <1>7, <3>1, AccountedMore
    <3> QED
      BY <1>1, <1>6, <1>7, <2>3, <3>2 DEF Known
  <2> QED
    BY <2>2, <2>3
<1>9. Buckets'
  BY <1>8 DEF Buckets
<1> QED
  BY <1>2, <1>3, <1>9 DEF IInv

LEMMA AdmitInv == ASSUME IInv, NEW w \in Workers, Admit(w) PROVE IInv'
<1> DEFINE q == [reqs[w] EXCEPT !.pc = "pick", !.at = 0]
<1>1. /\ At(w, "bucket") /\ reqs[w] # NoReq /\ reqs[w].pc = "bucket"
      /\ reqs' = [reqs EXCEPT ![w] = q]
      /\ UNCHANGED <<breakers, limits, now, streak>>
  BY DEF Admit, At
<1>2. /\ q \in Request /\ q.pc = "pick" /\ q.route = reqs[w].route
      /\ q.kind = reqs[w].kind /\ q.tries = reqs[w].tries /\ q.index = reqs[w].index
  <2>1. reqs[w] \in Request /\ 0 \in Instants
    BY <1>1, Here, Constants DEF Instants
  <2> QED
    BY <2>1 DEF Request
<1> HIDE DEF q
<1>3. reqs'[w] = q /\ reqs' = [reqs EXCEPT ![w] = reqs'[w]]
  BY <1>1 DEF IInv, Requests
<1>4. ~At(w, "bucket")'
  BY <1>2, <1>3 DEF At
<1>5. PICK r \in Routes : r = reqs[w].route
  BY <1>1, Here
<1>6. PICK a \in Instants : a = reqs[w].at
  BY <1>1, Here DEF Request
<1>7. PICK b \in Limiter : b = limiters[r]
  BY <1>1, <1>5, Here DEF Sound, Known, IInv, SharedTypes, LimitersType
<1> DEFINE c == Taken(b, a)
<1>8. /\ limiters' = [limiters EXCEPT ![r] = c]
      /\ admitted' = [admitted EXCEPT ![r] = @ + 1]
      /\ Tokens(b, a) > 0
  BY <1>5, <1>6, <1>7 DEF Admit, Allows, Take, Taken
<1>9. c.made = b.made
  BY DEF Limiter, Taken
<1> HIDE DEF c
<1>10. /\ \A s \in Routes : s # r => limiters'[s] = limiters[s] /\ admitted'[s] = admitted[s]
       /\ limiters'[r] = c /\ admitted'[r] = admitted[r] + 1 /\ admitted[r] \in Nat
  BY <1>8 DEF IInv, SharedTypes, LimitersType
<1>11. /\ \A s \in Routes : Known(s) => limiters'[s].made = limiters[s].made
       /\ \A s \in Routes : s # r => limiters'[s] = limiters[s]
  BY <1>5, <1>7, <1>9, <1>10
<1>12. /\ Known(r) /\ b.made <= a /\ a <= now /\ now \in Nat
       /\ Credit(Fresh(r), b.last, now) \in Int /\ Credit(Fresh(r)', a, now) \in Int
       /\ Credit(Fresh(r), b.last, now) + Elapsed(b, a) <= Credit(Fresh(r)', a, now)
       /\ \A s \in Routes : s # r => Fresh(s)' = Fresh(s)
  <2>1. now' = now
    BY <1>1
  <2> QED
    BY <1>1, <1>3, <1>4, <1>5, <1>6, <1>7, <1>11, <2>1, GivenUp, ZenonT(60)
<1>13. c \in Limiter /\ Accounted(c, admitted[r] + 1, Fresh(r)', now) /\ c # NoLimiter
  <2>1. Accounted(b, admitted[r], Fresh(r), now)
    BY <1>7, <1>12 DEF IInv, Buckets
  <2> QED
    BY <1>8, <1>10, <1>12, <2>1, TakeAccounted, TrafficAssumption DEF c
<1>14. SharedTypes'
  BY <1>1, <1>8, <1>13 DEF IInv, SharedTypes, LimitersType, BreakersType
<1>15. Grown
  BY <1>1, <1>10, <1>11, <1>12, <1>13 DEF Grown, Known
<1>16. ASSUME NEW s \in Routes
       PROVE  (IF Known(s) THEN Accounted(limiters[s], admitted[s], Fresh(s), now)
               ELSE admitted[s] = 0)'
  <2>1. CASE s = r
    BY <1>1, <1>10, <1>13, <2>1 DEF Known
  <2>2. CASE s # r
    <3>1. IF Known(s) THEN Accounted(limiters[s], admitted[s], Fresh(s), now) ELSE admitted[s] = 0
      BY DEF IInv, Buckets
    <3> QED
      BY <1>1, <1>10, <1>12, <2>2, <3>1 DEF Known
  <2> QED
    BY <2>1, <2>2
<1>17. Buckets'
  BY <1>16 DEF Buckets
<1>18. Breakers'
  BY <1>1 DEF IInv, Breakers
<1>19. Sound(reqs[w])'
  BY <1>1, <1>2, <1>3, Here DEF Sound
<1>20. Requests'
  BY <1>3, <1>15, <1>19, OneRequest DEF IInv
<1> QED
  BY <1>14, <1>17, <1>18, <1>20 DEF IInv

(* A backend chosen, or another turn of pick's loop. *)
LEMMA ChosenSound ==
  ASSUME IInv, NEW w \in Workers, reqs[w] # NoReq, reqs[w].pc = "pick",
         NEW u \in Urls, Chosen(w, u), UNCHANGED <<limiters, now, admitted>>, Grown
  PROVE  Requests' /\ Buckets'
<1> DEFINE q == [reqs[w] EXCEPT !.pc = "send", !.url = u]
<1>1. q \in Request /\ q.pc = "send" /\ q.kind = reqs[w].kind /\ q.route = reqs[w].route
      /\ q.tries = reqs[w].tries /\ q.index = reqs[w].index
  BY Here DEF Request
<1>2. reqs' = [reqs EXCEPT ![w] = q]
  BY DEF Chosen
<1> HIDE DEF q
<1>3. reqs'[w] = q
  BY <1>2 DEF IInv, Requests
<1>4. Sound(reqs[w])'
  BY <1>1, <1>3, Here DEF Sound
<1>5. reqs' = [reqs EXCEPT ![w] = reqs'[w]] /\ ~At(w, "bucket") /\ ~At(w, "bucket")'
  BY <1>1, <1>2, <1>3 DEF At
<1> QED
  BY <1>3, <1>4, <1>5, OneRequest, OtherRequest DEF IInv

LEMMA PickOnlyInv == ASSUME IInv, NEW w \in Workers, PickOnly(w) PROVE IInv'
<1>1. reqs[w] # NoReq /\ reqs[w].pc = "pick" /\ Chosen(w, Pool[reqs[w].route][1].url)
      /\ UNCHANGED <<breakers, limiters, limits, now, admitted, streak>>
  BY DEF PickOnly, At
<1>2. Pool[reqs[w].route][1].url \in Urls
  BY <1>1, Here, Constants
<1>3. SharedTypes' /\ Breakers' /\ Grown
  BY <1>1, SameShared
<1> QED
  BY <1>1, <1>2, <1>3, ChosenSound DEF IInv

LEMMA PickInv == ASSUME IInv, NEW w \in Workers, Pick(w) PROVE IInv'
<1> DEFINE r == reqs[w].route
           n == reqs[w].index
           u == Pool[r][BackendAt(r, n)].url
<1>1. /\ reqs[w] # NoReq /\ reqs[w].pc = "pick"
      /\ UNCHANGED <<limiters, limits, now, admitted, streak>>
      /\ AskOpen(u, now)
  BY DEF Pick, At
<1>2. r \in Routes /\ u \in Urls
  BY <1>1, Here, BackendInPool
<1>3. BreakersType' /\ \A h \in Hosts : breakers'[h] = breakers[h]
  <2>1. breakers \in [Urls \cup Hosts -> Breaker \cup {NoBreaker}] /\ u \notin Hosts
    BY <1>2, Constants DEF IInv, SharedTypes, BreakersType
  <2>2. CASE Recovering(u, now)
    <3>1. breakers[u] \in Breaker
      BY <1>2, <2>1, <2>2 DEF Recovering, Tripped
    <3>2. [breakers[u] EXCEPT !.state = "halfOpen"] \in Breaker
      BY <3>1 DEF Breaker
    <3>3. breakers' = [breakers EXCEPT ![u] = [breakers[u] EXCEPT !.state = "halfOpen"]]
      BY <1>1, <2>2 DEF AskOpen
    <3> HIDE DEF u
    <3> QED
      BY <1>2, <2>1, <3>2, <3>3 DEF BreakersType
  <2>3. CASE ~Recovering(u, now)
    BY <1>1, <2>1, <2>3 DEF AskOpen, BreakersType
  <2> QED
    BY <2>2, <2>3
<1>4. SharedTypes' /\ Breakers' /\ Grown
  <2>1. now \in Nat
    BY Constants DEF IInv, SharedTypes, Instants
  <2> QED
    BY <1>1, <1>3, <2>1 DEF IInv, SharedTypes, LimitersType, Breakers, Known, Grown
<1>5. Requests' /\ Buckets'
  <2>1. CASE Chosen(w, u)
    BY <1>1, <1>2, <1>4, <2>1, ChosenSound
  <2>2. CASE reqs' = [reqs EXCEPT ![w].index = n + 1] /\ n + 1 < 2 * Len(Pool[r])
    <3> DEFINE q == [reqs[w] EXCEPT !.index = n + 1]
    <3>1. q \in Request /\ q.pc = "pick" /\ q.kind = reqs[w].kind /\ q.route = r
          /\ q.tries = reqs[w].tries /\ q.index = n + 1
      BY <1>1, Here DEF Request
    <3>2. reqs' = [reqs EXCEPT ![w] = q]
      BY <2>2
    <3> HIDE DEF q
    <3>3. reqs'[w] = q
      BY <3>2 DEF IInv, Requests
    <3>4. Sound(reqs[w])'
      BY <1>1, <2>2, <3>1, <3>3, Here DEF Sound
    <3>5. reqs' = [reqs EXCEPT ![w] = reqs'[w]] /\ ~At(w, "bucket") /\ ~At(w, "bucket")'
      BY <1>1, <3>1, <3>2, <3>3 DEF At
    <3> QED
      BY <1>1, <1>4, <3>4, <3>5, OneRequest, OtherRequest DEF IInv
  <2> QED
    BY <2>1, <2>2 DEF Pick
<1> QED
  BY <1>4, <1>5 DEF IInv

LEMMA TryInv == ASSUME IInv, NEW w \in Workers, Try(w) PROVE IInv'
<1> DEFINE q == [reqs[w] EXCEPT !.pc = "wait", !.tries = NextTry(reqs[w].tries)]
<1>1. reqs[w] # NoReq /\ reqs[w].pc = "send"
  BY DEF Try, At
<1>2. q \in Request /\ q.pc = "wait" /\ q.kind = reqs[w].kind /\ q.route = reqs[w].route
      /\ q.tries = reqs[w].tries + 1 /\ q.index = reqs[w].index
  <2>1. NextTry(reqs[w].tries) = reqs[w].tries + 1 /\ reqs[w].tries + 1 \in Nat
    BY <1>1, Here DEF NextTry
  <2>2. reqs[w] \in Request
    BY <1>1, Here
  <2> QED
    BY <2>1, <2>2 DEF Request
<1>3. reqs' = [reqs EXCEPT ![w] = q]
  BY DEF Try
<1> HIDE DEF q
<1>4. reqs'[w] = q
  BY <1>3 DEF IInv, Requests
<1>5. SharedTypes' /\ Breakers' /\ Grown /\ UNCHANGED <<limiters, now, admitted>>
  BY SameShared DEF Try
<1>6. Sound(reqs[w])'
  BY <1>1, <1>2, <1>4, Here DEF Sound
<1>7. reqs' = [reqs EXCEPT ![w] = reqs'[w]] /\ ~At(w, "bucket") /\ ~At(w, "bucket")'
  BY <1>1, <1>2, <1>3, <1>4 DEF At
<1> QED
  BY <1>5, <1>6, <1>7, OneRequest, OtherRequest DEF IInv

LEMMA RetryInv == ASSUME IInv, NEW w \in Workers, Retry(w) PROVE IInv'
<1>1. /\ reqs[w] # NoReq /\ reqs[w].pc = "wait" /\ Goto(w, "send")
      /\ reqs[w].kind = "safe" /\ reqs[w].tries <= RetryOf[reqs[w].route]
  BY DEF Retry, Proxied, At, MayRetry
<1>2. SharedTypes' /\ Breakers' /\ Grown /\ UNCHANGED <<limiters, now, admitted>>
  BY SameShared DEF Retry
<1>3. Sound(reqs[w])'
  BY <1>1, Here, Going DEF Sound
<1>4. reqs' = [reqs EXCEPT ![w] = reqs'[w]] /\ ~At(w, "bucket") /\ ~At(w, "bucket")'
  BY <1>1, Going DEF At
<1> QED
  BY <1>2, <1>3, <1>4, OneRequest, OtherRequest DEF IInv

LEMMA AnswerInv == ASSUME IInv, NEW w \in Workers, Answer(w) PROVE IInv'
<1>1. /\ Leave(w) /\ UNCHANGED <<limiters, now, admitted>>
      /\ reqs[w] # NoReq /\ reqs[w].pc = "wait"
  BY DEF Answer, At
<1>2. SharedTypes' /\ Breakers' /\ Grown
  BY SameShared DEF Answer
<1>3. Requests' /\ reqs'[w] = NoReq /\ reqs' = [reqs EXCEPT ![w] = reqs'[w]]
  BY <1>1, <1>2, Leaving
<1>4. Buckets'
  BY <1>1, <1>3, OtherRequest DEF At
<1> QED
  BY <1>2, <1>3, <1>4 DEF IInv

(* A request that ends and changes the breaker of one host. *)
LEMMA OneBreaker ==
  ASSUME IInv, NEW w \in Workers, At(w, "wait"), Leave(w), NEW h \in Hosts,
         UNCHANGED <<limiters, limits, now, admitted>>,
         breakers' = [breakers EXCEPT ![h] = breakers'[h]],
         streak' = [streak EXCEPT ![h] = streak'[h]],
         breakers'[h] \in Breaker \cup {NoBreaker},
         streak'[h] \in 0..Threshold,
         Follows(breakers'[h], streak'[h])
  PROVE  IInv'
<1>1. SharedTypes'
  BY DEF IInv, SharedTypes, BreakersType, LimitersType
<1>2. Grown
  <2>1. now \in Nat
    BY Constants DEF IInv, SharedTypes, Instants
  <2> QED
    BY <2>1 DEF Grown, Known
<1>3. Breakers'
  <2>1. \A g \in Hosts : g # h => breakers'[g] = breakers[g] /\ streak'[g] = streak[g]
    BY DEF IInv, SharedTypes, BreakersType
  <2> QED
    BY <2>1 DEF IInv, Breakers
<1>4. Requests' /\ reqs'[w] = NoReq /\ reqs' = [reqs EXCEPT ![w] = reqs'[w]]
  BY <1>2, Leaving
<1>5. Buckets'
  BY <1>4, OtherRequest DEF At
<1> QED
  BY <1>1, <1>3, <1>4, <1>5 DEF IInv

LEMMA SucceedInv == ASSUME IInv, NEW w \in Workers, Succeed(w) PROVE IInv'
<1> DEFINE h == HostOf[reqs[w].url]
<1>1. PICK g \in Hosts : g = h
  BY Here DEF Succeed, Proxied, At
<1>2. /\ At(w, "wait") /\ Leave(w) /\ UNCHANGED <<limiters, limits, now, admitted>>
      /\ breakers' = [breakers EXCEPT ![g] = IF @ = NoBreaker THEN @ ELSE Closed(@)]
      /\ streak' = [streak EXCEPT ![g] = 0]
  BY <1>1 DEF Succeed, RecordSuccess, Proxied
<1>3. /\ breakers \in [Urls \cup Hosts -> Breaker \cup {NoBreaker}]
      /\ streak \in [Hosts -> 0..Threshold] /\ Follows(breakers[g], streak[g])
  BY DEF IInv, SharedTypes, BreakersType, Breakers
<1>4. /\ breakers'[g] = IF breakers[g] = NoBreaker THEN NoBreaker ELSE Closed(breakers[g])
      /\ streak'[g] = 0 /\ 0 \in 0..Threshold
  BY <1>2, <1>3, Constants
<1>5. breakers'[g] \in Breaker \cup {NoBreaker} /\ Follows(breakers'[g], 0)
  <2>1. CASE breakers[g] = NoBreaker
    BY <1>4, <2>1 DEF Follows
  <2>2. CASE breakers[g] \in Breaker
    BY <1>3, <1>4, <2>2, ClosedFollows, TrafficAssumption
  <2> QED
    BY <1>3, <2>1, <2>2
<1>6. breakers' = [breakers EXCEPT ![g] = breakers'[g]] /\ streak' = [streak EXCEPT ![g] = streak'[g]]
  BY <1>2, <1>4
<1> QED
  BY <1>2, <1>4, <1>5, <1>6, OneBreaker

LEMMA FailInv == ASSUME IInv, NEW w \in Workers, NEW e \in BOOLEAN, Fail(w, e) PROVE IInv'
<1> DEFINE h == HostOf[reqs[w].url]
<1>1. PICK g \in Hosts : g = h
  BY Here DEF Fail, Proxied, At
<1> DEFINE c == Failed(IF breakers[g] = NoBreaker THEN FreshBreaker(now) ELSE breakers[g], now)
<1>2. /\ At(w, "wait") /\ Leave(w) /\ UNCHANGED <<limiters, limits, now, admitted>>
      /\ breakers' = [breakers EXCEPT ![g] = c]
      /\ streak' = [streak EXCEPT ![g] = Counted(streak[g])]
  BY <1>1 DEF Fail, RecordFailure, Proxied
<1>3. /\ breakers \in [Urls \cup Hosts -> Breaker \cup {NoBreaker}] /\ now \in Instants
      /\ streak \in [Hosts -> 0..Threshold] /\ Follows(breakers[g], streak[g])
  BY DEF IInv, SharedTypes, BreakersType, Breakers
<1>4. c \in Breaker /\ Follows(c, Counted(streak[g])) /\ Counted(streak[g]) \in 0..Threshold
  BY <1>3, FailedFollows
<1> HIDE DEF c
<1>5. breakers'[g] = c /\ streak'[g] = Counted(streak[g])
  BY <1>2, <1>3
<1>6. breakers' = [breakers EXCEPT ![g] = breakers'[g]] /\ streak' = [streak EXCEPT ![g] = streak'[g]]
  BY <1>2, <1>5
<1> QED
  BY <1>2, <1>4, <1>5, <1>6, OneBreaker

LEMMA SetLimitsInv ==
  ASSUME IInv, NEW r \in Routes, NEW l \in Limits[r], SetLimits(r, l) PROVE IInv'
<1>1. l \in [rate: Nat, burst: Nat]
  BY Constants
<1>2. SharedTypes'
  BY <1>1 DEF IInv, SharedTypes, BreakersType, LimitersType, SetLimits
<1>3. now \in Nat
  BY Constants DEF IInv, SharedTypes, Instants
<1>4. Breakers' /\ Grown
  BY <1>3 DEF IInv, Breakers, Known, SetLimits, Grown
<1>5. Buckets'
  <2>1. ASSUME NEW s \in Routes PROVE Fresh(s)' = Fresh(s)
    BY <1>3, FreshSame DEF SetLimits, Holding, At
  <2> QED
    BY <2>1, SameBuckets DEF SetLimits
<1> QED
  BY <1>2, <1>4, <1>5, SameRequests DEF IInv, SetLimits

LEMMA TickInv == ASSUME IInv, Tick PROVE IInv'
<1>1. now \in Nat /\ now' = now + 1 /\ now' \in Instants
  BY Constants DEF IInv, SharedTypes, Instants, Tick
<1>2. SharedTypes'
  BY <1>1 DEF IInv, SharedTypes, BreakersType, LimitersType, Tick
<1>3. ASSUME NEW s \in Routes, Known(s) PROVE Accounted(limiters[s], admitted[s], Fresh(s), now)'
  <2>1. PICK b \in Limiter : b = limiters[s]
    BY <1>3 DEF IInv, SharedTypes, LimitersType, Known
  <2>2. PICK n \in Nat : n = admitted[s]
    BY DEF IInv, SharedTypes
  <2>3. Accounted(b, n, Fresh(s), now)
    BY <1>3, <2>1, <2>2 DEF IInv, Buckets
  <2>4. b.last \in Nat /\ b.made \in Nat /\ b.made <= b.last /\ b.last <= now
    BY <2>3, Constants DEF Limiter, Instants, Accounted
  <2> DEFINE V == {v \in Workers : ~Holding(v, s)}
             F == Fresh(s)
             G == Fresh(s)'
  <2>5. F \in SUBSET Passed(b.made, now)
    BY <2>1 DEF Fresh
  <2>6. G = F \cup ({now} \X V)
    <3>1. G = {p \in Passed(b.made, now + 1) : Holding(p[2], s) => p[1] < reqs[p[2]].at}
      BY <1>1, <2>1 DEF Fresh, Tick, Holding, At, Passed
    <3>2. F = {p \in Passed(b.made, now) : Holding(p[2], s) => p[1] < reqs[p[2]].at}
      BY <2>1 DEF Fresh
    <3>3. Passed(b.made, now + 1) = Passed(b.made, now) \cup ({now} \X Workers)
      BY <1>1, <2>4 DEF Passed
    <3>4. ASSUME NEW v \in Workers PROVE (Holding(v, s) => now < reqs[v].at) <=> v \in V
      <4>1. Holding(v, s) => reqs[v].at <= now /\ reqs[v].at \in Nat
        BY Here, Constants DEF Holding, At, Sound, Request, Instants
      <4> QED
        BY <1>1, <4>1
    <3>5. ASSUME NEW p \in {now} \X Workers
          PROVE  (Holding(p[2], s) => p[1] < reqs[p[2]].at) <=> p \in {now} \X V
      <4>1. p[1] = now /\ p[2] \in Workers /\ p = <<p[1], p[2]>>
        OBVIOUS
      <4>2. p \in {now} \X V <=> p[2] \in V
        BY <4>1
      <4> QED
        BY <3>4, <4>1, <4>2
    <3>6. {now} \X V \subseteq {now} \X Workers
      OBVIOUS
    <3> HIDE DEF F, G, V
    <3> QED
      BY <3>1, <3>2, <3>3, <3>5, <3>6
  <2> HIDE DEF F, G, V
  <2>7. V \in SUBSET Workers
    BY DEF V
  <2>8. G \in SUBSET Passed(b.made, now + 1) /\ Credit(F, b.last, now) <= Credit(G, b.last, now + 1)
    BY <1>1, <2>4, <2>5, <2>6, <2>7, CreditTicks, ZenonT(30)
  <2>9. Credit(F, b.last, now) \in Int
    <3>1. b.made <= now
      BY <1>1, <2>4
    <3> QED
      BY <1>1, <2>4, <2>5, <3>1, CountingFinite, ZenonT(30)
  <2>10. Credit(G, b.last, now + 1) \in Int
    <3>1. b.made <= now + 1 /\ b.last <= now + 1 /\ now + 1 \in Nat
      BY <1>1, <2>4
    <3> QED
      BY <2>4, <2>8, <3>1, CountingFinite, ZenonT(30)
  <2>11. now <= now + 1 /\ now + 1 \in Nat
    BY <1>1
  <2>12. Accounted(b, n, G, now + 1)
    BY <1>1, <2>3, <2>8, <2>9, <2>10, <2>11, AccountedMore DEF F
  <2> QED
    BY <1>1, <2>1, <2>2, <2>12 DEF Tick, G
<1>4. Buckets'
  BY <1>3 DEF IInv, Buckets, Known, Tick
<1>5. Breakers' /\ Grown
  BY <1>1 DEF IInv, Breakers, Known, Tick, Grown
<1> QED
  BY <1>2, <1>4, <1>5, SameRequests DEF IInv, Tick

LEMMA NextInv == ASSUME IInv, [Next]_vars PROVE IInv'
<1>1. CASE UNCHANGED vars
  <2>1. SharedTypes' /\ Breakers' /\ Grown
    BY <1>1, SameShared DEF vars
  <2>2. ASSUME NEW r \in Routes PROVE Fresh(r)' = Fresh(r)
    BY <1>1 DEF vars, Fresh, Passed, Holding, At
  <2>3. Buckets'
    BY <1>1, <2>2, SameBuckets DEF vars
  <2> QED
    BY <1>1, <2>1, <2>3, SameRequests DEF IInv, vars
<1>2. CASE \E w \in Workers, r \in Routes, k \in Kinds, l \in BOOLEAN : Arrive(w, r, k, l)
  BY <1>2, ArriveInv
<1>3. ASSUME NEW w \in Workers, Limiting(w) PROVE IInv'
  BY <1>3, LookupInv, CreateInv, ReadClockInv, AdmitInv, TooManyInv DEF Limiting
<1>4. ASSUME NEW w \in Workers, Selecting(w) PROVE IInv'
  BY <1>4, PickOnlyInv, PickInv DEF Selecting
<1>5. ASSUME NEW w \in Workers, Sending(w) PROVE IInv'
  BY <1>5, TryInv, SucceedInv, AnswerInv, RetryInv, FailInv DEF Sending
<1>6. CASE \E r \in Routes : \E l \in Limits[r] : SetLimits(r, l)
  BY <1>6, SetLimitsInv
<1>7. CASE Tick
  BY <1>7, TickInv
<1> QED
  BY <1>1, <1>2, <1>3, <1>4, <1>5, <1>6, <1>7 DEF Next, Serve

-----------------------------------------------------------------------------
(* The theorems. *)

LEMMA Invariant == Spec => []IInv
  BY InitInv, NextInv, PTL DEF Spec

(* Limiters, breakers and requests keep their types; no request is tried more
   often than its route's retries allow (proxy.go:272). *)
THEOREM TypeCorrect == Spec => []TypeOK
<1>1. IInv => TypeOK
  BY DEF IInv, SharedTypes, Requests, Sound, TypeOK
<1> QED
  BY <1>1, Invariant, PTL

(* A request that is not safe to repeat reaches a backend once (proxy.go:279). *)
THEOREM UnsafeSentOnce == Spec => []SentOnce
<1>1. IInv => SentOnce
  BY DEF IInv, Requests, Sound, SentOnce
<1> QED
  BY <1>1, Invariant, PTL

(* Whatever requests come at once, however limits change and however late a
   request uses the time it read, a route lets through no more than its bucket's
   burst and, for each request that may be under way, its refill since it was
   made (ratelimit.go:42, 54). *)
THEOREM LimiterRespected == Spec => []BurstRespected
<1>1. IInv => BurstRespected
  <2> SUFFICES ASSUME IInv, NEW r \in Routes, admitted[r] > 0
               PROVE  /\ Known(r)
                      /\ admitted[r] <= limiters[r].burst
                           + limiters[r].rate * (Cardinality(Workers) * (now - limiters[r].made))
    BY DEF BurstRespected
  <2>1. Known(r) /\ Accounted(limiters[r], admitted[r], Fresh(r), now)
    BY DEF IInv, Buckets
  <2>2. PICK b \in Limiter : b = limiters[r]
    BY <2>1 DEF IInv, SharedTypes, LimitersType, Known
  <2>3. /\ b.made \in Nat /\ b.last \in Nat /\ b.rate \in Nat /\ b.burst \in Nat /\ b.tokens \in Nat
        /\ now \in Nat /\ admitted[r] \in Nat
    BY Constants DEF Limiter, Instants, IInv, SharedTypes
  <2>4. /\ b.made <= b.last /\ b.last <= now
        /\ admitted[r] + b.tokens <= b.burst + b.rate * Credit(Fresh(r), b.last, now)
    BY <2>1, <2>2 DEF Accounted
  <2>5. Fresh(r) \in SUBSET Passed(b.made, now) /\ b.made <= now
    BY <2>2, <2>3, <2>4 DEF Fresh
  <2> DEFINE x == Credit(Fresh(r), b.last, now)
             y == Cardinality(Workers) * (now - b.made)
  <2>6. /\ Cardinality(Fresh(r)) \in Nat
        /\ Cardinality(Fresh(r)) <= Cardinality(Workers) * (now - b.made)
        /\ Cardinality(Behind(Fresh(r), b.last, now)) \in Nat
    BY <2>3, <2>4, <2>5, CountingFinite, ZenonT(30)
  <2>7. x \in Int /\ y \in Int /\ x <= y
    <3>1. Cardinality(Workers) \in Nat
      BY TrafficAssumption, FS_CardinalityType
    <3> QED
      BY <2>3, <2>6, <3>1 DEF Credit
  <2> HIDE DEF x, y
  <2>8. b.rate * x <= b.rate * y /\ b.rate * x \in Int /\ b.rate * y \in Int
    BY <2>3, <2>7, Multiplied
  <2>9. admitted[r] <= b.burst + b.rate * y
    BY <2>3, <2>4, <2>8 DEF x
  <2> QED
    BY <2>1, <2>2, <2>9 DEF y
<1> QED
  BY <1>1, Invariant, PTL

(* The breaker of a host is not closed exactly when Threshold requests failed
   since the last success (proxy.go:107, 142). *)
THEOREM BreakersFollow == Spec => []BreakerTripped
<1>1. IInv => BreakerTripped
  BY Constants DEF IInv, Breakers, Follows, BreakerTripped, NotClosed
<1> QED
  BY <1>1, Invariant, PTL
=============================================================================
