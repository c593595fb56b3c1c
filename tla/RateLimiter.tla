----------------------------- MODULE RateLimiter -----------------------------
(***************************************************************************)
(* internal/middleware/ratelimit.go: one token bucket per route, made when   *)
(* the route's first limited request comes and kept.  The bucket itself is   *)
(* golang.org/x/time/rate, on a clock of whole seconds.                      *)
(***************************************************************************)
EXTENDS Naturals

CONSTANTS Routes, Instants, NoLimiter

VARIABLE limiters

Limiter ==
  [rate: Nat \ {0}, burst: Nat \ {0}, tokens: Nat, last: Instants,
   made: Instants]    \* history: when the bucket was made

LimitersInit == limiters = [r \in Routes |-> NoLimiter]
LimitersType == limiters \in [Routes -> Limiter \cup {NoLimiter}]

(* Check: without a rate or without a burst there is no limit. *)
Limited(l) == l.rate > 0 /\ l.burst > 0

NewLimiter(l, t) ==
  [rate |-> l.rate, burst |-> l.burst, tokens |-> l.burst, last |-> t, made |-> t]

(* getLimiter's lookup under the read lock *)
Known(r) == limiters[r] # NoLimiter

(* its second lookup, under the write lock, and a faulty variant without it *)
AnyRoute(r) == TRUE
StillUnknown(r) == ~Known(r)

MakeLimiter(r, l, t) ==
  limiters' = [limiters EXCEPT ![r] = IF StillUnknown(r) THEN NewLimiter(l, t) ELSE @]

(* AllowN(t, 1): the tokens there are at t, and one fewer.  A t before the last
   one fills nothing up and becomes the last one all the same. *)
Elapsed(b, t) == IF t < b.last THEN 0 ELSE t - b.last
Tokens(b, t) ==
  LET filled == b.tokens + b.rate * Elapsed(b, t)
  IN  IF filled < b.burst THEN filled ELSE b.burst

Allows(r, t) == Tokens(limiters[r], t) > 0

Take(r, t) ==
  limiters' = [limiters EXCEPT ![r].tokens = Tokens(limiters[r], t) - 1, ![r].last = t]
=============================================================================
