--------------------------- MODULE CircuitBreaker ----------------------------
(***************************************************************************)
(* The circuit breakers of internal/proxy/proxy.go: one per string it is    *)
(* asked about, all under one mutex, so that each operation is one step.     *)
(***************************************************************************)
EXTENDS Naturals

CONSTANTS
  Keys,        \* strings breakers are looked up by
  Threshold,   \* circuitFailureThreshold: 5
  Window,      \* circuitRecoveryWindow: 30 s
  Times,       \* instants
  NoBreaker

VARIABLE breakers

(* A failure count is compared with Threshold only, so it is not followed
   beyond it. *)
Breaker == [failures: 0..Threshold, lastFailure: Times, state: {"closed", "open", "halfOpen"}]

BreakersInit == breakers = [k \in Keys |-> NoBreaker]
BreakersType == breakers \in [Keys -> Breaker \cup {NoBreaker}]

Counted(n) == IF n < Threshold THEN n + 1 ELSE n

FreshBreaker(t) == [failures |-> 0, lastFailure |-> t, state |-> "closed"]

Failed(b, t) ==
  [failures    |-> Counted(b.failures),
   lastFailure |-> t,
   state       |-> IF Counted(b.failures) = Threshold THEN "open" ELSE b.state]

RecordFailure(k, t) ==
  breakers' = [breakers EXCEPT ![k] = Failed(IF @ = NoBreaker THEN FreshBreaker(t) ELSE @, t)]

(* A breaker after a success, and a faulty variant that closes it without
   starting the count again. *)
ClosedUncounted(b) == [b EXCEPT !.state = "closed"]
Closed(b) == [failures |-> 0, lastFailure |-> b.lastFailure, state |-> "closed"]

RecordSuccess(k) ==
  breakers' = [breakers EXCEPT ![k] = IF @ = NoBreaker THEN @ ELSE Closed(@)]

(* isOpen answers no once the window has passed, and remembers that. *)
NotClosed(k) == breakers[k] # NoBreaker /\ breakers[k].state # "closed"
Tripped(k) == breakers[k] # NoBreaker /\ breakers[k].state = "open"
Recovering(k, t) == Tripped(k) /\ t - breakers[k].lastFailure > Window
IsOpen(k, t) == Tripped(k) /\ ~Recovering(k, t)

AskOpen(k, t) ==
  breakers' = IF Recovering(k, t) THEN [breakers EXCEPT ![k].state = "halfOpen"] ELSE breakers
=============================================================================
