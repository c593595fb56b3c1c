------------------------------ MODULE MCTraffic -------------------------------
(* Small instances of Traffic. *)
EXTENDS Traffic, TLC

CONSTANTS w1, w2, single, pooled, u1, u2, u3, h1, h2

MCWorkers == {w1, w2}
MCRoutes  == {single, pooled}
MCPool    == single :> <<[url |-> u1, weight |-> 1]>>
          @@ pooled :> <<[url |-> u2, weight |-> 1], [url |-> u3, weight |-> 1]>>
MCHostOf  == u1 :> h1 @@ u2 :> h1 @@ u3 :> h2
MCRetryOf == [r \in MCRoutes |-> 1]
MCLimits  == single :> {Unlimited}
          @@ pooled :> {Unlimited, [rate |-> 2, burst |-> 2]}

MCOneWorker == {w1}
MCOneRoute  == {pooled}
MCOnePool   == pooled :> <<[url |-> u2, weight |-> 1], [url |-> u3, weight |-> 1]>>
MCOneHostOf == u2 :> h1 @@ u3 :> h2
MCOneRetry  == pooled :> 1
MCOneLimit  == pooled :> {Unlimited}
=============================================================================
