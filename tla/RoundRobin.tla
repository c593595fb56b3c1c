------------------------------ MODULE RoundRobin -----------------------------
(* The small instance of Traffic with the backends each route has sent its
   requests to. *)
EXTENDS MCTraffic

VARIABLE turn   \* history: per route, the urls chosen in the current cycle of its weights

Choosing(w, r) == At(w, "pick") /\ At(w, "send")' /\ reqs[w].route = r

Turns ==
  turn' = [r \in Routes |->
    IF \E w \in Workers : Choosing(w, r)
      THEN LET u == reqs'[CHOOSE w \in Workers : Choosing(w, r)].url
           IN  Append(IF Len(turn[r]) = Cycle(r) THEN <<>> ELSE turn[r], u)
      ELSE turn[r]]

TurnSpec == /\ Init /\ turn = [r \in Routes |-> <<>>]
            /\ [][Next /\ Turns]_<<vars, turn>>

(* As long as no breaker is open, a full cycle of a route's weights has chosen
   each of its backends as often as its weight (proxy.go:32). *)
WeightedRoundRobin ==
  \A r \in Routes : Len(turn[r]) = Cycle(r) /\ (\A h \in Hosts : ~Tripped(h)) =>
    \A i \in Indices(r) :
      Len(SelectSeq(turn[r], LAMBDA u : u = Pool[r][i].url)) >= Pool[r][i].weight
=============================================================================
