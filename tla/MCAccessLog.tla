----------------------------- MODULE MCAccessLog ------------------------------
(* Small instances of AccessLog: either many requests race with flushes, purges,
   the stop and a restart on one day, or time passes and the retention changes
   around the purges of few. *)
EXTENDS AccessLog, TLC

CONSTANTS q1, q2, q3

MCRequests == {q1, q2, q3}
MCFilters  == {{q1}}

VARIABLE shape

MCInit == Init /\ shape \in {"race", "age"} /\ (shape = "race" => retention = 1)

Raced == shape = "race" /\ UNCHANGED <<now, retention>>
Aged  == shape = "age" /\ UNCHANGED <<flush, phase, restarts>> /\ start'[q3] = 0

MCNext == Next /\ UNCHANGED shape /\ (Raced \/ Aged)

MCSpec == MCInit /\ [][MCNext]_<<vars, shape>> /\ Fairness
=============================================================================
