-------------------------- MODULE MCHostsActivation ---------------------------
(* Small instances of HostsActivation. *)
EXTENDS HostsActivation, FiniteSets, TLC

(* Two requests at once, and more than two rows, only while no time has   *)
(* passed.                                                                *)
Bounded ==
  now > 0 =>
    /\ Cardinality({w \in Workers : jobs[w].pc # "idle"}) <= 1
    /\ Cardinality(born) <= 2

Symmetric == Permutations(Profiles) \cup Permutations(Workers)
=============================================================================
