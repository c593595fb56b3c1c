--------------------------- MODULE MCControlPlane ----------------------------
(* Small instances of ControlPlane. *)
EXTENDS ControlPlane, FiniteSets, TLC

(* A second route only while nothing has failed, restarted or been stamped. *)
Bounded ==
  \/ Cardinality(born) <= 1
  \/ /\ epoch = 0 /\ disk = Persisted(mem)
     /\ \A u \in Stampers : work[u] = None

MCThreads == Admins \cup Reloaders

(* Route ids and the contents of routes are interchangeable. *)
Symmetric == Permutations(RouteIds) \cup Permutations(RouteVals)
=============================================================================
