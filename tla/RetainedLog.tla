----------------------------- MODULE RetainedLog -----------------------------
(***************************************************************************)
(* What the access log promises its readers (docs/access-logs.md): the most  *)
(* recent Capacity entries in the order they were recorded, less those       *)
(* erased; an erasure is effective in memory and on disk at once and is not  *)
(* undone by a save begun before it or by a restart; a restart returns to    *)
(* what was saved last.                                                      *)
(***************************************************************************)
EXTENDS Naturals, Sequences

CONSTANTS Entries, Capacity

VARIABLES
  log,     \* what a query sees
  saved,   \* what a restart would find
  copies   \* at most one copy of log on its way to saved

LastN(s) == IF Len(s) <= Capacity THEN s ELSE SubSeq(s, Len(s) - Capacity + 1, Len(s))

(* t is what remains of s without gone: f finds the place in s of each entry
   of t, keeps their order and leaves out no other entry that remains. *)
Without(s, gone, t) ==
  LET remain == {k \in 1..Len(s) : s[k] \notin gone}
  IN  \E n \in 0..Len(s) : \E f \in [1..n -> remain] :
        /\ \A i, j \in 1..n : i < j => f[i] < f[j]
        /\ \A k \in remain : \E i \in 1..n : f[i] = k
        /\ t = [i \in 1..n |-> s[f[i]]]

Add(e) ==
  /\ log' = LastN(Append(log, e))
  /\ UNCHANGED <<saved, copies>>

Copy ==
  /\ copies = {}
  /\ copies' = {log}
  /\ UNCHANGED <<log, saved>>

Save ==
  /\ saved' \in copies
  /\ copies' = {}
  /\ UNCHANGED log

SaveFails ==
  /\ copies' = {}
  /\ UNCHANGED <<log, saved>>

Erase(gone) ==
  /\ copies = {}
  /\ Without(log, gone, log')
  /\ saved' = log'
  /\ UNCHANGED copies

Recover ==
  /\ log' = saved
  /\ copies' = {}
  /\ UNCHANGED saved

Init == log = <<>> /\ saved = <<>> /\ copies = {}

Next ==
  \/ \E e \in Entries : Add(e)
  \/ Copy \/ Save \/ SaveFails
  \/ \E gone \in SUBSET Entries : Erase(gone)
  \/ Recover

Spec == Init /\ [][Next]_<<log, saved, copies>>
=============================================================================
