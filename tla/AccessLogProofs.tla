--------------------------- MODULE AccessLogProofs ---------------------------
(***************************************************************************)
(* Proofs about AccessLog, for every set of requests, every capacity and any *)
(* number of purging goroutines: types; reported deletions are final; a      *)
(* purge keeps to what its preview saw; a stop saves what was recorded; and  *)
(* ring, file and snapshots implement RetainedLog.                           *)
(***************************************************************************)
EXTENDS AccessLog, FiniteSetTheorems, TLAPS

(* diskMu and mu: a purge past its rename is alone, no flush is under way, and
   the file holds what the ring is about to hold. *)
LockInv ==
  \A p \in Purgers : jobs[p].pc = "persisted" =>
    /\ flush = {}
    /\ disk = jobs[p].keep
    /\ jobs[p].doomed \subseteq ended
    /\ jobs[p].doomed \cap Elems(jobs[p].keep) = {}
    /\ \A q \in Purgers : jobs[q].pc = "persisted" => q = p

(* Only requests that ended are anywhere, and none that is gone. *)
Clear(S) == S \subseteq ended /\ S \cap gone = {}

GoneInv ==
  /\ gone \subseteq ended
  /\ Clear(Live)
  /\ Clear(Elems(disk))
  /\ \A s \in flush : Clear(Elems(s))

-----------------------------------------------------------------------------
(* Sequences and the ring. *)

LEMMA LogsLen ==
  ASSUME NEW log \in Logs
  PROVE  /\ Len(log) \in 0..Capacity
         /\ DOMAIN log = 1..Len(log)
         /\ \A i \in 1..Len(log) : log[i] \in Requests
<1>1. PICK n \in 0..Capacity : log \in [1..n -> Requests]
  BY DEF Logs
<1>2. n \in Nat
  BY <1>1, AccessLogAssumption
<1>3. log \in Seq(Requests) /\ Len(log) = n
  BY <1>1, <1>2
<1> QED
  BY <1>1, <1>3

LEMMA ModSlot ==
  ASSUME NEW n \in 0..Capacity
  PROVE  n % Capacity \in Slots /\ (n < Capacity => n % Capacity = n)
<1>1. n \in Nat /\ Capacity \in Nat /\ Capacity > 0
  BY AccessLogAssumption
<1>2. n % Capacity \in 0..(Capacity - 1)
  BY <1>1
<1>3. n < Capacity => n % Capacity = n
  BY <1>1
<1> QED
  BY <1>2, <1>3 DEF Slots

LEMMA EmptyLog == <<>> \in Logs /\ Elems(<<>>) = {}
<1>1. <<>> \in [1..0 -> Requests]
  OBVIOUS
<1> QED
  BY <1>1, AccessLogAssumption DEF Logs, Elems

(* Whatever the ring's rotation, collectEntries returns live entries only. *)
LEMMA CollectLive ==
  ASSUME TypeOK
  PROVE  CollectEntries \in Logs /\ Elems(CollectEntries) \subseteq Live
<1>1. count \in 0..Capacity /\ Capacity \in Nat \ {0} /\ writeIndex \in Slots
  BY AccessLogAssumption DEF TypeOK
<1> DEFINE at(i) == IF count < Capacity THEN i - 1 ELSE (writeIndex + i - 1) % Capacity
<1>2. ASSUME NEW i \in 1..count PROVE at(i) \in 0..(count - 1)
  <2>1. CASE count < Capacity
    BY <1>1, <2>1
  <2>2. CASE ~(count < Capacity)
    <3>1. count = Capacity /\ writeIndex + i - 1 \in Nat
      BY <1>1, <2>2 DEF Slots
    <3>2. (writeIndex + i - 1) % Capacity \in 0..(Capacity - 1)
      BY <1>1, <3>1
    <3> QED
      BY <2>2, <3>1, <3>2
  <2> QED
    BY <2>1, <2>2
<1>3. \A i \in 1..count : entries[at(i)] \in Requests
  BY <1>1, <1>2 DEF TypeOK, Slots
<1>4. CollectEntries = [i \in 1..count |-> entries[at(i)]]
  BY DEF CollectEntries
<1> HIDE DEF at
<1>5. CollectEntries \in [1..count -> Requests]
  BY <1>3, <1>4
<1> QED
  BY <1>1, <1>2, <1>4, <1>5 DEF Logs, Elems, Live

(* Indices at most one round past the ring wrap once. *)
LEMMA ModWrap ==
  ASSUME NEW n \in 0..(2 * Capacity - 1)
  PROVE  n % Capacity = IF n < Capacity THEN n ELSE n - Capacity
<1>1. n \in Nat /\ Capacity \in Nat /\ Capacity > 0
  BY AccessLogAssumption
<1>2. CASE n < Capacity
  BY <1>1, <1>2
<1>3. CASE ~(n < Capacity)
  <2>1. n = (n - Capacity) + 1 * Capacity /\ n - Capacity \in 0..(Capacity - 1)
    BY <1>1, <1>3
  <2> QED
    BY <1>1, <1>3, <2>1
<1> QED
  BY <1>2, <1>3

(* The slot of the i-th entry of collectEntries. *)
SlotOf(i) ==
  IF count < Capacity THEN i - 1
  ELSE IF writeIndex + i - 1 < Capacity THEN writeIndex + i - 1
  ELSE writeIndex + i - 1 - Capacity

LEMMA CollectSlots ==
  ASSUME TypeOK
  PROVE  CollectEntries = [i \in 1..count |-> entries[SlotOf(i)]]
<1>1. count \in 0..Capacity /\ Capacity \in Nat \ {0} /\ writeIndex \in 0..(Capacity - 1)
  BY AccessLogAssumption DEF TypeOK, Slots
<1>2. ASSUME NEW i \in 1..count
      PROVE  SlotOf(i) = IF count < Capacity THEN i - 1 ELSE (writeIndex + i - 1) % Capacity
  <2>1. writeIndex + i - 1 \in 0..(2 * Capacity - 1)
    BY <1>1
  <2>2. \A n \in 0..(2 * Capacity - 1) :
          n % Capacity = IF n < Capacity THEN n ELSE n - Capacity
    BY ModWrap
  <2>3. (writeIndex + i - 1) % Capacity = IF writeIndex + i - 1 < Capacity
                                            THEN writeIndex + i - 1
                                            ELSE writeIndex + i - 1 - Capacity
    BY <1>1, <2>1, <2>2
  <2> QED
    BY <2>3 DEF SlotOf
<1> QED
  BY <1>2 DEF CollectEntries

(* collectEntries misses no live entry. *)
LEMMA CollectAll ==
  ASSUME TypeOK
  PROVE  Live \subseteq Elems(CollectEntries)
<1>1. count \in 0..Capacity /\ Capacity \in Nat \ {0} /\ writeIndex \in 0..(Capacity - 1)
  BY AccessLogAssumption DEF TypeOK, Slots
<1>2. ASSUME NEW j \in 0..(count - 1) PROVE \E i \in 1..count : SlotOf(i) = j
  <2>1. CASE count < Capacity
    <3>1. j + 1 \in 1..count /\ SlotOf(j + 1) = j
      BY <1>1, <2>1 DEF SlotOf
    <3> QED
      BY <3>1
  <2>2. CASE ~(count < Capacity) /\ writeIndex <= j
    <3>1. j - writeIndex + 1 \in 1..count /\ SlotOf(j - writeIndex + 1) = j
      BY <1>1, <2>2 DEF SlotOf
    <3> QED
      BY <3>1
  <2>3. CASE ~(count < Capacity) /\ ~(writeIndex <= j)
    <3>1. j + Capacity - writeIndex + 1 \in 1..count /\ SlotOf(j + Capacity - writeIndex + 1) = j
      BY <1>1, <2>3 DEF SlotOf
    <3> QED
      BY <3>1
  <2> QED
    BY <2>1, <2>2, <2>3
<1> QED
  BY <1>2, CollectSlots DEF Live, Elems

(* A purge keeps only entries it does not doom. *)
LEMMA SurvivorsKept ==
  ASSUME NEW log \in Logs, NEW doomed, NEW keep \in Survivors(log, doomed)
  PROVE  keep \in Logs /\ Elems(keep) \subseteq Elems(log) \ doomed
<1> DEFINE kept == {i \in DOMAIN log : log[i] \notin doomed}
           n == Cardinality(kept)
<1>1. PICK f \in [1..n -> kept] : keep = [i \in DOMAIN f |-> log[f[i]]]
  BY DEF Survivors
<1>2. Len(log) \in 0..Capacity /\ kept \subseteq 1..Len(log) /\ Capacity \in Nat
  BY LogsLen, AccessLogAssumption
<1>3. n \in 0..Capacity
  <2>1. IsFiniteSet(1..Len(log)) /\ Cardinality(1..Len(log)) = Len(log)
    <3>1. 1 \in Int /\ Len(log) \in Int
      BY <1>2
    <3>2. /\ IsFiniteSet(1..Len(log))
          /\ Cardinality(1..Len(log)) = IF 1 > Len(log) THEN 0 ELSE Len(log) - 1 + 1
      BY <3>1, FS_Interval
    <3> QED
      BY <1>2, <3>2
  <2>2. n <= Len(log) /\ n \in Nat
    BY <1>2, <2>1, FS_Subset, FS_CardinalityType
  <2> QED
    BY <1>2, <2>2
<1>4. \A i \in 1..n : keep[i] = log[f[i]] /\ f[i] \in kept
  BY <1>1
<1>5. keep \in [1..n -> Requests]
  <2>1. \A i \in 1..n : log[f[i]] \in Requests
    BY <1>2, <1>4, LogsLen
  <2> QED
    BY <1>1, <2>1
<1> QED
  BY <1>1, <1>3, <1>4, <1>5 DEF Logs, Elems

(* Rebuilding the ring from a log of at most Capacity entries. *)
LEMMA SetRingLive ==
  ASSUME NEW log \in Logs, SetRing(log)
  PROVE  /\ entries' \in [Slots -> Requests \cup {NoEntry}]
         /\ writeIndex' \in Slots
         /\ count' \in 0..Capacity
         /\ count' < Capacity => writeIndex' = count'
         /\ \A j \in Slots : j < count' => entries'[j] \in Requests
         /\ Live' = Elems(log)
<1>1. /\ Len(log) \in 0..Capacity /\ Capacity \in Nat \ {0}
      /\ DOMAIN log = 1..Len(log)
      /\ \A i \in 1..Len(log) : log[i] \in Requests
  BY SMTT(30), LogsLen, AccessLogAssumption
<1>2. Len(log) % Capacity \in Slots /\ (Len(log) < Capacity => Len(log) % Capacity = Len(log))
  BY <1>1, ModSlot
<1>3. \A j \in Slots : entries'[j] = IF j < Len(log) THEN log[j + 1] ELSE NoEntry
  BY DEF SetRing, Filled
<1>4. \A j \in Slots : j < Len(log) => entries'[j] \in Requests
  BY <1>1, <1>3 DEF Slots
<1>5. entries' \in [Slots -> Requests \cup {NoEntry}]
  BY <1>1 DEF SetRing, Filled, Slots
<1>6. Live' = Elems(log)
  <2>1. \A i \in 1..Len(log) : i - 1 \in 0..(Len(log) - 1) /\ entries'[i - 1] = log[i]
    BY <1>1, <1>3 DEF Slots
  <2>2. \A j \in 0..(Len(log) - 1) : j + 1 \in 1..Len(log) /\ entries'[j] = log[j + 1]
    BY <1>1, <1>3 DEF Slots
  <2> QED
    BY SMTT(30), <1>1, <2>1, <2>2 DEF SetRing, Live, Elems
<1> QED
  BY <1>1, <1>2, <1>4, <1>5, <1>6 DEF SetRing

-----------------------------------------------------------------------------
(* Types. *)

LEMMA NoJobType == NoJob \in Job
  BY EmptyLog, AccessLogAssumption DEF NoJob, Job, ZeroTime

LEMMA CutoffTypes ==
  ASSUME TypeOK
  PROVE  /\ Threshold \in 0..MaxTime
         /\ \A cutoff \in 0..MaxTime : Clamp(cutoff) \in 0..MaxTime
<1>1. now \in 1..MaxTime /\ retention \in Nat /\ MaxTime \in Nat
  BY AccessLogAssumption DEF TypeOK
<1>2. Threshold \in 0..MaxTime
  BY <1>1 DEF Threshold, ZeroTime
<1> QED
  BY <1>2 DEF Clamp

(* The part of TypeOK that is about the ring. *)
RingOK ==
  /\ entries \in [Slots -> Requests \cup {NoEntry}]
  /\ writeIndex \in Slots
  /\ count \in 0..Capacity
  /\ count < Capacity => writeIndex = count
  /\ \A j \in Slots : j < count => entries[j] \in Requests

(* The part of TypeOK that is about the other variables. *)
RestOK ==
  /\ disk \in Logs
  /\ flush \in SUBSET Logs
  /\ jobs \in [Purgers -> Job]
  /\ now \in 1..MaxTime
  /\ start \in [Requests -> 0..MaxTime]
  /\ ended \subseteq Requests
  /\ retention \in Retentions
  /\ lastRun \in 0..MaxTime
  /\ phase \in Phases
  /\ restarts \in 0..MaxRestarts
  /\ gone \subseteq Requests
  /\ late \subseteq Requests

LEMMA TypeParts == TypeOK <=> RingOK /\ RestOK
  BY DEF TypeOK, RingOK, RestOK

LEMMA InitTypeOK == Init => TypeOK
<1> SUFFICES ASSUME Init PROVE TypeOK
  OBVIOUS
<1>1. RingOK
  BY AccessLogAssumption DEF Init, Filled, RingOK, Slots
<1>2. RestOK
  BY AccessLogAssumption, EmptyLog, NoJobType DEF Init, RestOK, Phases
<1> QED
  BY <1>1, <1>2, TypeParts

(* Record moves on by one slot. *)
LEMMA RecordRing ==
  ASSUME RingOK, NEW r \in Requests, Record(r)
  PROVE  RingOK' /\ Live' \subseteq Live \cup {r}
<1>1. Capacity \in Nat \ {0} /\ writeIndex \in 0..(Capacity - 1) /\ count \in 0..Capacity
  BY AccessLogAssumption DEF RingOK, Slots
<1>2. (writeIndex + 1) % Capacity \in Slots
      /\ (writeIndex + 1 < Capacity => (writeIndex + 1) % Capacity = writeIndex + 1)
  BY <1>1, ModSlot
<1>3. \A j \in Slots : entries'[j] = IF j = writeIndex THEN r ELSE entries[j]
  BY DEF Record, RingOK
<1>4. /\ writeIndex' = (writeIndex + 1) % Capacity
      /\ count' = IF count < Capacity THEN count + 1 ELSE count
      /\ entries' \in [Slots -> Requests \cup {NoEntry}]
  BY DEF Record, RingOK
<1>5. count < Capacity => writeIndex = count
  BY DEF RingOK
<1>6. \A j \in Slots : j < count' => entries'[j] \in Requests
  BY <1>1, <1>3, <1>4, <1>5 DEF RingOK, Slots
<1>7. count' < Capacity => writeIndex' = count'
  BY <1>1, <1>2, <1>4, <1>5
<1>8. Live' \subseteq Live \cup {r}
  <2>1. \A j \in 0..(count' - 1) : j \in Slots /\ (j < count \/ j = writeIndex)
    BY <1>1, <1>4, <1>5 DEF Slots
  <2>2. \A j \in 0..(count' - 1) : entries'[j] = r \/ (j \in 0..(count - 1) /\ entries'[j] = entries[j])
    BY <1>1, <1>3, <1>4, <2>1
  <2> QED
    BY <2>2 DEF Live
<1> QED
  BY <1>1, <1>2, <1>4, <1>6, <1>7, <1>8 DEF RingOK

LEMMA StepTypeOK == TypeOK /\ [Next]_vars => TypeOK'
<1> SUFFICES ASSUME TypeOK, [Next]_vars PROVE TypeOK'
  OBVIOUS
<1> USE AccessLogAssumption
<1>0. RingOK /\ RestOK
  BY TypeParts
<1>c. CollectEntries \in Logs /\ Elems(CollectEntries) \subseteq Requests
  BY CollectLive, LogsLen DEF Elems
<1>p. ASSUME RingOK', RestOK' PROVE TypeOK'
  BY <1>p DEF TypeOK, RingOK, RestOK
<1>r. ASSUME UNCHANGED ring PROVE RingOK'
  BY <1>0, <1>r DEF ring, RingOK
<1>1. ASSUME NEW r \in Requests, StartRequest(r) PROVE TypeOK'
  <2>1. RestOK'
    BY <1>0, <1>1 DEF StartRequest, RestOK
  <2> QED
    BY <1>1, <1>p, <1>r, <2>1 DEF StartRequest
<1>2. ASSUME NEW r \in Requests, Record(r) PROVE TypeOK'
  <2>1. RestOK'
    BY <1>0, <1>2 DEF Record, RestOK, clocks
  <2> QED
    BY <1>0, <1>2, <1>p, <2>1, RecordRing
<1>3. ASSUME FlushSnapshot PROVE TypeOK'
  <2>1. RestOK'
    BY <1>0, <1>3, <1>c DEF FlushSnapshot, RestOK, clocks
  <2> QED
    BY <1>3, <1>p, <1>r, <2>1 DEF FlushSnapshot
<1>4. ASSUME NEW saved, FlushWrite(saved) PROVE TypeOK'
  <2>1. disk' \in Logs /\ phase' \in Phases
    BY <1>0, <1>4 DEF FlushWrite, RestOK, Phases
  <2>2. RestOK'
    BY <1>0, <1>4, <2>1 DEF FlushWrite, RestOK, clocks
  <2> QED
    BY <1>4, <1>p, <1>r, <2>2 DEF FlushWrite
<1>5. ASSUME StopFlusher \/ WorkersDone PROVE TypeOK'
  <2>1. RestOK'
    BY <1>0, <1>5 DEF StopFlusher, WorkersDone, RestOK, Phases, clocks
  <2> QED
    BY <1>5, <1>p, <1>r, <2>1 DEF StopFlusher, WorkersDone
<1>6. ASSUME NEW a \in Admins, NEW expired \in BOOLEAN, NEW scope \in SUBSET Requests,
             Preview(a, expired, scope)
      PROVE TypeOK'
  <2> DEFINE cutoff == IF ~expired THEN now ELSE IF retention > 0 THEN Threshold ELSE ZeroTime
             job == [NoJob EXCEPT !.pc = "previewed", !.expired = expired,
                                  !.scope = scope, !.cutoff = cutoff]
             spared == {r \in Elems(CollectEntries) : ~Matches(job, r)}
  <2>1. cutoff \in 0..MaxTime
    BY <1>0, CutoffTypes DEF RestOK, ZeroTime
  <2>2. spared \in SUBSET Requests
    BY <1>c
  <2> HIDE DEF cutoff, spared
  <2>3. [job EXCEPT !.spared = spared] \in Job
    BY <2>1, <2>2, NoJobType DEF Job
  <2>4. jobs' = [jobs EXCEPT ![a] = [job EXCEPT !.spared = spared]]
    BY <1>6 DEF Preview, cutoff, spared
  <2>5. RestOK'
    BY <1>0, <1>6, <2>3, <2>4 DEF Preview, RestOK, clocks
  <2> QED
    BY <1>6, <1>p, <1>r, <2>5 DEF Preview
<1>7. ASSUME NEW a \in Admins, Execute(a) PROVE TypeOK'
  <2>1. jobs[a] \in Job /\ Clamp(jobs[a].cutoff) \in 0..MaxTime
    BY <1>0, CutoffTypes DEF RestOK, Purgers, Job
  <2> DEFINE cutoff == IF jobs[a].expired THEN Clamp(jobs[a].cutoff) ELSE jobs[a].cutoff
             job == [jobs[a] EXCEPT !.pc = "waiting", !.cutoff = cutoff]
  <2>4. cutoff \in 0..MaxTime
    BY <2>1 DEF Job
  <2>5. jobs' = [jobs EXCEPT ![a] = IF jobs[a].expired /\ retention = 0 THEN NoJob ELSE job]
    BY <1>0, <1>7 DEF Execute, RestOK, Purgers
  <2> HIDE DEF cutoff
  <2>6. job \in Job
    BY <2>1, <2>4 DEF Job
  <2>2. jobs' \in [Purgers -> Job]
    BY <1>0, <2>5, <2>6, NoJobType DEF RestOK
  <2>3. RestOK'
    BY <1>0, <1>7, <2>2 DEF Execute, RestOK, clocks
  <2> QED
    BY <1>7, <1>p, <1>r, <2>3 DEF Execute
<1>8. ASSUME Cleanup PROVE TypeOK'
  <2>1. [NoJob EXCEPT !.pc = "waiting", !.expired = TRUE,
                      !.scope = Requests, !.cutoff = Threshold] \in Job
    BY NoJobType, CutoffTypes DEF Job
  <2>2. jobs' \in [Purgers -> Job]
    BY <1>0, <1>8, <2>1 DEF Cleanup, RestOK
  <2>3. RestOK'
    BY <1>0, <1>8, <2>2 DEF Cleanup, RestOK, clocks
  <2> QED
    BY <1>8, <1>p, <1>r, <2>3 DEF Cleanup
<1>9. ASSUME NEW p \in Purgers, NEW saved, PurgePersist(p, saved) PROVE TypeOK'
  <2> DEFINE doomed == {r \in Elems(CollectEntries) : Matches(jobs[p], r)}
  <2>1. PICK keep \in Survivors(CollectEntries, doomed) :
          IF saved
            THEN /\ disk' = keep
                 /\ jobs' = [jobs EXCEPT ![p] =
                      [@ EXCEPT !.pc = "persisted", !.doomed = doomed, !.keep = keep]]
            ELSE /\ disk' = disk
                 /\ jobs' = [jobs EXCEPT ![p] = NoJob]
    BY <1>9 DEF PurgePersist
  <2>2. keep \in Logs /\ doomed \in SUBSET Requests /\ jobs[p] \in Job
    BY <1>0, <1>c, SurvivorsKept DEF RestOK
  <2> HIDE DEF doomed
  <2>3. disk' \in Logs
    BY <1>0, <2>1, <2>2 DEF RestOK
  <2>4. [jobs[p] EXCEPT !.pc = "persisted", !.doomed = doomed, !.keep = keep] \in Job
    BY <2>2 DEF Job
  <2>5. jobs' \in [Purgers -> Job]
    BY <1>0, <2>1, <2>4, NoJobType DEF RestOK
  <2>6. RestOK'
    BY <1>0, <1>9, <2>3, <2>5 DEF PurgePersist, RestOK, clocks
  <2> QED
    BY <1>9, <1>p, <1>r, <2>6 DEF PurgePersist
<1>10. ASSUME NEW p \in Purgers, PurgeApply(p) PROVE TypeOK'
  <2>1. jobs[p].keep \in Logs /\ jobs[p].doomed \subseteq Requests
    BY <1>0 DEF RestOK, Job
  <2>2. RingOK'
    BY <1>10, <2>1, SetRingLive DEF PurgeApply, RingOK
  <2>3. RestOK'
    BY <1>0, <1>10, <2>1, NoJobType DEF PurgeApply, RestOK, clocks
  <2> QED
    BY <1>p, <2>2, <2>3
<1>11. ASSUME Tick PROVE TypeOK'
  <2>1. RestOK'
    BY <1>0, <1>11 DEF Tick, RestOK
  <2> QED
    BY <1>11, <1>p, <1>r, <2>1 DEF Tick
<1>12. ASSUME NEW d \in Retentions, SetRetention(d) PROVE TypeOK'
  <2>1. RestOK'
    BY <1>0, <1>12 DEF SetRetention, RestOK
  <2> QED
    BY <1>12, <1>p, <1>r, <2>1 DEF SetRetention
<1>13. ASSUME Restart PROVE TypeOK'
  <2>1. RingOK'
    BY <1>0, <1>13, SetRingLive DEF Restart, RestOK, RingOK
  <2>2. RestOK'
    BY <1>0, <1>13, NoJobType DEF Restart, RestOK, Phases, clocks
  <2> QED
    BY <1>p, <2>1, <2>2
<1>14. CASE UNCHANGED vars
  <2>1. UNCHANGED ring /\ RestOK'
    BY <1>0, <1>14 DEF vars, ring, RestOK
  <2> QED
    BY <1>p, <1>r, <2>1
<1>15. ASSUME NEW p \in Purgers, Purge(p) PROVE TypeOK'
  BY <1>9, <1>10, <1>15 DEF Purge
<1>16. ASSUME Write PROVE TypeOK'
  BY <1>4, <1>16 DEF Write
<1>17. \A scope \in Filters \cup {Requests} : scope \in SUBSET Requests
  OBVIOUS
<1> QED
  BY <1>1, <1>2, <1>3, <1>5, <1>6, <1>7, <1>8, <1>11, <1>12, <1>13, <1>14, <1>15, <1>16, <1>17
  DEF Next

(* Type correctness: the ring stays a ring whatever is recorded, purged and
   loaded. *)
THEOREM TypeCorrect == Spec => []TypeOK
  BY InitTypeOK, StepTypeOK, PTL DEF Spec

-----------------------------------------------------------------------------
(* Deletions are final. *)

LEMMA StepGone ==
  TypeOK /\ LockInv /\ GoneInv /\ [Next]_vars => LockInv' /\ GoneInv'
<1> SUFFICES ASSUME TypeOK, LockInv, GoneInv, [Next]_vars
             PROVE  LockInv' /\ GoneInv'
  OBVIOUS
<1> DEFINE Goal == LockInv' /\ GoneInv'
<1>0. /\ jobs \in [Purgers -> Job] /\ disk \in Logs
      /\ ended \subseteq Requests
      /\ CollectEntries \in Logs
      /\ Elems(CollectEntries) \subseteq Live
  BY CollectLive DEF TypeOK
<1>f. ASSUME UNCHANGED <<ring, disk, flush, ended, gone>>,
             \A p \in Purgers : jobs'[p].pc = "persisted" => jobs'[p] = jobs[p]
      PROVE  Goal
  <2>1. Live' = Live
    BY <1>f DEF Live, ring
  <2> QED
    BY <1>f, <2>1 DEF LockInv, GoneInv, Clear, Elems
<1>m. MuFree => \A p \in Purgers : jobs[p].pc # "persisted"
  BY DEF MuFree
<1>1. ASSUME NEW r \in Requests, StartRequest(r) PROVE Goal
  BY <1>1, <1>f DEF StartRequest
<1>2. ASSUME NEW r \in Requests, Record(r) PROVE Goal
  <2>1. /\ r \notin ended /\ MuFree
        /\ ended' = ended \cup {r}
        /\ UNCHANGED <<disk, flush, jobs, gone>>
    BY <1>2 DEF Record
  <2>2. Live' \subseteq Live \cup {r}
    BY <1>2, TypeParts, RecordRing
  <2>3. LockInv'
    BY <1>m, <2>1 DEF LockInv
  <2>4. r \notin gone
    BY <2>1 DEF GoneInv
  <2> QED
    BY <2>1, <2>2, <2>3, <2>4 DEF GoneInv, Clear, Elems
<1>3. ASSUME FlushSnapshot PROVE Goal
  <2>1. /\ MuFree /\ flush' = {CollectEntries}
        /\ UNCHANGED <<ring, disk, jobs, ended, gone>>
    BY <1>3 DEF FlushSnapshot, DiskMuFree
  <2>2. LockInv'
    BY <1>m, <2>1 DEF LockInv
  <2>3. Live' = Live
    BY <2>1 DEF Live, ring
  <2>4. Clear(Elems(CollectEntries))
    BY <1>0 DEF GoneInv, Clear
  <2> QED
    BY <2>1, <2>2, <2>3, <2>4 DEF GoneInv, Clear, Elems
<1>4. ASSUME NEW saved, FlushWrite(saved) PROVE Goal
  <2>1. /\ flush # {} /\ flush' = {}
        /\ disk' \in flush \/ disk' = disk
        /\ UNCHANGED <<ring, jobs, ended, gone>>
    BY <1>4 DEF FlushWrite
  <2>2. \A p \in Purgers : jobs[p].pc # "persisted"
    BY <2>1 DEF LockInv
  <2>3. LockInv'
    BY <2>1, <2>2 DEF LockInv
  <2>4. Live' = Live
    BY <2>1 DEF Live, ring
  <2>5. Clear(Elems(disk'))
    BY <2>1 DEF GoneInv
  <2> QED
    BY <2>1, <2>3, <2>4, <2>5 DEF GoneInv, Clear, Elems
<1>5. ASSUME StopFlusher \/ WorkersDone PROVE Goal
  BY <1>5, <1>f DEF StopFlusher, WorkersDone
<1>6. ASSUME NEW a \in Admins, NEW expired, NEW scope, Preview(a, expired, scope)
      PROVE Goal
  <2>1. \A p \in Purgers : jobs'[p] = jobs[p] \/ jobs'[p].pc = "previewed"
    BY <1>0, <1>6 DEF Preview, NoJob
  <2> QED
    BY <1>6, <1>f, <2>1 DEF Preview
<1>7. ASSUME NEW a \in Admins, Execute(a) PROVE Goal
  <2>1. jobs[a] \in Job
    BY <1>0 DEF Purgers
  <2>2. \A p \in Purgers : jobs'[p] = jobs[p] \/ jobs'[p].pc \in {"idle", "waiting"}
    BY <1>0, <1>7, <2>1 DEF Execute, NoJob, Job
  <2> QED
    BY <1>7, <1>f, <2>2 DEF Execute
<1>8. ASSUME Cleanup PROVE Goal
  <2>1. \A p \in Purgers : jobs'[p] = jobs[p] \/ jobs'[p].pc = "waiting"
    BY <1>0, <1>8 DEF Cleanup, NoJob
  <2> QED
    BY <1>8, <1>f, <2>1 DEF Cleanup
<1>9. ASSUME NEW p \in Purgers, NEW saved, PurgePersist(p, saved) PROVE Goal
  <2> DEFINE doomed == {r \in Elems(CollectEntries) : Matches(jobs[p], r)}
  <2>1. PICK keep \in Survivors(CollectEntries, doomed) :
          IF saved
            THEN /\ disk' = keep
                 /\ jobs' = [jobs EXCEPT ![p] =
                      [@ EXCEPT !.pc = "persisted", !.doomed = doomed, !.keep = keep]]
            ELSE /\ disk' = disk
                 /\ jobs' = [jobs EXCEPT ![p] = NoJob]
    BY <1>9 DEF PurgePersist
  <2>2. /\ MuFree /\ flush = {}
        /\ UNCHANGED <<ring, flush, ended, gone>>
    BY <1>9 DEF PurgePersist, DiskMuFree
  <2>3. /\ Elems(keep) \subseteq Live \ doomed
        /\ doomed \subseteq Live
    BY <1>0, SurvivorsKept
  <2> HIDE DEF doomed
  <2>4. CASE saved
    <3>1. /\ jobs'[p].pc = "persisted" /\ jobs'[p].doomed = doomed /\ jobs'[p].keep = keep
          /\ \A q \in Purgers \ {p} : jobs'[q] = jobs[q]
      <4>1. jobs[p] \in Job
        BY <1>0
      <4>2. jobs' = [jobs EXCEPT ![p] =
              [jobs[p] EXCEPT !.pc = "persisted", !.doomed = doomed, !.keep = keep]]
        BY <1>0, <2>1, <2>4
      <4>3. \A q \in Purgers \ {p} : jobs'[q] = jobs[q]
        BY <1>0, <4>2
      <4>4. jobs'[p] = [jobs[p] EXCEPT !.pc = "persisted", !.doomed = doomed, !.keep = keep]
        BY <1>0, <4>2
      <4> QED
        BY <4>1, <4>3, <4>4 DEF Job
    <3>2. Live' = Live /\ disk' = keep
      BY <2>1, <2>2, <2>4 DEF Live, ring
    <3>3. LockInv'
      BY <1>m, <2>2, <2>3, <3>1, <3>2 DEF LockInv, GoneInv, Clear
    <3>4. Clear(Elems(keep))
      BY <2>3 DEF GoneInv, Clear
    <3> QED
      BY <2>2, <3>2, <3>3, <3>4 DEF GoneInv, Clear, Elems
  <2>5. CASE ~saved
    <3>1. \A q \in Purgers : jobs'[q] = jobs[q] \/ jobs'[q].pc = "idle"
      BY <1>0, <2>1, <2>5 DEF NoJob
    <3> QED
      BY <1>f, <2>1, <2>2, <2>5, <3>1
  <2> QED
    BY <2>4, <2>5
<1>10. ASSUME NEW p \in Purgers, PurgeApply(p) PROVE Goal
  <2>1. /\ jobs[p].pc = "persisted"
        /\ gone' = gone \cup jobs[p].doomed
        /\ SetRing(jobs[p].keep)
        /\ jobs' = [jobs EXCEPT ![p] = NoJob]
        /\ UNCHANGED <<disk, flush, ended>>
    BY <1>10 DEF PurgeApply
  <2>2. /\ flush = {} /\ disk = jobs[p].keep
        /\ jobs[p].doomed \subseteq ended
        /\ jobs[p].doomed \cap Elems(jobs[p].keep) = {}
        /\ \A q \in Purgers : jobs[q].pc = "persisted" => q = p
    BY <2>1 DEF LockInv
  <2>3. \A q \in Purgers : jobs'[q].pc # "persisted"
    BY <1>0, <2>1, <2>2 DEF NoJob
  <2>4. Live' = Elems(disk)
    BY <1>0, <2>1, <2>2, SetRingLive
  <2> QED
    BY <2>1, <2>2, <2>3, <2>4 DEF LockInv, GoneInv, Clear, Elems
<1>11. ASSUME Tick PROVE Goal
  BY <1>11, <1>f DEF Tick
<1>12. ASSUME NEW d, SetRetention(d) PROVE Goal
  BY <1>12, <1>f DEF SetRetention
<1>13. ASSUME Restart PROVE Goal
  <2>1. Live' = Elems(disk)
    BY <1>0, <1>13, SetRingLive DEF Restart
  <2>2. \A p \in Purgers : jobs'[p].pc = "idle"
    BY <1>13 DEF Restart, NoJob
  <2>3. disk' = disk /\ flush' = {} /\ gone' = gone
    BY <1>13 DEF Restart
  <2>4. ended \subseteq ended'
    BY <1>13 DEF Restart
  <2> QED
    BY <2>1, <2>2, <2>3, <2>4 DEF LockInv, GoneInv, Clear, Elems
<1>14. CASE UNCHANGED vars
  BY <1>14, <1>f DEF vars, ring
<1>15. ASSUME NEW p \in Purgers, Purge(p) PROVE Goal
  BY <1>9, <1>10, <1>15 DEF Purge
<1>16. ASSUME Write PROVE Goal
  BY <1>4, <1>16 DEF Write
<1> QED
  BY <1>1, <1>2, <1>3, <1>5, <1>6, <1>7, <1>8, <1>11, <1>12, <1>13, <1>14, <1>15, <1>16 DEF Next

(* What a query sees are live entries, or what the file already holds. *)
LEMMA ViewClear ==
  TypeOK /\ LockInv /\ GoneInv => PurgedStayGone
<1> SUFFICES ASSUME TypeOK, LockInv, GoneInv PROVE PurgedStayGone
  OBVIOUS
<1>1. Clear(Elems(LogView))
  <2>1. CASE MuFree
    BY <2>1, CollectLive DEF LogView, GoneInv, Clear
  <2>2. CASE ~MuFree
    <3> DEFINE p == CHOOSE p \in Purgers : jobs[p].pc = "persisted"
    <3>1. p \in Purgers /\ jobs[p].pc = "persisted"
      BY <2>2 DEF MuFree
    <3>2. LogView = jobs[p].keep
      BY <2>2 DEF LogView
    <3> HIDE DEF p
    <3>3. LogView = disk
      BY <3>1, <3>2 DEF LockInv
    <3> QED
      BY <3>3 DEF GoneInv
  <2> QED
    BY <2>1, <2>2
<1> QED
  BY <1>1 DEF PurgedStayGone, GoneInv, Clear

LEMMA InitGone == Init => LockInv /\ GoneInv
<1> SUFFICES ASSUME Init PROVE LockInv /\ GoneInv
  OBVIOUS
<1>1. \A p \in Purgers : jobs[p].pc # "persisted"
  BY DEF Init, NoJob
<1>2. Live = {} /\ Elems(disk) = {}
  BY DEF Init, Live, Elems
<1> QED
  BY <1>1, <1>2 DEF Init, LockInv, GoneInv, Clear

(* A reported deletion is final: with diskMu held over a flush's snapshot and
   write, no older snapshot, crash or reload brings an entry back. *)
THEOREM PurgesAreFinal == Spec => []PurgedStayGone
<1>1. TypeOK /\ LockInv /\ GoneInv /\ [Next]_vars => LockInv' /\ GoneInv'
  BY StepGone
<1> QED
  BY <1>1, ViewClear, InitGone, TypeCorrect, PTL DEF Spec

-----------------------------------------------------------------------------
(* Previews bound their purges. *)

(* What a preview did not count has ended, so it keeps its timestamp, and no
   cutoff the job has from then on reaches it. *)
PreviewInv ==
  \A p \in Purgers : \A r \in jobs[p].spared :
    /\ r \in ended
    /\ ~Matches(jobs[p], r)
    /\ r \notin jobs[p].doomed

LEMMA ClampLower ==
  ASSUME TypeOK, NEW cutoff \in 0..MaxTime
  PROVE  Clamp(cutoff) \in 0..MaxTime /\ Clamp(cutoff) <= cutoff
<1>1. Threshold \in 0..MaxTime /\ MaxTime \in Nat
  BY CutoffTypes, AccessLogAssumption
<1> QED
  BY <1>1 DEF Clamp

LEMMA StepPreview ==
  TypeOK /\ GoneInv /\ PreviewInv /\ [Next]_vars => PreviewInv'
<1> SUFFICES ASSUME TypeOK, GoneInv, PreviewInv, [Next]_vars PROVE PreviewInv'
  OBVIOUS
<1>0. /\ jobs \in [Purgers -> Job] /\ start \in [Requests -> 0..MaxTime]
      /\ Elems(CollectEntries) \subseteq Live
      /\ Elems(CollectEntries) \subseteq Requests
      /\ ended \subseteq Requests /\ MaxTime \in Nat
  BY CollectLive, LogsLen, AccessLogAssumption DEF TypeOK, Elems
<1>n. NoJob.spared = {}
  BY DEF NoJob
(* A step that keeps the timestamps of what ended and empties, or keeps, jobs. *)
<1>f. ASSUME ended \subseteq ended', \A r \in ended : start'[r] = start[r],
             \A p \in Purgers : jobs'[p] = jobs[p] \/ jobs'[p].spared = {}
      PROVE  PreviewInv'
  <2> SUFFICES ASSUME NEW p \in Purgers, NEW r \in jobs'[p].spared
               PROVE  /\ r \in ended'
                      /\ ~Matches(jobs[p], r)'
                      /\ r \notin jobs'[p].doomed
    BY DEF PreviewInv
  <2>1. jobs'[p] = jobs[p]
    BY <1>f
  <2>2. r \in ended /\ ~Matches(jobs[p], r) /\ r \notin jobs[p].doomed
    BY <2>1 DEF PreviewInv
  <2>3. start'[r] = start[r]
    BY <1>f, <2>2
  <2> QED
    BY <1>f, <2>1, <2>2, <2>3 DEF Matches
<1>k. ASSUME UNCHANGED <<jobs, start, ended>> PROVE PreviewInv'
  BY <1>f, <1>k
<1>1. ASSUME NEW r \in Requests, StartRequest(r) PROVE PreviewInv'
  <2>1. \A q \in ended : start'[q] = start[q]
    BY <1>0, <1>1 DEF StartRequest
  <2> QED
    BY <1>1, <1>f, <2>1 DEF StartRequest
<1>2. ASSUME NEW r \in Requests, Record(r) PROVE PreviewInv'
  <2>1. ended \subseteq ended' /\ UNCHANGED <<start, jobs>>
    BY <1>2 DEF Record, clocks
  <2> QED
    BY <1>f, <2>1
<1>3. ASSUME FlushSnapshot \/ StopFlusher \/ WorkersDone PROVE PreviewInv'
  BY <1>3, <1>k DEF FlushSnapshot, StopFlusher, WorkersDone, clocks
<1>4. ASSUME NEW saved, FlushWrite(saved) PROVE PreviewInv'
  BY <1>4, <1>k DEF FlushWrite, clocks
<1>6. ASSUME NEW a \in Admins, NEW expired, NEW scope, Preview(a, expired, scope)
      PROVE PreviewInv'
  <2> DEFINE cutoff == IF ~expired THEN now ELSE IF retention > 0 THEN Threshold ELSE ZeroTime
             job == [NoJob EXCEPT !.pc = "previewed", !.expired = expired,
                                  !.scope = scope, !.cutoff = cutoff]
             spared == {r \in Elems(CollectEntries) : ~Matches(job, r)}
  <2>1. /\ jobs' = [jobs EXCEPT ![a] = [job EXCEPT !.spared = spared]]
        /\ UNCHANGED <<start, ended>>
    BY <1>6 DEF Preview, clocks
  <2>2. \A r \in spared : r \in ended /\ ~Matches(job, r)
    BY <1>0 DEF GoneInv, Clear
  <2>3. job.doomed = {}
    BY DEF NoJob
  <2> DEFINE new == [job EXCEPT !.spared = spared]
  <2>4. /\ new.spared = spared /\ new.doomed = {}
        /\ new.cutoff = job.cutoff /\ new.expired = job.expired /\ new.scope = job.scope
    BY DEF NoJob
  <2>5. jobs'[a] = new /\ \A p \in Purgers \ {a} : jobs'[p] = jobs[p]
    BY <1>0, <2>1 DEF Purgers
  <2> HIDE DEF cutoff, job, spared, new
  <2> QED
    BY <2>1, <2>2, <2>4, <2>5 DEF PreviewInv, Matches
<1>7. ASSUME NEW a \in Admins, Execute(a) PROVE PreviewInv'
  <2> DEFINE cutoff == IF jobs[a].expired THEN Clamp(jobs[a].cutoff) ELSE jobs[a].cutoff
             job == [jobs[a] EXCEPT !.pc = "waiting", !.cutoff = cutoff]
  <2>1. jobs[a] \in Job /\ a \in Purgers
    BY <1>0 DEF Purgers
  <2>2. cutoff \in 0..MaxTime /\ cutoff <= jobs[a].cutoff
    BY <1>0, <2>1, ClampLower DEF Job
  <2>3. jobs' = [jobs EXCEPT ![a] = IF jobs[a].expired /\ retention = 0 THEN NoJob ELSE job]
        /\ UNCHANGED <<start, ended>>
    BY <1>7 DEF Execute, clocks
  <2> HIDE DEF cutoff
  <2>4. /\ job.spared = jobs[a].spared /\ job.doomed = jobs[a].doomed /\ job.cutoff = cutoff
        /\ job.expired = jobs[a].expired /\ job.scope = jobs[a].scope
    BY <2>1 DEF Job
  <2> HIDE DEF job
  <2>5. CASE jobs[a].expired /\ retention = 0
    <3>1. \A p \in Purgers : jobs'[p] = jobs[p] \/ jobs'[p].spared = {}
      BY <1>0, <1>n, <2>1, <2>3, <2>5
    <3> QED
      BY <1>f, <2>3, <3>1
  <2>6. CASE ~(jobs[a].expired /\ retention = 0)
    <3>1. jobs'[a] = job /\ \A p \in Purgers \ {a} : jobs'[p] = jobs[p]
      BY <1>0, <2>1, <2>3, <2>6
    <3>2. ASSUME NEW r \in jobs[a].spared PROVE r \in ended /\ r \notin job.doomed /\ ~Matches(job, r)
      <4>1. r \in ended /\ r \notin jobs[a].doomed /\ ~Matches(jobs[a], r)
        BY <2>1 DEF PreviewInv
      <4>2. start[r] \in 0..MaxTime /\ jobs[a].cutoff \in 0..MaxTime
        BY <1>0, <2>1, <4>1 DEF Job
      <4> QED
        BY <1>0, <2>2, <2>4, <4>1, <4>2 DEF Matches
    <3> QED
      BY <2>3, <2>4, <3>1, <3>2 DEF PreviewInv, Matches
  <2> QED
    BY <2>5, <2>6
<1>8. ASSUME Cleanup PROVE PreviewInv'
  <2>1. \A p \in Purgers : jobs'[p] = jobs[p] \/ jobs'[p].spared = {}
    BY <1>0, <1>8 DEF Cleanup, NoJob
  <2> QED
    BY <1>8, <1>f, <2>1 DEF Cleanup, clocks
<1>9. ASSUME NEW p \in Purgers, NEW saved, PurgePersist(p, saved) PROVE PreviewInv'
  <2> DEFINE doomed == {r \in Elems(CollectEntries) : Matches(jobs[p], r)}
  <2>1. PICK keep \in Survivors(CollectEntries, doomed) :
          IF saved
            THEN /\ disk' = keep
                 /\ jobs' = [jobs EXCEPT ![p] =
                      [@ EXCEPT !.pc = "persisted", !.doomed = doomed, !.keep = keep]]
            ELSE /\ disk' = disk
                 /\ jobs' = [jobs EXCEPT ![p] = NoJob]
    BY <1>9 DEF PurgePersist
  <2>2. UNCHANGED <<start, ended>>
    BY <1>9 DEF PurgePersist, clocks
  <2>3. \A r \in jobs[p].spared : r \notin doomed
    BY DEF PreviewInv
  <2> HIDE DEF doomed
  <2>4. CASE saved
    <3> DEFINE job == [jobs[p] EXCEPT !.pc = "persisted", !.doomed = doomed, !.keep = keep]
    <3>1. jobs'[p] = job /\ \A q \in Purgers \ {p} : jobs'[q] = jobs[q]
      BY <1>0, <2>1, <2>4
    <3>2. /\ job.spared = jobs[p].spared /\ job.doomed = doomed /\ job.cutoff = jobs[p].cutoff
          /\ job.expired = jobs[p].expired /\ job.scope = jobs[p].scope
      BY <1>0 DEF Job
    <3> HIDE DEF job
    <3> QED
      BY <2>2, <2>3, <3>1, <3>2 DEF PreviewInv, Matches
  <2>5. CASE ~saved
    <3>1. \A q \in Purgers : jobs'[q] = jobs[q] \/ jobs'[q].spared = {}
      BY <1>0, <1>n, <2>1, <2>5
    <3> QED
      BY <1>f, <2>2, <3>1
  <2> QED
    BY <2>4, <2>5
<1>10. ASSUME NEW p \in Purgers, PurgeApply(p) PROVE PreviewInv'
  <2>1. \A q \in Purgers : jobs'[q] = jobs[q] \/ jobs'[q].spared = {}
    BY <1>0, <1>n, <1>10 DEF PurgeApply
  <2> QED
    BY <1>10, <1>f, <2>1 DEF PurgeApply, clocks
<1>11. ASSUME Tick PROVE PreviewInv'
  BY <1>11, <1>k DEF Tick
<1>12. ASSUME NEW d, SetRetention(d) PROVE PreviewInv'
  BY <1>12, <1>k DEF SetRetention
<1>13. ASSUME Restart PROVE PreviewInv'
  <2>1. \A q \in Purgers : jobs'[q].spared = {}
    BY <1>13, <1>n DEF Restart
  <2>2. ended \subseteq ended' /\ start' = start
    BY <1>13 DEF Restart, clocks
  <2> QED
    BY <1>f, <2>1, <2>2
<1>14. CASE UNCHANGED vars
  BY <1>14, <1>k DEF vars
<1>15. ASSUME NEW p \in Purgers, Purge(p) PROVE PreviewInv'
  BY <1>9, <1>10, <1>15 DEF Purge
<1>16. ASSUME Write PROVE PreviewInv'
  BY <1>4, <1>16 DEF Write
<1> QED
  BY <1>1, <1>2, <1>3, <1>6, <1>7, <1>8, <1>11, <1>12, <1>13, <1>14, <1>15, <1>16 DEF Next

(* A purge removes nothing that its preview saw and did not count, wherever
   clock and retention went in between: the executed cutoff is never past the
   previewed one, and a logged entry keeps its timestamp. *)
THEOREM PurgesKeepToPreview == Spec => []PreviewNotExceeded
<1>1. Init => PreviewInv
  BY DEF Init, NoJob, PreviewInv
<1>2. TypeOK /\ GoneInv /\ PreviewInv /\ [Next]_vars => PreviewInv'
  BY StepPreview
<1>3. TypeOK /\ LockInv /\ GoneInv /\ [Next]_vars => LockInv' /\ GoneInv'
  BY StepGone
<1>4. PreviewInv => PreviewNotExceeded
  BY DEF PreviewInv, PreviewNotExceeded
<1> QED
  BY <1>1, <1>2, <1>3, <1>4, InitGone, TypeCorrect, PTL DEF Spec

-----------------------------------------------------------------------------
(* A stop that succeeded saved the ring. *)

(* From its snapshot on the final flush holds, and then the file holds, what
   was logged before; no flush is left that could write an older copy. *)
SavedInv ==
  /\ phase = "flushing" => \A s \in flush : Live \ late \subseteq Elems(s)
  /\ phase = "down" => flush = {}
  /\ StoppedIsSaved

LEMMA StepSaved ==
  TypeOK /\ LockInv /\ SavedInv /\ [Next]_vars => SavedInv'
<1> SUFFICES ASSUME TypeOK, LockInv, SavedInv, [Next]_vars PROVE SavedInv'
  OBVIOUS
<1>0. /\ jobs \in [Purgers -> Job] /\ disk \in Logs
      /\ Live \subseteq Elems(CollectEntries)
  BY CollectAll DEF TypeOK
<1>m. MuFree <=> \A p \in Purgers : jobs[p].pc # "persisted"
  BY DEF MuFree
(* A step that only changes jobs, and opens mu for nobody. *)
<1>f. ASSUME UNCHANGED <<ring, disk, flush, phase, late>>, MuFree' => MuFree
      PROVE  SavedInv'
  <2>1. Live' = Live
    BY <1>f DEF Live, ring
  <2> QED
    BY <1>f, <2>1 DEF SavedInv, StoppedIsSaved, Elems
<1>k. ASSUME UNCHANGED <<ring, disk, flush, phase, late, jobs>> PROVE SavedInv'
  BY <1>f, <1>k DEF MuFree
<1>1. ASSUME NEW r \in Requests, StartRequest(r) PROVE SavedInv'
  BY <1>1, <1>k DEF StartRequest
<1>2. ASSUME NEW r \in Requests, Record(r) PROVE SavedInv'
  <2>1. /\ MuFree
        /\ late' = IF Exiting \/ (phase = "flushing" /\ flush # {}) THEN late \cup {r} ELSE late
        /\ UNCHANGED <<disk, flush, jobs, phase>>
    BY <1>2 DEF Record
  <2>2. Live' \subseteq Live \cup {r}
    BY <1>2, TypeParts, RecordRing
  <2>3. phase = "flushing" => \A s \in flush : Live' \ late' \subseteq Elems(s)
    BY <2>1, <2>2 DEF SavedInv
  <2>4. phase = "down" => Live' \ late' \subseteq Elems(disk)
    BY <2>1, <2>2 DEF SavedInv, StoppedIsSaved, Exiting
  <2> QED
    BY <2>1, <2>3, <2>4 DEF SavedInv, StoppedIsSaved, Elems
<1>3. ASSUME FlushSnapshot PROVE SavedInv'
  <2>1. /\ phase # "down" /\ flush' = {CollectEntries}
        /\ UNCHANGED <<ring, disk, jobs, phase, late>>
    BY <1>3 DEF FlushSnapshot
  <2>2. Live' = Live
    BY <2>1 DEF Live, ring
  <2> QED
    BY <1>0, <2>1, <2>2 DEF SavedInv, StoppedIsSaved, Elems
<1>4. ASSUME NEW saved, FlushWrite(saved) PROVE SavedInv'
  <2>1. /\ flush # {} /\ flush' = {}
        /\ disk' \in IF saved THEN flush ELSE {disk}
        /\ phase' = IF phase # "flushing" THEN phase ELSE IF saved THEN "down" ELSE "failed"
        /\ UNCHANGED <<ring, jobs, late>>
    BY <1>4 DEF FlushWrite
  <2>2. Live' = Live
    BY <2>1 DEF Live, ring
  <2>3. phase # "down"
    BY <2>1 DEF SavedInv
  <2>4. phase' = "down" => Live \ late \subseteq Elems(disk')
    BY <2>1, <2>3 DEF SavedInv
  <2>5. phase' # "flushing"
    BY <2>1
  <2> QED
    BY <2>1, <2>2, <2>4, <2>5 DEF SavedInv, StoppedIsSaved, Elems
<1>5. ASSUME StopFlusher \/ WorkersDone PROVE SavedInv'
  <2>1. /\ phase' # "down" /\ (phase' = "flushing" => flush' = {})
    BY <1>5 DEF StopFlusher, WorkersDone
  <2> QED
    BY <2>1 DEF SavedInv, StoppedIsSaved
<1>6. ASSUME NEW a \in Admins, NEW expired, NEW scope, Preview(a, expired, scope)
      PROVE SavedInv'
  <2>1. MuFree /\ UNCHANGED <<ring, disk, flush, phase, late>>
    BY <1>6 DEF Preview
  <2> QED
    BY <1>f, <2>1
<1>7. ASSUME NEW a \in Admins, Execute(a) PROVE SavedInv'
  <2>1. jobs[a].pc = "previewed" /\ \A p \in Purgers \ {a} : jobs'[p] = jobs[p]
    BY <1>0, <1>7 DEF Execute, Purgers
  <2>2. \A p \in Purgers : jobs[p].pc = "persisted" => jobs'[p].pc = "persisted"
    BY <2>1
  <2>3. MuFree' => MuFree
    BY <2>2 DEF MuFree
  <2> QED
    BY <1>7, <1>f, <2>3 DEF Execute
<1>8. ASSUME Cleanup PROVE SavedInv'
  <2>1. jobs[Cleaner].pc = "idle" /\ \A p \in Purgers \ {Cleaner} : jobs'[p] = jobs[p]
    BY <1>0, <1>8 DEF Cleanup
  <2>2. \A p \in Purgers : jobs[p].pc = "persisted" => jobs'[p].pc = "persisted"
    BY <2>1
  <2>3. MuFree' => MuFree
    BY <2>2 DEF MuFree
  <2> QED
    BY <1>8, <1>f, <2>3 DEF Cleanup
<1>9. ASSUME NEW p \in Purgers, NEW saved, PurgePersist(p, saved) PROVE SavedInv'
  <2>1. /\ MuFree /\ flush = {}
        /\ UNCHANGED <<ring, flush, phase, late>>
    BY <1>9 DEF PurgePersist, DiskMuFree
  <2>2. CASE saved
    <3>1. jobs'[p].pc = "persisted"
      <4>1. jobs[p] \in Job
        BY <1>0
      <4>2. PICK doomed, keep : jobs' = [jobs EXCEPT ![p] =
              [jobs[p] EXCEPT !.pc = "persisted", !.doomed = doomed, !.keep = keep]]
        BY <1>9, <2>2 DEF PurgePersist
      <4>3. jobs'[p] = [jobs[p] EXCEPT !.pc = "persisted", !.doomed = doomed, !.keep = keep]
        BY <1>0, <4>2
      <4> QED
        BY <4>1, <4>3 DEF Job
    <3>2. ~MuFree'
      BY <3>1 DEF MuFree
    <3> QED
      BY <2>1, <3>2 DEF SavedInv, StoppedIsSaved
  <2>3. CASE ~saved
    <3>1. disk' = disk
      BY <1>9, <2>3 DEF PurgePersist
    <3> QED
      BY <1>f, <2>1, <3>1
  <2> QED
    BY <2>2, <2>3
<1>10. ASSUME NEW p \in Purgers, PurgeApply(p) PROVE SavedInv'
  <2>1. /\ jobs[p].pc = "persisted" /\ SetRing(jobs[p].keep)
        /\ UNCHANGED <<disk, flush, phase, late>>
    BY <1>10 DEF PurgeApply
  <2>2. flush = {} /\ disk = jobs[p].keep
    BY <2>1 DEF LockInv
  <2>3. Live' = Elems(disk)
    BY <1>0, <2>1, <2>2, SetRingLive
  <2> QED
    BY <2>1, <2>2, <2>3 DEF SavedInv, StoppedIsSaved, Elems
<1>11. ASSUME Tick PROVE SavedInv'
  BY <1>11, <1>k DEF Tick
<1>12. ASSUME NEW d, SetRetention(d) PROVE SavedInv'
  BY <1>12, <1>k DEF SetRetention
<1>13. ASSUME Restart PROVE SavedInv'
  BY <1>13 DEF Restart, SavedInv, StoppedIsSaved
<1>14. CASE UNCHANGED vars
  BY <1>14, <1>k DEF vars, ring
<1>15. ASSUME NEW p \in Purgers, Purge(p) PROVE SavedInv'
  BY <1>9, <1>10, <1>15 DEF Purge
<1>16. ASSUME Write PROVE SavedInv'
  BY <1>4, <1>16 DEF Write
<1> QED
  BY <1>1, <1>2, <1>3, <1>5, <1>6, <1>7, <1>8, <1>11, <1>12, <1>13, <1>14, <1>15, <1>16 DEF Next

(* A process that stopped with a successful final flush left in the file every
   entry of the ring that was logged before that flush took its snapshot. *)
THEOREM StopSaves == Spec => []StoppedIsSaved
<1>1. Init => SavedInv
  BY DEF Init, SavedInv, StoppedIsSaved
<1>2. TypeOK /\ LockInv /\ SavedInv /\ [Next]_vars => SavedInv'
  BY StepSaved
<1>3. TypeOK /\ LockInv /\ GoneInv /\ [Next]_vars => LockInv' /\ GoneInv'
  BY StepGone
<1>4. SavedInv => StoppedIsSaved
  BY DEF SavedInv
<1> QED
  BY <1>1, <1>2, <1>3, <1>4, InitGone, TypeCorrect, PTL DEF Spec

-----------------------------------------------------------------------------
(* AccessLog implements RetainedLog. *)

(* Read by its slots, the ring is the sequence a query gets. *)
RingShape == CollectEntries = [i \in 1..count |-> entries[SlotOf(i)]]

LEMMA RingShaped == TypeOK => RingShape
  BY CollectSlots DEF RingShape

(* While mu is held the file is ahead of the ring and is what will be seen. *)
ViewShape == LogView = IF MuFree THEN CollectEntries ELSE disk

LEMMA ViewShaped == LockInv => ViewShape
<1> SUFFICES ASSUME LockInv PROVE ViewShape
  OBVIOUS
<1>1. CASE MuFree
  BY <1>1 DEF LogView, ViewShape
<1>2. CASE ~MuFree
  <2> DEFINE p == CHOOSE p \in Purgers : jobs[p].pc = "persisted"
  <2>1. p \in Purgers /\ jobs[p].pc = "persisted"
    BY <1>2 DEF MuFree
  <2>2. LogView = jobs[p].keep
    BY <1>2 DEF LogView
  <2> HIDE DEF p
  <2>3. LogView = disk
    BY <2>1, <2>2 DEF LockInv
  <2> QED
    BY <1>2, <2>3 DEF ViewShape
<1> QED
  BY <1>1, <1>2

(* A rebuilt ring reads as the log it was rebuilt from. *)
LEMMA SetRingView ==
  ASSUME NEW log \in Logs, SetRing(log), RingShape'
  PROVE  CollectEntries' = log
<1>1. /\ Len(log) \in 0..Capacity /\ Capacity \in Nat \ {0}
      /\ DOMAIN log = 1..Len(log)
  BY LogsLen, AccessLogAssumption
<1>2. PICK n \in 0..Capacity : log \in [1..n -> Requests]
  BY DEF Logs
<1>3. n = Len(log)
  <2>1. n \in Nat
    BY <1>1, <1>2
  <2> QED
    BY <1>2, <2>1
<1>4. Capacity % Capacity = 0
  <2>1. Capacity \in 0..(2 * Capacity - 1)
    BY <1>1
  <2>2. \A k \in 0..(2 * Capacity - 1) :
          k % Capacity = IF k < Capacity THEN k ELSE k - Capacity
    BY ModWrap
  <2> QED
    BY <1>1, <2>1, <2>2
<1>5. /\ count' = n
      /\ count' = Capacity => writeIndex' = 0
      /\ entries' = [j \in Slots |-> IF j < n THEN log[j + 1] ELSE NoEntry]
  BY <1>3, <1>4 DEF SetRing, Filled
<1>6. \A i \in 1..n : SlotOf(i)' = i - 1
  BY <1>1, <1>2, <1>5 DEF SlotOf
<1>7. \A i \in 1..n : i - 1 \in Slots /\ i - 1 < n /\ (i - 1) + 1 = i
  BY <1>1, <1>2 DEF Slots
<1>8. \A i \in 1..n : entries'[SlotOf(i)'] = log[i]
  BY <1>5, <1>6, <1>7
<1>9. CollectEntries' = [i \in 1..n |-> entries'[SlotOf(i)']]
  BY <1>5 DEF RingShape
<1> QED
  BY <1>2, <1>8, <1>9

(* What a purge keeps is what an erasure leaves: an increasing enumeration of
   as many places as there are misses none. *)
LEMMA SurvivorsRemain ==
  ASSUME NEW log \in Logs, NEW doomed, NEW keep \in Survivors(log, doomed)
  PROVE  Retained!Without(log, doomed, keep)
<1> DEFINE kept == {i \in DOMAIN log : log[i] \notin doomed}
           n == Cardinality(kept)
           remain == {k \in 1..Len(log) : log[k] \notin doomed}
<1>1. PICK f \in [1..n -> kept] :
        /\ \A i, j \in DOMAIN f : i < j => f[i] < f[j]
        /\ keep = [i \in DOMAIN f |-> log[f[i]]]
  BY DEF Survivors
<1>2. Len(log) \in 0..Capacity /\ DOMAIN log = 1..Len(log) /\ Capacity \in Nat
  BY LogsLen, AccessLogAssumption
<1>3. kept = remain
  BY <1>2
<1>4. IsFiniteSet(kept) /\ n \in 0..Len(log)
  <2>1. 1 \in Int /\ Len(log) \in Int
    BY <1>2
  <2>2. /\ IsFiniteSet(1..Len(log))
        /\ Cardinality(1..Len(log)) = IF 1 > Len(log) THEN 0 ELSE Len(log) - 1 + 1
    BY <2>1, FS_Interval
  <2>3. kept \subseteq 1..Len(log)
    BY <1>2
  <2>4. IsFiniteSet(kept) /\ n <= Cardinality(1..Len(log)) /\ n \in Nat
    BY <2>2, <2>3, FS_Subset, FS_CardinalityType
  <2> QED
    BY <1>2, <2>2, <2>4
<1>5. IsFiniteSet(1..n) /\ Cardinality(1..n) = Cardinality(kept)
  <2>1. 1 \in Int /\ n \in Int
    BY <1>2, <1>4
  <2>2. /\ IsFiniteSet(1..n)
        /\ Cardinality(1..n) = IF 1 > n THEN 0 ELSE n - 1 + 1
    BY <2>1, FS_Interval
  <2> QED
    BY <1>2, <1>4, <2>2
<1>6. \A i, j \in 1..n : f[i] = f[j] => i = j
  <2> SUFFICES ASSUME NEW i \in 1..n, NEW j \in 1..n, f[i] = f[j] PROVE i = j
    OBVIOUS
  <2>1. f[i] \in 1..Len(log) /\ f[j] \in 1..Len(log)
    BY <1>1, <1>2
  <2>2. ~(i < j) /\ ~(j < i)
    BY <1>1, <1>2, <2>1
  <2> QED
    BY <1>2, <1>4, <2>2
<1>7. f \in Injection(1..n, kept)
  BY <1>1, <1>6 DEF Injection, IsInjective
<1> HIDE DEF kept, n
<1>8. f \in Surjection(1..n, kept)
  BY <1>4, <1>5, <1>7, FS_Injection
<1>9. \A k \in kept : \E i \in 1..n : f[i] = k
  BY <1>8 DEF Surjection
<1>10. /\ f \in [1..n -> remain]
       /\ \A i, j \in 1..n : i < j => f[i] < f[j]
       /\ \A k \in remain : \E i \in 1..n : f[i] = k
       /\ keep = [i \in 1..n |-> log[f[i]]]
  BY <1>1, <1>3, <1>9
<1> QED
  BY <1>4, <1>10 DEF Retained!Without

(* Recording overwrites the oldest entry of a full ring and no other: what a
   query then sees is the last Capacity entries, the new one at the end. *)
LEMMA RecordView ==
  ASSUME TypeOK, RingShape, RingShape', NEW r \in Requests, Record(r)
  PROVE  CollectEntries' = Retained!LastN(Append(CollectEntries, r))
<1> DEFINE c == CollectEntries
           grown == Append(c, r)
<1>1. /\ Capacity \in Nat \ {0} /\ writeIndex \in 0..(Capacity - 1) /\ count \in 0..Capacity
      /\ count < Capacity => writeIndex = count
  BY AccessLogAssumption DEF TypeOK, Slots
<1>2. c \in Seq(Requests) /\ Len(c) = count /\ c = [i \in 1..count |-> entries[SlotOf(i)]]
  <2>1. c \in Logs /\ c = [i \in 1..count |-> entries[SlotOf(i)]]
    BY CollectLive DEF RingShape
  <2>2. PICK n \in 0..Capacity : c \in [1..n -> Requests]
    BY <2>1 DEF Logs
  <2>3. n \in Nat /\ count \in Nat
    BY <1>1, <2>2
  <2>4. c \in Seq(Requests) /\ Len(c) = n
    BY <2>2, <2>3
  <2>5. DOMAIN c = 1..count /\ DOMAIN c = 1..n
    BY <2>1, <2>2
  <2>6. count = n
    BY <2>3, <2>5
  <2> QED
    BY <2>1, <2>4, <2>6
<1> HIDE DEF c
<1>3. /\ grown \in Seq(Requests) /\ Len(grown) = count + 1
      /\ \A i \in 1..count : grown[i] = entries[SlotOf(i)]
      /\ grown[count + 1] = r
  BY <1>1, <1>2
<1>4. \A j \in Slots : entries'[j] = IF j = writeIndex THEN r ELSE entries[j]
  BY DEF Record, TypeOK
<1>5. /\ count' = IF count < Capacity THEN count + 1 ELSE Capacity
      /\ writeIndex' = IF writeIndex + 1 < Capacity THEN writeIndex + 1 ELSE 0
  <2>1. writeIndex + 1 \in 0..(2 * Capacity - 1)
    BY <1>1
  <2>2. \A k \in 0..(2 * Capacity - 1) :
          k % Capacity = IF k < Capacity THEN k ELSE k - Capacity
    BY ModWrap
  <2>3. (writeIndex + 1) % Capacity
          = IF writeIndex + 1 < Capacity THEN writeIndex + 1 ELSE writeIndex + 1 - Capacity
    BY <1>1, <2>1, <2>2
  <2> QED
    BY <1>1, <2>3 DEF Record
<1>6. CollectEntries' = [i \in 1..count' |-> entries'[SlotOf(i)']]
  BY DEF RingShape
<1>7. CASE count < Capacity
  <2>1. Retained!LastN(grown) = grown
    BY <1>1, <1>3, <1>7 DEF Retained!LastN
  <2>2. ASSUME NEW i \in 1..(count + 1) PROVE entries'[SlotOf(i)'] = grown[i]
    <3>1. SlotOf(i)' = i - 1
      BY <1>1, <1>5, <1>7 DEF SlotOf
    <3>2. i - 1 \in Slots /\ (i - 1 = writeIndex <=> i = count + 1)
      BY <1>1, <1>7 DEF Slots
    <3>3. CASE i = count + 1
      BY <1>3, <1>4, <3>1, <3>2, <3>3
    <3>4. CASE i # count + 1
      <4>1. i \in 1..count /\ SlotOf(i) = i - 1
        BY <1>1, <1>7, <3>4 DEF SlotOf
      <4> QED
        BY <1>3, <1>4, <3>1, <3>2, <3>4, <4>1
    <3> QED
      BY <3>3, <3>4
  <2>3. CollectEntries' = [i \in 1..(count + 1) |-> entries'[SlotOf(i)']]
    BY <1>5, <1>6, <1>7
  <2>4. grown \in [1..(count + 1) -> Requests]
    <3> HIDE DEF grown
    <3> QED
      BY <1>1, <1>3
  <2>5. CollectEntries' = grown
    BY <2>2, <2>3, <2>4
  <2> QED
    BY <2>1, <2>5 DEF c
<1>8. CASE ~(count < Capacity)
  <2>1. count = Capacity
    BY <1>1, <1>8
  <2> DEFINE last == SubSeq(grown, 2, Capacity + 1)
  <2>2. Retained!LastN(grown) = last
    <3>1. ~(Len(grown) <= Capacity) /\ Len(grown) - Capacity + 1 = 2 /\ Len(grown) = Capacity + 1
      BY <1>1, <1>3, <2>1
    <3> QED
      BY <3>1 DEF Retained!LastN
  <2>3. last = [i \in 1..Capacity |-> grown[i + 1]]
    BY <1>1, <1>3, <2>1
  <2>4. ASSUME NEW i \in 1..Capacity PROVE entries'[SlotOf(i)'] = grown[i + 1]
    <3>1. CASE i = Capacity
      <4>1. SlotOf(i)' = writeIndex /\ writeIndex \in Slots
        BY <1>1, <1>5, <2>1, <3>1 DEF SlotOf, Slots
      <4> QED
        BY <1>3, <1>4, <2>1, <3>1, <4>1
    <3>2. CASE i # Capacity
      <4>1. i + 1 \in 1..count
        BY <1>1, <2>1, <3>2
      <4>2. /\ SlotOf(i)' = SlotOf(i + 1)
            /\ SlotOf(i + 1) \in Slots
            /\ SlotOf(i + 1) # writeIndex
        BY <1>1, <1>5, <2>1, <3>2 DEF SlotOf, Slots
      <4> QED
        BY <1>3, <1>4, <4>1, <4>2
    <3> QED
      BY <3>1, <3>2
  <2>5. CollectEntries' = [i \in 1..Capacity |-> entries'[SlotOf(i)']]
    BY <1>1, <1>5, <1>6, <2>1
  <2> HIDE DEF last
  <2>6. CollectEntries' = last
    BY <2>3, <2>4, <2>5
  <2> QED
    BY <2>2, <2>6 DEF c
<1> QED
  BY <1>7, <1>8

(* Every step is one of RetainedLog, or changes nothing there: a purge takes
   effect when it has replaced the file, and applying it to the ring is not
   seen. *)
LEMMA StepRefines ==
  ASSUME TypeOK, LockInv, RingShape, RingShape', ViewShape, ViewShape', [Next]_vars
  PROVE  [Retained!Next]_<<LogView, disk, flush>>
<1> DEFINE Goal == [Retained!Next]_<<LogView, disk, flush>>
<1>0. /\ jobs \in [Purgers -> Job] /\ disk \in Logs
      /\ CollectEntries \in Logs /\ Elems(CollectEntries) \subseteq Requests
  BY CollectLive, LogsLen DEF TypeOK, Elems
<1>v. /\ MuFree => LogView = CollectEntries
      /\ ~MuFree => LogView = disk
      /\ MuFree' => LogView' = CollectEntries'
      /\ ~MuFree' => LogView' = disk'
  BY DEF ViewShape
<1>r. UNCHANGED ring => CollectEntries' = CollectEntries
  BY DEF ring, CollectEntries
<1>f. ASSUME UNCHANGED <<ring, disk, flush>>, MuFree' = MuFree PROVE Goal
  BY <1>f, <1>r, <1>v
<1>k. ASSUME UNCHANGED <<ring, disk, flush, jobs>> PROVE Goal
  BY <1>f, <1>k DEF MuFree
<1>j. ASSUME NEW p \in Purgers, jobs[p].pc # "persisted", jobs'[p].pc # "persisted",
             \A q \in Purgers \ {p} : jobs'[q] = jobs[q]
      PROVE  MuFree' = MuFree
  BY <1>j DEF MuFree
<1>1. ASSUME NEW r \in Requests, StartRequest(r) PROVE Goal
  BY <1>1, <1>k DEF StartRequest
<1>2. ASSUME NEW r \in Requests, Record(r) PROVE Goal
  <2>1. MuFree /\ MuFree' /\ UNCHANGED <<disk, flush>>
    BY <1>2 DEF Record, MuFree
  <2>2. LogView' = Retained!LastN(Append(LogView, r))
    BY <1>2, <1>v, <2>1, RecordView
  <2>3. Retained!Add(r)
    BY <2>1, <2>2 DEF Retained!Add
  <2> QED
    BY <2>3 DEF Retained!Next
<1>3. ASSUME FlushSnapshot PROVE Goal
  <2>1. /\ MuFree /\ MuFree' /\ flush = {} /\ flush' = {CollectEntries}
        /\ UNCHANGED <<ring, disk>>
    BY <1>3 DEF FlushSnapshot, DiskMuFree, MuFree
  <2>2. Retained!Copy
    BY <1>r, <1>v, <2>1 DEF Retained!Copy
  <2> QED
    BY <2>2 DEF Retained!Next
<1>4. ASSUME NEW saved, FlushWrite(saved) PROVE Goal
  <2>1. /\ flush # {} /\ flush' = {}
        /\ disk' \in IF saved THEN flush ELSE {disk}
        /\ UNCHANGED <<ring, jobs>>
    BY <1>4 DEF FlushWrite
  <2>2. MuFree /\ MuFree'
    BY <2>1 DEF LockInv, MuFree
  <2>3. LogView' = LogView
    BY <1>r, <1>v, <2>1, <2>2
  <2>4. Retained!Save \/ Retained!SaveFails
    BY <2>1, <2>3 DEF Retained!Save, Retained!SaveFails
  <2> QED
    BY <2>4 DEF Retained!Next
<1>5. ASSUME StopFlusher \/ WorkersDone PROVE Goal
  BY <1>5, <1>k DEF StopFlusher, WorkersDone
<1>6. ASSUME NEW a \in Admins, NEW expired, NEW scope, Preview(a, expired, scope)
      PROVE Goal
  <2>1. a \in Purgers /\ jobs[a].pc # "persisted" /\ UNCHANGED <<ring, disk, flush>>
    BY <1>6 DEF Preview, Purgers
  <2>2. jobs'[a].pc = "previewed" /\ \A q \in Purgers \ {a} : jobs'[q] = jobs[q]
    BY <1>0, <1>6, <2>1 DEF Preview, NoJob
  <2>3. MuFree' = MuFree
    BY <1>j, <2>1, <2>2
  <2> QED
    BY <1>f, <2>1, <2>3
<1>7. ASSUME NEW a \in Admins, Execute(a) PROVE Goal
  <2>1. a \in Purgers /\ jobs[a].pc = "previewed" /\ jobs[a] \in Job
        /\ UNCHANGED <<ring, disk, flush>>
    BY <1>0, <1>7 DEF Execute, Purgers
  <2>2. jobs'[a].pc # "persisted" /\ \A q \in Purgers \ {a} : jobs'[q] = jobs[q]
    BY <1>0, <1>7, <2>1 DEF Execute, NoJob, Job
  <2>3. MuFree' = MuFree
    BY <1>j, <2>1, <2>2
  <2> QED
    BY <1>f, <2>1, <2>3
<1>8. ASSUME Cleanup PROVE Goal
  <2>1. Cleaner \in Purgers /\ jobs[Cleaner].pc = "idle" /\ UNCHANGED <<ring, disk, flush>>
    BY <1>8 DEF Cleanup, Purgers
  <2>2. jobs'[Cleaner].pc # "persisted" /\ \A q \in Purgers \ {Cleaner} : jobs'[q] = jobs[q]
    BY <1>0, <1>8, <2>1 DEF Cleanup, NoJob
  <2>3. MuFree' = MuFree
    BY <1>j, <2>1, <2>2
  <2> QED
    BY <1>f, <2>1, <2>3
<1>9. ASSUME NEW p \in Purgers, NEW saved, PurgePersist(p, saved) PROVE Goal
  <2> DEFINE doomed == {r \in Elems(CollectEntries) : Matches(jobs[p], r)}
  <2>1. PICK keep \in Survivors(CollectEntries, doomed) :
          IF saved
            THEN /\ disk' = keep
                 /\ jobs' = [jobs EXCEPT ![p] =
                      [@ EXCEPT !.pc = "persisted", !.doomed = doomed, !.keep = keep]]
            ELSE /\ disk' = disk
                 /\ jobs' = [jobs EXCEPT ![p] = NoJob]
    BY <1>9 DEF PurgePersist
  <2>2. /\ MuFree /\ flush = {} /\ UNCHANGED <<ring, flush>>
    BY <1>9 DEF PurgePersist, DiskMuFree
  <2>3. doomed \in SUBSET Requests /\ Retained!Without(CollectEntries, doomed, keep)
    BY <1>0, SurvivorsRemain
  <2> HIDE DEF doomed
  <2>4. CASE saved
    <3>1. jobs'[p].pc = "persisted"
      <4>1. jobs'[p] = [jobs[p] EXCEPT !.pc = "persisted", !.doomed = doomed, !.keep = keep]
        BY <1>0, <2>1, <2>4
      <4> QED
        BY <1>0, <4>1 DEF Job
    <3>2. LogView = CollectEntries /\ LogView' = keep /\ disk' = keep
      BY <1>v, <2>1, <2>2, <2>4, <3>1 DEF MuFree
    <3>3. Retained!Erase(doomed)
      BY <2>2, <2>3, <3>2 DEF Retained!Erase
    <3> QED
      BY <2>3, <3>3 DEF Retained!Next
  <2>5. CASE ~saved
    <3>1. jobs'[p].pc # "persisted" /\ \A q \in Purgers \ {p} : jobs'[q] = jobs[q]
      BY <1>0, <2>1, <2>5 DEF NoJob
    <3>2. MuFree' = MuFree
      BY <1>j, <2>2, <3>1 DEF MuFree
    <3> QED
      BY <1>f, <2>1, <2>2, <2>5, <3>2
  <2> QED
    BY <2>4, <2>5
<1>10. ASSUME NEW p \in Purgers, PurgeApply(p) PROVE Goal
  <2>1. /\ jobs[p].pc = "persisted" /\ SetRing(jobs[p].keep)
        /\ jobs' = [jobs EXCEPT ![p] = NoJob]
        /\ UNCHANGED <<disk, flush>>
    BY <1>10 DEF PurgeApply
  <2>2. /\ disk = jobs[p].keep
        /\ \A q \in Purgers : jobs[q].pc = "persisted" => q = p
    BY <2>1 DEF LockInv
  <2>3. ~MuFree /\ MuFree'
    BY <1>0, <2>1, <2>2 DEF MuFree, NoJob
  <2>4. CollectEntries' = disk
    BY <1>0, <2>1, <2>2, SetRingView
  <2> QED
    BY <1>v, <2>1, <2>3, <2>4
<1>11. ASSUME Tick PROVE Goal
  BY <1>11, <1>k DEF Tick
<1>12. ASSUME NEW d, SetRetention(d) PROVE Goal
  BY <1>12, <1>k DEF SetRetention
<1>13. ASSUME Restart PROVE Goal
  <2>1. SetRing(disk) /\ flush' = {} /\ disk' = disk /\ MuFree'
    BY <1>13 DEF Restart, MuFree, NoJob
  <2>2. LogView' = disk
    BY <1>0, <1>v, <2>1, SetRingView
  <2>3. Retained!Recover
    BY <2>1, <2>2 DEF Retained!Recover
  <2> QED
    BY <2>3 DEF Retained!Next
<1>14. CASE UNCHANGED vars
  BY <1>14, <1>k DEF vars, ring
<1>15. ASSUME NEW p \in Purgers, Purge(p) PROVE Goal
  BY <1>9, <1>10, <1>15 DEF Purge
<1>16. ASSUME Write PROVE Goal
  BY <1>4, <1>16 DEF Write
<1>17. CASE Next
  BY <1>1, <1>2, <1>3, <1>5, <1>6, <1>7, <1>8, <1>11, <1>12, <1>13, <1>15, <1>16, <1>17 DEF Next
<1> QED
  BY <1>14, <1>17

LEMMA InitRefines == Init => Retained!Init
<1> SUFFICES ASSUME Init PROVE Retained!Init
  OBVIOUS
<1>1. MuFree /\ count = 0 /\ disk = <<>> /\ flush = {}
  BY DEF Init, MuFree, NoJob
<1>2. CollectEntries = <<>>
  BY <1>1 DEF CollectEntries
<1> QED
  BY <1>1, <1>2 DEF Retained!Init, LogView

(* The ring, the file and the snapshots on their way to it implement the
   abstract retained log: the last Capacity entries in order, erasures that
   take effect at once and are never undone, restarts that return to what was
   saved last. *)
THEOREM RetainsLog == Spec => ImplementsRetainedLog
<1>1. TypeOK /\ LockInv /\ RingShape /\ RingShape' /\ ViewShape /\ ViewShape' /\ [Next]_vars
        => [Retained!Next]_<<LogView, disk, flush>>
  BY StepRefines
<1>2. TypeOK /\ LockInv /\ GoneInv /\ [Next]_vars => LockInv' /\ GoneInv'
  BY StepGone
<1> QED
  BY <1>1, <1>2, InitRefines, InitGone, RingShaped, ViewShaped, TypeCorrect, PTL
  DEF Spec, ImplementsRetainedLog, Retained!Spec

=============================================================================
