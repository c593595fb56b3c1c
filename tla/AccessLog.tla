------------------------------ MODULE AccessLog -------------------------------
(***************************************************************************)
(* internal/store/accesslog.go and its users: requests record themselves in  *)
(* a ring buffer when they end, a flusher rewrites access-logs.jsonl from a   *)
(* snapshot of the ring, administrators preview and run purges               *)
(* (internal/http/admin/accesslog_handlers.go), a daily cleanup purges what   *)
(* the retention setting calls expired, and main stops the flusher with one   *)
(* last flush.                                                               *)
(*                                                                         *)
(* Locks: a flush holds diskMu from its snapshot to its rename, a purge holds *)
(* diskMu and mu from its scan to its change of the ring, everything else     *)
(* takes mu for one step.  A lock is held exactly in the states MuFree and    *)
(* DiskMuFree exclude, so none is a variable.                                *)
(***************************************************************************)
EXTENDS Naturals, FiniteSets, Sequences

CONSTANTS
  Requests,      \* proxied requests; each is logged at most once
  Capacity,      \* slots of the ring (10000 in main)
  Filters,       \* scopes of filtered purges: the requests a filter matches
  Admins,        \* goroutines serving purge requests
  Cleaner,       \* the cleanup goroutine
  Retentions,    \* values of log_retention_days; 0 disables expiry
  MaxTime,       \* bound on the clock, in days
  MaxRestarts,   \* bound on crashes and restarts
  SaveOutcomes   \* results writeToDisk may have

ASSUME AccessLogAssumption ==
  /\ Capacity \in Nat \ {0}
  /\ Filters \subseteq SUBSET Requests
  /\ Cleaner \notin Admins
  /\ Retentions \subseteq Nat
  /\ MaxTime \in Nat \ {0}
  /\ MaxRestarts \in Nat
  /\ SaveOutcomes \subseteq BOOLEAN

VARIABLES
  entries, writeIndex, count,   \* the ring
  disk,        \* access-logs.jsonl
  flush,       \* the snapshots being written: none or one
  jobs,        \* per goroutine, its purge
  now, start,  \* clock; per request the day it began, 0 before it does
  ended,       \* requests that ended, logged or lost with the process
  retention, lastRun,
  phase,       \* main: serving, StopFlusher waiting or flushing, and its result
  restarts,
  gone,        \* history: requests a purge reported removed
  late         \* history: logged after the final flush took its snapshot

ring   == <<entries, writeIndex, count>>
clocks == <<now, start, retention>>
vars   == <<entries, writeIndex, count, disk, flush, jobs, now, start, ended,
            retention, lastRun, phase, restarts, gone, late>>

Purgers  == Admins \cup {Cleaner}
Phases   == {"up", "stopping", "flushing", "down", "failed"}
ZeroTime == 0   \* time.Time{}, before every request
NoEntry  == "empty slot"

Slots    == 0..(Capacity - 1)
Logs     == UNION {[1..n -> Requests] : n \in 0..Capacity}
Elems(s) == {s[i] : i \in DOMAIN s}

(* spared: history, the entries the preview did not count. *)
Job == [pc: {"idle", "previewed", "waiting", "persisted"},
        expired: BOOLEAN, scope: SUBSET Requests, cutoff: 0..MaxTime,
        spared: SUBSET Requests, doomed: SUBSET Requests, keep: Logs]

NoJob == [pc |-> "idle", expired |-> FALSE, scope |-> {}, cutoff |-> ZeroTime,
          spared |-> {}, doomed |-> {}, keep |-> <<>>]

(* sync.RWMutex mu and sync.Mutex diskMu. *)
MuFree     == \A p \in Purgers : jobs[p].pc # "persisted"
NoDiskLock == TRUE      \* faulty variant: flush and purge without diskMu
SelfLocked ==           \* faulty variant: a purge flushes with diskMu already held
  flush = {} /\ \A p \in Purgers : jobs[p].pc = "idle"
DiskMuFree == MuFree /\ flush = {}

-----------------------------------------------------------------------------
(* The ring. *)

(* Faulty variant of collectEntries: takes the full ring as it lies. *)
CollectUnrotated == [i \in 1..count |-> entries[i - 1]]

(* Faulty variant of collectEntries: stops at writeIndex, as if never full. *)
CollectWritten == [i \in 1..writeIndex |-> entries[i - 1]]

(* collectEntries: oldest first; a full ring starts at writeIndex. *)
CollectEntries ==
  [i \in 1..count |->
     entries[IF count < Capacity THEN i - 1 ELSE (writeIndex + i - 1) % Capacity]]

(* The ring's slots when they hold exactly log, from slot 0. *)
Filled(log) == [j \in Slots |-> IF j < Len(log) THEN log[j + 1] ELSE NoEntry]

SetRing(log) ==
  /\ entries' = Filled(log)
  /\ count' = Len(log)
  /\ writeIndex' = Len(log) % Capacity

(* The entries of log outside doomed, in their order: exactly one sequence,
   read off the increasing enumeration of the positions that stay. *)
Survivors(log, doomed) ==
  LET kept == {i \in DOMAIN log : log[i] \notin doomed}
      up   == {f \in [1..Cardinality(kept) -> kept] :
                 \A i, j \in DOMAIN f : i < j => f[i] < f[j]}
  IN  {[i \in DOMAIN f |-> log[f[i]]] : f \in up}

-----------------------------------------------------------------------------
(* Requests. *)

(* The timestamp of an entry is the start of its request. *)
StartRequest(r) ==
  /\ phase = "up"
  /\ start[r] = 0
  /\ r \notin ended
  /\ start' = [start EXCEPT ![r] = now]
  /\ UNCHANGED <<ring, disk, flush, jobs, now, ended, retention, lastRun, phase,
                 restarts, gone, late>>

Exiting == phase \in {"down", "failed"}

(* Also after Shutdown gave up on the connection, until the process exits. *)
Record(r) ==
  /\ start[r] # 0
  /\ r \notin ended
  /\ MuFree
  /\ entries' = [entries EXCEPT ![writeIndex] = r]
  /\ writeIndex' = (writeIndex + 1) % Capacity
  /\ count' = IF count < Capacity THEN count + 1 ELSE count
  /\ ended' = ended \cup {r}
  /\ late' = IF Exiting \/ (phase = "flushing" /\ flush # {}) THEN late \cup {r} ELSE late
  /\ UNCHANGED <<disk, flush, jobs, clocks, lastRun, phase, restarts, gone>>

-----------------------------------------------------------------------------
(* flush(): the flusher's ticks, and StopFlusher's last one in phase
   "flushing". *)

FlushSnapshot ==
  /\ phase \in {"up", "flushing"}
  /\ DiskMuFree
  /\ flush' = {CollectEntries}
  /\ UNCHANGED <<ring, disk, jobs, clocks, ended, lastRun, phase, restarts, gone, late>>

(* The rename, or a failure anywhere before it. A failed final flush is only
   logged, and main returns all the same. *)
FlushWrite(saved) ==
  /\ flush # {}
  /\ disk' \in IF saved THEN flush ELSE {disk}
  /\ flush' = {}
  /\ phase' = IF phase # "flushing" THEN phase ELSE IF saved THEN "down" ELSE "failed"
  /\ UNCHANGED <<ring, jobs, clocks, ended, lastRun, restarts, gone, late>>

(* StopFlusher: close doneChan, wait for flusher and cleaner, flush. *)
StopFlusher ==
  /\ phase = "up"
  /\ phase' = "stopping"
  /\ UNCHANGED <<ring, disk, flush, jobs, clocks, ended, lastRun, restarts, gone, late>>

WorkersDone ==
  /\ phase = "stopping"
  /\ flush = {}
  /\ jobs[Cleaner].pc = "idle"
  /\ phase' = "flushing"
  /\ UNCHANGED <<ring, disk, flush, jobs, clocks, ended, lastRun, restarts, gone, late>>

-----------------------------------------------------------------------------
(* Purges. *)

Matches(job, r) ==
  /\ start[r] <= job.cutoff
  /\ job.expired => start[r] < job.cutoff
  /\ r \in job.scope

(* Nothing was logged before day 1: earlier thresholds are all alike. *)
Threshold == IF now > retention THEN now - retention ELSE ZeroTime

(* purgeAccessLogs with preview: the cutoff it answers, and what it counts. *)
Preview(a, expired, scope) ==
  LET cutoff == IF ~expired THEN now
                ELSE IF retention > 0 THEN Threshold ELSE ZeroTime
      job == [NoJob EXCEPT !.pc = "previewed", !.expired = expired,
                           !.scope = scope, !.cutoff = cutoff]
  IN  /\ phase = "up"
      /\ jobs[a].pc \in {"idle", "previewed"}
      /\ MuFree
      /\ jobs' = [jobs EXCEPT ![a] =
           [job EXCEPT !.spared = {r \in Elems(CollectEntries) : ~Matches(job, r)}]]
      /\ UNCHANGED <<ring, disk, flush, clocks, ended, lastRun, phase, restarts, gone, late>>

(* Faulty variant of Clamp: today's threshold replaces the previewed one. *)
CurrentThreshold(cutoff) == Threshold

(* An expired purge is clamped to the threshold that was previewed. *)
Clamp(cutoff) == IF Threshold < cutoff THEN Threshold ELSE cutoff

(* purgeAccessLogs with the previewed cutoff. *)
Execute(a) ==
  LET job    == jobs[a]
      cutoff == IF job.expired THEN Clamp(job.cutoff) ELSE job.cutoff
  IN  /\ phase = "up"
      /\ job.pc = "previewed"
      /\ jobs' = [jobs EXCEPT ![a] =
           IF job.expired /\ retention = 0 THEN NoJob
           ELSE [job EXCEPT !.pc = "waiting", !.cutoff = cutoff]]
      /\ UNCHANGED <<ring, disk, flush, clocks, ended, lastRun, phase, restarts, gone, late>>

(* The cleanup goroutine's tick in the hour after midnight. *)
Cleanup ==
  /\ phase = "up"
  /\ jobs[Cleaner].pc = "idle"
  /\ lastRun # now
  /\ lastRun' = now
  /\ jobs' = IF retention = 0 THEN jobs
             ELSE [jobs EXCEPT ![Cleaner] =
                     [NoJob EXCEPT !.pc = "waiting", !.expired = TRUE,
                                   !.scope = Requests, !.cutoff = Threshold]]
  /\ UNCHANGED <<ring, disk, flush, clocks, ended, phase, restarts, gone, late>>

(* PurgeMatching up to the rename, under both locks; when the write fails it
   returns the error and has changed nothing. *)
PurgePersist(p, saved) ==
  LET log    == CollectEntries
      doomed == {r \in Elems(log) : Matches(jobs[p], r)}
  IN  /\ jobs[p].pc = "waiting"
      /\ DiskMuFree
      /\ \E keep \in Survivors(log, doomed) :
           IF saved
             THEN /\ disk' = keep
                  /\ jobs' = [jobs EXCEPT ![p] =
                       [@ EXCEPT !.pc = "persisted", !.doomed = doomed, !.keep = keep]]
             ELSE /\ disk' = disk
                  /\ jobs' = [jobs EXCEPT ![p] = NoJob]
      /\ UNCHANGED <<ring, flush, clocks, ended, lastRun, phase, restarts, gone, late>>

(* The rest of PurgeMatching: the ring is rebuilt and the removal reported. *)
PurgeApply(p) ==
  /\ jobs[p].pc = "persisted"
  /\ SetRing(jobs[p].keep)
  /\ gone' = gone \cup jobs[p].doomed
  /\ jobs' = [jobs EXCEPT ![p] = NoJob]
  /\ UNCHANGED <<disk, flush, clocks, ended, lastRun, phase, restarts, late>>

-----------------------------------------------------------------------------
(* Environment. *)

Tick ==
  /\ now < MaxTime
  /\ now' = now + 1
  /\ UNCHANGED <<ring, disk, flush, jobs, start, ended, retention, lastRun, phase,
                 restarts, gone, late>>

SetRetention(d) ==
  /\ retention' = d
  /\ UNCHANGED <<ring, disk, flush, jobs, now, start, ended, lastRun, phase,
                 restarts, gone, late>>

(* The process dies, in whatever phase, and a new one loads the file. *)
Restart ==
  /\ restarts < MaxRestarts
  /\ restarts' = restarts + 1
  /\ SetRing(disk)
  /\ flush' = {}
  /\ jobs' = [p \in Purgers |-> NoJob]
  /\ ended' = ended \cup {r \in Requests : start[r] # 0}
  /\ lastRun' = 0
  /\ phase' = "up"
  /\ late' = {}
  /\ UNCHANGED <<disk, clocks, gone>>

Init ==
  /\ entries = Filled(<<>>) /\ writeIndex = 0 /\ count = 0
  /\ disk = <<>>
  /\ flush = {}
  /\ jobs = [p \in Purgers |-> NoJob]
  /\ now = 1
  /\ start = [r \in Requests |-> 0]
  /\ ended = {}
  /\ retention \in Retentions
  /\ lastRun = 0
  /\ phase = "up"
  /\ restarts = 0
  /\ gone = {}
  /\ late = {}

Purge(p) == (\E saved \in SaveOutcomes : PurgePersist(p, saved)) \/ PurgeApply(p)
Write    == \E saved \in SaveOutcomes : FlushWrite(saved)

Next ==
  \/ \E r \in Requests : StartRequest(r) \/ Record(r)
  \/ FlushSnapshot \/ Write \/ StopFlusher \/ WorkersDone
  \/ \E a \in Admins :
       \/ Preview(a, TRUE, Requests)
       \/ \E scope \in Filters \cup {Requests} : Preview(a, FALSE, scope)
       \/ Execute(a)
  \/ Cleanup
  \/ \E p \in Purgers : Purge(p)
  \/ Tick
  \/ \E d \in Retentions : SetRetention(d)
  \/ Restart

Spec == Init /\ [][Next]_vars

(* Flusher, main and the purging goroutines keep running until main returns.
   A purge, or main, waits for diskMu against others that take it again and
   again: sync.Mutex hands it to a waiter after a millisecond, hence strong
   fairness. *)
Fairness ==
  /\ WF_vars(Write)
  /\ WF_vars(WorkersDone)
  /\ SF_vars(phase = "flushing" /\ FlushSnapshot)
  /\ \A p \in Purgers : SF_vars(~Exiting /\ Purge(p))

FairSpec == Spec /\ Fairness

-----------------------------------------------------------------------------
(* What a query sees. A purge that has replaced the file counts as done: mu is
   held until the ring follows. *)
LogView ==
  IF MuFree THEN CollectEntries
  ELSE jobs[CHOOSE p \in Purgers : jobs[p].pc = "persisted"].keep

(* Every variable has its type; in particular the ring's live slots hold
   requests and an unfilled ring is filled from slot 0. *)
TypeOK ==
  /\ entries \in [Slots -> Requests \cup {NoEntry}]
  /\ writeIndex \in Slots
  /\ count \in 0..Capacity
  /\ count < Capacity => writeIndex = count
  /\ \A j \in Slots : j < count => entries[j] \in Requests
  /\ disk \in Logs
  /\ flush \in SUBSET Logs
  /\ jobs \in [Purgers -> Job]
  /\ now \in 1..MaxTime
  /\ start \in [Requests -> 0..MaxTime]
  /\ ended \subseteq Requests
  /\ retention \in Retentions
  /\ lastRun \in 0..MaxTime
  /\ phase \in Phases
  /\ restarts \in 0..MaxRestarts
  /\ gone \subseteq Requests
  /\ late \subseteq Requests

(* A deletion that was reported is final: no flush whose snapshot is older, no
   crash and no reload of the file brings the entry back to a query or to the
   file (PurgeMatching's lock ordering; docs/access-logs.md:17). *)
PurgedStayGone ==
  gone \cap (Elems(LogView) \cup Elems(disk) \cup UNION {Elems(s) : s \in flush}) = {}

(* Executing a previewed purge removes nothing that was retained at the preview
   and not counted by it, however clock and retention setting moved in between
   (the clamp in purgeAccessLogs). *)
PreviewNotExceeded ==
  \A p \in Purgers : jobs[p].doomed \cap jobs[p].spared = {}

(* The entries in the ring's live slots, in no order. *)
Live == {entries[j] : j \in 0..(count - 1)}

(* After a final flush that succeeded the file holds every entry in the ring
   that was logged before its snapshot, whatever flush or purge was under way
   when the process was told to stop (StopFlusher). *)
StoppedIsSaved == phase = "down" /\ MuFree => Live \ late \subseteq Elems(disk)

(* Memory, file and snapshots behave as the abstract retained log. *)
Retained == INSTANCE RetainedLog
              WITH Entries <- Requests, log <- LogView, saved <- disk, copies <- flush
ImplementsRetainedLog == Retained!Spec

(* A purge that was started is answered, and a stop comes to an end, while the
   flusher, other purges and requests compete for the two locks. *)
PurgeAnswered ==
  \A p \in Purgers : jobs[p].pc = "waiting" ~> (jobs[p].pc = "idle" \/ Exiting)
StopEnds == phase = "stopping" ~> (Exiting \/ phase = "up")
NobodyStarves == PurgeAnswered /\ StopEnds
=============================================================================
