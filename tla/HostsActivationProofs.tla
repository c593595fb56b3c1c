----------------------- MODULE HostsActivationProofs -------------------------
(***************************************************************************)
(* Proofs about HostsActivation, for every set of profiles, entries and      *)
(* goroutines: types, one active profile, the agreement of hosts file and     *)
(* store, the backup of what was replaced, and the finality of deletions.     *)
(***************************************************************************)
EXTENDS HostsActivation, FiniteSetTheorems, TLAPS

-----------------------------------------------------------------------------
(* The inductive invariant. *)

(* Service.mu: at most one goroutine is in a state that holds it. *)
Mutex == \A v, w \in Workers : jobs[v].pc \in Locked /\ jobs[w].pc \in Locked => v = w

(* In memory as in store.json, the active flag sits on the profile that was
   activated last, and there only. *)
Flagged(s) ==
  \A p \in Profiles : s.profiles[p] # "none" =>
    /\ s.profiles[p] = "active" <=> p = applied.profile
    /\ p \in born

Flags ==
  /\ Flagged(mem) /\ Flagged(disk)
  /\ applied.profile \in born \cup {None}
  /\ \A w \in Workers : jobs[w].pc = "update" =>
       /\ jobs[w].profile \in Profiles
       /\ jobs[w].active # "none"
       /\ jobs[w].active = "active" <=> jobs[w].profile = applied.profile

(* Between the write of the hosts file and the save of the activation. *)
Between(w) == jobs[w].pc \in {"commit", "restore"}

FileFollows ==
  /\ \/ torn
     \/ \E w \in Workers : Between(w)
     \/ hosts.block = applied.block
  /\ \A w \in Workers :
       /\ jobs[w].pc \in {"write", "commit", "restore"} =>
            jobs[w].existing \in File /\ (torn \/ jobs[w].existing.block = applied.block)
       /\ jobs[w].pc = "commit" => hosts.block = jobs[w].lines

(* Backup names are unique and none is of the future. *)
BackupNames ==
  /\ \A b \in backups : b.second <= now
  /\ \A b, c \in backups : b.second = c.second /\ b.pid = c.pid => b = c

Recoverable ==
  /\ BackupNames
  /\ OriginalBackedUp
  /\ \A w \in Workers : jobs[w].pc = "render" => replaced = None

IInv == Types /\ Mutex /\ Flags /\ FileFollows /\ Recoverable

-----------------------------------------------------------------------------
(* Types. *)

LEMMA NoJobType == NoJob \in Job /\ NoJob.pc = "idle"
  BY DEF NoJob, Job

(* A store edit that keeps the maps' types keeps both copies well typed. *)
LEMMA CommitType ==
  ASSUME mem \in Data, disk \in Data, NEW s \in Data, NEW saved, Commit(s, saved)
  PROVE  mem' \in Data /\ disk' \in Data
  BY DEF Commit

LEMMA WrittenType ==
  ASSUME hosts \in File, NEW file \in File, NEW outcome \in WriteOutcomes
  PROVE  Written(file, outcome) \subseteq File
<1>1. outcome \in {"ok", "failed", "cut"}
  BY HostsAssumption
<1>2. CASE outcome = "ok"
  BY <1>2 DEF Written
<1>3. CASE outcome = "failed"
  BY <1>3 DEF Written
<1>4. CASE outcome = "cut"
  <2>a. Absent \in Block /\ Broken \in Block
    BY DEF Block
  <2>b. file.block \in Block
    BY DEF File
  <2>0. file.block \in Block /\ Absent \in Block /\ Broken \in Block
    BY <2>a, <2>b
  <2>1. \A b \in {file.block, Absent, Broken} : [block |-> b, intact |-> FALSE] \in File
    BY <2>0 DEF File
  <2> QED
    BY <1>4, <2>1 DEF Written
<1> QED
  BY <1>1, <1>2, <1>3, <1>4

LEMMA WithBackupType ==
  ASSUME backups \subseteq Backup, now \in 0..MaxTime, NEW file \in File
  PROVE  WithBackup(file) \subseteq Backup /\ PruneBackups(WithBackup(file)) \subseteq Backup
<1> DEFINE taken == \E b \in backups : b.second = now /\ ~b.pid
<1>0. taken \in BOOLEAN
  OBVIOUS
<1>1. WithBackup(file) \subseteq Backup
  <2> HIDE DEF taken
  <2>1. [second |-> now, pid |-> taken, holds |-> file] \in Backup
    BY <1>0 DEF Backup
  <2>2. WithBackup(file) = {b \in backups : b.second # now \/ b.pid # taken}
                             \cup {[second |-> now, pid |-> taken, holds |-> file]}
    BY DEF WithBackup, taken
  <2> QED
    BY <2>1, <2>2
<1> QED
  BY <1>1 DEF PruneBackups, Newest

LEMMA EnabledLinesType ==
  ASSUME mem \in Data, NEW p \in Profiles
  PROVE  EnabledLines(p) \subseteq Hostnames
  BY DEF EnabledLines, Data, Entry

(* One step of a goroutine keeps every type. *)
LEMMA WorkerType ==
  ASSUME Types, Flags, FileFollows, NEW w \in Workers, Step(w)
  PROVE  Types'
<1> USE DEF Types, storeVars, fileVars, runVars
<1>0. jobs[w] \in Job /\ NoJob \in Job
  BY NoJobType
<1>a. ASSUME Finish(w) PROVE jobs' \in [Workers -> Job]
  BY <1>a, <1>0 DEF Finish
<1>1. ASSUME NEW p \in Profiles, UpdateProfile(w, p) PROVE Types'
  <2>1. mem.profiles[p] \in {"inactive", "active"}
    BY <1>1 DEF UpdateProfile, Stored, Data
  <2>2. [NoJob EXCEPT !.pc = "update", !.profile = p, !.active = mem.profiles[p]] \in Job
    BY <2>1, <1>0 DEF Job, NoJob
  <2> QED
    BY <1>1, <2>2 DEF UpdateProfile
<1>2. ASSUME NEW p \in Profiles, ActivateProfile(w, p) PROVE Types'
  <2>1. EnabledLines(p) \subseteq Hostnames
    BY EnabledLinesType
  <2>2. [NoJob EXCEPT !.pc = "render", !.profile = p, !.lines = EnabledLines(p)] \in Job
    BY <2>1, <1>0 DEF Job, NoJob
  <2> QED
    BY <1>2, <2>2 DEF ActivateProfile, Apply
<1>3. ASSUME NEW p \in Profiles, DeactivateProfile(w, p) PROVE Types'
  <2>1. [NoJob EXCEPT !.pc = "render", !.profile = None, !.lines = {}] \in Job
    BY <1>0 DEF Job, NoJob
  <2> QED
    BY <1>3, <2>1 DEF DeactivateProfile, Apply
<1>4. ASSUME NEW p \in Profiles, NEW h \in Hostnames, NEW on \in BOOLEAN, CreateEntry(w, p, h, on)
      PROVE Types'
  <2>1. [NoJob EXCEPT !.pc = "insert", !.rec = [profile |-> p, hostname |-> h, enabled |-> on]] \in Job
    BY <1>0 DEF Job, NoJob, Entry
  <2> QED
    BY <1>4, <2>1 DEF CreateEntry
<1>5. ASSUME NEW e \in EntryIds, NEW h \in Hostnames, NEW on \in BOOLEAN, UpdateEntry(w, e, h, on)
      PROVE Types'
  <2>1. mem.entries[e] \in Entry
    BY <1>5 DEF UpdateEntry, Data
  <2>2. [mem.entries[e] EXCEPT !.hostname = h, !.enabled = on] \in Entry
    BY <2>1 DEF Entry
  <2>3. [NoJob EXCEPT !.pc = "change", !.entry = e,
           !.rec = [mem.entries[e] EXCEPT !.hostname = h, !.enabled = on]] \in Job
    BY <2>2, <1>0 DEF Job, NoJob
  <2> QED
    BY <1>5, <2>3 DEF UpdateEntry
<1>6. ASSUME NEW p \in Profiles, NEW saved \in SaveOutcomes, CreateProfile(w, p, saved) PROVE Types'
  <2>1. [mem EXCEPT !.profiles[p] = "inactive"] \in Data
    BY DEF Data
  <2> QED
    BY <1>6, <2>1, CommitType DEF CreateProfile
<1>7. ASSUME NEW p \in Profiles, NEW saved \in SaveOutcomes, DeleteProfile(w, p, saved) PROVE Types'
  <2> DEFINE es == [e \in EntryIds |-> IF mem.entries[e] # None /\ mem.entries[e].profile = p
                                       THEN None ELSE mem.entries[e]]
             s  == [profiles |-> [mem.profiles EXCEPT ![p] = "none"], entries |-> es]
  <2>1. es \in [EntryIds -> Entry \cup {None}]
    BY DEF Data
  <2>2. s \in Data
    BY <2>1 DEF Data
  <2>3. Commit(s, saved)
    BY <1>7 DEF DeleteProfile
  <2> HIDE DEF s
  <2> QED
    BY <1>7, <2>2, <2>3, CommitType DEF DeleteProfile
<1>8. ASSUME NEW e \in EntryIds, NEW saved \in SaveOutcomes, CreateHostEntry(w, e, saved) PROVE Types'
  <2>1. [mem EXCEPT !.entries[e] = jobs[w].rec] \in Data
    BY <1>0 DEF Data, Job
  <2> QED
    BY <1>8, <1>a, <2>1, CommitType DEF CreateHostEntry
<1>9. ASSUME NEW e \in EntryIds, NEW saved \in SaveOutcomes, DeleteEntry(w, e, saved) PROVE Types'
  <2>1. [mem EXCEPT !.entries[e] = None] \in Data
    BY DEF Data
  <2> QED
    BY <1>9, <2>1, CommitType DEF DeleteEntry
<1>10. ASSUME NEW saved \in SaveOutcomes, UpdateHostProfile(w, saved) PROVE Types'
  <2>1. jobs[w].active \in {"inactive", "active"}
    BY <1>0, <1>10 DEF UpdateHostProfile, Flags, Job
  <2>2. [mem EXCEPT !.profiles[jobs[w].profile] = jobs[w].active] \in Data
    BY <2>1 DEF Data
  <2> QED
    BY <1>10, <1>a, <2>2, CommitType DEF UpdateHostProfile
<1>11. ASSUME NEW saved \in SaveOutcomes, UpdateHostEntry(w, saved) PROVE Types'
  <2>1. [mem EXCEPT !.entries[jobs[w].entry] = jobs[w].rec] \in Data
    BY <1>0 DEF Data, Job
  <2> QED
    BY <1>11, <1>a, <2>1, CommitType DEF UpdateHostEntry
<1>12. ASSUME NEW saved \in SaveOutcomes, SetActive(w, saved) PROVE Types'
  <2> DEFINE set == [mem EXCEPT !.profiles = [p \in Profiles |->
                IF ~Stored(p) THEN "none" ELSE IF p = jobs[w].profile THEN "active" ELSE "inactive"]]
  <2>1. set \in Data
    BY DEF Data
  <2>2. [profile |-> jobs[w].profile, block |-> jobs[w].lines]
          \in [profile: Profiles \cup {None}, block: Block]
    BY <1>0 DEF Job, Block
  <2>3. [jobs EXCEPT ![w].pc = "restore"] \in [Workers -> Job]
    BY <1>0 DEF Job
  <2> HIDE DEF set
  <2>4. CASE saved /\ (jobs[w].profile = None \/ Stored(jobs[w].profile))
    <3>1. mem' = set /\ disk' = set /\ torn' = FALSE /\ Finish(w)
          /\ applied' = [profile |-> jobs[w].profile, block |-> jobs[w].lines]
      BY <1>12, <2>4 DEF SetActive, set
    <3> QED
      BY <1>12, <1>a, <2>1, <2>2, <3>1 DEF SetActive
  <2>5. CASE ~(saved /\ (jobs[w].profile = None \/ Stored(jobs[w].profile)))
    BY <1>12, <2>3, <2>5 DEF SetActive
  <2> QED
    BY <2>4, <2>5
<1>13. ASSUME BackUp(w) PROVE Types'
  <2>1. PruneBackups(WithBackup(hosts)) \subseteq Backup
    BY WithBackupType
  <2>2. [jobs[w] EXCEPT !.pc = "write", !.existing = hosts] \in Job
    BY <1>0 DEF Job
  <2> QED
    BY <1>13, <2>1, <2>2 DEF BackUp
<1>14. ASSUME GiveUp(w) PROVE Types'
  BY <1>14, <1>a, WithBackupType DEF GiveUp
<1>15. ASSUME NEW outcome \in WriteOutcomes, WriteFile(w, outcome) PROVE Types'
  <2>1. jobs[w].existing \in File
    BY <1>15 DEF WriteFile, FileFollows
  <2>2. [jobs[w].existing EXCEPT !.block = jobs[w].lines] \in File
    BY <1>0, <2>1 DEF File, Job, Block
  <2>3. hosts' \in File
    BY <1>15, <2>2, WrittenType DEF WriteFile
  <2>4. jobs' \in [Workers -> Job]
    <3>1. [jobs EXCEPT ![w].pc = "commit"] \in [Workers -> Job]
      BY <1>0 DEF Job
    <3> QED
      BY <1>15, <1>a, <3>1 DEF WriteFile
  <2> QED
    BY <1>15, <2>3, <2>4 DEF WriteFile
<1>16. ASSUME NEW outcome \in WriteOutcomes, Restore(w, outcome) PROVE Types'
  <2>1. jobs[w].existing \in File
    BY <1>16 DEF Restore, FileFollows
  <2>2. hosts' \in File
    BY <1>16, <2>1, WrittenType DEF Restore, Restored
  <2> QED
    BY <1>16, <1>a, <2>2 DEF Restore
<1> QED
  BY <1>1, <1>2, <1>3, <1>4, <1>5, <1>6, <1>7, <1>8, <1>9, <1>10, <1>11, <1>12,
     <1>13, <1>14, <1>15, <1>16 DEF Step

(* Clock and restart keep every type. *)
LEMMA OtherType ==
  ASSUME Types, Tick \/ Restart
  PROVE  Types'
<1> USE HostsAssumption DEF Types, storeVars, fileVars
<1>1. CASE Tick
  BY <1>1 DEF Tick
<1>2. CASE Restart
  BY <1>2, NoJobType DEF Restart
<1> QED
  BY <1>1, <1>2

-----------------------------------------------------------------------------
(* Service.mu. *)

(* A step touches its own goroutine's job, and takes the lock only when free. *)
LEMMA StepJobs ==
  ASSUME Types, NEW w \in Workers, Step(w)
  PROVE  /\ \A v \in Workers \ {w} : jobs'[v] = jobs[v]
         /\ jobs'[w].pc \in Locked => jobs[w].pc \in Locked \/ MuFree
<1> DEFINE Good == /\ \A v \in Workers \ {w} : jobs'[v] = jobs[v]
                   /\ jobs'[w].pc \in Locked => jobs[w].pc \in Locked \/ MuFree
<1>0. jobs \in [Workers -> Job]
  BY DEF Types
<1>a. ASSUME Finish(w) PROVE Good
  BY <1>0, <1>a, NoJobType DEF Finish, Locked
<1>b. ASSUME UNCHANGED jobs PROVE Good
  BY <1>b
<1>1. ASSUME NEW p \in Profiles, UpdateProfile(w, p) \/ ActivateProfile(w, p) \/ DeactivateProfile(w, p)
      PROVE Good
  BY <1>0, <1>1 DEF UpdateProfile, ActivateProfile, DeactivateProfile, Apply
<1>2. ASSUME NEW p \in Profiles, NEW h \in Hostnames, NEW on \in BOOLEAN, CreateEntry(w, p, h, on)
      PROVE Good
  BY <1>0, <1>2 DEF CreateEntry, NoJob, Locked
<1>3. ASSUME NEW e \in EntryIds, NEW h \in Hostnames, NEW on \in BOOLEAN, UpdateEntry(w, e, h, on)
      PROVE Good
  BY <1>0, <1>3 DEF UpdateEntry, NoJob, Locked
<1>4. ASSUME NEW saved \in SaveOutcomes, SetActive(w, saved) PROVE Good
  BY <1>0, <1>4, <1>a DEF SetActive, Job, Locked
<1>5. ASSUME BackUp(w) PROVE Good
  BY <1>0, <1>5 DEF BackUp, Job, Locked
<1>6. ASSUME NEW outcome \in WriteOutcomes, WriteFile(w, outcome) PROVE Good
  BY <1>0, <1>6, <1>a DEF WriteFile, Job, Locked
<1>7. ASSUME NEW p \in Profiles, NEW saved \in SaveOutcomes,
             CreateProfile(w, p, saved) \/ DeleteProfile(w, p, saved)
      PROVE Good
  BY <1>7, <1>b DEF CreateProfile, DeleteProfile
<1>8. ASSUME NEW e \in EntryIds, NEW saved \in SaveOutcomes,
             CreateHostEntry(w, e, saved) \/ DeleteEntry(w, e, saved)
      PROVE Good
  BY <1>8, <1>a, <1>b DEF CreateHostEntry, DeleteEntry
<1>9. ASSUME NEW saved \in SaveOutcomes, UpdateHostProfile(w, saved) \/ UpdateHostEntry(w, saved)
      PROVE Good
  BY <1>9, <1>a DEF UpdateHostProfile, UpdateHostEntry
<1>10. ASSUME NEW outcome \in WriteOutcomes, GiveUp(w) \/ Restore(w, outcome) PROVE Good
  BY <1>10, <1>a DEF GiveUp, Restore
<1>11. ASSUME GiveUp(w) PROVE Good
  BY <1>11, <1>a DEF GiveUp
<1> HIDE DEF Good
<1>12. Good
  BY <1>1, <1>2, <1>3, <1>4, <1>5, <1>6, <1>7, <1>8, <1>9, <1>10, <1>11 DEF Step
<1> QED
  BY <1>12 DEF Good

LEMMA StepMutex ==
  ASSUME Types, Mutex, NEW w \in Workers, Step(w)
  PROVE  Mutex'
BY StepJobs DEF Mutex, MuFree

-----------------------------------------------------------------------------
(* The active flags. *)

(* Steps that end without touching store or history keep the flags. *)
LEMMA FlagsKept ==
  ASSUME Flags, UNCHANGED <<mem, disk, born, applied>>,
         \A v \in Workers : jobs'[v].pc = "update" => jobs'[v] = jobs[v]
  PROVE  Flags'
BY DEF Flags, Flagged

LEMMA StepFlags ==
  ASSUME Types, Mutex, Flags, NEW w \in Workers, Step(w)
  PROVE  Flags'
<1> USE DEF Types, storeVars, fileVars
<1>0. jobs \in [Workers -> Job] /\ jobs[w] \in Job
  OBVIOUS
<1>a. ASSUME Finish(w) PROVE \A v \in Workers : jobs'[v].pc = "update" => jobs'[v] = jobs[v]
  BY <1>0, <1>a, NoJobType DEF Finish
<1>1. ASSUME NEW p \in Profiles, UpdateProfile(w, p) PROVE Flags'
  <2>1. mem.profiles[p] \in {"inactive", "active"}
    BY <1>1 DEF UpdateProfile, Stored, Data
  <2>2. mem.profiles[p] = "active" <=> p = applied.profile
    BY <2>1 DEF Flags, Flagged
  <2>3. jobs'[w].profile = p /\ jobs'[w].active = mem.profiles[p]
    BY <1>0, <1>1 DEF UpdateProfile, NoJob
  <2>4. \A v \in Workers \ {w} : jobs'[v] = jobs[v]
    BY <1>0, <1>1 DEF UpdateProfile
  <2>5. UNCHANGED <<mem, disk, born, applied>>
    BY <1>1 DEF UpdateProfile
  <2> QED
    BY <2>1, <2>2, <2>3, <2>4, <2>5 DEF Flags, Flagged
<1>2. ASSUME NEW p \in Profiles, ActivateProfile(w, p) \/ DeactivateProfile(w, p) PROVE Flags'
  BY <1>0, <1>2, FlagsKept DEF ActivateProfile, DeactivateProfile, Apply, NoJob
<1>3. ASSUME NEW p \in Profiles, NEW h \in Hostnames, NEW on \in BOOLEAN, CreateEntry(w, p, h, on)
      PROVE Flags'
  BY <1>0, <1>3, FlagsKept DEF CreateEntry, NoJob
<1>4. ASSUME NEW e \in EntryIds, NEW h \in Hostnames, NEW on \in BOOLEAN, UpdateEntry(w, e, h, on)
      PROVE Flags'
  BY <1>0, <1>4, FlagsKept DEF UpdateEntry, NoJob
<1>5. ASSUME NEW p \in Profiles, NEW saved \in SaveOutcomes, CreateProfile(w, p, saved) PROVE Flags'
  <2> DEFINE s == [mem EXCEPT !.profiles[p] = "inactive"]
  <2>1. p # applied.profile
    BY <1>5, HostsAssumption DEF CreateProfile, Flags
  <2>2. \A q \in Profiles : s.profiles[q] = IF q = p THEN "inactive" ELSE mem.profiles[q]
    BY DEF Data
  <2>3. mem' = s /\ disk' \in {s, disk} /\ born' = born \cup {p} /\ jobs' = jobs /\ applied' = applied
    BY <1>5 DEF CreateProfile, Commit
  <2> HIDE DEF s
  <2>4. Flagged(mem)' /\ Flagged(disk)'
    BY <2>1, <2>2, <2>3 DEF Flags, Flagged
  <2> QED
    BY <2>3, <2>4 DEF Flags
<1>6. ASSUME NEW p \in Profiles, NEW saved \in SaveOutcomes, DeleteProfile(w, p, saved) PROVE Flags'
  <2>1. \A q \in Profiles : mem'.profiles[q] = IF q = p THEN "none" ELSE mem.profiles[q]
    BY <1>6 DEF DeleteProfile, Commit, Data
  <2>2. disk' \in {mem', disk} /\ UNCHANGED <<born, jobs, applied>>
    BY <1>6 DEF DeleteProfile, Commit
  <2>3. Flagged(mem)' /\ Flagged(disk)'
    BY <2>1, <2>2 DEF Flags, Flagged
  <2> QED
    BY <2>2, <2>3 DEF Flags
<1>7. ASSUME mem'.profiles = mem.profiles, disk' \in {mem', disk}, born \subseteq born',
             UNCHANGED applied,
             \A v \in Workers : jobs'[v].pc = "update" => jobs'[v] = jobs[v]
      PROVE Flags'
  <2>1. Flagged(mem)' /\ Flagged(disk)'
    BY <1>7 DEF Flags, Flagged
  <2> QED
    BY <1>7, <2>1 DEF Flags
<1>8. ASSUME NEW e \in EntryIds, NEW saved \in SaveOutcomes, CreateHostEntry(w, e, saved) PROVE Flags'
  BY <1>7, <1>8, <1>a DEF CreateHostEntry, Commit, Data
<1>9. ASSUME NEW e \in EntryIds, NEW saved \in SaveOutcomes, DeleteEntry(w, e, saved) PROVE Flags'
  BY <1>7, <1>9 DEF DeleteEntry, Commit, Data
<1>10. ASSUME NEW saved \in SaveOutcomes, UpdateHostEntry(w, saved) PROVE Flags'
  BY <1>7, <1>10, <1>a DEF UpdateHostEntry, Commit, Data
<1>11. ASSUME NEW saved \in SaveOutcomes, UpdateHostProfile(w, saved) PROVE Flags'
  <2>1. UNCHANGED <<born, applied>> /\ Finish(w)
    BY <1>11 DEF UpdateHostProfile
  <2>2. CASE Stored(jobs[w].profile)
    <3>1. /\ jobs[w].profile \in Profiles
          /\ jobs[w].active \in {"inactive", "active"}
          /\ jobs[w].active = "active" <=> jobs[w].profile = applied.profile
      BY <1>0, <1>11 DEF UpdateHostProfile, Flags, Job
    <3>2. \A q \in Profiles : mem'.profiles[q] =
            IF q = jobs[w].profile THEN jobs[w].active ELSE mem.profiles[q]
      BY <1>11, <2>2, <3>1 DEF UpdateHostProfile, Commit, Data
    <3>3. disk' \in {mem', disk}
      BY <1>11, <2>2 DEF UpdateHostProfile, Commit
    <3>4. jobs[w].profile \in born
      BY <2>2, <3>1 DEF Stored, Flags, Flagged
    <3>5. Flagged(mem)' /\ Flagged(disk)'
      BY <2>1, <3>1, <3>2, <3>3, <3>4 DEF Flags, Flagged
    <3> QED
      BY <1>a, <2>1, <3>5 DEF Flags
  <2>3. CASE ~Stored(jobs[w].profile)
    BY <1>11, <1>a, <2>1, <2>3, FlagsKept DEF UpdateHostProfile
  <2> QED
    BY <2>2, <2>3
<1>12. ASSUME NEW saved \in SaveOutcomes, SetActive(w, saved) PROVE Flags'
  <2>1. CASE saved /\ (jobs[w].profile = None \/ Stored(jobs[w].profile))
    <3>1. /\ \A q \in Profiles : mem'.profiles[q] =
               IF ~Stored(q) THEN "none" ELSE IF q = jobs[w].profile THEN "active" ELSE "inactive"
          /\ disk' = mem' /\ applied'.profile = jobs[w].profile /\ born' = born /\ Finish(w)
      BY <1>12, <2>1 DEF SetActive, Data
    <3>2. jobs[w].profile \in born \cup {None}
      BY <1>0, <2>1 DEF Stored, Flags, Flagged, Job
    <3>3. Flagged(mem)' /\ Flagged(disk)'
      BY <3>1 DEF Flags, Flagged, Stored
    <3>4. \A v \in Workers : jobs'[v].pc # "update"
      <4>1. \A v \in Workers \ {w} : jobs[v].pc \notin Locked
        BY <1>12 DEF SetActive, Mutex, Locked
      <4> QED
        BY <1>0, <3>1, <4>1, NoJobType DEF Finish, Locked
    <3> QED
      BY <3>1, <3>2, <3>3, <3>4 DEF Flags
  <2>2. CASE ~(saved /\ (jobs[w].profile = None \/ Stored(jobs[w].profile)))
    BY <1>0, <1>12, <2>2, FlagsKept DEF SetActive, Job
  <2> QED
    BY <2>1, <2>2
<1>13. ASSUME BackUp(w) PROVE Flags'
  BY <1>0, <1>13, FlagsKept DEF BackUp, Job
<1>14. ASSUME GiveUp(w) PROVE Flags'
  BY <1>14, <1>a, FlagsKept DEF GiveUp
<1>15. ASSUME NEW outcome \in WriteOutcomes, WriteFile(w, outcome) PROVE Flags'
  BY <1>0, <1>15, <1>a, FlagsKept DEF WriteFile, Job
<1>16. ASSUME NEW outcome \in WriteOutcomes, Restore(w, outcome) PROVE Flags'
  BY <1>16, <1>a, FlagsKept DEF Restore
<1> QED
  BY <1>1, <1>2, <1>3, <1>4, <1>5, <1>6, <1>8, <1>9, <1>10, <1>11, <1>12,
     <1>13, <1>14, <1>15, <1>16 DEF Step

-----------------------------------------------------------------------------
(* The hosts file follows the store. *)

(* A step that leaves the file and its history alone, and whose goroutine is
   not between write and save, before or after. *)
LEMMA FileKept ==
  ASSUME Types, FileFollows, NEW w \in Workers,
         UNCHANGED <<hosts, applied, torn>>,
         \A v \in Workers \ {w} : jobs'[v] = jobs[v],
         jobs[w].pc \notin {"commit", "restore"},
         jobs'[w].pc \notin {"write", "commit", "restore"}
  PROVE  FileFollows'
BY DEF FileFollows, Between

LEMMA StepFile ==
  ASSUME Types, Mutex, FileFollows, NEW w \in Workers, Step(w)
  PROVE  FileFollows'
<1> USE DEF Types, storeVars, fileVars
<1>0. jobs \in [Workers -> Job] /\ jobs[w] \in Job
  OBVIOUS
<1>a. \A v \in Workers \ {w} : jobs'[v] = jobs[v]
  BY StepJobs
<1>b. ASSUME Finish(w) PROVE jobs'[w].pc = "idle"
  BY <1>0, <1>b, NoJobType DEF Finish
<1>c. ASSUME jobs[w].pc \in Locked PROVE \A v \in Workers \ {w} : jobs[v].pc \notin Locked
  BY <1>c DEF Mutex
<1>1. ASSUME NEW p \in Profiles, UpdateProfile(w, p) \/ ActivateProfile(w, p) \/ DeactivateProfile(w, p)
      PROVE FileFollows'
  <2>1. jobs[w].pc = "idle" /\ jobs'[w].pc \in {"update", "render"}
    <3>1. CASE UpdateProfile(w, p)
      BY <1>0, <3>1 DEF UpdateProfile, NoJob, Idle
    <3>2. CASE ActivateProfile(w, p)
      BY <1>0, <3>2 DEF ActivateProfile, Apply, NoJob, Idle
    <3>3. CASE DeactivateProfile(w, p)
      BY <1>0, <3>3 DEF DeactivateProfile, Apply, NoJob, Idle
    <3> QED
      BY <1>1, <3>1, <3>2, <3>3
  <2>2. UNCHANGED <<hosts, applied, torn>>
    BY <1>1 DEF UpdateProfile, ActivateProfile, DeactivateProfile, Apply
  <2> QED
    BY <1>a, <2>1, <2>2, FileKept
<1>2. ASSUME NEW p \in Profiles, NEW h \in Hostnames, NEW on \in BOOLEAN, CreateEntry(w, p, h, on)
      PROVE FileFollows'
  BY <1>0, <1>a, <1>2, FileKept DEF CreateEntry, NoJob, Idle
<1>3. ASSUME NEW e \in EntryIds, NEW h \in Hostnames, NEW on \in BOOLEAN, UpdateEntry(w, e, h, on)
      PROVE FileFollows'
  BY <1>0, <1>a, <1>3, FileKept DEF UpdateEntry, NoJob, Idle
<1>4. ASSUME NEW p \in Profiles, NEW saved \in SaveOutcomes,
             CreateProfile(w, p, saved) \/ DeleteProfile(w, p, saved)
      PROVE FileFollows'
  BY <1>4, <1>a, FileKept DEF CreateProfile, DeleteProfile, Idle
<1>5. ASSUME NEW e \in EntryIds, NEW saved \in SaveOutcomes,
             CreateHostEntry(w, e, saved) \/ DeleteEntry(w, e, saved)
      PROVE FileFollows'
  BY <1>5, <1>a, <1>b, FileKept DEF CreateHostEntry, DeleteEntry, Idle
<1>6. ASSUME NEW saved \in SaveOutcomes, UpdateHostProfile(w, saved) \/ UpdateHostEntry(w, saved)
      PROVE FileFollows'
  BY <1>6, <1>a, <1>b, FileKept DEF UpdateHostProfile, UpdateHostEntry
<1>7. ASSUME NEW saved \in SaveOutcomes, SetActive(w, saved) PROVE FileFollows'
  <2>1. \A v \in Workers \ {w} : jobs[v].pc \notin Locked
    BY <1>7, <1>c DEF SetActive, Locked
  <2>2. CASE saved /\ (jobs[w].profile = None \/ Stored(jobs[w].profile))
    <3>1. hosts' = hosts /\ applied'.block = jobs[w].lines /\ Finish(w)
      BY <1>7, <2>2 DEF SetActive
    <3>2. hosts.block = jobs[w].lines
      BY <1>7 DEF SetActive, FileFollows
    <3> QED
      BY <1>a, <1>b, <2>1, <3>1, <3>2 DEF FileFollows, Locked
  <2>3. CASE ~(saved /\ (jobs[w].profile = None \/ Stored(jobs[w].profile)))
    <3>1. UNCHANGED <<hosts, applied, torn>> /\ jobs'[w] = [jobs[w] EXCEPT !.pc = "restore"]
          /\ jobs[w].pc = "commit"
      BY <1>0, <1>7, <2>3 DEF SetActive
    <3>2. jobs'[w].pc = "restore" /\ jobs'[w].existing = jobs[w].existing
      BY <1>0, <3>1 DEF Job
    <3>3. jobs[w].existing \in File /\ (torn \/ jobs[w].existing.block = applied.block)
      BY <3>1 DEF FileFollows
    <3>4. \E v \in Workers : Between(v)'
      BY <3>2 DEF Between
    <3> QED
      BY <1>a, <2>1, <3>1, <3>2, <3>3, <3>4 DEF FileFollows, Locked
  <2> QED
    BY <2>2, <2>3
<1>8. ASSUME BackUp(w) PROVE FileFollows'
  <2>1. \A v \in Workers \ {w} : jobs[v].pc \notin Locked
    BY <1>8, <1>c DEF BackUp, Locked
  <2>2. jobs'[w].pc = "write" /\ jobs'[w].existing = hosts
    BY <1>0, <1>8 DEF BackUp, Job
  <2>3. torn \/ hosts.block = applied.block
    BY <1>8, <2>1 DEF BackUp, FileFollows, Between, Locked
  <2> QED
    BY <1>8, <1>a, <2>1, <2>2, <2>3 DEF BackUp, FileFollows, Locked
<1>9. ASSUME GiveUp(w) PROVE FileFollows'
  BY <1>9, <1>a, <1>b, FileKept DEF GiveUp
<1>10. ASSUME NEW outcome \in WriteOutcomes, WriteFile(w, outcome) PROVE FileFollows'
  <2>1. \A v \in Workers \ {w} : jobs[v].pc \notin Locked
    BY <1>10, <1>c DEF WriteFile, Locked
  <2>2. outcome \in {"ok", "failed", "cut"}
    BY HostsAssumption
  <2>3. jobs[w].pc = "write" /\ applied' = applied
        /\ jobs[w].existing \in File /\ (torn \/ jobs[w].existing.block = applied.block)
    BY <1>10 DEF WriteFile, FileFollows
  <2>4. CASE outcome = "ok"
    <3>1. hosts' = [jobs[w].existing EXCEPT !.block = jobs[w].lines] /\ torn' = torn
          /\ jobs' = [jobs EXCEPT ![w].pc = "commit"]
      BY <1>10, <2>4 DEF WriteFile, Written
    <3>2. hosts'.block = jobs[w].lines
      BY <2>3, <3>1 DEF File
    <3>3. jobs'[w].pc = "commit" /\ jobs'[w].existing = jobs[w].existing
          /\ jobs'[w].lines = jobs[w].lines
      BY <1>0, <3>1 DEF Job
    <3> QED
      BY <1>a, <2>1, <2>3, <3>1, <3>2, <3>3 DEF FileFollows, Between, Locked
  <2>5. CASE outcome = "failed"
    <3>1. hosts' = hosts /\ torn' = torn /\ Finish(w)
      BY <1>10, <2>5 DEF WriteFile, Written
    <3>2. torn \/ hosts.block = applied.block
      BY <2>1, <2>3 DEF FileFollows, Between, Locked
    <3> QED
      BY <1>a, <1>b, <2>1, <2>3, <3>1, <3>2 DEF FileFollows, Locked
  <2>6. CASE outcome = "cut"
    <3>1. torn' /\ Finish(w)
      BY <1>10, <2>6 DEF WriteFile
    <3> QED
      BY <1>a, <1>b, <2>1, <3>1 DEF FileFollows, Locked
  <2> QED
    BY <2>2, <2>4, <2>5, <2>6
<1>11. ASSUME NEW outcome \in WriteOutcomes, Restore(w, outcome) PROVE FileFollows'
  <2>1. \A v \in Workers \ {w} : jobs[v].pc \notin Locked
    BY <1>11, <1>c DEF Restore, Locked
  <2>2. Finish(w) /\ applied' = applied /\ torn' = (torn \/ outcome # "ok")
        /\ (torn \/ jobs[w].existing.block = applied.block)
    BY <1>11 DEF Restore, FileFollows
  <2>3. torn' \/ hosts' = jobs[w].existing
    BY <1>11, <2>2 DEF Restore, Restored, Written
  <2> QED
    BY <1>a, <1>b, <2>1, <2>2, <2>3 DEF FileFollows, Locked
<1> QED
  BY <1>1, <1>2, <1>3, <1>4, <1>5, <1>6, <1>7, <1>8, <1>9, <1>10, <1>11 DEF Step

-----------------------------------------------------------------------------
(* Backups. *)

(* Adding a backup keeps the names unique; the new one is among the two newest. *)
LEMMA NewBackup ==
  ASSUME Types, BackupNames, NEW file \in File
  PROVE  /\ \A b \in WithBackup(file) : b.second <= now
         /\ \A b, c \in WithBackup(file) : b.second = c.second /\ b.pid = c.pid => b = c
         /\ \E b \in PruneBackups(WithBackup(file)) : b.holds = file
<1> DEFINE taken == \E b \in backups : b.second = now /\ ~b.pid
           new   == [second |-> now, pid |-> taken, holds |-> file]
           bs    == WithBackup(file)
<1>0. taken \in BOOLEAN /\ now \in Nat
  BY HostsAssumption DEF Types
<1>a. bs \subseteq Backup
  BY WithBackupType DEF Types
<1>b. taken => \E b \in backups : b.second = now /\ b.pid = FALSE
  BY DEF Types, Backup
<1>c. ~taken => \A b \in backups : b.second = now => b.pid = TRUE
  BY DEF Types, Backup
<1>1. bs = {b \in backups : b.second # now \/ b.pid # taken} \cup {new}
  BY DEF WithBackup
<1> HIDE DEF taken, bs
<1>2. new.second = now /\ new.pid = taken /\ new.holds = file
  OBVIOUS
<1> HIDE DEF new
<1>3. \A b \in bs : b.second <= now
  BY <1>0, <1>1, <1>2 DEF BackupNames
<1>4. \A b, c \in bs : b.second = c.second /\ b.pid = c.pid => b = c
  BY <1>1, <1>2 DEF BackupNames
<1>5. \A c \in bs : Before(new, c) => c.second = now /\ c.pid = FALSE
  <2>1. \A c \in bs : c.second \in Nat /\ c.pid \in BOOLEAN
    BY <1>a, HostsAssumption DEF Backup
  <2> QED
    BY <1>0, <1>2, <1>3, <2>1 DEF Before
<1> DEFINE above == {c \in bs : Before(new, c)}
<1>6. IsFiniteSet(above) /\ Cardinality(above) <= 1
  <2>1. CASE above = {}
    <3>1. IsFiniteSet({}) /\ Cardinality({}) = 0
      BY FS_EmptySet
    <3> HIDE DEF above
    <3> QED
      BY <2>1, <3>1
  <2>2. CASE above # {}
    <3>1. PICK c \in above : TRUE
      BY <2>2
    <3>2. above = {c}
      BY <1>4, <1>5, <3>1
    <3>3. IsFiniteSet({c}) /\ Cardinality({c}) = 1
      BY FS_Singleton
    <3> HIDE DEF above
    <3> QED
      BY <3>2, <3>3
  <2> QED
    BY <2>1, <2>2
<1>7. Cardinality(above) < KeepBackups
  <2> HIDE DEF above
  <2> QED
    BY <1>6, FS_CardinalityType, HostsAssumption
<1>8. new \in PruneBackups(bs)
  BY <1>1, <1>7 DEF PruneBackups, Newest
<1> QED
  BY <1>2, <1>3, <1>4, <1>8 DEF bs

LEMMA PruneSubset == \A bs : PruneBackups(bs) \subseteq bs
  BY DEF PruneBackups, Newest

LEMMA NamesSubset ==
  ASSUME Types, BackupNames, NEW file \in File, backups' \subseteq WithBackup(file), now' = now
  PROVE  BackupNames'
BY NewBackup DEF BackupNames

(* A step without a backup that starts no operation keeps what is recoverable. *)
LEMMA RecoverableKept ==
  ASSUME Recoverable, UNCHANGED <<backups, replaced, now>>,
         \A v \in Workers : jobs'[v].pc = "render" => jobs[v].pc = "render"
  PROVE  Recoverable'
BY DEF Recoverable, BackupNames, OriginalBackedUp

LEMMA StepRecoverable ==
  ASSUME Types, Mutex, Recoverable, NEW w \in Workers, Step(w)
  PROVE  Recoverable'
<1> USE DEF Types, storeVars, fileVars, runVars
<1>0. jobs \in [Workers -> Job] /\ jobs[w] \in Job
  OBVIOUS
<1>a. \A v \in Workers \ {w} : jobs'[v] = jobs[v]
  BY StepJobs
<1>b. ASSUME Finish(w) PROVE jobs'[w].pc = "idle"
  BY <1>0, <1>b, NoJobType DEF Finish
<1>1. ASSUME NEW p \in Profiles, ActivateProfile(w, p) \/ DeactivateProfile(w, p) PROVE Recoverable'
  <2>1. UNCHANGED <<backups, now>> /\ replaced' = None
    BY <1>1 DEF ActivateProfile, DeactivateProfile, Apply
  <2> QED
    BY <2>1 DEF Recoverable, BackupNames, OriginalBackedUp
<1>2. ASSUME NEW p \in Profiles, UpdateProfile(w, p) PROVE Recoverable'
  BY <1>0, <1>a, <1>2, RecoverableKept DEF UpdateProfile, NoJob
<1>3. ASSUME NEW p \in Profiles, NEW h \in Hostnames, NEW on \in BOOLEAN, CreateEntry(w, p, h, on)
      PROVE Recoverable'
  BY <1>0, <1>a, <1>3, RecoverableKept DEF CreateEntry, NoJob
<1>4. ASSUME NEW e \in EntryIds, NEW h \in Hostnames, NEW on \in BOOLEAN, UpdateEntry(w, e, h, on)
      PROVE Recoverable'
  BY <1>0, <1>a, <1>4, RecoverableKept DEF UpdateEntry, NoJob
<1>5. ASSUME NEW p \in Profiles, NEW saved \in SaveOutcomes,
             CreateProfile(w, p, saved) \/ DeleteProfile(w, p, saved)
      PROVE Recoverable'
  BY <1>5, RecoverableKept DEF CreateProfile, DeleteProfile
<1>6. ASSUME NEW e \in EntryIds, NEW saved \in SaveOutcomes,
             CreateHostEntry(w, e, saved) \/ DeleteEntry(w, e, saved)
      PROVE Recoverable'
  BY <1>6, <1>a, <1>b, RecoverableKept DEF CreateHostEntry, DeleteEntry
<1>7. ASSUME NEW saved \in SaveOutcomes, UpdateHostProfile(w, saved) \/ UpdateHostEntry(w, saved)
      PROVE Recoverable'
  BY <1>7, <1>a, <1>b, RecoverableKept DEF UpdateHostProfile, UpdateHostEntry
<1>8. ASSUME NEW saved \in SaveOutcomes, SetActive(w, saved) PROVE Recoverable'
  <2>1. jobs'[w].pc # "render"
    BY <1>0, <1>8, <1>b DEF SetActive, Job
  <2> QED
    BY <1>8, <1>a, <2>1, RecoverableKept DEF SetActive
<1>9. ASSUME BackUp(w) PROVE Recoverable'
  <2>1. BackupNames'
    BY <1>9, PruneSubset, NamesSubset DEF BackUp, Recoverable
  <2>2. OriginalBackedUp'
    BY <1>9, NewBackup DEF BackUp, Recoverable, OriginalBackedUp
  <2>3. \A v \in Workers : jobs'[v].pc # "render"
    <3>1. jobs'[w].pc = "write"
      BY <1>0, <1>9 DEF BackUp, Job
    <3>2. \A v \in Workers \ {w} : jobs[v].pc \notin Locked
      BY <1>9 DEF BackUp, Mutex, Locked
    <3> QED
      BY <1>a, <3>1, <3>2 DEF Locked
  <2> QED
    BY <2>1, <2>2, <2>3 DEF Recoverable
<1>10. ASSUME GiveUp(w) PROVE Recoverable'
  <2>1. replaced' = None
    BY <1>10 DEF GiveUp, Recoverable
  <2>2. BackupNames'
    <3>1. CASE backups' = backups
      BY <1>10, <3>1 DEF GiveUp, Recoverable, BackupNames
    <3>2. CASE backups' = WithBackup(hosts)
      BY <1>10, <3>2, NamesSubset DEF GiveUp, Recoverable
    <3> QED
      BY <1>10, <3>1, <3>2 DEF GiveUp
  <2> QED
    BY <2>1, <2>2 DEF Recoverable, OriginalBackedUp
<1>11. ASSUME NEW outcome \in WriteOutcomes, WriteFile(w, outcome) PROVE Recoverable'
  <2>1. jobs'[w].pc # "render"
    BY <1>0, <1>11, <1>b DEF WriteFile, Job
  <2> QED
    BY <1>11, <1>a, <2>1, RecoverableKept DEF WriteFile
<1>12. ASSUME NEW outcome \in WriteOutcomes, Restore(w, outcome) PROVE Recoverable'
  BY <1>12, <1>a, <1>b, RecoverableKept DEF Restore
<1> QED
  BY <1>1, <1>2, <1>3, <1>4, <1>5, <1>6, <1>7, <1>8, <1>9, <1>10, <1>11, <1>12 DEF Step

-----------------------------------------------------------------------------
(* The invariant. *)

LEMMA OtherSteps ==
  ASSUME IInv, Tick \/ Restart
  PROVE  IInv'
<1> USE DEF IInv
<1>1. Types'
  BY OtherType
<1>2. CASE Tick
  <2>1. UNCHANGED <<mem, disk, born, hosts, backups, jobs, applied, torn, replaced>> /\ now' = now + 1
    BY <1>2 DEF Tick, storeVars, fileVars
  <2>2. BackupNames'
    <3>1. \A b \in backups : b.second \in Nat /\ now \in Nat
      BY HostsAssumption DEF Types, Backup
    <3> QED
      BY <2>1, <3>1 DEF Recoverable, BackupNames
  <2> QED
    BY <1>1, <2>1, <2>2 DEF Mutex, Flags, Flagged, FileFollows, Between, Recoverable, OriginalBackedUp
<1>3. CASE Restart
  <2>1. /\ mem' = disk
        /\ torn' = (torn \/ \E w \in Workers : Between(w))
        /\ \A w \in Workers : jobs'[w].pc = "idle"
        /\ now' = now + 1
        /\ UNCHANGED <<disk, born, hosts, backups, applied, replaced>>
    BY <1>3, NoJobType DEF Restart, Between
  <2>2. BackupNames'
    <3>1. \A b \in backups : b.second \in Nat /\ now \in Nat
      BY HostsAssumption DEF Types, Backup
    <3> QED
      BY <2>1, <3>1 DEF Recoverable, BackupNames
  <2>3. Mutex'
    BY <2>1 DEF Mutex, Locked
  <2>4. Flags'
    BY <2>1 DEF Flags, Flagged
  <2>5. FileFollows'
    BY <2>1 DEF FileFollows
  <2>6. Recoverable'
    BY <2>1, <2>2 DEF Recoverable, OriginalBackedUp
  <2> QED
    BY <1>1, <2>3, <2>4, <2>5, <2>6
<1> QED
  BY <1>2, <1>3

LEMMA InitIInv == Init => IInv
<1> SUFFICES ASSUME Init PROVE IInv
  OBVIOUS
<1> USE DEF Init
<1>1. \A w \in Workers : jobs[w] = NoJob /\ NoJob \in Job /\ NoJob.pc = "idle"
  BY NoJobType
<1>2. Types
  <2>1. mem \in Data /\ disk \in Data
    BY DEF Data
  <2>2. {Absent, Broken, {}} \subseteq Block
    BY DEF Block
  <2>3. hosts \in File
    BY <2>2 DEF File
  <2>4. applied \in [profile: Profiles \cup {None}, block: Block]
    BY <2>3 DEF File
  <2>5. jobs \in [Workers -> Job]
    BY NoJobType
  <2>6. now \in 0..MaxTime /\ restarts \in 0..MaxRestarts
    BY HostsAssumption
  <2> QED
    BY <2>1, <2>3, <2>4, <2>5, <2>6 DEF Types
<1>3. Mutex /\ Flags /\ FileFollows /\ Recoverable
  BY <1>1 DEF Mutex, Locked, Flags, Flagged, FileFollows, Recoverable, BackupNames, OriginalBackedUp
<1> QED
  BY <1>2, <1>3 DEF IInv

LEMMA NextIInv == IInv /\ [Next]_vars => IInv'
<1> SUFFICES ASSUME IInv, [Next]_vars PROVE IInv'
  OBVIOUS
<1>1. ASSUME NEW w \in Workers, Step(w) PROVE IInv'
  BY <1>1, WorkerType, StepMutex, StepFlags, StepFile, StepRecoverable DEF IInv
<1>2. CASE UNCHANGED vars
  BY <1>2 DEF vars, IInv, Types, Mutex, Flags, Flagged, FileFollows, Between, Recoverable,
     BackupNames, OriginalBackedUp
<1> QED
  BY <1>1, <1>2, OtherSteps DEF Next

LEMMA Invariance == Spec => []IInv
<1> QED
  BY InitIInv, NextIInv, PTL DEF Spec

-----------------------------------------------------------------------------
(* Ids are never taken back, so only a step that writes an entry or prepares a
   write can disturb KnownProfiles. *)
LEMMA NamesKept ==
  ASSUME KnownProfiles, born \subseteq born',
         mem'.entries = mem.entries \/ (\A e \in EntryIds : mem'.entries[e] \in {None, mem.entries[e]}),
         disk' \in {disk, mem'} \/ disk'.entries = disk.entries,
         \A w \in Workers : jobs'[w].rec \in {None, jobs[w].rec}
  PROVE  KnownProfiles'
  BY DEF KnownProfiles

(* One step of a goroutine: an entry is prepared for a stored profile, which was
   handed out, or copied from a stored entry. *)
LEMMA StepNames ==
  ASSUME IInv, KnownProfiles, NEW w \in Workers, Step(w)
  PROVE  KnownProfiles'
<1> USE DEF storeVars, fileVars, runVars
<1>0. /\ mem \in Data /\ disk \in Data /\ jobs \in [Workers -> Job]
      /\ NoJob.rec = None
      /\ \A p \in Profiles : Stored(p) => p \in born
  BY DEF IInv, Types, Flags, Flagged, NoJob, Stored
<1>a. ASSUME Finish(w) PROVE \A v \in Workers : jobs'[v].rec \in {None, jobs[v].rec}
  BY <1>a, <1>0 DEF Finish
<1>b. ASSUME NEW job, job.rec = None, jobs' = [jobs EXCEPT ![w] = job]
      PROVE  \A v \in Workers : jobs'[v].rec \in {None, jobs[v].rec}
  BY <1>b, <1>0
<1>c. \A f, rec : [mem EXCEPT !.entries[f] = rec].entries = [mem.entries EXCEPT ![f] = rec]
  BY <1>0 DEF Data
<1>1. ASSUME NEW p \in Profiles, UpdateProfile(w, p) PROVE KnownProfiles'
  <2>1. [NoJob EXCEPT !.pc = "update", !.profile = p, !.active = mem.profiles[p]].rec = None
    BY DEF NoJob
  <2> QED
    BY <1>1, <1>b, <2>1, NamesKept DEF UpdateProfile
<1>2. ASSUME NEW p, NEW lines, Apply(w, p, lines) PROVE KnownProfiles'
  <2>1. [NoJob EXCEPT !.pc = "render", !.profile = p, !.lines = lines].rec = None
    BY DEF NoJob
  <2> QED
    BY <1>2, <1>b, <2>1, NamesKept DEF Apply
<1>3. ASSUME NEW p \in Profiles, NEW h \in Hostnames, NEW on \in BOOLEAN, CreateEntry(w, p, h, on)
      PROVE KnownProfiles'
  <2> DEFINE job == [NoJob EXCEPT !.pc = "insert",
                                  !.rec = [profile |-> p, hostname |-> h, enabled |-> on]]
  <2>1. job.rec.profile = p /\ p \in born
    BY <1>0, <1>3 DEF CreateEntry, NoJob
  <2>2. jobs' = [jobs EXCEPT ![w] = job] /\ UNCHANGED <<mem, disk, born>>
    BY <1>3 DEF CreateEntry
  <2> HIDE DEF job
  <2> QED
    BY <1>0, <2>1, <2>2 DEF KnownProfiles
<1>4. ASSUME NEW e \in EntryIds, NEW h \in Hostnames, NEW on \in BOOLEAN, UpdateEntry(w, e, h, on)
      PROVE KnownProfiles'
  <2> DEFINE job == [NoJob EXCEPT !.pc = "change", !.entry = e,
                       !.rec = [mem.entries[e] EXCEPT !.hostname = h, !.enabled = on]]
  <2>1. mem.entries[e] # None /\ mem.entries[e] \in Entry
    BY <1>0, <1>4 DEF UpdateEntry, Data
  <2>2. job.rec.profile = mem.entries[e].profile
    BY <2>1 DEF NoJob, Entry
  <2>3. job.rec.profile \in born
    BY <2>1, <2>2 DEF KnownProfiles
  <2>4. jobs' = [jobs EXCEPT ![w] = job] /\ UNCHANGED <<mem, disk, born>>
    BY <1>4 DEF UpdateEntry
  <2> HIDE DEF job
  <2> QED
    BY <1>0, <2>3, <2>4 DEF KnownProfiles
<1>5. ASSUME NEW p \in Profiles, NEW saved \in SaveOutcomes,
             CreateProfile(w, p, saved) \/ DeleteProfile(w, p, saved)
      PROVE KnownProfiles'
  <2>1. CASE CreateProfile(w, p, saved)
    <3>1. mem'.entries = mem.entries
      BY <1>0, <2>1 DEF CreateProfile, Commit, Data
    <3> QED
      BY <2>1, <3>1, NamesKept DEF CreateProfile, Commit
  <2>2. CASE DeleteProfile(w, p, saved)
    <3>1. \A e \in EntryIds : mem'.entries[e] \in {None, mem.entries[e]}
      BY <2>2 DEF DeleteProfile, Commit
    <3> QED
      BY <2>2, <3>1, NamesKept DEF DeleteProfile, Commit
  <2> QED
    BY <1>5, <2>1, <2>2
<1>6. ASSUME NEW e \in EntryIds, NEW saved \in SaveOutcomes,
             CreateHostEntry(w, e, saved) \/ DeleteEntry(w, e, saved)
      PROVE KnownProfiles'
  <2>1. CASE CreateHostEntry(w, e, saved)
    <3>1. mem'.entries = [mem.entries EXCEPT ![e] = jobs[w].rec] /\ disk' \in {disk, mem'}
      BY <1>c, <2>1 DEF CreateHostEntry, Commit
    <3>2. born \subseteq born' /\ Finish(w)
      BY <2>1 DEF CreateHostEntry
    <3> QED
      BY <1>0, <1>a, <3>1, <3>2 DEF KnownProfiles, Data
  <2>2. CASE DeleteEntry(w, e, saved)
    <3>1. mem'.entries = [mem.entries EXCEPT ![e] = None] /\ disk' \in {disk, mem'}
      BY <1>c, <2>2 DEF DeleteEntry, Commit
    <3>2. \A f \in EntryIds : mem'.entries[f] \in {None, mem.entries[f]}
      BY <1>0, <3>1 DEF Data
    <3> QED
      BY <2>2, <3>1, <3>2, NamesKept DEF DeleteEntry
  <2> QED
    BY <1>6, <2>1, <2>2
<1>7. ASSUME NEW saved \in SaveOutcomes, UpdateHostEntry(w, saved) PROVE KnownProfiles'
  <2>1. \/ UNCHANGED <<mem, disk>>
     \/ /\ mem'.entries = [mem.entries EXCEPT ![jobs[w].entry] = jobs[w].rec]
        /\ disk' \in {disk, mem'}
    BY <1>c, <1>7 DEF UpdateHostEntry, Commit
  <2>2. born' = born /\ Finish(w)
    BY <1>7 DEF UpdateHostEntry
  <2>3. CASE UNCHANGED <<mem, disk>>
    BY <1>a, <2>2, <2>3, NamesKept
  <2>4. CASE ~UNCHANGED <<mem, disk>>
    BY <1>0, <1>a, <2>1, <2>2, <2>4 DEF KnownProfiles, Data
  <2> QED
    BY <2>3, <2>4
<1>8. ASSUME NEW saved \in SaveOutcomes, UpdateHostProfile(w, saved) \/ SetActive(w, saved)
      PROVE KnownProfiles'
  <2>1. \A f : [mem EXCEPT !.profiles = f].entries = mem.entries
    BY <1>0 DEF Data
  <2>2. CASE UpdateHostProfile(w, saved)
    <3>1. mem'.entries = mem.entries /\ disk' \in {disk, mem'}
      BY <1>0, <2>2 DEF UpdateHostProfile, Commit, Data
    <3> QED
      BY <1>a, <2>2, <3>1, NamesKept DEF UpdateHostProfile
  <2>3. CASE SetActive(w, saved)
    <3>1. mem'.entries = mem.entries /\ disk' \in {disk, mem'} /\ born' = born
      BY <2>1, <2>3 DEF SetActive
    <3>2. \A v \in Workers : jobs'[v].rec \in {None, jobs[v].rec}
      <4>1. Finish(w) \/ jobs' = [jobs EXCEPT ![w].pc = "restore"]
        BY <2>3 DEF SetActive
      <4>2. [jobs[w] EXCEPT !.pc = "restore"].rec = jobs[w].rec
        BY <1>0 DEF Job
      <4> QED
        BY <1>0, <1>a, <4>1, <4>2
    <3> QED
      BY <3>1, <3>2, NamesKept
  <2> QED
    BY <1>8, <2>2, <2>3
<1>9. ASSUME BackUp(w) \/ GiveUp(w)
             \/ \E outcome \in WriteOutcomes : WriteFile(w, outcome) \/ Restore(w, outcome)
      PROVE KnownProfiles'
  <2>1. UNCHANGED <<mem, disk, born>>
    BY <1>9 DEF BackUp, GiveUp, WriteFile, Restore
  <2>2. \/ Finish(w)
        \/ jobs' = [jobs EXCEPT ![w].pc = "commit"]
        \/ jobs' = [jobs EXCEPT ![w] = [@ EXCEPT !.pc = "write", !.existing = hosts]]
    BY <1>9 DEF BackUp, GiveUp, WriteFile, Restore
  <2>3. /\ [jobs[w] EXCEPT !.pc = "commit"].rec = jobs[w].rec
        /\ [jobs[w] EXCEPT !.pc = "write", !.existing = hosts].rec = jobs[w].rec
    BY <1>0 DEF Job
  <2>4. \A v \in Workers : jobs'[v].rec \in {None, jobs[v].rec}
    BY <1>0, <1>a, <2>2, <2>3
  <2> QED
    BY <2>1, <2>4, NamesKept
<1> QED
  BY <1>1, <1>2, <1>3, <1>4, <1>5, <1>6, <1>8, <1>9, <1>7
  DEF Step, ActivateProfile, DeactivateProfile

LEMMA NextNames == IInv /\ KnownProfiles /\ [Next]_vars => KnownProfiles'
<1> SUFFICES ASSUME IInv, KnownProfiles, [Next]_vars PROVE KnownProfiles'
  OBVIOUS
<1>1. ASSUME NEW w \in Workers, Step(w) PROVE KnownProfiles'
  BY <1>1, StepNames
<1>2. CASE Tick \/ UNCHANGED vars
  BY <1>2 DEF Tick, KnownProfiles, storeVars, vars
<1>3. CASE Restart
  BY <1>3, NamesKept DEF Restart, KnownProfiles, NoJob
<1> QED
  BY <1>1, <1>2, <1>3 DEF Next

(* Every variable always has its type, and every entry, stored or about to be,
   names a profile that was handed out, whatever became of the profile since. *)
THEOREM TypeCorrect == Spec => []TypeOK
<1>1. Init => KnownProfiles
  BY DEF Init, KnownProfiles, NoJob
<1>2. IInv /\ KnownProfiles => TypeOK
  BY DEF IInv, TypeOK
<1> QED
  BY <1>1, <1>2, NextNames, Invariance, PTL DEF Spec

(* However profile edits, activations, failed saves and restarts interleave,
   there is never a second active profile (Service.mu). *)
THEOREM OneProfileActive == Spec => []OneActive
<1>1. IInv => OneActive
  BY DEF IInv, Flags, Flagged, OneActive
<1> QED
  BY <1>1, Invariance, PTL

(* Hosts file and activation state agree whenever no operation is under way
   and none was interrupted between the two (ApplyAndCommit). *)
THEOREM FileAndStoreAgree == Spec => []InSync
<1>1. IInv => InSync
  <2> SUFFICES ASSUME IInv, \A w \in Workers : jobs[w].pc \notin Locked, ~torn
               PROVE  /\ hosts.block = applied.block
                      /\ \A p \in Profiles : Stored(p) =>
                           (mem.profiles[p] = "active" <=> p = applied.profile)
    BY DEF InSync
  <2> QED
    BY DEF IInv, FileFollows, Between, Locked, Flags, Flagged, Stored
<1> QED
  BY <1>1, Invariance, PTL

(* What an operation replaces can be recovered, whatever happens to the write
   (writeBackup and pruneBackups, with their sorting of names). *)
THEOREM ReplacedIsBackedUp == Spec => []OriginalBackedUp
<1>1. IInv => OriginalBackedUp
  BY DEF IInv, Recoverable
<1> QED
  BY <1>1, Invariance, PTL

(* A deleted entry stays deleted until a restart: the only writes of entries
   are of a fresh id and behind UpdateHostEntry's lookup. *)
THEOREM EntryDeletionIsFinal == Spec => EntryStaysDeleted
<1> DEFINE Gone == restarts' = restarts =>
             \A e \in EntryIds \cap born : mem.entries[e] = None => mem'.entries[e] = None
<1>1. IInv /\ [Next]_vars => [Gone]_vars
  <2> SUFFICES ASSUME IInv, Next, restarts' = restarts,
                      NEW e \in EntryIds \cap born, mem.entries[e] = None
               PROVE  mem'.entries[e] = None
    BY DEF vars
  <2>0. mem \in Data
    BY DEF IInv, Types
  <2>1. ASSUME NEW w \in Workers, Step(w) PROVE mem'.entries[e] = None
    <3> USE DEF storeVars
    <3>1. ASSUME NEW p \in Profiles, UpdateProfile(w, p) \/ ActivateProfile(w, p) \/ DeactivateProfile(w, p)
          PROVE mem'.entries[e] = None
      BY <3>1 DEF UpdateProfile, ActivateProfile, DeactivateProfile, Apply
    <3>2. ASSUME NEW p \in Profiles, NEW h \in Hostnames, NEW on \in BOOLEAN, CreateEntry(w, p, h, on)
          PROVE mem'.entries[e] = None
      BY <3>2 DEF CreateEntry
    <3>3. ASSUME NEW f \in EntryIds, NEW h \in Hostnames, NEW on \in BOOLEAN, UpdateEntry(w, f, h, on)
          PROVE mem'.entries[e] = None
      BY <3>3 DEF UpdateEntry
    <3>4. ASSUME NEW p \in Profiles, NEW saved \in SaveOutcomes,
                 CreateProfile(w, p, saved) \/ DeleteProfile(w, p, saved)
          PROVE mem'.entries[e] = None
      BY <2>0, <3>4 DEF CreateProfile, DeleteProfile, Commit, Data
    <3>5. ASSUME NEW f \in EntryIds, NEW saved \in SaveOutcomes,
                 CreateHostEntry(w, f, saved) \/ DeleteEntry(w, f, saved)
          PROVE mem'.entries[e] = None
      <4>1. \A rec : [mem EXCEPT !.entries[f] = rec].entries = [mem.entries EXCEPT ![f] = rec]
        BY <2>0 DEF Data
      <4>2. CASE CreateHostEntry(w, f, saved)
        <5>1. f # e
          BY <4>2 DEF CreateHostEntry
        <5> QED
          BY <2>0, <4>1, <4>2, <5>1 DEF CreateHostEntry, Commit, Data
      <4>3. CASE DeleteEntry(w, f, saved)
        BY <2>0, <4>1, <4>3 DEF DeleteEntry, Commit, Data
      <4> QED
        BY <3>5, <4>2, <4>3
    <3>6. ASSUME NEW saved \in SaveOutcomes, UpdateHostProfile(w, saved) \/ UpdateHostEntry(w, saved)
          PROVE mem'.entries[e] = None
      <4>1. CASE UpdateHostProfile(w, saved)
        BY <2>0, <4>1 DEF UpdateHostProfile, Commit, Data
      <4>2. CASE UpdateHostEntry(w, saved)
        BY <2>0, <4>2 DEF UpdateHostEntry, EntryThere, Commit, Data
      <4> QED
        BY <3>6, <4>1, <4>2
    <3>7. ASSUME NEW saved \in SaveOutcomes, SetActive(w, saved) PROVE mem'.entries[e] = None
      BY <2>0, <3>7 DEF SetActive, Data
    <3>8. ASSUME BackUp(w) \/ GiveUp(w) PROVE mem'.entries[e] = None
      BY <3>8 DEF BackUp, GiveUp
    <3>9. ASSUME NEW outcome \in WriteOutcomes, WriteFile(w, outcome) \/ Restore(w, outcome)
          PROVE mem'.entries[e] = None
      BY <3>9 DEF WriteFile, Restore
    <3> QED
      BY <2>1, <3>1, <3>2, <3>3, <3>4, <3>5, <3>6, <3>7, <3>8, <3>9 DEF Step
  <2>2. CASE Tick
    BY <2>2 DEF Tick, storeVars
  <2>3. CASE Restart
    BY <2>3, HostsAssumption DEF Restart, IInv, Types
  <2> QED
    BY <2>1, <2>2, <2>3 DEF Next
<1> QED
  BY <1>1, Invariance, PTL DEF Spec, EntryStaysDeleted

=============================================================================
