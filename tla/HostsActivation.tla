--------------------------- MODULE HostsActivation ----------------------------
(***************************************************************************)
(* Named profiles of hosts entries, of which one may be active: its enabled  *)
(* entries are rendered into the managed block of the system hosts file      *)
(* (internal/service/hosts, internal/syshosts, the host tables of            *)
(* internal/store/json.go).  An activation spans two files, the hosts file    *)
(* and store.json, either of which may refuse to be written, and the process *)
(* may stop between them.                                                    *)
(*                                                                         *)
(* Service.mu serializes activations and the edits and deletions of profiles *)
(* but not the edits of entries.  It is held in the states Locked names, so  *)
(* it is no variable; JSONStore's mutex makes each store call one step.       *)
(***************************************************************************)
EXTENDS Naturals, FiniteSets

CONSTANTS
  Profiles, EntryIds,  \* uuids the store may hand out
  Hostnames,
  Workers,         \* goroutines serving admin requests
  KeepBackups,     \* backups kept (20 in NewRenderer)
  MaxTime,         \* bound on the clock, in seconds
  MaxRestarts,
  SaveOutcomes,    \* results save() may have
  WriteOutcomes,   \* results writeAtomic may have: see Written
  None

ASSUME HostsAssumption ==
  /\ KeepBackups \in Nat /\ KeepBackups >= 2
  /\ MaxTime \in Nat /\ MaxRestarts \in Nat
  /\ SaveOutcomes \subseteq BOOLEAN
  /\ WriteOutcomes \subseteq {"ok", "failed", "cut"}
  /\ None \notin Profiles \cup EntryIds

VARIABLES
  mem, disk,   \* JSONStore.data and store.json
  born,        \* profile and entry ids already handed out
  hosts,       \* the hosts file
  backups,     \* the files of BackupDir
  jobs,        \* per goroutine, the request it is serving
  now,         \* seconds
  restarts,
  applied,     \* history: the last activation or deactivation that succeeded
  torn,        \* history: the file was left changed by one that did not
  replaced     \* history: what the last operation on the file read, once backed up

vars == <<mem, disk, born, hosts, backups, jobs, now, restarts, applied, torn, replaced>>

Entry == [profile: Profiles, hostname: Hostnames, enabled: BOOLEAN]
Data  == [profiles: [Profiles -> {"none", "inactive", "active"}],
          entries:  [EntryIds -> Entry \cup {None}]]

(* The managed block: the names it maps, or what stands for no valid block. *)
Absent == {"neither marker"}
Broken == {"one marker, or two in the wrong order"}
Block  == (SUBSET Hostnames) \cup {Absent, Broken}

(* intact: everything outside the block is as the operator wrote it. *)
File  == [block: Block, intact: BOOLEAN]

(* hosts-<second>.bak, or hosts-<second>-<pid>.bak when that name is taken. *)
Backup == [second: 0..MaxTime, pid: BOOLEAN, holds: File]

Job == [pc: {"idle", "update", "render", "write", "commit", "restore", "insert", "change"},
        profile: Profiles \cup {None}, active: {"none", "inactive", "active"},
        lines: SUBSET Hostnames, existing: File \cup {None},
        entry: EntryIds \cup {None}, rec: Entry \cup {None}]

NoJob == [pc |-> "idle", profile |-> None, active |-> "none", lines |-> {}, existing |-> None,
          entry |-> None, rec |-> None]

Idle(w)  == jobs[w].pc = "idle"
Finish(w) == jobs' = [jobs EXCEPT ![w] = NoJob]

Unlocked == TRUE   \* faulty variant: Service.mu is forgotten
Locked   == {"update", "render", "write", "commit", "restore"}
MuFree   == \A w \in Workers : jobs[w].pc \notin Locked

storeVars == <<mem, disk, born>>
fileVars  == <<hosts, backups, applied, torn, replaced>>
runVars   == <<now, restarts>>

(* Every mutator but SetActiveHostProfile: memory keeps the edit whatever
   save() returned. *)
Commit(s, saved) == mem' = s /\ disk' = IF saved THEN s ELSE disk

Stored(p) == mem.profiles[p] # "none"

-----------------------------------------------------------------------------
(* Profiles. *)

CreateProfile(w, p, saved) ==
  /\ Idle(w)
  /\ p \notin born
  /\ born' = born \cup {p}
  /\ Commit([mem EXCEPT !.profiles[p] = "inactive"], saved)
  /\ UNCHANGED <<jobs, fileVars, runVars>>

(* UpdateProfile: GetProfile, then the whole record is written back, with the
   IsActive that was read. *)
UpdateProfile(w, p) ==
  /\ Idle(w) /\ MuFree
  /\ Stored(p)
  /\ jobs' = [jobs EXCEPT ![w] =
       [NoJob EXCEPT !.pc = "update", !.profile = p, !.active = mem.profiles[p]]]
  /\ UNCHANGED <<storeVars, fileVars, runVars>>

UpdateHostProfile(w, saved) ==
  LET job == jobs[w] IN
  /\ job.pc = "update"
  /\ IF Stored(job.profile)
       THEN Commit([mem EXCEPT !.profiles[job.profile] = job.active], saved)
       ELSE UNCHANGED <<mem, disk>>
  /\ Finish(w)
  /\ UNCHANGED <<born, fileVars, runVars>>

(* The cascade; the hosts file is not looked at. *)
DeleteProfile(w, p, saved) ==
  /\ Idle(w) /\ MuFree
  /\ Stored(p)
  /\ Commit([profiles |-> [mem.profiles EXCEPT ![p] = "none"],
             entries  |-> [e \in EntryIds |->
                IF mem.entries[e] # None /\ mem.entries[e].profile = p
                THEN None ELSE mem.entries[e]]], saved)
  /\ UNCHANGED <<born, jobs, fileVars, runVars>>

-----------------------------------------------------------------------------
(* Entries: checked, then written, without Service.mu. *)

(* assertNoDuplicateHostname *)
NoDuplicate(p, h, except) ==
  \A e \in EntryIds \ {except} :
    mem.entries[e] # None /\ mem.entries[e].profile = p => mem.entries[e].hostname # h

CreateEntry(w, p, h, on) ==
  /\ Idle(w)
  /\ Stored(p)
  /\ NoDuplicate(p, h, None)
  /\ jobs' = [jobs EXCEPT ![w] =
       [NoJob EXCEPT !.pc = "insert", !.rec = [profile |-> p, hostname |-> h, enabled |-> on]]]
  /\ UNCHANGED <<storeVars, fileVars, runVars>>

(* CreateHostEntry does not look for the profile. *)
CreateHostEntry(w, e, saved) ==
  /\ jobs[w].pc = "insert"
  /\ e \notin born
  /\ born' = born \cup {e}
  /\ Commit([mem EXCEPT !.entries[e] = jobs[w].rec], saved)
  /\ Finish(w)
  /\ UNCHANGED <<fileVars, runVars>>

UpdateEntry(w, e, h, on) ==
  /\ Idle(w)
  /\ mem.entries[e] # None
  /\ NoDuplicate(mem.entries[e].profile, h, e)
  /\ jobs' = [jobs EXCEPT ![w] =
       [NoJob EXCEPT !.pc = "change", !.entry = e,
          !.rec = [mem.entries[e] EXCEPT !.hostname = h, !.enabled = on]]]
  /\ UNCHANGED <<storeVars, fileVars, runVars>>

(* UpdateHostEntry's lookup, and a faulty variant without it. *)
AlwaysThere(e) == TRUE
EntryThere(e)  == mem.entries[e] # None

UpdateHostEntry(w, saved) ==
  /\ jobs[w].pc = "change"
  /\ IF EntryThere(jobs[w].entry)
       THEN Commit([mem EXCEPT !.entries[jobs[w].entry] = jobs[w].rec], saved)
       ELSE UNCHANGED <<mem, disk>>
  /\ Finish(w)
  /\ UNCHANGED <<born, fileVars, runVars>>

DeleteEntry(w, e, saved) ==
  /\ Idle(w)
  /\ mem.entries[e] # None
  /\ Commit([mem EXCEPT !.entries[e] = None], saved)
  /\ UNCHANGED <<born, jobs, fileVars, runVars>>

-----------------------------------------------------------------------------
(* Activation: ActivateProfile, DeactivateProfile and ApplyAndCommit. *)

EnabledLines(p) ==
  {mem.entries[e].hostname :
     e \in {x \in EntryIds : /\ mem.entries[x] # None
                             /\ mem.entries[x].profile = p
                             /\ mem.entries[x].enabled}}

Apply(w, p, lines) ==
  /\ jobs' = [jobs EXCEPT ![w] = [NoJob EXCEPT !.pc = "render", !.profile = p, !.lines = lines]]
  /\ replaced' = None
  /\ UNCHANGED <<storeVars, hosts, backups, applied, torn, runVars>>

ActivateProfile(w, p) ==
  /\ Idle(w) /\ MuFree
  /\ Stored(p)
  /\ Apply(w, p, EnabledLines(p))

(* Of an inactive profile it does nothing. *)
DeactivateProfile(w, p) ==
  /\ Idle(w) /\ MuFree
  /\ mem.profiles[p] = "active"
  /\ Apply(w, None, {})

(* Backup names are sorted as strings: "-<pid>.bak" comes before ".bak". *)
Before(b, c) == b.second < c.second \/ (b.second = c.second /\ b.pid /\ ~c.pid)
Newest(bs, n) == {b \in bs : Cardinality({c \in bs : Before(b, c)}) < n}

(* Faulty variant of pruneBackups: removes from the wrong end. *)
PruneNewest(bs) == {b \in bs : Cardinality({c \in bs : Before(c, b)}) < KeepBackups}
PruneBackups(bs) == Newest(bs, KeepBackups)

(* writeBackup before pruning; a third one within a second replaces the second. *)
WithBackup(file) ==
  LET taken == \E b \in backups : b.second = now /\ ~b.pid
  IN  {b \in backups : b.second # now \/ b.pid # taken}
        \cup {[second |-> now, pid |-> taken, holds |-> file]}

(* ReadFile, splitAroundMarkers, writeBackup. *)
BackUp(w) ==
  /\ jobs[w].pc = "render"
  /\ hosts.block # Broken
  /\ backups' = PruneBackups(WithBackup(hosts))
  /\ replaced' = hosts
  /\ jobs' = [jobs EXCEPT ![w] = [@ EXCEPT !.pc = "write", !.existing = hosts]]
  /\ UNCHANGED <<storeVars, hosts, applied, torn, runVars>>

(* No access, no valid block, or no backup: the file is left alone. *)
GiveUp(w) ==
  /\ jobs[w].pc = "render"
  /\ backups' \in {backups, WithBackup(hosts)}
  /\ Finish(w)
  /\ UNCHANGED <<storeVars, hosts, applied, torn, replaced, runVars>>

(* writeAtomic: the rename; or an error that leaves the file alone; or, when
   the rename is refused, a copy that breaks off. *)
Written(file, outcome) ==
  CASE outcome = "ok"     -> {file}
    [] outcome = "failed" -> {hosts}
    [] outcome = "cut"    -> {[block |-> b, intact |-> FALSE] : b \in {file.block, Absent, Broken}}

WriteFile(w, outcome) ==
  LET job == jobs[w] IN
  /\ job.pc = "write"
  /\ hosts' \in Written([job.existing EXCEPT !.block = job.lines], outcome)
  /\ torn' = (torn \/ outcome = "cut")
  /\ IF outcome = "ok" THEN jobs' = [jobs EXCEPT ![w].pc = "commit"] ELSE Finish(w)
  /\ UNCHANGED <<storeVars, backups, applied, replaced, runVars>>

(* SetActiveHostProfile, which undoes itself when save() fails. *)
SetActive(w, saved) ==
  LET job == jobs[w]
      set == [mem EXCEPT !.profiles = [p \in Profiles |->
                IF ~Stored(p) THEN "none" ELSE IF p = job.profile THEN "active" ELSE "inactive"]]
  IN  /\ job.pc = "commit"
      /\ IF saved /\ (job.profile = None \/ Stored(job.profile))
           THEN /\ mem' = set /\ disk' = set
                /\ applied' = [profile |-> job.profile, block |-> job.lines]
                /\ torn' = FALSE
                /\ Finish(w)
           ELSE /\ jobs' = [jobs EXCEPT ![w].pc = "restore"]
                /\ UNCHANGED <<mem, disk, applied, torn>>
      /\ UNCHANGED <<born, hosts, backups, replaced, runVars>>

(* Faulty variant of Restored: the file written for the failed activation stays. *)
NotRestored(existing, outcome) == {hosts}
Restored(existing, outcome) == Written(existing, outcome)

Restore(w, outcome) ==
  /\ jobs[w].pc = "restore"
  /\ hosts' \in Restored(jobs[w].existing, outcome)
  /\ torn' = (torn \/ outcome # "ok")
  /\ Finish(w)
  /\ UNCHANGED <<storeVars, backups, applied, replaced, runVars>>

-----------------------------------------------------------------------------
Tick ==
  /\ now < MaxTime
  /\ now' = now + 1
  /\ UNCHANGED <<storeVars, fileVars, jobs, restarts>>

(* The process stops anywhere; a new one is up no sooner than the next second. *)
Restart ==
  /\ restarts < MaxRestarts /\ restarts' = restarts + 1
  /\ now < MaxTime /\ now' = now + 1
  /\ mem' = disk
  /\ torn' = (torn \/ \E w \in Workers : jobs[w].pc \in {"commit", "restore"})
  /\ jobs' = [w \in Workers |-> NoJob]
  /\ UNCHANGED <<disk, born, hosts, backups, applied, replaced>>

Init ==
  /\ mem = [profiles |-> [p \in Profiles |-> "none"], entries |-> [e \in EntryIds |-> None]]
  /\ disk = mem
  /\ born = {}
  /\ hosts \in [block: {Absent, Broken, {}}, intact: {TRUE}]
  /\ backups = {}
  /\ jobs = [w \in Workers |-> NoJob]
  /\ now = 0
  /\ restarts = 0
  /\ applied = [profile |-> None, block |-> hosts.block]
  /\ torn = FALSE
  /\ replaced = None

Step(w) ==
  \/ \E p \in Profiles : UpdateProfile(w, p) \/ ActivateProfile(w, p) \/ DeactivateProfile(w, p)
  \/ \E p \in Profiles, h \in Hostnames, on \in BOOLEAN : CreateEntry(w, p, h, on)
  \/ \E e \in EntryIds, h \in Hostnames, on \in BOOLEAN : UpdateEntry(w, e, h, on)
  \/ \E saved \in SaveOutcomes :
       \/ \E p \in Profiles : CreateProfile(w, p, saved) \/ DeleteProfile(w, p, saved)
       \/ \E e \in EntryIds : CreateHostEntry(w, e, saved) \/ DeleteEntry(w, e, saved)
       \/ UpdateHostProfile(w, saved) \/ UpdateHostEntry(w, saved) \/ SetActive(w, saved)
  \/ BackUp(w) \/ GiveUp(w)
  \/ \E outcome \in WriteOutcomes : WriteFile(w, outcome) \/ Restore(w, outcome)

Next == (\E w \in Workers : Step(w)) \/ Tick \/ Restart

Spec == Init /\ [][Next]_vars

-----------------------------------------------------------------------------
Types ==
  /\ mem \in Data /\ disk \in Data
  /\ born \subseteq Profiles \cup EntryIds
  /\ hosts \in File
  /\ backups \subseteq Backup
  /\ jobs \in [Workers -> Job]
  /\ now \in 0..MaxTime
  /\ restarts \in 0..MaxRestarts
  /\ applied \in [profile: Profiles \cup {None}, block: Block]
  /\ torn \in BOOLEAN
  /\ replaced \in File \cup {None}

KnownProfiles ==
  /\ \A s \in {mem, disk} : \A e \in EntryIds :
       s.entries[e] # None => s.entries[e].profile \in born
  /\ \A w \in Workers : jobs[w].rec # None => jobs[w].rec.profile \in born

(* Every variable has its type, and an entry, stored or about to be, names a
   profile that was handed out (CreateEntry's and UpdateEntry's lookups;
   CreateHostEntry and UpdateHostEntry look no profile up). *)
TypeOK == Types /\ KnownProfiles

(* At most one profile is active, in memory and in store.json, although
   UpdateProfile writes back an IsActive it read earlier and any save may fail
   (Service.mu, SetActiveHostProfile). *)
OneActive ==
  \A s \in {mem, disk} : \A p, q \in Profiles :
    s.profiles[p] = "active" /\ s.profiles[q] = "active" => p = q

(* While no operation is under way, the managed block and the stored activation
   agree on the last one that succeeded: refused writes and failed saves leave
   both as they were (ApplyAndCommit, SetActiveHostProfile). Three cases are
   excepted until the next success, and torn marks them: an activation whose own
   copy of the file broke off, which the code does not restore (UntouchedOnFailure
   is about it); a restoration that failed; a process that died between the two
   files. *)
InSync ==
  (\A w \in Workers : jobs[w].pc \notin Locked) /\ ~torn =>
    /\ hosts.block = applied.block
    /\ \A p \in Profiles : Stored(p) => (mem.profiles[p] = "active" <=> p = applied.profile)

(* What an operation on the hosts file read can be recovered from a backup from
   the moment the file may change until the next operation begins, also when the
   write broke off or the process died (writeBackup, pruneBackups). *)
OriginalBackedUp == replaced # None => \E b \in backups : b.holds = replaced

(* Within one run of the process a deleted entry never comes back, although
   UpdateEntry writes back a record it read before the deletion. *)
EntryStaysDeleted ==
  [][restarts' = restarts =>
       \A e \in EntryIds \cap born : mem.entries[e] = None => mem'.entries[e] = None]_vars

(* 2026-06-14-hosts-management-design.md:127: "on failure, the file is untouched".
   An activation or deactivation that could not write the hosts file leaves in it
   what it found there. *)
UntouchedOnFailure ==
  [][\A w \in Workers :
       jobs[w].pc = "write" /\ Idle(w)' /\ restarts' = restarts => hosts' = jobs[w].existing]_vars

(* 2026-06-14-hosts-management-design.md:116: the check before an entry is stored ensures that
   no surviving hostname of the profile equals the new one. *)
UniqueHostnames ==
  \A e, f \in EntryIds :
    /\ mem.entries[e] # None /\ mem.entries[f] # None
    /\ mem.entries[e].profile = mem.entries[f].profile
    /\ mem.entries[e].hostname = mem.entries[f].hostname
    => e = f
=============================================================================
