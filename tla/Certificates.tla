----------------------------- MODULE Certificates -----------------------------
(***************************************************************************)
(* internal/service/certificate: the rows of the store, the pair of PEM      *)
(* files of each directory, and the renewer, a goroutine that re-signs what  *)
(* is about to expire while admin requests provision, import, re-sign and    *)
(* delete. No lock spans row and files; a file is written or removed in one  *)
(* step, a failed or interrupted write may leave a torn file.                *)
(* Left out: X.509 (a leaf is a number), names and subjects, the reload      *)
(* after each change (RouterManager has it).                                  *)
(***************************************************************************)
EXTENDS Naturals, FiniteSets

CONSTANTS
  CertIds,      \* uuids of certificates, none given twice
  Bases,        \* domains without the leading "*."
  Editors,      \* admin requests that may be under way at once
  Renewer,
  MaxLeaves,    \* bound on the leaves issued or imported
  MaxRestarts,  \* bound on crashes and restarts
  SaveOutcomes, \* whether save() succeeds
  FileOutcomes, \* whether a write or removal of a file succeeds
  NoRow

Workers == Editors \cup {Renewer}
Domains == [wild: BOOLEAN, base: Bases]
Leaves == 1..MaxLeaves
NoFile == 0
Torn == MaxLeaves + 1
Row == [domain: Domains, source: {"local_ca", "imported"}, leaf: Leaves]

ASSUME CertificatesAssumption ==
  /\ MaxLeaves \in Nat /\ MaxRestarts \in Nat
  /\ SaveOutcomes \subseteq BOOLEAN /\ FileOutcomes \subseteq BOOLEAN
  /\ NoRow \notin Row \cup CertIds
  /\ Renewer \notin Editors

VARIABLES
  certs,     \* JSONStore.data.Certificates
  saved,     \* the same on disk
  files,     \* cert.pem and key.pem of each directory: a leaf, NoFile or Torn
  work,      \* what each goroutine is about to do
  left,      \* certificates the scan under way has still to re-sign
  due,       \* leaves of the local CA whose RenewAt has passed
  issued,    \* leaves so far
  born,      \* ids given out
  restarts,
  listed,    \* history: what the last scan found due, and with which leaf
  failed,    \* history: which of these it failed to re-sign
  dropped,   \* history: ids deleted since the start of the process
  settled    \* history: whose pair a directory holds for certain, see Finish

certVars == <<certs, saved, files, work, left, due, issued, born, restarts,
              listed, failed, dropped, settled>>

-----------------------------------------------------------------------------
(* normalizeDomainForPath replaces "*." by nothing.                          *)
DirOf(domain) == domain.base

Resting == [pc |-> "rest"]
Busy(w) == work[w].pc # "rest"
In(w, dir) == Busy(w) /\ DirOf(work[w].row.domain) = dir

(* GetCertificateByDomain.                                                   *)
DomainTaken(domain) == \E c \in CertIds : certs[c] # NoRow /\ certs[c].domain = domain

(* A goroutine begins on a directory: alone, until another does.             *)
Begin(w, pc, then, id, row) ==
  LET dir == DirOf(row.domain) IN
  /\ work' = [v \in Workers |->
       IF v = w THEN [pc |-> pc, then |-> then, id |-> id, row |-> row,
                      alone |-> ~\E other \in Workers \ {w} : In(other, dir)]
       ELSE IF In(v, dir) THEN [work[v] EXCEPT !.alone = FALSE]
       ELSE work[v]]
  /\ settled' = [settled EXCEPT ![dir] = NoRow]

(* One that was alone and failed in nothing leaves the directory to its row. *)
Finish(w, ok) ==
  /\ work' = [work EXCEPT ![w] = Resting]
  /\ failed' = IF w = Renewer /\ ~ok THEN failed \cup {work[w].id} ELSE failed
  /\ settled' = IF ok /\ work[w].alone
                THEN [settled EXCEPT ![DirOf(work[w].row.domain)] = work[w].id]
                ELSE settled

GoOn(w, pc, then, alone) ==
  work' = [work EXCEPT ![w] = [pc |-> pc, then |-> then, id |-> work[w].id,
                               row |-> work[w].row, alone |-> alone]]

Put(dir, cert, key) == files' = [files EXCEPT ![dir] = [cert |-> cert, key |-> key]]

(* Memory changes first; the file follows if save() succeeds.                *)
SaveRows(rows, ok) ==
  /\ certs' = rows
  /\ saved' = IF ok THEN rows ELSE saved

-----------------------------------------------------------------------------
(* ProvisionLocal and Import: the domain is looked up before anything is     *)
(* written.                                                                  *)
AskCertificate(w) ==
  /\ ~Busy(w) /\ issued < MaxLeaves
  /\ \E c \in CertIds \ born, domain \in Domains, source \in {"local_ca", "imported"} :
       /\ ~DomainTaken(domain)
       /\ Begin(w, "write cert", "create", c,
                [domain |-> domain, source |-> source, leaf |-> issued + 1])
       /\ born' = born \cup {c}
  /\ issued' = issued + 1
  /\ UNCHANGED <<certs, saved, files, left, due, restarts, listed, failed, dropped>>

(* Resign of a row it reads, with a leaf it signs.                           *)
Resign(w, c) ==
  /\ certs[c] # NoRow /\ certs[c].source = "local_ca" /\ issued < MaxLeaves
  /\ Begin(w, "write cert", "update", c, [certs[c] EXCEPT !.leaf = issued + 1])
  /\ issued' = issued + 1
  /\ UNCHANGED <<certs, saved, files, due, born, restarts, listed, dropped>>

AskResign(w) ==
  /\ ~Busy(w)
  /\ \E c \in CertIds : Resign(w, c)
  /\ UNCHANGED <<left, failed>>

AskDelete(w) ==
  /\ ~Busy(w)
  /\ \E c \in CertIds :
       certs[c] # NoRow /\ Begin(w, "remove cert", "drop", c, certs[c])
  /\ UNCHANGED <<certs, saved, files, left, due, issued, born, restarts, listed, failed,
                 dropped>>

-----------------------------------------------------------------------------
(* writeCertFiles. A write that fails leaves the file as it was or torn; if   *)
(* it is the key, the certificate is removed, also one that was there before. *)

WriteCert(w) ==
  LET dir == DirOf(work[w].row.domain) IN
  /\ work[w].pc = "write cert"
  /\ \/ /\ TRUE \in FileOutcomes
        /\ Put(dir, work[w].row.leaf, files[dir].key)
        /\ GoOn(w, "write key", work[w].then, work[w].alone)
        /\ UNCHANGED <<failed, settled>>
     \/ /\ FALSE \in FileOutcomes
        /\ \E left_behind \in {files[dir].cert, Torn} :
             Put(dir, left_behind, files[dir].key)
        /\ Finish(w, FALSE)
  /\ UNCHANGED <<certs, saved, left, due, issued, born, restarts, listed, dropped>>

WriteKey(w) ==
  LET dir == DirOf(work[w].row.domain) IN
  /\ work[w].pc = "write key"
  /\ \/ /\ TRUE \in FileOutcomes
        /\ Put(dir, files[dir].cert, work[w].row.leaf)
        /\ GoOn(w, work[w].then, work[w].then, work[w].alone)
        /\ UNCHANGED <<failed, settled>>
     \/ /\ FALSE \in FileOutcomes
        /\ \E left_behind \in {files[dir].key, Torn} :
             Put(dir, NoFile, left_behind)
        /\ Finish(w, FALSE)
  /\ UNCHANGED <<certs, saved, left, due, issued, born, restarts, listed, dropped>>

(* CreateCertificate. If save() fails the files are removed, and the row     *)
(* stays in memory.                                                          *)
CreateRow(w) ==
  /\ work[w].pc = "create"
  /\ \E ok \in SaveOutcomes :
       /\ SaveRows([certs EXCEPT ![work[w].id] = work[w].row], ok)
       /\ IF ok THEN Finish(w, TRUE)
          ELSE /\ GoOn(w, "remove cert", "give up", work[w].alone)
               /\ UNCHANGED <<failed, settled>>
  /\ UNCHANGED <<files, left, due, issued, born, restarts, listed, dropped>>

(* A variant of RowThere: the store does not look the row up.                *)
RowAssumed(c) == TRUE

RowThere(c) == certs[c] # NoRow

(* UpdateCertificate refuses a row deleted since it was read.                *)
UpdateRow(w) ==
  /\ work[w].pc = "update"
  /\ IF RowThere(work[w].id)
     THEN \E ok \in SaveOutcomes :
            /\ SaveRows([certs EXCEPT ![work[w].id] = work[w].row], ok)
            /\ Finish(w, ok)
     ELSE Finish(w, FALSE) /\ UNCHANGED <<certs, saved>>
  /\ UNCHANGED <<files, left, due, issued, born, restarts, listed, dropped>>

(* Delete, and the way out of a failed creation. What a removal returns is    *)
(* ignored.                                                                  *)
Removed(file, ok) == IF ok THEN NoFile ELSE file

(* A variant of AfterRemoval: the key stays.                                 *)
KeyForgotten(job) == job.then

AfterRemoval(job) == IF job.pc = "remove cert" THEN "remove key" ELSE job.then

Remove(w) ==
  LET dir == DirOf(work[w].row.domain) IN
  /\ work[w].pc \in {"remove cert", "remove key"}
  /\ \E ok \in FileOutcomes :
       /\ IF work[w].pc = "remove cert"
          THEN Put(dir, Removed(files[dir].cert, ok), files[dir].key)
          ELSE Put(dir, files[dir].cert, Removed(files[dir].key, ok))
       /\ GoOn(w, AfterRemoval(work[w]), work[w].then, work[w].alone /\ ok)
  /\ UNCHANGED <<certs, saved, left, due, issued, born, restarts, listed, failed, dropped,
                 settled>>

GiveUp(w) ==
  /\ work[w].pc = "give up"
  /\ Finish(w, FALSE)
  /\ UNCHANGED <<certs, saved, files, left, due, issued, born, restarts, listed, dropped>>

DropRow(w) ==
  /\ work[w].pc = "drop"
  /\ \E ok \in SaveOutcomes :
       /\ SaveRows([certs EXCEPT ![work[w].id] = NoRow], ok)
       /\ Finish(w, ok)
  /\ dropped' = dropped \cup {work[w].id}
  /\ UNCHANGED <<files, left, due, issued, born, restarts, listed>>

-----------------------------------------------------------------------------
(* The renewer, hourly and at its start: ListExpiringLocalCertificates, then *)
(* Resign of one after the other, in no order; a failure is passed over.     *)

Expiring(c) == certs[c] # NoRow /\ certs[c].source = "local_ca" /\ certs[c].leaf \in due

Scan ==
  /\ ~Busy(Renewer) /\ left = {}
  /\ left' = {c \in CertIds : Expiring(c)}
  /\ left' # {}
  /\ listed' = {<<c, certs[c].leaf>> : c \in left'}
  /\ failed' = {}
  /\ UNCHANGED <<certs, saved, files, work, due, issued, born, restarts, dropped, settled>>

(* A variant of StillToRenew: a certificate that is gone ends the scan.      *)
EndedByGone(c) == IF certs[c] = NoRow THEN {} ELSE left \ {c}

StillToRenew(c) == left \ {c}

Renew(c) ==
  /\ ~Busy(Renewer) /\ c \in left
  /\ left' = StillToRenew(c)
  /\ IF certs[c] # NoRow
     THEN Resign(Renewer, c) /\ UNCHANGED failed
     ELSE UNCHANGED <<certs, saved, files, work, due, issued, born, restarts, listed, failed,
                      dropped, settled>>

(* A stored leaf comes within 30 days of its end; one asked for fewer is at  *)
(* once. *)
Expire ==
  /\ \E c \in CertIds :
       /\ certs[c] # NoRow /\ certs[c].source = "local_ca" /\ certs[c].leaf \notin due
       /\ due' = due \cup {certs[c].leaf}
  /\ UNCHANGED <<certs, saved, files, work, left, issued, born, restarts, listed, failed,
                 dropped, settled>>

(* A crash or a stop, and the next start, in which the renewer scans again.  *)
Writing(w, dir, pc) == In(w, dir) /\ work[w].pc = pc

RestartProcess ==
  /\ restarts < MaxRestarts /\ restarts' = restarts + 1
  /\ \E torn \in SUBSET Workers :
       files' = [dir \in Bases |->
         [cert |-> IF \E w \in torn : Writing(w, dir, "write cert") THEN Torn
                   ELSE files[dir].cert,
          key  |-> IF \E w \in torn : Writing(w, dir, "write key") THEN Torn
                   ELSE files[dir].key]]
  /\ certs' = saved
  /\ work' = [w \in Workers |-> Resting]
  /\ left' = {} /\ listed' = {} /\ failed' = {} /\ dropped' = {}
  /\ UNCHANGED <<saved, due, issued, born, settled>>

-----------------------------------------------------------------------------
CertInit ==
  /\ certs = [c \in CertIds |-> NoRow] /\ saved = certs
  /\ files = [dir \in Bases |-> [cert |-> NoFile, key |-> NoFile]]
  /\ work = [w \in Workers |-> Resting]
  /\ left = {} /\ due = {} /\ issued = 0 /\ born = {} /\ restarts = 0
  /\ listed = {} /\ failed = {} /\ dropped = {}
  /\ settled = [dir \in Bases |-> NoRow]

CertNext ==
  \/ \E w \in Editors : AskCertificate(w) \/ AskResign(w) \/ AskDelete(w)
  \/ \E w \in Workers :
       \/ WriteCert(w) \/ WriteKey(w) \/ CreateRow(w) \/ UpdateRow(w)
       \/ Remove(w) \/ GiveUp(w) \/ DropRow(w)
  \/ Scan
  \/ \E c \in CertIds : Renew(c)
  \/ Expire
  \/ RestartProcess

CertSpec == CertInit /\ [][CertNext]_certVars

-----------------------------------------------------------------------------
(* Properties.                                                               *)

(* After an operation that had its directory to itself and failed in nothing *)
(* the directory, the row and the file of the store agree, until the next    *)
(* begins there: a handshake finds a certificate with its key, or nothing    *)
(* for a row that is gone. Crashes, restarts and failures elsewhere do not   *)
(* change that, and whatever a directory went through, one such operation    *)
(* puts it right. *)
SettledMatches ==
  \A dir \in Bases : LET c == settled[dir] IN
    c # NoRow =>
      /\ saved[c] = certs[c]
      /\ files[dir] = IF certs[c] = NoRow THEN [cert |-> NoFile, key |-> NoFile]
                      ELSE [cert |-> certs[c].leaf, key |-> certs[c].leaf]

(* Re-signing writes back the row it read, perhaps minutes before; a          *)
(* certificate deleted meanwhile does not return while the process runs.      *)
DeletedCertificateStays == \A c \in dropped : certs[c] = NoRow

(* A scan that is over has renewed every certificate it found due, or that   *)
(* one's own renewal failed or it was deleted: no failure keeps another from *)
(* its renewal, and no request brings an old leaf back. *)
ScanLeavesNothingDue ==
  left = {} /\ ~Busy(Renewer) =>
    \A pair \in listed :
      \/ pair[1] \in failed \/ certs[pair[1]] = NoRow
      \/ certs[pair[1]].leaf # pair[2]
=============================================================================
