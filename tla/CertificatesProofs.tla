-------------------------- MODULE CertificatesProofs --------------------------
(* Theorems of Certificates, for any number of ids, directories, goroutines,  *)
(* leaves and restarts. *)
EXTENDS Certificates, TLAPS

Writes  == [pc: {"write cert", "write key", "create", "update"},
            then: {"create", "update"}, id: CertIds, row: Row, alone: BOOLEAN]
Removes == [pc: {"remove cert", "remove key", "give up", "drop"},
            then: {"give up", "drop"}, id: CertIds, row: Row, alone: BOOLEAN]
Job == {job \in Writes \cup Removes :
          job.pc \in {"create", "update", "give up", "drop"} => job.pc = job.then}

Files == [cert: 0..Torn, key: 0..Torn]

TypeOK ==
  /\ certs \in [CertIds -> Row \cup {NoRow}]
  /\ saved \in [CertIds -> Row \cup {NoRow}]
  /\ files \in [Bases -> Files]
  /\ work \in [Workers -> Job \cup {Resting}]
  /\ left \subseteq CertIds
  /\ issued \in 0..MaxLeaves
  /\ listed \subseteq CertIds \X Leaves
  /\ dropped \subseteq CertIds
  /\ settled \in [Bases -> CertIds \cup {NoRow}]

Dir(w) == DirOf(work[w].row.domain)
Holds(w) == work[w].pc \in {"write cert", "write key", "create", "update"}
Creates(w) == Holds(w) /\ work[w].then = "create"

(* Every id in use was given out.                                            *)
Known ==
  /\ \A c \in CertIds : certs[c] # NoRow \/ saved[c] # NoRow => c \in born
  /\ \A w \in Workers : Busy(w) => work[w].id \in born
  /\ dropped \subseteq born
  /\ \A pair \in listed : pair[1] \in born
  /\ \A dir \in Bases : settled[dir] # NoRow => settled[dir] \in born

(* What is being created is nowhere else yet.                                *)
Fresh ==
  \A w \in Workers : Creates(w) =>
    /\ certs[work[w].id] = NoRow
    /\ work[w].id \notin dropped
    /\ \A pair \in listed : pair[1] # work[w].id
    /\ \A v \in Workers \ {w} : Busy(v) => work[v].id # work[w].id

(* A certificate keeps its directory, so whoever is at work on it is there.  *)
Home ==
  /\ \A v, w \in Workers : Busy(v) /\ Busy(w) /\ work[v].id = work[w].id => Dir(v) = Dir(w)
  /\ \A w \in Workers :
       Busy(w) /\ certs[work[w].id] # NoRow => DirOf(certs[work[w].id].domain) = Dir(w)

Alone ==
  \A w \in Workers : Busy(w) /\ work[w].alone => \A v \in Workers \ {w} : ~In(v, Dir(w))

(* How far one that has its directory to itself has come.                    *)
Progress(w) ==
  LET pair == files[Dir(w)]
      leaf == work[w].row.leaf IN
  /\ work[w].pc = "write key" => pair.cert = leaf
  /\ work[w].pc \in {"create", "update"} => pair = [cert |-> leaf, key |-> leaf]
  /\ work[w].pc = "remove key" => pair.cert = NoFile
  /\ work[w].pc = "drop" => pair = [cert |-> NoFile, key |-> NoFile]

InProgress == \A w \in Workers : Busy(w) /\ work[w].alone => Progress(w)

(* Nobody is at work in a settled directory, or elsewhere on its row.        *)
Quiet ==
  \A dir \in Bases : LET c == settled[dir] IN
    c # NoRow =>
      /\ \A w \in Workers : ~In(w, dir) /\ (Busy(w) => work[w].id # c)
      /\ certs[c] # NoRow => DirOf(certs[c].domain) = dir

(* A leaf not yet stored is of one goroutine and was not found by the scan.  *)
NewLeaves ==
  \A w \in Workers : Holds(w) =>
    /\ work[w].row.leaf <= issued
    /\ \A c \in CertIds : certs[c] # NoRow => certs[c].leaf # work[w].row.leaf
    /\ \A pair \in listed : pair[2] # work[w].row.leaf
    /\ \A v \in Workers \ {w} : Holds(v) => work[v].row.leaf # work[w].row.leaf

(* No leaf is issued a second time.                                          *)
IssuedLeaves ==
  /\ \A c \in CertIds : /\ certs[c] # NoRow => certs[c].leaf <= issued
                        /\ saved[c] # NoRow => saved[c].leaf <= issued
  /\ \A pair \in listed : pair[2] <= issued

(* What the scan has come past.                                              *)
Scanned ==
  /\ Busy(Renewer) => work[Renewer].then = "update"
  /\ \A pair \in listed :
       \/ pair[1] \in left \cup failed
       \/ Busy(Renewer) /\ work[Renewer].id = pair[1]
       \/ certs[pair[1]] = NoRow
       \/ certs[pair[1]].leaf # pair[2]

RowsInv == TypeOK /\ Known /\ Fresh /\ DeletedCertificateStays
FilesInv == Home /\ Alone /\ InProgress /\ Quiet /\ SettledMatches
LeavesInv == NewLeaves /\ IssuedLeaves /\ Scanned
IInv == RowsInv /\ FilesInv /\ LeavesInv

-----------------------------------------------------------------------------
(* How a step changes what each goroutine is about to do.                    *)

LEMMA JobFields ==
  ASSUME NEW job \in Job
  PROVE  /\ job # Resting /\ job.pc # "rest"
         /\ job.id \in CertIds /\ job.row \in Row /\ job.alone \in BOOLEAN
         /\ DirOf(job.row.domain) \in Bases
         /\ \/ job \in Writes \/ job \in Removes
<1>1. job \in Writes \/ job \in Removes
  BY DEF Job
<1>2. job.pc # "rest" /\ job.id \in CertIds /\ job.row \in Row /\ job.alone \in BOOLEAN
  <2>1. CASE job \in Writes
    BY <2>1 DEF Writes
  <2>2. CASE job \in Removes
    BY <2>2 DEF Removes
  <2> QED
    BY <1>1, <2>1, <2>2
<1>3. job # Resting
  BY <1>2 DEF Resting
<1>4. \A row \in Row : DirOf(row.domain) \in Bases
  BY DEF Row, Domains, DirOf
<1> QED
  BY <1>1, <1>2, <1>3, <1>4

LEMMA BusyIsJob ==
  ASSUME TypeOK, NEW w \in Workers
  PROVE  /\ Busy(w) <=> work[w] \in Job
         /\ ~Busy(w) <=> work[w] = Resting
BY JobFields DEF TypeOK, Busy, Resting

LEMMA LeafNumbers ==
  ASSUME TypeOK
  PROVE  /\ issued \in Nat
         /\ \A c \in CertIds : /\ certs[c] # NoRow => certs[c].leaf \in Nat
                               /\ saved[c] # NoRow => saved[c].leaf \in Nat
         /\ \A pair \in listed : pair[2] \in Nat
         /\ \A w \in Workers : Busy(w) => work[w].row.leaf \in Nat
<1>1. \A row \in Row : row.leaf \in Nat
  BY DEF Row, Leaves
<1>2. issued \in Nat /\ \A pair \in listed : pair[2] \in Nat
  BY CertificatesAssumption DEF TypeOK, Leaves
<1>3. \A c \in CertIds : /\ certs[c] # NoRow => certs[c].leaf \in Nat
                         /\ saved[c] # NoRow => saved[c].leaf \in Nat
  BY <1>1 DEF TypeOK
<1>4. \A w \in Workers : Busy(w) => work[w].row.leaf \in Nat
  BY <1>1, BusyIsJob, JobFields
<1> QED
  BY <1>1, <1>2, <1>3, <1>4

(* A job that is no longer alone.                                            *)
LEMMA Joined ==
  ASSUME NEW job \in Job
  PROVE  LET next == [job EXCEPT !.alone = FALSE] IN
         /\ next \in Job
         /\ next.pc = job.pc /\ next.then = job.then /\ next.id = job.id
         /\ next.row = job.row /\ next.alone = FALSE
<1>1. CASE job \in Writes
  BY <1>1 DEF Job, Writes
<1>2. CASE job \in Removes
  BY <1>2 DEF Job, Removes
<1> QED
  BY <1>1, <1>2 DEF Job

(* The points a job goes through.                                            *)
Turn(job, pc, then, alone) ==
  \/ job.pc = "write cert" /\ pc = "write key" /\ then = job.then /\ alone = job.alone
  \/ job.pc = "write key" /\ pc = job.then /\ then = job.then /\ alone = job.alone
  \/ job.pc = "create" /\ pc = "remove cert" /\ then = "give up" /\ alone = job.alone
  \/ /\ job.pc \in {"remove cert", "remove key"} /\ pc = AfterRemoval(job) /\ then = job.then
     /\ alone => job.alone

LEMMA TurnTyped ==
  ASSUME NEW job \in Job, NEW pc, NEW then, NEW alone \in BOOLEAN, Turn(job, pc, then, alone)
  PROVE  [pc |-> pc, then |-> then, id |-> job.id, row |-> job.row, alone |-> alone] \in Job
<1>1. CASE job \in Writes
  <2>1. \/ pc \in {"write key", "create", "update"} /\ then = job.then
             /\ (pc \in {"create", "update"} => pc = then)
        \/ pc = "remove cert" /\ then = "give up"
    BY <1>1 DEF Writes, Turn
  <2> QED
    BY <1>1, <2>1 DEF Job, Writes, Removes
<1>2. CASE job \in Removes
  <2>1. /\ pc \in {"remove key", "give up", "drop"} /\ then = job.then
        /\ pc \in {"give up", "drop"} => pc = then
    BY <1>2 DEF Removes, Turn, AfterRemoval
  <2> QED
    BY <1>2, <2>1 DEF Job, Removes
<1> QED
  BY <1>1, <1>2 DEF Job

(* What does not change of a goroutine that takes no part in a step.          *)
Kept(v) ==
  /\ Busy(v)' <=> Busy(v)
  /\ Busy(v) =>
       /\ work'[v].pc = work[v].pc /\ work'[v].then = work[v].then
       /\ work'[v].id = work[v].id /\ work'[v].row = work[v].row
       /\ work'[v].alone => work[v].alone

LEMMA Turned ==
  ASSUME TypeOK, NEW w \in Workers, Busy(w), NEW pc, NEW then, NEW alone \in BOOLEAN,
         Turn(work[w], pc, then, alone), GoOn(w, pc, then, alone)
  PROVE  /\ work' \in [Workers -> Job \cup {Resting}]
         /\ \A v \in Workers \ {w} : Kept(v) /\ work'[v].alone = work[v].alone
         /\ Busy(w)'
         /\ work'[w].pc = pc /\ work'[w].then = then /\ work'[w].alone = alone
         /\ work'[w].id = work[w].id /\ work'[w].row = work[w].row
<1>1. work[w] \in Job
  BY BusyIsJob
<1> DEFINE next == [pc |-> pc, then |-> then, id |-> work[w].id, row |-> work[w].row,
                    alone |-> alone]
<1>2. next \in Job
  BY <1>1, TurnTyped
<1>3. work' = [work EXCEPT ![w] = next]
  BY DEF GoOn
<1>4. next.pc # "rest"
  BY <1>2, JobFields
<1> QED
  BY <1>2, <1>3, <1>4 DEF TypeOK, Kept, Busy

LEMMA Finished ==
  ASSUME TypeOK, NEW w \in Workers, Busy(w), NEW ok \in BOOLEAN, Finish(w, ok)
  PROVE  /\ work' \in [Workers -> Job \cup {Resting}]
         /\ \A v \in Workers \ {w} : Kept(v) /\ work'[v].alone = work[v].alone
         /\ ~Busy(w)'
         /\ settled' \in [Bases -> CertIds \cup {NoRow}]
         /\ \A dir \in Bases :
              settled'[dir] = IF ok /\ work[w].alone /\ dir = Dir(w) THEN work[w].id
                              ELSE settled[dir]
<1>1. work[w] \in Job
  BY BusyIsJob
<1>2. work[w].id \in CertIds /\ Dir(w) \in Bases /\ work[w].alone \in BOOLEAN
  BY <1>1, JobFields DEF Dir
<1>3. work' = [work EXCEPT ![w] = Resting]
  BY DEF Finish
<1>4. settled' = IF ok /\ work[w].alone THEN [settled EXCEPT ![Dir(w)] = work[w].id]
                 ELSE settled
  BY DEF Finish, Dir
<1> QED
  BY <1>2, <1>3, <1>4 DEF TypeOK, Kept, Busy, Resting

Joins(w, pc, then, id, row) ==
  /\ work' \in [Workers -> Job \cup {Resting}]
  /\ \A v \in Workers \ {w} :
       /\ Kept(v)
       /\ Busy(v) /\ work'[v].alone => ~In(v, DirOf(row.domain))
  /\ Busy(w)'
  /\ work'[w].pc = pc /\ work'[w].then = then /\ work'[w].id = id /\ work'[w].row = row
  /\ work'[w].alone => \A v \in Workers \ {w} : ~In(v, DirOf(row.domain))
  /\ settled' \in [Bases -> CertIds \cup {NoRow}]
  /\ \A dir \in Bases :
       settled'[dir] = IF dir = DirOf(row.domain) THEN NoRow ELSE settled[dir]

LEMMA Begun ==
  ASSUME TypeOK, NEW w \in Workers, ~Busy(w), NEW id \in CertIds, NEW row \in Row,
         NEW pc, NEW then,
         \/ pc = "write cert" /\ then \in {"create", "update"}
         \/ pc = "remove cert" /\ then = "drop",
         Begin(w, pc, then, id, row)
  PROVE  Joins(w, pc, then, id, row)
<1> DEFINE dir == DirOf(row.domain)
           alone == ~\E other \in Workers \ {w} : In(other, dir)
           new == [pc |-> pc, then |-> then, id |-> id, row |-> row, alone |-> alone]
<1>1. dir \in Bases
  BY DEF Row, Domains, DirOf
<1>2. alone \in BOOLEAN
  OBVIOUS
<1>3. work' = [v \in Workers |->
                 IF v = w THEN new
                 ELSE IF In(v, dir) THEN [work[v] EXCEPT !.alone = FALSE] ELSE work[v]]
      /\ settled' = [settled EXCEPT ![dir] = NoRow]
  BY DEF Begin
<1>4. new.alone => \A v \in Workers \ {w} : ~In(v, dir)
  OBVIOUS
<1> HIDE DEF alone, dir
<1>5. new \in Job /\ new.pc # "rest"
  BY <1>2 DEF Job, Writes, Removes
<1>6. ASSUME NEW v \in Workers \ {w}
      PROVE  /\ work'[v] \in Job \cup {Resting} /\ Kept(v)
             /\ Busy(v) /\ work'[v].alone => ~In(v, dir)
  <2>1. CASE In(v, dir)
    <3>1. work[v] \in Job /\ work'[v] = [work[v] EXCEPT !.alone = FALSE]
      BY <1>3, <2>1, BusyIsJob DEF In
    <3> QED
      BY <2>1, <3>1, Joined DEF Kept, Busy, In
  <2>2. CASE ~In(v, dir)
    BY <1>3, <2>2 DEF Kept, Busy, TypeOK
  <2> QED
    BY <2>1, <2>2
<1> QED
  BY <1>1, <1>3, <1>4, <1>5, <1>6 DEF TypeOK, Busy, dir, Joins

-----------------------------------------------------------------------------
(* A request, or the renewer, begins. *)

Starts(w, pc, then, id, row) ==
  /\ ~Busy(w) /\ Begin(w, pc, then, id, row)
  /\ \/ pc = "write cert" /\ then \in {"create", "update"}
        /\ row.leaf = issued + 1 /\ issued' = issued + 1
     \/ pc = "remove cert" /\ then = "drop" /\ issued' = issued
  /\ issued' \in 0..MaxLeaves
  /\ IF then = "create" THEN id \notin born /\ born' = born \cup {id}
     ELSE /\ certs[id] # NoRow /\ born' = born
          /\ DirOf(row.domain) = DirOf(certs[id].domain)
  /\ IF w = Renewer THEN then = "update" /\ left' = left \ {id} ELSE left' = left
  /\ UNCHANGED <<certs, saved, files, listed, failed, dropped>>

LEMMA StartsKeeps ==
  ASSUME IInv, NEW w \in Workers, NEW pc, NEW then, NEW id \in CertIds, NEW row \in Row,
         Starts(w, pc, then, id, row)
  PROVE  IInv'
<1> USE DEF IInv, RowsInv, FilesInv, LeavesInv
<1>w. \/ pc = "write cert" /\ then \in {"create", "update"}
      \/ pc = "remove cert" /\ then = "drop"
  BY DEF Starts
<1>s. ~Busy(w) /\ Begin(w, pc, then, id, row)
  BY DEF Starts
<1>t. TypeOK
  OBVIOUS
<1> DEFINE dir == DirOf(row.domain)
<1>j. Joins(w, pc, then, id, row)
  BY <1>t, <1>w, <1>s, Begun
<1>b. /\ work' \in [Workers -> Job \cup {Resting}]
      /\ \A v \in Workers \ {w} : Kept(v) /\ (Busy(v) /\ work'[v].alone => ~In(v, dir))
      /\ Busy(w)'
      /\ work'[w].pc = pc /\ work'[w].then = then /\ work'[w].id = id /\ work'[w].row = row
      /\ work'[w].alone => \A v \in Workers \ {w} : ~In(v, dir)
      /\ settled' \in [Bases -> CertIds \cup {NoRow}]
      /\ \A d \in Bases : settled'[d] = IF d = dir THEN NoRow ELSE settled[d]
  BY <1>j DEF Joins
<1>k. ASSUME NEW v \in Workers \ {w}, Busy(v)'
      PROVE  /\ Busy(v) /\ work'[v].pc = work[v].pc /\ work'[v].then = work[v].then
             /\ work'[v].id = work[v].id /\ work'[v].row = work[v].row
             /\ work'[v].alone => work[v].alone
  BY <1>b, <1>k DEF Kept
<1>u. UNCHANGED <<certs, saved, files, listed, failed, dropped>>
  BY DEF Starts
<1>i. IF then = "create" THEN id \notin born /\ born' = born \cup {id}
      ELSE /\ certs[id] # NoRow /\ born' = born
           /\ dir = DirOf(certs[id].domain)
  BY DEF Starts
<1>l. IF w = Renewer THEN then = "update" /\ left' = left \ {id} ELSE left' = left
  BY DEF Starts
<1>n. /\ issued' \in 0..MaxLeaves
      /\ \/ pc = "write cert" /\ row.leaf = issued + 1 /\ issued' = issued + 1
         \/ pc = "remove cert" /\ issued' = issued
  BY DEF Starts
<1> HIDE DEF dir
<1>1. TypeOK'
  BY <1>b, <1>u, <1>l, <1>n DEF TypeOK
<1>2. Known'
  BY <1>b, <1>u, <1>i DEF Known, Kept, Busy
<1>3. DeletedCertificateStays'
  BY <1>u DEF DeletedCertificateStays
<1>4. Fresh'
  <2>1. ASSUME NEW v \in Workers \ {w}, Creates(v)'
        PROVE  Creates(v) /\ Busy(v) /\ work'[v].id = work[v].id /\ work[v].id # id
    <3>1. Busy(v)'
      BY <2>1 DEF Creates, Holds, Busy
    <3>2. Creates(v)
      BY <1>k, <2>1, <3>1 DEF Creates, Holds
    <3> QED
      BY <1>k, <1>i, <3>1, <3>2 DEF Fresh, Known
  <2>2. ASSUME Creates(w)'
        PROVE  then = "create"
    BY <1>b, <2>2 DEF Creates
  <2>3. ASSUME NEW v \in Workers \ {w}, Busy(v)'
        PROVE  Busy(v) /\ work'[v].id = work[v].id
    BY <1>b, <2>3 DEF Kept
  <2> QED
    BY <1>b, <1>i, <1>u, <2>1, <2>2, <2>3 DEF Fresh, Known
<1>5. Home'
  BY <1>b, <1>i, <1>u DEF Home, Kept, Known, Dir, dir
<1>6. Alone'
  BY <1>b DEF Alone, In, Dir, Kept, dir
<1>7. InProgress'
  <2>1. ASSUME NEW v \in Workers \ {w}, Busy(v)', work'[v].alone
        PROVE  Progress(v)'
    BY <1>k, <1>u, <2>1 DEF InProgress, Progress, Dir
  <2>2. Progress(w)'
    BY <1>b, <1>w DEF Progress
  <2> QED
    BY <2>1, <2>2 DEF InProgress
<1>8. Quiet'
  BY <1>b, <1>i, <1>u DEF Quiet, In, Kept, Known, Busy, dir
<1>9. SettledMatches'
  BY <1>b, <1>u DEF SettledMatches
<1>m. /\ issued \in Nat
      /\ \A c \in CertIds : /\ certs[c] # NoRow => certs[c].leaf \in Nat
                            /\ saved[c] # NoRow => saved[c].leaf \in Nat
      /\ \A pair \in listed : pair[2] \in Nat
      /\ \A v \in Workers : Busy(v) => work[v].row.leaf \in Nat
  BY <1>t, LeafNumbers
<1>g. issued \in Nat /\ issued' \in Nat /\ issued <= issued'
  <2>1. issued \in Nat
    BY <1>m
  <2>2. issued' \in 0..MaxLeaves /\ (issued' = issued + 1 \/ issued' = issued)
    BY <1>n
  <2> QED
    BY <2>1, <2>2, CertificatesAssumption
<1>10. NewLeaves'
  <2>1. ASSUME NEW v \in Workers \ {w}, Holds(v)'
        PROVE  Holds(v) /\ Busy(v) /\ work'[v].row = work[v].row
    <3>1. Busy(v)'
      BY <2>1 DEF Holds, Busy
    <3> QED
      BY <1>k, <2>1, <3>1 DEF Holds
  <2>2. ASSUME Holds(w)'
        PROVE  work'[w].row.leaf = issued + 1 /\ issued' = issued + 1
    BY <1>b, <1>n, <2>2 DEF Holds
  <2>3. ASSUME NEW v \in Workers, Holds(v)'
        PROVE  /\ work'[v].row.leaf <= issued'
               /\ \A c \in CertIds : certs[c] # NoRow => certs[c].leaf # work'[v].row.leaf
               /\ \A pair \in listed : pair[2] # work'[v].row.leaf
    <3>1. CASE v = w
      BY <1>m, <2>2, <2>3, <3>1 DEF IssuedLeaves
    <3>2. CASE v # w
      <4>1. Holds(v) /\ Busy(v) /\ work'[v].row = work[v].row
        BY <2>1, <2>3, <3>2
      <4>2. work[v].row.leaf <= issued'
        BY <1>m, <1>g, <4>1 DEF NewLeaves
      <4> QED
        BY <4>1, <4>2 DEF NewLeaves
    <3> QED
      BY <3>1, <3>2
  <2>4. ASSUME NEW v \in Workers, Holds(v)', NEW u \in Workers \ {v}, Holds(u)'
        PROVE  work'[u].row.leaf # work'[v].row.leaf
    BY <1>m, <2>1, <2>2, <2>4 DEF NewLeaves
  <2> QED
    BY <1>u, <2>3, <2>4 DEF NewLeaves
<1>11. IssuedLeaves'
  <2>1. ASSUME NEW c \in CertIds
        PROVE  /\ certs[c] # NoRow => certs[c].leaf <= issued'
               /\ saved[c] # NoRow => saved[c].leaf <= issued'
    <3>1. /\ certs[c] # NoRow => certs[c].leaf \in Nat
          /\ saved[c] # NoRow => saved[c].leaf \in Nat
      BY <1>m
    <3>2. /\ certs[c] # NoRow => certs[c].leaf <= issued
          /\ saved[c] # NoRow => saved[c].leaf <= issued
      BY DEF IssuedLeaves
    <3> QED
      BY <1>g, <3>1, <3>2
  <2>2. ASSUME NEW pair \in listed
        PROVE  pair[2] <= issued'
    <3>1. pair[2] \in Nat /\ pair[2] <= issued
      BY <1>m DEF IssuedLeaves
    <3> QED
      BY <1>g, <3>1
  <2> QED
    BY <1>u, <2>1, <2>2 DEF IssuedLeaves
<1>12. Scanned'
  BY <1>b, <1>s, <1>u, <1>l DEF Scanned, Kept, Workers
<1> QED
  BY <1>1, <1>2, <1>3, <1>4, <1>5, <1>6, <1>7, <1>8, <1>9, <1>10, <1>11, <1>12

-----------------------------------------------------------------------------
(* A goroutine takes one step of what it began: it goes on or comes to rest.  *)

Stores(w) ==
  /\ \A c \in CertIds \ {work[w].id} : certs'[c] = certs[c]
  /\ \/ certs'[work[w].id] = certs[work[w].id]
     \/ certs'[work[w].id] = NoRow /\ ~Busy(w)'
     \/ /\ certs'[work[w].id] = work[w].row /\ Holds(w) /\ ~Holds(w)'
        /\ Creates(w) \/ certs[work[w].id] # NoRow
  /\ \A c \in CertIds : saved'[c] \in {saved[c], certs'[c]}
  /\ dropped \subseteq dropped' /\ dropped' \subseteq dropped \cup {work[w].id}
  /\ work[w].id \in dropped' \ dropped => certs'[work[w].id] = NoRow /\ ~Busy(w)'

Settles(w) ==
  \A dir \in Bases :
    \/ settled'[dir] = settled[dir]
    \/ /\ dir = Dir(w) /\ settled'[dir] = work[w].id /\ work[w].alone /\ ~Busy(w)'
       /\ saved'[work[w].id] = certs'[work[w].id]
       /\ files'[dir] = IF certs'[work[w].id] = NoRow THEN [cert |-> NoFile, key |-> NoFile]
                        ELSE [cert |-> certs'[work[w].id].leaf, key |-> certs'[work[w].id].leaf]

Works(w) ==
  /\ Busy(w)
  /\ \A v \in Workers \ {w} : Kept(v)
  /\ Busy(w)' =>
       /\ work'[w].id = work[w].id /\ work'[w].row = work[w].row
       /\ work'[w].alone => work[w].alone /\ Progress(w)'
       /\ work'[w].then = work[w].then \/ (Creates(w) /\ ~Holds(w)')
       /\ Holds(w)' => Holds(w)
  /\ \A dir \in Bases \ {Dir(w)} : files'[dir] = files[dir]
  /\ Stores(w) /\ Settles(w)
  /\ failed \subseteq failed'
  /\ w = Renewer /\ ~Busy(w)' =>
       work[w].id \in failed' \/ (Holds(w) /\ certs'[work[w].id] = work[w].row)
  /\ UNCHANGED <<left, issued, born, listed>>
  /\ TypeOK'

LEMMA WorksKeeps ==
  ASSUME IInv, NEW w \in Workers, Works(w)
  PROVE  IInv'
<1> USE DEF IInv, RowsInv, FilesInv, LeavesInv
<1> DEFINE id == work[w].id
<1>t. TypeOK /\ TypeOK' /\ Busy(w)
  BY DEF Works
<1>w. id \in CertIds /\ work[w].row \in Row /\ Dir(w) \in Bases
  BY <1>t, BusyIsJob, JobFields DEF Dir
<1>k. ASSUME NEW v \in Workers, Busy(v)'
      PROVE  /\ Busy(v) /\ work'[v].id = work[v].id /\ work'[v].row = work[v].row
             /\ work'[v].alone => work[v].alone
             /\ v # w => work'[v].pc = work[v].pc /\ work'[v].then = work[v].then
  BY <1>k DEF Works, Kept
<1>h. ASSUME NEW v \in Workers, Holds(v)'
      PROVE  Busy(v)' /\ Holds(v)
  <2>1. Busy(v)'
    BY <1>h DEF Holds, Busy
  <2> QED
    BY <1>k, <1>h, <2>1 DEF Works, Holds
<1>c. ASSUME NEW v \in Workers, Creates(v)'
      PROVE  Busy(v)' /\ Creates(v)
  <2>1. Holds(v)' /\ Busy(v)'
    BY <1>h, <1>c DEF Creates
  <2> QED
    BY <1>k, <1>h, <1>c, <2>1 DEF Works, Creates
<1>s. Stores(w)
  BY DEF Works
<1>u. UNCHANGED <<left, issued, born, listed>>
  BY DEF Works
<1>1. Known'
  BY <1>k, <1>s, <1>t, <1>u, <1>w DEF Known, Works, Stores, Settles
<1>2. Fresh'
  <2>1. ASSUME NEW v \in Workers, Creates(v)'
        PROVE  certs'[work[v].id] = NoRow /\ work[v].id \notin dropped'
    <3>1. Creates(v) /\ Holds(v)' /\ Busy(v)'
      BY <1>c, <2>1 DEF Creates
    <3>2. work[v].id \in CertIds
      BY <1>k, <1>t, <3>1, BusyIsJob, JobFields
    <3>3. CASE v = w
      BY <1>s, <3>1, <3>3 DEF Stores, Fresh
    <3>4. CASE v # w
      <4>1. work[v].id # id
        BY <1>t, <3>1, <3>4 DEF Fresh
      <4> QED
        BY <1>s, <3>1, <3>2, <4>1 DEF Stores, Fresh
    <3> QED
      BY <3>3, <3>4
  <2> QED
    BY <1>c, <1>k, <1>u, <2>1 DEF Fresh
<1>3. DeletedCertificateStays'
  <2>1. ASSUME NEW c \in dropped', c # id
        PROVE  certs'[c] = NoRow
    BY <1>s, <2>1 DEF Stores, DeletedCertificateStays, TypeOK
  <2>2. ASSUME id \in dropped'
        PROVE  certs'[id] = NoRow
    BY <1>s, <1>t, <2>2 DEF Stores, DeletedCertificateStays, Fresh
  <2> QED
    BY <2>1, <2>2 DEF DeletedCertificateStays
<1>4. Home'
  <2>1. ASSUME NEW v \in Workers, Busy(v)', certs'[work[v].id] # NoRow
        PROVE  DirOf(certs'[work[v].id].domain) = Dir(v)
    <3>1. Busy(v) /\ work[v].id \in CertIds
      BY <1>k, <1>t, <2>1, BusyIsJob, JobFields
    <3>2. CASE certs'[work[v].id] = certs[work[v].id]
      BY <2>1, <3>1, <3>2 DEF Home
    <3>3. CASE work[v].id = id /\ certs'[id] = work[w].row
      BY <1>t, <3>1, <3>3 DEF Home, Dir
    <3> QED
      BY <1>s, <2>1, <3>1, <3>2, <3>3 DEF Stores
  <2> QED
    BY <1>k, <2>1 DEF Home, Dir
<1>5. Alone'
  BY <1>k, <1>t DEF Alone, Works, In, Dir
<1>6. InProgress'
  <2>1. ASSUME NEW v \in Workers, Busy(v)', work'[v].alone, v # w
        PROVE  Progress(v)'
    <3>1. Busy(v) /\ work[v].alone /\ Dir(v) \in Bases
      BY <1>k, <1>t, <2>1, BusyIsJob, JobFields DEF Dir
    <3>2. Dir(v) # Dir(w)
      BY <1>t, <2>1, <3>1 DEF Alone, In, Dir
    <3>3. files'[Dir(v)] = files[Dir(v)]
      BY <3>1, <3>2 DEF Works
    <3>4. Dir(v)' = Dir(v) /\ work'[v].pc = work[v].pc /\ work'[v].row = work[v].row
      BY <1>k, <2>1 DEF Dir
    <3>5. Progress(v)
      BY <3>1 DEF InProgress
    <3> QED
      BY <3>3, <3>4, <3>5 DEF Progress
  <2> QED
    BY <2>1 DEF InProgress, Works
<1>7. ASSUME NEW dir \in Bases, settled'[dir] # NoRow, settled'[dir] = settled[dir]
      PROVE  /\ dir # Dir(w) /\ settled[dir] # id /\ settled[dir] \in CertIds
             /\ certs'[settled[dir]] = certs[settled[dir]]
             /\ files'[dir] = files[dir]
  <2>1. dir # Dir(w) /\ settled[dir] # id
    BY <1>t, <1>7 DEF Quiet, In, Dir
  <2>2. settled[dir] \in CertIds
    BY <1>7 DEF TypeOK
  <2> QED
    BY <1>s, <2>1, <2>2 DEF Stores, Works
<1>8. Quiet'
  <2>1. ASSUME NEW dir \in Bases, settled'[dir] # NoRow, settled'[dir] = settled[dir]
        PROVE  /\ \A v \in Workers : ~In(v, dir)' /\ (Busy(v)' => work'[v].id # settled'[dir])
               /\ certs'[settled'[dir]] # NoRow => DirOf(certs'[settled'[dir]].domain) = dir
    BY <1>7, <1>k, <2>1 DEF Quiet, In
  <2>2. ASSUME NEW dir \in Bases, settled'[dir] # NoRow, settled'[dir] # settled[dir]
        PROVE  /\ \A v \in Workers : ~In(v, dir)' /\ (Busy(v)' => work'[v].id # settled'[dir])
               /\ certs'[settled'[dir]] # NoRow => DirOf(certs'[settled'[dir]].domain) = dir
    <3>1. dir = Dir(w) /\ settled'[dir] = id /\ work[w].alone /\ ~Busy(w)'
      BY <2>2 DEF Works, Settles
    <3>2. \A v \in Workers : Busy(v)' => v # w /\ Busy(v) /\ Dir(v) # dir
      BY <1>k, <1>t, <3>1 DEF Alone, In, Dir
    <3>3. \A v \in Workers : Busy(v)' => work'[v].id # id
      BY <1>k, <1>t, <3>1, <3>2 DEF Home
    <3>4. certs'[id] # NoRow => DirOf(certs'[id].domain) = Dir(w)
      BY <1>s, <1>t DEF Stores, Home, Dir
    <3> QED
      BY <1>k, <3>1, <3>2, <3>3, <3>4 DEF In, Dir
  <2> QED
    BY <2>1, <2>2 DEF Quiet
<1>9. SettledMatches'
  <2>1. ASSUME NEW dir \in Bases, settled'[dir] # NoRow, settled'[dir] = settled[dir]
        PROVE  /\ saved'[settled'[dir]] = certs'[settled'[dir]]
               /\ files'[dir] = files[dir]
               /\ certs'[settled'[dir]] = certs[settled[dir]]
    <3>1. saved[settled[dir]] = certs[settled[dir]]
      BY <2>1 DEF SettledMatches
    <3>2. saved'[settled[dir]] \in {saved[settled[dir]], certs'[settled[dir]]}
      BY <1>7, <1>s, <2>1 DEF Stores
    <3> QED
      BY <1>7, <2>1, <3>1, <3>2
  <2>2. ASSUME NEW dir \in Bases, settled'[dir] # settled[dir]
        PROVE  /\ settled'[dir] = id /\ saved'[id] = certs'[id]
               /\ files'[dir] = IF certs'[id] = NoRow THEN [cert |-> NoFile, key |-> NoFile]
                                ELSE [cert |-> certs'[id].leaf, key |-> certs'[id].leaf]
    BY <2>2 DEF Works, Settles
  <2>3. ASSUME NEW dir \in Bases, settled'[dir] # NoRow, settled'[dir] = settled[dir]
        PROVE  /\ saved[settled[dir]] = certs[settled[dir]]
               /\ files[dir] = IF certs[settled[dir]] = NoRow
                               THEN [cert |-> NoFile, key |-> NoFile]
                               ELSE [cert |-> certs[settled[dir]].leaf,
                                     key |-> certs[settled[dir]].leaf]
    BY <2>3 DEF SettledMatches
  <2> QED
    BY <2>1, <2>2, <2>3 DEF SettledMatches
<1>m. /\ issued \in Nat
      /\ \A v \in Workers : Busy(v) => work[v].row.leaf \in Nat
  BY <1>t, LeafNumbers
<1>10. NewLeaves'
  <2>1. ASSUME NEW v \in Workers, Holds(v)'
        PROVE  /\ Holds(v) /\ work'[v].row = work[v].row
               /\ work[v].row.leaf <= issued
               /\ \A c \in CertIds : certs[c] # NoRow => certs[c].leaf # work[v].row.leaf
               /\ \A pair \in listed : pair[2] # work[v].row.leaf
    BY <1>h, <1>k, <2>1 DEF NewLeaves
  <2>2. ASSUME NEW v \in Workers, Holds(v)', NEW c \in CertIds, certs'[c] # NoRow
        PROVE  certs'[c].leaf # work[v].row.leaf
    <3>1. CASE certs'[c] = certs[c]
      BY <2>1, <2>2, <3>1
    <3>2. CASE certs'[c] # certs[c]
      <4>1. certs'[c] = work[w].row /\ Holds(w) /\ ~Holds(w)'
        BY <1>s, <2>2, <3>2 DEF Stores
      <4>2. v # w
        BY <2>2, <4>1
      <4> QED
        BY <2>1, <2>2, <4>1, <4>2 DEF NewLeaves
    <3> QED
      BY <3>1, <3>2
  <2>3. ASSUME NEW v \in Workers, Holds(v)', NEW u \in Workers \ {v}, Holds(u)'
        PROVE  work'[u].row.leaf # work'[v].row.leaf
    BY <1>h, <1>k, <2>3 DEF NewLeaves
  <2> QED
    BY <1>u, <2>1, <2>2, <2>3 DEF NewLeaves
<1>11. IssuedLeaves'
  <2>1. ASSUME NEW c \in CertIds
        PROVE  certs'[c] # NoRow => certs'[c].leaf <= issued
    BY <1>s DEF Stores, IssuedLeaves, NewLeaves
  <2>2. ASSUME NEW c \in CertIds
        PROVE  saved'[c] # NoRow => saved'[c].leaf <= issued
    <3>1. saved'[c] = saved[c] \/ saved'[c] = certs'[c]
      BY <1>s DEF Stores
    <3>2. saved[c] # NoRow => saved[c].leaf <= issued
      BY DEF IssuedLeaves
    <3> QED
      BY <2>1, <3>1, <3>2
  <2> QED
    BY <1>u, <2>1, <2>2 DEF IssuedLeaves
<1>12. Scanned'
  <2>1. Busy(Renewer)' => work'[Renewer].then = "update"
    <3>1. Renewer \in Workers
      BY DEF Workers
    <3>2. ASSUME Busy(Renewer)'
          PROVE  work[Renewer].then = "update" /\ ~Creates(Renewer)
      BY <1>k, <3>1, <3>2 DEF Scanned, Creates
    <3> QED
      BY <1>k, <3>1, <3>2 DEF Works
  <2>2. ASSUME NEW pair \in listed, certs[pair[1]] = NoRow \/ certs[pair[1]].leaf # pair[2]
        PROVE  certs'[pair[1]] = NoRow \/ certs'[pair[1]].leaf # pair[2]
    <3>1. pair[1] \in CertIds
      BY DEF TypeOK
    <3> QED
      BY <1>s, <2>2, <3>1 DEF Stores, NewLeaves
  <2>3. ASSUME NEW pair \in listed, Busy(Renewer), work[Renewer].id = pair[1]
        PROVE  \/ Busy(Renewer)' /\ work'[Renewer].id = pair[1]
               \/ pair[1] \in failed'
               \/ certs'[pair[1]] = NoRow
               \/ certs'[pair[1]].leaf # pair[2]
    <3>1. Renewer \in Workers
      BY DEF Workers
    <3>2. CASE Busy(Renewer)'
      BY <1>k, <2>3, <3>1, <3>2
    <3>3. CASE ~Busy(Renewer)'
      <4>1. w = Renewer
        BY <2>3, <3>1, <3>3 DEF Works, Kept
      <4>2. pair[1] \in failed' \/ (Holds(w) /\ certs'[pair[1]] = work[w].row)
        BY <2>3, <3>3, <4>1 DEF Works
      <4> QED
        BY <2>3, <4>1, <4>2 DEF NewLeaves
    <3> QED
      BY <3>2, <3>3
  <2> QED
    BY <1>u, <2>1, <2>2, <2>3 DEF Scanned, Works
<1> QED
  BY <1>1, <1>2, <1>3, <1>4, <1>5, <1>6, <1>8, <1>9, <1>10, <1>11, <1>12, <1>t

LEMMA GoesOn ==
  ASSUME TypeOK, NEW w \in Workers, Busy(w), NEW pc, NEW then, NEW alone \in BOOLEAN,
         Turn(work[w], pc, then, alone), GoOn(w, pc, then, alone)
  PROVE  /\ work' \in [Workers -> Job \cup {Resting}]
         /\ \A v \in Workers \ {w} : Kept(v)
         /\ Busy(w)' /\ work'[w].pc = pc /\ work'[w].alone = alone /\ Dir(w)' = Dir(w)
         /\ work'[w].id = work[w].id /\ work'[w].row = work[w].row
         /\ alone => work[w].alone
         /\ work'[w].then = work[w].then \/ (Creates(w) /\ ~Holds(w)')
         /\ Holds(w)' => Holds(w)
<1> USE Turned
<1>1. /\ Busy(w)' /\ work'[w].pc = pc /\ work'[w].then = then /\ work'[w].alone = alone
      /\ work'[w].id = work[w].id /\ work'[w].row = work[w].row
  OBVIOUS
<1>2. alone => work[w].alone
  BY DEF Turn
<1>3. work[w] \in Job
  BY BusyIsJob
<1>4. then = work[w].then \/ (work[w].pc = "create" /\ work[w].then = "create" /\ pc = "remove cert")
  <2>1. work[w].pc = "create" => work[w].then = "create"
    BY <1>3 DEF Job
  <2> QED
    BY <2>1 DEF Turn
<1>5. pc \in {"write key", "create", "update"} \/ (pc = "write cert") =>
        work[w].pc \in {"write cert", "write key"}
  BY <1>3 DEF Turn, Job, Writes, Removes, AfterRemoval
<1>6. /\ work'[w].then = work[w].then \/ (Creates(w) /\ ~Holds(w)')
      /\ Holds(w)' => Holds(w)
  BY <1>1, <1>4, <1>5 DEF Creates, Holds
<1> QED
  BY <1>1, <1>2, <1>6 DEF Dir

(* The files of one directory change.                                        *)
LEMMA Puts ==
  ASSUME TypeOK, NEW dir \in Bases, NEW cert \in 0..Torn, NEW key \in 0..Torn,
         Put(dir, cert, key)
  PROVE  /\ files' \in [Bases -> Files] /\ files'[dir] = [cert |-> cert, key |-> key]
         /\ \A other \in Bases \ {dir} : files'[other] = files[other]
<1>1. [cert |-> cert, key |-> key] \in Files
  BY DEF Files
<1> QED
  BY <1>1 DEF TypeOK, Put

LEMMA FileNumbers ==
  ASSUME TypeOK
  PROVE  /\ NoFile \in 0..Torn /\ Torn \in 0..Torn
         /\ \A leaf \in Leaves : leaf \in 0..Torn
         /\ \A dir \in Bases : files[dir].cert \in 0..Torn /\ files[dir].key \in 0..Torn
         /\ \A w \in Workers : Busy(w) => /\ work[w].row.leaf \in 0..Torn
                                          /\ Dir(w) \in Bases /\ work[w].id \in CertIds
                                          /\ work[w].row \in Row /\ work[w].alone \in BOOLEAN
<1>1. NoFile \in 0..Torn /\ Torn \in 0..Torn /\ \A leaf \in Leaves : leaf \in 0..Torn
  BY CertificatesAssumption DEF NoFile, Torn, Leaves
<1>2. \A row \in Row : row.leaf \in Leaves
  BY DEF Row
<1>3. \A dir \in Bases : files[dir].cert \in 0..Torn /\ files[dir].key \in 0..Torn
  BY DEF TypeOK, Files
<1> QED
  BY <1>1, <1>2, <1>3, BusyIsJob, JobFields DEF Dir

(* The rows stay while a goroutine goes on ...                               *)
LEMMA FilesKeep ==
  ASSUME IInv, NEW w \in Workers, Busy(w), NEW pc, NEW then, NEW alone \in BOOLEAN,
         Turn(work[w], pc, then, alone), GoOn(w, pc, then, alone),
         NEW cert \in 0..Torn, NEW key \in 0..Torn, Put(Dir(w), cert, key),
         alone => Progress(w)',
         UNCHANGED <<certs, saved, left, issued, born, listed, failed, dropped, settled>>
  PROVE  IInv'
<1>t. TypeOK
  BY DEF IInv, RowsInv
<1>w. Dir(w) \in Bases
  BY <1>t, FileNumbers
<1>1. /\ files' \in [Bases -> Files]
      /\ \A other \in Bases \ {Dir(w)} : files'[other] = files[other]
  BY <1>t, <1>w, Puts
<1>2. /\ work' \in [Workers -> Job \cup {Resting}]
      /\ \A v \in Workers \ {w} : Kept(v)
      /\ Busy(w)' /\ work'[w].alone = alone
      /\ work'[w].id = work[w].id /\ work'[w].row = work[w].row
      /\ alone => work[w].alone
      /\ work'[w].then = work[w].then \/ (Creates(w) /\ ~Holds(w)')
      /\ Holds(w)' => Holds(w)
  BY <1>t, GoesOn
<1>3. Stores(w) /\ Settles(w)
  BY DEF Stores, Settles
<1>4. TypeOK'
  BY <1>t, <1>1, <1>2 DEF TypeOK
<1>5. Works(w)
  BY <1>1, <1>2, <1>3, <1>4 DEF Works
<1> QED
  BY <1>5, WorksKeeps

(* ... and when it fails.                                                    *)
LEMMA FailureKeeps ==
  ASSUME IInv, NEW w \in Workers, Busy(w), Finish(w, FALSE),
         files' \in [Bases -> Files],
         \A other \in Bases \ {Dir(w)} : files'[other] = files[other],
         UNCHANGED <<certs, saved, left, issued, born, listed, dropped>>
  PROVE  IInv'
<1>t. TypeOK
  BY DEF IInv, RowsInv
<1>1. /\ work' \in [Workers -> Job \cup {Resting}]
      /\ \A v \in Workers \ {w} : Kept(v)
      /\ ~Busy(w)'
  BY <1>t, Finished
<1>2. settled' = settled /\ failed \subseteq failed' /\ (w = Renewer => work[w].id \in failed')
  BY DEF Finish
<1>3. Stores(w) /\ Settles(w)
  BY <1>2 DEF Stores, Settles
<1>4. TypeOK'
  BY <1>t, <1>1, <1>2 DEF TypeOK
<1>5. Works(w)
  BY <1>1, <1>2, <1>3, <1>4 DEF Works
<1> QED
  BY <1>5, WorksKeeps

LEMMA WriteCertKeeps ==
  ASSUME IInv, NEW w \in Workers, WriteCert(w)
  PROVE  IInv'
<1>t. TypeOK
  BY DEF IInv, RowsInv
<1>1. Busy(w) /\ work[w].pc = "write cert"
  BY DEF WriteCert, Busy
<1>2. UNCHANGED <<certs, saved, left, issued, born, listed, dropped>>
  BY DEF WriteCert
<1>3. /\ work[w].row.leaf \in 0..Torn /\ Dir(w) \in Bases /\ work[w].alone \in BOOLEAN
      /\ files[Dir(w)].cert \in 0..Torn /\ files[Dir(w)].key \in 0..Torn /\ Torn \in 0..Torn
  BY <1>t, <1>1, FileNumbers
<1>4. CASE /\ Put(Dir(w), work[w].row.leaf, files[Dir(w)].key)
           /\ GoOn(w, "write key", work[w].then, work[w].alone)
           /\ UNCHANGED <<failed, settled>>
  <2>1. Turn(work[w], "write key", work[w].then, work[w].alone)
    BY <1>1 DEF Turn
  <2>2. /\ work'[w].pc = "write key" /\ work'[w].row = work[w].row /\ Dir(w)' = Dir(w)
        /\ files'[Dir(w)].cert = work[w].row.leaf
    <3>1. work'[w].pc = "write key" /\ work'[w].row = work[w].row /\ Dir(w)' = Dir(w)
      BY <1>t, <1>1, <1>3, <1>4, <2>1, GoesOn
    <3>2. files'[Dir(w)] = [cert |-> work[w].row.leaf, key |-> files[Dir(w)].key]
      BY <1>t, <1>3, <1>4, Puts
    <3>3. files'[Dir(w)].cert = work[w].row.leaf
      BY <3>2
    <3> QED
      BY <3>1, <3>3
  <2>3. Progress(w)'
    BY <2>2 DEF Progress
  <2> QED
    BY <1>1, <1>2, <1>3, <1>4, <2>1, <2>3, FilesKeep
<1>5. ASSUME NEW left_behind \in {files[Dir(w)].cert, Torn},
             Put(Dir(w), left_behind, files[Dir(w)].key), Finish(w, FALSE)
      PROVE  IInv'
  <2>1. /\ files' \in [Bases -> Files]
        /\ \A other \in Bases \ {Dir(w)} : files'[other] = files[other]
    BY <1>t, <1>3, <1>5, Puts
  <2> QED
    BY <1>1, <1>2, <1>5, <2>1, FailureKeeps
<1> QED
  BY <1>4, <1>5 DEF WriteCert, Dir

LEMMA WriteKeyKeeps ==
  ASSUME IInv, NEW w \in Workers, WriteKey(w)
  PROVE  IInv'
<1>t. TypeOK
  BY DEF IInv, RowsInv
<1>1. Busy(w) /\ work[w].pc = "write key"
  BY DEF WriteKey, Busy
<1>2. UNCHANGED <<certs, saved, left, issued, born, listed, dropped>>
  BY DEF WriteKey
<1>3. /\ work[w].row.leaf \in 0..Torn /\ Dir(w) \in Bases /\ work[w].alone \in BOOLEAN
      /\ files[Dir(w)].cert \in 0..Torn /\ files[Dir(w)].key \in 0..Torn
      /\ Torn \in 0..Torn /\ NoFile \in 0..Torn
  BY <1>t, <1>1, FileNumbers
<1>4. CASE /\ Put(Dir(w), files[Dir(w)].cert, work[w].row.leaf)
           /\ GoOn(w, work[w].then, work[w].then, work[w].alone)
           /\ UNCHANGED <<failed, settled>>
  <2>1. Turn(work[w], work[w].then, work[w].then, work[w].alone)
    BY <1>1 DEF Turn
  <2>2. /\ work'[w].pc = work[w].then /\ work'[w].row = work[w].row /\ Dir(w)' = Dir(w)
        /\ files'[Dir(w)] = [cert |-> files[Dir(w)].cert, key |-> work[w].row.leaf]
    <3>1. work'[w].pc = work[w].then /\ work'[w].row = work[w].row /\ Dir(w)' = Dir(w)
      BY <1>t, <1>1, <1>3, <1>4, <2>1, GoesOn
    <3>2. files'[Dir(w)] = [cert |-> files[Dir(w)].cert, key |-> work[w].row.leaf]
      BY <1>t, <1>3, <1>4, Puts
    <3> QED
      BY <3>1, <3>2
  <2>3. work[w].then \in {"create", "update"}
    BY <1>t, <1>1, BusyIsJob DEF Job, Writes, Removes
  <2>4. work[w].alone => files[Dir(w)].cert = work[w].row.leaf
    BY <1>1 DEF IInv, FilesInv, InProgress, Progress
  <2>5. work[w].alone => Progress(w)'
    BY <2>2, <2>3, <2>4 DEF Progress
  <2> QED
    BY <1>1, <1>2, <1>3, <1>4, <2>1, <2>5, FilesKeep
<1>5. ASSUME NEW left_behind \in {files[Dir(w)].key, Torn},
             Put(Dir(w), NoFile, left_behind), Finish(w, FALSE)
      PROVE  IInv'
  <2>1. /\ files' \in [Bases -> Files]
        /\ \A other \in Bases \ {Dir(w)} : files'[other] = files[other]
    BY <1>t, <1>3, <1>5, Puts
  <2> QED
    BY <1>1, <1>2, <1>5, <2>1, FailureKeeps
<1> QED
  BY <1>4, <1>5 DEF WriteKey, Dir

LEMMA GiveUpKeeps ==
  ASSUME IInv, NEW w \in Workers, GiveUp(w)
  PROVE  IInv'
<1>1. Busy(w)
  BY DEF GiveUp, Busy
<1>2. files' \in [Bases -> Files] /\ \A other \in Bases : files'[other] = files[other]
  BY DEF GiveUp, IInv, RowsInv, TypeOK
<1> QED
  BY <1>1, <1>2, FailureKeeps DEF GiveUp

LEMMA RemoveKeeps ==
  ASSUME IInv, NEW w \in Workers, Remove(w)
  PROVE  IInv'
<1>t. TypeOK
  BY DEF IInv, RowsInv
<1>1. Busy(w) /\ work[w].pc \in {"remove cert", "remove key"}
  BY DEF Remove, Busy
<1>2. UNCHANGED <<certs, saved, left, issued, born, listed, failed, dropped, settled>>
  BY DEF Remove
<1>3. /\ Dir(w) \in Bases /\ work[w].alone \in BOOLEAN /\ NoFile \in 0..Torn
      /\ files[Dir(w)].cert \in 0..Torn /\ files[Dir(w)].key \in 0..Torn
  BY <1>t, <1>1, FileNumbers
<1>4. work[w].then \in {"give up", "drop"}
  BY <1>t, <1>1, BusyIsJob DEF Job, Writes, Removes
<1>5. ASSUME NEW ok \in BOOLEAN,
             GoOn(w, AfterRemoval(work[w]), work[w].then, work[w].alone /\ ok),
             NEW cert \in 0..Torn, NEW key \in 0..Torn, Put(Dir(w), cert, key),
             IF work[w].pc = "remove cert" THEN ok => cert = NoFile
             ELSE cert = files[Dir(w)].cert /\ (ok => key = NoFile)
      PROVE  IInv'
  <2> DEFINE alone == work[w].alone /\ ok
  <2>1. alone \in BOOLEAN
    BY <1>3
  <2>2. Turn(work[w], AfterRemoval(work[w]), work[w].then, alone)
    BY <1>1 DEF Turn
  <2>3. GoOn(w, AfterRemoval(work[w]), work[w].then, alone)
    BY <1>5
  <2> HIDE DEF alone
  <2>4. work'[w].pc = AfterRemoval(work[w]) /\ Dir(w)' = Dir(w)
    BY <1>t, <1>1, <2>1, <2>2, <2>3, GoesOn
  <2>5. files'[Dir(w)] = [cert |-> cert, key |-> key]
    BY <1>t, <1>3, <1>5, Puts
  <2>6. ASSUME alone
        PROVE  Progress(w)'
    <3>1. work[w].alone /\ ok
      BY <2>6 DEF alone
    <3>2. CASE work[w].pc = "remove cert"
      <4>1. work'[w].pc = "remove key" /\ cert = NoFile
        BY <1>5, <2>4, <3>1, <3>2 DEF AfterRemoval
      <4>2. files'[Dir(w)].cert = NoFile
        <5>1. files'[Dir(w)].cert = cert
          BY <2>5
        <5> QED
          BY <4>1, <5>1
      <4> QED
        BY <2>4, <4>1, <4>2 DEF Progress
    <3>3. CASE work[w].pc = "remove key"
      <4>1. files[Dir(w)].cert = NoFile
        BY <1>1, <3>1, <3>3 DEF IInv, FilesInv, InProgress, Progress
      <4>2. cert = NoFile /\ key = NoFile /\ work'[w].pc \in {"give up", "drop"}
        BY <1>4, <1>5, <2>4, <3>1, <3>3, <4>1 DEF AfterRemoval
      <4> QED
        BY <2>4, <2>5, <4>2 DEF Progress
    <3> QED
      BY <1>1, <3>2, <3>3
  <2> QED
    BY <1>1, <1>2, <1>5, <2>1, <2>2, <2>3, <2>6, FilesKeep
<1>6. PICK ok \in FileOutcomes :
        /\ IF work[w].pc = "remove cert"
           THEN Put(Dir(w), Removed(files[Dir(w)].cert, ok), files[Dir(w)].key)
           ELSE Put(Dir(w), files[Dir(w)].cert, Removed(files[Dir(w)].key, ok))
        /\ GoOn(w, AfterRemoval(work[w]), work[w].then, work[w].alone /\ ok)
  BY DEF Remove, Dir
<1>7. ok \in BOOLEAN
  BY CertificatesAssumption
<1>8. \A file \in 0..Torn : Removed(file, ok) \in 0..Torn /\ (ok => Removed(file, ok) = NoFile)
  BY <1>3 DEF Removed
<1> QED
  BY <1>1, <1>3, <1>5, <1>6, <1>7, <1>8

(* A row is stored.                                                          *)
LEMMA StoredKeeps ==
  ASSUME IInv, NEW w \in Workers, work[w].pc \in {"create", "update"},
         Creates(w) \/ certs[work[w].id] # NoRow, NEW ok \in BOOLEAN,
         SaveRows([certs EXCEPT ![work[w].id] = work[w].row], ok), Finish(w, ok),
         UNCHANGED <<files, left, issued, born, listed, dropped>>
  PROVE  IInv'
<1>t. TypeOK
  BY DEF IInv, RowsInv
<1>w. Busy(w) /\ Holds(w)
  BY DEF Busy, Holds
<1>1. /\ work' \in [Workers -> Job \cup {Resting}]
      /\ \A v \in Workers \ {w} : Kept(v)
      /\ ~Busy(w)'
      /\ settled' \in [Bases -> CertIds \cup {NoRow}]
      /\ \A dir \in Bases :
           settled'[dir] = IF ok /\ work[w].alone /\ dir = Dir(w) THEN work[w].id
                           ELSE settled[dir]
  BY <1>t, <1>w, Finished
<1>2. work[w].id \in CertIds /\ work[w].row \in Row /\ work[w].row # NoRow
  BY <1>t, <1>w, FileNumbers, CertificatesAssumption
<1>3. /\ certs' \in [CertIds -> Row \cup {NoRow}]
      /\ certs'[work[w].id] = work[w].row
      /\ \A c \in CertIds \ {work[w].id} : certs'[c] = certs[c]
  BY <1>t, <1>2 DEF SaveRows, TypeOK
<1>4. /\ saved' \in [CertIds -> Row \cup {NoRow}]
      /\ \A c \in CertIds : saved'[c] \in {saved[c], certs'[c]}
      /\ ok => saved' = certs'
  BY <1>t, <1>3 DEF SaveRows, TypeOK
<1>5. failed \subseteq failed'
  BY DEF Finish
<1>6. ~Holds(w)'
  BY <1>1 DEF Holds, Busy
<1>7. Stores(w)
  BY <1>w, <1>3, <1>4, <1>6 DEF Stores
<1>8. work[w].alone => files[Dir(w)] = [cert |-> work[w].row.leaf, key |-> work[w].row.leaf]
  BY <1>w DEF IInv, FilesInv, InProgress, Progress
<1>9. Settles(w)
  BY <1>1, <1>2, <1>3, <1>4, <1>8 DEF Settles
<1>10. TypeOK'
  BY <1>t, <1>1, <1>3, <1>4 DEF TypeOK
<1>11. Works(w)
  BY <1>w, <1>1, <1>3, <1>5, <1>7, <1>9, <1>10 DEF Works
<1> QED
  BY <1>11, WorksKeeps

LEMMA UpdateRowKeeps ==
  ASSUME IInv, NEW w \in Workers, UpdateRow(w)
  PROVE  IInv'
<1>1. work[w].pc = "update" /\ Busy(w)
  BY DEF UpdateRow, Busy
<1>2. CASE RowThere(work[w].id)
  <2>1. PICK ok \in SaveOutcomes :
          SaveRows([certs EXCEPT ![work[w].id] = work[w].row], ok) /\ Finish(w, ok)
    BY <1>2 DEF UpdateRow
  <2>2. ok \in BOOLEAN
    BY CertificatesAssumption
  <2>3. certs[work[w].id] # NoRow
    BY <1>2 DEF RowThere
  <2>4. UNCHANGED <<files, left, issued, born, listed, dropped>>
    BY DEF UpdateRow
  <2> QED
    BY <1>1, <2>1, <2>2, <2>3, <2>4, StoredKeeps
<1>3. CASE ~RowThere(work[w].id)
  <2>1. Finish(w, FALSE) /\ UNCHANGED <<certs, saved, left, issued, born, listed, dropped>>
    BY <1>3 DEF UpdateRow
  <2>2. files' \in [Bases -> Files] /\ \A other \in Bases : files'[other] = files[other]
    BY DEF UpdateRow, IInv, RowsInv, TypeOK
  <2> QED
    BY <1>1, <2>1, <2>2, FailureKeeps
<1> QED
  BY <1>2, <1>3

LEMMA CreateRowKeeps ==
  ASSUME IInv, NEW w \in Workers, CreateRow(w)
  PROVE  IInv'
<1>t. TypeOK
  BY DEF IInv, RowsInv
<1>1. work[w].pc = "create" /\ Busy(w) /\ Holds(w)
  BY DEF CreateRow, Busy, Holds
<1>2. Creates(w)
  BY <1>t, <1>1, BusyIsJob DEF Job, Creates
<1>3. UNCHANGED <<files, left, issued, born, listed, dropped>>
  BY DEF CreateRow
<1>4. PICK ok \in SaveOutcomes :
        /\ SaveRows([certs EXCEPT ![work[w].id] = work[w].row], ok)
        /\ IF ok THEN Finish(w, TRUE)
           ELSE /\ GoOn(w, "remove cert", "give up", work[w].alone)
                /\ UNCHANGED <<failed, settled>>
  BY DEF CreateRow
<1>5. CASE ok
  <2>1. Finish(w, TRUE) /\ SaveRows([certs EXCEPT ![work[w].id] = work[w].row], TRUE)
    BY <1>4, <1>5 DEF SaveRows
  <2> QED
    BY <1>1, <1>2, <1>3, <2>1, StoredKeeps
<1>6. CASE ~ok
  <2>1. /\ GoOn(w, "remove cert", "give up", work[w].alone)
        /\ UNCHANGED <<saved, failed, settled>>
        /\ certs' = [certs EXCEPT ![work[w].id] = work[w].row]
    BY <1>4, <1>6 DEF SaveRows
  <2>2. work[w].alone \in BOOLEAN /\ work[w].id \in CertIds /\ work[w].row \in Row
    BY <1>t, <1>1, FileNumbers
  <2>3. Turn(work[w], "remove cert", "give up", work[w].alone)
    BY <1>1 DEF Turn
  <2>4. /\ work' \in [Workers -> Job \cup {Resting}]
        /\ \A v \in Workers \ {w} : Kept(v)
        /\ Busy(w)' /\ work'[w].pc = "remove cert" /\ work'[w].alone = work[w].alone
        /\ work'[w].id = work[w].id /\ work'[w].row = work[w].row
    <3>1. /\ work' \in [Workers -> Job \cup {Resting}]
          /\ \A v \in Workers \ {w} : Kept(v)
      <4>1. ASSUME NEW pc, NEW then, NEW alone \in BOOLEAN,
                   Turn(work[w], pc, then, alone), GoOn(w, pc, then, alone)
            PROVE  /\ work' \in [Workers -> Job \cup {Resting}]
                   /\ \A v \in Workers \ {w} : Kept(v)
        BY <1>t, <1>1, <4>1, GoesOn
      <4> QED
        BY <2>1, <2>2, <2>3, <4>1
    <3>2. /\ Busy(w)' /\ work'[w].pc = "remove cert" /\ work'[w].alone = work[w].alone
          /\ work'[w].id = work[w].id /\ work'[w].row = work[w].row
      BY <1>t, <1>1, <2>1, <2>2, <2>3, GoesOn
    <3> QED
      BY <3>1, <3>2
  <2>5. ~Holds(w)'
    BY <2>4 DEF Holds
  <2>6. Progress(w)'
    BY <2>4 DEF Progress
  <2>7. /\ certs' \in [CertIds -> Row \cup {NoRow}]
        /\ certs'[work[w].id] = work[w].row
        /\ \A c \in CertIds \ {work[w].id} : certs'[c] = certs[c]
    BY <1>t, <2>1, <2>2 DEF TypeOK
  <2>8. Stores(w) /\ Settles(w)
    BY <1>1, <1>2, <1>3, <2>1, <2>5, <2>7 DEF Stores, Settles
  <2>9. TypeOK'
    BY <1>t, <1>3, <2>1, <2>4, <2>7 DEF TypeOK
  <2>10. Works(w)
    BY <1>1, <1>2, <1>3, <2>1, <2>4, <2>5, <2>6, <2>8, <2>9 DEF Works
  <2> QED
    BY <2>10, WorksKeeps
<1> QED
  BY <1>5, <1>6

LEMMA DropRowKeeps ==
  ASSUME IInv, NEW w \in Workers, DropRow(w)
  PROVE  IInv'
<1>t. TypeOK
  BY DEF IInv, RowsInv
<1>1. work[w].pc = "drop" /\ Busy(w)
  BY DEF DropRow, Busy
<1>2. w # Renewer
  <2>1. work[w].then = "drop"
    BY <1>t, <1>1, BusyIsJob DEF Job
  <2> QED
    BY <1>1, <2>1 DEF IInv, LeavesInv, Scanned
<1>3. PICK ok \in SaveOutcomes :
        SaveRows([certs EXCEPT ![work[w].id] = NoRow], ok) /\ Finish(w, ok)
  BY DEF DropRow
<1>4. ok \in BOOLEAN
  BY CertificatesAssumption
<1>5. UNCHANGED <<files, left, issued, born, listed>> /\ dropped' = dropped \cup {work[w].id}
  BY DEF DropRow
<1>6. work[w].id \in CertIds
  BY <1>t, <1>1, FileNumbers
<1>7. /\ work' \in [Workers -> Job \cup {Resting}]
      /\ \A v \in Workers \ {w} : Kept(v)
      /\ ~Busy(w)'
      /\ settled' \in [Bases -> CertIds \cup {NoRow}]
      /\ \A dir \in Bases :
           settled'[dir] = IF ok /\ work[w].alone /\ dir = Dir(w) THEN work[w].id
                           ELSE settled[dir]
  BY <1>t, <1>1, <1>3, <1>4, Finished
<1>8. /\ certs' \in [CertIds -> Row \cup {NoRow}]
      /\ certs'[work[w].id] = NoRow
      /\ \A c \in CertIds \ {work[w].id} : certs'[c] = certs[c]
  BY <1>t, <1>3, <1>6 DEF SaveRows, TypeOK
<1>9. /\ saved' \in [CertIds -> Row \cup {NoRow}]
      /\ \A c \in CertIds : saved'[c] \in {saved[c], certs'[c]}
      /\ ok => saved' = certs'
  BY <1>t, <1>3, <1>8 DEF SaveRows, TypeOK
<1>10. failed \subseteq failed'
  BY <1>3 DEF Finish
<1>11. Stores(w)
  BY <1>5, <1>7, <1>8, <1>9 DEF Stores
<1>12. work[w].alone => files[Dir(w)] = [cert |-> NoFile, key |-> NoFile]
  BY <1>1 DEF IInv, FilesInv, InProgress, Progress
<1>13. Settles(w)
  BY <1>5, <1>7, <1>8, <1>9, <1>12 DEF Settles
<1>14. TypeOK'
  BY <1>t, <1>5, <1>6, <1>7, <1>8, <1>9 DEF TypeOK
<1>15. Works(w)
  BY <1>1, <1>2, <1>5, <1>7, <1>10, <1>11, <1>13, <1>14 DEF Works
<1> QED
  BY <1>15, WorksKeeps

-----------------------------------------------------------------------------
(* What else happens.                                                        *)

LEMMA AskCertificateKeeps ==
  ASSUME IInv, NEW w \in Editors, AskCertificate(w)
  PROVE  IInv'
<1>1. PICK c \in CertIds \ born, domain \in Domains, source \in {"local_ca", "imported"} :
        /\ Begin(w, "write cert", "create", c,
                 [domain |-> domain, source |-> source, leaf |-> issued + 1])
        /\ born' = born \cup {c}
  BY DEF AskCertificate
<1> DEFINE row == [domain |-> domain, source |-> source, leaf |-> issued + 1]
<1>2. issued \in 0..MaxLeaves /\ issued < MaxLeaves /\ issued' = issued + 1 /\ ~Busy(w)
  BY DEF AskCertificate, IInv, RowsInv, TypeOK
<1>3. issued + 1 \in Leaves /\ issued' \in 0..MaxLeaves
  BY <1>2, CertificatesAssumption DEF Leaves
<1>4. row \in Row /\ row.leaf = issued + 1
  BY <1>3 DEF Row
<1>5. w \in Workers /\ w # Renewer
  BY CertificatesAssumption DEF Workers
<1>6. UNCHANGED <<certs, saved, files, left, listed, failed, dropped>>
  BY DEF AskCertificate
<1> HIDE DEF row
<1>7. Starts(w, "write cert", "create", c, row)
  BY <1>1, <1>2, <1>3, <1>4, <1>5, <1>6 DEF Starts, row
<1> QED
  BY <1>4, <1>5, <1>7, StartsKeeps

LEMMA AskDeleteKeeps ==
  ASSUME IInv, NEW w \in Editors, AskDelete(w)
  PROVE  IInv'
<1>1. PICK c \in CertIds :
        certs[c] # NoRow /\ Begin(w, "remove cert", "drop", c, certs[c])
  BY DEF AskDelete
<1>2. issued \in 0..MaxLeaves /\ certs[c] \in Row
  BY <1>1 DEF IInv, RowsInv, TypeOK
<1>3. w \in Workers /\ w # Renewer
  BY CertificatesAssumption DEF Workers
<1>4. ~Busy(w) /\ UNCHANGED <<certs, saved, files, left, issued, born, listed, failed, dropped>>
  BY DEF AskDelete
<1>5. Starts(w, "remove cert", "drop", c, certs[c])
  BY <1>1, <1>2, <1>3, <1>4 DEF Starts
<1> QED
  BY <1>2, <1>3, <1>5, StartsKeeps

(* Resign, of a request or of the renewer.                                   *)
LEMMA ResignKeeps ==
  ASSUME IInv, NEW w \in Workers, NEW c \in CertIds, ~Busy(w), Resign(w, c), failed' = failed,
         IF w = Renewer THEN left' = left \ {c} ELSE left' = left
  PROVE  IInv'
<1> DEFINE row == [certs[c] EXCEPT !.leaf = issued + 1]
<1>1. /\ certs[c] # NoRow /\ issued < MaxLeaves /\ issued' = issued + 1
      /\ Begin(w, "write cert", "update", c, row)
      /\ UNCHANGED <<certs, saved, files, born, listed, dropped>>
  BY DEF Resign
<1>2. issued \in 0..MaxLeaves /\ certs[c] \in Row
  BY <1>1 DEF IInv, RowsInv, TypeOK
<1>3. issued + 1 \in Leaves /\ issued' \in 0..MaxLeaves
  <2>1. issued < MaxLeaves /\ issued' = issued + 1
    BY <1>1
  <2> QED
    BY <1>2, <2>1, CertificatesAssumption DEF Leaves
<1>4. row \in Row /\ row.leaf = issued + 1 /\ row.domain = certs[c].domain
  BY <1>2, <1>3 DEF Row
<1> HIDE DEF row
<1>5. Starts(w, "write cert", "update", c, row)
  <2>1. DirOf(row.domain) = DirOf(certs[c].domain)
    BY <1>4
  <2>2. row.leaf = issued + 1
    BY <1>4
  <2> QED
    BY <1>1, <1>3, <2>1, <2>2 DEF Starts
<1> QED
  BY <1>4, <1>5, StartsKeeps

LEMMA AskResignKeeps ==
  ASSUME IInv, NEW w \in Editors, AskResign(w)
  PROVE  IInv'
<1>1. PICK c \in CertIds : Resign(w, c)
  BY DEF AskResign
<1>2. ~Busy(w) /\ left' = left /\ failed' = failed
  BY DEF AskResign
<1>3. w \in Workers /\ w # Renewer
  BY CertificatesAssumption DEF Workers
<1> QED
  BY <1>1, <1>2, <1>3, ResignKeeps

LEMMA RenewKeeps ==
  ASSUME IInv, NEW c \in CertIds, Renew(c)
  PROVE  IInv'
<1>1. ~Busy(Renewer) /\ c \in left /\ left' = left \ {c}
  BY DEF Renew, StillToRenew
<1>2. CASE certs[c] # NoRow
  <2>1. Resign(Renewer, c) /\ failed' = failed
    BY <1>2 DEF Renew
  <2>2. Renewer \in Workers
    BY DEF Workers
  <2> QED
    BY <1>1, <2>1, <2>2, ResignKeeps
<1>3. CASE certs[c] = NoRow
  <2>1. UNCHANGED <<certs, saved, files, work, issued, born, listed, failed, dropped, settled>>
    BY <1>3 DEF Renew
  <2>2. Scanned'
    BY <1>1, <1>3, <2>1 DEF IInv, LeavesInv, Scanned, Busy
  <2>3. TypeOK'
    BY <1>1, <2>1 DEF IInv, RowsInv, TypeOK
  <2>4. Known' /\ Fresh' /\ DeletedCertificateStays'
    BY <2>1 DEF IInv, RowsInv, Known, Fresh, DeletedCertificateStays, Creates, Holds, Busy
  <2>5. Home' /\ Alone' /\ InProgress' /\ Quiet' /\ SettledMatches'
    BY <2>1
       DEF IInv, FilesInv, Home, Alone, InProgress, Quiet, SettledMatches, Progress, Dir, In, Busy
  <2>6. NewLeaves' /\ IssuedLeaves'
    BY <2>1 DEF IInv, LeavesInv, NewLeaves, IssuedLeaves, Holds
  <2> QED
    BY <2>2, <2>3, <2>4, <2>5, <2>6 DEF IInv, RowsInv, FilesInv, LeavesInv
<1> QED
  BY <1>2, <1>3

LEMMA ScanKeeps ==
  ASSUME IInv, Scan
  PROVE  IInv'
<1>1. /\ left' = {c \in CertIds : Expiring(c)}
      /\ listed' = {<<c, certs[c].leaf>> : c \in left'}
      /\ UNCHANGED <<certs, saved, files, work, issued, born, dropped, settled>>
  BY DEF Scan
<1>2. ASSUME NEW pair \in listed'
      PROVE  /\ pair[1] \in left' /\ pair[1] \in CertIds /\ pair = <<pair[1], pair[2]>>
             /\ certs[pair[1]] # NoRow /\ pair[2] = certs[pair[1]].leaf
  <2>1. PICK c \in left' : pair = <<c, certs[c].leaf>>
    BY <1>1
  <2>2. c \in CertIds /\ certs[c] # NoRow
    BY <1>1 DEF Expiring
  <2> QED
    BY <2>1, <2>2
<1>3. TypeOK'
  <2>1. \A c \in CertIds : certs[c] # NoRow => certs[c].leaf \in Leaves
    BY DEF IInv, RowsInv, TypeOK, Row
  <2>2. listed' \subseteq CertIds \X Leaves
    BY <1>2, <2>1
  <2>3. left' \subseteq CertIds
    BY <1>1
  <2> QED
    BY <1>1, <2>2, <2>3 DEF IInv, RowsInv, TypeOK
<1>4. Known'
  BY <1>1, <1>2 DEF IInv, RowsInv, Known, Busy
<1>5. Fresh'
  BY <1>1, <1>2 DEF IInv, RowsInv, Fresh, Creates, Holds, Busy
<1>6. NewLeaves'
  BY <1>1, <1>2 DEF IInv, LeavesInv, NewLeaves, Holds
<1>7. IssuedLeaves'
  BY <1>1, <1>2 DEF IInv, LeavesInv, IssuedLeaves
<1>8. Scanned'
  BY <1>1, <1>2 DEF IInv, LeavesInv, Scanned, Busy
<1>9. DeletedCertificateStays' /\ Home' /\ Alone' /\ InProgress' /\ Quiet' /\ SettledMatches'
  BY <1>1
     DEF IInv, RowsInv, FilesInv, DeletedCertificateStays, Home, Alone, InProgress, Quiet,
         SettledMatches, Progress, Dir, In, Busy
<1> QED
  BY <1>3, <1>4, <1>5, <1>6, <1>7, <1>8, <1>9 DEF IInv, RowsInv, FilesInv, LeavesInv

LEMMA NothingKeeps ==
  ASSUME IInv,
         UNCHANGED <<certs, saved, files, work, left, issued, born, listed, failed, dropped,
                     settled>>
  PROVE  IInv'
<1>1. TypeOK' /\ Known' /\ Fresh' /\ DeletedCertificateStays'
  BY DEF IInv, RowsInv, TypeOK, Known, Fresh, DeletedCertificateStays, Creates, Holds, Busy
<1>2. Home' /\ Alone' /\ InProgress' /\ Quiet' /\ SettledMatches'
  BY DEF IInv, FilesInv, Home, Alone, InProgress, Quiet, SettledMatches, Progress, Dir, In, Busy
<1>3. NewLeaves' /\ IssuedLeaves' /\ Scanned'
  BY DEF IInv, LeavesInv, NewLeaves, IssuedLeaves, Scanned, Holds, Busy
<1> QED
  BY <1>1, <1>2, <1>3 DEF IInv, RowsInv, FilesInv, LeavesInv

(* A settled directory has nobody in it whose file a crash could tear, and   *)
(* its row is the saved one. *)
LEMMA RestartKeeps ==
  ASSUME IInv, RestartProcess
  PROVE  IInv'
<1>t. TypeOK
  BY DEF IInv, RowsInv
<1>1. PICK torn \in SUBSET Workers :
        files' = [dir \in Bases |->
          [cert |-> IF \E w \in torn : Writing(w, dir, "write cert") THEN Torn
                    ELSE files[dir].cert,
           key  |-> IF \E w \in torn : Writing(w, dir, "write key") THEN Torn
                    ELSE files[dir].key]]
  BY DEF RestartProcess
<1>2. /\ certs' = saved /\ work' = [w \in Workers |-> Resting]
      /\ left' = {} /\ listed' = {} /\ failed' = {} /\ dropped' = {}
      /\ UNCHANGED <<saved, issued, born, settled>>
  BY DEF RestartProcess
<1>3. \A w \in Workers : ~Busy(w)'
  BY <1>2 DEF Busy, Resting
<1>4. Renewer \in Workers
  BY DEF Workers
<1>5. files' \in [Bases -> Files]
  <2>1. ASSUME NEW dir \in Bases
        PROVE  files'[dir] \in Files
    <3>1. /\ files[dir].cert \in 0..Torn /\ files[dir].key \in 0..Torn /\ Torn \in 0..Torn
      BY <1>t, FileNumbers
    <3> QED
      BY <1>1, <3>1 DEF Files
  <2> QED
    BY <1>1, <2>1
<1>6. TypeOK'
  BY <1>t, <1>2, <1>5 DEF TypeOK
<1>7. ASSUME NEW dir \in Bases, settled[dir] # NoRow
      PROVE  /\ files'[dir] = files[dir] /\ saved[settled[dir]] = certs[settled[dir]]
  <2>1. \A w \in Workers : ~In(w, dir)
    BY <1>7 DEF IInv, FilesInv, Quiet
  <2>2. files'[dir] = [cert |-> files[dir].cert, key |-> files[dir].key]
    BY <1>1, <2>1 DEF Writing
  <2>3. files[dir] \in Files
    BY <1>t DEF TypeOK
  <2>4. files[dir] = [cert |-> files[dir].cert, key |-> files[dir].key]
    BY <2>3 DEF Files
  <2> QED
    BY <1>7, <2>2, <2>4 DEF IInv, FilesInv, SettledMatches
<1>8. Known' /\ Fresh' /\ DeletedCertificateStays'
  BY <1>2, <1>3 DEF IInv, RowsInv, Known, Fresh, DeletedCertificateStays, Creates, Holds, Busy
<1>9. Home' /\ Alone' /\ InProgress'
  BY <1>3 DEF Home, Alone, InProgress
<1>10. Quiet'
  BY <1>2, <1>3, <1>7 DEF IInv, FilesInv, Quiet, In
<1>11. SettledMatches'
  BY <1>2, <1>7 DEF IInv, FilesInv, SettledMatches
<1>12. NewLeaves' /\ IssuedLeaves' /\ Scanned'
  BY <1>2, <1>3, <1>4 DEF IInv, LeavesInv, NewLeaves, IssuedLeaves, Scanned, Holds, Busy
<1> QED
  BY <1>6, <1>8, <1>9, <1>10, <1>11, <1>12 DEF IInv, RowsInv, FilesInv, LeavesInv

LEMMA InitHolds ==
  ASSUME CertInit
  PROVE  IInv
<1>1. \A w \in Workers : ~Busy(w)
  BY DEF CertInit, Busy, Resting
<1>2. Renewer \in Workers
  BY DEF Workers
<1>3. TypeOK
  <2>1. NoFile \in 0..Torn /\ 0 \in 0..MaxLeaves
    BY CertificatesAssumption DEF NoFile, Torn
  <2> QED
    BY <2>1 DEF CertInit, TypeOK, Files
<1>4. Known /\ Fresh /\ DeletedCertificateStays
  BY <1>1 DEF CertInit, Known, Fresh, DeletedCertificateStays, Creates, Holds, Busy
<1>5. Home /\ Alone /\ InProgress /\ Quiet /\ SettledMatches
  BY <1>1 DEF CertInit, Home, Alone, InProgress, Quiet, SettledMatches
<1>6. NewLeaves /\ IssuedLeaves /\ Scanned
  BY <1>1, <1>2 DEF CertInit, NewLeaves, IssuedLeaves, Scanned, Holds, Busy
<1> QED
  BY <1>3, <1>4, <1>5, <1>6 DEF IInv, RowsInv, FilesInv, LeavesInv

-----------------------------------------------------------------------------
(* The inductive invariant holds in every reachable state: where each         *)
(* goroutine of the certificate service stands in row and files.              *)
THEOREM Invariance == CertSpec => []IInv
<1>1. CertInit => IInv
  BY InitHolds
<1>2. ASSUME IInv, [CertNext]_certVars
      PROVE  IInv'
  <2>1. CASE \E w \in Editors : AskCertificate(w) \/ AskResign(w) \/ AskDelete(w)
    BY <1>2, <2>1, AskCertificateKeeps, AskResignKeeps, AskDeleteKeeps
  <2>2. ASSUME NEW w \in Workers,
               \/ WriteCert(w) \/ WriteKey(w) \/ CreateRow(w) \/ UpdateRow(w)
               \/ Remove(w) \/ GiveUp(w) \/ DropRow(w)
        PROVE  IInv'
    BY <1>2, <2>2, WriteCertKeeps, WriteKeyKeeps, CreateRowKeeps, UpdateRowKeeps, RemoveKeeps,
       GiveUpKeeps, DropRowKeeps
  <2>3. CASE Scan
    BY <1>2, <2>3, ScanKeeps
  <2>4. CASE \E c \in CertIds : Renew(c)
    BY <1>2, <2>4, RenewKeeps
  <2>5. CASE Expire
    BY <1>2, <2>5, NothingKeeps DEF Expire
  <2>6. CASE RestartProcess
    BY <1>2, <2>6, RestartKeeps
  <2>7. CASE UNCHANGED certVars
    BY <1>2, <2>7, NothingKeeps DEF certVars
  <2> QED
    BY <1>2, <2>1, <2>2, <2>3, <2>4, <2>5, <2>6, <2>7 DEF CertNext
<1> QED
  BY <1>1, <1>2, PTL DEF CertSpec

(* An operation that had its directory to itself and failed in nothing left  *)
(* row, file of the store and pair of PEM files in agreement.                *)
THEOREM Settled == CertSpec => []SettledMatches
<1>1. IInv => SettledMatches
  BY DEF IInv, FilesInv
<1> QED
  BY <1>1, Invariance, PTL

(* No re-signing brings back a certificate that was deleted meanwhile.       *)
THEOREM DeletedStays == CertSpec => []DeletedCertificateStays
<1>1. IInv => DeletedCertificateStays
  BY DEF IInv, RowsInv
<1> QED
  BY <1>1, Invariance, PTL

(* A scan that is over came past everything it found due.                    *)
THEOREM ScanCovers == CertSpec => []ScanLeavesNothingDue
<1>1. IInv => ScanLeavesNothingDue
  BY DEF IInv, LeavesInv, Scanned, ScanLeavesNothingDue
<1> QED
  BY <1>1, Invariance, PTL
=============================================================================
