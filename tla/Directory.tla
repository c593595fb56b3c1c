------------------------------- MODULE Directory -------------------------------
(* What the directory pages of the console share: a list fetched from the    *)
(* server, a table whose rows can be deleted, a dialog with a form that      *)
(* creates or edits a row, and the requests under way. One page is mounted;  *)
(* RoutesPage, UsersPage, GroupsPage, CertificatesPage and AuthRulesPage     *)
(* give its handlers. The server appears as the rows it holds; the content   *)
(* of a row is the number of the change that wrote it. The disabled state    *)
(* of a button follows only at the next render, so every click that finds    *)
(* its button reaches the handler.                                           *)
EXTENDS Naturals, FiniteSets, Functions

CONSTANTS Rows,        \* ids the server hands out
          InitialRows, \* those that exist before the visit
          MaxActs,     \* bound on the changes one visit sends
          None         \* null

ASSUME ActsAssumption == MaxActs \in Nat
ASSUME RowsAssumption == InitialRows \subseteq Rows /\ None \notin Rows

VARIABLES server,  \* the rows ever created, and whether a domain is taken
          page,    \* the state and refs of the mounted page
          calls,   \* the requests under way
          faults   \* which of "list" (failed), "lost" (an answer) occurred

vars == <<server, page, calls, faults>>

Original == 0
Gone == MaxActs + 1

Living(rows) == {r \in DOMAIN rows : rows[r] # Gone}
Snapshot == Restrict(server.rows, Living(server.rows))
NoRows == [r \in {} |-> Gone]

-----------------------------------------------------------------------------
(* A page before its effects run. can: what the account may change;          *)
(* available: no "list unavailable" flag; side: the lists shown in forms.    *)
Page(name, can) ==
  [name |-> name, can |-> can, loading |-> TRUE, gen |-> 0, acts |-> 0,
   available |-> TRUE, side |-> "cleared", error |-> FALSE, rows |-> NoRows,
   show |-> FALSE, editing |-> None, submit |-> 0,
   deleting |-> {}, resigning |-> {}]

Call(kind, n, row) ==
  [kind |-> kind, n |-> n, row |-> row, gen |-> 0, status |-> "pending",
   rows |-> NoRows, side |-> TRUE, after |-> "none"]

(* The first list a page asks for, and the refresh after the change c.       *)
FirstList(p) == [Call("list", 0, None) EXCEPT !.gen = p.gen]
ListCall(p, c) ==
  [Call("list", c.n, c.row) EXCEPT !.gen = p.gen, !.after = c.kind]

(* Handlers: p is the page they leave, new the requests they send.           *)
Handles(p, new) ==
  /\ page' = p
  /\ calls' = calls \cup new
  /\ UNCHANGED <<server, faults>>

Resumes(c, p, new) ==
  /\ page' = p
  /\ calls' = (calls \ {c}) \cup new
  /\ UNCHANGED <<server, faults>>

(* A handler goes on once the request it awaits is answered.                 *)
Answered(c, name, kind) ==
  /\ page.name = name /\ c.kind = kind /\ c.status # "pending"

Ok(c) == c.status = "ok"

MayAct == page.can /\ ~page.loading /\ ~page.show

(* Mutant: every answer counts.                                              *)
Every(c) == TRUE

(* The generation a fetch compares after its await.                          *)
Newest(c) == c.gen = page.gen

(* Mutant: the spinner goes when the list came, not in the finally.          *)
LoadedIfOk(p, c) == IF Ok(c) THEN [p EXCEPT !.loading = FALSE] ELSE p

(* The finally of a fetch.                                                   *)
Loaded(p, c) == [p EXCEPT !.loading = FALSE]

-----------------------------------------------------------------------------
(* DataTable: it exists while there are rows, and forgets what it was        *)
(* deleting when it goes.                                                    *)

Shown(p) == DOMAIN p.rows

Shows(p, rows) ==
  [p EXCEPT !.rows = rows,
            !.deleting = IF DOMAIN rows = {} THEN {} ELSE @]

Busy(marks) == {m[1] : m \in marks}

(* Mutant: the click is not checked against the deletions under way.         *)
DeletableTwice(r) == MayAct /\ r \in Shown(page) /\ page.acts < MaxActs

Deletable(r) ==
  /\ MayAct /\ r \in Shown(page) /\ page.acts < MaxActs
  /\ r \notin Busy(page.deleting)

TableDelete(r) ==
  LET n == page.acts + 1
  IN /\ Deletable(r)
     /\ Handles([page EXCEPT !.acts = n, !.deleting = @ \cup {<<r, n>>}],
                {Call("delete", n, r)})

(* The finally of the handlers of change n.                                  *)
Settled(p, n) ==
  [p EXCEPT !.deleting = {m \in @ : m[2] # n},
            !.resigning = {m \in @ : m[2] # n}]

-----------------------------------------------------------------------------
(* The dialog. Closing it unmounts its form: a form opened later knows       *)
(* nothing of a submission of this one.                                      *)

OpensForm(p, row) == [p EXCEPT !.show = TRUE, !.editing = row]
ShutsForm(p) == [p EXCEPT !.show = FALSE, !.submit = 0]
CloseForm(p) == [ShutsForm(p) EXCEPT !.editing = None]

(* handleSubmit of a form: one submission at a time.                         *)
MaySubmit == page.can /\ page.show /\ page.submit = 0 /\ page.acts < MaxActs

Submits(kind) ==
  LET n == page.acts + 1
  IN Handles([page EXCEPT !.acts = n, !.submit = n],
             {Call(kind, n, page.editing)})

(* Its catch and finally, if it still exists.                                *)
SubmitFailed(p, n) == [p EXCEPT !.submit = IF @ = n THEN 0 ELSE @]

-----------------------------------------------------------------------------
(* The server, and the network that may lose an answer after the change.     *)

ServeList(c) ==
  /\ c.kind = "list" /\ c.status = "pending"
  /\ \/ /\ \E s \in BOOLEAN :
             calls' = (calls \ {c}) \cup
               {[c EXCEPT !.status = "ok", !.rows = Snapshot, !.side = s]}
        /\ UNCHANGED <<server, page, faults>>
     \/ /\ \E s \in BOOLEAN :
             calls' = (calls \ {c}) \cup
               {[c EXCEPT !.status = "failed", !.side = s]}
        /\ faults' = faults \cup {"list"}
        /\ UNCHANGED <<server, page>>

Fresh == Rows \ DOMAIN server.rows

(* The servers a request may leave behind; none if it must be refused.       *)
Effects(c) ==
  CASE c.kind = "create" ->
         {[server EXCEPT !.rows = [r \in DOMAIN @ \cup {f} |->
             IF r = f THEN c.n ELSE @[r]]] : f \in Fresh}
    [] c.kind \in {"update", "resign"} ->
         IF c.row \in Living(server.rows)
         THEN {[server EXCEPT !.rows[c.row] = c.n]} ELSE {}
    [] c.kind = "delete" ->
         IF c.row \in Living(server.rows)
         THEN {[server EXCEPT !.rows[c.row] = Gone]} ELSE {}
    [] c.kind = "upload" ->
         IF server.taken THEN {} ELSE {[server EXCEPT !.taken = TRUE]}
    [] OTHER -> {}

Answers(c, status) == calls' = (calls \ {c}) \cup {[c EXCEPT !.status = status]}

ServeChange(c) ==
  /\ c.kind \in {"create", "update", "delete", "resign", "upload"}
  /\ c.status = "pending"
  /\ \/ /\ Answers(c, "failed")
        /\ UNCHANGED <<server, page, faults>>
     \/ /\ server' \in Effects(c)
        /\ \/ Answers(c, "ok") /\ faults' = faults
           \/ Answers(c, "failed") /\ faults' = faults \cup {"lost"}
        /\ UNCHANGED page

Serve == \E c \in calls : ServeList(c) \/ ServeChange(c)
=============================================================================
