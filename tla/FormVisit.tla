------------------------------- MODULE FormVisit -------------------------------
(* What the forms of the console share: a dialog that opens on a row of the  *)
(* page's list, a draft the user edits, and a save that sends what the form  *)
(* makes of it. One row is followed, from the list to the server and back;   *)
(* RouteForm, AssignmentForms, AuthRuleForm and CertificateForm say what the *)
(* row and the draft hold, Directory how lists and deletions go. Text is     *)
(* drawn from a few typed values, what is read from it is a table.           *)
EXTENDS Directory, Sequences

CONSTANT MaxInputs  \* bound on the edits and saves of one visit

ASSUME InputsAssumption == MaxInputs \in Nat

(* listed: the row as the page lists it; stale: its refresh is under way;    *)
(* opened: the row the form was given, None for a new one; offered: the      *)
(* routes a form can name.                                                   *)
FormPage(name, row, offered) ==
  [name |-> name, can |-> TRUE, loading |-> FALSE, listed |-> row,
   stale |-> FALSE, show |-> FALSE, opened |-> None, draft |-> None,
   offered |-> offered, edits |-> 0, submit |-> 0, acts |-> 0]

(* The row of the form on the server, as last created or changed.            *)
FormServer(row) == [row |-> row, taken |-> FALSE]

Trimmed(text) ==
  CASE text = " a " -> "a" [] text = " " -> "" [] OTHER -> text

-----------------------------------------------------------------------------
(* Handlers.                                                                 *)

(* The dialog mounts the form on a row, with the draft it starts from.       *)
OpensDraft(row, draft) ==
  Handles([page EXCEPT !.show = TRUE, !.opened = row, !.draft = draft], {})

MoreInput == page.edits + page.acts < MaxInputs

MayEdit(name) == page.name = name /\ page.show /\ MoreInput

MaySend == MaySubmit /\ MoreInput

EditsTo(draft) ==
  Handles([page EXCEPT !.draft = draft, !.edits = @ + 1], {})

Unmounted(p) ==
  [p EXCEPT !.show = FALSE, !.opened = None, !.draft = None, !.submit = 0]

CancelForm == page.show /\ Handles(Unmounted(page), {})

(* handleSubmit past its checks; the request keeps the form it was sent by.  *)
Sends(kind, payload) ==
  LET n == page.acts + 1
  IN Handles([page EXCEPT !.acts = n, !.submit = n],
       {[kind |-> kind, n |-> n, status |-> "pending", payload |-> payload,
         opened |-> page.opened, draft |-> page.draft]})

(* A page's handler closes the dialog it finds, and refreshes its list.      *)
SaveAnswered(c, name) ==
  /\ Answered(c, name, "save")
  /\ Resumes(c, IF Ok(c) THEN [Unmounted(page) EXCEPT !.stale = TRUE]
                ELSE SubmitFailed(page, c.n), {})

(* The refresh, which shows the row as the server had it at some moment.     *)
Relisted ==
  /\ page.stale
  /\ page' = [page EXCEPT !.listed = server.row, !.stale = FALSE]
  /\ UNCHANGED <<server, calls, faults>>

-----------------------------------------------------------------------------
(* The server takes one of the rows it makes of a save, or refuses.          *)
ServeSave(c, rows) ==
  /\ c.kind = "save" /\ c.status = "pending"
  /\ \/ /\ Answers(c, "failed")
        /\ UNCHANGED <<server, page, faults>>
     \/ /\ \E row \in rows : server' = [server EXCEPT !.row = row]
        /\ \/ Answers(c, "ok") /\ faults' = faults
           \/ Answers(c, "failed") /\ faults' = faults \cup {"lost"}
        /\ UNCHANGED page

(* An update keeps of a row what the request does not name.                  *)
Merged(row, payload) ==
  [f \in DOMAIN row |-> IF f \in DOMAIN payload THEN payload[f] ELSE row[f]]
=============================================================================
