------------------------------- MODULE UsersPage -------------------------------
(* The handlers of UsersPage and of the submission of UserForm. The three    *)
(* lists settle independently; only the list of users decides the table.     *)
EXTENDS Directory

(* fetchData up to its await.                                                *)
FetchUsers(p) ==
  [p EXCEPT !.gen = @ + 1, !.available = TRUE, !.error = FALSE,
            !.side = IF @ = "unavailable" THEN "cleared" ELSE @]

(* The rest of fetchData: users, then the routes offered by the form.        *)
UsersTaken(p, c) ==
  IF Ok(c) THEN [Shows(p, c.rows) EXCEPT !.error = p.error \/ ~c.side]
  ELSE [Shows(p, NoRows) EXCEPT !.available = FALSE, !.error = TRUE]
RoutesTaken(p, c) ==
  [p EXCEPT !.side = IF c.side THEN "shown" ELSE "unavailable"]

UsersListed(c) ==
  LET taken == RoutesTaken(UsersTaken(page, c), c)
      shown == IF Newest(c) THEN Loaded(taken, c) ELSE page
  IN Answered(c, "users", "list") /\ Resumes(c, Settled(shown, c.n), {})

UsersRefresh(c, p) ==
  LET q == FetchUsers(p) IN Resumes(c, q, {ListCall(q, c)})

AddUser ==
  /\ page.name = "users" /\ MayAct /\ page.available
  /\ \/ Handles(OpensForm(page, None), {})
     \/ Shown(page) = {} /\ Handles(OpensForm(page, page.editing), {})

EditUser ==
  /\ page.name = "users" /\ MayAct
  /\ \E r \in Shown(page) : Handles(OpensForm(page, r), {})

CloseUserForm ==
  page.name = "users" /\ page.show /\ Handles(CloseForm(page), {})

SubmitUser ==
  /\ page.name = "users" /\ MaySubmit
  /\ Submits(IF page.editing = None THEN "create" ELSE "update")

UserCreated(c) ==
  /\ Answered(c, "users", "create")
  /\ IF Ok(c) THEN UsersRefresh(c, ShutsForm(page))
     ELSE Resumes(c, SubmitFailed(page, c.n), {})

UserUpdated(c) ==
  /\ Answered(c, "users", "update")
  /\ IF Ok(c) THEN UsersRefresh(c, CloseForm(page))
     ELSE Resumes(c, SubmitFailed(page, c.n), {})

DeleteUser == page.name = "users" /\ \E r \in Rows : TableDelete(r)

UserDeleted(c) ==
  /\ Answered(c, "users", "delete")
  /\ IF Ok(c) THEN UsersRefresh(c, page)
     ELSE Resumes(c, [Settled(page, c.n) EXCEPT !.error = TRUE], {})

(* The mount effect asks for nothing the account may not see.                *)
UsersMounted(can) ==
  IF can THEN FetchUsers(Page("users", can))
  ELSE [Page("users", can) EXCEPT !.loading = FALSE]

UsersClick ==
  AddUser \/ EditUser \/ CloseUserForm \/ SubmitUser \/ DeleteUser

UsersAnswered(c) ==
  UsersListed(c) \/ UserCreated(c) \/ UserUpdated(c) \/ UserDeleted(c)
=============================================================================
