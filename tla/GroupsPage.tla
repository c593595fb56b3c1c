------------------------------ MODULE GroupsPage ------------------------------
(* The handlers of GroupsPage and of the submission of GroupForm. Unlike the *)
(* other pages it numbers its refreshes not at all: each answer is shown     *)
(* when it comes, and a list that fails counts as an empty one.              *)
EXTENDS Directory

FetchGroups(p) == [p EXCEPT !.error = FALSE]

GroupsListed(c) ==
  LET side == IF c.side THEN "shown" ELSE "cleared"
      after == [Loaded(page, c) EXCEPT !.side = side]
      shown == IF Ok(c) THEN Shows(after, c.rows)
               ELSE [Shows(after, NoRows) EXCEPT !.error = TRUE]
  IN Answered(c, "groups", "list") /\ Resumes(c, Settled(shown, c.n), {})

GroupsRefresh(c, p) ==
  LET q == FetchGroups(p) IN Resumes(c, q, {ListCall(q, c)})

AddGroup ==
  /\ page.name = "groups" /\ MayAct
  /\ \/ Handles(OpensForm(page, None), {})
     \/ Shown(page) = {} /\ Handles(OpensForm(page, page.editing), {})

EditGroup ==
  /\ page.name = "groups" /\ MayAct
  /\ \E r \in Shown(page) : Handles(OpensForm(page, r), {})

CloseGroupForm ==
  page.name = "groups" /\ page.show /\ Handles(CloseForm(page), {})

SubmitGroup ==
  /\ page.name = "groups" /\ MaySubmit
  /\ Submits(IF page.editing = None THEN "create" ELSE "update")

GroupCreated(c) ==
  /\ Answered(c, "groups", "create")
  /\ IF Ok(c) THEN GroupsRefresh(c, ShutsForm(page))
     ELSE Resumes(c, SubmitFailed(page, c.n), {})

GroupUpdated(c) ==
  /\ Answered(c, "groups", "update")
  /\ IF Ok(c) THEN GroupsRefresh(c, CloseForm(page))
     ELSE Resumes(c, SubmitFailed(page, c.n), {})

DeleteGroup == page.name = "groups" /\ \E r \in Rows : TableDelete(r)

GroupDeleted(c) ==
  /\ Answered(c, "groups", "delete")
  /\ IF Ok(c) THEN GroupsRefresh(c, page)
     ELSE Resumes(c, [Settled(page, c.n) EXCEPT !.error = TRUE], {})

GroupsMounted(can) == FetchGroups(Page("groups", can))

GroupsClick ==
  AddGroup \/ EditGroup \/ CloseGroupForm \/ SubmitGroup \/ DeleteGroup

GroupsAnswered(c) ==
  GroupsListed(c) \/ GroupCreated(c) \/ GroupUpdated(c) \/ GroupDeleted(c)
=============================================================================
