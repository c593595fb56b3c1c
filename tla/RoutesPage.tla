------------------------------ MODULE RoutesPage ------------------------------
(* The handlers of RoutesPage and of the submission of RouteForm.            *)
EXTENDS Directory

(* fetchRoutes up to its await: any message and "unavailable" flag go, the   *)
(* rows stay.                                                                *)
FetchRoutes(p) ==
  [p EXCEPT !.gen = @ + 1, !.available = TRUE, !.error = FALSE]

(* The rest of fetchRoutes. The list failing empties the page; certificates  *)
(* and rules that fail are taken for none.                                   *)
RoutesListed(c) ==
  LET after == Loaded(page, c)
      shown == IF ~Newest(c) THEN page
               ELSE IF Ok(c) THEN Shows(after, c.rows)
               ELSE [Shows(after, NoRows) EXCEPT !.available = FALSE,
                                                 !.error = TRUE]
  IN Answered(c, "routes", "list") /\ Resumes(c, Settled(shown, c.n), {})

(* The change c is done: refresh.                                            *)
RoutesRefresh(c, p) ==
  LET q == FetchRoutes(p) IN Resumes(c, q, {ListCall(q, c)})

AddRoute ==
  /\ page.name = "routes" /\ MayAct /\ page.available
  /\ Handles(OpensForm(page, None), {})

(* The button of the empty state keeps the route edited last.                *)
CreateFirstRoute ==
  /\ page.name = "routes" /\ MayAct /\ page.available /\ Shown(page) = {}
  /\ Handles(OpensForm(page, page.editing), {})

EditRoute ==
  /\ page.name = "routes" /\ MayAct
  /\ \E r \in Shown(page) : Handles(OpensForm(page, r), {})

CloseRouteForm ==
  page.name = "routes" /\ page.show /\ Handles(CloseForm(page), {})

(* RouteForm: with a certificate to upload that request comes first.         *)
SubmitRoute ==
  /\ page.name = "routes" /\ MaySubmit
  /\ \/ Submits(IF page.editing = None THEN "create" ELSE "update")
     \/ Submits("upload")

(* The certificate exists; the route follows, whether or not the form is     *)
(* still there.                                                              *)
RouteUploaded(c) ==
  /\ Answered(c, "routes", "upload")
  /\ IF Ok(c)
     THEN LET kind == IF c.row = None THEN "create" ELSE "update"
          IN Resumes(c, page, {Call(kind, c.n, c.row)})
     ELSE Resumes(c, SubmitFailed(page, c.n), {})

(* handleCreate closes the dialog, whichever it is by now.                   *)
RouteCreated(c) ==
  /\ Answered(c, "routes", "create")
  /\ IF Ok(c) THEN RoutesRefresh(c, ShutsForm(page))
     ELSE Resumes(c, SubmitFailed(page, c.n), {})

RouteUpdated(c) ==
  /\ Answered(c, "routes", "update")
  /\ IF Ok(c) THEN RoutesRefresh(c, CloseForm(page))
     ELSE Resumes(c, SubmitFailed(page, c.n), {})

DeleteRoute ==
  page.name = "routes" /\ \E r \in Rows : TableDelete(r)

RouteDeleted(c) ==
  /\ Answered(c, "routes", "delete")
  /\ IF Ok(c) THEN RoutesRefresh(c, page)
     ELSE Resumes(c, [Settled(page, c.n) EXCEPT !.error = TRUE], {})

RoutesMounted(can) == FetchRoutes(Page("routes", can))

RoutesClick ==
  \/ AddRoute \/ CreateFirstRoute \/ EditRoute \/ CloseRouteForm
  \/ SubmitRoute \/ DeleteRoute

RoutesAnswered(c) ==
  \/ RoutesListed(c) \/ RouteUploaded(c) \/ RouteCreated(c)
  \/ RouteUpdated(c) \/ RouteDeleted(c)
=============================================================================
