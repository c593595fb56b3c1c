----------------------------- MODULE AuthRulesPage -----------------------------
(* The handlers of AuthRulesPage and of the submission of AuthRuleForm. The  *)
(* page lists routes with their rules below, so that rules show only while   *)
(* routes do, and its rows are its own: no deletion is refused.              *)
EXTENDS Directory

FetchRules(p) ==
  [p EXCEPT !.gen = @ + 1, !.available = TRUE, !.error = FALSE,
            !.side = IF @ = "unavailable" THEN "cleared" ELSE @]

RulesListed(c) ==
  LET routes == IF c.side THEN "shown" ELSE "unavailable"
      after == [Loaded(page, c) EXCEPT !.side = routes]
      shown == IF ~Newest(c) THEN page
               ELSE IF Ok(c)
               THEN [after EXCEPT !.rows = c.rows, !.error = @ \/ ~c.side]
               ELSE [after EXCEPT !.rows = NoRows, !.available = FALSE,
                                  !.error = TRUE]
  IN Answered(c, "rules", "list") /\ Resumes(c, shown, {})

RulesRefresh(c, p) ==
  LET q == FetchRules(p) IN Resumes(c, q, {ListCall(q, c)})

RoutesShown == page.side = "shown"

(* openCreateForm, from the header, the empty state or the row of a route.   *)
AddRule ==
  /\ page.name = "rules" /\ MayAct /\ RoutesShown
  /\ Handles(OpensForm(page, None), {})

EditRule ==
  /\ page.name = "rules" /\ MayAct /\ RoutesShown
  /\ \E r \in Shown(page) : Handles(OpensForm(page, r), {})

CloseRuleForm ==
  page.name = "rules" /\ page.show /\ Handles(CloseForm(page), {})

SubmitRule ==
  /\ page.name = "rules" /\ MaySubmit
  /\ Submits(IF page.editing = None THEN "create" ELSE "update")

RuleCreated(c) ==
  /\ Answered(c, "rules", "create")
  /\ IF Ok(c) THEN RulesRefresh(c, ShutsForm(page))
     ELSE Resumes(c, SubmitFailed(page, c.n), {})

RuleUpdated(c) ==
  /\ Answered(c, "rules", "update")
  /\ IF Ok(c) THEN RulesRefresh(c, CloseForm(page))
     ELSE Resumes(c, SubmitFailed(page, c.n), {})

DeleteRule ==
  LET n == page.acts + 1
  IN /\ page.name = "rules" /\ MayAct /\ RoutesShown /\ page.acts < MaxActs
     /\ \E r \in Shown(page) :
          Handles([page EXCEPT !.acts = n], {Call("delete", n, r)})

RuleDeleted(c) ==
  /\ Answered(c, "rules", "delete")
  /\ IF Ok(c) THEN RulesRefresh(c, page)
     ELSE Resumes(c, [page EXCEPT !.error = TRUE], {})

RulesMounted(can) == FetchRules(Page("rules", can))

RulesClick == AddRule \/ EditRule \/ CloseRuleForm \/ SubmitRule \/ DeleteRule

RulesAnswered(c) ==
  RulesListed(c) \/ RuleCreated(c) \/ RuleUpdated(c) \/ RuleDeleted(c)
=============================================================================
