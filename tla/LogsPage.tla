------------------------------- MODULE LogsPage -------------------------------
(* AccessLogsPage with its filters (AccessLogFilters, AccessLogTimeRange,    *)
(* access-log-view) and the dialog that purges entries (AccessLogCleanup).   *)
(* The text filters are one text; of the time range there is whether it is   *)
(* bounded; the grouping, sorting and paging of the summary, which make it   *)
(* ask anew without other filters as a change of view does, are one change.  *)
(* An answer carries no entries, only the question it answers. The entry     *)
(* selected and the count of those removed are left out.                     *)
EXTENDS Directory

Texts == {"", "host"}
Modes == {"filtered", "expired", "all"}

(* The first view, and what an address may restore: that or the opposite.    *)
DefaultFilters == [text |-> "", timed |-> TRUE, page |-> 1]
DefaultView == [filters |-> DefaultFilters, view |-> "detail"]
Views == {DefaultView,
          [filters |-> [text |-> "host", timed |-> FALSE, page |-> 2],
           view |-> "aggregate"]}

NoPreview == [scope |-> None, n |-> 0, matched |-> FALSE]

LogsMounted(can) ==
  [name |-> "logs", can |-> can, acts |-> 0, gen |-> 1, view |-> DefaultView,
   loading |-> TRUE, statsLoading |-> TRUE, error |-> FALSE,
   statsError |-> FALSE, list |-> None, aggregate |-> None, stats |-> None,
   draft |-> "", timer |-> None, composing |-> FALSE, pending |-> FALSE,
   cleanup |-> None, scope |-> None, request |-> 0, preview |-> NoPreview,
   previewing |-> FALSE, purgeError |-> FALSE, deleting |-> FALSE]

LogCall(kind, n, question, preview) ==
  [kind |-> kind, n |-> n, question |-> question, preview |-> preview]

Logs == page.name = "logs"
MayAsk == Logs /\ page.acts < MaxActs

(* What is asked for a view.                                                 *)
StatsQuestion(v) == [text |-> v.filters.text, timed |-> v.filters.timed]
DataQuestion(v) ==
  [view |-> v.view, text |-> v.filters.text, timed |-> v.filters.timed,
   page |-> IF v.view = "detail" THEN v.filters.page ELSE 1]

Questions(p) ==
  {LogCall("stats", p.gen, StatsQuestion(p.view), NoPreview),
   LogCall("data", p.gen, DataQuestion(p.view), NoPreview)}

-----------------------------------------------------------------------------
(* Effects.                                                                  *)

(* The effect of AccessLogsPage for another view, or a refresh.              *)
Asks(p, v) ==
  [p EXCEPT !.view = v, !.gen = @ + 1, !.loading = TRUE,
            !.statsLoading = TRUE, !.error = FALSE, !.statsError = FALSE,
            !.stats = None]

(* Mutant: the pending commit survives other filters.                        *)
KeepsTimer(p) == [p EXCEPT !.draft = p.view.filters.text, !.pending = FALSE]

(* The effect of AccessLogFilters for other filters.                         *)
ResetsDraft(p) ==
  [p EXCEPT !.draft = p.view.filters.text, !.pending = FALSE, !.timer = None]

(* setState with another filters object runs both.                           *)
Filtered(p, v) == ResetsDraft(Asks(p, v))

Counted(p) == [p EXCEPT !.acts = @ + 1]

(* A handler that asks anew.                                                 *)
Asked(p) == Handles(Counted(p), Questions(p))

-----------------------------------------------------------------------------
(* The filters.                                                              *)

WithText(v, text) ==
  [v EXCEPT !.filters = [@ EXCEPT !.text = text, !.page = 1]]

(* handleTextChange: while an input method composes nothing is committed.    *)
TypeText ==
  /\ MayAsk
  /\ \E text \in Texts :
       Handles([page EXCEPT !.pending = TRUE, !.draft = text,
                            !.timer = IF page.composing THEN @ ELSE text], {})

StartComposition ==
  /\ MayAsk /\ ~page.composing
  /\ Handles([page EXCEPT !.pending = TRUE, !.composing = TRUE,
                          !.timer = None], {})

EndComposition ==
  /\ Logs /\ page.composing
  /\ Handles([page EXCEPT !.composing = FALSE, !.timer = page.draft], {})

(* 300 ms after the last change.                                             *)
CommitText ==
  /\ MayAsk /\ page.timer # None
  /\ Asked(Filtered([page EXCEPT !.timer = None],
                    WithText(page.view, page.timer)))

(* clearTextFilter and handleChange commit at once.                          *)
ClearText == MayAsk /\ Asked(Filtered(page, WithText(page.view, "")))
ChangeResultFilter ==
  MayAsk /\ Asked(Filtered(page, WithText(page.view, page.draft)))

(* AccessLogTimeRange: a preset, or a custom range that is valid; both pages *)
(* become the first.                                                         *)
ChangeTimeRange ==
  /\ MayAsk
  /\ \E timed \in BOOLEAN :
       Asked(Filtered(page,
         [WithText(page.view, page.view.filters.text)
            EXCEPT !.filters = [@ EXCEPT !.timed = timed]]))

ResetFilters ==
  MayAsk /\ Asked(Filtered(page, [page.view EXCEPT !.filters = DefaultFilters]))

-----------------------------------------------------------------------------
(* The results.                                                              *)

(* refreshData, from its button or an alert: with a preset the time range,   *)
(* so the filters, are new.                                                  *)
RefreshData ==
  /\ MayAsk
  /\ (page.loading \/ page.statsLoading) => (page.error \/ page.statsError)
  /\ \/ Asked(Filtered(page, page.view))
     \/ page.view.filters.timed /\ Asked(Asks(page, page.view))

ChangeView ==
  /\ MayAsk
  /\ \/ \E view \in {"detail", "aggregate"} \ {page.view.view} :
          Asked(Asks(page, [page.view EXCEPT !.view = view]))
     \/ page.view.view = "aggregate" /\ Asked(Asks(page, page.view))

TurnPage ==
  /\ MayAsk /\ ~page.loading /\ ~page.error /\ page.view.view = "detail"
  /\ \E n \in 1..2 \ {page.view.filters.page} :
       Asked(Filtered(page,
         [page.view EXCEPT !.filters = [@ EXCEPT !.page = n]]))

(* drillDown: the group becomes a filter.                                    *)
DrillDown ==
  /\ MayAsk /\ page.view.view = "aggregate" /\ ~page.loading /\ ~page.error
  /\ \E text \in Texts :
       Asked(Filtered(page,
         [page.view EXCEPT !.view = "detail",
                           !.filters = [@ EXCEPT !.text = text, !.page = 1]]))

(* Back, forward and links: useAccessLogView reads the address.              *)
RestoreView == MayAsk /\ \E v \in Views : Asked(Filtered(page, v))

LogAnswered(c, kind) == Logs /\ c.kind = kind

StatsAnswered(c) ==
  /\ LogAnswered(c, "stats")
  /\ \E ok \in BOOLEAN :
       Resumes(c,
         IF ~Newest([gen |-> c.n]) THEN page
         ELSE IF ok THEN [page EXCEPT !.stats = c.question, !.statsLoading = FALSE]
         ELSE [page EXCEPT !.statsError = TRUE, !.statsLoading = FALSE], {})

Taken(p, c) ==
  IF c.question.view = "detail"
  THEN [p EXCEPT !.list = c.question, !.loading = FALSE]
  ELSE [p EXCEPT !.aggregate = c.question, !.loading = FALSE]

(* Beyond the last page, total, that page is asked for instead.              *)
Clamped(p, total) ==
  Filtered(p, [p.view EXCEPT !.filters = [@ EXCEPT !.page = total]])

DataAnswered(c) ==
  /\ LogAnswered(c, "data")
  /\ IF ~Newest([gen |-> c.n]) THEN Resumes(c, page, {})
     ELSE \/ Resumes(c, [page EXCEPT !.error = TRUE, !.loading = FALSE], {})
          \/ \E total \in 0..2 :
               LET clamped == Clamped(page, total)
               IN IF total > 0 /\ c.question.page > total
                  THEN Resumes(c, clamped, Questions(clamped))
                  ELSE Resumes(c, Taken(page, c), {})

-----------------------------------------------------------------------------
(* The purge dialog.                                                         *)

Scope(mode, range) ==
  [mode |-> mode,
   text |-> IF mode = "filtered" THEN range.text ELSE "",
   timed |-> mode = "filtered" /\ range.timed]
NoFilters(s) == s.mode = "filtered" /\ s.text = "" /\ ~s.timed

(* Its effect, for another scope or a retry: the preview is asked anew.      *)
Previews(p, s) ==
  LET n == p.acts + 1
  IN Handles([p EXCEPT !.acts = n, !.scope = s, !.request = n,
                       !.preview = NoPreview, !.previewing = ~NoFilters(s),
                       !.purgeError = FALSE],
             IF NoFilters(s) THEN {} ELSE {LogCall("preview", n, s, NoPreview)})

(* Its button is disabled while a text is not committed.                     *)
OpenCleanup ==
  LET range == StatsQuestion(page.view)
  IN /\ MayAsk /\ page.can /\ page.cleanup = None /\ ~page.pending
     /\ Previews([page EXCEPT !.cleanup = range], Scope("filtered", range))

(* The filters stay those the dialog was opened with.                        *)
ChangeMode ==
  /\ MayAsk /\ page.cleanup # None /\ ~page.deleting
  /\ \E mode \in Modes \ {page.scope.mode} :
       Previews(page, Scope(mode, page.cleanup))

RetryPreview ==
  /\ MayAsk /\ page.cleanup # None /\ page.purgeError /\ ~page.deleting
  /\ Previews(page, page.scope)

CloseCleanup ==
  /\ Logs /\ page.cleanup # None /\ ~page.deleting
  /\ Handles([page EXCEPT !.cleanup = None, !.scope = None, !.request = 0,
                          !.preview = NoPreview, !.previewing = FALSE,
                          !.purgeError = FALSE], {})

(* Mutant: any preview is taken.                                             *)
AnyPreview(c) == page.cleanup # None

PreviewIsCurrent(c) == page.request = c.n

PreviewAnswered(c) ==
  /\ LogAnswered(c, "preview")
  /\ \/ ~PreviewIsCurrent(c) /\ Resumes(c, page, {})
     \/ /\ PreviewIsCurrent(c)
        /\ \/ Resumes(c, [page EXCEPT !.previewing = FALSE,
                                      !.purgeError = TRUE], {})
           \/ \E matched \in BOOLEAN :
                Resumes(c, [page EXCEPT !.previewing = FALSE, !.preview =
                  [scope |-> c.question, n |-> c.n, matched |-> matched]], {})

(* execute: the cutoff is the preview's, the scope that of the dialog.       *)
ExecutePurge ==
  /\ Logs /\ page.acts <= MaxActs /\ page.cleanup # None /\ ~page.deleting
  /\ page.preview.matched /\ ~page.previewing /\ ~NoFilters(page.scope)
  /\ Handles([Counted(page) EXCEPT !.deleting = TRUE, !.purgeError = FALSE],
             {LogCall("purge", page.request, page.scope, page.preview)})

(* onPurged closes the dialog and asks anew from the first page.             *)
PurgeAnswered(c) ==
  LET done == [page EXCEPT !.cleanup = None, !.scope = None, !.request = 0,
                           !.preview = NoPreview, !.deleting = FALSE]
      first == Filtered(done, WithText(page.view, page.view.filters.text))
  IN /\ LogAnswered(c, "purge")
     /\ \/ Resumes(c, first, Questions(first))
        \/ Resumes(c, [page EXCEPT !.deleting = FALSE, !.purgeError = TRUE], {})

-----------------------------------------------------------------------------
LogsClick ==
  \/ TypeText \/ StartComposition \/ EndComposition \/ CommitText
  \/ ClearText \/ ChangeResultFilter \/ ChangeTimeRange \/ ResetFilters
  \/ RefreshData \/ ChangeView \/ TurnPage \/ DrillDown \/ RestoreView
  \/ OpenCleanup \/ ChangeMode \/ RetryPreview \/ CloseCleanup
  \/ ExecutePurge

LogsAnswered(c) ==
  \/ StatsAnswered(c) \/ DataAnswered(c)
  \/ PreviewAnswered(c) \/ PurgeAnswered(c)

-----------------------------------------------------------------------------
(* Properties.                                                               *)

(* Once loaded, results and figures are those of the filters, the view and   *)
(* the page shown, whatever older questions are still to be answered         *)
(* (AccessLogsPage.test.tsx:114).                                            *)
ResultsAreOfView ==
  Logs =>
    /\ ~page.loading /\ ~page.error =>
         DataQuestion(page.view) =
           IF page.view.view = "detail" THEN page.list ELSE page.aggregate
    /\ ~page.statsLoading /\ ~page.statsError =>
         page.stats = StatsQuestion(page.view)

(* Entries are purged in the scope whose preview was confirmed, with its     *)
(* cutoff (AccessLogCleanup.test.tsx:21, 40).                                *)
PurgesAsPreviewed ==
  Logs => \A c \in calls :
    c.kind = "purge" => c.preview.matched /\ c.preview.scope = c.question

(* A text not committed is announced, so that no purge is opened for filters *)
(* other than those shown, and what a timer will commit is the text shown:   *)
(* a reset is not undone by it (AccessLogFilters.test.tsx:43, 88).           *)
DraftIsCommitted ==
  Logs => /\ page.draft # page.view.filters.text => page.pending
          /\ page.timer # None => ~page.composing /\ page.timer = page.draft
=============================================================================
