----------------------------- MODULE RouteAuthPage -----------------------------
(* RouteAuthPage: the list of routes with a toggle for each method of        *)
(* authentication, and the dialog in which the configuration of one route is *)
(* drafted and saved and its API keys are managed. The list stays in the     *)
(* document behind the dialog, so that a route may be opened from it; what   *)
(* toggles there do while the dialog is open is left out.                    *)
(* Of a configuration there is the route it is of, of a draft whether it     *)
(* differs from the configuration loaded, of keys how many changes they had  *)
(* seen when they were read; a change of keys issues a secret (create and    *)
(* rotate) or does not (expire and delete). Messages, revealed and copied    *)
(* keys and the form around "create" are left out. Loading the dialog reads  *)
(* configuration and keys in one step.                                       *)
EXTENDS Directory

CONSTANT MaxOpens  \* bound on the dialogs one visit opens

KeyKinds == {"issue", "end"}

(* Keys and a secret with the route they are of.                             *)
NoKeys == [of |-> None, at |-> 0]
NoSecret == [of |-> None, n |-> 0]

(* The server counts the changes of each route's keys.                       *)
AuthServer == [keys |-> [r \in InitialRows |-> 0]]

(* opens numbers the dialogs; load, saving, mutation and refresh are the     *)
(* tokens and generations that answers are compared with (0: none is         *)
(* current); draft is also what the dialog shows when there is none; config  *)
(* is the route of the configuration loaded.                                 *)
AuthMounted(can) ==
  [name |-> "auth", can |-> can, loading |-> TRUE, acts |-> 0, opens |-> 0,
   routes |-> {}, failed |-> {}, open |-> None, draft |-> "closed",
   config |-> None, keys |-> NoKeys, secret |-> NoSecret, discard |-> FALSE,
   load |-> 0, saving |-> 0, mutation |-> 0, refresh |-> 0]

AuthCall(kind, n, row, dialog) ==
  [kind |-> kind, n |-> n, row |-> row, dialog |-> dialog,
   status |-> "pending", failed |-> {}, keys |-> NoKeys]

Auth == page.name = "auth"
Drafted == page.draft \in {"clean", "dirty"}

-----------------------------------------------------------------------------
(* loadAll after its awaits: a route whose configuration could not be read   *)
(* is marked; nothing is listed if the routes were not read.                 *)
AllLoaded(c) ==
  LET listed == [page EXCEPT !.routes = InitialRows, !.failed = c.failed]
  IN /\ Answered(c, "auth", "all")
     /\ Resumes(c, Loaded(IF Ok(c) THEN listed ELSE page, c), {})

(* A configuration answered by the server goes to the list.                  *)
Listed(p, c) == IF Ok(c) THEN [p EXCEPT !.failed = @ \ {c.row}] ELSE p

(* quickToggle: nothing keeps a second one from overtaking it.               *)
QuickToggle ==
  LET n == page.acts + 1
  IN /\ Auth /\ page.can /\ page.open = None /\ page.acts < MaxActs
     /\ \E r \in page.routes \ page.failed :
          Handles([page EXCEPT !.acts = n], {AuthCall("toggle", n, r, 0)})

Toggled(c) == Answered(c, "auth", "toggle") /\ Resumes(c, Listed(page, c), {})

-----------------------------------------------------------------------------
(* The dialog.                                                               *)

(* openDetail: everything of the dialog before goes, whatever it still waits *)
(* for.                                                                      *)
Opened(r) ==
  LET n == page.opens + 1
  IN [page EXCEPT !.opens = n, !.load = n, !.open = r, !.draft = "loading",
                  !.config = None, !.keys = NoKeys, !.secret = NoSecret,
                  !.discard = FALSE, !.saving = 0, !.mutation = 0,
                  !.refresh = 0]

(* The effect that loads a dialog follows a change of route: the route open  *)
(* already is not loaded again, and its dialog stays on its spinner.         *)
OpenDetail ==
  /\ Auth /\ ~page.loading /\ page.opens < MaxOpens
  /\ \E r \in page.routes :
       Handles(Opened(r), IF r = page.open THEN {}
                          ELSE {AuthCall("detail", 0, r, page.opens + 1)})

(* Mutants: an answer counts if a dialog, or that of its route, is open.     *)
LoadIfOpen(c) == page.open # None
LoadOfRoute(c) == page.open = c.row

LoadIsCurrent(c) == page.load = c.dialog /\ page.open = c.row

(* loadDetail after its awaits; keys that could not be read are none.        *)
DetailLoaded(c) ==
  LET read == [page EXCEPT !.draft = "clean", !.keys = c.keys,
                           !.config = c.row]
      none == [page EXCEPT !.draft = "failed", !.keys = NoKeys,
                           !.config = None]
  IN /\ Answered(c, "auth", "detail")
     /\ Resumes(c, IF ~LoadIsCurrent(c) THEN page
                   ELSE IF Ok(c) THEN Listed(read, c)
                   ELSE none, {})

(* updateDetailDraft; an edit may undo an earlier one.                       *)
EditDraft ==
  /\ Auth /\ Drafted /\ page.saving = 0
  /\ \E d \in {"clean", "dirty"} :
       Handles([page EXCEPT !.draft = d], {})

(* saveDetailConfig; an invalid draft would only get messages.               *)
SaveDetail ==
  LET n == page.acts + 1
  IN /\ Auth /\ page.can /\ Drafted
     /\ page.saving = 0 /\ page.mutation = 0 /\ page.acts < MaxActs
     /\ Handles([page EXCEPT !.acts = n, !.saving = n, !.discard = FALSE],
                {AuthCall("save", n, page.open, page.opens)})

SaveIsCurrent(c) == page.saving = c.n /\ page.open = c.row

DetailSaved(c) ==
  LET listed == Listed(page, c)
      shown == IF Ok(c) THEN [listed EXCEPT !.draft = "clean", !.config = c.row]
               ELSE listed
  IN /\ Answered(c, "auth", "save")
     /\ Resumes(c, IF SaveIsCurrent(c) THEN [shown EXCEPT !.saving = 0]
                   ELSE listed, {})

(* closeDetail; the secret goes when the next dialog opens.                  *)
Closed ==
  [page EXCEPT !.open = None, !.draft = "closed", !.config = None,
               !.keys = NoKeys, !.discard = FALSE, !.load = 0, !.saving = 0,
               !.mutation = 0, !.refresh = 0]

(* Mutant: the dialog of unsaved changes closes like any other.              *)
NeverAsks(p) == FALSE

AsksFirst(p) == p.draft = "dirty"

RequestCloseDetail ==
  /\ Auth /\ page.open # None /\ page.saving = 0 /\ page.mutation = 0
  /\ Handles(IF AsksFirst(page) THEN [page EXCEPT !.discard = TRUE]
             ELSE Closed, {})

DiscardChanges ==
  /\ Auth /\ page.discard /\ page.saving = 0 /\ page.mutation = 0
  /\ Handles(Closed, {})

KeepEditing ==
  /\ Auth /\ page.discard /\ page.saving = 0
  /\ Handles([page EXCEPT !.discard = FALSE], {})

-----------------------------------------------------------------------------
(* API keys: one change at a time, and none beside a save.                   *)

MayChangeKeys == page.saving = 0 /\ page.mutation = 0

(* handleCreateKey, handleRotateKey, handleExpireKey and handleDeleteKey up  *)
(* to their first await.                                                     *)
ChangeKey ==
  LET n == page.acts + 1
  IN /\ Auth /\ page.can /\ Drafted /\ MayChangeKeys /\ page.acts < MaxActs
     /\ \E kind \in KeyKinds :
          Handles([page EXCEPT !.acts = n, !.mutation = n],
                  {AuthCall(kind, n, page.open, page.opens)})

(* Mutant: a change is current while its route is open.                      *)
OfOpenRoute(c) == page.open = c.row

IsCurrentKeyMutation(c) == page.mutation = c.n /\ page.open = c.row

(* Mutant: the finally is skipped when the request failed.                   *)
FinishedIfOk(c) ==
  IF page.mutation = c.n /\ Ok(c) THEN [page EXCEPT !.mutation = 0] ELSE page

FinishKeyMutation(c) ==
  IF page.mutation = c.n THEN [page EXCEPT !.mutation = 0] ELSE page

(* Their answers: the secret is shown, the keys are read again.              *)
KeyChanged(c) ==
  LET shown == IF c.kind = "issue"
               THEN [page EXCEPT !.secret = [of |-> c.row, n |-> c.n]]
               ELSE page
  IN /\ \E kind \in KeyKinds : Answered(c, "auth", kind)
     /\ IF Ok(c) /\ IsCurrentKeyMutation(c)
        THEN Resumes(c, [shown EXCEPT !.refresh = c.n],
                     {AuthCall("keys", c.n, c.row, c.dialog)})
        ELSE Resumes(c, FinishKeyMutation(c), {})

(* Mutant: the keys read are those of the route open now.                    *)
KeysOfRoute(c) == page.open = c.row

NewestKeys(c) == page.refresh = c.n /\ page.open = c.row

(* refreshDetailKeys after its await, and the finally of the handler.        *)
KeysRefreshed(c) ==
  LET done == FinishKeyMutation(c)
  IN /\ Answered(c, "auth", "keys")
     /\ Resumes(c, IF Ok(c) /\ NewestKeys(c) THEN [done EXCEPT !.keys = c.keys]
                   ELSE done, {})

DismissSecret ==
  /\ Auth /\ Drafted /\ page.secret # NoSecret
  /\ Handles([page EXCEPT !.secret = NoSecret], {})

-----------------------------------------------------------------------------
(* The server.                                                               *)

AnswersAuth(c, a) ==
  \E b \in {[a EXCEPT !.status = "ok"], [c EXCEPT !.status = "failed"]} :
    calls' = (calls \ {c}) \cup {b}

ServeAuthRead(c) ==
  /\ c.kind \in {"all", "detail", "keys"} /\ c.status = "pending"
  /\ \/ /\ c.kind = "all"
        /\ \E S \in {{}, InitialRows} : AnswersAuth(c, [c EXCEPT !.failed = S])
     \/ /\ c.kind # "all"
        /\ \E at \in {server.keys[c.row]} \cup
                     (IF c.kind = "detail" THEN {0} ELSE {}) :
             AnswersAuth(c, [c EXCEPT !.keys = [of |-> c.row, at |-> at]])
  /\ UNCHANGED <<server, page, faults>>

(* A change may fail, or its answer be lost after it.                        *)
ServeAuthChange(c) ==
  /\ c.kind \in KeyKinds \cup {"toggle", "save"} /\ c.status = "pending"
  /\ \/ /\ calls' = (calls \ {c}) \cup {[c EXCEPT !.status = "failed"]}
        /\ UNCHANGED server
     \/ /\ AnswersAuth(c, c)
        /\ server' = IF c.kind \in KeyKinds
                     THEN [server EXCEPT !.keys[c.row] = @ + 1] ELSE server
  /\ UNCHANGED <<page, faults>>

-----------------------------------------------------------------------------
AuthClick ==
  \/ QuickToggle \/ OpenDetail \/ EditDraft \/ SaveDetail
  \/ RequestCloseDetail \/ DiscardChanges \/ KeepEditing
  \/ ChangeKey \/ DismissSecret

AuthAnswered(c) ==
  \/ AllLoaded(c) \/ Toggled(c) \/ DetailLoaded(c) \/ DetailSaved(c)
  \/ KeyChanged(c) \/ KeysRefreshed(c)

ServeAuth(c) == ServeAuthRead(c) \/ ServeAuthChange(c)

-----------------------------------------------------------------------------
(* Properties.                                                               *)

(* What the dialog shows is of the route it is open for: no answer to a      *)
(* request of a dialog before it gets in (RouteAuthPage.test.tsx:356, 445).  *)
DialogShowsItsRoute ==
  Auth /\ page.open # None =>
    \A shown \in {page.config, page.keys.of, page.secret.of} :
      shown \in {None, page.open}

(* A one-time secret is only replaced by that of a later request             *)
(* (RouteAuthPage.test.tsx:381), the keys a dialog shows never by an older   *)
(* list of them.                                                             *)
NewestShown ==
  [][Auth =>
       /\ page.secret # NoSecret /\ page'.secret # NoSecret
            => page'.secret.n >= page.secret.n
       /\ page'.opens = page.opens /\ page'.open # None /\ page.keys # NoKeys
            => page'.keys.at >= page.keys.at]_<<page, calls>>

(* While no route is opened from the list behind it, a dialog with unsaved   *)
(* changes keeps them: no answer takes them away, but that of their own      *)
(* save, and it is closed only after it asked (RouteAuthPage.test.tsx:416).  *)
(* Opening a route from the list, another one or the same, is left out: it   *)
(* discards them unasked (openDetail).                                       *)
EditsKept ==
  [][Auth /\ page.draft = "dirty" /\ page'.opens = page.opens =>
       /\ page'.open = None => page.discard
       /\ page'.open # None /\ page'.draft # "dirty" /\ calls' # calls
            => page.saving # 0]_<<page, calls>>
=============================================================================
