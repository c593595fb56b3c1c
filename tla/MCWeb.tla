-------------------------------- MODULE MCWeb ---------------------------------
(* Small instances of WebSession and of Console: a behaviour follows either the *)
(* session over the tabs of a browser, or a visit to one page in a tab whose     *)
(* session lasts.                                                                *)
EXTENDS Console, WebSession

VARIABLE shape

(* What the other part shows meanwhile: no open tab of a fresh server, or a form *)
(* just opened, with no request under way.                                       *)
NoSession == ~configured /\ storage = Empty
NoVisit   == page.name = "certificate form"

WebInit ==
  /\ Init /\ SessionInit
  /\ shape \in {"session", "visit"}
  /\ IF shape = "visit" THEN NoSession ELSE NoVisit

WebNext ==
  \/ shape = "visit" /\ Next /\ UNCHANGED <<sessionVars, shape>>
  \/ shape = "session" /\ SessionNext /\ UNCHANGED <<vars, shape>>

WebSpec ==
  /\ WebInit /\ [][WebNext]_<<vars, sessionVars, shape>>
  /\ WF_vars(shape = "visit" /\ (Served \/ Resume))
  /\ SessionFairness
=============================================================================
