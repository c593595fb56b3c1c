------------------------------ MODULE AuthRuleForm -----------------------------
(* AuthRuleForm: the draft of a legacy rule, its number kept as text, and    *)
(* what the auth rules service makes of a save. Burst and max age are as     *)
(* rateLimit, origins and headers as methods without its check, credentials  *)
(* as whitelist; a gateway rule, whose login mode has one value, is as none. *)
(* The secret, made by the server, is left out.                              *)
EXTENDS FormVisit

NewRule ==
  [route |-> "", type |-> "none", header |-> "", rateLimit |-> "0",
   methods |-> "", whitelist |-> {}]

LimitedRule ==
  [NewRule EXCEPT !.route = "first", !.type = "apikey", !.header = "k",
     !.rateLimit = "5", !.methods = "GET", !.whitelist = {"a"}]

(* getInitialAuthRuleForm and createNumericDrafts, where route is the one    *)
(* given or the first of the list: a limit of zero shows as none.            *)
RuleDraft(rule, route, given) ==
  LET form == IF rule = None THEN [NewRule EXCEPT !.route = route] ELSE rule
  IN [form |-> [form EXCEPT !.header = IF @ = "" THEN "X-API-Key" ELSE @,
                            !.rateLimit = IF @ = "0" THEN "" ELSE @],
      given |-> given]

(* The form it was when mounted, which the submission compares with.         *)
InitialRule(opened, form) == RuleDraft(opened, form.route, FALSE).form

OpenRuleForm ==
  /\ page.name = "rule form" /\ ~page.show
  /\ \E given \in BOOLEAN :
       OpensDraft(page.listed, RuleDraft(page.listed, "first", given))

(* The refresh may bring another first route: the initial form of a new rule *)
(* that was given no route is another one then, and the draft starts again.  *)
RulesRelisted ==
  /\ page.name = "rule form" /\ page.stale
  /\ \E first \in {"first", "second"} :
       LET reset == /\ page.show /\ page.opened = None
                    /\ ~page.draft.given /\ first # "first"
       IN page' = [page EXCEPT !.listed = server.row, !.stale = FALSE,
                     !.draft = IF reset THEN RuleDraft(None, first, FALSE)
                               ELSE @]
  /\ UNCHANGED <<server, calls, faults>>

SetRule(field, value) ==
  /\ page.draft.form[field] # value
  /\ EditsTo([page.draft EXCEPT !.form[field] = value])

(* The route is fixed where the form of a new rule was given it.             *)
EditRuleInput ==
  LET draft == page.draft
  IN /\ MayEdit("rule form")
     /\ \/ /\ ~(draft.given /\ page.opened = None)
           /\ \E v \in {"first", "second"} : SetRule("route", v)
        \/ \E v \in {"none", "apikey"} : SetRule("type", v)
        \/ draft.form.type = "apikey" /\ \E v \in {"", "k"} :
             SetRule("header", v)

EditRulePolicy ==
  /\ MayEdit("rule form")
  /\ \/ \E v \in {"", "7", "x"} : SetRule("rateLimit", v)
     \/ \E v \in {"", "get", "(x)"} : SetRule("methods", v)
     \/ \E v \in {{}, {"b"}} : SetRule("whitelist", v)

CancelRule == page.name = "rule form" /\ CancelForm

-----------------------------------------------------------------------------
(* handleSubmit. normalizeCORSMethods makes upper case of tokens and refuses *)
(* what is none; the number is checked as text.                              *)
ChecksRule(form) == form.methods # "(x)" /\ form.rateLimit # "x"

Methods(text) == IF text = "get" THEN "GET" ELSE text

(* Mutant: only what is set is sent.                                         *)
SetPolicies(form, initial) ==
  {f \in {"rateLimit", "methods", "whitelist"} :
     form[f] # [NewRule EXCEPT !.rateLimit = ""][f]}

(* What was set at first is sent as well, so that it can be cleared.         *)
SentPolicies(form, initial) ==
  {f \in {"rateLimit", "methods", "whitelist"} :
     \/ form[f] # [NewRule EXCEPT !.rateLimit = ""][f]
     \/ initial[f] # [NewRule EXCEPT !.rateLimit = ""][f]}

RulePayload(form, initial) ==
  LET full == [form EXCEPT
        !.rateLimit = IF @ = "" THEN "0" ELSE @, !.methods = Methods(@),
        !.header = IF @ = "" THEN "X-API-Key" ELSE @]
      config == IF form.type = "apikey" THEN {"header"} ELSE {}
  IN Restrict(full,
       {"route", "type"} \cup config \cup SentPolicies(form, initial))

SubmitRuleForm ==
  LET form == page.draft.form
  IN /\ page.name = "rule form" /\ MaySend /\ ChecksRule(form)
     /\ Sends("save", RulePayload(form, InitialRule(page.opened, form)))

(* buildCreate and buildUpdate: of another type nothing of the configuration *)
(* is kept.                                                                  *)
SavedRules(c) ==
  LET old == IF c.opened = None THEN NewRule ELSE server.row
      base == IF c.payload.type = old.type THEN old
              ELSE [old EXCEPT !.header = ""]
  IN {Merged(base, c.payload)}

(* What the form showed; the header is shown for an API key only.            *)
RuleShown(c, f) ==
  LET form == c.draft.form
  IN CASE f = "rateLimit" -> IF form[f] = "" THEN "0" ELSE form[f]
       [] f = "methods"   -> IF form[f] = "" THEN "" ELSE "GET"
       [] f = "header"    -> IF form[f] = "" THEN "X-API-Key" ELSE form[f]
       [] OTHER           -> form[f]
RuleFieldsShown(c) ==
  {f \in DOMAIN NewRule : f = "header" => c.draft.form.type = "apikey"}

RuleClick ==
  \/ OpenRuleForm \/ RulesRelisted \/ CancelRule \/ EditRuleInput
  \/ EditRulePolicy \/ SubmitRuleForm

RuleFormAnswered(c) == SaveAnswered(c, "rule form")
=============================================================================
