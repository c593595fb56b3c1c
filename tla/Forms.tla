--------------------------------- MODULE Forms ---------------------------------
(* The forms of the console together: a visit is to one of them.             *)
EXTENDS RouteForm, AssignmentForms, AuthRuleForm, CertificateForm

FormNames ==
  {"route form", "user form", "group form", "rule form", "certificate form"}

OnForm == page.name \in FormNames

(* The rows a visit may begin with.                                          *)
FirstRows(name) ==
  CASE name = "route form" -> RouteFormRows
    [] name = "user form"  -> {None, AssignedUser}
    [] name = "group form" -> {None, AssignedGroup}
    [] name = "rule form"  -> {None, LimitedRule}
    [] OTHER               -> {None}

FormServers(name) == {FormServer(row) : row \in FirstRows(name)}
FormMounted(name, s) == FormPage(name, s.row, InitialRows)

FormClick ==
  \/ RouteClick \/ AssignmentClick \/ RuleClick \/ CertificateClick
  \/ page.name # "rule form" /\ Relisted

SavedRows(c) ==
  CASE page.name = "route form" -> SavedRoutes(c)
    [] page.name = "user form"  -> SavedUsers(c)
    [] page.name = "group form" -> SavedGroups(c)
    [] page.name = "rule form"  -> SavedRules(c)
    [] OTHER                    -> SavedCertificates(c)

ServeForm(c) == ServeChange(c) \/ ServeSave(c, SavedRows(c))

FormAnswered(c) ==
  \/ RouteFormAnswered(c) \/ AssignmentAnswered(c) \/ RuleFormAnswered(c)
  \/ CertificateFormAnswered(c)

-----------------------------------------------------------------------------
(* Properties.                                                               *)

FieldsShown(c) ==
  CASE page.name = "route form" -> RouteFieldsShown(c)
    [] page.name = "rule form"  -> RuleFieldsShown(c)
    [] page.name = "certificate form" -> CertificateFieldsShown(c)
    [] OTHER -> AssignmentFieldsShown(c)
ShownOf(c, f) ==
  CASE page.name = "route form" -> RouteShown(c, f)
    [] page.name = "rule form"  -> RuleShown(c, f)
    [] page.name = "certificate form" -> CertificateShown(c, f)
    [] OTHER -> AssignmentShown(c, f)

(* Of the fields listed for its form (RouteFieldsShown, RuleFieldsShown,     *)
(* AssignmentFieldsShown, CertificateFieldsShown), the server stores what    *)
(* the form showed when it was submitted, through the reading of numbers,    *)
(* the cleaning of lists, the upload before the save and the merge with the  *)
(* stored row, where the form was opened on the row as it is stored. Of a    *)
(* route three things are not stored as shown and left out: header rules all *)
(* removed, which stay (RouteForm.tsx handleSubmit); TLS switched off above  *)
(* a certificate still chosen, which the service switches on again           *)
(* (service.go resolveCertificate); and the paths of a certificate.          *)
Accepts(c) ==
  /\ c.kind = "save" /\ c.status = "pending"
  /\ [c EXCEPT !.status = "ok"] \in calls'
SavedAsShown ==
  [][\A c \in calls :
       OnForm /\ Accepts(c) /\ c.opened \in {None, server.row} =>
         \A f \in FieldsShown(c) : server'.row[f] = ShownOf(c, f)]_vars

(* A user or a group has paths only of routes it is assigned: the paths of a *)
(* route taken away do not wait to come back with it.                        *)
PathsOfAssigned ==
  page.name \in {"user form", "group form"} =>
    \A row \in {server.row, page.draft} \ {None} :
      DOMAIN row.paths \subseteq row.routes
=============================================================================
