------------------------------- MODULE RouteForm -------------------------------
(* RouteForm: the draft of a route, its header rules, its backend pool, its  *)
(* certificate, chosen or uploaded, and what the route service makes of the  *)
(* request. One text stands for host, backend and the other inputs of its    *)
(* kind, one number for the three that are, one map and one list of headers  *)
(* for the two of each.                                                      *)
EXTENDS FormVisit

NoHeaders == [k \in {} |-> ""]
Backend(url, weight) == [url |-> url, weight |-> weight]

NewRoute ==
  [backend |-> "", root |-> "", timeout |-> "0", type |-> "proxy",
   pool |-> <<>>, headers |-> NoHeaders, names |-> <<>>,
   tls |-> FALSE, certificate |-> "", path |-> ""]

PooledRoute ==
  [NewRoute EXCEPT !.timeout = "5", !.pool = <<Backend("a", "1")>>,
     !.headers = [k \in {"x", "y"} |-> k], !.names = <<"x">>]
SecuredRoute ==
  [PooledRoute EXCEPT !.tls = TRUE, !.certificate = "c1", !.path = "c1"]

(* getInitialRouteForm, and the state reset with it.                         *)
RouteDraft(route) ==
  [form |-> IF route = None THEN NewRoute ELSE route,
   mode |-> "system", uploaded |-> FALSE]

(* parseIntegerDraft: nothing is zero, not every text a number.              *)
IsInteger(text) == text # "x"
Integer(text) == IF text = "" THEN "0" ELSE text

(* cleanHeaderMap and cleanHeaderList.                                       *)
CleanHeaders(map) == Restrict(map, DOMAIN map \ {""})
CleanNames(list) == SelectSeq(list, LAMBDA name : name # "")

-----------------------------------------------------------------------------
OpenRouteForm ==
  /\ page.name = "route form" /\ ~page.show
  /\ OpensDraft(page.listed, RouteDraft(page.listed))

Sets(field, value) ==
  /\ page.draft.form[field] # value
  /\ EditsTo([page.draft EXCEPT !.form[field] = value])

IsStatic == page.draft.form.type = "static"

EditRouteInput ==
  /\ MayEdit("route form")
  /\ \/ \E v \in {"proxy", "static"} : Sets("type", v)
     \/ \E v \in {"", "5", "x"} : Sets("timeout", v)
     \/ \E v \in {"", " a "} : Sets(IF IsStatic THEN "root" ELSE "backend", v)

(* addBackend, removeBackend, updateBackend.                                 *)
EditPool ==
  LET pool == page.draft.form.pool
  IN /\ MayEdit("route form") /\ ~IsStatic
     /\ \/ Sets("pool", Append(pool, Backend("", "1")))
        \/ \E i \in DOMAIN pool :
             \/ Sets("pool", SubSeq(pool, 1, i - 1)
                             \o SubSeq(pool, i + 1, Len(pool)))
             \/ \E url \in {"", " a "} :
                  Sets("pool", [pool EXCEPT ![i].url = url])
             \/ \E weight \in {"", "2", "x"} :
                  Sets("pool", [pool EXCEPT ![i].weight = weight])

(* A row of a header map set: the key typed replaces the key it had, and     *)
(* whatever another row of that key held.                                    *)
WithHeader(map, key, value) ==
  [k \in DOMAIN map \cup {key} |-> IF k = key THEN value ELSE map[k]]
WithoutHeader(map, key) == Restrict(map, DOMAIN map \ {key})
Renamed(map, key, typed) ==
  WithHeader(WithoutHeader(map, key), typed, map[key])

EditHeaders ==
  LET map == page.draft.form.headers
  IN /\ MayEdit("route form")
     /\ \/ Sets("headers", WithHeader(map, "", ""))
        \/ \E k \in DOMAIN map :
             \/ Sets("headers", WithoutHeader(map, k))
             \/ Sets("headers", WithHeader(map, k, "z"))
             \/ \E typed \in {"", "x", "y"} :
                  Sets("headers", Renamed(map, k, typed))

EditNames ==
  LET list == page.draft.form.names
  IN /\ MayEdit("route form")
     /\ \/ Sets("names", Append(list, ""))
        \/ \E i \in DOMAIN list :
             \/ Sets("names", SubSeq(list, 1, i - 1)
                              \o SubSeq(list, i + 1, Len(list)))
             \/ \E name \in {"", "y"} :
                  Sets("names", [list EXCEPT ![i] = name])

(* The switch, and below it either the select or the fields of an upload.    *)
EditTLS ==
  LET draft == page.draft
  IN /\ MayEdit("route form")
     /\ \/ Sets("tls", ~draft.form.tls)
        \/ /\ draft.form.tls
           /\ \/ EditsTo([draft EXCEPT !.mode =
                   IF @ = "system" THEN "upload" ELSE "system"])
              \/ draft.mode = "system" /\
                   \E id \in {"", "c1"} : Sets("certificate", id)
              \/ draft.mode = "upload" /\ ~draft.uploaded /\
                   EditsTo([draft EXCEPT !.uploaded = TRUE])

CancelRoute == page.name = "route form" /\ CancelForm

-----------------------------------------------------------------------------
(* handleSubmit. Backends without a URL are dropped before their numbers are *)
(* looked at; a weight must be positive.                                     *)
CleanPool(pool) ==
  LET named == SelectSeq(pool, LAMBDA b : Trimmed(b.url) # "")
  IN [i \in DOMAIN named |-> [named[i] EXCEPT !.url = Trimmed(@)]]

ChecksRoute(draft) ==
  /\ IsInteger(draft.form.timeout)
  /\ \A i \in DOMAIN CleanPool(draft.form.pool) :
       CleanPool(draft.form.pool)[i].weight \in {"1", "2"}
  /\ draft.form.tls /\ draft.mode = "upload" => draft.uploaded

(* What is sent: all but empty header rules.                                 *)
RoutePayload(form) ==
  LET cleaned ==
        [form EXCEPT !.backend = Trimmed(@), !.root = Trimmed(@),
                     !.timeout = Integer(@), !.pool = CleanPool(@),
                     !.headers = CleanHeaders(@), !.names = CleanNames(@)]
      empty == {f \in {"headers", "names"} : DOMAIN cleaned[f] = {}}
  IN Restrict(cleaned, DOMAIN cleaned \ empty)

SubmitRouteForm ==
  LET draft == page.draft
  IN /\ page.name = "route form" /\ MaySend /\ ChecksRoute(draft)
     /\ Sends(IF draft.form.tls /\ draft.mode = "upload"
              THEN "upload" ELSE "save", RoutePayload(draft.form))

(* The certificate uploaded, the route is sent with it.                      *)
UploadAnswered(c) ==
  /\ Answered(c, "route form", "upload")
  /\ IF Ok(c)
     THEN Resumes(c, page, {[c EXCEPT !.kind = "save", !.status = "pending",
                                      !.payload.certificate = "c2"]})
     ELSE Resumes(c, SubmitFailed(page, c.n), {})

-----------------------------------------------------------------------------
(* The route service. A certificate brings its path and turns TLS on.        *)
ResolveCertificate(route) ==
  IF route.certificate = "" THEN route
  ELSE [route EXCEPT !.path = route.certificate, !.tls = TRUE]

ValidRoute(route) ==
  IF route.type = "static" THEN route.root # ""
  ELSE route.backend # "" \/ route.pool # <<>>

SavedRoutes(c) ==
  LET old == IF c.opened = None THEN NewRoute ELSE server.row
  IN {r \in {ResolveCertificate(Merged(old, c.payload))} : ValidRoute(r)}

(* What the form showed, the texts as they are read.                         *)
RouteShown(c, f) ==
  LET form == c.draft.form
      chosen == IF form.tls /\ c.draft.mode = "upload" THEN "c2"
                ELSE form.certificate
  IN CASE f \in {"backend", "root"} -> Trimmed(form[f])
       [] f = "timeout"     -> IF form.timeout = "" THEN "0" ELSE form.timeout
       [] f = "pool"        -> CleanPool(form.pool)
       [] f = "headers"     -> CleanHeaders(form.headers)
       [] f = "names"       -> CleanNames(form.names)
       [] f = "certificate" -> chosen
       [] OTHER             -> form[f]

(* The fields stored as the form showed them. The path goes with the         *)
(* certificate. Header rules all removed are not sent: the stored ones stay. *)
(* With the switch off, a certificate still chosen under it is sent all the  *)
(* same, and the service turns TLS on again.                                 *)
RouteFieldsShown(c) ==
  LET form == c.draft.form
  IN {f \in DOMAIN NewRoute \ {"path"} :
        /\ f \in {"headers", "names"} => DOMAIN RouteShown(c, f) # {}
        /\ f \in {"tls", "certificate"} => form.tls \/ form.certificate = ""}

RouteClick ==
  \/ OpenRouteForm \/ CancelRoute \/ EditRouteInput \/ EditPool
  \/ EditHeaders \/ EditNames \/ EditTLS \/ SubmitRouteForm

RouteFormAnswered(c) == UploadAnswered(c) \/ SaveAnswered(c, "route form")

RouteFormRows == {None, PooledRoute, SecuredRoute}
=============================================================================
