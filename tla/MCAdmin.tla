------------------------------- MODULE MCAdmin --------------------------------
(* Small instances of RouteAccess, of Certificates and of RouteMatch. The     *)
(* three share neither rows nor locks, so a behaviour is one of either.       *)
EXTENDS RouteAccess, Certificates, RouteMatch

CONSTANTS u1, u2, g1, r1, n1, n2, p1, p2, h1, h2, b1, d1, host1, host2, header1

VARIABLE service

-----------------------------------------------------------------------------
Only(p) == r1 :> {p}

MCMember == [name |-> n2, role |-> "member", enabled |-> TRUE, routes |-> {r1},
             groups |-> {}, paths |-> NoPaths]
MCNewUsers ==
  {MCMember,
   [MCMember EXCEPT !.name = n1, !.routes = {}, !.groups = {g1}, !.paths = Only(p2)]}
MCUserEdits ==
  {[enabled |-> FALSE], [name |-> n1], [role |-> "member"], [role |-> "admin"],
   [routes |-> {}], [groups |-> {g1}, paths |-> NoPaths],
   [paths |-> Only(p2)]}
MCNewGroups == {[name |-> n1, routes |-> {r1}, paths |-> Only(p1)]}
MCGroupEdits == {[routes |-> {}], [paths |-> NoPaths]}

-----------------------------------------------------------------------------
NothingWrong ==
  /\ restarts = 0 /\ saved = certs
  /\ \A dir \in Bases : Torn \notin {files[dir].cert, files[dir].key}

(* Two editors at once for the first two leaves and without a failure of the *)
(* store or a torn file; a third leaf beside an editor in the first run of   *)
(* the process, and without such a failure while the renewer works too; a    *)
(* fourth leaf for the second renewal of one scan.                           *)
Bounded ==
  /\ (\A e \in Editors : Busy(e)) => issued <= 2 /\ NothingWrong
  /\ issued = 3 /\ (\E e \in Editors : Busy(e)) =>
       restarts = 0 /\ (Busy(Renewer) => NothingWrong)
  /\ issued = 4 =>
       /\ NothingWrong /\ dropped = {}
       /\ Cardinality(listed) = 2 /\ \A e \in Editors : ~Busy(e)

-----------------------------------------------------------------------------
(* Routes of every mode, host and header with overlapping patterns, among    *)
(* them rows as old or edited files hold them and a priority that makes the  *)
(* sum zero; a regular expression for the pattern and all below it.          *)
MCSegments == {<<>>, <<"api">>, <<"api", "v1">>, <<"api", "">>, <<"docs">>}
MCLength == [p \in MCSegments |-> CASE p = <<>> -> 0 [] p = <<"api">> -> 4
                                     [] p = <<"api", "v1">> -> 7 [] OTHER -> 5]
MCPaths == (MCSegments \ {<<>>}) \cup {<<"">>, <<"api", "v1", "x">>, <<"apis">>}
MCRegexes ==
  [regex |-> [p \in MCSegments |-> {path \in MCPaths : pathMatchesPrefix(path, p)}],
   regex_i |-> [p \in MCSegments |-> MCPaths]]
MCRequests == [host: {host1, host2}, path: MCPaths, headers: {{}, {header1}}]

Plain(id, path) ==
  [id |-> id, host |-> AnyHost, mode |-> "", sign |-> "prefix", path |-> path,
   header |-> NoHeader, priority |-> 0, enabled |-> TRUE]
MCRoutesOf(id) ==
  {Plain(id, <<"api">>), [Plain(id, <<"api">>) EXCEPT !.host = host1, !.priority = 1],
   [Plain(id, <<"api">>) EXCEPT !.mode = "stop", !.enabled = (id # 1)],
   [Plain(id, <<"api">>) EXCEPT !.sign = "stop"],
   [Plain(id, <<"api", "v1">>) EXCEPT !.mode = "exact"]}
MCOtherRoutesOf(id) ==
  {Plain(id, <<>>), [Plain(id, <<"api">>) EXCEPT !.header = header1, !.priority = -70],
   [Plain(id, <<"api", "">>) EXCEPT !.mode = "regex"],
   [Plain(id, <<"docs">>) EXCEPT !.sign = "regex_i", !.priority = 5],
   [Plain(id, <<"api", "v1">>) EXCEPT !.mode = "unknown"]}
MCStores ==
  {{}} \cup {{a, b} : a \in MCOtherRoutesOf(1), b \in MCRoutesOf(2)}
       \cup {{a, b} : a \in MCRoutesOf(1), b \in MCOtherRoutesOf(2)}
       \cup {{Plain(1, <<"api">>), a, b} : a \in MCRoutesOf(2), b \in MCRoutesOf(3)}

-----------------------------------------------------------------------------
AdminInit ==
  /\ service \in {"access", "certificates", "matching"}
  /\ Init /\ CertInit /\ MatchInit

AdminNext ==
  \/ service = "access" /\ Next /\ UNCHANGED <<certVars, matchVars, service>>
  \/ service = "certificates" /\ CertNext /\ UNCHANGED <<vars, matchVars, service>>
  \/ service = "matching" /\ MatchNext /\ UNCHANGED <<vars, certVars, service>>

AdminSpec == AdminInit /\ [][AdminNext]_<<vars, certVars, matchVars, service>>

(* The ids of users are those of certificates, and the goroutines the same:  *)
(* fewer symmetries to try. *)
Perms == Permutations({u1, u2}) \cup Permutations({h1, h2})
=============================================================================
