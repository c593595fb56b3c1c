------------------------------- MODULE Console -------------------------------
(* A visit to one page of the console: the directory pages, their forms,     *)
(* RouteAuthPage, LogsPage and HostsPage, of which the application mounts    *)
(* one at a time, each with what the server holds for it. Another tab or     *)
(* administrator is left out: the server changes by the requests of this     *)
(* visit.                                                                    *)
EXTENDS DirectoryPages, Forms, RouteAuthPage, LogsPage, HostsPage

CONSTANTS Pages,      \* the pages a visit may be to
          MaxWaiting  \* bound on the requests still under way at a click

ASSUME PagesAssumption == Pages \subseteq Names \cup FormNames \cup {"auth", "logs", "hosts"}

Mounted(name, can, s) ==
  CASE name \in Names -> DirectoryMounted(name, can)
    [] name \in FormNames -> FormMounted(name, s)
    [] name = "auth"  -> AuthMounted(can)
    [] name = "logs"  -> LogsMounted(can)
    [] name = "hosts" -> HostsMounted(can)

(* What the server holds, and what the effects ask at the first render.      *)
ServersOf(name) ==
  CASE name = "auth"  -> {AuthServer}
    [] name = "hosts" -> HostsServers
    [] name \in FormNames -> FormServers(name)
    [] OTHER          -> {DirectoryServer}

FirstCalls(p) ==
  CASE p.name = "auth"  -> {AuthCall("all", 0, None, 0)}
    [] p.name = "logs"  -> Questions(p)
    [] p.name = "hosts" -> {HostsCall("profiles", 0, None, "mount")}
    [] OTHER            -> IF p.loading THEN {FirstList(p)} ELSE {}

Init ==
  /\ \E name \in Pages : \E can \in BOOLEAN :
       /\ server \in ServersOf(name)
       /\ page = Mounted(name, can, server)
  /\ calls = FirstCalls(page)
  /\ faults = {}

OnDirectory == page.name \in Names

Click ==
  /\ Cardinality(calls) <= MaxWaiting
  /\ \/ OnDirectory /\ DirectoryClick
     \/ OnForm /\ FormClick
     \/ Auth /\ AuthClick
     \/ Logs /\ LogsClick
     \/ Hosts /\ HostsClick

Served ==
  \/ (OnDirectory \/ Hosts) /\ Serve
  \/ OnForm /\ \E c \in calls : ServeForm(c)
  \/ Auth /\ \E c \in calls : ServeAuth(c)
  \/ Hosts /\ \E c \in calls : ServeHosts(c)

Resume ==
  \/ OnDirectory /\ \E c \in calls : DirectoryAnswered(c)
  \/ OnForm /\ \E c \in calls : FormAnswered(c)
  \/ Auth /\ \E c \in calls : AuthAnswered(c)
  \/ Logs /\ \E c \in calls : LogsAnswered(c)
  \/ Hosts /\ \E c \in calls : HostsAnswered(c)

Next == Click \/ Served \/ Resume

Spec == Init /\ [][Next]_vars

(* Every request is answered or fails, and its handler goes on.              *)
FairSpec == Spec /\ WF_vars(Served \/ Resume)

-----------------------------------------------------------------------------
(* Properties.                                                               *)

(* A page leaves its spinner, whichever of its requests fail, and what a     *)
(* change under way keeps the user from doing, closing the dialog of a route, *)
(* applying another profile or submitting a form, can be done again. The     *)
(* spinner of the dialog of a route is not one of them: it stays when that   *)
(* route is opened again from the list (RouteAuthPage.tsx openDetail).       *)
Blocked ==
  \/ OnForm /\ page.submit # 0
  \/ Auth /\ (page.saving # 0 \/ page.mutation # 0)
  \/ Hosts /\ page.applying # 0

PageLoads == page.loading ~> ~page.loading
BlockFreed == Blocked ~> ~Blocked
NothingHangs == PageLoads /\ BlockFreed
=============================================================================
