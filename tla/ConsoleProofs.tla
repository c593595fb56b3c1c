---------------------------- MODULE ConsoleProofs -----------------------------
(***************************************************************************)
(* Proofs about the pages of the console, for any rows, any number of        *)
(* changes, dialogs and inputs, and requests answered in any order.          *)
(***************************************************************************)
EXTENDS Console, FiniteSetTheorems, TLAPS

LEMMA AtMostOne ==
  ASSUME NEW S, \A x, y \in S : x = y
  PROVE  Cardinality(S) <= 1
<1>1. CASE S = {}
  BY <1>1, FS_EmptySet
<1>2. CASE S # {}
  <2>1. PICK x \in S : S = {x}
    BY <1>2
  <2> QED BY <2>1, FS_Singleton
<1> QED BY <1>1, <1>2

-----------------------------------------------------------------------------
(* The page visited stays the page visited, whichever handler runs.          *)

Named == "name" \in DOMAIN page

LEMMA MountedNamed ==
  ASSUME NEW name \in Pages, NEW can \in BOOLEAN, NEW s
  PROVE  /\ Mounted(name, can, s).name = name
         /\ "name" \in DOMAIN Mounted(name, can, s)
<1>1. CASE name \in Names
  <2>1. Mounted(name, can, s) = DirectoryMounted(name, can)
    BY <1>1 DEF Mounted, Names, FormNames
  <2> USE DEF DirectoryMounted, Page
  <2>2. CASE name = "routes"
    BY <2>1, <2>2 DEF RoutesMounted, FetchRoutes
  <2>3. CASE name = "users"
    BY <2>1, <2>3 DEF UsersMounted, FetchUsers
  <2>4. CASE name = "groups"
    BY <2>1, <2>4 DEF GroupsMounted, FetchGroups
  <2>5. CASE name = "certificates"
    BY <2>1, <2>5 DEF CertificatesMounted, FetchCertificates
  <2>6. CASE name = "rules"
    BY <2>1, <2>6 DEF RulesMounted, FetchRules
  <2> QED BY <1>1, <2>2, <2>3, <2>4, <2>5, <2>6 DEF Names
<1>2. CASE name \in FormNames
  BY <1>2 DEF Mounted, Names, FormNames, FormMounted, FormPage
<1>3. CASE name \in {"auth", "logs", "hosts"}
  BY <1>3 DEF Mounted, Names, FormNames, AuthMounted, LogsMounted, HostsMounted
<1> QED BY <1>1, <1>2, <1>3, PagesAssumption

LEMMA DirectoryKeepsName ==
  ASSUME Named, DirectoryClick \/ \E c \in calls : DirectoryAnswered(c)
  PROVE  page'.name = page.name /\ Named'
<1> USE DEF Named, Handles, Resumes, OpensForm, ShutsForm, CloseForm, Submits, SubmitFailed,
     Settled, Shows, Loaded, TableDelete
<1>1. CASE RoutesClick
  BY <1>1 DEF RoutesClick, AddRoute, CreateFirstRoute, EditRoute, CloseRouteForm, SubmitRoute,
     DeleteRoute
<1>2. CASE UsersClick
  BY <1>2 DEF UsersClick, AddUser, EditUser, CloseUserForm, SubmitUser, DeleteUser
<1>3. CASE GroupsClick
  BY <1>3 DEF GroupsClick, AddGroup, EditGroup, CloseGroupForm, SubmitGroup, DeleteGroup
<1>4. CASE CertificatesClick
  BY <1>4 DEF CertificatesClick, ProvisionCertificate, CloseCertificateForm, SubmitCertificate,
     DeleteCertificate, ResignCertificate
<1>5. CASE RulesClick
  BY <1>5 DEF RulesClick, AddRule, EditRule, CloseRuleForm, SubmitRule, DeleteRule
<1>6. ASSUME NEW c \in calls, RoutesAnswered(c)
      PROVE  page'.name = page.name /\ Named'
  BY <1>6 DEF RoutesAnswered, RoutesListed, RouteUploaded, RouteCreated, RouteUpdated,
     RouteDeleted, RoutesRefresh, FetchRoutes
<1>7. ASSUME NEW c \in calls, UsersAnswered(c)
      PROVE  page'.name = page.name /\ Named'
  BY <1>7 DEF UsersAnswered, UsersListed, UserCreated, UserUpdated, UserDeleted, UsersRefresh,
     FetchUsers, UsersTaken, RoutesTaken
<1>8. ASSUME NEW c \in calls, GroupsAnswered(c)
      PROVE  page'.name = page.name /\ Named'
  BY <1>8 DEF GroupsAnswered, GroupsListed, GroupCreated, GroupUpdated, GroupDeleted,
     GroupsRefresh, FetchGroups
<1>9. ASSUME NEW c \in calls, CertificatesAnswered(c)
      PROVE  page'.name = page.name /\ Named'
  BY <1>9 DEF CertificatesAnswered, CertificatesListed, CertificateCreated, CertificateDeleted,
     CertificateResigned, CertificatesRefresh, FetchCertificates
<1>10. ASSUME NEW c \in calls, RulesAnswered(c)
       PROVE  page'.name = page.name /\ Named'
  BY <1>10 DEF RulesAnswered, RulesListed, RuleCreated, RuleUpdated, RuleDeleted, RulesRefresh,
     FetchRules
<1> QED
  BY <1>1, <1>2, <1>3, <1>4, <1>5, <1>6, <1>7, <1>8, <1>9, <1>10
  DEF DirectoryClick, DirectoryAnswered

LEMMA FormKeepsName ==
  ASSUME Named, FormClick \/ \E c \in calls : FormAnswered(c)
  PROVE  page'.name = page.name /\ Named'
<1> USE DEF Named, Handles, Resumes, OpensDraft, EditsTo, Unmounted, CancelForm, Sends,
     SaveAnswered, SubmitFailed
<1>1. CASE RouteClick
  BY ZenonT(60), <1>1 DEF RouteClick, OpenRouteForm, CancelRoute, EditRouteInput, EditPool,
     EditHeaders, EditNames, EditTLS, SubmitRouteForm, Sets
<1>2. CASE AssignmentClick
  BY ZenonT(60), <1>2 DEF AssignmentClick, OpenUserForm, OpenGroupForm, CancelAssignment,
     ToggleRoute, SetRoutePaths, EditUserInput, ToggleGroup, EditGroupName, SubmitAssignment
<1>3. CASE RuleClick
  BY <1>3 DEF RuleClick, OpenRuleForm, RulesRelisted, CancelRule, EditRuleInput, EditRulePolicy,
     SubmitRuleForm, SetRule
<1>4. CASE CertificateClick
  BY <1>4 DEF CertificateClick, OpenCertificateForm, EditCertificate, CancelCertificate,
     SubmitCertificateForm
<1>5. CASE Relisted
  BY <1>5 DEF Relisted
<1>6. ASSUME NEW c \in calls, FormAnswered(c)
      PROVE  page'.name = page.name /\ Named'
  BY <1>6 DEF FormAnswered, RouteFormAnswered, UploadAnswered, AssignmentAnswered,
     RuleFormAnswered, CertificateFormAnswered
<1> QED BY <1>1, <1>2, <1>3, <1>4, <1>5, <1>6 DEF FormClick

LEMMA AuthKeepsName ==
  ASSUME Named, AuthClick \/ \E c \in calls : AuthAnswered(c)
  PROVE  page'.name = page.name /\ Named'
<1> USE DEF Named, Handles, Resumes, Listed, Closed, FinishKeyMutation, Opened, Loaded
<1>1. CASE AuthClick
  BY <1>1 DEF AuthClick, QuickToggle, OpenDetail, EditDraft, SaveDetail, RequestCloseDetail,
     DiscardChanges, KeepEditing, ChangeKey, DismissSecret
<1>2. ASSUME NEW c \in calls, AuthAnswered(c)
      PROVE  page'.name = page.name /\ Named'
  BY <1>2 DEF AuthAnswered, AllLoaded, Toggled, DetailLoaded, DetailSaved, KeyChanged,
     KeysRefreshed
<1> QED BY <1>1, <1>2

LEMMA AskedNamed ==
  ASSUME NEW p, "name" \in DOMAIN p, NEW v, Asked(Filtered(p, v)) \/ Asked(Asks(p, v))
  PROVE  page'.name = p.name /\ "name" \in DOMAIN page'
BY DEF Asked, Counted, Filtered, ResetsDraft, Asks, Handles

LEMMA LogsKeepName ==
  ASSUME Named, LogsClick \/ \E c \in calls : LogsAnswered(c)
  PROVE  page'.name = page.name /\ Named'
<1> USE DEF Named
<1>1. ASSUME TypeText \/ StartComposition \/ EndComposition \/ OpenCleanup \/ ChangeMode
             \/ RetryPreview \/ CloseCleanup \/ ExecutePurge
      PROVE  page'.name = page.name /\ Named'
  BY ZenonT(60), <1>1 DEF TypeText, StartComposition, EndComposition, OpenCleanup, ChangeMode,
     RetryPreview, CloseCleanup, ExecutePurge, Handles, Previews, Counted
<1>2. ASSUME CommitText \/ ClearText \/ ChangeResultFilter \/ ChangeTimeRange \/ ResetFilters
             \/ RefreshData \/ ChangeView \/ TurnPage \/ DrillDown \/ RestoreView
      PROVE  page'.name = page.name /\ Named'
  <2>1. \A v : Asked(Filtered(page, v)) \/ Asked(Asks(page, v)) =>
                page'.name = page.name /\ Named'
    BY AskedNamed
  <2>2. CASE CommitText
    <3>1. PICK p : p = [page EXCEPT !.timer = None]
      OBVIOUS
    <3>2. Asked(Filtered(p, WithText(page.view, page.timer)))
      BY <2>2, <3>1 DEF CommitText
    <3>3. "name" \in DOMAIN p /\ p.name = page.name
      BY <3>1
    <3> QED BY <3>2, <3>3, AskedNamed
  <2> QED BY <1>2, <2>1, <2>2 DEF ClearText, ChangeResultFilter, ChangeTimeRange, ResetFilters,
       RefreshData, ChangeView, TurnPage, DrillDown, RestoreView
<1>3. ASSUME NEW c \in calls, LogsAnswered(c)
      PROVE  page'.name = page.name /\ Named'
  BY ZenonT(60), <1>3 DEF LogsAnswered, StatsAnswered, DataAnswered, PreviewAnswered,
     PurgeAnswered, Resumes, Asked, Counted, Filtered, ResetsDraft, Asks, Taken, Clamped
<1> QED BY <1>1, <1>2, <1>3 DEF LogsClick

LEMMA HostsKeepsName ==
  ASSUME Named, HostsClick \/ \E c \in calls : HostsAnswered(c)
  PROVE  page'.name = page.name /\ Named'
<1> USE DEF Named, Handles, Resumes, Selects, HostsFormClosed, SubmitFailed, FormSettled, Loaded
<1>1. CASE HostsClick
  BY <1>1 DEF HostsClick, SelectProfile, ApplyProfile, OpenHostsForm, CloseHostsForm,
     SubmitHostsForm, ChangeListed
<1>2. ASSUME NEW c \in calls, HostsAnswered(c)
      PROVE  page'.name = page.name /\ Named'
  BY ZenonT(60), <1>2 DEF HostsAnswered, EntriesListed, FirstEntries, Applied, EntryChanged,
     ProfileChanged, ProfilesListed, FirstListed
<1> QED BY <1>1, <1>2

LEMMA NameStays ==
  ASSUME Named, [Next]_vars
  PROVE  page'.name = page.name /\ Named'
<1>1. CASE Click
  BY <1>1, DirectoryKeepsName, FormKeepsName, AuthKeepsName, LogsKeepName, HostsKeepsName DEF Click
<1>2. CASE Served
  BY <1>2 DEF Served, Serve, ServeList, ServeChange, ServeForm, ServeSave, ServeAuth,
     ServeAuthRead, ServeAuthChange, ServeHosts, Named
<1>3. CASE Resume
  BY <1>3, DirectoryKeepsName, FormKeepsName, AuthKeepsName, LogsKeepName, HostsKeepsName DEF Resume
<1>4. CASE UNCHANGED vars
  BY <1>4 DEF vars, Named
<1> QED BY <1>1, <1>2, <1>3, <1>4 DEF Next

LEMMA InitNamed == Init => Named
BY MountedNamed DEF Init, Named

-----------------------------------------------------------------------------
(* HostsPage. Each list of profiles, shown or under way, marks one at most.  *)

OneMarked(profiles) ==
  \A q, r \in DOMAIN profiles : profiles[q] /\ profiles[r] => q = r

Marks(x) == "profiles" \in DOMAIN x /\ OneMarked(x.profiles)

HostsInv == Hosts => Marks(page) /\ \A c \in calls : Marks(c)

LEMMA OnHosts ==
  ASSUME Hosts, Next
  PROVE  \/ HostsClick \/ \E c \in calls : HostsAnswered(c)
         \/ Serve \/ \E c \in calls : ServeHosts(c)
BY DEF Hosts, Next, Click, Served, Resume, OnDirectory, Names, OnForm, FormNames, Auth, Logs

LEMMA MarkedOne ==
  ASSUME NEW profiles, OneMarked(profiles), NEW r, NEW action
  PROVE  OneMarked(Marked(profiles, r, action))
BY DEF OneMarked, Marked

(* A request just sent brings no profiles.                                   *)
Blank(c) == "profiles" \in DOMAIN c /\ c.profiles = NoProfiles

LEMMA NewCallBlank == \A kind, n, row, after : Blank(HostsCall(kind, n, row, after))
BY DEF Blank, HostsCall

LEMMA BlankMarks ==
  ASSUME NEW c, Blank(c)
  PROVE  Marks(c)
BY DEF Blank, Marks, NoProfiles, OneMarked

LEMMA HostsClickMarks ==
  ASSUME Marks(page), \A c \in calls : Marks(c), HostsClick
  PROVE  Marks(page') /\ \A c \in calls' : Marks(c)
<1> USE DEF Handles, Selects, HostsFormClosed
<1>1. "profiles" \in DOMAIN page' /\ page'.profiles = page.profiles
  BY DEF Marks, HostsClick, SelectProfile, ApplyProfile, OpenHostsForm, CloseHostsForm,
     SubmitHostsForm, ChangeListed
<1>2. \A c \in calls' : c \in calls \/ Blank(c)
  <2> USE NewCallBlank
  <2>1. CASE SelectProfile
    BY <2>1 DEF SelectProfile, EntriesOf, EntriesCall
  <2>2. CASE ApplyProfile
    BY <2>2 DEF ApplyProfile
  <2>3. CASE OpenHostsForm
    BY <2>3 DEF OpenHostsForm
  <2>4. CASE CloseHostsForm
    BY <2>4 DEF CloseHostsForm
  <2>5. CASE SubmitHostsForm
    BY <2>5 DEF SubmitHostsForm
  <2>6. CASE ChangeListed
    BY <2>6 DEF ChangeListed
  <2> QED BY <2>1, <2>2, <2>3, <2>4, <2>5, <2>6 DEF HostsClick
<1> HIDE DEF Handles
<1> QED BY <1>1, <1>2, BlankMarks DEF Marks

LEMMA HostsAnswerMarks ==
  ASSUME Marks(page), \A c \in calls : Marks(c), NEW c \in calls, HostsAnswered(c)
  PROVE  Marks(page') /\ \A d \in calls' : Marks(d)
<1> USE DEF Resumes, Selects
<1>1. \A d \in calls' : d \in calls \/ Blank(d)
  <2> USE NewCallBlank
  <2>1. CASE EntriesListed(c)
    BY <2>1 DEF EntriesListed
  <2>2. CASE FirstEntries(c)
    BY <2>2 DEF FirstEntries, EntriesCall
  <2>3. CASE Applied(c)
    BY <2>3 DEF Applied
  <2>4. CASE EntryChanged(c)
    BY <2>4 DEF EntryChanged, EntriesCall
  <2>5. CASE ProfileChanged(c)
    BY <2>5 DEF ProfileChanged
  <2>6. CASE ProfilesListed(c)
    <3>1. CASE FirstListed(c)
      <4> DEFINE asks(r) == HostsCall("entries", 0, r, "mount")
      <4>1. calls' \subseteq calls \/ \E r : calls' \subseteq calls \cup {asks(r)}
        BY <3>1 DEF FirstListed
      <4>2. \A r : Blank(asks(r))
        OBVIOUS
      <4> HIDE DEF asks
      <4> QED BY <4>1, <4>2
    <3>2. ASSUME NEW r, Resumes(c, Selects([page EXCEPT !.profiles = c.profiles], r),
                                EntriesOf(page, r))
          PROVE  \A d \in calls' : d \in calls \/ Blank(d)
      BY <3>2 DEF EntriesOf, EntriesCall
    <3>3. calls' \subseteq calls \/ FirstListed(c) \/
          \E r : Resumes(c, Selects([page EXCEPT !.profiles = c.profiles], r),
                        EntriesOf(page, r))
      BY <2>6 DEF ProfilesListed
    <3> QED BY <3>1, <3>2, <3>3
  <2> QED BY <2>1, <2>2, <2>3, <2>4, <2>5, <2>6 DEF HostsAnswered
<1>2. /\ "profiles" \in DOMAIN page'
      /\ \/ page'.profiles = page.profiles
         \/ page'.profiles = Marked(page.profiles, c.row, c.kind)
         \/ page'.profiles = c.profiles
  BY DEF Marks, HostsAnswered, EntriesListed, FirstEntries, Applied, EntryChanged,
     ProfileChanged, ProfilesListed, FirstListed, HostsFormClosed, SubmitFailed, FormSettled,
     Loaded
<1>3. OneMarked(page'.profiles)
  BY <1>2, MarkedOne DEF Marks
<1> QED BY <1>1, <1>2, <1>3, BlankMarks DEF Marks

LEMMA HostsServedMarks ==
  ASSUME Marks(page), \A c \in calls : Marks(c),
         Serve \/ \E c \in calls : ServeHosts(c)
  PROVE  Marks(page') /\ \A c \in calls' : Marks(c)
<1>1. page' = page
  BY DEF Serve, ServeList, ServeChange, ServeHosts
<1> DEFINE active == [r \in Living(server.rows) |-> r = server.active]
<1>2. OneMarked(active)
  BY DEF OneMarked
<1>3. PICK c \in calls : ServeList(c) \/ ServeChange(c) \/ ServeHosts(c)
  BY DEF Serve
<1>4. \A d \in calls' : d \in calls \/
        ("profiles" \in DOMAIN d /\ (d.profiles = c.profiles \/ d.profiles = active))
  <2> USE DEF Marks, Answers
  <2>1. CASE ServeList(c)
    BY ZenonT(60), <2>1 DEF ServeList
  <2>2. CASE ServeChange(c)
    BY <2>2 DEF ServeChange
  <2>3. CASE ServeHosts(c)
    <3>1. CASE c.kind = "profiles"
      <4> DEFINE listed == [c EXCEPT !.status = "ok", !.profiles = active]
      <4>1. Answers(c, "failed") \/ calls' = (calls \ {c}) \cup {listed}
        BY <2>3, <3>1 DEF ServeHosts, Apply
      <4>2. "profiles" \in DOMAIN listed /\ listed.profiles = active
        OBVIOUS
      <4> HIDE DEF listed
      <4> QED BY <4>1, <4>2
    <3>2. CASE c.kind # "profiles"
      <4>1. \E status : Answers(c, status)
        BY <2>3, <3>2 DEF ServeHosts
      <4> QED BY <4>1
    <3> QED BY <3>1, <3>2
  <2> QED BY <1>3, <2>1, <2>2, <2>3
<1> HIDE DEF active
<1> QED BY <1>1, <1>2, <1>4 DEF Marks

(* At most one profile is shown as active, for any number of profiles and    *)
(* whatever lists and answers overlap (HostsPage.tsx handleActivate).        *)
THEOREM OneProfileShown == Spec => []OneActiveShown
<1>1. Init => HostsInv
  <2> SUFFICES ASSUME Init, Hosts
               PROVE  Marks(page) /\ \A c \in calls : Marks(c)
    BY DEF HostsInv
  <2>1. PICK name \in Pages, can \in BOOLEAN : page = Mounted(name, can, server)
    BY DEF Init
  <2>3. name = "hosts"
    BY <2>1, MountedNamed DEF Hosts
  <2>4. page = HostsMounted(can)
    BY <2>1, <2>3 DEF Mounted, Names, FormNames
  <2>2. calls = {HostsCall("profiles", 0, None, "mount")}
    BY DEF Init, Hosts, FirstCalls
  <2> QED BY <2>2, <2>4, NewCallBlank, BlankMarks DEF Blank, HostsMounted
<1>2. Named /\ HostsInv /\ [Next]_vars => Named' /\ HostsInv'
  <2> SUFFICES ASSUME Named, HostsInv, [Next]_vars
               PROVE  Named' /\ HostsInv'
    OBVIOUS
  <2>1. Named' /\ (Hosts' <=> Hosts)
    BY NameStays DEF Hosts
  <2>2. CASE ~Hosts
    BY <2>1, <2>2 DEF HostsInv
  <2>3. CASE UNCHANGED vars
    BY <2>1, <2>3 DEF vars, HostsInv, Hosts
  <2>4. CASE Hosts /\ Next
    BY <2>1, <2>4, OnHosts, HostsClickMarks, HostsAnswerMarks, HostsServedMarks DEF HostsInv
  <2> QED BY <2>1, <2>2, <2>3, <2>4
<1>3. HostsInv => OneActiveShown
  BY AtMostOne DEF HostsInv, Marks, OneMarked, OneActiveShown
<1> QED BY <1>1, <1>2, <1>3, InitNamed, PTL DEF Spec

-----------------------------------------------------------------------------
(* LogsPage. *)

Viewed ==
  [filters: [text: Texts, timed: BOOLEAN, page: Nat], view: {"detail", "aggregate"}]

LogFields ==
  {"acts", "gen", "view", "loading", "statsLoading", "error", "statsError", "list",
   "aggregate", "stats", "draft", "timer", "composing", "pending", "cleanup", "scope",
   "request", "preview", "previewing", "purgeError", "deleting"}

LogTypes(p) ==
  /\ LogFields \subseteq DOMAIN p
  /\ p.acts \in Nat /\ p.gen \in Nat /\ p.view \in Viewed
  /\ p.draft \in Texts /\ p.timer \in Texts \cup {None}

(* A text typed and not committed is announced and waits in the timer.       *)
Drafts(p) ==
  /\ p.draft # p.view.filters.text => p.pending
  /\ p.timer # None => ~p.composing /\ p.timer = p.draft

LEMMA AsksTyped ==
  ASSUME NEW p, LogTypes(p), NEW v \in Viewed
  PROVE  LogTypes(Asks(p, v)) /\ LogTypes(Filtered(p, v)) /\ LogTypes(Counted(p))
<1>1. LogTypes(Asks(p, v))
  <2>1. LogFields \subseteq DOMAIN Asks(p, v)
    BY DEF LogTypes, Asks
  <2>2. Asks(p, v).gen = p.gen + 1 /\ Asks(p, v).view = v
    BY DEF LogTypes, Asks, LogFields
  <2>3. Asks(p, v).acts = p.acts /\ Asks(p, v).draft = p.draft /\ Asks(p, v).timer = p.timer
    BY DEF LogTypes, Asks, LogFields
  <2> QED BY <2>1, <2>2, <2>3 DEF LogTypes
<1>2. ASSUME NEW q, LogTypes(q)
      PROVE  LogTypes(ResetsDraft(q))
  <2>1. LogFields \subseteq DOMAIN ResetsDraft(q)
    BY <1>2 DEF LogTypes, ResetsDraft
  <2>2. ResetsDraft(q).draft = q.view.filters.text /\ ResetsDraft(q).timer = None
    BY <1>2 DEF LogTypes, ResetsDraft, LogFields
  <2>3. ResetsDraft(q).acts = q.acts /\ ResetsDraft(q).gen = q.gen /\ ResetsDraft(q).view = q.view
    BY <1>2 DEF LogTypes, ResetsDraft, LogFields
  <2>4. q.view.filters.text \in Texts
    BY <1>2 DEF LogTypes, Viewed
  <2> QED BY <1>2, <2>1, <2>2, <2>3, <2>4 DEF LogTypes
<1>3. LogTypes(Counted(p))
  BY DEF LogTypes, Counted, LogFields
<1> QED BY <1>1, <1>2, <1>3 DEF Filtered

LEMMA WithTextViewed ==
  ASSUME NEW v \in Viewed, NEW text \in Texts
  PROVE  WithText(v, text) \in Viewed
BY DEF WithText, Viewed

(* What a question leaves behind of the page it is asked on.                 *)
AskedOf(p, q) ==
  /\ LogTypes(q) /\ Drafts(q)
  /\ q.gen = p.gen + 1 /\ q.acts = p.acts /\ q.loading /\ q.statsLoading
  /\ q.request = p.request /\ q.scope = p.scope /\ q.preview = p.preview

LEMMA AsksFacts ==
  ASSUME NEW p, LogTypes(p), Drafts(p), NEW v \in Viewed, v.filters = p.view.filters
  PROVE  AskedOf(p, Asks(p, v))
<1> DEFINE q == Asks(p, v)
<1>1. /\ q.gen = p.gen + 1 /\ q.acts = p.acts /\ q.loading /\ q.statsLoading
      /\ q.request = p.request /\ q.scope = p.scope /\ q.preview = p.preview
  BY DEF LogTypes, Asks, LogFields
<1>2. /\ q.draft = p.draft /\ q.view = v /\ q.pending = p.pending
      /\ q.timer = p.timer /\ q.composing = p.composing
  BY DEF LogTypes, Asks, LogFields
<1>3. LogTypes(q)
  BY AsksTyped
<1> HIDE DEF q
<1>4. AskedOf(p, q)
  BY <1>1, <1>2, <1>3 DEF Drafts, AskedOf
<1> QED BY <1>4 DEF q

LEMMA FilteredFacts ==
  ASSUME NEW p, LogTypes(p), NEW v \in Viewed
  PROVE  AskedOf(p, Filtered(p, v))
<1> DEFINE a == Asks(p, v)
           q == ResetsDraft(a)
<1>1. /\ a.gen = p.gen + 1 /\ a.acts = p.acts /\ a.loading /\ a.statsLoading
      /\ a.request = p.request /\ a.scope = p.scope /\ a.preview = p.preview
  BY DEF LogTypes, Asks, LogFields
<1>2. LogTypes(a) /\ LogTypes(q)
  BY AsksTyped DEF Filtered
<1> HIDE DEF a
<1>3. /\ q.gen = a.gen /\ q.acts = a.acts /\ q.loading = a.loading
      /\ q.statsLoading = a.statsLoading
      /\ q.request = a.request /\ q.scope = a.scope /\ q.preview = a.preview
  BY <1>2 DEF LogTypes, ResetsDraft, LogFields
<1>4. q.draft = q.view.filters.text /\ q.timer = None
  BY <1>2 DEF LogTypes, ResetsDraft, LogFields
<1>5. q = Filtered(p, v)
  BY DEF a, Filtered
<1> HIDE DEF q
<1> QED BY <1>1, <1>2, <1>3, <1>4, <1>5 DEF Drafts, AskedOf

(* Answers to the newest questions, and what was taken of them, are of the   *)
(* view shown.                                                               *)
OwnResults(p, cs) ==
  /\ ~p.loading /\ ~p.error =>
       DataQuestion(p.view) = IF p.view.view = "detail" THEN p.list ELSE p.aggregate
  /\ ~p.statsLoading /\ ~p.statsError => p.stats = StatsQuestion(p.view)
  /\ \A c \in cs :
       /\ c.kind \in {"stats", "data"} => c.n \in 0..p.gen
       /\ c.kind = "stats" /\ c.n = p.gen => c.question = StatsQuestion(p.view)
       /\ c.kind = "data" /\ c.n = p.gen => c.question = DataQuestion(p.view)

(* A preview asked for by the number the dialog waits for, and one taken,    *)
(* are of the scope the dialog shows.                                        *)
OwnPreview(p, cs) ==
  /\ p.request \in 0..p.acts
  /\ p.preview.matched => p.preview.scope = p.scope
  /\ \A c \in cs :
       /\ c.kind = "preview" =>
            c.n \in 1..p.acts /\ (c.n = p.request => c.question = p.scope)
       /\ c.kind = "purge" => c.preview.matched /\ c.preview.scope = c.question

LogsOwn(p, cs) == LogTypes(p) /\ Drafts(p) /\ OwnResults(p, cs) /\ OwnPreview(p, cs)

LEMMA AskedOwn ==
  ASSUME NEW p, NEW q, NEW cs, LogsOwn(p, cs), LogTypes(p), AskedOf(p, q)
  PROVE  /\ LogsOwn(q, cs \cup Questions(q))
         /\ LogsOwn(Counted(q), cs \cup Questions(q))
<1>1. Counted(q).acts = q.acts + 1 /\ LogFields \subseteq DOMAIN Counted(q)
  BY DEF AskedOf, LogTypes, Counted, LogFields
<1>2. /\ Counted(q).gen = q.gen /\ Counted(q).view = q.view
      /\ Counted(q).loading = q.loading /\ Counted(q).statsLoading = q.statsLoading
      /\ Counted(q).draft = q.draft /\ Counted(q).timer = q.timer
      /\ Counted(q).pending = q.pending /\ Counted(q).composing = q.composing
      /\ Counted(q).request = q.request /\ Counted(q).scope = q.scope
      /\ Counted(q).preview = q.preview
  BY DEF AskedOf, LogTypes, Counted, LogFields
<1>3. ASSUME NEW r, LogTypes(r), Drafts(r), r.gen = p.gen + 1, r.view = q.view, r.gen = q.gen,
             r.loading, r.statsLoading, r.acts \in {p.acts, p.acts + 1},
             r.request = p.request, r.scope = p.scope, r.preview = p.preview
      PROVE  LogsOwn(r, cs \cup Questions(q))
  <2>1. \A c \in Questions(q) :
          /\ c.kind \in {"stats", "data"} /\ c.n = r.gen
          /\ c.kind = "stats" => c.question = StatsQuestion(r.view)
          /\ c.kind = "data" => c.question = DataQuestion(r.view)
    BY <1>3 DEF Questions, LogCall
  <2>2. p.gen \in Nat /\ p.acts \in Nat
    BY DEF LogTypes
  <2>3. OwnResults(r, cs \cup Questions(q))
    BY <1>3, <2>1, <2>2 DEF LogsOwn, OwnResults
  <2>4. OwnPreview(r, cs \cup Questions(q))
    BY <1>3, <2>1, <2>2 DEF LogsOwn, OwnPreview
  <2> QED BY <1>3, <2>3, <2>4 DEF LogsOwn
<1>4. LogTypes(q) /\ LogTypes(Counted(q))
  BY <1>1, <1>2 DEF LogTypes, AskedOf
<1>5. Drafts(Counted(q))
  BY <1>2 DEF Drafts, AskedOf
<1> QED BY <1>1, <1>2, <1>3, <1>4, <1>5 DEF AskedOf

LEMMA AskingOwn ==
  ASSUME LogsOwn(page, calls), NEW p, LogTypes(p), NEW v \in Viewed,
         p.gen = page.gen, p.acts = page.acts, p.request = page.request,
         p.scope = page.scope, p.preview = page.preview,
         \/ Asked(Filtered(p, v))
         \/ Asked(Asks(p, v)) /\ Drafts(p) /\ v.filters = p.view.filters
  PROVE  LogsOwn(page', calls')
<1>1. PICK q : AskedOf(p, q) /\ Asked(q)
  BY AsksFacts, FilteredFacts
<1>2. AskedOf(page, q)
  BY <1>1 DEF AskedOf
<1> QED BY <1>1, <1>2, AskedOwn DEF Asked, Handles, LogsOwn

(* Clicks that ask anew.                                                     *)
LEMMA AskingClicks ==
  ASSUME LogsOwn(page, calls),
         \/ CommitText \/ ClearText \/ ChangeResultFilter \/ ChangeTimeRange
         \/ ResetFilters \/ RefreshData \/ ChangeView \/ TurnPage \/ DrillDown
         \/ RestoreView
  PROVE  LogsOwn(page', calls')
<1>1. LogTypes(page) /\ Drafts(page)
  BY DEF LogsOwn
<1>2. page.view \in Viewed /\ page.draft \in Texts /\ page.timer \in Texts \cup {None}
  BY <1>1 DEF LogTypes
<1>3. page.view.filters.text \in Texts
  BY <1>2 DEF Viewed
<1>4. CASE CommitText
  <2> DEFINE p == [page EXCEPT !.timer = None]
  <2>1. LogTypes(p) /\ p.gen = page.gen /\ p.acts = page.acts /\ p.request = page.request
        /\ p.scope = page.scope /\ p.preview = page.preview
    BY <1>1 DEF LogTypes, LogFields
  <2>2. WithText(page.view, page.timer) \in Viewed
    BY <1>2, <1>4, WithTextViewed DEF CommitText
  <2> HIDE DEF p
  <2>3. Asked(Filtered(p, WithText(page.view, page.timer)))
    BY <1>4 DEF p, CommitText
  <2> QED BY <2>1, <2>2, <2>3, AskingOwn
<1>5. CASE ClearText
  <2>1. WithText(page.view, "") \in Viewed
    BY <1>2, WithTextViewed DEF Texts
  <2> QED BY <1>1, <1>5, <2>1, AskingOwn DEF ClearText
<1>6. CASE ChangeResultFilter
  <2>1. WithText(page.view, page.draft) \in Viewed
    BY <1>2, WithTextViewed
  <2> QED BY <1>1, <1>6, <2>1, AskingOwn DEF ChangeResultFilter
<1>7. CASE ChangeTimeRange
  <2> DEFINE w == WithText(page.view, page.view.filters.text)
             v(timed) == [w EXCEPT !.filters = [@ EXCEPT !.timed = timed]]
  <2>1. w \in Viewed
    BY <1>2, <1>3, WithTextViewed
  <2>2. PICK timed \in BOOLEAN : Asked(Filtered(page, v(timed)))
    BY <1>7 DEF ChangeTimeRange
  <2> HIDE DEF w
  <2>3. v(timed) \in Viewed
    BY <2>1 DEF Viewed
  <2> HIDE DEF v
  <2> QED BY <1>1, <2>2, <2>3, AskingOwn
<1>8. CASE ResetFilters
  <2> DEFINE v == [page.view EXCEPT !.filters = DefaultFilters]
  <2>1. v \in Viewed
    BY <1>2 DEF Viewed, DefaultFilters, Texts
  <2>2. Asked(Filtered(page, v))
    BY <1>8 DEF ResetFilters
  <2> HIDE DEF v
  <2> QED BY <1>1, <2>1, <2>2, AskingOwn
<1>9. CASE RefreshData
  BY <1>1, <1>2, <1>9, AskingOwn DEF RefreshData
<1>10. CASE ChangeView
  <2>1. CASE Asked(Asks(page, page.view))
    BY <1>1, <1>2, <2>1, AskingOwn
  <2> DEFINE v(view) == [page.view EXCEPT !.view = view]
  <2>2. ASSUME NEW view \in {"detail", "aggregate"}, Asked(Asks(page, v(view)))
        PROVE  LogsOwn(page', calls')
    <3>1. v(view) \in Viewed /\ v(view).filters = page.view.filters
      BY <1>2 DEF Viewed
    <3> HIDE DEF v
    <3> QED BY <1>1, <2>2, <3>1, AskingOwn
  <2> QED BY <1>10, <2>1, <2>2 DEF ChangeView
<1>11. CASE TurnPage
  <2> DEFINE v(n) == [page.view EXCEPT !.filters = [@ EXCEPT !.page = n]]
  <2>1. PICK n \in 1..2 : Asked(Filtered(page, v(n)))
    BY <1>11 DEF TurnPage
  <2>2. v(n) \in Viewed
    BY <1>2 DEF Viewed
  <2> HIDE DEF v
  <2> QED BY <1>1, <2>1, <2>2, AskingOwn
<1>12. CASE DrillDown
  <2> DEFINE v(text) == [page.view EXCEPT !.view = "detail",
                           !.filters = [@ EXCEPT !.text = text, !.page = 1]]
  <2>1. PICK text \in Texts : Asked(Filtered(page, v(text)))
    BY <1>12 DEF DrillDown
  <2>2. v(text) \in Viewed
    BY <1>2 DEF Viewed
  <2> HIDE DEF v
  <2> QED BY <1>1, <2>1, <2>2, AskingOwn
<1>13. CASE RestoreView
  <2>1. Views \subseteq Viewed
    BY DEF Views, Viewed, DefaultView, DefaultFilters, Texts
  <2> QED BY <1>1, <1>13, <2>1, AskingOwn DEF RestoreView
<1> QED
  BY <1>4, <1>5, <1>6, <1>7, <1>8, <1>9, <1>10, <1>11, <1>12, <1>13

KeepsResults(p, q) ==
  /\ q.gen = p.gen /\ q.view = p.view /\ q.loading = p.loading /\ q.error = p.error
  /\ q.statsLoading = p.statsLoading /\ q.statsError = p.statsError
  /\ q.list = p.list /\ q.aggregate = p.aggregate /\ q.stats = p.stats

KeepsPreview(p, q) ==
  /\ q.request = p.request /\ q.scope = p.scope /\ q.preview = p.preview

KeepsDraft(p, q) ==
  /\ q.draft = p.draft /\ q.timer = p.timer /\ q.pending = p.pending
  /\ q.composing = p.composing /\ q.view = p.view

LEMMA ResultsKept ==
  ASSUME NEW p, NEW q, NEW cs, NEW new, OwnResults(p, cs), KeepsResults(p, q),
         \A c \in new : c \in cs \/ c.kind \notin {"stats", "data"}
  PROVE  OwnResults(q, new)
BY DEF OwnResults, KeepsResults

LEMMA PreviewKept ==
  ASSUME NEW p, NEW q, NEW cs, NEW new, OwnPreview(p, cs), KeepsPreview(p, q),
         p.acts \in Nat, q.acts \in {p.acts, p.acts + 1},
         \A c \in new : c \in cs \/ c.kind \in {"stats", "data"}
  PROVE  OwnPreview(q, new)
BY DEF OwnPreview, KeepsPreview

LEMMA TypingClicks ==
  ASSUME LogsOwn(page, calls), TypeText \/ StartComposition \/ EndComposition
  PROVE  LogsOwn(page', calls')
<1>1. LogTypes(page) /\ Drafts(page)
  BY DEF LogsOwn
<1>2. KeepsResults(page, page') /\ KeepsPreview(page, page') /\ page'.acts = page.acts
  BY ZenonT(60), <1>1 DEF TypeText, StartComposition, EndComposition, Handles, KeepsResults,
     KeepsPreview, LogTypes, LogFields
<1>3. calls' = calls
  BY DEF TypeText, StartComposition, EndComposition, Handles
<1>4. LogTypes(page')
  BY ZenonT(60), <1>1 DEF TypeText, StartComposition, EndComposition, Handles, LogTypes, LogFields
<1>5. Drafts(page')
  <2>1. CASE TypeText
    BY ZenonT(60), <1>1, <2>1 DEF TypeText, Handles, Drafts, LogTypes, LogFields
  <2>2. CASE StartComposition
    BY <1>1, <2>2 DEF StartComposition, Handles, Drafts, LogTypes, LogFields
  <2>3. CASE EndComposition
    BY <1>1, <2>3 DEF EndComposition, Handles, Drafts, LogTypes, LogFields
  <2> QED BY <2>1, <2>2, <2>3
<1> QED BY <1>1, <1>2, <1>3, <1>4, <1>5, ResultsKept, PreviewKept DEF LogsOwn, LogTypes

(* The effect of the dialog: a number of its own for the preview it waits    *)
(* for, so that earlier ones no longer count.                                *)
LEMMA PreviewsOwn ==
  ASSUME NEW p, LogTypes(p), Drafts(p), OwnResults(p, calls), OwnPreview(p, calls), NEW s,
         Previews(p, s)
  PROVE  LogsOwn(page', calls')
<1>1. /\ page'.acts = p.acts + 1 /\ page'.request = p.acts + 1 /\ page'.scope = s
      /\ page'.preview = NoPreview
  BY DEF Previews, Handles, LogTypes, LogFields
<1>2. KeepsResults(p, page') /\ KeepsDraft(p, page') /\ LogFields \subseteq DOMAIN page'
  BY DEF Previews, Handles, LogTypes, LogFields, KeepsResults, KeepsDraft
<1>3. calls' \subseteq calls \cup {LogCall("preview", p.acts + 1, s, NoPreview)}
  BY DEF Previews, Handles
<1>4. LogTypes(page') /\ Drafts(page')
  BY <1>1, <1>2 DEF LogTypes, Drafts, KeepsResults, KeepsDraft
<1>5. OwnResults(page', calls')
  BY <1>2, <1>3, ResultsKept DEF LogCall
<1>6. OwnPreview(page', calls')
  BY <1>1, <1>3 DEF OwnPreview, LogCall, NoPreview, LogTypes
<1> QED BY <1>4, <1>5, <1>6 DEF LogsOwn

LEMMA DialogClicks ==
  ASSUME LogsOwn(page, calls), OpenCleanup \/ ChangeMode \/ RetryPreview
  PROVE  LogsOwn(page', calls')
<1>1. LogTypes(page) /\ Drafts(page) /\ OwnResults(page, calls) /\ OwnPreview(page, calls)
  BY DEF LogsOwn
<1>2. CASE OpenCleanup
  <2> DEFINE range == StatsQuestion(page.view)
             p == [page EXCEPT !.cleanup = range]
  <2>1. LogTypes(p) /\ p.acts = page.acts
    BY <1>1 DEF LogTypes, LogFields
  <2>2. KeepsResults(page, p) /\ KeepsPreview(page, p) /\ KeepsDraft(page, p)
    BY <1>1 DEF LogTypes, LogFields, KeepsResults, KeepsPreview, KeepsDraft
  <2>3. Previews(p, Scope("filtered", range))
    BY <1>2 DEF OpenCleanup
  <2> HIDE DEF p, range
  <2>4. Drafts(p)
    BY <1>1, <2>2 DEF Drafts, KeepsDraft
  <2>5. OwnResults(p, calls) /\ OwnPreview(p, calls)
    BY <1>1, <2>1, <2>2, ResultsKept, PreviewKept DEF LogTypes
  <2> QED BY <2>1, <2>3, <2>4, <2>5, PreviewsOwn
<1>3. CASE ChangeMode \/ RetryPreview
  BY <1>1, <1>3, PreviewsOwn DEF ChangeMode, RetryPreview
<1> QED BY <1>2, <1>3

LEMMA ClosingOwn ==
  ASSUME LogsOwn(page, calls), CloseCleanup \/ ExecutePurge
  PROVE  LogsOwn(page', calls')
<1>1. LogTypes(page) /\ Drafts(page) /\ OwnResults(page, calls) /\ OwnPreview(page, calls)
  BY DEF LogsOwn
<1>2. /\ KeepsResults(page, page') /\ KeepsDraft(page, page')
      /\ LogFields \subseteq DOMAIN page' /\ page'.acts \in {page.acts, page.acts + 1}
  BY ZenonT(60), <1>1 DEF CloseCleanup, ExecutePurge, Counted, Handles, KeepsResults, KeepsDraft,
     LogTypes, LogFields
<1>3. LogTypes(page') /\ Drafts(page')
  BY <1>1, <1>2 DEF LogTypes, Drafts, KeepsResults, KeepsDraft
<1>4. CASE CloseCleanup
  <2>1. calls' = calls /\ page'.request = 0 /\ page'.preview = NoPreview
    BY <1>1, <1>4 DEF CloseCleanup, Handles, LogTypes, LogFields
  <2>2. OwnPreview(page', calls')
    BY <1>1, <1>2, <2>1 DEF OwnPreview, NoPreview, LogTypes
  <2> QED BY <1>1, <1>2, <1>3, <2>1, <2>2, ResultsKept DEF LogsOwn
<1>5. CASE ExecutePurge
  <2> DEFINE c == LogCall("purge", page.request, page.scope, page.preview)
  <2>1. calls' = calls \cup {c} /\ page.preview.matched
    BY <1>5 DEF ExecutePurge, Handles
  <2>2. c.kind = "purge" /\ c.question = page.scope /\ c.preview = page.preview
    BY DEF LogCall
  <2>3. KeepsPreview(page, page')
    BY <1>1, <1>5 DEF ExecutePurge, Counted, Handles, LogTypes, LogFields, KeepsPreview
  <2> HIDE DEF c
  <2>4. OwnResults(page', calls')
    BY <1>1, <1>2, <2>1, <2>2, ResultsKept
  <2>5. OwnPreview(page', calls')
    BY <1>1, <1>2, <2>1, <2>2, <2>3 DEF OwnPreview, KeepsPreview, LogTypes
  <2> QED BY <1>3, <2>4, <2>5 DEF LogsOwn
<1> QED BY <1>4, <1>5

LEMMA ResultsTaken ==
  ASSUME LogsOwn(page, calls), NEW c \in calls, StatsAnswered(c) \/ DataAnswered(c)
  PROVE  LogsOwn(page', calls')
<1>1. LogTypes(page) /\ Drafts(page) /\ OwnResults(page, calls) /\ OwnPreview(page, calls)
  BY DEF LogsOwn
<1>2. ASSUME calls' \subseteq calls, LogFields \subseteq DOMAIN page',
             KeepsPreview(page, page'), KeepsDraft(page, page'), page'.acts = page.acts,
             page'.gen = page.gen, OwnResults(page', calls')
      PROVE  LogsOwn(page', calls')
  <2>1. OwnPreview(page', calls')
    BY <1>1, <1>2, PreviewKept DEF LogTypes
  <2> QED BY <1>1, <1>2, <2>1 DEF LogsOwn, LogTypes, Drafts, KeepsDraft
<1>3. CASE page' = page /\ calls' \subseteq calls
  BY <1>1, <1>3 DEF LogsOwn, OwnResults, OwnPreview
<1>4. CASE StatsAnswered(c)
  <2>1. calls' \subseteq calls /\ c.kind = "stats"
    BY <1>4 DEF StatsAnswered, LogAnswered, Resumes
  <2>2. CASE c.n # page.gen
    BY <1>3, <1>4, <2>1, <2>2 DEF StatsAnswered, Resumes, Newest
  <2>3. CASE c.n = page.gen
    <3>1. /\ LogFields \subseteq DOMAIN page' /\ KeepsPreview(page, page')
          /\ KeepsDraft(page, page') /\ page'.acts = page.acts /\ page'.gen = page.gen
          /\ page'.loading = page.loading /\ page'.error = page.error
          /\ page'.list = page.list /\ page'.aggregate = page.aggregate
      BY <1>1, <1>4, <2>3 DEF StatsAnswered, Resumes, Newest, LogTypes, LogFields, KeepsPreview,
         KeepsDraft
    <3>2. page'.stats = c.question \/ page'.statsError
      BY <1>1, <1>4, <2>3 DEF StatsAnswered, Resumes, Newest, LogTypes, LogFields
    <3>3. OwnResults(page', calls')
      BY <1>1, <2>1, <2>3, <3>1, <3>2 DEF OwnResults, KeepsDraft
    <3> QED BY <1>2, <2>1, <3>1, <3>3
  <2> QED BY <2>2, <2>3
<1>5. CASE DataAnswered(c)
  <2>1. c.kind = "data"
    BY <1>5 DEF DataAnswered, LogAnswered
  <2>2. CASE c.n # page.gen
    BY <1>3, <1>5, <2>2 DEF DataAnswered, Resumes, Newest
  <2>3. CASE /\ c.n = page.gen
             /\ Resumes(c, [page EXCEPT !.error = TRUE, !.loading = FALSE], {})
    <3>1. /\ LogFields \subseteq DOMAIN page' /\ KeepsPreview(page, page')
          /\ KeepsDraft(page, page') /\ page'.acts = page.acts /\ page'.gen = page.gen
          /\ page'.statsLoading = page.statsLoading /\ page'.statsError = page.statsError
          /\ page'.stats = page.stats /\ page'.error
      BY <1>1, <2>3 DEF Resumes, LogTypes, LogFields, KeepsPreview, KeepsDraft
    <3>2. OwnResults(page', calls')
      BY <1>1, <2>3, <3>1 DEF OwnResults, KeepsDraft, Resumes
    <3> QED BY <1>2, <2>3, <3>1, <3>2 DEF Resumes
  <2>4. CASE c.n = page.gen /\ Resumes(c, Taken(page, c), {})
    <3>1. /\ LogFields \subseteq DOMAIN page' /\ KeepsPreview(page, page')
          /\ KeepsDraft(page, page') /\ page'.acts = page.acts /\ page'.gen = page.gen
          /\ page'.statsLoading = page.statsLoading /\ page'.statsError = page.statsError
          /\ page'.stats = page.stats
      BY <1>1, <2>4 DEF Taken, Resumes, LogTypes, LogFields, KeepsPreview, KeepsDraft
    <3>2. IF c.question.view = "detail" THEN page'.list = c.question
          ELSE page'.aggregate = c.question
      BY <1>1, <2>4 DEF Taken, Resumes, LogTypes, LogFields
    <3>3. c.question = DataQuestion(page.view) /\ c.question.view = page.view.view
      BY <1>1, <2>1, <2>4 DEF OwnResults, DataQuestion
    <3>4. OwnResults(page', calls')
      BY <1>1, <2>4, <3>1, <3>2, <3>3 DEF OwnResults, KeepsDraft, Resumes
    <3> QED BY <1>2, <2>4, <3>1, <3>4 DEF Resumes
  <2>5. ASSUME NEW total \in 0..2,
               Resumes(c, Clamped(page, total), Questions(Clamped(page, total)))
        PROVE  LogsOwn(page', calls')
    <3> DEFINE v == [page.view EXCEPT !.filters = [@ EXCEPT !.page = total]]
    <3>1. v \in Viewed
      BY <1>1 DEF LogTypes, Viewed
    <3>2. Clamped(page, total) = Filtered(page, v)
      BY DEF Clamped
    <3> HIDE DEF v
    <3>3. LogsOwn(page', calls \cup Questions(page'))
      BY <1>1, <2>5, <3>1, <3>2, FilteredFacts, AskedOwn DEF Resumes
    <3>4. calls' \subseteq calls \cup Questions(page')
      BY <2>5 DEF Resumes
    <3> QED BY <3>3, <3>4 DEF LogsOwn, OwnResults, OwnPreview
  <2> QED BY <1>5, <2>2, <2>3, <2>4, <2>5 DEF DataAnswered, Newest
<1> QED BY <1>4, <1>5

LEMMA PreviewTaken ==
  ASSUME LogsOwn(page, calls), NEW c \in calls, PreviewAnswered(c)
  PROVE  LogsOwn(page', calls')
<1>1. LogTypes(page) /\ Drafts(page) /\ OwnResults(page, calls) /\ OwnPreview(page, calls)
  BY DEF LogsOwn
<1>2. /\ KeepsResults(page, page') /\ KeepsDraft(page, page') /\ page'.acts = page.acts
      /\ page'.request = page.request /\ page'.scope = page.scope
      /\ LogFields \subseteq DOMAIN page' /\ calls' \subseteq calls /\ c.kind = "preview"
  BY ZenonT(60), <1>1 DEF PreviewAnswered, LogAnswered, Resumes, LogTypes, LogFields,
     KeepsResults, KeepsDraft
<1>3. \/ page'.preview = page.preview
      \/ page'.preview.scope = c.question /\ page.request = c.n
  <2>1. CASE page' = page
    BY <2>1
  <2>2. CASE page' = [page EXCEPT !.previewing = FALSE, !.purgeError = TRUE]
    BY <1>1, <2>2 DEF LogTypes, LogFields
  <2> DEFINE taken(matched) == [scope |-> c.question, n |-> c.n, matched |-> matched]
  <2>3. ASSUME NEW matched \in BOOLEAN, page.request = c.n,
               page' = [page EXCEPT !.previewing = FALSE, !.preview = taken(matched)]
        PROVE  page'.preview.scope = c.question /\ page.request = c.n
    <3>1. page'.preview = taken(matched)
      BY <1>1, <2>3 DEF LogTypes, LogFields
    <3> QED BY <2>3, <3>1
  <2> QED BY <2>1, <2>2, <2>3 DEF PreviewAnswered, PreviewIsCurrent, Resumes
<1>4. OwnPreview(page', calls')
  BY <1>1, <1>2, <1>3 DEF OwnPreview
<1>5. LogTypes(page') /\ Drafts(page')
  BY <1>1, <1>2 DEF LogTypes, Drafts, KeepsResults, KeepsDraft
<1> QED BY <1>1, <1>2, <1>4, <1>5, ResultsKept DEF LogsOwn

LEMMA PurgeTaken ==
  ASSUME LogsOwn(page, calls), NEW c \in calls, PurgeAnswered(c)
  PROVE  LogsOwn(page', calls')
<1>1. LogTypes(page) /\ Drafts(page) /\ OwnResults(page, calls) /\ OwnPreview(page, calls)
  BY DEF LogsOwn
<1> DEFINE done == [page EXCEPT !.cleanup = None, !.scope = None, !.request = 0,
                                !.preview = NoPreview, !.deleting = FALSE]
           failed == [page EXCEPT !.deleting = FALSE, !.purgeError = TRUE]
           v == WithText(page.view, page.view.filters.text)
<1>2. \/ Resumes(c, Filtered(done, v), Questions(Filtered(done, v)))
      \/ Resumes(c, failed, {})
  BY DEF PurgeAnswered
<1>3. LogFields \subseteq DOMAIN done /\ LogFields \subseteq DOMAIN failed
  BY <1>1 DEF LogTypes
<1>4. /\ KeepsResults(page, done) /\ KeepsDraft(page, done) /\ done.acts = page.acts
      /\ done.request = 0 /\ done.preview = NoPreview
  BY <1>1 DEF LogTypes, LogFields, KeepsResults, KeepsDraft
<1>5. /\ KeepsResults(page, failed) /\ KeepsDraft(page, failed) /\ failed.acts = page.acts
      /\ KeepsPreview(page, failed)
  BY <1>1 DEF LogTypes, LogFields, KeepsResults, KeepsDraft, KeepsPreview
<1>6. v \in Viewed
  BY <1>1, WithTextViewed DEF LogTypes, Viewed
<1> HIDE DEF done, failed, v
<1>7. LogsOwn(done, calls)
  <2>1. OwnPreview(done, calls)
    BY <1>1, <1>4 DEF OwnPreview, NoPreview, LogTypes
  <2>2. OwnResults(done, calls)
    BY <1>1, <1>4, ResultsKept
  <2>3. LogTypes(done) /\ Drafts(done)
    BY <1>1, <1>3, <1>4 DEF LogTypes, Drafts, KeepsResults, KeepsDraft
  <2> QED BY <2>1, <2>2, <2>3 DEF LogsOwn
<1>8. CASE Resumes(c, Filtered(done, v), Questions(Filtered(done, v)))
  <2>1. LogsOwn(page', calls \cup Questions(page'))
    BY <1>6, <1>7, <1>8, FilteredFacts, AskedOwn DEF Resumes, LogsOwn
  <2>2. calls' \subseteq calls \cup Questions(page')
    BY <1>8 DEF Resumes
  <2> QED BY <2>1, <2>2 DEF LogsOwn, OwnResults, OwnPreview
<1>9. CASE Resumes(c, failed, {})
  <2>1. page' = failed /\ calls' \subseteq calls
    BY <1>9 DEF Resumes
  <2>2. OwnResults(page', calls') /\ OwnPreview(page', calls')
    BY <1>1, <1>5, <2>1, ResultsKept, PreviewKept DEF LogTypes
  <2>3. LogTypes(page') /\ Drafts(page')
    BY <1>1, <1>3, <1>5, <2>1 DEF LogTypes, Drafts, KeepsResults, KeepsDraft
  <2> QED BY <2>2, <2>3 DEF LogsOwn
<1> QED BY <1>2, <1>8, <1>9

LogsInv == Logs => LogsOwn(page, calls)

LEMMA OnLogs ==
  ASSUME Logs, Next
  PROVE  LogsClick \/ \E c \in calls : LogsAnswered(c)
BY DEF Hosts, Next, Click, Served, Resume, OnDirectory, Names, OnForm, FormNames, Auth, Logs

LEMMA LogsInductive == Spec => []LogsInv
<1>1. Init => LogsInv
  <2> SUFFICES ASSUME Init, Logs
               PROVE  LogsOwn(page, calls)
    BY DEF LogsInv
  <2>1. PICK name \in Pages, can \in BOOLEAN : page = Mounted(name, can, server)
    BY DEF Init
  <2>2. name = "logs"
    BY <2>1, MountedNamed DEF Logs
  <2>3. page = LogsMounted(can)
    BY <2>1, <2>2 DEF Mounted, Names, FormNames
  <2>4. calls = Questions(page)
    BY DEF Init, Logs, FirstCalls
  <2>5. LogTypes(page)
    BY <2>3 DEF LogTypes, LogFields, LogsMounted, DefaultView, DefaultFilters, Viewed, Texts
  <2>6. Drafts(page)
    BY <2>3 DEF Drafts, LogsMounted, DefaultView, DefaultFilters
  <2>7. page.loading /\ page.statsLoading /\ page.request = 0 /\ page.acts = 0 /\ page.gen = 1
        /\ ~page.preview.matched
    BY <2>3 DEF LogsMounted, NoPreview
  <2>8. OwnResults(page, calls)
    BY <2>4, <2>7 DEF OwnResults, Questions, LogCall
  <2>9. OwnPreview(page, calls)
    BY <2>4, <2>7 DEF OwnPreview, Questions, LogCall
  <2> QED BY <2>5, <2>6, <2>8, <2>9 DEF LogsOwn
<1>2. Named /\ LogsInv /\ [Next]_vars => Named' /\ LogsInv'
  <2> SUFFICES ASSUME Named, LogsInv, [Next]_vars
               PROVE  Named' /\ LogsInv'
    OBVIOUS
  <2>1. Named' /\ (Logs' <=> Logs)
    BY NameStays DEF Logs
  <2>2. CASE ~Logs
    BY <2>1, <2>2 DEF LogsInv
  <2>3. CASE UNCHANGED vars
    BY <2>1, <2>3 DEF vars, LogsInv, Logs
  <2>4. CASE Logs /\ Next
    <3>1. LogsOwn(page, calls)
      BY <2>4 DEF LogsInv
    <3>2. LogsClick => LogsOwn(page', calls')
      BY <3>1, AskingClicks, TypingClicks, DialogClicks, ClosingOwn DEF LogsClick
    <3>3. (\E c \in calls : LogsAnswered(c)) => LogsOwn(page', calls')
      BY <3>1, ResultsTaken, PreviewTaken, PurgeTaken DEF LogsAnswered
    <3>4. LogsOwn(page', calls')
      BY <2>4, <3>2, <3>3, OnLogs
    <3> QED BY <2>1, <3>4 DEF LogsInv
  <2> QED BY <2>1, <2>2, <2>3, <2>4
<1> QED BY <1>1, <1>2, InitNamed, PTL DEF Spec

(* Once loaded, results and figures are those of the filters, the view and   *)
(* the page shown, however many questions overlap (AccessLogsPage.tsx).      *)
THEOREM ResultsFollowView == Spec => []ResultsAreOfView
<1>1. LogsInv => ResultsAreOfView
  BY DEF LogsInv, LogsOwn, OwnResults, ResultsAreOfView
<1> QED BY <1>1, LogsInductive, PTL

(* Every purge is sent in the scope of the preview confirmed, whatever modes *)
(* were changed and previews answered late (AccessLogCleanup.tsx).           *)
THEOREM PurgesFollowPreview == Spec => []PurgesAsPreviewed
<1>1. LogsInv => PurgesAsPreviewed
  BY DEF LogsInv, LogsOwn, OwnPreview, PurgesAsPreviewed
<1> QED BY <1>1, LogsInductive, PTL

(* A text not committed is announced, and no timer commits another than the  *)
(* text shown (AccessLogFilters.tsx).                                        *)
THEOREM DraftsCommitted == Spec => []DraftIsCommitted
<1>1. LogsInv => DraftIsCommitted
  BY DEF LogsInv, LogsOwn, Drafts, DraftIsCommitted
<1> QED BY <1>1, LogsInductive, PTL

-----------------------------------------------------------------------------
(* RouteAuthPage. *)

AuthFields ==
  {"loading", "acts", "opens", "routes", "failed", "open", "draft", "config", "keys",
   "secret", "discard", "load", "saving", "mutation", "refresh"}

AuthPage ==
  /\ AuthFields \subseteq DOMAIN page
  /\ page.acts \in Nat /\ page.opens \in Nat /\ page.routes \subseteq InitialRows
  /\ page.open \in InitialRows \cup {None} /\ page.load \in 0..page.opens
  /\ page.saving \in 0..page.acts /\ page.mutation \in 0..page.acts
  /\ page.refresh \in 0..page.acts
  /\ page.keys.at \in Nat /\ page.secret.n \in 0..page.acts

AuthRows == "keys" \in DOMAIN server /\ server.keys \in [InitialRows -> Nat]

(* Only a dialog that loaded saves, changes keys or reads them again.        *)
DialogPhase ==
  /\ Drafted => page.open # None
  /\ page.saving # 0 \/ page.mutation # 0 \/ page.refresh # 0 => Drafted
  /\ page.draft = "loading" => page.keys = NoKeys

(* What the dialog shows is of its route, and no newer than the server.      *)
DialogOwn ==
  page.open # None =>
    /\ page.config \in {None, page.open} /\ page.keys.of \in {None, page.open}
    /\ page.secret.of \in {None, page.open}
    /\ page.keys.at <= server.keys[page.open]

SecretOld == page.mutation # 0 => page.secret.n <= page.mutation

AuthCallFields == {"kind", "n", "row", "dialog", "status", "failed", "keys"}
KeyCalls == KeyKinds \cup {"keys"}

AuthCallTyped(c) ==
  /\ AuthCallFields \subseteq DOMAIN c
  /\ c.kind \in KeyCalls \cup {"all", "toggle", "detail", "save"}
  /\ c.kind # "all" => c.row \in InitialRows /\ c.keys.at <= server.keys[c.row]
  /\ c.keys.of \in {None, c.row} /\ c.keys.at \in Nat
  /\ c.kind = "detail" => c.dialog \in 1..page.opens
  /\ c.kind \in KeyCalls \cup {"save"} => c.n \in 1..page.acts

(* The answer that fills a dialog finds it loading; the keys read last are   *)
(* no older than those shown.                                                *)
AuthCallTimely(c) ==
  /\ c.kind = "detail" /\ c.dialog = page.load => page.draft = "loading"
  /\ c.kind = "keys" /\ c.n = page.refresh /\ c.row = page.open /\ Ok(c) =>
       page.keys.at <= c.keys.at

(* One request loads a dialog, one at a time serves a change of keys.        *)
AuthCallsApart ==
  \A c, d \in calls :
    /\ c.kind = "detail" /\ d.kind = "detail" /\ c.dialog = d.dialog => c = d
    /\ c.kind \in KeyCalls /\ d.kind \in KeyCalls /\ c.n = d.n => c = d

AuthOwn ==
  /\ AuthPage /\ AuthRows /\ DialogPhase /\ DialogOwn /\ SecretOld /\ AuthCallsApart
  /\ \A c \in calls : AuthCallTyped(c) /\ AuthCallTimely(c)

AuthInv == Auth => AuthOwn

(* Each step that EditsKept and NewestShown speak of.                        *)
KeepsEdits ==
  page.draft = "dirty" /\ page'.opens = page.opens =>
    /\ page'.open = None => page.discard
    /\ page'.open # None /\ page'.draft # "dirty" /\ calls' # calls => page.saving # 0

ShowsNewest ==
  /\ page.secret # NoSecret /\ page'.secret # NoSecret => page'.secret.n >= page.secret.n
  /\ page'.opens = page.opens /\ page'.open # None /\ page.keys # NoKeys =>
       page'.keys.at >= page.keys.at

AuthStep == AuthOwn' /\ KeepsEdits /\ ShowsNewest

LEMMA TypedLater ==
  ASSUME AuthPage, page'.opens \in {page.opens, page.opens + 1},
         page'.acts \in {page.acts, page.acts + 1}, server' = server,
         NEW c, AuthCallTyped(c)
  PROVE  AuthCallTyped(c)'
BY DEF AuthPage, AuthCallTyped

LEMMA SentTyped ==
  ASSUME NEW kind \in KeyCalls \cup {"toggle", "detail", "save"}, NEW n \in Nat,
         NEW row \in InitialRows, NEW dialog \in Nat, AuthRows, AuthPage',
         kind = "detail" => dialog \in 1..page'.opens,
         kind \in KeyCalls \cup {"save"} => n \in 1..page'.acts, server' = server,
         NEW c, c = AuthCall(kind, n, row, dialog)
  PROVE  AuthCallTyped(c)'
<1>1. /\ c.kind = kind /\ c.n = n /\ c.row = row /\ c.dialog = dialog /\ c.keys = NoKeys
      /\ AuthCallFields \subseteq DOMAIN c
  BY DEF AuthCall, AuthCallFields
<1>2. NoKeys.of = None /\ NoKeys.at = 0 /\ server'.keys[row] \in Nat
  BY DEF NoKeys, AuthRows
<1> QED BY <1>1, <1>2 DEF AuthCallTyped

(* Clicks that send nothing.                                                 *)
LEMMA QuietClicks ==
  ASSUME AuthOwn, None \notin InitialRows,
         EditDraft \/ RequestCloseDetail \/ DiscardChanges \/ KeepEditing \/ DismissSecret
  PROVE  AuthStep
<1>0. /\ AuthPage /\ AuthRows /\ DialogPhase /\ DialogOwn /\ SecretOld /\ AuthCallsApart
      /\ \A c \in calls : AuthCallTyped(c) /\ AuthCallTimely(c)
  BY DEF AuthOwn
<1>1. server' = server /\ calls' = calls
  BY DEF EditDraft, RequestCloseDetail, DiscardChanges, KeepEditing, DismissSecret, Handles
<1>2. /\ AuthFields \subseteq DOMAIN page' /\ page'.opens = page.opens
      /\ page'.acts = page.acts /\ page'.routes = page.routes
  BY ZenonT(60), <1>0 DEF EditDraft, RequestCloseDetail, DiscardChanges, KeepEditing,
     DismissSecret, Handles, Closed, AuthPage, AuthFields
<1>3. \A c \in calls' : AuthCallTyped(c)'
  BY <1>0, <1>1, <1>2, TypedLater
<1>4. AuthCallsApart' /\ AuthRows'
  BY <1>0, <1>1 DEF AuthCallsApart, AuthRows
<1>5. CASE page' = Closed
  <2>1. /\ page'.open = None /\ page'.draft = "closed" /\ page'.keys = NoKeys
        /\ page'.load = 0 /\ page'.saving = 0 /\ page'.mutation = 0 /\ page'.refresh = 0
        /\ page'.secret = page.secret
    BY <1>0, <1>5 DEF Closed, AuthPage, AuthFields
  <2>2. AuthPage' /\ DialogPhase' /\ DialogOwn' /\ SecretOld'
    BY <1>0, <1>2, <2>1 DEF AuthPage, DialogPhase, DialogOwn, SecretOld, Drafted, NoKeys
  <2>3. \A c \in calls' : AuthCallTimely(c)'
    BY <1>0, <1>1, <2>1 DEF AuthCallTimely, AuthCallTyped, KeyCalls, NoKeys
  <2>4. KeepsEdits
    <3>1. \/ page'.open = page.open
          \/ page.draft # "dirty" \/ page.discard
      BY <1>0 DEF RequestCloseDetail, DiscardChanges, AsksFirst, EditDraft, KeepEditing,
         DismissSecret, Handles, AuthPage, AuthFields
    <3> QED BY <1>0, <1>1, <2>1, <3>1 DEF KeepsEdits, DialogPhase, Drafted
  <2>5. ShowsNewest
    BY <1>0, <2>1 DEF ShowsNewest, AuthPage
  <2> QED BY <1>3, <1>4, <2>2, <2>3, <2>4, <2>5 DEF AuthStep, AuthOwn
<1>6. CASE page' # Closed
  <2>1. /\ page'.open = page.open /\ page'.config = page.config /\ page'.keys = page.keys
        /\ page'.load = page.load /\ page'.saving = page.saving
        /\ page'.mutation = page.mutation /\ page'.refresh = page.refresh
        /\ page'.secret \in {page.secret, NoSecret}
        /\ page'.draft = page.draft \/ (Drafted /\ Drafted')
    BY <1>0, <1>6 DEF EditDraft, RequestCloseDetail, DiscardChanges, KeepEditing, DismissSecret,
       Handles, AuthPage, AuthFields, Drafted
  <2>2. AuthPage' /\ DialogPhase' /\ DialogOwn' /\ SecretOld'
    BY <1>0, <1>1, <1>2, <2>1
    DEF AuthPage, DialogPhase, DialogOwn, SecretOld, Drafted, NoSecret
  <2>3. \A c \in calls' : AuthCallTimely(c)'
    BY <1>0, <1>1, <2>1 DEF AuthCallTimely, Ok, Drafted
  <2>4. KeepsEdits /\ ShowsNewest
    BY <1>0, <1>1, <2>1 DEF KeepsEdits, ShowsNewest, AuthPage, DialogPhase, Drafted
  <2> QED BY <1>3, <1>4, <2>2, <2>3, <2>4 DEF AuthStep, AuthOwn
<1> QED BY <1>5, <1>6

LEMMA ToggleClick ==
  ASSUME AuthOwn, QuickToggle
  PROVE  AuthStep
<1>0. /\ AuthPage /\ AuthRows /\ DialogPhase /\ DialogOwn /\ SecretOld /\ AuthCallsApart
      /\ \A c \in calls : AuthCallTyped(c) /\ AuthCallTimely(c)
  BY DEF AuthOwn
<1>10. PICK r \in page.routes : calls' = calls \cup {AuthCall("toggle", page.acts + 1, r, 0)}
  BY DEF QuickToggle, Handles
<1>1. PICK c : c = AuthCall("toggle", page.acts + 1, r, 0) /\ calls' = calls \cup {c}
  BY <1>10
<1>2. page' = [page EXCEPT !.acts = page.acts + 1] /\ server' = server
  BY DEF QuickToggle, Handles
<1>3. /\ AuthFields \subseteq DOMAIN page' /\ page'.acts = page.acts + 1
      /\ \A f \in AuthFields \ {"acts"} : page'[f] = page[f]
  BY <1>0, <1>2 DEF AuthPage, AuthFields
<1>4. AuthPage' /\ AuthRows' /\ DialogPhase' /\ DialogOwn' /\ SecretOld'
  BY <1>0, <1>2, <1>3
  DEF AuthPage, AuthRows, AuthFields, DialogPhase, DialogOwn, SecretOld, Drafted
<1>5. c.kind = "toggle" /\ AuthCallTyped(c)'
  <2>1. page.acts + 1 \in Nat /\ r \in InitialRows /\ "toggle" \notin KeyCalls \cup {"save", "detail"}
    BY <1>0, <1>1 DEF AuthPage, KeyCalls, KeyKinds
  <2> QED BY <1>0, <1>1, <1>2, <1>4, <2>1, SentTyped DEF AuthCall
<1>6. \A d \in calls' : AuthCallTyped(d)'
  BY <1>0, <1>1, <1>2, <1>3, <1>5, TypedLater DEF AuthFields
<1>7. \A d \in calls' : AuthCallTimely(d)'
  BY <1>0, <1>1, <1>3, <1>5 DEF AuthCallTimely, Ok, AuthFields
<1>8. AuthCallsApart'
  BY <1>0, <1>1, <1>5 DEF AuthCallsApart, KeyCalls, KeyKinds
<1>9. KeepsEdits /\ ShowsNewest
  BY <1>0, <1>3 DEF KeepsEdits, ShowsNewest, AuthFields, AuthPage, DialogPhase, Drafted
<1> QED BY <1>4, <1>6, <1>7, <1>8, <1>9 DEF AuthStep, AuthOwn

LEMMA OpenClick ==
  ASSUME AuthOwn, None \notin InitialRows, OpenDetail
  PROVE  AuthStep
<1>0. /\ AuthPage /\ AuthRows /\ DialogPhase /\ DialogOwn /\ SecretOld /\ AuthCallsApart
      /\ \A c \in calls : AuthCallTyped(c) /\ AuthCallTimely(c)
  BY DEF AuthOwn
<1>10. PICK r \in page.routes :
         /\ calls' \in {calls, calls \cup {AuthCall("detail", 0, r, page.opens + 1)}}
         /\ page' = Opened(r)
  BY DEF OpenDetail, Handles
<1>1. PICK c :
        /\ c = AuthCall("detail", 0, r, page.opens + 1)
        /\ calls' = calls \/ calls' = calls \cup {c}
        /\ page' = Opened(r)
  BY <1>10
<1>2. server' = server
  BY DEF OpenDetail, Handles
<1>3. /\ AuthFields \subseteq DOMAIN page' /\ page'.opens = page.opens + 1
      /\ page'.load = page.opens + 1 /\ page'.open = r /\ page'.draft = "loading"
      /\ page'.config = None /\ page'.keys = NoKeys /\ page'.secret = NoSecret
      /\ page'.saving = 0 /\ page'.mutation = 0 /\ page'.refresh = 0
      /\ page'.acts = page.acts /\ page'.routes = page.routes
  BY <1>0, <1>1 DEF AuthPage, AuthFields, Opened
<1>4. AuthPage' /\ AuthRows' /\ DialogPhase' /\ DialogOwn' /\ SecretOld'
  BY <1>0, <1>2, <1>3
  DEF AuthPage, AuthRows, DialogPhase, DialogOwn, SecretOld, Drafted, NoKeys, NoSecret
<1>5. c.kind = "detail" /\ c.dialog = page.opens + 1 /\ AuthCallTyped(c)'
  <2>1. /\ page.opens + 1 \in 1..page'.opens /\ r \in InitialRows
        /\ "detail" \notin KeyCalls \cup {"save"} /\ page.opens + 1 \in Nat
    BY <1>0, <1>1, <1>3 DEF AuthPage, KeyCalls, KeyKinds
  <2> QED BY <1>0, <1>1, <1>2, <1>4, <2>1, SentTyped DEF AuthCall
<1>6. \A d \in calls' : AuthCallTyped(d)'
  BY <1>0, <1>1, <1>2, <1>3, <1>5, TypedLater
<1>7. \A d \in calls' : AuthCallTimely(d)'
  <2>1. \A d \in calls' : d.kind = "keys" => d.n # 0
    BY <1>0, <1>1, <1>5 DEF AuthCallTyped, KeyCalls
  <2> QED BY <1>3, <2>1 DEF AuthCallTimely
<1>8. AuthCallsApart'
  <2>1. \A d \in calls : d.kind = "detail" => d.dialog # page.opens + 1
    BY <1>0 DEF AuthCallTyped, AuthPage
  <2> QED BY <1>0, <1>1, <1>5, <2>1 DEF AuthCallsApart, KeyCalls, KeyKinds
<1>9. KeepsEdits /\ ShowsNewest
  BY <1>0, <1>1, <1>3 DEF KeepsEdits, ShowsNewest, AuthPage
<1> QED BY <1>4, <1>6, <1>7, <1>8, <1>9 DEF AuthStep, AuthOwn

LEMMA SaveClick ==
  ASSUME AuthOwn, SaveDetail
  PROVE  AuthStep
<1>0. /\ AuthPage /\ AuthRows /\ DialogPhase /\ DialogOwn /\ SecretOld /\ AuthCallsApart
      /\ \A c \in calls : AuthCallTyped(c) /\ AuthCallTimely(c)
  BY DEF AuthOwn
<1>1. PICK c : c = AuthCall("save", page.acts + 1, page.open, page.opens)
  OBVIOUS
<1>2. /\ calls' = calls \cup {c}
      /\ page' = [page EXCEPT !.acts = page.acts + 1, !.saving = page.acts + 1,
                              !.discard = FALSE]
      /\ server' = server /\ Drafted
  BY <1>1 DEF SaveDetail, Handles
<1>3. /\ AuthFields \subseteq DOMAIN page' /\ page'.acts = page.acts + 1
      /\ page'.saving = page.acts + 1
      /\ \A f \in AuthFields \ {"acts", "saving", "discard"} : page'[f] = page[f]
  BY <1>0, <1>2 DEF AuthPage, AuthFields
<1>4. AuthPage' /\ AuthRows' /\ DialogPhase' /\ DialogOwn' /\ SecretOld'
  BY <1>0, <1>2, <1>3
  DEF AuthPage, AuthRows, AuthFields, DialogPhase, DialogOwn, SecretOld, Drafted
<1>5. c.kind = "save" /\ AuthCallTyped(c)'
  <2>1. /\ page.acts + 1 \in 1..page'.acts /\ page.open \in InitialRows
        /\ "save" # "detail" /\ page.opens \in Nat /\ page.acts + 1 \in Nat
    BY <1>0, <1>2, <1>3 DEF AuthPage, DialogPhase
  <2> QED BY <1>0, <1>1, <1>2, <1>4, <2>1, SentTyped DEF AuthCall
<1>6. \A d \in calls' : AuthCallTyped(d)'
  BY <1>0, <1>2, <1>3, <1>5, TypedLater DEF AuthFields
<1>7. \A d \in calls' : AuthCallTimely(d)'
  BY <1>0, <1>2, <1>3, <1>5 DEF AuthCallTimely, Ok, AuthFields
<1>8. AuthCallsApart'
  BY <1>0, <1>2, <1>5 DEF AuthCallsApart, KeyCalls, KeyKinds
<1>9. KeepsEdits /\ ShowsNewest
  BY <1>0, <1>2, <1>3 DEF KeepsEdits, ShowsNewest, AuthFields, AuthPage, DialogPhase
<1> QED BY <1>4, <1>6, <1>7, <1>8, <1>9 DEF AuthStep, AuthOwn

LEMMA ChangeKeyClick ==
  ASSUME AuthOwn, ChangeKey
  PROVE  AuthStep
<1>0. /\ AuthPage /\ AuthRows /\ DialogPhase /\ DialogOwn /\ SecretOld /\ AuthCallsApart
      /\ \A c \in calls : AuthCallTyped(c) /\ AuthCallTimely(c)
  BY DEF AuthOwn
<1>10. PICK kind \in KeyKinds :
         calls' = calls \cup {AuthCall(kind, page.acts + 1, page.open, page.opens)}
  BY DEF ChangeKey, Handles
<1>1. PICK c :
        c = AuthCall(kind, page.acts + 1, page.open, page.opens) /\ calls' = calls \cup {c}
  BY <1>10
<1>2. /\ page' = [page EXCEPT !.acts = page.acts + 1, !.mutation = page.acts + 1]
      /\ server' = server /\ Drafted
  BY DEF ChangeKey, Handles
<1>3. /\ AuthFields \subseteq DOMAIN page' /\ page'.acts = page.acts + 1
      /\ page'.mutation = page.acts + 1
      /\ \A f \in AuthFields \ {"acts", "mutation"} : page'[f] = page[f]
  BY <1>0, <1>2 DEF AuthPage, AuthFields
<1>4. AuthPage' /\ AuthRows' /\ DialogPhase' /\ DialogOwn' /\ SecretOld'
  BY <1>0, <1>2, <1>3
  DEF AuthPage, AuthRows, AuthFields, DialogPhase, DialogOwn, SecretOld, Drafted
<1>5. c.kind = kind /\ c.n = page.acts + 1 /\ AuthCallTyped(c)'
  <2>1. /\ page.acts + 1 \in 1..page'.acts /\ page.open \in InitialRows
        /\ kind # "detail" /\ kind \in KeyCalls /\ page.opens \in Nat /\ page.acts + 1 \in Nat
    BY <1>0, <1>2, <1>3 DEF AuthPage, DialogPhase, KeyCalls, KeyKinds
  <2> QED BY <1>0, <1>1, <1>2, <1>4, <2>1, SentTyped DEF AuthCall
<1>6. \A d \in calls' : AuthCallTyped(d)'
  BY <1>0, <1>1, <1>2, <1>3, <1>5, TypedLater DEF AuthFields
<1>7. \A d \in calls' : AuthCallTimely(d)'
  BY <1>0, <1>1, <1>3, <1>5 DEF AuthCallTimely, Ok, AuthFields, KeyKinds
<1>8. AuthCallsApart'
  <2>1. \A d \in calls : d.kind \in KeyCalls => d.n # page.acts + 1
    BY <1>0 DEF AuthCallTyped, AuthPage
  <2> QED BY <1>0, <1>1, <1>5, <2>1 DEF AuthCallsApart, KeyKinds
<1>9. KeepsEdits /\ ShowsNewest
  BY <1>0, <1>2, <1>3 DEF KeepsEdits, ShowsNewest, AuthFields, AuthPage, DialogPhase
<1> QED BY <1>4, <1>6, <1>7, <1>8, <1>9 DEF AuthStep, AuthOwn

(* Answers that leave the dialog alone.                                      *)
LEMMA ListAnswers ==
  ASSUME AuthOwn, NEW c \in calls, AllLoaded(c) \/ Toggled(c)
  PROVE  AuthStep
<1>0. /\ AuthPage /\ AuthRows /\ DialogPhase /\ DialogOwn /\ SecretOld /\ AuthCallsApart
      /\ \A d \in calls : AuthCallTyped(d) /\ AuthCallTimely(d)
  BY DEF AuthOwn
<1>1. server' = server /\ calls' = calls \ {c}
  BY DEF AllLoaded, Toggled, Resumes
<1>2. /\ AuthFields \subseteq DOMAIN page' /\ page'.routes \in {page.routes, InitialRows}
      /\ \A f \in AuthFields \ {"loading", "routes", "failed"} : page'[f] = page[f]
  BY <1>0 DEF AllLoaded, Toggled, Resumes, Listed, Loaded, AuthPage, AuthFields
<1>3. AuthPage' /\ AuthRows' /\ DialogPhase' /\ DialogOwn' /\ SecretOld'
  BY <1>0, <1>1, <1>2
  DEF AuthPage, AuthRows, AuthFields, DialogPhase, DialogOwn, SecretOld, Drafted
<1>4. \A d \in calls' : AuthCallTyped(d)'
  BY <1>0, <1>1, <1>2, TypedLater DEF AuthFields
<1>5. \A d \in calls' : AuthCallTimely(d)'
  BY <1>0, <1>1, <1>2 DEF AuthCallTimely, Ok, AuthFields
<1>6. AuthCallsApart'
  BY <1>0, <1>1 DEF AuthCallsApart
<1>7. KeepsEdits /\ ShowsNewest
  BY <1>0, <1>2 DEF KeepsEdits, ShowsNewest, AuthFields, AuthPage, DialogPhase, Drafted
<1> QED BY <1>3, <1>4, <1>5, <1>6, <1>7 DEF AuthStep, AuthOwn

LEMMA DetailAnswer ==
  ASSUME AuthOwn, NEW c \in calls, DetailLoaded(c)
  PROVE  AuthStep
<1>0. /\ AuthPage /\ AuthRows /\ DialogPhase /\ DialogOwn /\ SecretOld /\ AuthCallsApart
      /\ \A d \in calls : AuthCallTyped(d) /\ AuthCallTimely(d)
  BY DEF AuthOwn
<1>1. server' = server /\ calls' = calls \ {c} /\ c.kind = "detail"
  BY DEF DetailLoaded, Resumes, Answered
<1>2. \/ page' = page
      \/ /\ LoadIsCurrent(c) /\ page'.draft = "clean" /\ page'.keys = c.keys
         /\ page'.config = c.row
      \/ /\ LoadIsCurrent(c) /\ page'.draft = "failed" /\ page'.keys = NoKeys
         /\ page'.config = None
  BY <1>0 DEF DetailLoaded, Resumes, Listed, AuthPage, AuthFields
<1>3. /\ AuthFields \subseteq DOMAIN page'
      /\ \A f \in AuthFields \ {"draft", "keys", "config", "failed"} : page'[f] = page[f]
  BY <1>0 DEF DetailLoaded, Resumes, Listed, AuthPage, AuthFields
<1>4. \A d \in calls' : AuthCallTyped(d)'
  BY <1>0, <1>1, <1>3, TypedLater DEF AuthFields
<1>5. AuthCallsApart' /\ AuthRows' /\ SecretOld'
  BY <1>0, <1>1, <1>3 DEF AuthCallsApart, AuthRows, SecretOld, AuthFields
<1>6. CASE page' = page
  <2>1. AuthPage' /\ DialogPhase' /\ DialogOwn'
    BY <1>0, <1>1, <1>6 DEF AuthPage, DialogPhase, DialogOwn, Drafted
  <2>2. \A d \in calls' : AuthCallTimely(d)'
    BY <1>0, <1>1, <1>6 DEF AuthCallTimely
  <2>3. KeepsEdits /\ ShowsNewest
    BY <1>0, <1>6 DEF KeepsEdits, ShowsNewest, AuthPage, DialogPhase, Drafted
  <2> QED BY <1>4, <1>5, <2>1, <2>2, <2>3 DEF AuthStep, AuthOwn
<1>7. CASE page' # page
  <2>1. page.load = c.dialog /\ page.open = c.row /\ page.draft = "loading" /\ page.keys = NoKeys
    BY <1>0, <1>1, <1>2, <1>7 DEF LoadIsCurrent, AuthCallTimely, DialogPhase
  <2>2. /\ page'.keys \in {c.keys, NoKeys} /\ page'.config \in {c.row, None}
        /\ page'.draft \in {"clean", "failed"}
    BY <1>2, <1>7
  <2>3. page.saving = 0 /\ page.mutation = 0 /\ page.refresh = 0
    BY <1>0, <2>1 DEF DialogPhase, Drafted, AuthPage
  <2>4. /\ c.row \in InitialRows /\ c.keys.at <= server.keys[c.row]
        /\ c.keys.of \in {None, c.row} /\ c.keys.at \in Nat
    BY <1>0, <1>1 DEF AuthCallTyped
  <2>5. NoKeys.at = 0 /\ NoKeys.of = None /\ server.keys[c.row] \in Nat
    BY <1>0, <2>4 DEF NoKeys, AuthRows
  <2>6. AuthPage'
    BY <1>0, <1>3, <2>2, <2>4, <2>5 DEF AuthPage, AuthFields
  <2>7. DialogPhase' /\ DialogOwn'
    <3>1. page.open # None
      BY <2>1, <2>4, RowsAssumption
    <3>2. /\ page'.open = page.open /\ page'.saving = 0 /\ page'.mutation = 0
          /\ page'.refresh = 0 /\ page'.secret = page.secret
      BY <1>3, <2>3 DEF AuthFields
    <3>3. page'.keys.at <= server.keys[c.row] /\ page'.keys.of \in {None, c.row}
      BY <2>2, <2>4, <2>5
    <3> QED BY <1>0, <1>1, <2>1, <2>2, <3>1, <3>2, <3>3 DEF DialogPhase, DialogOwn, Drafted
  <2>8. \A d \in calls' : AuthCallTimely(d)'
    <3>1. \A d \in calls' : d.kind = "detail" => d.dialog # page.load
      BY <1>0, <1>1, <2>1 DEF AuthCallsApart
    <3>2. \A d \in calls' : d.kind = "keys" => d.n # 0
      BY <1>0, <1>1 DEF AuthCallTyped, KeyCalls
    <3> QED BY <1>3, <2>3, <3>1, <3>2 DEF AuthCallTimely, AuthFields
  <2>9. KeepsEdits /\ ShowsNewest
    BY <1>0, <1>3, <2>1 DEF KeepsEdits, ShowsNewest, AuthFields, AuthPage
  <2> QED BY <1>4, <1>5, <2>6, <2>7, <2>8, <2>9 DEF AuthStep, AuthOwn
<1> QED BY <1>6, <1>7

LEMMA SaveAnswer ==
  ASSUME AuthOwn, NEW c \in calls, DetailSaved(c)
  PROVE  AuthStep
<1>0. /\ AuthPage /\ AuthRows /\ DialogPhase /\ DialogOwn /\ SecretOld /\ AuthCallsApart
      /\ \A d \in calls : AuthCallTyped(d) /\ AuthCallTimely(d)
  BY DEF AuthOwn
<1>1. server' = server /\ calls' = calls \ {c} /\ c.kind = "save"
  BY DEF DetailSaved, Resumes, Answered
<1>2. /\ AuthFields \subseteq DOMAIN page'
      /\ \A f \in AuthFields \ {"draft", "saving", "config", "failed"} : page'[f] = page[f]
  BY <1>0 DEF DetailSaved, Resumes, Listed, AuthPage, AuthFields
<1>3. \/ /\ page'.draft = page.draft /\ page'.saving \in {page.saving, 0}
         /\ page'.config = page.config
      \/ /\ SaveIsCurrent(c) /\ page'.draft = "clean" /\ page'.saving = 0
         /\ page'.config = c.row
  BY <1>0 DEF DetailSaved, Resumes, Listed, AuthPage, AuthFields
<1>4. c.row \in InitialRows /\ c.n \in 1..page.acts
  BY <1>0, <1>1 DEF AuthCallTyped
<1>5. SaveIsCurrent(c) => page.saving # 0 /\ page.open = c.row /\ Drafted
  BY <1>0, <1>4 DEF SaveIsCurrent, DialogPhase
<1>6. AuthPage' /\ AuthRows' /\ SecretOld' /\ AuthCallsApart'
  BY <1>0, <1>1, <1>2, <1>3 DEF AuthPage, AuthRows, SecretOld, AuthFields, AuthCallsApart
<1>7. DialogPhase' /\ DialogOwn'
  BY <1>0, <1>1, <1>2, <1>3, <1>5 DEF DialogPhase, DialogOwn, Drafted, AuthFields
<1>8. \A d \in calls' : AuthCallTyped(d)'
  BY <1>0, <1>1, <1>2, TypedLater DEF AuthFields
<1>9. \A d \in calls' : AuthCallTimely(d)'
  BY <1>0, <1>1, <1>2, <1>3, <1>5 DEF AuthCallTimely, Ok, AuthFields, Drafted
<1>10. KeepsEdits /\ ShowsNewest
  BY <1>0, <1>2, <1>3, <1>5 DEF KeepsEdits, ShowsNewest, AuthFields, AuthPage, DialogPhase, Drafted
<1> QED BY <1>6, <1>7, <1>8, <1>9, <1>10 DEF AuthStep, AuthOwn

LEMMA KeysAnswer ==
  ASSUME AuthOwn, NEW c \in calls, KeysRefreshed(c)
  PROVE  AuthStep
<1>0. /\ AuthPage /\ AuthRows /\ DialogPhase /\ DialogOwn /\ SecretOld /\ AuthCallsApart
      /\ \A d \in calls : AuthCallTyped(d) /\ AuthCallTimely(d)
  BY DEF AuthOwn
<1>1. server' = server /\ calls' = calls \ {c} /\ c.kind = "keys"
  BY DEF KeysRefreshed, Resumes, Answered
<1>2. /\ AuthFields \subseteq DOMAIN page' /\ page'.mutation \in {page.mutation, 0}
      /\ \A f \in AuthFields \ {"mutation", "keys"} : page'[f] = page[f]
  BY <1>0 DEF KeysRefreshed, Resumes, FinishKeyMutation, AuthPage, AuthFields
<1>3. \/ page'.keys = page.keys
      \/ Ok(c) /\ NewestKeys(c) /\ page'.keys = c.keys
  BY <1>0 DEF KeysRefreshed, Resumes, FinishKeyMutation, AuthPage, AuthFields
<1>4. /\ c.row \in InitialRows /\ c.n \in 1..page.acts /\ c.keys.of \in {None, c.row}
      /\ c.keys.at \in Nat /\ c.keys.at <= server.keys[c.row]
  BY <1>0, <1>1 DEF AuthCallTyped, KeyCalls
<1>5. CASE page'.keys = page.keys
  <2>1. AuthPage' /\ AuthRows' /\ SecretOld' /\ AuthCallsApart' /\ DialogPhase' /\ DialogOwn'
    BY <1>0, <1>1, <1>2, <1>5
    DEF AuthPage, AuthRows, SecretOld, AuthFields, AuthCallsApart, DialogPhase, DialogOwn, Drafted
  <2>2. \A d \in calls' : AuthCallTimely(d)'
    BY <1>0, <1>1, <1>2, <1>5 DEF AuthCallTimely, Ok, AuthFields
  <2>3. KeepsEdits /\ ShowsNewest
    BY <1>0, <1>2, <1>5 DEF KeepsEdits, ShowsNewest, AuthFields, AuthPage, DialogPhase, Drafted
  <2>4. \A d \in calls' : AuthCallTyped(d)'
    BY <1>0, <1>1, <1>2, TypedLater DEF AuthFields
  <2> QED BY <2>1, <2>2, <2>3, <2>4 DEF AuthStep, AuthOwn
<1>6. CASE Ok(c) /\ NewestKeys(c) /\ page'.keys = c.keys
  <2>1. /\ page.refresh = c.n /\ page.open = c.row /\ page.refresh # 0 /\ Drafted
        /\ page.keys.at <= c.keys.at
    BY <1>0, <1>1, <1>4, <1>6 DEF NewestKeys, DialogPhase, AuthCallTimely
  <2>2. AuthPage' /\ AuthRows' /\ SecretOld' /\ AuthCallsApart'
    BY <1>0, <1>1, <1>2, <1>4, <1>6
    DEF AuthPage, AuthRows, SecretOld, AuthFields, AuthCallsApart
  <2>3. DialogPhase' /\ DialogOwn'
    BY <1>0, <1>1, <1>2, <1>4, <1>6, <2>1 DEF DialogPhase, DialogOwn, Drafted, AuthFields
  <2>4. \A d \in calls' : AuthCallTimely(d)'
    <3>1. \A d \in calls' : d.kind = "keys" => d.n # page.refresh
      BY <1>0, <1>1, <2>1 DEF AuthCallsApart, KeyCalls
    <3> QED BY <1>0, <1>1, <1>2, <3>1 DEF AuthCallTimely, AuthFields
  <2>5. KeepsEdits /\ ShowsNewest
    BY <1>0, <1>2, <1>6, <2>1 DEF KeepsEdits, ShowsNewest, AuthFields, AuthPage, DialogPhase
  <2>6. \A d \in calls' : AuthCallTyped(d)'
    BY <1>0, <1>1, <1>2, TypedLater DEF AuthFields
  <2> QED BY <2>2, <2>3, <2>4, <2>5, <2>6 DEF AuthStep, AuthOwn
<1> QED BY <1>3, <1>5, <1>6

LEMMA KeyAnswer ==
  ASSUME AuthOwn, NEW c \in calls, KeyChanged(c)
  PROVE  AuthStep
<1>0. /\ AuthPage /\ AuthRows /\ DialogPhase /\ DialogOwn /\ SecretOld /\ AuthCallsApart
      /\ \A d \in calls : AuthCallTyped(d) /\ AuthCallTimely(d)
  BY DEF AuthOwn
<1>1. server' = server /\ c.kind \in KeyKinds
  BY DEF KeyChanged, Resumes, Answered
<1>2. c.row \in InitialRows /\ c.n \in 1..page.acts /\ c.dialog = c.dialog
  BY <1>0, <1>1 DEF AuthCallTyped, KeyCalls, KeyKinds
<1>3. CASE Ok(c) /\ IsCurrentKeyMutation(c)
  <2>1. PICK d : d = AuthCall("keys", c.n, c.row, c.dialog)
    OBVIOUS
  <2>2. calls' = (calls \ {c}) \cup {d}
    BY <1>3, <2>1 DEF KeyChanged, Resumes
  <2>3. /\ d.kind = "keys" /\ d.n = c.n /\ d.row = c.row /\ d.status = "pending"
        /\ d.keys = NoKeys /\ d.dialog = c.dialog /\ AuthCallFields \subseteq DOMAIN d
    BY <2>1 DEF AuthCall, AuthCallFields
  <2>4. /\ AuthFields \subseteq DOMAIN page' /\ page'.refresh = c.n
        /\ page'.secret = page.secret \/ page'.secret = [of |-> c.row, n |-> c.n]
        /\ \A f \in AuthFields \ {"refresh", "secret"} : page'[f] = page[f]
    BY <1>0, <1>3 DEF KeyChanged, Resumes, AuthPage, AuthFields
  <2>5. page.mutation = c.n /\ page.open = c.row /\ page.mutation # 0 /\ Drafted
    BY <1>0, <1>2, <1>3 DEF IsCurrentKeyMutation, DialogPhase
  <2>6. page.secret.n <= c.n /\ page.secret.n \in Nat
    BY <1>0, <2>5 DEF SecretOld, AuthPage
  <2>7. AuthPage' /\ AuthRows' /\ SecretOld'
    BY <1>0, <1>1, <1>2, <2>4, <2>5, <2>6 DEF AuthPage, AuthRows, SecretOld, AuthFields
  <2>8. DialogPhase' /\ DialogOwn'
    BY <1>0, <1>1, <2>4, <2>5 DEF DialogPhase, DialogOwn, Drafted, AuthFields
  <2>9. AuthCallsApart'
    BY <1>0, <1>1, <2>2, <2>3 DEF AuthCallsApart, KeyCalls, KeyKinds
  <2>10. \A e \in calls' : AuthCallTyped(e)'
    <3>1. AuthCallTyped(d)'
      <4>1. NoKeys.of = None /\ NoKeys.at = 0 /\ server'.keys[c.row] \in Nat
        BY <1>0, <1>1, <1>2 DEF NoKeys, AuthRows
      <4> QED BY <1>2, <2>3, <2>4, <4>1 DEF AuthCallTyped, KeyCalls, AuthFields
    <3> QED BY <1>0, <1>1, <2>2, <2>4, <3>1, TypedLater DEF AuthFields
  <2>11. \A e \in calls' : AuthCallTimely(e)'
    <3>1. \A e \in calls : e # c => ~(e.kind = "keys" /\ e.n = c.n)
      BY <1>0, <1>1 DEF AuthCallsApart, KeyCalls
    <3> QED BY <1>0, <2>2, <2>3, <2>4, <3>1 DEF AuthCallTimely, Ok, AuthFields
  <2>12. KeepsEdits /\ ShowsNewest
    BY <1>0, <1>2, <2>4, <2>5, <2>6
    DEF KeepsEdits, ShowsNewest, AuthFields, AuthPage, DialogPhase
  <2> QED BY <2>7, <2>8, <2>9, <2>10, <2>11, <2>12 DEF AuthStep, AuthOwn
<1>4. CASE ~(Ok(c) /\ IsCurrentKeyMutation(c))
  <2>1. calls' = calls \ {c}
    BY <1>4 DEF KeyChanged, Resumes
  <2>2. /\ AuthFields \subseteq DOMAIN page' /\ page'.mutation \in {page.mutation, 0}
        /\ \A f \in AuthFields \ {"mutation"} : page'[f] = page[f]
    BY <1>0, <1>4 DEF KeyChanged, Resumes, FinishKeyMutation, AuthPage, AuthFields
  <2>3. AuthPage' /\ AuthRows' /\ SecretOld' /\ AuthCallsApart' /\ DialogPhase' /\ DialogOwn'
    BY <1>0, <1>1, <2>1, <2>2
    DEF AuthPage, AuthRows, SecretOld, AuthFields, AuthCallsApart, DialogPhase, DialogOwn, Drafted
  <2>4. \A d \in calls' : AuthCallTimely(d)'
    BY <1>0, <2>1, <2>2 DEF AuthCallTimely, Ok, AuthFields
  <2>5. KeepsEdits /\ ShowsNewest
    BY <1>0, <2>2 DEF KeepsEdits, ShowsNewest, AuthFields, AuthPage, DialogPhase, Drafted
  <2>6. \A d \in calls' : AuthCallTyped(d)'
    BY <1>0, <1>1, <2>1, <2>2, TypedLater DEF AuthFields
  <2> QED BY <2>3, <2>4, <2>5, <2>6 DEF AuthStep, AuthOwn
<1> QED BY <1>3, <1>4

(* The server answers a request; its keys only gain changes.                 *)
LEMMA AuthServed ==
  ASSUME AuthOwn, NEW c \in calls, ServeAuth(c)
  PROVE  AuthStep
<1>0. /\ AuthPage /\ AuthRows /\ DialogPhase /\ DialogOwn /\ SecretOld /\ AuthCallsApart
      /\ \A d \in calls : AuthCallTyped(d) /\ AuthCallTimely(d)
  BY DEF AuthOwn
<1>1. page' = page
  BY DEF ServeAuth, ServeAuthRead, ServeAuthChange
<1>2. AuthRows' /\ \A r \in InitialRows : server'.keys[r] >= server.keys[r]
  <2>1. CASE server' = server
    BY <1>0, <2>1 DEF AuthRows
  <2>2. CASE server' = [server EXCEPT !.keys[c.row] = @ + 1] /\ c.kind \in KeyKinds
    <3>1. c.row \in InitialRows
      BY <1>0, <2>2 DEF AuthCallTyped, KeyKinds
    <3>2. /\ "keys" \in DOMAIN server'
          /\ server'.keys = [server.keys EXCEPT ![c.row] = server.keys[c.row] + 1]
      BY <1>0, <2>2 DEF AuthRows
    <3> QED BY <1>0, <3>1, <3>2 DEF AuthRows
  <2> QED BY <2>1, <2>2 DEF ServeAuth, ServeAuthRead, ServeAuthChange
<1> DEFINE Answer(b) ==
      /\ AuthCallFields \subseteq DOMAIN b
      /\ b.kind = c.kind /\ b.n = c.n /\ b.row = c.row /\ b.dialog = c.dialog
      /\ \/ b.keys = c.keys
         \/ c.kind # "all" /\ b.keys.of = c.row /\ b.keys.at = 0 /\ c.kind = "detail"
         \/ c.kind # "all" /\ b.keys.of = c.row /\ b.keys.at = server.keys[c.row]
      /\ c.kind = "keys" /\ b.status = "ok" => b.keys.at = server.keys[c.row]
<1>3. PICK b : calls' = (calls \ {c}) \cup {b} /\ Answer(b)
  <2>0. AuthCallFields \subseteq DOMAIN c
    BY <1>0 DEF AuthCallTyped
  <2>1. ASSUME NEW S, AnswersAuth(c, [c EXCEPT !.failed = S]), c.kind = "all"
        PROVE  \E b : calls' = (calls \ {c}) \cup {b} /\ Answer(b)
    <3>1. Answer([[c EXCEPT !.failed = S] EXCEPT !.status = "ok"])
      BY <2>0, <2>1 DEF AuthCallFields
    <3>2. Answer([c EXCEPT !.status = "failed"])
      BY <2>0, <2>1 DEF AuthCallFields
    <3> HIDE DEF Answer
    <3> QED BY <2>1, <3>1, <3>2 DEF AnswersAuth
  <2>2. ASSUME NEW at, AnswersAuth(c, [c EXCEPT !.keys = [of |-> c.row, at |-> at]]),
               c.kind \in {"detail", "keys"},
               at = server.keys[c.row] \/ (at = 0 /\ c.kind = "detail")
        PROVE  \E b : calls' = (calls \ {c}) \cup {b} /\ Answer(b)
    <3>1. Answer([[c EXCEPT !.keys = [of |-> c.row, at |-> at]] EXCEPT !.status = "ok"])
      BY <2>0, <2>2 DEF AuthCallFields
    <3>2. Answer([c EXCEPT !.status = "failed"])
      BY <2>0, <2>2 DEF AuthCallFields
    <3> HIDE DEF Answer
    <3> QED BY <2>2, <3>1, <3>2 DEF AnswersAuth
  <2>3. CASE ServeAuthRead(c)
    BY <2>1, <2>2, <2>3 DEF ServeAuthRead
  <2>4. CASE ServeAuthChange(c)
    <3>0. c.kind \notin {"all", "keys"}
      BY <2>4 DEF ServeAuthChange, KeyKinds
    <3>1. Answer([c EXCEPT !.status = "ok"]) /\ Answer([c EXCEPT !.status = "failed"])
      BY <2>0, <3>0 DEF AuthCallFields
    <3> HIDE DEF Answer
    <3> QED BY <2>4, <3>1 DEF ServeAuthChange, AnswersAuth
  <2> QED BY <2>3, <2>4 DEF ServeAuth
<1>4. AuthPage' /\ DialogPhase' /\ SecretOld'
  BY <1>0, <1>1 DEF AuthPage, DialogPhase, SecretOld, Drafted
<1>5. DialogOwn'
  BY <1>0, <1>1, <1>2 DEF DialogOwn, AuthPage, AuthRows
<1>6. AuthCallsApart'
  BY <1>0, <1>3 DEF AuthCallsApart
<1>7. \A d \in calls' : AuthCallTyped(d)'
  <2>1. ASSUME NEW d \in calls
        PROVE  AuthCallTyped(d)'
    BY <1>0, <1>1, <1>2 DEF AuthCallTyped, AuthRows
  <2>2. AuthCallTyped(b)'
    BY <1>0, <1>1, <1>2, <1>3 DEF AuthCallTyped, AuthRows
  <2> QED BY <1>3, <2>1, <2>2
<1>8. \A d \in calls' : AuthCallTimely(d)'
  <2>1. AuthCallTimely(b)'
    <3>1. c.kind = "keys" => c.row \in InitialRows
      BY <1>0 DEF AuthCallTyped
    <3> QED BY <1>0, <1>1, <1>3, <3>1, RowsAssumption DEF AuthCallTimely, Ok, DialogOwn
  <2> QED BY <1>0, <1>1, <1>3, <2>1 DEF AuthCallTimely, Ok
<1>9. KeepsEdits /\ ShowsNewest
  BY <1>0, <1>1 DEF KeepsEdits, ShowsNewest, AuthPage, DialogPhase, Drafted
<1> QED BY <1>2, <1>4, <1>5, <1>6, <1>7, <1>8, <1>9 DEF AuthStep, AuthOwn

LEMMA OnAuth ==
  ASSUME Auth, Next
  PROVE  AuthClick \/ \E c \in calls : AuthAnswered(c) \/ ServeAuth(c)
BY DEF Hosts, Next, Click, Served, Resume, OnDirectory, Names, OnForm, FormNames, Auth, Logs

LEMMA AuthSteps ==
  ASSUME AuthOwn, Auth, Next
  PROVE  AuthStep
<1>1. None \notin InitialRows
  BY RowsAssumption
<1>2. AuthClick => AuthStep
  BY <1>1, ToggleClick, OpenClick, QuietClicks, SaveClick, ChangeKeyClick DEF AuthClick
<1>3. ASSUME NEW c \in calls, AuthAnswered(c)
      PROVE  AuthStep
  BY <1>3, ListAnswers, DetailAnswer, SaveAnswer, KeyAnswer, KeysAnswer DEF AuthAnswered
<1> QED BY <1>2, <1>3, AuthServed, OnAuth

LEMMA InitAuth == Init => AuthInv
<1> SUFFICES ASSUME Init, Auth
             PROVE  AuthOwn
  BY DEF AuthInv
<1>1. PICK name \in Pages, can \in BOOLEAN :
        page = Mounted(name, can, server) /\ server \in ServersOf(name)
  BY DEF Init
<1>2. name = "auth"
  BY <1>1, MountedNamed DEF Auth
<1>3. page = AuthMounted(can) /\ server = AuthServer
  BY <1>1, <1>2 DEF Mounted, ServersOf, Names, FormNames
<1>4. calls = {AuthCall("all", 0, None, 0)}
  BY DEF Init, Auth, FirstCalls
<1>5. AuthPage /\ AuthRows /\ DialogPhase /\ DialogOwn /\ SecretOld
  BY <1>3 DEF AuthPage, AuthFields, AuthRows, AuthServer, AuthMounted, DialogPhase, DialogOwn,
     SecretOld, Drafted, NoKeys, NoSecret
<1>6. AuthCallsApart
  BY <1>4 DEF AuthCallsApart
<1>7. \A c \in calls : AuthCallTyped(c) /\ AuthCallTimely(c)
  BY <1>4 DEF AuthCallTyped, AuthCallTimely, AuthCall, AuthCallFields, KeyCalls, KeyKinds, NoKeys
<1> QED BY <1>5, <1>6, <1>7 DEF AuthOwn

LEMMA AuthKept ==
  ASSUME Named, AuthInv, [Next]_vars
  PROVE  /\ Named' /\ AuthInv'
         /\ [Auth => KeepsEdits /\ ShowsNewest]_<<page, calls>>
<1>1. Named' /\ (Auth' <=> Auth)
  BY NameStays DEF Auth
<1>2. CASE ~Auth
  BY <1>1, <1>2 DEF AuthInv
<1>3. CASE Auth /\ Next
  BY <1>1, <1>3, AuthSteps DEF AuthInv, AuthStep
<1>4. CASE UNCHANGED vars
  BY <1>1, <1>4 DEF vars, AuthInv, AuthOwn, AuthPage, AuthRows, DialogPhase, DialogOwn, SecretOld,
     AuthCallsApart, AuthCallTyped, AuthCallTimely, Auth, Drafted
<1> QED BY <1>2, <1>3, <1>4

(* No answer to a request of a dialog closed or left gets into the dialog    *)
(* that is open (RouteAuthPage.tsx loadDetail, saveDetailConfig).            *)
THEOREM DialogsApart == Spec => []DialogShowsItsRoute
<1>1. AuthInv => DialogShowsItsRoute
  BY DEF AuthInv, AuthOwn, DialogOwn, DialogShowsItsRoute
<1> QED BY <1>1, InitNamed, InitAuth, AuthKept, PTL DEF Spec

(* While no route is opened from the list behind the dialog, unsaved changes *)
(* go with their save or after a question, never by a late answer            *)
(* (RouteAuthPage.tsx requestCloseDetail).                                   *)
THEOREM EditsStay == Spec => EditsKept
<1>1. [Auth => KeepsEdits /\ ShowsNewest]_<<page, calls>> =>
        [Auth /\ page.draft = "dirty" /\ page'.opens = page.opens =>
           /\ page'.open = None => page.discard
           /\ page'.open # None /\ page'.draft # "dirty" /\ calls' # calls
                => page.saving # 0]_<<page, calls>>
  BY DEF KeepsEdits
<1> QED BY <1>1, InitNamed, InitAuth, AuthKept, PTL DEF Spec, EditsKept

(* Secrets and lists of keys are replaced by later ones only, for any number *)
(* of changes of keys and refreshes under way (RouteAuthPage.tsx             *)
(* refreshDetailKeys).                                                       *)
THEOREM NewestStay == Spec => NewestShown
<1>1. [Auth => KeepsEdits /\ ShowsNewest]_<<page, calls>> =>
        [Auth =>
           /\ page.secret # NoSecret /\ page'.secret # NoSecret
                => page'.secret.n >= page.secret.n
           /\ page'.opens = page.opens /\ page'.open # None /\ page.keys # NoKeys
                => page'.keys.at >= page.keys.at]_<<page, calls>>
  BY DEF ShowsNewest
<1> QED BY <1>1, InitNamed, InitAuth, AuthKept, PTL DEF Spec, NewestShown

-----------------------------------------------------------------------------
(* The forms. A row the page or the server has, a draft, and what a save     *)
(* sends of it, form by form.                                                *)

UserFields == {"name", "password", "role", "routes", "groups", "paths"}
GroupFields == {"name", "routes", "paths"}

PathsAssigned(row) == DOMAIN row.paths \subseteq row.routes

RowOk(name, row) ==
  CASE name = "user form"  -> DOMAIN row = UserFields /\ PathsAssigned(row)
    [] name = "group form" -> DOMAIN row = GroupFields /\ PathsAssigned(row)
    [] name = "route form" -> DOMAIN row = DOMAIN NewRoute /\ row.tls \in BOOLEAN
    [] name = "rule form"  -> /\ DOMAIN row = DOMAIN NewRule
                              /\ row.rateLimit # "" /\ row.methods \in {"", "GET"}
    [] OTHER               -> TRUE

DraftOk(name, draft) ==
  CASE name = "route form" -> /\ {"form", "mode"} \subseteq DOMAIN draft
                              /\ DOMAIN draft.form = DOMAIN NewRoute
                              /\ draft.form.tls \in BOOLEAN
    [] name = "rule form"  -> /\ "form" \in DOMAIN draft
                              /\ DOMAIN draft.form = DOMAIN NewRule
                              /\ draft.form.methods \in {"", "get", "GET", "(x)"}
    [] name = "certificate form" -> /\ DOMAIN draft = DOMAIN NewCertificate
                                    /\ draft.mode \in {"local_ca", "imported"}
    [] OTHER -> RowOk(name, draft)

Uploads(draft) == draft.form.tls /\ draft.mode = "upload"

SentFrom(name, kind, payload, opened, draft) ==
  CASE name = "route form" ->
         IF kind = "upload"
         THEN Uploads(draft) /\ payload = RoutePayload(draft.form)
         ELSE payload = [RoutePayload(draft.form) EXCEPT
                           !.certificate = IF Uploads(draft) THEN "c2" ELSE @]
    [] name = "rule form" ->
         /\ kind = "save" /\ ChecksRule(draft.form)
         /\ payload = RulePayload(draft.form, InitialRule(opened, draft.form))
    [] name = "certificate form" ->
         kind = "save" /\ payload = CertificatePayload(draft)
    [] OTHER -> kind = "save" /\ payload = draft

FormFields ==
  {"name", "listed", "stale", "show", "opened", "draft", "offered", "edits", "submit", "acts"}
FormCallFields == {"kind", "n", "status", "payload", "opened", "draft"}

MaybeRow(name, row) == row = None \/ RowOk(name, row)

FormPageOk(name) ==
  /\ FormFields \subseteq DOMAIN page /\ page.acts \in Nat
  /\ MaybeRow(name, page.listed) /\ MaybeRow(name, page.opened)
  /\ page.draft = None \/ DraftOk(name, page.draft)
  /\ page.show => DraftOk(name, page.draft)

(* A row that was listed is on the server: nothing here removes it.          *)
FormRows(name) ==
  /\ "row" \in DOMAIN server /\ MaybeRow(name, server.row)
  /\ page.listed # None \/ page.opened # None => RowOk(name, server.row)

FormCall(name, c) ==
  /\ FormCallFields \subseteq DOMAIN c /\ c.kind \in {"save", "upload"}
  /\ c.n \in 1..page.acts
  /\ MaybeRow(name, c.opened) /\ DraftOk(name, c.draft)
  /\ SentFrom(name, c.kind, c.payload, c.opened, c.draft)
  /\ c.opened # None => RowOk(name, server.row)

FormCallsApart == \A c, d \in calls : c.n = d.n => c = d

FormOwn(name) ==
  /\ FormPageOk(name) /\ FormRows(name) /\ FormCallsApart
  /\ \A c \in calls : FormCall(name, c)

FormInv == OnForm => FormOwn(page.name)

(* The steps the forms share.                                                *)

LEMMA OpenKeeps ==
  ASSUME NEW name, FormOwn(name), NEW row \in {None, page.listed}, NEW draft,
         DraftOk(name, draft), OpensDraft(row, draft)
  PROVE  FormOwn(name)'
<1>1. /\ page' = [page EXCEPT !.show = TRUE, !.opened = row, !.draft = draft]
      /\ calls' = calls /\ server' = server
  BY DEF OpensDraft, Handles
<1>2. FormPageOk(name)' /\ FormRows(name)' /\ page'.acts = page.acts
  BY <1>1 DEF FormOwn, FormPageOk, FormRows, FormFields, MaybeRow
<1> QED BY <1>1, <1>2 DEF FormOwn, FormCallsApart, FormCall

LEMMA EditKeeps ==
  ASSUME NEW name, FormOwn(name), NEW draft, DraftOk(name, draft), EditsTo(draft)
  PROVE  FormOwn(name)'
<1>1. /\ page' = [page EXCEPT !.draft = draft, !.edits = @ + 1]
      /\ calls' = calls /\ server' = server
  BY DEF EditsTo, Handles
<1>2. FormPageOk(name)' /\ FormRows(name)' /\ page'.acts = page.acts
  BY <1>1 DEF FormOwn, FormPageOk, FormRows, FormFields, MaybeRow
<1> QED BY <1>1, <1>2 DEF FormOwn, FormCallsApart, FormCall

LEMMA CancelKeeps ==
  ASSUME NEW name, FormOwn(name), CancelForm
  PROVE  FormOwn(name)'
<1>1. page' = Unmounted(page) /\ calls' = calls /\ server' = server
  BY DEF CancelForm, Handles
<1>2. FormPageOk(name)' /\ FormRows(name)' /\ page'.acts = page.acts
  BY <1>1 DEF FormOwn, FormPageOk, FormRows, FormFields, MaybeRow, Unmounted
<1> QED BY <1>1, <1>2 DEF FormOwn, FormCallsApart, FormCall

LEMMA SendKeeps ==
  ASSUME NEW name, FormOwn(name), page.show, NEW kind \in {"save", "upload"}, NEW payload,
         SentFrom(name, kind, payload, page.opened, page.draft), Sends(kind, payload)
  PROVE  FormOwn(name)'
<1>0. PICK sent, n :
        /\ n = page.acts + 1
        /\ sent = [kind |-> kind, n |-> n, status |-> "pending", payload |-> payload,
                   opened |-> page.opened, draft |-> page.draft]
  OBVIOUS
<1>1. /\ page' = [page EXCEPT !.acts = n, !.submit = n]
      /\ calls' = calls \cup {sent} /\ server' = server
  BY <1>0 DEF Sends, Handles
<1>2. FormPageOk(name)' /\ FormRows(name)' /\ page'.acts = n /\ page.acts \in Nat
  BY <1>0, <1>1 DEF FormOwn, FormPageOk, FormRows, FormFields, MaybeRow
<1>3. FormCallFields \subseteq DOMAIN sent /\ sent.n = n
  BY <1>0 DEF FormCallFields
<1>4. /\ sent.kind = kind /\ sent.payload = payload
      /\ sent.opened = page.opened /\ sent.draft = page.draft
  BY <1>0
<1>5. FormCall(name, sent)'
  <2>1. DraftOk(name, sent.draft) /\ MaybeRow(name, sent.opened)
    BY <1>4 DEF FormOwn, FormPageOk
  <2>2. sent.opened # None => RowOk(name, server'.row)
    BY <1>1, <1>4 DEF FormOwn, FormRows
  <2> QED BY <1>0, <1>2, <1>3, <1>4, <2>1, <2>2 DEF FormCall
<1>6. \A c \in calls : FormCall(name, c)' /\ c.n # n
  BY <1>0, <1>1, <1>2 DEF FormOwn, FormCall
<1> QED BY <1>1, <1>2, <1>3, <1>5, <1>6 DEF FormOwn, FormCallsApart

LEMMA RelistKeeps ==
  ASSUME NEW name, FormOwn(name), NEW draft, draft = page.draft \/ DraftOk(name, draft),
         page' = [page EXCEPT !.listed = server.row, !.stale = FALSE, !.draft = draft],
         UNCHANGED <<server, calls>>
  PROVE  FormOwn(name)'
<1>1. FormPageOk(name)' /\ FormRows(name)' /\ page'.acts = page.acts
  BY DEF FormOwn, FormPageOk, FormRows, FormFields, MaybeRow
<1> QED BY <1>1 DEF FormOwn, FormCallsApart, FormCall

LEMMA SaveAnsweredKeeps ==
  ASSUME NEW name, FormOwn(name), NEW c \in calls, NEW p,
         p \in {page, [Unmounted(page) EXCEPT !.stale = TRUE], SubmitFailed(page, c.n)},
         Resumes(c, p, {})
  PROVE  FormOwn(name)'
<1>1. page' = p /\ calls' \subseteq calls /\ server' = server
  BY DEF Resumes
<1>2. FormPageOk(name)' /\ FormRows(name)' /\ page'.acts = page.acts
  BY <1>1
  DEF FormOwn, FormPageOk, FormRows, FormFields, MaybeRow, Unmounted, SubmitFailed
<1> QED BY <1>1, <1>2 DEF FormOwn, FormCallsApart, FormCall

(* A request answered, or followed by another of the same change.            *)
LEMMA ReplaceKeeps ==
  ASSUME NEW name, FormOwn(name), NEW c \in calls, NEW d, page' = page,
         calls' = (calls \ {c}) \cup {d}, "row" \in DOMAIN server',
         server'.row = server.row \/ RowOk(name, server'.row),
         FormCallFields \subseteq DOMAIN d, d.kind \in {"save", "upload"},
         d.n = c.n, d.opened = c.opened, d.draft = c.draft,
         SentFrom(name, d.kind, d.payload, d.opened, d.draft)
  PROVE  FormOwn(name)'
<1>1. FormPageOk(name)' /\ FormRows(name)'
  BY DEF FormOwn, FormPageOk, FormRows, MaybeRow
<1>2. \A e \in calls : FormCall(name, e)'
  BY DEF FormOwn, FormCall
<1>3. FormCall(name, d)'
  BY <1>2 DEF FormCall
<1>4. FormCallsApart'
  BY DEF FormOwn, FormCallsApart
<1> QED BY <1>1, <1>2, <1>3, <1>4 DEF FormOwn

LEMMA AnswerKeeps ==
  ASSUME NEW name, FormOwn(name), NEW c \in calls, NEW status, page' = page,
         Answers(c, status), "row" \in DOMAIN server',
         server'.row = server.row \/ RowOk(name, server'.row)
  PROVE  FormOwn(name)'
<1> DEFINE d == [c EXCEPT !.status = status]
<1>1. FormCall(name, c)
  BY DEF FormOwn
<1>2. /\ calls' = (calls \ {c}) \cup {d} /\ FormCallFields \subseteq DOMAIN d
      /\ d.kind = c.kind /\ d.n = c.n /\ d.opened = c.opened /\ d.draft = c.draft
      /\ d.payload = c.payload
  BY <1>1 DEF Answers, FormCall, FormCallFields
<1> HIDE DEF d
<1> QED BY <1>1, <1>2, ReplaceKeeps DEF FormCall

(* RouteForm. *)

LEMMA SetsKeeps ==
  ASSUME FormOwn("route form"), page.show, NEW field, NEW value, Sets(field, value),
         field = "tls" => value \in BOOLEAN
  PROVE  FormOwn("route form")'
<1>1. PICK draft : draft = [page.draft EXCEPT !.form[field] = value]
  OBVIOUS
<1>2. DraftOk("route form", page.draft)
  BY DEF FormOwn, FormPageOk
<1>3. /\ {"form", "mode"} \subseteq DOMAIN draft /\ DOMAIN draft.form = DOMAIN page.draft.form
      /\ draft.form.tls = IF field = "tls" THEN value ELSE page.draft.form.tls
  BY <1>1, <1>2 DEF DraftOk, NewRoute
<1>4. DraftOk("route form", draft)
  BY <1>2, <1>3 DEF DraftOk
<1> QED BY <1>1, <1>4, EditKeeps DEF Sets

LEMMA RouteClicks ==
  ASSUME FormOwn("route form"), RouteClick
  PROVE  FormOwn("route form")'
<1> USE SetsKeeps DEF MayEdit
<1>1. CASE OpenRouteForm
  <2>1. DraftOk("route form", RouteDraft(page.listed))
    <3>1. PICK form : form = IF page.listed = None THEN NewRoute ELSE page.listed
      OBVIOUS
    <3>2. DOMAIN form = DOMAIN NewRoute /\ form.tls \in BOOLEAN
      BY <3>1 DEF FormOwn, FormPageOk, MaybeRow, RowOk, NewRoute
    <3>3. PICK draft : draft = [form |-> form, mode |-> "system", uploaded |-> FALSE]
      OBVIOUS
    <3>4. RouteDraft(page.listed) = draft
      BY <3>1, <3>3 DEF RouteDraft
    <3>5. {"form", "mode"} \subseteq DOMAIN draft /\ draft.form = form
      BY <3>3
    <3>6. DraftOk("route form", draft)
      BY <3>2, <3>5 DEF DraftOk
    <3> QED BY <3>4, <3>6
  <2> QED BY <1>1, <2>1, OpenKeeps DEF OpenRouteForm
<1>2. CASE CancelRoute
  BY <1>2, CancelKeeps DEF CancelRoute
<1>3. CASE EditRouteInput
  BY ZenonT(60), <1>3 DEF EditRouteInput, IsStatic
<1>4. CASE EditPool
  BY <1>4 DEF EditPool
<1>5. CASE EditHeaders
  BY <1>5 DEF EditHeaders
<1>6. CASE EditNames
  BY <1>6 DEF EditNames
<1>7. CASE EditTLS
  <2>1. PICK mode, uploaded :
          /\ mode = [page.draft EXCEPT !.mode = IF @ = "system" THEN "upload" ELSE "system"]
          /\ uploaded = [page.draft EXCEPT !.uploaded = TRUE]
    OBVIOUS
  <2>2. page.show
    BY <1>7 DEF EditTLS
  <2>3. DraftOk("route form", mode) /\ DraftOk("route form", uploaded)
    BY <2>1, <2>2 DEF FormOwn, FormPageOk, DraftOk
  <2> QED BY <1>7, <2>1, <2>2, <2>3, EditKeeps DEF EditTLS
<1>8. CASE SubmitRouteForm
  <2>1. PICK kind, payload :
          /\ kind = IF page.draft.form.tls /\ page.draft.mode = "upload"
                    THEN "upload" ELSE "save"
          /\ payload = RoutePayload(page.draft.form)
    OBVIOUS
  <2>2. page.show /\ Sends(kind, payload)
    BY ZenonT(60), <1>8, <2>1 DEF SubmitRouteForm, MaySend, MaySubmit
  <2>3. kind # "upload" => payload = [payload EXCEPT !.certificate = @]
    BY <2>1 DEF RoutePayload, Restrict
  <2>4. SentFrom("route form", kind, payload, page.opened, page.draft)
    BY <2>1, <2>3 DEF SentFrom, Uploads
  <2> QED BY <2>1, <2>2, <2>4, SendKeeps
<1> QED BY <1>1, <1>2, <1>3, <1>4, <1>5, <1>6, <1>7, <1>8 DEF RouteClick

(* UserForm and GroupForm. *)

LEMMA ToggleKeepsPaths ==
  ASSUME NEW name \in {"user form", "group form"}, NEW draft, DraftOk(name, draft), NEW r
  PROVE  DraftOk(name, RouteToggled(draft, r))
BY DEF DraftOk, RowOk, PathsAssigned, RouteToggled, UserFields, GroupFields, Restrict

LEMMA AssignmentClicks ==
  ASSUME NEW name \in {"user form", "group form"}, page.name = name,
         FormOwn(name), AssignmentClick
  PROVE  FormOwn(name)'
<1> USE DEF MayEdit
<1>0. page.show => DraftOk(name, page.draft)
  BY DEF FormOwn, FormPageOk
<1>1. CASE OpenUserForm
  <2>1. DraftOk("user form", UserDraft(page.listed)) \/ name # "user form"
    BY DEF FormOwn, FormPageOk, MaybeRow, RowOk, DraftOk, UserDraft, NewUser, NoPaths,
       UserFields, PathsAssigned
  <2> QED BY <1>1, <2>1, OpenKeeps DEF OpenUserForm
<1>2. CASE OpenGroupForm
  <2>1. DraftOk("group form", GroupDraft(page.listed)) \/ name # "group form"
    BY DEF FormOwn, FormPageOk, MaybeRow, RowOk, DraftOk, GroupDraft, NewGroup, NoPaths,
       GroupFields, PathsAssigned
  <2> QED BY <1>2, <2>1, OpenKeeps DEF OpenGroupForm
<1>3. CASE CancelAssignment
  BY <1>3, CancelKeeps DEF CancelAssignment
<1>4. CASE ToggleRoute
  <2>1. PICK r : page.show /\ EditsTo(RouteToggled(page.draft, r))
    BY <1>4 DEF ToggleRoute, Assigning
  <2> QED BY <1>0, <2>1, ToggleKeepsPaths, EditKeeps
<1>5. CASE SetRoutePaths
  <2> DEFINE Edited(r, text) ==
        [page.draft EXCEPT !.paths =
           IF text = "" THEN Restrict(@, DOMAIN @ \ {r})
           ELSE [s \in DOMAIN @ \cup {r} |-> IF s = r THEN PathsTyped(text) ELSE @[s]]]
  <2>0. PICK r, text : r \in page.draft.routes /\ page.show /\ EditsTo(Edited(r, text))
    BY <1>5 DEF SetRoutePaths, Assigning
  <2>1. PICK draft : draft = Edited(r, text)
    OBVIOUS
  <2>2. DraftOk(name, draft)
    BY <1>0, <2>0, <2>1 DEF DraftOk, RowOk, PathsAssigned, UserFields, GroupFields, Restrict
  <2> QED BY <2>0, <2>1, <2>2, EditKeeps
<1>6. CASE EditUserInput \/ EditGroupName \/ ToggleGroup
  <2>1. PICK draft, value :
          /\ page.show /\ EditsTo(draft)
          /\ \/ draft = [page.draft EXCEPT !.name = value]
             \/ draft = [page.draft EXCEPT !.password = value]
             \/ draft = [page.draft EXCEPT !.role = value]
             \/ draft = [page.draft EXCEPT !.groups = value]
    BY <1>6 DEF EditUserInput, EditGroupName, ToggleGroup
  <2>2. DraftOk(name, draft)
    BY <1>0, <2>1 DEF DraftOk, RowOk, PathsAssigned, UserFields, GroupFields
  <2> QED BY <2>1, <2>2, EditKeeps
<1>7. CASE SubmitAssignment
  <2>1. page.show /\ Sends("save", page.draft)
    BY <1>7 DEF SubmitAssignment, MaySend, MaySubmit
  <2>2. SentFrom(name, "save", page.draft, page.opened, page.draft)
    BY DEF SentFrom
  <2> QED BY <2>1, <2>2, SendKeeps
<1> QED BY <1>1, <1>2, <1>3, <1>4, <1>5, <1>6, <1>7 DEF AssignmentClick

(* AuthRuleForm. *)

LEMMA RuleDraftOk ==
  ASSUME NEW row, MaybeRow("rule form", row), NEW route, NEW given
  PROVE  DraftOk("rule form", RuleDraft(row, route, given))
<1>1. PICK form : form = IF row = None THEN [NewRule EXCEPT !.route = route] ELSE row
  OBVIOUS
<1>2. DOMAIN form = DOMAIN NewRule /\ form.methods \in {"", "GET"}
  BY <1>1 DEF MaybeRow, RowOk, NewRule
<1>3. PICK shown :
        shown = [form EXCEPT !.header = IF @ = "" THEN "X-API-Key" ELSE @,
                             !.rateLimit = IF @ = "0" THEN "" ELSE @]
  OBVIOUS
<1>4. PICK draft : draft = [form |-> shown, given |-> given]
  OBVIOUS
<1>5. RuleDraft(row, route, given) = draft
  BY <1>1, <1>3, <1>4 DEF RuleDraft
<1>6. DOMAIN shown = DOMAIN NewRule /\ shown.methods = form.methods
  BY <1>2, <1>3 DEF NewRule
<1>7. "form" \in DOMAIN draft /\ draft.form = shown
  BY <1>4
<1>8. DraftOk("rule form", draft)
  BY <1>2, <1>6, <1>7 DEF DraftOk
<1> QED BY <1>5, <1>8

LEMMA SetRuleKeeps ==
  ASSUME FormOwn("rule form"), page.show, NEW field, NEW value, SetRule(field, value),
         field = "methods" => value \in {"", "get", "(x)"}
  PROVE  FormOwn("rule form")'
<1>1. PICK draft : draft = [page.draft EXCEPT !.form[field] = value]
  OBVIOUS
<1>2. DraftOk("rule form", page.draft)
  BY DEF FormOwn, FormPageOk
<1>3. /\ "form" \in DOMAIN draft /\ DOMAIN draft.form = DOMAIN page.draft.form
      /\ draft.form.methods = IF field = "methods" THEN value ELSE page.draft.form.methods
  BY <1>1, <1>2 DEF DraftOk, NewRule
<1>4. DraftOk("rule form", draft)
  BY <1>2, <1>3 DEF DraftOk
<1> QED BY <1>1, <1>4, EditKeeps DEF SetRule

LEMMA RuleClicks ==
  ASSUME FormOwn("rule form"), RuleClick
  PROVE  FormOwn("rule form")'
<1> USE SetRuleKeeps DEF MayEdit
<1>1. CASE OpenRuleForm
  <2>1. \A given : DraftOk("rule form", RuleDraft(page.listed, "first", given))
    BY RuleDraftOk DEF FormOwn, FormPageOk
  <2> QED BY <1>1, <2>1, OpenKeeps DEF OpenRuleForm
<1>2. CASE RulesRelisted
  <2>1. PICK first : LET reset == /\ page.show /\ page.opened = None
                                  /\ ~page.draft.given /\ first # "first"
                     IN page' = [page EXCEPT !.listed = server.row, !.stale = FALSE,
                                   !.draft = IF reset THEN RuleDraft(None, first, FALSE)
                                             ELSE @]
    BY <1>2 DEF RulesRelisted
  <2>2. PICK draft :
          /\ draft = page.draft \/ draft = RuleDraft(None, first, FALSE)
          /\ page' = [page EXCEPT !.listed = server.row, !.stale = FALSE, !.draft = draft]
    BY <2>1
  <2>3. draft = page.draft \/ DraftOk("rule form", draft)
    BY <2>2, RuleDraftOk DEF MaybeRow
  <2> QED BY <1>2, <2>2, <2>3, RelistKeeps DEF RulesRelisted
<1>3. CASE CancelRule
  BY <1>3, CancelKeeps DEF CancelRule
<1>4. CASE EditRuleInput
  BY <1>4 DEF EditRuleInput
<1>5. CASE EditRulePolicy
  BY <1>5 DEF EditRulePolicy
<1>6. CASE SubmitRuleForm
  <2>1. PICK payload :
          payload = RulePayload(page.draft.form, InitialRule(page.opened, page.draft.form))
    OBVIOUS
  <2>2. page.show /\ Sends("save", payload) /\ ChecksRule(page.draft.form)
    BY <1>6, <2>1 DEF SubmitRuleForm, MaySend, MaySubmit
  <2>3. SentFrom("rule form", "save", payload, page.opened, page.draft)
    BY <2>1, <2>2 DEF SentFrom
  <2> QED BY <2>2, <2>3, SendKeeps
<1> QED BY <1>1, <1>2, <1>3, <1>4, <1>5, <1>6 DEF RuleClick

(* CertificateForm. *)

LEMMA CertificateClicks ==
  ASSUME FormOwn("certificate form"), CertificateClick
  PROVE  FormOwn("certificate form")'
<1>1. CASE OpenCertificateForm
  <2>1. DraftOk("certificate form", NewCertificate)
    BY DEF DraftOk, NewCertificate
  <2> QED BY <1>1, <2>1, OpenKeeps DEF OpenCertificateForm
<1>2. CASE EditCertificate
  <2>1. page.show /\ DraftOk("certificate form", page.draft)
    BY <1>2 DEF FormOwn, FormPageOk, EditCertificate, MayEdit
  <2>2. ASSUME NEW mode \in {"local_ca", "imported"}, NEW domain,
               EditsTo([page.draft EXCEPT !.mode = mode, !.domain = domain])
        PROVE  FormOwn("certificate form")'
    <3>1. DraftOk("certificate form", [page.draft EXCEPT !.mode = mode, !.domain = domain])
      BY <2>1 DEF DraftOk, NewCertificate
    <3> QED BY <2>2, <3>1, EditKeeps
  <2>3. ASSUME NEW days, NEW subject,
               EditsTo([page.draft EXCEPT !.days = days, !.subject = subject])
        PROVE  FormOwn("certificate form")'
    <3>1. DraftOk("certificate form", [page.draft EXCEPT !.days = days, !.subject = subject])
      BY <2>1 DEF DraftOk, NewCertificate
    <3> QED BY <2>3, <3>1, EditKeeps
  <2>4. ASSUME NEW cert, NEW key,
               EditsTo([page.draft EXCEPT !.certPem = cert, !.keyPem = key])
        PROVE  FormOwn("certificate form")'
    <3>1. DraftOk("certificate form", [page.draft EXCEPT !.certPem = cert, !.keyPem = key])
      BY <2>1 DEF DraftOk, NewCertificate
    <3> QED BY <2>4, <3>1, EditKeeps
  <2> QED BY <1>2, <2>2, <2>3, <2>4 DEF EditCertificate
<1>3. CASE CancelCertificate
  BY <1>3, CancelKeeps DEF CancelCertificate
<1>4. CASE SubmitCertificateForm
  <2>1. page.show /\ Sends("save", CertificatePayload(page.draft))
    BY <1>4 DEF SubmitCertificateForm, MaySend, MaySubmit
  <2>2. SentFrom("certificate form", "save", CertificatePayload(page.draft), page.opened,
                 page.draft)
    BY DEF SentFrom
  <2> QED BY <2>1, <2>2, SendKeeps
<1> QED BY <1>1, <1>2, <1>3, <1>4 DEF CertificateClick

(* The server, and the answers. *)

(* What the server makes of a save is a row of the form's kind.              *)
LEMMA SavedRowOk ==
  ASSUME OnForm, FormOwn(page.name), NEW c \in calls, c.kind = "save", NEW row \in SavedRows(c)
  PROVE  RowOk(page.name, row)
<1> DEFINE name == page.name
<1>0. /\ FormCall(name, c)
      /\ c.opened # None => RowOk(name, server.row)
  BY DEF FormOwn, FormCall
<1>1. CASE name = "user form"
  <2>1. PICK old, new :
          /\ old = IF c.opened = None THEN NewUser ELSE server.row
          /\ new = [c.payload EXCEPT !.name = Trimmed(@),
                      !.password = IF Trimmed(@) = "" THEN old.password ELSE @]
    OBVIOUS
  <2>2. row = Merged(old, new)
    BY <1>1, <2>1 DEF SavedRows, SavedUsers
  <2>3. DOMAIN old = UserFields
    BY <1>0, <1>1, <2>1 DEF NewUser, UserFields, RowOk
  <2>4. DOMAIN c.payload = UserFields /\ PathsAssigned(c.payload)
    BY <1>0, <1>1 DEF FormCall, SentFrom, DraftOk, RowOk
  <2>5. DOMAIN new = UserFields /\ new.paths = c.payload.paths /\ new.routes = c.payload.routes
    BY <2>1, <2>4 DEF UserFields
  <2>6. DOMAIN row = UserFields /\ row.paths = new.paths /\ row.routes = new.routes
    BY <2>2, <2>3, <2>5 DEF Merged, UserFields
  <2> QED BY <1>1, <2>4, <2>5, <2>6 DEF RowOk, PathsAssigned
<1>2. CASE name = "group form"
  <2>1. PICK old, new :
          /\ old = IF c.opened = None THEN NewGroup ELSE server.row
          /\ new = [c.payload EXCEPT !.name = Trimmed(@)]
    OBVIOUS
  <2>2. row = Merged(old, new)
    BY <1>2, <2>1 DEF SavedRows, SavedGroups
  <2>3. DOMAIN old = GroupFields
    BY <1>0, <1>2, <2>1 DEF NewGroup, GroupFields, RowOk
  <2>4. DOMAIN c.payload = GroupFields /\ PathsAssigned(c.payload)
    BY <1>0, <1>2 DEF FormCall, SentFrom, DraftOk, RowOk
  <2>5. DOMAIN new = GroupFields /\ new.paths = c.payload.paths /\ new.routes = c.payload.routes
    BY <2>1, <2>4 DEF GroupFields
  <2>6. DOMAIN row = GroupFields /\ row.paths = new.paths /\ row.routes = new.routes
    BY <2>2, <2>3, <2>5 DEF Merged, GroupFields
  <2> QED BY <1>2, <2>4, <2>5, <2>6 DEF RowOk, PathsAssigned
<1>3. CASE name = "route form"
  <2>1. PICK old : old = IF c.opened = None THEN NewRoute ELSE server.row
    OBVIOUS
  <2>2. row = ResolveCertificate(Merged(old, c.payload))
    BY <1>3, <2>1 DEF SavedRows, SavedRoutes
  <2>3. DOMAIN old = DOMAIN NewRoute
    BY <1>0, <1>3, <2>1 DEF RowOk
  <2>4. DraftOk("route form", c.draft) /\ SentFrom("route form", "save", c.payload, c.opened, c.draft)
    BY <1>0, <1>3 DEF FormCall
  <2>5. old.tls \in BOOLEAN
    BY <1>0, <1>3, <2>1 DEF RowOk, NewRoute
  <2>6. "tls" \in DOMAIN c.payload => c.payload.tls \in BOOLEAN
    <3>1. PICK form, cleaned, empty :
            /\ form = c.draft.form
            /\ cleaned = [form EXCEPT !.backend = Trimmed(@), !.root = Trimmed(@),
                            !.timeout = Integer(@), !.pool = CleanPool(@),
                            !.headers = CleanHeaders(@), !.names = CleanNames(@)]
            /\ empty = {g \in {"headers", "names"} : DOMAIN cleaned[g] = {}}
      OBVIOUS
    <3>2. PICK sent : sent = Restrict(cleaned, DOMAIN cleaned \ empty)
      BY SMTT(30)
    <3>3. RoutePayload(form) = sent
      BY <3>1, <3>2 DEF RoutePayload
    <3>4. cleaned.tls \in BOOLEAN
      BY <2>4, <3>1 DEF DraftOk, NewRoute
    <3>5. "tls" \in DOMAIN sent => sent.tls \in BOOLEAN
      BY <3>2, <3>4 DEF Restrict
    <3>6. c.payload = [sent EXCEPT !.certificate = IF Uploads(c.draft) THEN "c2" ELSE @]
      BY <2>4, <3>1, <3>3 DEF SentFrom
    <3> QED BY <3>5, <3>6
  <2>7. PICK merged : merged = Merged(old, c.payload)
    OBVIOUS
  <2>8. DOMAIN merged = DOMAIN NewRoute /\ merged.tls \in BOOLEAN
    BY <2>3, <2>5, <2>6, <2>7 DEF Merged, NewRoute
  <2>9. DOMAIN row = DOMAIN NewRoute /\ row.tls \in BOOLEAN
    BY <2>2, <2>7, <2>8 DEF ResolveCertificate, NewRoute
  <2> QED BY <1>3, <2>9 DEF RowOk
<1>4. CASE name = "rule form"
  <2>1. PICK old, base, form :
          /\ old = IF c.opened = None THEN NewRule ELSE server.row
          /\ base = IF c.payload.type = old.type THEN old ELSE [old EXCEPT !.header = ""]
          /\ form = c.draft.form
    OBVIOUS
  <2>2. row = Merged(base, c.payload)
    BY <1>4, <2>1 DEF SavedRows, SavedRules
  <2>3. RowOk("rule form", old)
    BY <1>0, <1>4, <2>1 DEF RowOk, NewRule
  <2>4. DOMAIN base = DOMAIN NewRule /\ base.rateLimit # "" /\ base.methods \in {"", "GET"}
    BY <2>1, <2>3 DEF RowOk, NewRule
  <2>5. /\ DOMAIN form = DOMAIN NewRule /\ form.methods \in {"", "get", "GET"}
        /\ c.payload = RulePayload(form, InitialRule(c.opened, form))
    BY <1>0, <1>4, <2>1 DEF FormCall, SentFrom, DraftOk, ChecksRule
  <2>6. PICK full :
          full = [form EXCEPT
                   !.rateLimit = IF @ = "" THEN "0" ELSE @, !.methods = Methods(@),
                   !.header = IF @ = "" THEN "X-API-Key" ELSE @]
    OBVIOUS
  <2>7. full.rateLimit # "" /\ full.methods \in {"", "GET"}
    BY <2>5, <2>6 DEF Methods, NewRule
  <2>8. \A f \in DOMAIN c.payload : c.payload[f] = full[f]
    BY <2>5, <2>6 DEF RulePayload, Restrict
  <2>9. /\ DOMAIN row = DOMAIN NewRule
        /\ row.rateLimit \in {full.rateLimit, base.rateLimit}
        /\ row.methods \in {full.methods, base.methods}
    BY <2>2, <2>4, <2>8 DEF Merged, NewRule
  <2> QED BY <1>4, <2>4, <2>7, <2>9 DEF RowOk
<1>5. CASE name = "certificate form"
  BY <1>5 DEF RowOk
<1> QED BY <1>1, <1>2, <1>3, <1>4, <1>5 DEF OnForm, FormNames

LEMMA FormServed ==
  ASSUME OnForm, FormOwn(page.name), NEW c \in calls, ServeForm(c), page'.name = page.name
  PROVE  FormOwn(page.name)'
<1>0. PICK name : name = page.name
  OBVIOUS
<1>1. page' = page /\ "row" \in DOMAIN server /\ FormCall(name, c) /\ FormOwn(name)
  BY <1>0 DEF ServeForm, ServeChange, ServeSave, FormOwn, FormRows
<1>2. \E status : Answers(c, status)
  BY DEF ServeForm, ServeChange, ServeSave
<1>3. "row" \in DOMAIN server' /\ (server'.row = server.row \/ RowOk(name, server'.row))
  <2>1. CASE ServeChange(c)
    <3>1. c.kind = "upload"
      BY <1>1, <2>1 DEF ServeChange, FormCall
    <3>2. server' = server \/ server' = [server EXCEPT !.taken = TRUE]
      BY <2>1, <3>1 DEF ServeChange, Effects
    <3> QED BY <1>1, <3>2
  <2>2. CASE ServeSave(c, SavedRows(c))
    <3>1. CASE server' = server
      BY <1>1, <3>1
    <3>2. CASE server' # server
      <4>1. PICK row \in SavedRows(c) : server' = [server EXCEPT !.row = row]
        BY <2>2, <3>2 DEF ServeSave
      <4>2. RowOk(name, row)
        BY <1>0, <2>2, SavedRowOk DEF ServeSave
      <4> QED BY <1>1, <4>1, <4>2
    <3> QED BY <3>1, <3>2
  <2> QED BY <2>1, <2>2 DEF ServeForm
<1>4. FormOwn(name)'
  BY <1>1, <1>2, <1>3, AnswerKeeps
<1> QED BY <1>0, <1>4

LEMMA FormAnswers ==
  ASSUME OnForm, FormOwn(page.name), NEW c \in calls, FormAnswered(c), page'.name = page.name
  PROVE  FormOwn(page.name)'
<1>0. PICK name : name = page.name
  OBVIOUS
<1>1. FormOwn(name) /\ FormCall(name, c)
  BY <1>0 DEF FormOwn
<1>2. CASE UploadAnswered(c) /\ Ok(c)
  <2>1. PICK d : d = [c EXCEPT !.kind = "save", !.status = "pending",
                               !.payload.certificate = "c2"]
    OBVIOUS
  <2>2. /\ name = "route form" /\ c.kind = "upload"
        /\ page' = page /\ server' = server /\ calls' = (calls \ {c}) \cup {d}
    BY <1>0, <1>2, <2>1 DEF UploadAnswered, Answered, Resumes
  <2>3. /\ FormCallFields \subseteq DOMAIN d /\ d.kind = "save"
        /\ d.n = c.n /\ d.opened = c.opened /\ d.draft = c.draft
        /\ d.payload = [c.payload EXCEPT !.certificate = "c2"]
    BY <1>1, <2>1 DEF FormCall, FormCallFields
  <2>4. SentFrom(name, d.kind, d.payload, d.opened, d.draft)
    BY ZenonT(60), <1>1, <2>2, <2>3 DEF FormCall, SentFrom
  <2>5. "row" \in DOMAIN server
    BY <1>1 DEF FormOwn, FormRows
  <2>6. FormOwn(name)'
    BY <1>1, <2>2, <2>3, <2>4, <2>5, ReplaceKeeps
  <2> QED BY <1>0, <2>6
<1>3. CASE ~(UploadAnswered(c) /\ Ok(c))
  <2>1. \/ Resumes(c, [Unmounted(page) EXCEPT !.stale = TRUE], {})
        \/ Resumes(c, SubmitFailed(page, c.n), {})
    BY <1>3 DEF FormAnswered, RouteFormAnswered, UploadAnswered, AssignmentAnswered,
       RuleFormAnswered, CertificateFormAnswered, SaveAnswered
  <2>2. FormOwn(name)'
    BY <1>1, <2>1, SaveAnsweredKeeps
  <2> QED BY <1>0, <2>2
<1> QED BY <1>2, <1>3

LEMMA OnForms ==
  ASSUME OnForm, Next
  PROVE  FormClick \/ \E c \in calls : ServeForm(c) \/ FormAnswered(c)
BY DEF Hosts, Next, Click, Served, Resume, OnDirectory, Names, OnForm, FormNames, Auth, Logs

LEMMA FormClicks ==
  ASSUME OnForm, FormOwn(page.name), FormClick, page'.name = page.name
  PROVE  FormOwn(page.name)'
<1>0. PICK name : name = page.name
  OBVIOUS
<1>1. CASE RouteClick
  <2>1. name = "route form"
    BY <1>0, <1>1 DEF RouteClick, OpenRouteForm, CancelRoute, EditRouteInput, EditPool, EditHeaders,
       EditNames, EditTLS, SubmitRouteForm, MayEdit
  <2> QED BY <1>0, <1>1, <2>1, RouteClicks
<1>2. CASE AssignmentClick
  <2>1. name \in {"user form", "group form"}
    BY <1>0, <1>2 DEF AssignmentClick, OpenUserForm, OpenGroupForm, CancelAssignment, ToggleRoute,
       SetRoutePaths, EditUserInput, ToggleGroup, EditGroupName, SubmitAssignment, Assigning,
       MayEdit
  <2>2. FormOwn(name)'
    BY <1>0, <1>2, <2>1, AssignmentClicks
  <2> QED BY <1>0, <2>2
<1>3. CASE RuleClick
  <2>1. name = "rule form"
    BY <1>0, <1>3 DEF RuleClick, OpenRuleForm, RulesRelisted, CancelRule, EditRuleInput,
       EditRulePolicy, SubmitRuleForm, MayEdit
  <2> QED BY <1>0, <1>3, <2>1, RuleClicks
<1>4. CASE CertificateClick
  <2>1. name = "certificate form"
    BY <1>0, <1>4 DEF CertificateClick, OpenCertificateForm, EditCertificate, CancelCertificate,
       SubmitCertificateForm, MayEdit
  <2> QED BY <1>0, <1>4, <2>1, CertificateClicks
<1>5. CASE Relisted
  <2>1. page' = [page EXCEPT !.listed = server.row, !.stale = FALSE, !.draft = page.draft]
    BY <1>0, <1>5 DEF Relisted, FormOwn, FormPageOk, FormFields
  <2>2. FormOwn(name)'
    BY <1>0, <1>5, <2>1, RelistKeeps DEF Relisted
  <2> QED BY <1>0, <2>2
<1> QED BY <1>1, <1>2, <1>3, <1>4, <1>5 DEF FormClick

LEMMA FormKept ==
  ASSUME Named, FormInv, [Next]_vars
  PROVE  Named' /\ FormInv'
<1>1. Named' /\ page'.name = page.name /\ (OnForm' <=> OnForm)
  BY NameStays DEF OnForm
<1>2. CASE ~OnForm
  BY <1>1, <1>2 DEF FormInv
<1>3. CASE OnForm /\ Next
  <2>1. FormOwn(page.name)'
    BY <1>1, <1>3, OnForms, FormClicks, FormServed, FormAnswers DEF FormInv
  <2> QED BY <1>1, <2>1 DEF FormInv
<1>4. CASE UNCHANGED vars
  BY <1>1, <1>4 DEF vars, FormInv, FormOwn, FormPageOk, FormRows, FormCallsApart, FormCall
<1> QED BY <1>2, <1>3, <1>4

LEMMA InitForm == Init => FormInv
<1> SUFFICES ASSUME Init, OnForm
             PROVE  FormOwn(page.name)
  BY DEF FormInv
<1>1. PICK name \in Pages, can \in BOOLEAN :
        page = Mounted(name, can, server) /\ server \in ServersOf(name)
  BY DEF Init
<1>2. name = page.name /\ name \in FormNames
  BY <1>1, MountedNamed DEF OnForm
<1>3. name \notin Names /\ name \notin {"auth", "hosts", "logs"}
  BY <1>2 DEF FormNames, Names
<1>4. PICK row \in FirstRows(name) : server = FormServer(row)
  BY <1>1, <1>2, <1>3 DEF ServersOf, FormServers
<1>5. page = FormPage(name, row, InitialRows)
  BY <1>1, <1>2, <1>3, <1>4 DEF Mounted, FormMounted, FormServer
<1>6. calls = {}
  BY <1>2, <1>3, <1>5 DEF Init, FirstCalls, FormPage
<1>7. MaybeRow(name, row)
  <2>1. CASE name = "route form"
    <3>1. row \in {None, PooledRoute, SecuredRoute}
      BY <1>4, <2>1 DEF FirstRows, RouteFormRows
    <3>2. DOMAIN PooledRoute = DOMAIN NewRoute /\ PooledRoute.tls = FALSE
      BY DEF PooledRoute, NewRoute
    <3>3. DOMAIN SecuredRoute = DOMAIN NewRoute /\ SecuredRoute.tls = TRUE
      BY <3>2 DEF SecuredRoute, NewRoute
    <3> QED BY <2>1, <3>1, <3>2, <3>3 DEF MaybeRow, RowOk
  <2>2. CASE name = "rule form"
    <3>1. row \in {None, LimitedRule}
      BY <1>4, <2>2 DEF FirstRows
    <3>2. DOMAIN LimitedRule = DOMAIN NewRule
      BY DEF LimitedRule
    <3>3. LimitedRule.rateLimit = "5" /\ LimitedRule.methods = "GET"
      BY DEF LimitedRule, NewRule
    <3> QED BY <2>2, <3>1, <3>2, <3>3 DEF MaybeRow, RowOk
  <2>3. CASE name = "user form"
    <3>1. row \in {None, AssignedUser}
      BY <1>4, <2>3 DEF FirstRows
    <3>2. DOMAIN AssignedUser = UserFields
      BY DEF AssignedUser, UserFields
    <3>3. DOMAIN AssignedUser.paths = InitialRows /\ AssignedUser.routes = InitialRows
      BY DEF AssignedUser, AssignedGroup
    <3> QED BY <2>3, <3>1, <3>2, <3>3 DEF MaybeRow, RowOk, PathsAssigned
  <2>4. CASE name = "group form"
    <3>1. row \in {None, AssignedGroup}
      BY <1>4, <2>4 DEF FirstRows
    <3>2. DOMAIN AssignedGroup = GroupFields /\ PathsAssigned(AssignedGroup)
      BY DEF AssignedGroup, GroupFields, PathsAssigned
    <3> QED BY <2>4, <3>1, <3>2 DEF MaybeRow, RowOk
  <2>5. CASE name = "certificate form"
    BY <1>4, <2>5 DEF MaybeRow, RowOk
  <2> QED BY <1>2, <2>1, <2>2, <2>3, <2>4, <2>5 DEF FormNames
<1>8. FormPageOk(name) /\ FormRows(name)
  BY <1>4, <1>5, <1>7 DEF FormPageOk, FormFields, FormRows, FormPage, FormServer, MaybeRow
<1> QED BY <1>2, <1>6, <1>8 DEF FormOwn, FormCallsApart

(* No user or group keeps the paths of a route taken away, through edits,    *)
(* saves answered late and forms opened again (UserForm.tsx toggleRoute).    *)
THEOREM PathsFollowRoutes == Spec => []PathsOfAssigned
<1>1. FormInv => PathsOfAssigned
  <2> SUFFICES ASSUME FormInv, page.name \in {"user form", "group form"},
                      NEW row \in {server.row, page.draft}, row # None
               PROVE  DOMAIN row.paths \subseteq row.routes
    BY DEF PathsOfAssigned
  <2>1. FormOwn(page.name)
    BY DEF FormInv, OnForm, FormNames
  <2>2. row = server.row \/ DraftOk(page.name, row)
    BY <2>1 DEF FormOwn, FormPageOk
  <2>3. RowOk(page.name, row)
    BY <2>1, <2>2 DEF FormOwn, FormRows, MaybeRow, DraftOk
  <2> QED BY <2>3 DEF RowOk, PathsAssigned
<1> QED BY <1>1, InitNamed, InitForm, FormKept, PTL DEF Spec

(* A save accepted is the server's answer to it: no other request has its    *)
(* number.                                                                   *)
LEMMA AcceptedIsServed ==
  ASSUME OnForm, FormOwn(page.name), Next, NEW c \in calls, Accepts(c)
  PROVE  \E row \in SavedRows(c) : server' = [server EXCEPT !.row = row]
<1> DEFINE ok == [c EXCEPT !.status = "ok"]
<1>1. PICK kept : kept = ok
  OBVIOUS
<1>2. /\ \A d \in calls : FormCallFields \subseteq DOMAIN d /\ d.n \in 1..page.acts
      /\ page.acts \in Nat /\ \A d, e \in calls : d.n = e.n => d = e
  BY DEF FormOwn, FormCall, FormCallsApart, FormPageOk
<1>3. kept \in calls' /\ kept.n = c.n /\ kept.status = "ok" /\ kept.kind = "save"
  BY <1>1, <1>2 DEF Accepts, FormCallFields
<1>4. c.status = "pending" /\ c.kind = "save"
  BY DEF Accepts
<1>5. kept \notin calls
  BY <1>2, <1>3, <1>4
<1> HIDE DEF ok
<1>6. CASE FormClick
  <2>1. \A d \in calls' : d \in calls \/ d.n = page.acts + 1
    <3>1. ASSUME NEW kind, NEW payload, Sends(kind, payload)
          PROVE  \A d \in calls' : d \in calls \/ d.n = page.acts + 1
      BY <3>1 DEF Sends, Handles
    <3>2. \/ calls' = calls
          \/ \E kind, payload : Sends(kind, payload)
      <4> USE DEF Handles, EditsTo, OpensDraft, CancelForm
      <4>1. CASE RouteClick
        <5>1. CASE SubmitRouteForm
          BY <5>1 DEF SubmitRouteForm
        <5> QED BY ZenonT(60), <4>1, <5>1 DEF RouteClick, OpenRouteForm, CancelRoute,
           EditRouteInput, EditPool, EditHeaders, EditNames, EditTLS, Sets
      <4>2. CASE AssignmentClick
        <5>1. CASE SubmitAssignment
          BY <5>1 DEF SubmitAssignment
        <5> QED BY <4>2, <5>1 DEF AssignmentClick, OpenUserForm, OpenGroupForm, CancelAssignment,
                 ToggleRoute, SetRoutePaths, EditUserInput, ToggleGroup, EditGroupName
      <4>3. CASE RuleClick
        <5>1. CASE SubmitRuleForm
          BY <5>1 DEF SubmitRuleForm
        <5> QED BY <4>3, <5>1 DEF RuleClick, OpenRuleForm, RulesRelisted, CancelRule, EditRuleInput,
                 EditRulePolicy, SetRule
      <4>4. CASE CertificateClick
        <5>1. CASE SubmitCertificateForm
          BY <5>1 DEF SubmitCertificateForm
        <5> QED BY <4>4, <5>1 DEF CertificateClick, OpenCertificateForm, EditCertificate,
                 CancelCertificate
      <4>5. CASE Relisted
        BY <4>5 DEF Relisted
      <4> QED BY ZenonT(60), <1>6, <4>1, <4>2, <4>3, <4>4, <4>5 DEF FormClick
    <3> QED BY <3>1, <3>2
  <2> QED BY <1>2, <1>3, <1>5, <2>1
<1>7. ASSUME NEW d \in calls, FormAnswered(d)
      PROVE  FALSE
  <2>1. CASE UploadAnswered(d) /\ Ok(d)
    <3>1. PICK e : e = [d EXCEPT !.kind = "save", !.status = "pending",
                                 !.payload.certificate = "c2"]
      OBVIOUS
    <3>2. calls' = (calls \ {d}) \cup {e}
      BY <2>1, <3>1 DEF UploadAnswered, Resumes
    <3>3. e.status = "pending"
      BY <1>2, <3>1 DEF FormCallFields
    <3> QED BY <1>3, <1>5, <3>2, <3>3
  <2>2. CASE ~(UploadAnswered(d) /\ Ok(d))
    <3>1. calls' \subseteq calls
      BY <1>7, <2>2 DEF FormAnswered, RouteFormAnswered, UploadAnswered, AssignmentAnswered,
         RuleFormAnswered, CertificateFormAnswered, SaveAnswered, Resumes
    <3> QED BY <1>3, <1>5, <3>1
  <2> QED BY <2>1, <2>2
<1>8. ASSUME NEW d \in calls, ServeForm(d)
      PROVE  \E row \in SavedRows(c) : server' = [server EXCEPT !.row = row]
  <2>1. PICK status : Answers(d, status)
    BY <1>8 DEF ServeForm, ServeChange, ServeSave
  <2>2. PICK e : e = [d EXCEPT !.status = status]
    OBVIOUS
  <2>3. calls' = (calls \ {d}) \cup {e} /\ e.n = d.n /\ e.status = status
    BY <1>2, <2>1, <2>2 DEF Answers, FormCallFields
  <2>4. kept = e
    BY <1>3, <1>5, <2>3
  <2>5. d = c /\ status = "ok"
    BY <1>2, <1>3, <2>3, <2>4
  <2>6. ServeSave(c, SavedRows(c))
    BY <1>4, <1>8, <2>5 DEF ServeForm, ServeChange
  <2>7. ~Answers(c, "failed")
    <3>1. PICK f : f = [c EXCEPT !.status = "failed"]
      OBVIOUS
    <3>2. f.status = "failed"
      BY <1>2, <3>1 DEF FormCallFields
    <3>3. Answers(c, "failed") => kept = f
      BY <1>3, <1>5, <3>1 DEF Answers
    <3> QED BY <1>3, <3>2, <3>3
  <2> QED BY <2>6, <2>7 DEF ServeSave
<1> QED BY <1>6, <1>7, <1>8, OnForms

(* What is stored of a save accepted is what its form showed.                *)
LEMMA RouteAsShown ==
  ASSUME NEW c, FormCall("route form", c), page.name = "route form", c.kind = "save",
         c.opened \in {None, server.row}, NEW row \in SavedRows(c),
         NEW f \in RouteFieldsShown(c)
  PROVE  f \in DOMAIN row /\ row[f] = RouteShown(c, f)
<1>1. PICK old, form, up :
        /\ old = IF c.opened = None THEN NewRoute ELSE server.row
        /\ form = c.draft.form /\ up = Uploads(c.draft)
  OBVIOUS
<1>2. PICK merged : merged = Merged(old, c.payload) /\ row = ResolveCertificate(merged)
  BY <1>1 DEF SavedRows, SavedRoutes
<1>0. PICK payload : payload = RoutePayload(form)
  OBVIOUS
<1>3. /\ DOMAIN form = DOMAIN NewRoute /\ DOMAIN old = DOMAIN NewRoute
      /\ c.payload = [payload EXCEPT !.certificate = IF up THEN "c2" ELSE @]
      /\ form.tls \in BOOLEAN
  BY <1>0, <1>1 DEF FormCall, DraftOk, RowOk, SentFrom
<1>4. PICK cleaned, empty :
        /\ cleaned = [form EXCEPT !.backend = Trimmed(@), !.root = Trimmed(@),
                        !.timeout = Integer(@), !.pool = CleanPool(@),
                        !.headers = CleanHeaders(@), !.names = CleanNames(@)]
        /\ empty = {g \in {"headers", "names"} : DOMAIN cleaned[g] = {}}
  OBVIOUS
<1>5. payload = Restrict(cleaned, DOMAIN cleaned \ empty)
  BY <1>0, <1>4 DEF RoutePayload
<1>6. /\ DOMAIN cleaned = DOMAIN NewRoute /\ DOMAIN c.payload = DOMAIN cleaned \ empty
      /\ \A g \in DOMAIN c.payload :
           c.payload[g] = IF g = "certificate" /\ up THEN "c2" ELSE cleaned[g]
  <2>1. DOMAIN cleaned = DOMAIN NewRoute
    BY <1>3, <1>4
  <2>2. DOMAIN payload = DOMAIN cleaned \ empty /\ \A g \in DOMAIN payload : payload[g] = cleaned[g]
    BY <1>5 DEF Restrict
  <2> QED BY ZenonT(60), <1>3, <2>1, <2>2
<1>7. /\ cleaned.backend = Trimmed(form.backend) /\ cleaned.root = Trimmed(form.root)
      /\ cleaned.timeout = Integer(form.timeout) /\ cleaned.pool = CleanPool(form.pool)
      /\ cleaned.headers = CleanHeaders(form.headers) /\ cleaned.names = CleanNames(form.names)
      /\ \A g \in DOMAIN NewRoute \ {"backend", "root", "timeout", "pool", "headers", "names"} :
           cleaned[g] = form[g]
  BY <1>3, <1>4 DEF NewRoute
<1>8. /\ f \in DOMAIN NewRoute /\ f # "path" /\ f \in DOMAIN c.payload
      /\ f = "tls" => form.tls \/ form.certificate = ""
  BY <1>1, <1>4, <1>6, <1>7 DEF RouteFieldsShown, RouteShown
<1>9. f \in DOMAIN row /\ merged[f] = c.payload[f]
  BY <1>2, <1>3, <1>8 DEF Merged, ResolveCertificate
<1>10. f # "tls" => row[f] = c.payload[f]
  BY <1>2, <1>8, <1>9 DEF ResolveCertificate
<1>11. {"tls", "certificate"} \subseteq DOMAIN c.payload
  BY <1>4, <1>6 DEF NewRoute
<1>12. /\ merged.certificate = IF up THEN "c2" ELSE form.certificate
       /\ merged.tls = form.tls
  BY <1>2, <1>3, <1>6, <1>7, <1>11 DEF Merged, NewRoute
<1>13. CASE f = "tls"
  <2>1. RouteShown(c, f) = form.tls /\ (up => form.tls)
    BY <1>1, <1>13 DEF RouteShown, Uploads
  <2>2. row.tls = (merged.tls \/ merged.certificate # "")
    BY <1>2, <1>3, <1>9, <1>12, <1>13 DEF ResolveCertificate
  <2> QED BY <1>3, <1>8, <1>9, <1>12, <1>13, <2>1, <2>2
<1>14. CASE f = "certificate"
  BY <1>1, <1>6, <1>7, <1>8, <1>9, <1>10, <1>14 DEF RouteShown, Uploads
<1>15. CASE f \notin {"tls", "certificate"}
  BY ZenonT(60), <1>1, <1>6, <1>7, <1>8, <1>9, <1>10, <1>15 DEF RouteShown, Integer
<1> QED BY <1>13, <1>14, <1>15

LEMMA RuleAsShown ==
  ASSUME NEW c, FormCall("rule form", c), page.name = "rule form",
         c.opened \in {None, server.row}, NEW row \in SavedRows(c),
         NEW f \in RuleFieldsShown(c)
  PROVE  f \in DOMAIN row /\ row[f] = RuleShown(c, f)
<1>1. PICK old, base, form :
        /\ old = IF c.opened = None THEN NewRule ELSE server.row
        /\ base = IF c.payload.type = old.type THEN old ELSE [old EXCEPT !.header = ""]
        /\ form = c.draft.form
  OBVIOUS
<1>2. row = Merged(base, c.payload)
  BY <1>1 DEF SavedRows, SavedRules
<1>3. /\ DOMAIN form = DOMAIN NewRule /\ form.methods \in {"", "get", "GET"}
      /\ c.payload = RulePayload(form, InitialRule(c.opened, form))
  BY <1>1 DEF FormCall, SentFrom, DraftOk, ChecksRule
<1>4. DOMAIN old = DOMAIN NewRule
  BY <1>1 DEF FormCall, MaybeRow, RowOk
<1>5. PICK full, config, initial :
        /\ full = [form EXCEPT
             !.rateLimit = IF @ = "" THEN "0" ELSE @, !.methods = Methods(@),
             !.header = IF @ = "" THEN "X-API-Key" ELSE @]
        /\ config = IF form.type = "apikey" THEN {"header"} ELSE {}
        /\ initial = InitialRule(c.opened, form)
  OBVIOUS
<1>6. c.payload = Restrict(full, {"route", "type"} \cup config \cup SentPolicies(form, initial))
  BY <1>3, <1>5 DEF RulePayload
<1>7. /\ DOMAIN c.payload = {"route", "type"} \cup config \cup SentPolicies(form, initial)
      /\ \A g \in DOMAIN c.payload : c.payload[g] = full[g]
  BY <1>6 DEF Restrict
<1>8. f \in DOMAIN NewRule
  BY DEF RuleFieldsShown
<1>9. DOMAIN base = DOMAIN NewRule /\ \A g \in DOMAIN NewRule \ {"header"} : base[g] = old[g]
  BY <1>1, <1>4 DEF NewRule
<1>10. /\ f \in DOMAIN row
       /\ row[f] = IF f \in DOMAIN c.payload THEN c.payload[f] ELSE base[f]
  BY <1>2, <1>8, <1>9 DEF Merged
<1>11. full[f] = RuleShown(c, f)
  <2>1. /\ full.rateLimit = IF form.rateLimit = "" THEN "0" ELSE form.rateLimit
        /\ full.methods = IF form.methods = "" THEN "" ELSE "GET"
        /\ full.header = IF form.header = "" THEN "X-API-Key" ELSE form.header
        /\ f \notin {"rateLimit", "methods", "header"} => full[f] = form[f]
    BY <1>3, <1>5, <1>8 DEF NewRule, Methods
  <2> QED BY <1>1, <2>1 DEF RuleShown
<1>12. CASE f \in DOMAIN c.payload
  BY <1>7, <1>10, <1>11, <1>12
<1>13. CASE f \notin DOMAIN c.payload
  <2>1. f \in {"rateLimit", "methods", "whitelist"}
    BY <1>1, <1>5, <1>7, <1>8, <1>13 DEF NewRule, RuleFieldsShown
  <2>2. PICK blank : blank = [NewRule EXCEPT !.rateLimit = ""]
    OBVIOUS
  <2>3. form[f] = blank[f] /\ initial[f] = blank[f]
    BY <1>7, <1>13, <2>1, <2>2 DEF SentPolicies
  <2>4. blank.rateLimit = "" /\ blank.methods = "" /\ blank.whitelist = {}
    BY <2>2 DEF NewRule
  <2>5. PICK given :
          given = IF c.opened = None THEN [NewRule EXCEPT !.route = form.route] ELSE c.opened
    OBVIOUS
  <2>6. /\ DOMAIN given = DOMAIN NewRule
        /\ given.rateLimit = old.rateLimit /\ given.methods = old.methods
        /\ given.whitelist = old.whitelist /\ old.rateLimit # ""
    <3>1. CASE c.opened = None
      BY <1>1, <2>5, <3>1 DEF NewRule
    <3>2. CASE c.opened # None
      BY <1>1, <2>5, <3>2 DEF FormCall, MaybeRow, RowOk
    <3> QED BY <3>1, <3>2
  <2>7. PICK shown :
          shown = [given EXCEPT !.header = IF @ = "" THEN "X-API-Key" ELSE @,
                                !.rateLimit = IF @ = "0" THEN "" ELSE @]
    OBVIOUS
  <2>8. PICK draft : draft = [form |-> shown, given |-> FALSE]
    OBVIOUS
  <2>9. initial = draft.form
    BY <1>5, <2>5, <2>7, <2>8 DEF InitialRule, RuleDraft
  <2>10. /\ initial.rateLimit = IF old.rateLimit = "0" THEN "" ELSE old.rateLimit
         /\ initial.methods = old.methods /\ initial.whitelist = old.whitelist
    BY <2>6, <2>7, <2>8, <2>9 DEF NewRule
  <2>11. row[f] = old[f]
    BY <1>8, <1>9, <1>10, <1>13, <2>1
  <2> QED BY ZenonT(60), <1>1, <1>10, <2>1, <2>3, <2>4, <2>6, <2>10, <2>11 DEF RuleShown
<1> QED BY <1>12, <1>13

LEMMA AssignmentAsShown ==
  ASSUME NEW c, FormCall(page.name, c), page.name \in {"user form", "group form"},
         c.opened \in {None, server.row}, NEW row \in SavedRows(c),
         NEW f \in AssignmentFieldsShown(c)
  PROVE  f \in DOMAIN row /\ row[f] = AssignmentShown(c, f)
<1>1. CASE page.name = "user form"
  <2>1. PICK old, new :
          /\ old = IF c.opened = None THEN NewUser ELSE server.row
          /\ new = [c.payload EXCEPT !.name = Trimmed(@),
                      !.password = IF Trimmed(@) = "" THEN old.password ELSE @]
    OBVIOUS
  <2>2. row = Merged(old, new)
    BY <1>1, <2>1 DEF SavedRows, SavedUsers
  <2>3. DOMAIN old = UserFields /\ c.payload = c.draft /\ DOMAIN c.draft = UserFields
    BY <1>1, <2>1 DEF FormCall, SentFrom, DraftOk, RowOk, MaybeRow, NewUser, UserFields
  <2>4. /\ DOMAIN new = UserFields /\ f \in UserFields
        /\ new[f] = IF f = "name" THEN Trimmed(c.draft.name) ELSE c.draft[f]
    BY <2>1, <2>3 DEF UserFields, AssignmentFieldsShown
  <2> QED BY <2>2, <2>3, <2>4 DEF Merged, AssignmentShown
<1>2. CASE page.name = "group form"
  <2>1. PICK old, new :
          /\ old = IF c.opened = None THEN NewGroup ELSE server.row
          /\ new = [c.payload EXCEPT !.name = Trimmed(@)]
    OBVIOUS
  <2>2. row = Merged(old, new)
    BY <1>2, <2>1 DEF SavedRows, SavedGroups
  <2>3. DOMAIN old = GroupFields /\ c.payload = c.draft /\ DOMAIN c.draft = GroupFields
    BY <1>2, <2>1 DEF FormCall, SentFrom, DraftOk, RowOk, MaybeRow, NewGroup, GroupFields
  <2>4. /\ DOMAIN new = GroupFields /\ f \in GroupFields
        /\ new[f] = IF f = "name" THEN Trimmed(c.draft.name) ELSE c.draft[f]
    BY <2>1, <2>3 DEF GroupFields, AssignmentFieldsShown
  <2> QED BY <2>2, <2>3, <2>4 DEF Merged, AssignmentShown
<1> QED BY <1>1, <1>2

LEMMA CertificateAsShown ==
  ASSUME NEW c, FormCall("certificate form", c), page.name = "certificate form",
         NEW row \in SavedRows(c), NEW f \in CertificateFieldsShown(c)
  PROVE  f \in DOMAIN row /\ row[f] = CertificateShown(c, f)
<1>1. PICK draft : draft = c.draft
  OBVIOUS
<1>2. PICK fields :
        fields = IF draft.mode = "imported"
                 THEN [mode |-> "imported", domain |-> Trimmed(draft.domain),
                       certPem |-> Trimmed(draft.certPem), keyPem |-> Trimmed(draft.keyPem)]
                 ELSE [domain |-> Trimmed(draft.domain),
                       days |-> IF draft.days = "30" THEN "30" ELSE "",
                       subject |-> Trimmed(draft.subject)]
  OBVIOUS
<1>3. /\ draft.mode \in {"local_ca", "imported"} /\ c.payload = Filled(fields)
      /\ row = [g \in DOMAIN NewCertificate |->
                  IF g \in DOMAIN c.payload THEN c.payload[g] ELSE NewCertificate[g]]
  BY <1>1, <1>2
  DEF FormCall, DraftOk, SentFrom, CertificatePayload, SavedRows, SavedCertificates
<1>4. /\ DOMAIN c.payload = {g \in DOMAIN fields : fields[g] # ""}
      /\ \A g \in DOMAIN c.payload : c.payload[g] = fields[g]
  BY <1>3 DEF Filled, Restrict
<1>5. f \in DOMAIN NewCertificate
  BY <1>1, <1>3 DEF CertificateFieldsShown, NewCertificate
<1>6. CASE f \in DOMAIN fields
  <2>1. fields[f] = CertificateShown(c, f) /\ (f = "mode" => fields[f] = "imported")
    <3>1. CASE draft.mode = "imported"
      <4>1. /\ DOMAIN fields = {"mode", "domain", "certPem", "keyPem"}
            /\ fields.mode = "imported" /\ fields.domain = Trimmed(draft.domain)
            /\ fields.certPem = Trimmed(draft.certPem) /\ fields.keyPem = Trimmed(draft.keyPem)
        BY <1>2, <3>1
      <4>2. Trimmed("imported") = "imported"
        BY DEF Trimmed
      <4> QED BY <1>1, <1>6, <3>1, <4>1, <4>2 DEF CertificateShown
    <3>2. CASE draft.mode # "imported"
      <4>1. /\ DOMAIN fields = {"domain", "days", "subject"}
            /\ fields.domain = Trimmed(draft.domain) /\ fields.subject = Trimmed(draft.subject)
            /\ fields.days = IF draft.days = "30" THEN "30" ELSE ""
        BY <1>2, <3>2
      <4> QED BY <1>1, <1>6, <4>1 DEF CertificateShown
    <3> QED BY <3>1, <3>2
  <2>3. f # "mode" => NewCertificate[f] = ""
    <3>1. DOMAIN NewCertificate = {"mode", "domain", "days", "subject", "certPem", "keyPem"}
      BY DEF NewCertificate
    <3>2. /\ NewCertificate.domain = "" /\ NewCertificate.days = ""
          /\ NewCertificate.subject = "" /\ NewCertificate.certPem = ""
          /\ NewCertificate.keyPem = ""
      BY DEF NewCertificate
    <3> QED BY <1>5, <3>1, <3>2
  <2> QED BY <1>3, <1>4, <1>5, <1>6, <2>1, <2>3
<1>7. CASE f \notin DOMAIN fields
  <2>1. f = "mode" /\ draft.mode = "local_ca"
    BY <1>1, <1>2, <1>3, <1>7 DEF CertificateFieldsShown
  <2>2. row[f] = "local_ca"
    BY <1>3, <1>4, <1>5, <1>7, <2>1 DEF NewCertificate
  <2> QED BY <1>1, <1>3, <1>5, <2>1, <2>2 DEF CertificateShown, Trimmed
<1> QED BY <1>6, <1>7

(* Whatever was typed, edited and reopened before, the server stores of a    *)
(* save what the form showed when it was sent, in the fields listed for the  *)
(* form, where it was opened on the row as stored. Not listed of a route are *)
(* headers all removed, TLS switched off over a certificate still chosen, and *)
(* paths of certificates (RouteForm.tsx, UserForm.tsx, GroupForm.tsx,        *)
(* AuthRuleForm.tsx, CertificateForm.tsx handleSubmit, service.go).          *)
THEOREM SavesShown == Spec => SavedAsShown
<1> DEFINE AsShown(c) ==
      OnForm /\ Accepts(c) /\ c.opened \in {None, server.row} =>
        \A f \in FieldsShown(c) : server'.row[f] = ShownOf(c, f)
<1>1. Named /\ FormInv /\ Next => \A c \in calls : AsShown(c)
  <2> SUFFICES ASSUME FormInv, Next, OnForm, NEW c \in calls, Accepts(c),
                      c.opened \in {None, server.row}, NEW f \in FieldsShown(c)
               PROVE  server'.row[f] = ShownOf(c, f)
    OBVIOUS
  <2>1. FormOwn(page.name) /\ FormCall(page.name, c) /\ c.kind = "save" /\ "row" \in DOMAIN server
    BY DEF FormInv, FormOwn, FormRows, Accepts
  <2>2. PICK row \in SavedRows(c) : server' = [server EXCEPT !.row = row]
    BY <2>1, AcceptedIsServed
  <2>3. server'.row = row
    BY <2>1, <2>2
  <2>4. CASE page.name = "route form"
    BY <2>1, <2>2, <2>3, <2>4, RouteAsShown DEF FieldsShown, ShownOf
  <2>5. CASE page.name = "rule form"
    BY <2>1, <2>2, <2>3, <2>5, RuleAsShown DEF FieldsShown, ShownOf
  <2>6. CASE page.name = "certificate form"
    BY <2>1, <2>2, <2>3, <2>6, CertificateAsShown DEF FieldsShown, ShownOf
  <2>7. CASE page.name \in {"user form", "group form"}
    BY <2>1, <2>2, <2>3, <2>7, AssignmentAsShown DEF FieldsShown, ShownOf
  <2> QED BY <2>4, <2>5, <2>6, <2>7 DEF OnForm, FormNames
<1>2. Named /\ FormInv /\ [Next]_vars => [\A c \in calls : AsShown(c)]_vars
  BY <1>1
<1>3. [\A c \in calls : AsShown(c)]_vars =>
        [\A c \in calls : OnForm /\ Accepts(c) /\ c.opened \in {None, server.row} =>
           \A f \in FieldsShown(c) : server'.row[f] = ShownOf(c, f)]_vars
  OBVIOUS
<1> HIDE DEF AsShown
<1> QED BY <1>2, <1>3, InitNamed, InitForm, FormKept, PTL DEF Spec, SavedAsShown

-----------------------------------------------------------------------------
(* The directory pages. All but GroupsPage number their refreshes; all but   *)
(* AuthRulesPage delete by a table, and GroupsPage's comes and goes with     *)
(* lists of any age.                                                         *)

Numbered(name) == name \in {"routes", "users", "certificates", "rules"}
Tabled(name) == name \in {"routes", "users", "certificates"}

DirFields ==
  {"can", "loading", "gen", "acts", "available", "side", "error", "rows", "show", "editing",
   "submit", "deleting", "resigning"}
DirCallFields == {"kind", "n", "row", "gen", "status", "rows", "side", "after"}
Changes == {"create", "update", "delete", "resign"}

DirTypes ==
  /\ DirFields \subseteq DOMAIN page /\ page.gen \in Nat /\ page.acts \in Nat
  /\ "rows" \in DOMAIN server

DirCall(c) ==
  /\ DirCallFields \subseteq DOMAIN c
  /\ c.kind \in Changes \cup {"list", "upload"}
  /\ c.n \in 0..page.acts
  /\ c.kind = "list" => /\ c.gen \in 0..page.gen
                        /\ c.status \in {"pending", "ok", "failed"}
                        /\ c.status = "failed" => "list" \in faults

(* A change is one request after the other, the refresh after it the last.   *)
DirApart ==
  \A c, d \in calls :
    /\ c.n = d.n => c = d
    /\ Numbered(page.name) /\ c.kind = "list" /\ d.kind = "list" /\ c.gen = d.gen => c = d

ResignsMarked ==
  /\ \A c \in calls : Of("resign", c) => <<c.row, c.n>> \in page.resigning
  /\ \A m, k \in page.resigning : m[1] = k[1] => m = k

(* The list that will be shown, and a change it may not have seen: the       *)
(* refresh after that one is still to be sent.                               *)
Latest(c) == c.kind = "list" /\ c.gen = page.gen
Changed == \E c \in calls : c.kind \in Changes /\ Ok(c)

Fresher ==
  Numbered(page.name) /\ "lost" \notin faults /\ ~Changed =>
    /\ \A c \in calls : Latest(c) /\ Ok(c) => c.rows = Snapshot
    /\ page.gen > 0 =>
         \/ \E c \in calls : Latest(c)
         \/ ~page.available
         \/ page.rows = Snapshot

(* A row whose deletion the table forgot is gone and is not shown again.     *)
IsGone(r) == r \in DOMAIN server.rows /\ server.rows[r] = Gone
Held(r) == \A c \in calls : Latest(c) /\ Ok(c) => r \in DOMAIN c.rows \/ IsGone(r)
Forgotten(r) ==
  /\ IsGone(r) /\ r \notin Shown(page)
  /\ \A c \in calls : Latest(c) /\ Ok(c) => r \notin DOMAIN c.rows

DeletesMarked ==
  Tabled(page.name) /\ "list" \notin faults =>
    /\ \A r \in Shown(page) : r \in DOMAIN server.rows /\ Held(r)
    /\ \A c \in calls : c.kind = "list" => DOMAIN c.rows \subseteq DOMAIN server.rows
    /\ \A c \in calls : Of("delete", c) =>
         /\ c.row \in DOMAIN server.rows /\ Held(c.row)
         /\ <<c.row, c.n>> \in page.deleting \/ Forgotten(c.row)
    /\ \A c, d \in calls : Of("delete", c) /\ Of("delete", d) /\ c.row = d.row => c = d

DirOwn ==
  /\ DirTypes /\ DirApart /\ ResignsMarked /\ Fresher /\ DeletesMarked
  /\ \A c \in calls : DirCall(c)

DirInv == page.name \in Names => DirOwn

(* The steps the pages share, by what they do to rows, marks and requests.   *)

SameView == page'.gen = page.gen /\ page'.available = page.available /\ page'.rows = page.rows
SameMarks == page'.deleting = page.deleting /\ page'.resigning = page.resigning
Unmarked(marks, n) == {m \in marks : m[2] # n}
DirPage == DirFields \subseteq DOMAIN page' /\ page'.name = page.name
SameServer == server' = server /\ faults' = faults

LEMMA MarkParts == \A r, n : <<r, n>>[1] = r /\ <<r, n>>[2] = n
OBVIOUS

LEMMA QuietKeeps ==
  ASSUME DirOwn, DirPage, SameView, SameMarks, page'.acts = page.acts, calls' = calls, SameServer
  PROVE  DirOwn'
<1> USE DEF SameView, SameMarks, SameServer, DirPage
<1>1. DirTypes' /\ DirApart' /\ ResignsMarked'
  BY DEF DirOwn, DirTypes, DirApart, ResignsMarked
<1>2. \A c \in calls' : DirCall(c)'
  BY DEF DirOwn, DirCall
<1>3. Fresher'
  BY DEF DirOwn, Fresher, Latest, Changed, Ok, Snapshot, Living
<1>4. DeletesMarked'
  BY DEF DirOwn, DeletesMarked, Latest, Held, Forgotten, IsGone, Shown, Ok
<1> QED BY <1>1, <1>2, <1>3, <1>4 DEF DirOwn

LEMMA SubmitKeeps ==
  ASSUME DirOwn, DirPage, SameView, SameServer, NEW c, DirCallFields \subseteq DOMAIN c,
         c.kind \in Changes \cup {"upload"}, c.status = "pending", c.n = page.acts + 1,
         c.after = "none",
         page'.acts = c.n, calls' = calls \cup {c},
         \/ page'.deleting = page.deleting
         \/ page'.deleting = page.deleting \cup {<<c.row, c.n>>},
         IF c.kind = "resign"
         THEN /\ page'.resigning = page.resigning \cup {<<c.row, c.n>>}
              /\ c.row \notin Busy(page.resigning)
         ELSE page'.resigning = page.resigning,
         c.kind = "delete" /\ Tabled(page.name) =>
           /\ page'.deleting = page.deleting \cup {<<c.row, c.n>>}
           /\ c.row \in Shown(page) /\ c.row \notin Busy(page.deleting)
  PROVE  DirOwn'
<1> USE DEF SameView, SameServer, DirPage
<1>0. c.kind # "list" /\ ~Ok(c) /\ \A kind \in {"resign", "delete"} : Of(kind, c) <=> c.kind = kind
  BY DEF Changes, Ok, Of
<1>1. DirTypes' /\ \A d \in calls : d.n # c.n
  BY DEF DirOwn, DirTypes, DirCall
<1>2. \A d \in calls' : DirCall(d)'
  BY <1>0 DEF DirOwn, DirTypes, DirCall
<1>3. DirApart'
  BY <1>0, <1>1 DEF DirOwn, DirApart
<1>4. ResignsMarked'
  <2>1. CASE c.kind = "resign"
    <3>1. \A m \in page.resigning : m[1] # c.row
      BY <2>1 DEF Busy
    <3>2. PICK mark : mark = <<c.row, c.n>>
      OBVIOUS
    <3>3. mark[1] = c.row
      BY <3>2, MarkParts
    <3> QED BY <1>0, <2>1, <3>1, <3>2, <3>3 DEF DirOwn, ResignsMarked
  <2>2. CASE c.kind # "resign"
    BY <1>0, <2>2 DEF DirOwn, ResignsMarked
  <2> QED BY <2>1, <2>2
<1>5. Fresher'
  <2>1. Changed' <=> Changed
    BY <1>0 DEF Changed
  <2> QED BY <1>0, <2>1 DEF DirOwn, Fresher, Latest, Snapshot, Living
<1>6. DeletesMarked'
  <2> SUFFICES ASSUME Tabled(page.name), "list" \notin faults
               PROVE  DeletesMarked'
    BY DEF DeletesMarked
  <2>1. \A r : (Held(r)' <=> Held(r)) /\ (Forgotten(r)' <=> Forgotten(r))
    BY <1>0 DEF Held, Forgotten, Latest, IsGone, Shown
  <2>2. c.kind = "delete" => \A d \in calls : Of("delete", d) => d.row # c.row
    <3> SUFFICES ASSUME c.kind = "delete", NEW d \in calls, Of("delete", d), d.row = c.row
                 PROVE  FALSE
      OBVIOUS
    <3>1. ~Forgotten(d.row)
      BY DEF Forgotten
    <3>2. <<d.row, d.n>> \in page.deleting
      BY <3>1 DEF DirOwn, DeletesMarked
    <3>3. <<d.row, d.n>>[1] = d.row
      BY MarkParts
    <3> QED BY <3>2, <3>3 DEF Busy
  <2> QED BY <1>0, <2>1, <2>2 DEF DirOwn, DeletesMarked, Shown
<1> QED BY <1>1, <1>2, <1>3, <1>4, <1>5, <1>6 DEF DirOwn

(* The change c is done, its refresh d sent.                                 *)
LEMMA RefreshKeeps ==
  ASSUME DirOwn, DirPage, SameMarks, SameServer, page'.acts = page.acts, page'.rows = page.rows,
         NEW c \in calls, NEW d, DirCallFields \subseteq DOMAIN d, d.kind = "list",
         d.after = c.kind, d.row = c.row, d.status = "pending", d.n = c.n, d.gen = page'.gen, DOMAIN d.rows = {},
         calls' = (calls \ {c}) \cup {d},
         page'.gen = IF Numbered(page.name) THEN page.gen + 1 ELSE page.gen
  PROVE  DirOwn'
<1> USE DEF SameMarks, SameServer, DirPage
<1>0. page.gen \in Nat /\ page'.gen \in Nat /\ ~Ok(d)
      /\ \A kind \in {"resign", "delete"} : Of(kind, d) => Of(kind, c)
  BY DEF DirOwn, DirTypes, Ok, Of
<1>1. DirTypes'
  BY <1>0 DEF DirOwn, DirTypes
<1>2. \A e \in calls' : DirCall(e)'
  BY <1>0 DEF DirOwn, DirTypes, DirCall
<1>3. Numbered(page.name) => \A e \in calls' : Latest(e)' => e = d
  BY <1>0 DEF DirOwn, DirCall, Latest
<1>4. DirApart'
  BY <1>3 DEF DirOwn, DirApart, Latest
<1>5. ResignsMarked'
  BY <1>0 DEF DirOwn, ResignsMarked
<1>6. Fresher'
  BY <1>0, <1>3 DEF Fresher, Latest
<1>7. DeletesMarked'
  <2> SUFFICES ASSUME Tabled(page.name), "list" \notin faults
               PROVE  DeletesMarked'
    BY DEF DeletesMarked
  <2>1. \A r : Held(r)' /\ (Forgotten(r) => Forgotten(r)')
    BY <1>0, <1>3 DEF Held, Forgotten, IsGone, Shown, Tabled, Numbered
  <2> QED BY <1>0, <2>1 DEF DirOwn, DeletesMarked, Shown
<1> QED BY <1>1, <1>2, <1>4, <1>5, <1>6, <1>7 DEF DirOwn

(* The request c failed, or one of the same change follows it.               *)
LEMMA FailKeeps ==
  ASSUME DirOwn, DirPage, SameView, SameServer, page'.acts = page.acts, NEW c \in calls,
         c.kind # "list", ~(c.kind \in Changes /\ Ok(c)), calls' = calls \ {c},
         page'.deleting \in {page.deleting, Unmarked(page.deleting, c.n)},
         page'.resigning \in {page.resigning, Unmarked(page.resigning, c.n)}
  PROVE  DirOwn'
<1> USE DEF SameView, SameServer, DirPage
<1>0. \A d \in calls' : d \in calls /\ d.n # c.n
  BY DEF DirOwn, DirApart
<1>1. DirTypes' /\ DirApart' /\ \A d \in calls' : DirCall(d)'
  BY DEF DirOwn, DirTypes, DirApart, DirCall
<1>2. \A d \in calls' : <<d.row, d.n>> \in page.resigning => <<d.row, d.n>> \in page'.resigning
  BY <1>0 DEF Unmarked
<1>3. ResignsMarked'
  BY <1>0, <1>2 DEF DirOwn, ResignsMarked, Unmarked
<1>4. \A d \in calls' : <<d.row, d.n>> \in page.deleting => <<d.row, d.n>> \in page'.deleting
  BY <1>0 DEF Unmarked
<1>5. Fresher'
  <2>1. Changed => Changed'
    BY DEF Changed
  <2> QED BY <2>1 DEF DirOwn, Fresher, Latest, Snapshot, Living
<1>6. DeletesMarked'
  <2> SUFFICES ASSUME Tabled(page.name), "list" \notin faults
               PROVE  DeletesMarked'
    BY DEF DeletesMarked
  <2>1. \A r : (Held(r) => Held(r)') /\ (Forgotten(r) => Forgotten(r)')
    BY DEF Held, Forgotten, Latest, IsGone, Shown
  <2> QED BY <1>0, <1>4, <2>1 DEF DirOwn, DeletesMarked, Shown
<1> QED BY <1>1, <1>3, <1>5, <1>6 DEF DirOwn

LEMMA FollowKeeps ==
  ASSUME DirOwn, page' = page, SameServer, NEW c \in calls, c.kind = "upload", NEW d,
         DirCallFields \subseteq DOMAIN d, d.kind \in {"create", "update"}, d.status = "pending",
         d.after = "none", d.n = c.n, calls' = (calls \ {c}) \cup {d}
  PROVE  DirOwn'
<1> USE DEF SameServer
<1>0. ~Ok(d) /\ c.kind \notin Changes /\ d.kind \in Changes
      /\ ~Of("resign", d) /\ ~Of("delete", d)
  BY DEF Ok, Changes, Of
<1>1. DirTypes' /\ DirApart' /\ ResignsMarked'
  BY <1>0 DEF DirOwn, DirTypes, DirApart, ResignsMarked
<1>2. \A e \in calls' : DirCall(e)'
  BY <1>0 DEF DirOwn, DirCall
<1>3. Fresher'
  <2>1. Changed' <=> Changed
    BY <1>0 DEF Changed
  <2>2. \A e : e \in calls' /\ Latest(e) <=> e \in calls /\ Latest(e)
    BY DEF Latest
  <2> QED BY <2>1, <2>2 DEF DirOwn, Fresher, Latest, Snapshot, Living
<1>4. DeletesMarked'
  <2>1. \A r : (Held(r)' <=> Held(r)) /\ (Forgotten(r)' <=> Forgotten(r))
    BY <1>0 DEF Held, Forgotten, Latest, IsGone, Shown
  <2> QED BY <1>0, <2>1 DEF DirOwn, DeletesMarked, Shown
<1> QED BY <1>1, <1>2, <1>3, <1>4 DEF DirOwn

(* A list answered: the latest is shown, an older one not.                   *)
LEMMA ListKeeps ==
  ASSUME DirOwn, DirPage, SameServer, page'.acts = page.acts, page'.gen = page.gen,
         NEW c \in calls, c.kind = "list", c.status # "pending", calls' = calls \ {c},
         page'.resigning \in {page.resigning, Unmarked(page.resigning, c.n)},
         Numbered(page.name) =>
           IF ~Latest(c) THEN page'.rows = page.rows /\ page'.available = page.available
           ELSE IF Ok(c) THEN page'.rows = c.rows /\ page'.available = page.available
           ELSE ~page'.available,
         Tabled(page.name) =>
           \/ page'.deleting = Unmarked(page.deleting, c.n)
           \/ Latest(c) /\ (Ok(c) => DOMAIN c.rows = {})
  PROVE  DirOwn'
<1> USE DEF SameServer, DirPage
<1>0. \A d \in calls' : d \in calls /\ d.n # c.n
  BY DEF DirOwn, DirApart
<1>1. DirTypes' /\ DirApart' /\ \A d \in calls' : DirCall(d)'
  BY DEF DirOwn, DirTypes, DirApart, DirCall
<1>2. \A d \in calls' : <<d.row, d.n>> \in page.resigning => <<d.row, d.n>> \in page'.resigning
  BY <1>0 DEF Unmarked
<1>3. ResignsMarked'
  BY <1>0, <1>2 DEF DirOwn, ResignsMarked, Unmarked
<1>4. /\ Ok(c) \/ "list" \in faults
      /\ Numbered(page.name) /\ Latest(c) => \A d \in calls' : ~Latest(d)'
  BY DEF DirOwn, DirCall, DirApart, Ok, Latest
<1>5. Fresher'
  <2>1. Changed' <=> Changed
    BY DEF Changed, Changes
  <2>2. Snapshot' = Snapshot
    BY DEF Snapshot, Living
  <2>3. CASE Latest(c)
    BY <1>4, <2>1, <2>2, <2>3 DEF DirOwn, Fresher
  <2>4. CASE ~Latest(c)
    BY <2>1, <2>2, <2>4 DEF DirOwn, Fresher, Latest
  <2> QED BY <2>3, <2>4
<1>6. DeletesMarked'
  <2> SUFFICES ASSUME Tabled(page.name), "list" \notin faults
               PROVE  DeletesMarked'
    BY DEF DeletesMarked
  <2>0. Numbered(page.name)
    BY DEF Numbered, Tabled
  <2>1. \A r : Held(r) => Held(r)'
    BY DEF Held, Latest, IsGone
  <2>2. \A r : Forgotten(r) => Forgotten(r)'
    BY <1>4, <2>0 DEF Forgotten, Latest, IsGone, Shown
  <2>3. \A r \in Shown(page)' : r \in DOMAIN server.rows /\ Held(r)'
    <3>1. CASE Latest(c)
      BY <1>4, <2>0, <3>1 DEF DirOwn, DeletesMarked, Held, Shown, Latest
    <3>2. CASE ~Latest(c)
      BY <2>0, <2>1, <3>2 DEF DirOwn, DeletesMarked, Shown
    <3> QED BY <3>1, <3>2
  <2>4. ASSUME NEW d \in calls', Of("delete", d)
        PROVE  <<d.row, d.n>> \in page'.deleting \/ Forgotten(d.row)'
    <3>1. CASE page'.deleting = Unmarked(page.deleting, c.n)
      BY <1>0, <2>2, <2>4, <3>1 DEF DirOwn, DeletesMarked, Unmarked
    <3>2. CASE Latest(c) /\ DOMAIN c.rows = {}
      <4>1. IsGone(d.row)
        BY <1>4, <2>4, <3>2 DEF DirOwn, DeletesMarked, Held
      <4> QED BY <1>4, <2>0, <3>2, <4>1 DEF Forgotten, IsGone, Shown
    <3> QED BY <1>4, <3>1, <3>2
  <2> QED BY <1>0, <2>1, <2>3, <2>4 DEF DirOwn, DeletesMarked
<1> QED BY <1>1, <1>3, <1>5, <1>6 DEF DirOwn

(* The server.                                                               *)

LEMMA ServeListKeeps ==
  ASSUME DirOwn, NEW c \in calls, ServeList(c)
  PROVE  DirOwn'
<1>1. /\ page' = page /\ server' = server /\ c.kind = "list" /\ c.status = "pending"
      /\ DirCall(c)
  BY DEF ServeList, DirOwn
<1>2. \E d :
        /\ calls' = (calls \ {c}) \cup {d} /\ DirCallFields \subseteq DOMAIN d
        /\ d.kind = "list" /\ d.n = c.n /\ d.gen = c.gen
        /\ d.row = c.row /\ d.after = c.after
        /\ \/ d.status = "ok" /\ d.rows = Snapshot /\ faults' = faults
           \/ d.status = "failed" /\ faults' = faults \cup {"list"}
  <2>1. CASE faults' = faults \cup {"list"} /\ \E side \in BOOLEAN : calls' =
                (calls \ {c}) \cup {[c EXCEPT !.status = "failed", !.side = side]}
    <3>1. PICK side \in BOOLEAN :
            calls' = (calls \ {c}) \cup {[c EXCEPT !.status = "failed", !.side = side]}
      BY <2>1
    <3>2. PICK d : d = [c EXCEPT !.status = "failed", !.side = side]
      OBVIOUS
    <3>3. /\ DirCallFields \subseteq DOMAIN d /\ d.status = "failed"
          /\ d.kind = "list" /\ d.n = c.n /\ d.gen = c.gen
          /\ d.row = c.row /\ d.after = c.after
      BY <1>1, <3>2 DEF DirCall, DirCallFields
    <3> QED BY <2>1, <3>1, <3>2, <3>3
  <2>2. CASE faults' = faults /\ \E side \in BOOLEAN : calls' =
                (calls \ {c}) \cup {[c EXCEPT !.status = "ok", !.rows = Snapshot, !.side = side]}
    <3>1. PICK side \in BOOLEAN : calls' =
            (calls \ {c}) \cup {[c EXCEPT !.status = "ok", !.rows = Snapshot, !.side = side]}
      BY <2>2
    <3>2. PICK d : d = [c EXCEPT !.status = "ok", !.rows = Snapshot, !.side = side]
      OBVIOUS
    <3>3. /\ DirCallFields \subseteq DOMAIN d /\ d.status = "ok" /\ d.rows = Snapshot
          /\ d.kind = "list" /\ d.n = c.n /\ d.gen = c.gen
          /\ d.row = c.row /\ d.after = c.after
      BY <1>1, <3>2 DEF DirCall, DirCallFields
    <3> QED BY <2>2, <3>1, <3>2, <3>3
  <2> QED BY <2>1, <2>2 DEF ServeList
<1>3. PICK d :
        /\ calls' = (calls \ {c}) \cup {d} /\ DirCallFields \subseteq DOMAIN d
        /\ d.kind = "list" /\ d.n = c.n /\ d.gen = c.gen
        /\ d.row = c.row /\ d.after = c.after
        /\ \/ d.status = "ok" /\ d.rows = Snapshot /\ faults' = faults
           \/ d.status = "failed" /\ faults' = faults \cup {"list"}
  BY <1>2
<1>4. DirTypes' /\ DirApart' /\ ResignsMarked'
  BY <1>1, <1>3 DEF DirOwn, DirTypes, DirApart, ResignsMarked, Of
<1>5. \A e \in calls' : DirCall(e)'
  BY <1>1, <1>3 DEF DirOwn, DirCall
<1>6. Snapshot' = Snapshot /\ (Latest(d) <=> Latest(c))
  BY <1>1, <1>3 DEF Snapshot, Living, Latest
<1>7. Fresher'
  <2>1. Changed' <=> Changed
    BY <1>1, <1>3 DEF Changed, Changes
  <2>2. ("lost" \in faults' <=> "lost" \in faults) /\ \A e : Latest(e)' <=> Latest(e)
    BY <1>1, <1>3 DEF Latest
  <2> QED BY <1>1, <1>3, <1>6, <2>1, <2>2 DEF DirOwn, Fresher, Ok
<1>8. DeletesMarked'
  <2> SUFFICES ASSUME Tabled(page.name), "list" \notin faults'
               PROVE  DeletesMarked'
    BY <1>1 DEF DeletesMarked
  <2>1. d.rows = Snapshot /\ DOMAIN d.rows = Living(server.rows) /\ "list" \notin faults
    BY <1>3 DEF Snapshot, Restrict
  <2>2. \A r \in DOMAIN server.rows : Held(r) => Held(r)'
    BY <1>1, <1>3, <2>1 DEF Held, Latest, IsGone, Living
  <2>3. \A r : Forgotten(r) => Forgotten(r)'
    BY <1>1, <1>3, <2>1 DEF Forgotten, Latest, IsGone, Living, Shown
  <2> QED BY <1>1, <1>3, <2>1, <2>2, <2>3 DEF DirOwn, DeletesMarked, Shown, Living, Of
<1> QED BY <1>4, <1>5, <1>7, <1>8 DEF DirOwn

(* Rows stay known to the server, and the deleted ones deleted.              *)
LEMMA EffectsKeep ==
  ASSUME "rows" \in DOMAIN server, NEW c, server' \in Effects(c)
  PROVE  /\ "rows" \in DOMAIN server'
         /\ c.kind = "upload" => server'.rows = server.rows
         /\ \A r \in DOMAIN server.rows : r \in DOMAIN server'.rows /\ (IsGone(r) => IsGone(r)')
<1>1. CASE c.kind = "create"
  <2>1. PICK f \in Fresh :
          server' = [server EXCEPT !.rows = [r \in DOMAIN @ \cup {f} |->
                                               IF r = f THEN c.n ELSE @[r]]]
    BY <1>1 DEF Effects
  <2>2. server'.rows = [r \in DOMAIN server.rows \cup {f} |->
                          IF r = f THEN c.n ELSE server.rows[r]]
    BY <2>1
  <2> QED BY <1>1, <2>1, <2>2 DEF Fresh, IsGone
<1>2. CASE c.kind \in {"update", "resign"}
  <2>1. server' = [server EXCEPT !.rows[c.row] = c.n] /\ c.row \in Living(server.rows)
    BY <1>2 DEF Effects
  <2>2. server'.rows = [server.rows EXCEPT ![c.row] = c.n]
    BY <2>1
  <2> QED BY <1>2, <2>1, <2>2 DEF Living, IsGone
<1>3. CASE c.kind = "delete"
  <2>1. server' = [server EXCEPT !.rows[c.row] = Gone]
    BY <1>3 DEF Effects
  <2>2. server'.rows = [server.rows EXCEPT ![c.row] = Gone]
    BY <2>1
  <2> QED BY <1>3, <2>1, <2>2 DEF IsGone
<1>4. CASE c.kind = "upload"
  <2>1. server' = [server EXCEPT !.taken = TRUE]
    BY <1>4 DEF Effects
  <2> QED BY <2>1 DEF IsGone
<1> QED BY <1>1, <1>2, <1>3, <1>4 DEF Effects

LEMMA ServeChangeKeeps ==
  ASSUME DirOwn, NEW c \in calls, ServeChange(c)
  PROVE  DirOwn'
<1>1. PICK status \in {"ok", "failed"} :
        /\ Answers(c, status) /\ page' = page
        /\ \/ server' = server /\ faults' = faults /\ status = "failed"
           \/ /\ server' \in Effects(c)
              /\ IF status = "ok" THEN faults' = faults ELSE faults' = faults \cup {"lost"}
  BY DEF ServeChange
<1>2. PICK d : d = [c EXCEPT !.status = status]
  OBVIOUS
<1>3. /\ calls' = (calls \ {c}) \cup {d} /\ DirCallFields \subseteq DOMAIN d /\ DirCall(c)
      /\ d.kind = c.kind /\ d.n = c.n /\ d.row = c.row /\ d.after = c.after
      /\ d.status = status
      /\ c.kind \in Changes \cup {"upload"} /\ c.kind # "list" /\ c.status = "pending"
  BY <1>1, <1>2 DEF Answers, DirOwn, DirCall, DirCallFields, ServeChange, Changes
<1>4. /\ "rows" \in DOMAIN server'
      /\ c.kind = "upload" => server'.rows = server.rows
      /\ \A r \in DOMAIN server.rows : r \in DOMAIN server'.rows /\ (IsGone(r) => IsGone(r)')
  BY <1>1, EffectsKeep DEF DirOwn, DirTypes, IsGone
<1>5. DirTypes' /\ DirApart' /\ ResignsMarked'
  BY <1>1, <1>3, <1>4 DEF DirOwn, DirTypes, DirApart, ResignsMarked, Of
<1>6. \A e \in calls' : DirCall(e)'
  BY <1>1, <1>3 DEF DirOwn, DirCall
<1>7. \A e : e \in calls' /\ Latest(e)' <=> e \in calls /\ Latest(e)
  BY <1>1, <1>3 DEF Latest
<1>8. Fresher'
  <2> SUFFICES ASSUME "lost" \notin faults', ~Changed'
               PROVE  Fresher'
    BY DEF Fresher
  <2>1. ~Changed
    <3>1. \A e \in calls : e = c \/ e \in calls'
      BY <1>3
    <3> QED BY <1>3, <3>1 DEF Changed, Ok
  <2>2. status = "ok" => c.kind = "upload"
    BY <1>3 DEF Changed, Ok
  <2>3. server'.rows = server.rows /\ "lost" \notin faults
    BY <1>1, <1>4, <2>2
  <2>4. Snapshot' = Snapshot
    BY <2>3 DEF Snapshot, Living
  <2> QED BY <1>1, <1>7, <2>1, <2>3, <2>4 DEF DirOwn, Fresher
<1>9. DeletesMarked'
  <2> SUFFICES ASSUME Tabled(page.name), "list" \notin faults'
               PROVE  DeletesMarked'
    BY <1>1 DEF DeletesMarked
  <2>1. "list" \notin faults
    BY <1>1
  <2>2. \A r : (Held(r) => Held(r)') /\ (Forgotten(r) => Forgotten(r)')
    BY <1>1, <1>4, <1>7 DEF Held, Forgotten, IsGone, Shown
  <2> QED BY <1>1, <1>3, <1>4, <2>1, <2>2 DEF DirOwn, DeletesMarked, Shown, Of
<1> QED BY <1>5, <1>6, <1>8, <1>9 DEF DirOwn

(* The handlers the pages share.                                             *)

LEMMA NewCall ==
  ASSUME NEW kind, NEW n, NEW row
  PROVE  /\ DirCallFields \subseteq DOMAIN Call(kind, n, row)
         /\ Call(kind, n, row).kind = kind /\ Call(kind, n, row).n = n
         /\ Call(kind, n, row).row = row /\ Call(kind, n, row).status = "pending"
         /\ Call(kind, n, row).after = "none"
BY DEF Call, DirCallFields

LEMMA NewListCall ==
  ASSUME NEW p, NEW c
  PROVE  /\ DirCallFields \subseteq DOMAIN ListCall(p, c)
         /\ ListCall(p, c).kind = "list" /\ ListCall(p, c).n = c.n
         /\ ListCall(p, c).row = c.row /\ ListCall(p, c).after = c.kind
         /\ ListCall(p, c).gen = p.gen /\ ListCall(p, c).status = "pending"
         /\ DOMAIN ListCall(p, c).rows = {}
BY DEF ListCall, Call, DirCallFields, NoRows

LEMMA NewFirstList ==
  ASSUME NEW p
  PROVE  /\ DirCallFields \subseteq DOMAIN FirstList(p)
         /\ FirstList(p).kind = "list" /\ FirstList(p).n = 0 /\ FirstList(p).after = "none"
         /\ FirstList(p).gen = p.gen /\ FirstList(p).status = "pending"
         /\ DOMAIN FirstList(p).rows = {}
BY DEF FirstList, Call, DirCallFields, NoRows

LEMMA DialogKeeps ==
  ASSUME Named, DirOwn, NEW p, Handles(p, {}),
         \/ \E row : p = OpensForm(page, row)
         \/ p \in {CloseForm(page), ShutsForm(page)}
  PROVE  DirOwn'
<1>1. page' = p /\ calls' = calls /\ SameServer
  BY DEF Handles, SameServer
<1>2. DirPage /\ SameView /\ SameMarks /\ page'.acts = page.acts
  BY <1>1 DEF Named, DirOwn, DirTypes, DirPage, DirFields, SameView, SameMarks, OpensForm, CloseForm,
     ShutsForm
<1> QED BY <1>1, <1>2, QuietKeeps

LEMMA SubmitsKeep ==
  ASSUME Named, DirOwn, NEW kind \in {"create", "update", "upload"}, Submits(kind)
  PROVE  DirOwn'
<1>1. PICK n, c : n = page.acts + 1 /\ c = Call(kind, n, page.editing)
  OBVIOUS
<1>2. /\ page' = [page EXCEPT !.acts = n, !.submit = n]
      /\ calls' = calls \cup {c} /\ SameServer
  BY <1>1 DEF Submits, Handles, SameServer
<1>3. /\ DirCallFields \subseteq DOMAIN c /\ c.kind = kind /\ c.n = n /\ c.status = "pending"
      /\ c.after = "none"
  BY <1>1, NewCall
<1>4. DirPage /\ SameView /\ SameMarks /\ page'.acts = n
  BY <1>2 DEF Named, DirOwn, DirTypes, DirPage, DirFields, SameView, SameMarks
<1> QED BY <1>1, <1>2, <1>3, <1>4, SubmitKeeps DEF SameMarks, Changes

LEMMA TableDeleteKeeps ==
  ASSUME Named, DirOwn, NEW r, TableDelete(r)
  PROVE  DirOwn'
<1>1. PICK n, c, mark : n = page.acts + 1 /\ c = Call("delete", n, r) /\ mark = <<r, n>>
  OBVIOUS
<1>2. /\ page' = [page EXCEPT !.acts = n, !.deleting = @ \cup {mark}]
      /\ calls' = calls \cup {c} /\ SameServer
      /\ r \in Shown(page) /\ r \notin Busy(page.deleting)
  BY <1>1 DEF TableDelete, Deletable, Handles, SameServer
<1>3. /\ DirCallFields \subseteq DOMAIN c /\ c.kind = "delete" /\ c.n = n /\ c.row = r
      /\ c.status = "pending" /\ c.after = "none"
  BY <1>1, NewCall
<1>4. /\ DirPage /\ SameView /\ page'.acts = n /\ page'.resigning = page.resigning
      /\ page'.deleting = page.deleting \cup {<<c.row, c.n>>}
  BY <1>1, <1>2, <1>3 DEF Named, DirOwn, DirTypes, DirPage, DirFields, SameView
<1> QED BY <1>1, <1>2, <1>3, <1>4, SubmitKeeps DEF Changes

LEMMA SubmitFailedKeeps ==
  ASSUME Named, DirOwn, NEW c \in calls, c.kind # "list", ~Ok(c),
         Resumes(c, SubmitFailed(page, c.n), {})
  PROVE  DirOwn'
<1>1. page' = SubmitFailed(page, c.n) /\ calls' = calls \ {c} /\ SameServer
  BY DEF Resumes, SameServer
<1>2. DirPage /\ SameView /\ SameMarks /\ page'.acts = page.acts
  BY <1>1 DEF Named, DirOwn, DirTypes, DirPage, DirFields, SameView, SameMarks, SubmitFailed
<1> QED BY <1>1, <1>2, FailKeeps DEF SameMarks

LEMMA ChangeFailedKeeps ==
  ASSUME Named, DirOwn, NEW c \in calls, c.kind # "list", ~Ok(c), NEW p,
         p \in {[Settled(page, c.n) EXCEPT !.error = TRUE], [page EXCEPT !.error = TRUE]},
         Resumes(c, p, {})
  PROVE  DirOwn'
<1>1. page' = p /\ calls' = calls \ {c} /\ SameServer
  BY DEF Resumes, SameServer
<1>2. /\ DirPage /\ SameView /\ page'.acts = page.acts
      /\ page'.deleting \in {page.deleting, Unmarked(page.deleting, c.n)}
      /\ page'.resigning \in {page.resigning, Unmarked(page.resigning, c.n)}
  <2>1. CASE p = [page EXCEPT !.error = TRUE]
    BY <1>1, <2>1 DEF Named, DirOwn, DirTypes, DirPage, DirFields, SameView
  <2>2. CASE p = [Settled(page, c.n) EXCEPT !.error = TRUE]
    BY <1>1, <2>2
    DEF Named, DirOwn, DirTypes, DirPage, DirFields, SameView, Settled, Unmarked
  <2> QED BY <2>1, <2>2
<1> QED BY <1>1, <1>2, FailKeeps

LEMMA RefreshSentKeeps ==
  ASSUME Named, DirOwn, NEW c \in calls, NEW p,
         p \in {page, ShutsForm(page), CloseForm(page)}, NEW q,
         \/ page.name = "routes" /\ q = FetchRoutes(p)
         \/ page.name = "users" /\ q = FetchUsers(p)
         \/ page.name = "groups" /\ q = FetchGroups(p)
         \/ page.name = "certificates" /\ q = FetchCertificates(p)
         \/ page.name = "rules" /\ q = FetchRules(p),
         Resumes(c, q, {ListCall(q, c)})
  PROVE  DirOwn'
<1>1. PICK d : d = ListCall(q, c)
  OBVIOUS
<1>2. page' = q /\ calls' = (calls \ {c}) \cup {d} /\ SameServer
  BY <1>1 DEF Resumes, SameServer
<1>3. /\ DirCallFields \subseteq DOMAIN d /\ d.kind = "list" /\ d.n = c.n /\ d.gen = q.gen
      /\ d.row = c.row /\ d.after = c.kind
      /\ d.status = "pending" /\ DOMAIN d.rows = {}
  BY <1>1, NewListCall
<1>4. /\ DirFields \cup {"name"} \subseteq DOMAIN p /\ p.name = page.name /\ p.gen = page.gen
      /\ p.acts = page.acts /\ p.rows = page.rows /\ p.deleting = page.deleting
      /\ p.resigning = page.resigning
  BY DEF Named, DirOwn, DirTypes, DirFields, ShutsForm, CloseForm
<1>5. /\ DirFields \subseteq DOMAIN q /\ q.name = p.name /\ q.acts = p.acts /\ q.rows = p.rows
      /\ q.deleting = p.deleting /\ q.resigning = p.resigning
      /\ q.gen = IF Numbered(page.name) THEN p.gen + 1 ELSE p.gen
  <2> USE DEF DirFields, Numbered
  <2>1. CASE page.name = "routes"
    BY <1>4, <2>1 DEF FetchRoutes
  <2>2. CASE page.name = "users"
    BY <1>4, <2>2 DEF FetchUsers
  <2>3. CASE page.name = "groups"
    BY <1>4, <2>3 DEF FetchGroups
  <2>4. CASE page.name = "certificates"
    BY <1>4, <2>4 DEF FetchCertificates
  <2>5. CASE page.name = "rules"
    BY <1>4, <2>5 DEF FetchRules
  <2> QED BY <2>1, <2>2, <2>3, <2>4, <2>5
<1> QED BY <1>2, <1>3, <1>4, <1>5, RefreshKeeps DEF DirPage, SameMarks

(* The answer to a list, on the pages that number them and have a table.     *)
LEMMA TableListedKeeps ==
  ASSUME Named, DirOwn, Tabled(page.name), NEW c \in calls, c.kind = "list", c.status # "pending",
         NEW shown, Resumes(c, Settled(shown, c.n), {}),
         DirFields \cup {"name"} \subseteq DOMAIN shown, shown.name = page.name,
         shown.acts = page.acts, shown.gen = page.gen, shown.resigning = page.resigning,
         IF ~Newest(c)
         THEN /\ shown.rows = page.rows /\ shown.available = page.available
              /\ shown.deleting = page.deleting
         ELSE IF Ok(c)
         THEN /\ shown.rows = c.rows /\ shown.available = page.available
              /\ shown.deleting = IF DOMAIN c.rows = {} THEN {} ELSE page.deleting
         ELSE ~shown.available
  PROVE  DirOwn'
<1>1. page' = Settled(shown, c.n) /\ calls' = calls \ {c} /\ SameServer
  BY DEF Resumes, SameServer
<1>2. /\ DirPage /\ page'.acts = page.acts /\ page'.gen = page.gen
      /\ page'.rows = shown.rows /\ page'.available = shown.available
      /\ page'.deleting = Unmarked(shown.deleting, c.n)
      /\ page'.resigning = Unmarked(page.resigning, c.n)
  BY <1>1 DEF DirPage, DirFields, Settled, Unmarked
<1>3. Newest(c) <=> Latest(c)
  BY DEF Newest, Latest
<1> QED BY <1>1, <1>2, <1>3, ListKeeps

(* The handlers of each page.                                                *)

LEMMA DirClickKeeps ==
  ASSUME Named, DirOwn, DirectoryClick
  PROVE  DirOwn'
<1> USE DialogKeeps, SubmitsKeep, TableDeleteKeeps
<1>1. CASE RoutesClick
  BY <1>1 DEF RoutesClick, AddRoute, CreateFirstRoute, EditRoute, CloseRouteForm, SubmitRoute,
     DeleteRoute
<1>2. CASE UsersClick
  BY <1>2 DEF UsersClick, AddUser, EditUser, CloseUserForm, SubmitUser, DeleteUser
<1>3. CASE GroupsClick
  BY <1>3 DEF GroupsClick, AddGroup, EditGroup, CloseGroupForm, SubmitGroup, DeleteGroup
<1>4. CASE CertificatesClick
  <2>1. CASE ResignCertificate
    <3>1. PICK n, r, c, mark :
            /\ n = page.acts + 1 /\ mark = <<r, n>> /\ c = Call("resign", n, r)
            /\ r \notin Busy(page.resigning)
            /\ Handles([page EXCEPT !.acts = n, !.resigning = @ \cup {mark}], {c})
      BY <2>1 DEF ResignCertificate, Resignable
    <3>2. /\ page' = [page EXCEPT !.acts = n, !.resigning = @ \cup {mark}]
          /\ calls' = calls \cup {c} /\ SameServer
      BY <3>1 DEF Handles, SameServer
    <3>3. /\ DirCallFields \subseteq DOMAIN c /\ c.kind = "resign" /\ c.n = n /\ c.row = r
          /\ c.status = "pending" /\ c.after = "none"
      BY <3>1, NewCall
    <3>4. /\ DirPage /\ SameView /\ page'.acts = n /\ page'.deleting = page.deleting
          /\ page'.resigning = page.resigning \cup {<<c.row, c.n>>}
      BY <3>1, <3>2, <3>3 DEF Named, DirOwn, DirTypes, DirPage, DirFields, SameView
    <3> QED BY <3>1, <3>2, <3>3, <3>4, SubmitKeeps DEF Changes
  <2> QED BY <1>4, <2>1 DEF CertificatesClick, ProvisionCertificate, CloseCertificateForm,
           SubmitCertificate, DeleteCertificate
<1>5. CASE RulesClick
  <2>1. CASE DeleteRule
    <3>1. PICK n, r, c :
            /\ n = page.acts + 1 /\ c = Call("delete", n, r) /\ page.name = "rules"
            /\ Handles([page EXCEPT !.acts = n], {c})
      BY <2>1 DEF DeleteRule
    <3>2. page' = [page EXCEPT !.acts = n] /\ calls' = calls \cup {c} /\ SameServer
      BY <3>1 DEF Handles, SameServer
    <3>3. /\ DirCallFields \subseteq DOMAIN c /\ c.kind = "delete" /\ c.n = n
          /\ c.status = "pending" /\ c.after = "none"
      BY <3>1, NewCall
    <3>4. DirPage /\ SameView /\ SameMarks /\ page'.acts = n /\ ~Tabled(page.name)
      BY <3>1, <3>2 DEF Named, DirOwn, DirTypes, DirPage, DirFields, SameView, SameMarks, Tabled
    <3> QED BY <3>1, <3>2, <3>3, <3>4, SubmitKeeps DEF Changes, SameMarks
  <2> QED BY <1>5, <2>1 DEF RulesClick, AddRule, EditRule, CloseRuleForm, SubmitRule
<1> QED BY <1>1, <1>2, <1>3, <1>4, <1>5 DEF DirectoryClick

LEMMA DirAnswerKeeps ==
  ASSUME Named, DirOwn, NEW c \in calls, DirectoryAnswered(c)
  PROVE  DirOwn'
<1> USE SubmitFailedKeeps, ChangeFailedKeeps, RefreshSentKeeps DEF Answered
<1>1. CASE RoutesAnswered(c)
  <2>1. CASE RoutesListed(c)
    <3>1. PICK shown :
            /\ shown = IF ~Newest(c) THEN page
                       ELSE IF Ok(c) THEN Shows(Loaded(page, c), c.rows)
                       ELSE [Shows(Loaded(page, c), NoRows) EXCEPT !.available = FALSE,
                                                                   !.error = TRUE]
            /\ Resumes(c, Settled(shown, c.n), {})
            /\ page.name = "routes" /\ c.kind = "list" /\ c.status # "pending"
      BY <2>1 DEF RoutesListed
    <3>2. /\ Tabled(page.name) /\ DirFields \cup {"name"} \subseteq DOMAIN shown
          /\ shown.name = page.name /\ shown.acts = page.acts /\ shown.gen = page.gen
          /\ shown.resigning = page.resigning
      BY <3>1 DEF Tabled, Named, DirOwn, DirTypes, DirFields, Shows, Loaded
    <3>3. IF ~Newest(c)
          THEN /\ shown.rows = page.rows /\ shown.available = page.available
               /\ shown.deleting = page.deleting
          ELSE IF Ok(c)
          THEN /\ shown.rows = c.rows /\ shown.available = page.available
               /\ shown.deleting = IF DOMAIN c.rows = {} THEN {} ELSE page.deleting
          ELSE ~shown.available
      BY <3>1 DEF DirOwn, DirTypes, DirFields, Shows, Loaded
    <3> QED BY <3>1, <3>2, <3>3, TableListedKeeps
  <2>2. CASE RouteUploaded(c) /\ Ok(c)
    <3>3. PICK kind \in {"create", "update"} :
            Resumes(c, page, {Call(kind, c.n, c.row)}) /\ c.kind = "upload"
      BY <2>2 DEF RouteUploaded
    <3>1. PICK d : d = Call(kind, c.n, c.row) /\ Resumes(c, page, {d}) /\ c.kind = "upload"
      BY <3>3
    <3>2. page' = page /\ calls' = (calls \ {c}) \cup {d} /\ SameServer
      BY <3>1 DEF Resumes, SameServer
    <3> QED BY <3>1, <3>2, NewCall, FollowKeeps
  <2> QED BY <1>1, <2>1, <2>2
       DEF RoutesAnswered, RouteUploaded, RouteCreated, RouteUpdated, RouteDeleted, RoutesRefresh
<1>2. CASE UsersAnswered(c)
  <2>1. CASE UsersListed(c)
    <3>1. PICK shown :
            /\ shown = IF Newest(c) THEN Loaded(RoutesTaken(UsersTaken(page, c), c), c) ELSE page
            /\ Resumes(c, Settled(shown, c.n), {})
            /\ page.name = "users" /\ c.kind = "list" /\ c.status # "pending"
      BY <2>1 DEF UsersListed
    <3>2. /\ Tabled(page.name) /\ DirFields \cup {"name"} \subseteq DOMAIN shown
          /\ shown.name = page.name /\ shown.acts = page.acts /\ shown.gen = page.gen
          /\ shown.resigning = page.resigning
      BY <3>1 DEF Tabled, Named, DirOwn, DirTypes, DirFields, UsersTaken,
         RoutesTaken, Shows, Loaded
    <3>3. IF ~Newest(c)
          THEN /\ shown.rows = page.rows /\ shown.available = page.available
               /\ shown.deleting = page.deleting
          ELSE IF Ok(c)
          THEN /\ shown.rows = c.rows /\ shown.available = page.available
               /\ shown.deleting = IF DOMAIN c.rows = {} THEN {} ELSE page.deleting
          ELSE ~shown.available
      BY <3>1 DEF DirOwn, DirTypes, DirFields, UsersTaken, RoutesTaken, Shows, Loaded
    <3> QED BY <3>1, <3>2, <3>3, TableListedKeeps
  <2> QED BY <1>2, <2>1 DEF UsersAnswered, UserCreated, UserUpdated, UserDeleted, UsersRefresh
<1>3. CASE GroupsAnswered(c)
  <2>1. CASE GroupsListed(c)
    <3>1. PICK shown, after, side :
            /\ after = [Loaded(page, c) EXCEPT !.side = side]
            /\ shown = IF Ok(c) THEN Shows(after, c.rows)
                       ELSE [Shows(after, NoRows) EXCEPT !.error = TRUE]
            /\ Resumes(c, Settled(shown, c.n), {})
            /\ page.name = "groups" /\ c.kind = "list" /\ c.status # "pending"
      BY <2>1 DEF GroupsListed
    <3>2. page' = Settled(shown, c.n) /\ calls' = calls \ {c} /\ SameServer
      BY <3>1 DEF Resumes, SameServer
    <3>3. /\ DirPage /\ page'.acts = page.acts /\ page'.gen = page.gen
          /\ page'.resigning = Unmarked(page.resigning, c.n)
          /\ ~Numbered(page.name) /\ ~Tabled(page.name)
      BY <3>1, <3>2 DEF Named, DirOwn, DirTypes, DirPage, DirFields, Settled, Shows, Loaded,
         Unmarked, Numbered, Tabled
    <3> QED BY <3>1, <3>2, <3>3, ListKeeps
  <2> QED BY <1>3, <2>1 DEF GroupsAnswered, GroupCreated, GroupUpdated, GroupDeleted, GroupsRefresh
<1>4. CASE CertificatesAnswered(c)
  <2>1. CASE CertificatesListed(c)
    <3>1. PICK shown :
            /\ shown = IF ~Newest(c) THEN page
                       ELSE IF Ok(c) THEN Shows(Loaded(page, c), c.rows)
                       ELSE [Shows(Loaded(page, c), NoRows) EXCEPT !.available = FALSE,
                                                                   !.error = TRUE]
            /\ Resumes(c, Settled(shown, c.n), {})
            /\ page.name = "certificates" /\ c.kind = "list" /\ c.status # "pending"
      BY <2>1 DEF CertificatesListed
    <3>2. /\ Tabled(page.name) /\ DirFields \cup {"name"} \subseteq DOMAIN shown
          /\ shown.name = page.name /\ shown.acts = page.acts /\ shown.gen = page.gen
          /\ shown.resigning = page.resigning
      BY <3>1 DEF Tabled, Named, DirOwn, DirTypes, DirFields, Shows, Loaded
    <3>3. IF ~Newest(c)
          THEN /\ shown.rows = page.rows /\ shown.available = page.available
               /\ shown.deleting = page.deleting
          ELSE IF Ok(c)
          THEN /\ shown.rows = c.rows /\ shown.available = page.available
               /\ shown.deleting = IF DOMAIN c.rows = {} THEN {} ELSE page.deleting
          ELSE ~shown.available
      BY <3>1 DEF DirOwn, DirTypes, DirFields, Shows, Loaded
    <3> QED BY <3>1, <3>2, <3>3, TableListedKeeps
  <2> QED BY <1>4, <2>1 DEF CertificatesAnswered, CertificateCreated, CertificateDeleted,
           CertificateResigned, CertificatesRefresh
<1>5. CASE RulesAnswered(c)
  <2>1. CASE RulesListed(c)
    <3>1. PICK shown, after, side :
            /\ after = [Loaded(page, c) EXCEPT !.side = side]
            /\ shown = IF ~Newest(c) THEN page
                       ELSE IF Ok(c) THEN [after EXCEPT !.rows = c.rows, !.error = @ \/ ~c.side]
                       ELSE [after EXCEPT !.rows = NoRows, !.available = FALSE, !.error = TRUE]
            /\ Resumes(c, shown, {})
            /\ page.name = "rules" /\ c.kind = "list" /\ c.status # "pending"
      BY <2>1 DEF RulesListed
    <3>2. page' = shown /\ calls' = calls \ {c} /\ SameServer /\ (Newest(c) <=> Latest(c))
      BY <3>1 DEF Resumes, SameServer, Newest, Latest
    <3>3. /\ DirPage /\ page'.acts = page.acts /\ page'.gen = page.gen
          /\ page'.resigning = page.resigning /\ ~Tabled(page.name)
          /\ IF ~Newest(c) THEN page'.rows = page.rows /\ page'.available = page.available
             ELSE IF Ok(c) THEN page'.rows = c.rows /\ page'.available = page.available
             ELSE ~page'.available
      BY <3>1, <3>2 DEF Named, DirOwn, DirTypes, DirPage, DirFields, Loaded, Tabled
    <3> QED BY <3>1, <3>2, <3>3, ListKeeps
  <2> QED BY <1>5, <2>1 DEF RulesAnswered, RuleCreated, RuleUpdated, RuleDeleted, RulesRefresh
<1> QED BY <1>1, <1>2, <1>3, <1>4, <1>5 DEF DirectoryAnswered

LEMMA OnDirectories ==
  ASSUME page.name \in Names, Next
  PROVE  \/ DirectoryClick
         \/ \E c \in calls : DirectoryAnswered(c) \/ ServeList(c) \/ ServeChange(c)
BY DEF Hosts, Next, Click, Served, Serve, Resume, OnDirectory, Names, OnForm, FormNames, Auth, Logs

LEMMA DirKept ==
  ASSUME Named, DirInv, [Next]_vars
  PROVE  Named' /\ DirInv'
<1>1. Named' /\ page'.name = page.name
  BY NameStays
<1>2. CASE page.name \notin Names
  BY <1>1, <1>2 DEF DirInv
<1>3. CASE page.name \in Names /\ Next
  BY <1>1, <1>3, OnDirectories, DirClickKeeps, DirAnswerKeeps, ServeListKeeps, ServeChangeKeeps
  DEF DirInv
<1>4. CASE UNCHANGED vars
  <2> SUFFICES ASSUME DirOwn
               PROVE  DirOwn'
    BY <1>1 DEF DirInv
  <2>1. DirFields \subseteq DOMAIN page
    BY DEF DirOwn, DirTypes
  <2> QED BY <1>1, <1>4, <2>1, QuietKeeps DEF vars, DirPage, SameView, SameMarks, SameServer
<1> QED BY <1>2, <1>3, <1>4

LEMMA InitDirectory == Init => DirInv
<1> SUFFICES ASSUME Init, page.name \in Names
             PROVE  DirOwn
  BY DEF DirInv
<1>1. PICK name \in Pages, can \in BOOLEAN :
        page = Mounted(name, can, server) /\ server \in ServersOf(name)
  BY DEF Init
<1>2. name = page.name /\ name \notin FormNames /\ name \notin {"auth", "hosts", "logs"}
  BY <1>1, MountedNamed DEF FormNames, Names
<1>3. server = DirectoryServer /\ page = DirectoryMounted(name, can)
  BY <1>1, <1>2 DEF ServersOf, Mounted
<1>4. calls = IF page.loading THEN {FirstList(page)} ELSE {}
  BY <1>2 DEF Init, FirstCalls
<1>5. /\ DirFields \subseteq DOMAIN page /\ page.acts = 0 /\ page.rows = NoRows
      /\ page.gen \in Nat /\ page.deleting = {} /\ page.resigning = {}
      /\ page.gen > 0 => page.loading
  <2>1. PICK first : first = Page(name, can)
    OBVIOUS
  <2>2. /\ DirFields \subseteq DOMAIN first /\ first.acts = 0 /\ first.rows = NoRows
        /\ first.gen = 0 /\ first.deleting = {} /\ first.resigning = {} /\ first.loading = TRUE
    BY <2>1 DEF Page, DirFields
  <2>3. CASE name = "routes"
    <3>1. page = FetchRoutes(first)
      BY <1>3, <2>1, <2>3 DEF DirectoryMounted, RoutesMounted
    <3> QED BY <2>2, <3>1 DEF FetchRoutes, DirFields
  <2>4. CASE name = "users"
    <3>1. page = FetchUsers(first) \/ page = [first EXCEPT !.loading = FALSE]
      BY <1>3, <2>1, <2>4 DEF DirectoryMounted, UsersMounted
    <3>2. CASE page = FetchUsers(first)
      <4>1. PICK side : page = [first EXCEPT !.gen = @ + 1, !.available = TRUE, !.error = FALSE,
                                             !.side = side]
        BY <3>2 DEF FetchUsers
      <4> QED BY <2>2, <4>1 DEF DirFields
    <3>3. CASE page = [first EXCEPT !.loading = FALSE]
      BY <2>2, <3>3 DEF DirFields
    <3> QED BY <3>1, <3>2, <3>3
  <2>5. CASE name = "groups"
    <3>1. page = FetchGroups(first)
      BY <1>3, <2>1, <2>5 DEF DirectoryMounted, GroupsMounted
    <3> QED BY <2>2, <3>1 DEF FetchGroups, DirFields
  <2>6. CASE name = "certificates"
    <3>1. page = FetchCertificates(first)
      BY <1>3, <2>1, <2>6 DEF DirectoryMounted, CertificatesMounted
    <3> QED BY <2>2, <3>1 DEF FetchCertificates, DirFields
  <2>7. CASE name = "rules"
    <3>1. page = FetchRules(first)
      BY <1>3, <2>1, <2>7 DEF DirectoryMounted, RulesMounted
    <3>2. PICK side : page = [first EXCEPT !.gen = @ + 1, !.available = TRUE, !.error = FALSE,
                                           !.side = side]
      BY <3>1 DEF FetchRules
    <3> QED BY <2>2, <3>2 DEF DirFields
  <2> QED BY <1>2, <2>3, <2>4, <2>5, <2>6, <2>7 DEF Names
<1>6. \A c \in calls :
        /\ c = FirstList(page) /\ DirCallFields \subseteq DOMAIN c /\ c.kind = "list"
        /\ c.n = 0 /\ c.after = "none" /\ c.gen = page.gen /\ c.status = "pending" /\ DOMAIN c.rows = {}
  BY <1>4, NewFirstList
<1>7. page.gen > 0 => \E c \in calls : Latest(c)
  <2> SUFFICES ASSUME page.gen > 0
               PROVE  \E c \in calls : Latest(c)
    OBVIOUS
  <2>1. PICK c : c = FirstList(page)
    OBVIOUS
  <2>2. c \in calls
    BY <1>4, <1>5, <2>1
  <2> QED BY <1>6, <2>2 DEF Latest
<1>8. DirTypes /\ DirApart /\ ResignsMarked /\ \A c \in calls : DirCall(c)
  BY <1>3, <1>5, <1>6
  DEF DirTypes, DirApart, ResignsMarked, DirCall, DirectoryServer, Of
<1>9. Fresher /\ DeletesMarked
  BY <1>5, <1>6, <1>7 DEF Fresher, DeletesMarked, Of, Ok, Shown, NoRows
<1> QED BY <1>8, <1>9 DEF DirOwn

(* A page whose requests are all answered shows what the server holds,       *)
(* however many changes and refreshes overlapped (RoutesPage.tsx fetchRoutes, *)
(* UsersPage.tsx, CertificatesPage.tsx, AuthRulesPage.tsx fetchData).        *)
THEOREM SettledPages == Spec => []SettledShowsServer
<1>1. DirInv => SettledShowsServer
  BY DEF DirInv, DirOwn, Fresher, Changed, SettledShowsServer, Names, Numbered
<1> QED BY <1>1, InitNamed, InitDirectory, DirKept, PTL DEF Spec

(* However fast the clicks come and whichever answers are late, no route,    *)
(* user or certificate gets a second request to delete it before the first   *)
(* failed or the refresh after it is done, where no list failed, and no      *)
(* certificate a second one to sign it again. Groups and rules are left out  *)
(* (DataTable.tsx handleDelete, CertificatesPage.tsx handleResign).          *)
THEOREM RowsOneByOne == Spec => []OneRequestPerRow
<1>1. DirInv => OneRequestPerRow
  <2> SUFFICES ASSUME DirInv, page.name \in Names, NEW r \in Rows
               PROVE  /\ Cardinality(Acting("resign", r)) <= 1
                      /\ page.name \notin {"groups", "rules"} /\ "list" \notin faults =>
                           Cardinality(Acting("delete", r)) <= 1
    BY DEF OneRequestPerRow
  <2>1. DirOwn
    BY DEF DirInv
  <2>2. Cardinality(Acting("resign", r)) <= 1
    <3>1. ASSUME NEW c \in Acting("resign", r), NEW d \in Acting("resign", r)
          PROVE  c = d
      <4>1. PICK m, k : m = <<c.row, c.n>> /\ k = <<d.row, d.n>>
        OBVIOUS
      <4>2. m \in page.resigning /\ k \in page.resigning
        BY <2>1, <4>1 DEF DirOwn, ResignsMarked, Acting
      <4>3. m[1] = c.row /\ m[2] = c.n /\ k[1] = d.row /\ k[2] = d.n
        BY <4>1, MarkParts
      <4>4. m = k
        BY <2>1, <4>2, <4>3 DEF DirOwn, ResignsMarked, Acting
      <4> QED BY <2>1, <4>3, <4>4 DEF DirOwn, DirApart, Acting
    <3> QED BY <3>1, AtMostOne
  <2>3. ASSUME page.name \notin {"groups", "rules"}, "list" \notin faults
        PROVE  Cardinality(Acting("delete", r)) <= 1
    <3>1. Tabled(page.name)
      BY <2>3 DEF Tabled, Names
    <3>2. \A c, d \in Acting("delete", r) : c = d
      BY <2>1, <2>3, <3>1 DEF DirOwn, DeletesMarked, Acting
    <3> QED BY <3>2, AtMostOne
  <2> QED BY <2>2, <2>3
<1> QED BY <1>1, InitNamed, InitDirectory, DirKept, PTL DEF Spec
=============================================================================
