------------------------------ MODULE HostsPage ------------------------------
(* HostsPage: the profiles of host names, of which the server has at most    *)
(* one active, the entries of the selected one, and the dialogs that add and *)
(* edit them. A profile is shown with its active marker, entries are the     *)
(* profile they are of. The forms have no guard but their disabled button,   *)
(* and so have the profile buttons while a profile is applied: the page is   *)
(* rendered before the next click.                                           *)
EXTENDS Directory

Apply == {"activate", "deactivate"}

(* Profiles being alike, it does not matter which of them is active.         *)
HostsServers == [rows: {[r \in InitialRows |-> Original]}, taken: {FALSE},
                 active: {None, CHOOSE r \in InitialRows : TRUE}]
NoProfiles == [r \in {} |-> FALSE]

HostsMounted(can) ==
  [name |-> "hosts", can |-> can, loading |-> TRUE, acts |-> 0,
   profiles |-> NoProfiles, selected |-> None, entries |-> None,
   applying |-> 0, form |-> "none", editing |-> None, submit |-> 0]

(* after: the handler that asked for the profiles.                           *)
HostsCall(kind, n, row, after) ==
  [kind |-> kind, n |-> n, row |-> row, after |-> after,
   status |-> "pending", profiles |-> NoProfiles]
EntriesCall(r) == HostsCall("entries", 0, r, "none")

Hosts == page.name = "hosts"
HostsAct == Hosts /\ page.can /\ ~page.loading /\ page.form = "none"
Listing == page.profiles # NoProfiles

(* setSelectedProfileId, and the effect that fetches its entries.            *)
Selects(p, r) == [p EXCEPT !.selected = r]
EntriesOf(p, r) ==
  IF r \in {None, p.selected} \/ p.loading THEN {} ELSE {EntriesCall(r)}

SelectProfile ==
  /\ Hosts /\ ~page.loading /\ page.form = "none"
  /\ page.applying = 0 /\ page.acts < MaxActs
  /\ \E r \in DOMAIN page.profiles \ {page.selected} :
       Handles([Selects(page, r) EXCEPT !.acts = @ + 1], EntriesOf(page, r))

(* fetchEntries after its await: nothing tells whose entries they are.       *)
EntriesListed(c) ==
  /\ Answered(c, "hosts", "entries") /\ c.after # "mount"
  /\ Resumes(c, IF Ok(c) THEN [page EXCEPT !.entries = c.row] ELSE page, {})

(* The mount effect selects the active profile or else the first, fetches    *)
(* its entries and, whatever happens, leaves the spinner; the effect of the  *)
(* selection then fetches them again.                                        *)
Preferred(profiles) ==
  LET active == {r \in DOMAIN profiles : profiles[r]}
  IN IF active # {} THEN active ELSE DOMAIN profiles

FirstListed(c) ==
  /\ c.after = "mount"
  /\ \/ /\ Ok(c) /\ c.profiles # NoProfiles
        /\ \E r \in Preferred(c.profiles) :
             Resumes(c, [Selects(page, r) EXCEPT !.profiles = c.profiles],
                     {HostsCall("entries", 0, r, "mount")})
     \/ /\ ~Ok(c) \/ c.profiles = NoProfiles
        /\ Resumes(c, Loaded(page, c), {})

FirstEntries(c) ==
  /\ Answered(c, "hosts", "entries") /\ c.after = "mount"
  /\ Resumes(c, Loaded(IF Ok(c) THEN [page EXCEPT !.entries = c.row] ELSE page, c),
             {EntriesCall(c.row)})

-----------------------------------------------------------------------------
(* Applying a profile: one at a time (actionInFlight).                       *)

ApplyProfile ==
  LET n == page.acts + 1
  IN /\ HostsAct /\ page.applying = 0 /\ page.acts < MaxActs
     /\ page.selected \in DOMAIN page.profiles
     /\ \E action \in Apply :
          /\ action = "deactivate" => page.profiles[page.selected]
          /\ Handles([page EXCEPT !.acts = n, !.applying = n],
                     {HostsCall(action, n, page.selected, "none")})

(* Mutant: the other profiles keep their markers.                            *)
OthersKept(profiles, r, action) ==
  [q \in DOMAIN profiles |-> IF q = r THEN action = "activate" ELSE profiles[q]]

(* The profile answered replaces its row, and activating it clears the       *)
(* others.                                                                   *)
Marked(profiles, r, action) ==
  [q \in DOMAIN profiles |->
     IF q = r THEN action = "activate" ELSE profiles[q] /\ action # "activate"]

Applied(c) ==
  /\ \E action \in Apply : Answered(c, "hosts", action)
  /\ Resumes(c,
       [page EXCEPT !.applying = 0,
          !.profiles = IF Ok(c) THEN Marked(@, c.row, c.kind) ELSE @], {})

-----------------------------------------------------------------------------
(* The dialogs. An edited entry is of the profile whose entries are shown,   *)
(* its change goes to the selected one.                                      *)

OpenHostsForm ==
  /\ HostsAct
  /\ \/ Handles([page EXCEPT !.form = "addProfile"], {})
     \/ /\ page.selected \in DOMAIN page.profiles /\ page.applying = 0
        /\ Handles([page EXCEPT !.form = "editProfile",
                                !.editing = page.selected], {})
     \/ Listing /\ Handles([page EXCEPT !.form = "addEntry"], {})
     \/ Listing /\ page.entries # None
        /\ Handles([page EXCEPT !.form = "editEntry"], {})

HostsFormClosed(p) ==
  [p EXCEPT !.form = "none", !.editing = None, !.submit = 0]

CloseHostsForm ==
  Hosts /\ page.form # "none" /\ Handles(HostsFormClosed(page), {})

(* handleSubmit of HostProfileForm and HostEntryForm with a valid input.     *)
SubmitHostsForm ==
  LET n == page.acts + 1
      Sends(kind, row) ==
        Handles([page EXCEPT !.acts = n, !.submit = n],
                {HostsCall(kind, n, row, page.form)})
  IN /\ Hosts /\ page.form # "none" /\ page.submit = 0 /\ page.acts < MaxActs
     /\ \/ page.form = "addProfile" /\ Sends("create", None)
        \/ page.form = "editProfile" /\ Sends("update", page.editing)
        \/ /\ page.form \in {"addEntry", "editEntry"} /\ page.selected # None
           /\ Sends("entry", page.selected)

(* handleDeleteEntry and handleToggleEntry, handleDeleteProfile.             *)
ChangeListed ==
  LET n == page.acts + 1
      Sends(kind) == Handles([page EXCEPT !.acts = n],
                             {HostsCall(kind, n, page.selected, "none")})
  IN /\ HostsAct /\ Listing /\ page.acts < MaxActs
     /\ \/ page.entries # None /\ page.selected # None /\ Sends("entry")
        \/ /\ page.selected \in DOMAIN page.profiles /\ page.applying = 0
           /\ Sends("delete")

(* The form that is there is told of a failure of its own submission; one    *)
(* whose handler succeeded is closed, whichever of its kind is open by now.  *)
FormSettled(c) ==
  IF Ok(c) /\ page.form = c.after THEN HostsFormClosed(page)
  ELSE SubmitFailed(page, c.n)

EntryChanged(c) ==
  /\ Answered(c, "hosts", "entry")
  /\ Resumes(c, FormSettled(c), IF Ok(c) THEN {EntriesCall(c.row)} ELSE {})

(* The handlers of profiles ask for all of them again.                       *)
ProfileChanged(c) ==
  /\ \E kind \in {"create", "update", "delete"} :
       /\ Answered(c, "hosts", kind)
       /\ Resumes(c, FormSettled(c),
                  IF Ok(c) THEN {HostsCall("profiles", c.n, None, kind)} ELSE {})

(* The rest of them: after a creation a profile is selected if none is,      *)
(* after a deletion the first whichever is (only the profile selected at the *)
(* click is deleted, and the handler still sees that one).                   *)
ProfilesListed(c) ==
  /\ Answered(c, "hosts", "profiles")
  /\ \/ FirstListed(c)
     \/ /\ c.after # "mount"
        /\ LET selects == \/ c.after = "create" /\ page.selected = None
                          \/ c.after = "delete"
               listed == [page EXCEPT !.profiles = c.profiles]
           IN IF Ok(c) /\ selects /\ c.profiles # NoProfiles
              THEN \E r \in DOMAIN c.profiles :
                     Resumes(c, Selects(listed, r), EntriesOf(page, r))
              ELSE Resumes(c, IF ~Ok(c) THEN page
                              ELSE IF c.after = "delete"
                              THEN Selects(listed, None) ELSE listed, {})

-----------------------------------------------------------------------------
(* The server; profiles are created, updated and deleted as any rows.        *)

ServeHosts(c) ==
  /\ c.kind \in {"profiles", "entries", "entry"} \cup Apply
  /\ c.status = "pending"
  /\ \/ Answers(c, "failed") /\ UNCHANGED server
     \/ /\ c.kind = "profiles" /\ UNCHANGED server
        /\ calls' = (calls \ {c}) \cup
             {[c EXCEPT !.status = "ok",
                        !.profiles = [r \in Living(server.rows) |->
                                        r = server.active]]}
     \/ /\ c.kind \in {"entries", "entry"} /\ c.row \in Living(server.rows)
        /\ Answers(c, "ok") /\ UNCHANGED server
     \/ /\ c.kind \in Apply /\ c.row \in Living(server.rows)
        /\ server' = [server EXCEPT !.active =
                        IF c.kind = "activate" THEN c.row
                        ELSE IF @ = c.row THEN None ELSE @]
        /\ \E s \in {"ok", "failed"} : Answers(c, s)
  /\ UNCHANGED <<page, faults>>

-----------------------------------------------------------------------------
HostsClick ==
  \/ SelectProfile \/ ApplyProfile \/ OpenHostsForm \/ CloseHostsForm
  \/ SubmitHostsForm \/ ChangeListed

HostsAnswered(c) ==
  \/ EntriesListed(c) \/ FirstEntries(c) \/ Applied(c)
  \/ EntryChanged(c) \/ ProfileChanged(c) \/ ProfilesListed(c)

-----------------------------------------------------------------------------
(* Properties.                                                               *)

(* At most one profile is shown as active, whatever lists of profiles,       *)
(* activations and deactivations are answered and in whichever order         *)
(* (HostsPage.test.tsx:65).                                                  *)
OneActiveShown ==
  Hosts => Cardinality({r \in DOMAIN page.profiles : page.profiles[r]}) <= 1
=============================================================================
