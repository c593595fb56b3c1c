---------------------------- MODULE AssignmentForms ----------------------------
(* UserForm and GroupForm: which routes a user or a group is assigned, and   *)
(* which paths of each, with what the users and groups services make of a    *)
(* save. No paths for a route means every path of it.                        *)
EXTENDS FormVisit

NoPaths == [r \in {} |-> {}]

NewUser ==
  [name |-> "", password |-> "", role |-> "member", routes |-> {},
   groups |-> {}, paths |-> NoPaths]
NewGroup == [name |-> "", routes |-> {}, paths |-> NoPaths]

AssignedGroup ==
  [name |-> "a", routes |-> InitialRows,
   paths |-> [r \in InitialRows |-> {"/a"}]]
AssignedUser ==
  [name |-> "a", password |-> "old", role |-> "member",
   routes |-> AssignedGroup.routes, groups |-> {"g"},
   paths |-> AssignedGroup.paths]

(* getInitialUserForm shows no password; getInitialForm.                     *)
UserDraft(user) == [IF user = None THEN NewUser ELSE user
                    EXCEPT !.password = ""]
GroupDraft(group) == IF group = None THEN NewGroup ELSE group

OpenUserForm ==
  /\ page.name = "user form" /\ ~page.show
  /\ OpensDraft(page.listed, UserDraft(page.listed))

OpenGroupForm ==
  /\ page.name = "group form" /\ ~page.show
  /\ OpensDraft(page.listed, GroupDraft(page.listed))

-----------------------------------------------------------------------------
Assigning == MayEdit("user form") \/ MayEdit("group form")

(* Mutant: the paths of a route stay when it is taken away.                  *)
ToggledOnly(draft, r) ==
  [draft EXCEPT !.routes = IF r \in @ THEN @ \ {r} ELSE @ \cup {r}]

(* toggleRoute.                                                              *)
RouteToggled(draft, r) ==
  IF r \in draft.routes
  THEN [draft EXCEPT !.routes = @ \ {r},
                     !.paths = Restrict(@, DOMAIN @ \ {r})]
  ELSE [draft EXCEPT !.routes = @ \cup {r}]

ToggleRoute ==
  Assigning /\ \E r \in page.offered : EditsTo(RouteToggled(page.draft, r))

(* setRoutePaths: what is between the commas. Nothing at all takes the route *)
(* out of the map, commas alone leave it there with no path.                 *)
PathsTyped(text) ==
  CASE text = "/b" -> {"/b"} [] text = "/a, /b" -> {"/a", "/b"} [] OTHER -> {}

SetRoutePaths ==
  /\ Assigning
  /\ \E r \in page.offered \cap page.draft.routes :
       \E text \in {"", ",", "/b", "/a, /b"} :
         EditsTo([page.draft EXCEPT !.paths =
           IF text = "" THEN Restrict(@, DOMAIN @ \ {r})
           ELSE [s \in DOMAIN @ \cup {r} |->
                   IF s = r THEN PathsTyped(text) ELSE @[s]]])

EditUserInput ==
  /\ MayEdit("user form")
  /\ \/ \E v \in {" a ", " "} : EditsTo([page.draft EXCEPT !.name = v])
     \/ \E v \in {"new", " "} : EditsTo([page.draft EXCEPT !.password = v])
     \/ \E v \in {"member", "viewer"} :
          EditsTo([page.draft EXCEPT !.role = v])

ToggleGroup ==
  /\ MayEdit("user form")
  /\ EditsTo([page.draft EXCEPT !.groups = IF "g" \in @ THEN {} ELSE {"g"}])

EditGroupName ==
  /\ MayEdit("group form")
  /\ \E v \in {" a ", " "} : EditsTo([page.draft EXCEPT !.name = v])

CancelAssignment ==
  page.name \in {"user form", "group form"} /\ CancelForm

(* The browser lets no required input be empty: the name and, of a new       *)
(* user, the password. The draft is sent as it is.                           *)
SubmitAssignment ==
  /\ page.name \in {"user form", "group form"} /\ MaySend
  /\ page.draft.name # ""
  /\ page.name = "user form" /\ page.opened = None
     => page.draft.password # ""
  /\ Sends("save", page.draft)

-----------------------------------------------------------------------------
(* The users service keeps the password of a user when none is sent, and     *)
(* wants one for a new user; both services want a name.                      *)
SavedUsers(c) ==
  LET old == IF c.opened = None THEN NewUser ELSE server.row
      new == [c.payload EXCEPT !.name = Trimmed(@),
                !.password = IF Trimmed(@) = "" THEN old.password ELSE @]
  IN {u \in {Merged(old, new)} : u.name # "" /\ u.password # ""}

SavedGroups(c) ==
  LET old == IF c.opened = None THEN NewGroup ELSE server.row
  IN {g \in {Merged(old, [c.payload EXCEPT !.name = Trimmed(@)])} :
        g.name # ""}

(* What the form showed; a blank password stands for the one there is.       *)
AssignmentShown(c, f) ==
  IF f = "name" THEN Trimmed(c.draft.name) ELSE c.draft[f]
AssignmentFieldsShown(c) ==
  {f \in DOMAIN c.draft : f = "password" => Trimmed(c.draft.password) # ""}

AssignmentClick ==
  \/ OpenUserForm \/ OpenGroupForm \/ CancelAssignment \/ ToggleRoute
  \/ SetRoutePaths \/ EditUserInput \/ ToggleGroup \/ EditGroupName
  \/ SubmitAssignment

AssignmentAnswered(c) ==
  SaveAnswered(c, "user form") \/ SaveAnswered(c, "group form")
=============================================================================
