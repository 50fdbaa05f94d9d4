------------------------------ MODULE UsersPage ------------------------------
(***************************************************************************)
(* /users, as the administrator 1 sees it, and the handlers behind it.  A  *)
(* handler reads the user, then writes some columns of the row; requests   *)
(* of this page, of another administrator and of the users themselves run  *)
(* side by side.  A password is the number of times it was changed.        *)
(***************************************************************************)
EXTENDS Page

CONSTANTS
    UsersActs,    \* bounds the model: what the user does
    MaxUsers      \* bounds the model: users in the table

ASSUME UsersBounds == UsersActs \in Nat /\ MaxUsers \in Nat

Roles == {"admin", "viewer"}

NoUser == [role |-> "none", active |-> FALSE, password |-> 0]

ClosedEditor == [kind |-> "closed", id |-> 0, role |-> "none"]

UsersInit ==
    /\ ui = [page |-> "users", includeInactive |-> FALSE, query |-> NewQuery,
             sent |-> {}, editor |-> ClosedEditor, dialog |-> 0]
    /\ srv = LET rows == <<[role |-> "admin", active |-> TRUE, password |-> 0],
                           [role |-> "admin", active |-> TRUE, password |-> 0]>>
             IN [rows |-> rows, asked |-> rows]
    /\ left = Bounds(UsersActs)

OnUsers == ui.page = "users"

-----------------------------------------------------------------------------
(* The list, with the inactive users or without. *)

UsersKey == ui.includeInactive

GetAll(includeInactive) ==
    {[id |-> u, role |-> srv.rows[u].role, active |-> srv.rows[u].active] :
        u \in {v \in 1..Len(srv.rows) : includeInactive \/ srv.rows[v].active}}

Users == IF HasData(ui.query, UsersKey) THEN ui.query.cache[UsersKey] ELSE {}

FetchUsers ==
    /\ OnUsers /\ NeedsFetch(ui.query, UsersKey)
    /\ ui' = [ui EXCEPT !.query = StartFetch(@, UsersKey, GetAll(UsersKey))]
    /\ Free /\ UNCHANGED srv

DeliverUsers ==
    /\ OnUsers
    /\ \E f \in ui.query.fetching : ui' = [ui EXCEPT !.query = Deliver(@, f)]
    /\ Free /\ UNCHANGED srv

LoseUsers ==
    /\ OnUsers
    /\ \E f \in ui.query.fetching : ui' = [ui EXCEPT !.query = Fail(@, f, GetAll(f.key))]
    /\ Loss /\ UNCHANGED srv

(* The rest of the page is behind the list's dialogs. *)
AtList == OnUsers /\ ui.editor = ClosedEditor /\ ui.dialog = 0

ToggleInactive ==
    /\ AtList
    /\ ui' = [ui EXCEPT !.includeInactive = ~@]
    /\ Act /\ UNCHANGED srv

-----------------------------------------------------------------------------
(* Editors.  Each starts from the row as it is shown. *)

OpenEditor(kind, id, role) ==
    /\ AtList
    /\ ui' = [ui EXCEPT !.editor = [kind |-> kind, id |-> id, role |-> role]]
    /\ Act /\ UNCHANGED srv

NewUser   == OpenEditor("create", 0, "viewer")
EditUser  == AtList /\ \E u \in Users : OpenEditor("update", u.id, u.role)
ResetUser == AtList /\ \E u \in Users : OpenEditor("reset", u.id, u.role)

ChangeRole ==
    /\ OnUsers /\ ui.editor.kind \in {"create", "update"}
    /\ \E r \in Roles \ {ui.editor.role} : ui' = [ui EXCEPT !.editor.role = r]
    /\ Act /\ UNCHANGED srv

CloseEditor ==
    /\ OnUsers /\ ui.editor # ClosedEditor
    /\ ui' = [ui EXCEPT !.editor = ClosedEditor]
    /\ Act /\ UNCHANGED srv

(* What is left of the bounds tells requests alike apart. *)
NewRequest(by, op, id, role) ==
    [by |-> by, op |-> op, id |-> id, role |-> role, row |-> NoUser, state |-> "sent",
     n |-> IF by = 1 THEN left.acts ELSE left.changes]

Send(op, id, role) ==
    /\ ui' = [ui EXCEPT !.dialog = 0, !.sent = @ \cup {NewRequest(1, op, id, role)}]
    /\ UNCHANGED srv

(* An editor waits for the answer, the buttons of a row do not. *)
SubmitEditor ==
    /\ OnUsers /\ ui.editor # ClosedEditor
    /\ ~Pending({m \in ui.sent : m.by = 1}, ui.editor.kind)
    /\ Send(ui.editor.kind, ui.editor.id, ui.editor.role)
    /\ Act

(* Deactivation asks first, and is not offered on one's own row. *)
ClickDeactivate ==
    /\ AtList
    /\ \E u \in Users : u.active /\ u.id # 1 /\ ui' = [ui EXCEPT !.dialog = u.id]
    /\ Act /\ UNCHANGED srv

ConfirmDeactivate == OnUsers /\ ui.dialog # 0 /\ Send("deactivate", ui.dialog, "none") /\ Free

DeclineDeactivate ==
    /\ OnUsers /\ ui.dialog # 0
    /\ ui' = [ui EXCEPT !.dialog = 0]
    /\ Free /\ UNCHANGED srv

ClickReactivate ==
    /\ AtList
    /\ \E u \in Users : ~u.active /\ Send("reactivate", u.id, "none")
    /\ Act

(* Another administrator, and users who change their own password. *)
RequestElsewhere ==
    /\ OnUsers
    /\ \E op \in {"update", "deactivate", "reactivate", "reset"}, u \in 1..Len(srv.rows) :
         /\ op = "deactivate" => u # 2
         /\ ui' = [ui EXCEPT !.sent = @ \cup {NewRequest(2, op, u, "viewer")}]
    /\ Change /\ UNCHANGED srv

-----------------------------------------------------------------------------
(* The handlers: GetByID, then the UPDATE of the columns concerned.  asked *)
(* is a history: the last deactivation, reactivation and password that     *)
(* took effect.                                                            *)

ReadUser ==
    /\ OnUsers
    /\ \E m \in ui.sent :
         /\ m.state = "sent" /\ m.op # "create"
         /\ ui' = [ui EXCEPT !.sent = (@ \ {m}) \cup
                     {IF m.op = "deactivate" /\ m.by = m.id
                      THEN [m EXCEPT !.state = "error"]
                      ELSE [m EXCEPT !.state = "read", !.row = srv.rows[m.id]]}]
    /\ Free /\ UNCHANGED srv

(* Mutant: the update writes back the row that was read. *)
UpdateWholeRow(m, row) == [m.row EXCEPT !.role = m.role]

(* UpdateUser and Update: name, e-mail and role. *)
Update(m, row) == [row EXCEPT !.role = m.role]

Written(m, row) ==
    CASE m.op = "update"     -> Update(m, row)
      [] m.op = "deactivate" -> [row EXCEPT !.active = FALSE]
      [] m.op = "reactivate" -> [row EXCEPT !.active = TRUE]
      [] OTHER               -> [row EXCEPT !.password = @ + 1]

(* Only the page waits for an answer, which may be lost. *)
Reply(m, lost) ==
    {n \in {[m EXCEPT !.state = IF lost THEN "error" ELSE "ok", !.row = NoUser]} : m.by = 1}

WriteUser ==
    /\ OnUsers
    /\ \E m \in ui.sent, lost \in BOOLEAN :
         /\ m.state = "read"
         /\ srv' = [rows |-> [srv.rows EXCEPT ![m.id] = Written(m, @)],
                    asked |-> IF m.op = "update" THEN srv.asked
                              ELSE [srv.asked EXCEPT ![m.id] = Written(m, @)]]
         /\ ui' = [ui EXCEPT !.sent = (@ \ {m}) \cup Reply(m, lost)]
         /\ IF lost THEN Loss ELSE Free

CreateUser ==
    /\ OnUsers
    /\ \E m \in ui.sent, lost \in BOOLEAN :
         LET row == [role |-> m.role, active |-> TRUE, password |-> 0]
         IN /\ m.state = "sent" /\ m.op = "create" /\ Len(srv.rows) < MaxUsers
            /\ srv' = [rows |-> Append(srv.rows, row), asked |-> Append(srv.asked, row)]
            /\ ui' = [ui EXCEPT !.sent = (@ \ {m}) \cup Reply(m, lost)]
            /\ IF lost THEN Loss ELSE Free

(* onSuccess: the list is invalidated, and the editor of that kind closes, *)
(* whichever row it is on by now.                                          *)
UserSucceeded ==
    /\ OnUsers
    /\ \E m \in ui.sent :
         /\ m.state = "ok"
         /\ ui' = [ui EXCEPT !.sent = @ \ {m},
                             !.query = IF m.op = "reset" THEN @ ELSE Invalidate(@, UsersKey),
                             !.editor = IF @.kind = m.op THEN ClosedEditor ELSE @]
    /\ Free /\ UNCHANGED srv

UserFailed ==
    /\ OnUsers
    /\ \E m \in ui.sent :
         /\ m.state = "error"
         /\ ui' = [ui EXCEPT !.sent = @ \ {m}]
    /\ Free /\ UNCHANGED srv

-----------------------------------------------------------------------------
UsersNext ==
    \/ FetchUsers \/ DeliverUsers \/ LoseUsers \/ ToggleInactive
    \/ NewUser \/ EditUser \/ ResetUser \/ ChangeRole \/ CloseEditor \/ SubmitEditor
    \/ ClickDeactivate \/ ConfirmDeactivate \/ DeclineDeactivate \/ ClickReactivate
    \/ RequestElsewhere \/ ReadUser \/ WriteUser \/ CreateUser
    \/ UserSucceeded \/ UserFailed

UsersSpec == UsersInit /\ [][UsersNext]_webVars

-----------------------------------------------------------------------------
(* Properties *)

(* Whatever runs side by side, a user is active exactly if the last        *)
(* deactivation or reactivation said so, and has the password last set:    *)
(* an update of the profile brings neither back.                           *)
AccountAsAsked ==
    OnUsers => \A u \in 1..Len(srv.rows) :
                 /\ srv.rows[u].active = srv.asked[u].active
                 /\ srv.rows[u].password = srv.asked[u].password

=============================================================================
