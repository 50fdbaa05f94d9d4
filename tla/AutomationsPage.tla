--------------------------- MODULE AutomationsPage ---------------------------
(***************************************************************************)
(* /automations, as an administrator sees it: the list, the form that      *)
(* creates and edits, removal, and the modal that executes.  The modal     *)
(* fills its form from the user's last execution, or else from the         *)
(* automation's default parameters, or else with nothing.  Of an           *)
(* automation only matters whether it has default parameters; a job is its *)
(* automation and its place among the jobs the user submitted.             *)
(***************************************************************************)
EXTENDS Page

CONSTANTS
    AutomationsActs,   \* bounds the model: what the user does
    MaxRuns            \* bounds the model: jobs the user submits

ASSUME AutomationsBounds == AutomationsActs \in Nat

(* What the text of the default parameters is: an object, some other JSON, *)
(* no JSON, or nothing.                                                    *)
DefaultsText == {"object", "array", "invalid", "none"}

NoEditor == [open |-> FALSE, id |-> 0, defaults |-> "none", error |-> FALSE]

Unmounted == [mounted |-> FALSE, source |-> "none", of |-> 0]
NoModal == [id |-> 0, defaults |-> FALSE, force |-> FALSE, form |-> Unmounted]

AutomationsInit ==
    /\ ui = [page |-> "automations", query |-> NewQuery, last |-> NewQuery, sent |-> {},
             editor |-> NoEditor, modal |-> NoModal, dialog |-> 0, viewing |-> 0]
    /\ srv = [rows |-> <<[live |-> TRUE, defaults |-> TRUE], [live |-> TRUE, defaults |-> FALSE]>>,
              jobs |-> <<1>>]
    /\ left = Bounds(AutomationsActs)

OnAutomations == ui.page = "automations"

-----------------------------------------------------------------------------
(* The list, and the parameters of the last job for the modal: the latest  *)
(* of the user's jobs for that automation, 0 for none.                     *)

AutomationsKey == 0

Automations ==
    {[id |-> a, defaults |-> srv.rows[a].defaults] :
        a \in {b \in 1..Len(srv.rows) : srv.rows[b].live}}

AutomationRows == IF HasData(ui.query, AutomationsKey) THEN ui.query.cache[AutomationsKey] ELSE {}

LastParams(a) ==
    LET mine == {j \in 1..Len(srv.jobs) : srv.jobs[j] = a}
    IN IF mine = {} THEN 0 ELSE CHOOSE j \in mine : \A k \in mine : k <= j

-----------------------------------------------------------------------------
(* The modal. *)

Open == ui.modal # NoModal
AtAutomations == OnAutomations /\ ~Open /\ ~ui.editor.open /\ ui.dialog = 0

(* Mutant: one key for the last parameters of every automation. *)
ParamsKeyOfUser(u) == 1

ParamsKey(u) == u.modal.id

Loading(u) == ~HasData(u.last, ParamsKey(u)) /\ ParamsKey(u) \notin u.last.failed
LastRun(u) == IF HasData(u.last, ParamsKey(u)) THEN u.last.cache[ParamsKey(u)] ELSE 0

Source(u) == IF Loading(u) THEN "loading"
             ELSE IF LastRun(u) # 0 /\ ~u.modal.force THEN "last"
             ELSE IF u.modal.defaults THEN "defaults" ELSE "empty"

(* The key of DynamicParameterForm: another key mounts another form. *)
FormKey(u) == <<u.modal.id, Source(u)>>

(* of is the execution the values are of, 0 for none. *)
Filled(u) == [mounted |-> TRUE, source |-> Source(u),
              of |-> IF Source(u) = "last" THEN LastRun(u) ELSE 0]

(* What the modal shows after a change: a form under the same key keeps    *)
(* the values it was filled with.                                          *)
Rendered(u) ==
    IF u.modal = NoModal \/ Source(u) = "loading" THEN [u EXCEPT !.modal.form = Unmounted]
    ELSE IF ui.modal.form.mounted /\ FormKey(u) = FormKey(ui) THEN u
    ELSE [u EXCEPT !.modal.form = Filled(u)]

Render(u) == ui' = Rendered(u)

FetchAutomations ==
    /\ OnAutomations /\ NeedsFetch(ui.query, AutomationsKey)
    /\ Render([ui EXCEPT !.query = StartFetch(@, AutomationsKey, Automations)])
    /\ Free /\ UNCHANGED srv

DeliverAutomations ==
    /\ OnAutomations
    /\ \E f \in ui.query.fetching : Render([ui EXCEPT !.query = Deliver(@, f)])
    /\ Free /\ UNCHANGED srv

FetchLast ==
    /\ OnAutomations /\ Open /\ NeedsFetch(ui.last, ParamsKey(ui))
    /\ Render([ui EXCEPT !.last = StartFetch(@, ParamsKey(ui), LastParams(ui.modal.id))])
    /\ Free /\ UNCHANGED srv

DeliverLast ==
    /\ OnAutomations
    /\ \E f \in ui.last.fetching : Render([ui EXCEPT !.last = Deliver(@, f)])
    /\ Free /\ UNCHANGED srv

LoseLast ==
    /\ OnAutomations
    /\ \E f \in ui.last.fetching : Render([ui EXCEPT !.last = Fail(@, f, LastParams(f.key))])
    /\ Loss /\ UNCHANGED srv

(* The window gets the focus back, or the network returns: what is older   *)
(* than the stale time is fetched again.                                   *)
Refocus ==
    /\ OnAutomations /\ Open
    /\ Render([ui EXCEPT !.last.due = @ \cup {ParamsKey(ui)}])
    /\ Change /\ UNCHANGED srv

ClickExecutar ==
    /\ AtAutomations
    /\ \E a \in AutomationRows :
         Render([ui EXCEPT !.modal = [NoModal EXCEPT !.id = a.id, !.defaults = a.defaults]])
    /\ Act /\ UNCHANGED srv

(* "Voltar ao padrão". *)
BackToDefaults ==
    /\ OnAutomations /\ Open /\ Source(ui) = "last"
    /\ Render([ui EXCEPT !.modal.force = TRUE])
    /\ Act /\ UNCHANGED srv

CloseModal ==
    /\ OnAutomations /\ Open
    /\ Render([ui EXCEPT !.modal = NoModal])
    /\ Act /\ UNCHANGED srv

-----------------------------------------------------------------------------
(* Requests. *)

(* The acts that are left tell requests alike apart. *)
SendAutomation(op, id, defaults) ==
    /\ ui' = [ui EXCEPT !.dialog = 0,
                        !.sent = @ \cup {[op |-> op, id |-> id, defaults |-> defaults,
                                          state |-> "sent", job |-> 0, n |-> left.acts]}]
    /\ UNCHANGED srv

Executar ==
    /\ OnAutomations /\ ui.modal.form.mounted
    /\ ~Pending(ui.sent, "execute")
    /\ SendAutomation("execute", ui.modal.id, FALSE)
    /\ Act

OpenAutomation(id, defaults) ==
    /\ AtAutomations
    /\ ui' = [ui EXCEPT !.editor = [open |-> TRUE, id |-> id, error |-> FALSE,
                                    defaults |-> IF defaults THEN "object" ELSE "none"]]
    /\ Act /\ UNCHANGED srv

NewAutomation == OpenAutomation(0, FALSE)
EditAutomation == OnAutomations /\ \E a \in AutomationRows : OpenAutomation(a.id, a.defaults)

TypeDefaults ==
    /\ OnAutomations /\ ui.editor.open
    /\ \E t \in DefaultsText \ {ui.editor.defaults} : ui' = [ui EXCEPT !.editor.defaults = t]
    /\ Act /\ UNCHANGED srv

(* "Validar e formatar" takes any JSON, submission an object or nothing. *)
FormatDefaults ==
    /\ OnAutomations /\ ui.editor.open /\ ui.editor.defaults # "none"
    /\ ui' = [ui EXCEPT !.editor.error = ui.editor.defaults = "invalid"]
    /\ Act /\ UNCHANGED srv

SubmitAutomation ==
    /\ OnAutomations /\ ui.editor.open
    /\ \/ /\ ui.editor.defaults \in {"array", "invalid"}
          /\ ui' = [ui EXCEPT !.editor.error = TRUE]
          /\ UNCHANGED srv
       \/ /\ ui.editor.defaults \in {"object", "none"}
          /\ LET op == IF ui.editor.id = 0 THEN "create" ELSE "update"
             IN /\ ~Pending(ui.sent, op)
                /\ SendAutomation(op, ui.editor.id, ui.editor.defaults = "object")
    /\ Act

CloseAutomation ==
    /\ OnAutomations /\ ui.editor.open
    /\ ui' = [ui EXCEPT !.editor = NoEditor]
    /\ Act /\ UNCHANGED srv

ClickRemover ==
    /\ AtAutomations
    /\ \E a \in AutomationRows : ui' = [ui EXCEPT !.dialog = a.id]
    /\ Act /\ UNCHANGED srv

ConfirmRemover ==
    OnAutomations /\ ui.dialog # 0 /\ SendAutomation("remove", ui.dialog, FALSE) /\ Free

DeclineRemover ==
    /\ OnAutomations /\ ui.dialog # 0
    /\ ui' = [ui EXCEPT !.dialog = 0]
    /\ Free /\ UNCHANGED srv

CloseJob ==
    /\ OnAutomations /\ ui.viewing # 0
    /\ ui' = [ui EXCEPT !.viewing = 0]
    /\ Free /\ UNCHANGED srv

(* A row that is gone is refused; any answer may be lost. *)
AutomationAccepted(m) == /\ m.id # 0 => srv.rows[m.id].live
                         /\ m.op = "execute" => Len(srv.jobs) < MaxRuns

AutomationEffect(m) ==
    CASE m.op = "execute" -> [srv EXCEPT !.jobs = Append(@, m.id)]
      [] m.op = "create"  -> [srv EXCEPT !.rows =
                                 Append(@, [live |-> TRUE, defaults |-> m.defaults])]
      [] m.op = "update"  -> [srv EXCEPT !.rows[m.id].defaults = m.defaults]
      [] OTHER            -> [srv EXCEPT !.rows[m.id].live = FALSE]

ServeAutomations ==
    /\ OnAutomations
    /\ \E m \in ui.sent, lost \in BOOLEAN :
         /\ m.state = "sent"
         /\ srv' = IF AutomationAccepted(m) THEN AutomationEffect(m) ELSE srv
         /\ ui' = [ui EXCEPT !.sent = (@ \ {m}) \cup
                     {[m EXCEPT !.state = IF AutomationAccepted(m) /\ ~lost THEN "ok" ELSE "error",
                                !.job = Len(srv'.jobs)]}]
         /\ IF lost THEN Loss ELSE Free

(* onSuccess.  A job closes the modal and opens its panel; an automation   *)
(* closes the editor of its kind.  The key of the list is a prefix of      *)
(* every key of last parameters.                                           *)
AutomationSucceeded(m) ==
    IF m.op = "execute"
    THEN [ui EXCEPT !.sent = @ \ {m}, !.last = Invalidate(@, m.id),
                    !.modal = NoModal, !.viewing = m.job]
    ELSE [ui EXCEPT !.sent = @ \ {m}, !.query = Invalidate(@, AutomationsKey),
                    !.last = Invalidate(@, ui.modal.id),
                    !.editor = IF \/ m.op = "create" /\ @.id = 0
                                  \/ m.op = "update" /\ @.id # 0 THEN NoEditor ELSE @]

AutomationAnswered ==
    /\ OnAutomations
    /\ \E m \in ui.sent :
         \/ m.state = "ok" /\ Render(AutomationSucceeded(m))
         \/ m.state = "error" /\ ui' = [ui EXCEPT !.sent = @ \ {m}]
    /\ Free /\ UNCHANGED srv

-----------------------------------------------------------------------------
AutomationsNext ==
    \/ FetchAutomations \/ DeliverAutomations \/ FetchLast \/ DeliverLast \/ LoseLast \/ Refocus
    \/ ClickExecutar \/ BackToDefaults \/ CloseModal \/ Executar
    \/ NewAutomation \/ EditAutomation \/ TypeDefaults \/ FormatDefaults
    \/ SubmitAutomation \/ CloseAutomation
    \/ ClickRemover \/ ConfirmRemover \/ DeclineRemover \/ CloseJob
    \/ ServeAutomations \/ AutomationAnswered

AutomationsSpec == AutomationsInit /\ [][AutomationsNext]_webVars

-----------------------------------------------------------------------------
(* Properties *)

(* The values in the form are those of an execution of the automation that *)
(* the modal executes, and of no execution once the user has gone back to  *)
(* the default: whatever is cached, fetched again or fails, and whatever   *)
(* modal was open before, another automation's values never get in.        *)
FormSuitsModal ==
    OnAutomations /\ ui.modal.form.mounted /\ ui.modal.form.source = "last"
        => srv.jobs[ui.modal.form.of] = ui.modal.id /\ ~ui.modal.force

(* The form with the badge "última execução" is filled from the user's     *)
(* last execution (docs/automations.md, "lastUserParams"), the last one    *)
(* that the client knows of.  It is not: when a newer one arrives the key  *)
(* of the form stays, and the form with it, under the same badge.          *)
BadgeTellsSource ==
    OnAutomations /\ ui.modal.form.mounted /\ Source(ui) = "last"
        => ui.modal.form.of = LastRun(ui)

=============================================================================
