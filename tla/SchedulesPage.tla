---------------------------- MODULE SchedulesPage ----------------------------
(***************************************************************************)
(* /schedules, as an administrator sees it: the list, the form that        *)
(* creates, duplicates and edits, the switch of a row and its removal.     *)
(* A schedule is its automation, whether it is enabled and which of the    *)
(* automation's parameters it sets; of a cron expression only matters      *)
(* whether there is one.                                                   *)
(***************************************************************************)
EXTENDS Page

CONSTANT SchedulesActs   \* bounds the model: what the user does

ASSUME SchedulesBounds == SchedulesActs \in Nat

AutomationIds == 1..3

(* The automations' parameter schemas: the third has none. *)
Schema(a) == CASE a = 1 -> {"stores"} [] a = 2 -> {"month"} [] OTHER -> {}

NoForm == [id |-> 0, automationId |-> 0, cron |-> FALSE, isEnabled |-> FALSE,
           parameters |-> {}, values |-> {}, open |-> FALSE]

FirstRow == [automationId |-> 1, isEnabled |-> TRUE, parameters |-> {"stores"}]

SchedulesInit ==
    /\ ui = [page |-> "schedules", query |-> NewQuery, sent |-> {}, form |-> NoForm,
             dialog |-> 0, seen |-> 0]
    /\ srv = [rows |-> <<FirstRow>>, version |-> 0]
    /\ left = Bounds(SchedulesActs)

OnSchedules == ui.page = "schedules"

-----------------------------------------------------------------------------
(* The list: one key.  GET /schedules gives the enabled schedules. *)

Rows == {i \in 1..Len(srv.rows) : srv.rows[i].automationId # 0}

Schedules == [version |-> srv.version,
              rows |-> {[id |-> i, row |-> srv.rows[i]] :
                           i \in {r \in Rows : srv.rows[r].isEnabled}}]

SchedulesKey == "schedules"

Loaded == HasData(ui.query, SchedulesKey)
Shown == IF Loaded THEN ui.query.cache[SchedulesKey].rows ELSE {}

FetchSchedules ==
    /\ OnSchedules /\ NeedsFetch(ui.query, SchedulesKey)
    /\ ui' = [ui EXCEPT !.query = StartFetch(@, SchedulesKey, Schedules)]
    /\ Free /\ UNCHANGED srv

DeliverSchedules ==
    /\ OnSchedules
    /\ \E f \in ui.query.fetching : ui' = [ui EXCEPT !.query = Deliver(@, f)]
    /\ Free /\ UNCHANGED srv

LoseSchedules ==
    /\ OnSchedules
    /\ \E f \in ui.query.fetching : ui' = [ui EXCEPT !.query = Fail(@, f, Schedules)]
    /\ Loss /\ UNCHANGED srv

-----------------------------------------------------------------------------
(* The form.  values is what DynamicParameterForm holds: it is mounted     *)
(* with the form's parameters when an automation with a schema comes up,   *)
(* and stays mounted when another one with a schema is chosen.             *)

Mount(form) == [form EXCEPT !.values = form.parameters \cap Schema(form.automationId)]

OpenForm(form) ==
    /\ ~ui.form.open /\ ui.dialog = 0
    /\ ui' = [ui EXCEPT !.form = Mount([form EXCEPT !.open = TRUE])]
    /\ Act /\ UNCHANGED srv

FormOf(s, id) == [id |-> id, automationId |-> s.row.automationId, cron |-> TRUE,
                  isEnabled |-> s.row.isEnabled, parameters |-> s.row.parameters,
                  values |-> {}, open |-> TRUE]

NewSchedule == OnSchedules /\ OpenForm([NoForm EXCEPT !.isEnabled = TRUE])
Duplicate   == OnSchedules /\ \E s \in Shown : OpenForm(FormOf(s, 0))
Edit        == OnSchedules /\ \E s \in Shown : OpenForm(FormOf(s, s.id))

InForm == OnSchedules /\ ui.form.open

(* Mutant: the parameters of the automation chosen before stay. *)
ChangeAutomationOnly(a) ==
    /\ InForm /\ a # ui.form.automationId
    /\ LET next == [ui.form EXCEPT !.automationId = a]
       IN ui' = [ui EXCEPT !.form = IF Schema(ui.form.automationId) # {} /\ Schema(a) # {}
                                    THEN next ELSE Mount(next)]
    /\ Act /\ UNCHANGED srv

ChangeAutomation(a) ==
    /\ InForm /\ a # ui.form.automationId
    /\ LET next == [ui.form EXCEPT !.automationId = a, !.parameters = {}]
       IN ui' = [ui EXCEPT !.form = IF Schema(ui.form.automationId) # {} /\ Schema(a) # {}
                                    THEN next ELSE Mount(next)]
    /\ Act /\ UNCHANGED srv

ChangeCron ==
    /\ InForm
    /\ ui' = [ui EXCEPT !.form.cron = ~@]
    /\ Act /\ UNCHANGED srv

ChangeEnabled ==
    /\ InForm
    /\ ui' = [ui EXCEPT !.form.isEnabled = ~@]
    /\ Act /\ UNCHANGED srv

TypeParameter ==
    /\ InForm
    /\ \E f \in Schema(ui.form.automationId) \ ui.form.values :
         ui' = [ui EXCEPT !.form.values = @ \cup {f}]
    /\ Act /\ UNCHANGED srv

CloseForm ==
    /\ InForm
    /\ ui' = [ui EXCEPT !.form = NoForm]
    /\ Act /\ UNCHANGED srv

(* With a schema DynamicParameterForm submits, the fields of the schema    *)
(* that have a value; without one a button does, given a cron expression.  *)
Submitted ==
    IF Schema(ui.form.automationId) # {}
    THEN ui.form.values \cap Schema(ui.form.automationId)
    ELSE ui.form.parameters

(* The acts that are left tell requests alike apart. *)
Request(op, id, valid, row) ==
    /\ ui' = [ui EXCEPT !.dialog = 0,
                        !.sent = @ \cup {[op |-> op, id |-> id, valid |-> valid, row |-> row,
                                          loaded |-> Loaded, version |-> 0, state |-> "sent",
                                          n |-> left.acts]}]
    /\ UNCHANGED srv

RowOf(form, parameters) == [automationId |-> form.automationId, isEnabled |-> form.isEnabled,
                            parameters |-> parameters]

(* The button of the form waits for the answer, the rest of the page does  *)
(* not.                                                                    *)
SubmitForm ==
    /\ InForm
    /\ ui.form.automationId # 0
    /\ ui.form.cron \/ Schema(ui.form.automationId) # {}
    /\ LET op == IF ui.form.id = 0 THEN "create" ELSE "update"
       IN /\ ~Pending(ui.sent, op)
          /\ Request(op, ui.form.id, ui.form.cron, RowOf(ui.form, Submitted))
    /\ Act

-----------------------------------------------------------------------------
(* The switch sends the whole row as it is shown; removal asks first. *)

Toggle ==
    /\ OnSchedules /\ ~ui.form.open /\ ui.dialog = 0
    /\ \E s \in Shown : Request("toggle", s.id, TRUE, [s.row EXCEPT !.isEnabled = ~@])
    /\ Act

ClickRemove ==
    /\ OnSchedules /\ ~ui.form.open /\ ui.dialog = 0
    /\ \E s \in Shown : ui' = [ui EXCEPT !.dialog = s.id]
    /\ Act /\ UNCHANGED srv

Confirm == OnSchedules /\ ui.dialog # 0 /\ Request("remove", ui.dialog, TRUE, FirstRow) /\ Free

Decline ==
    /\ OnSchedules /\ ui.dialog # 0
    /\ ui' = [ui EXCEPT !.dialog = 0]
    /\ Free /\ UNCHANGED srv

-----------------------------------------------------------------------------
(* The server: an update replaces the whole row.  An expression that is    *)
(* not one is refused, so is a row that is gone; any answer may be lost.   *)

Effect(m) == CASE m.op = "create" -> Append(srv.rows, m.row)
               [] m.op = "remove" -> [srv.rows EXCEPT ![m.id].automationId = 0]
               [] OTHER           -> [srv.rows EXCEPT ![m.id] = m.row]

Accepted(m) == m.valid /\ (m.op # "create" => m.id \in Rows)

ServeSchedules ==
    /\ OnSchedules
    /\ \E m \in ui.sent, lost \in BOOLEAN :
         /\ m.state = "sent"
         /\ srv' = IF Accepted(m)
                   THEN [rows |-> Effect(m), version |-> srv.version + 1] ELSE srv
         /\ ui' = [ui EXCEPT !.sent = (@ \ {m}) \cup
                     {[m EXCEPT !.state = IF Accepted(m) /\ ~lost THEN "ok" ELSE "error",
                                !.version = srv.version + 1]}]
         /\ IF lost THEN Loss ELSE Free

(* onSuccess: creating and updating also close the form of their kind, the *)
(* one that is open now.  Failures of these four mutations show nothing.   *)
Closes(m) == \/ m.op = "create" /\ ui.form.id = 0
             \/ m.op = "update" /\ ui.form.id # 0

Succeeded ==
    /\ OnSchedules
    /\ \E m \in ui.sent :
         /\ m.state = "ok"
         /\ ui' = [ui EXCEPT !.sent = @ \ {m},
                             !.query = Invalidate(@, SchedulesKey),
                             !.form = IF Closes(m) THEN NoForm ELSE @,
                             !.seen = IF m.loaded /\ m.version > @ THEN m.version ELSE @]
    /\ Free /\ UNCHANGED srv

FailedSilently ==
    /\ OnSchedules
    /\ \E m \in ui.sent : m.state = "error" /\ ui' = [ui EXCEPT !.sent = @ \ {m}]
    /\ Free /\ UNCHANGED srv

(* Another administrator. *)
SwitchedElsewhere ==
    /\ OnSchedules
    /\ \E i \in Rows : srv' = [srv EXCEPT !.rows[i].isEnabled = ~@, !.version = @ + 1]
    /\ Change /\ UNCHANGED ui

-----------------------------------------------------------------------------
SchedulesNext ==
    \/ FetchSchedules \/ DeliverSchedules \/ LoseSchedules
    \/ NewSchedule \/ Duplicate \/ Edit
    \/ \E a \in AutomationIds : ChangeAutomation(a)
    \/ ChangeCron \/ ChangeEnabled \/ TypeParameter \/ CloseForm \/ SubmitForm
    \/ Toggle \/ ClickRemove \/ Confirm \/ Decline
    \/ ServeSchedules \/ Succeeded \/ FailedSilently \/ SwitchedElsewhere

SchedulesStep == FetchSchedules \/ DeliverSchedules

SchedulesSpec == SchedulesInit /\ [][SchedulesNext]_webVars /\ WF_webVars(SchedulesStep)

-----------------------------------------------------------------------------
(* Properties *)

(* A schedule only ever has parameters its automation's schema knows,      *)
(* however often the automation is changed in the form.                    *)
ParametersFitSchema ==
    OnSchedules => \A i \in Rows : srv.rows[i].parameters \subseteq Schema(srv.rows[i].automationId)

(* What an administrator was told has succeeded gets to the list it was    *)
(* done on, unless the answers to a fetch and to its repetition are lost.  *)
Behind == OnSchedules /\ Loaded /\ ui.query.cache[SchedulesKey].version < ui.seen

GivenUp == OnSchedules /\ SchedulesKey \in ui.query.failed

ListCatchesUp == Behind ~> (~Behind \/ GivenUp)

=============================================================================
