-------------------------------- MODULE WebApp --------------------------------
(***************************************************************************)
(* The web client: its session, or one of its pages with the server behind *)
(* it.  A page keeps no state when it is left, so that a behaviour is that *)
(* of one page; what lives longer, the token and the saved queries, is in  *)
(* Session and XmlPage.                                                    *)
(***************************************************************************)
EXTENDS JobsPage, SchedulesPage, UsersPage, AutomationsPage, Session,
        SchemaEditor, CronPage, XmlCards

WebInit ==
    \/ JobsInit \/ SchedulesInit \/ UsersInit \/ AutomationsInit \/ SessionInit
    \/ FormInit \/ EditorInit \/ CronInit \/ XmlInit \/ CardsInit

WebNext ==
    \/ JobsNext \/ SchedulesNext \/ UsersNext \/ AutomationsNext \/ SessionNext
    \/ FormNext \/ EditorNext \/ CronNext \/ XmlNext \/ CardsNext

(* Requests are sent and answered, and the browser does its part. *)
WebSpec == WebInit /\ [][WebNext]_webVars
                   /\ WF_webVars(JobsStep \/ SchedulesStep \/ SessionStep)

-----------------------------------------------------------------------------
(* The shape of every page's state.  A query has one request for a key and *)
(* repeats it once; what a page points at exists; the days of the builder  *)
(* are days of a week or of a month.                                       *)

QueryOK(q) ==
    /\ \A f \in q.fetching : f.tries \in 1..2
    /\ \A f, g \in q.fetching : f.key = g.key => f = g

PageOK ==
    CASE OnJobs ->
           ui.status \in Filters /\ ui.offset \in 0..MaxJobs /\ QueryOK(ui.query)
      [] OnSchedules ->
           /\ ui.form.automationId \in {0} \cup AutomationIds
           /\ {ui.dialog, ui.form.id} \subseteq 0..Len(srv.rows) /\ QueryOK(ui.query)
      [] OnUsers ->
           /\ \A r \in ToSet(srv.rows) : r.role \in Roles
           /\ {ui.dialog, ui.editor.id} \subseteq 0..Len(srv.rows) /\ QueryOK(ui.query)
      [] OnAutomations ->
           /\ {ui.dialog, ui.editor.id, ui.modal.id} \subseteq 0..Len(srv.rows)
           /\ ui.viewing \in 0..Len(srv.jobs) /\ QueryOK(ui.query) /\ QueryOK(ui.last)
      [] OnSession ->
           /\ ui.stored \in 0..srv.issued
           /\ \A t \in Tabs : ui.tabs[t].shown \in 0..srv.issued
      [] OnForm ->
           /\ ui.field \in Fields
           /\ ui.dynamic => CanToggleDynamic(ui.field, ui.allowDynamic)
      [] OnEditor ->
           \A f \in ToSet(ui.fields) : f.type \in Types /\ f.itemType \in {"number", "text"}
      [] OnCron ->
           Builder.days \subseteq IF Builder.mode = "weekly" THEN 0..6 ELSE 1..31
      [] OnXml ->
           DOMAIN ui.filters = DOMAIN Defaults /\ ui.offset \in 0..2
      [] OnCards ->
           ui.company \in Companies /\ QueryOK(ui.overview) /\ QueryOK(ui.empresas)

WebTypeOK ==
    /\ left.acts \in Nat /\ left.changes \in 0..MaxChanges /\ left.losses \in 0..MaxLosses
    /\ PageOK

=============================================================================
