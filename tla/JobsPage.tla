------------------------------ MODULE JobsPage ------------------------------
(***************************************************************************)
(* /jobs: a page of the job table with filters, a pager and the buttons    *)
(* that cancel a job or submit it again.  The server sorts by creation,    *)
(* newest first; a job is its position in that history.                    *)
(***************************************************************************)
EXTENDS Page

CONSTANTS
    JobsActs,     \* bounds the model: what the user does
    PageSize,     \* PAGE_SIZE
    MaxJobs       \* bounds the model: jobs in the table

ASSUME JobsBounds == JobsActs \in Nat /\ PageSize \in Nat \ {0} /\ MaxJobs \in Nat \ {0, 1}

Active    == {"pending", "running"}
Retryable == {"completed", "failed", "canceled"}
Filters   == {"all", "running", "failed"}
NoKey     == [status |-> "none", offset |-> 0]

JobsInit ==
    /\ ui = [page |-> "jobs", status |-> "all", cls |-> "all", offset |-> 0,
             query |-> NewQuery, last |-> NoKey, sent |-> {}]
    /\ srv = [jobs |-> <<"failed", "running">>]
    /\ left = Bounds(JobsActs)

OnJobs == ui.page = "jobs"

-----------------------------------------------------------------------------
(* The list. *)

(* GET /jobs: a page of the jobs with that status, newest first, and how   *)
(* many there are.  The model reads both at one moment; in the code a job  *)
(* that moves between the COUNT and the SELECT makes a total that is off   *)
(* until the list is fetched again.                                        *)
List(asked) ==
    LET match == {j \in 1..Len(srv.jobs) : asked.status = "all" \/ srv.jobs[j] = asked.status}
        Newer(j) == Cardinality({m \in match : m > j})
        page  == {j \in match : Newer(j) \in asked.offset..(asked.offset + PageSize - 1)}
    IN [asked |-> asked, total |-> Cardinality(match),
        items |-> {[id |-> j, status |-> srv.jobs[j]] : j \in page}]

ListRequest == [status |-> ui.status, offset |-> ui.offset]

(* Mutant: the key forgets the position. *)
ListKeyWithoutOffset == [status |-> ui.status, offset |-> 0]

ListKey == [status |-> ui.status, offset |-> ui.offset]

(* The key's own data; while it has none, the data last shown, as a        *)
(* placeholder; nothing once the fetch has failed.                         *)
Placeholder == ~HasData(ui.query, ListKey)

HasList == \/ ~Placeholder
           \/ ui.last # NoKey /\ ListKey \notin ui.query.failed

Listed == IF Placeholder THEN ui.query.cache[ui.last] ELSE ui.query.cache[ListKey]

Total == IF HasList THEN Listed.total ELSE 0

(* The filter by error class looks at the rows of this page alone; in the  *)
(* model the failed jobs are the ones with a class.                        *)
Items == IF HasList
         THEN {j \in Listed.items : ui.cls = "all" \/ j.status = "failed"}
         ELSE {}

(* Mutant: pending jobs do not count. *)
PollsRunning ==
    HasData(ui.query, ListKey) /\ \E j \in ui.query.cache[ListKey].items : j.status = "pending"

(* refetchInterval: every 5 seconds while the data has an active job. *)
Polls ==
    HasData(ui.query, ListKey) /\ \E j \in ui.query.cache[ListKey].items : j.status \in Active

FetchList ==
    /\ OnJobs
    /\ NeedsFetch(ui.query, ListKey) \/ (Polls /\ ~Fetching(ui.query, ListKey))
    /\ ui' = [ui EXCEPT !.query = StartFetch(@, ListKey, List(ListRequest))]
    /\ Free /\ UNCHANGED srv

DeliverList ==
    /\ OnJobs
    /\ \E f \in ui.query.fetching : ui' = [ui EXCEPT !.query = Deliver(@, f)]
    /\ Free /\ UNCHANGED srv

LoseList ==
    /\ OnJobs
    /\ \E f \in ui.query.fetching :
         ui' = [ui EXCEPT !.query = Fail(@, f, List(f.answer.asked))]
    /\ Loss /\ UNCHANGED srv

(* The row shown instead of the list has a button to try again. *)
RetryList ==
    /\ OnJobs
    /\ ListKey \in ui.query.failed /\ ~Fetching(ui.query, ListKey) /\ Items = {}
    /\ ui' = [ui EXCEPT !.query.due = @ \cup {ListKey}]
    /\ Act /\ UNCHANGED srv

-----------------------------------------------------------------------------
(* Filters and pager.  Every change of the key makes what is on the screen *)
(* the placeholder of what comes next.                                     *)

LastKey == IF HasData(ui.query, ListKey) THEN ListKey ELSE ui.last

(* The filters by automation and by date do the same. *)
ChangeStatusFilter(s) ==
    /\ OnJobs /\ s # ui.status
    /\ ui' = [ui EXCEPT !.status = s, !.offset = 0, !.last = LastKey]
    /\ Act /\ UNCHANGED srv

ChangeErrorClass(c) ==
    /\ OnJobs /\ c # ui.cls
    /\ ui' = [ui EXCEPT !.cls = c]
    /\ Act /\ UNCHANGED srv

PagerShown == Total > 0

(* Mutant: the pager goes with the last row. *)
CanGoBackFromRows == Items # {} /\ ui.offset # 0

CanGoBack == PagerShown /\ ui.offset # 0

Anterior ==
    /\ OnJobs /\ CanGoBack
    /\ ui' = [ui EXCEPT !.offset = IF @ > PageSize THEN @ - PageSize ELSE 0, !.last = LastKey]
    /\ Act /\ UNCHANGED srv

(* Total may be the placeholder's. *)
Proximo ==
    /\ OnJobs /\ PagerShown /\ ui.offset + PageSize < Total
    /\ ui' = [ui EXCEPT !.offset = @ + PageSize, !.last = LastKey]
    /\ Act /\ UNCHANGED srv

-----------------------------------------------------------------------------
(* The buttons of a row.  Which job's panel is open is left out. *)

Submit(op, id) ==
    /\ ~Pending(ui.sent, op)
    /\ ui' = [ui EXCEPT !.sent = @ \cup {[op |-> op, id |-> id, state |-> "sent"]}]
    /\ Act /\ UNCHANGED srv

ClickCancel  == OnJobs /\ \E j \in Items : j.status \in Active /\ Submit("cancel", j.id)
ClickRetry   == OnJobs /\ \E j \in Items : j.status \in Retryable /\ Submit("retry", j.id)

(* The server: a pending job is cancelled at once, a running one is only   *)
(* told; a job that ended is refused.  Whatever it did, its answer may be  *)
(* lost.                                                                   *)
ServeCancel ==
    /\ OnJobs
    /\ \E m \in ui.sent, lost \in BOOLEAN :
         /\ m.op = "cancel" /\ m.state = "sent"
         /\ srv' = IF srv.jobs[m.id] = "pending"
                   THEN [srv EXCEPT !.jobs[m.id] = "canceled"] ELSE srv
         /\ ui' = [ui EXCEPT !.sent = (@ \ {m}) \cup
                     {[m EXCEPT !.state = IF lost \/ srv.jobs[m.id] \notin Active
                                          THEN "error" ELSE "ok"]}]
         /\ IF lost THEN Loss ELSE Free

(* RetryJob does not ask for the status of the job it submits again. *)
ServeRetry ==
    /\ OnJobs
    /\ \E m \in ui.sent, lost \in BOOLEAN :
         /\ m.op = "retry" /\ m.state = "sent"
         /\ Len(srv.jobs) < MaxJobs
         /\ srv' = [srv EXCEPT !.jobs = Append(@, "pending")]
         /\ ui' = [ui EXCEPT !.sent = (@ \ {m}) \cup
                     {[m EXCEPT !.state = IF lost THEN "error" ELSE "ok"]}]
         /\ IF lost THEN Loss ELSE Free

(* onSuccess: both refresh the list.                                       *)
Answered ==
    /\ OnJobs
    /\ \E m \in ui.sent :
         /\ m.state = "ok"
         /\ ui' = [ui EXCEPT !.sent = @ \ {m},
                             !.query = Invalidate(@, ListKey)]
    /\ Free /\ UNCHANGED srv

(* onError: a toast. *)
Refused ==
    /\ OnJobs
    /\ \E m \in ui.sent : m.state = "error" /\ ui' = [ui EXCEPT !.sent = @ \ {m}]
    /\ Free /\ UNCHANGED srv

-----------------------------------------------------------------------------
(* Workers and other users. *)
JobMoves ==
    /\ OnJobs
    /\ \E j \in 1..Len(srv.jobs) :
         \/ srv.jobs[j] = "pending" /\ srv' = [srv EXCEPT !.jobs[j] = "running"]
         \/ srv.jobs[j] = "running"
            /\ \E s \in {"failed", "completed"} : srv' = [srv EXCEPT !.jobs[j] = s]
    /\ Change /\ UNCHANGED ui

JobCreated ==
    /\ OnJobs
    /\ Len(srv.jobs) < MaxJobs
    /\ srv' = [srv EXCEPT !.jobs = Append(@, "pending")]
    /\ Change /\ UNCHANGED ui

-----------------------------------------------------------------------------
JobsNext ==
    \/ FetchList \/ DeliverList \/ LoseList \/ RetryList
    \/ \E s \in Filters : ChangeStatusFilter(s)
    \/ \E c \in {"all", "some"} : ChangeErrorClass(c)
    \/ Anterior \/ Proximo
    \/ ClickCancel \/ ClickRetry
    \/ ServeCancel \/ ServeRetry \/ Answered \/ Refused
    \/ JobMoves \/ JobCreated

(* Requests are sent and answered; nobody has to click. *)
JobsStep == FetchList \/ DeliverList

JobsSpec == JobsInit /\ [][JobsNext]_webVars /\ WF_webVars(JobsStep)

-----------------------------------------------------------------------------
(* Properties *)

(* Rows shown as the present page, and not as a placeholder, were asked    *)
(* for with the present filter and position: the key of the query carries  *)
(* everything its request depends on.                                      *)
RowsMatchRequest ==
    OnJobs /\ ~Placeholder => Listed.asked = ListRequest

(* Whoever is past the last row can get back: when the list is up to date, *)
(* shows nothing and there are jobs for the filter, "Anterior" works.      *)
PagerLeadsBack ==
    OnJobs /\ ~Placeholder /\ Listed = List(ListRequest) /\ Listed.items = {} /\ Listed.total > 0
        => CanGoBack

(* A job that has ended does not stay active on the screen: polling goes   *)
(* on while an active row is shown, whatever is lost on the way.           *)
ShownActive(id) == \E j \in Items : j.id = id /\ j.status \in Active

Outdated(id) == /\ OnJobs /\ id <= Len(srv.jobs)
                /\ ShownActive(id)
                /\ srv.jobs[id] \notin Active

StaleStatusClears ==
    \A id \in 1..MaxJobs : Outdated(id) ~> ~Outdated(id)

=============================================================================
