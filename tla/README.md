# Maestro: specification, model checking and proofs

Maestro accepts automation jobs from people and from cron schedules, hands them
to workers through RabbitMQ, follows them in PostgreSQL and shows their logs;
people work with it in a web client that also shows the invoices of another
service. This directory specifies the backend, where it is concurrent and
distributed, and the pages of the client, where what is shown, typed and sent
meets a server that changes meanwhile.
`PROJECT.json` maps every definition to the lines it models and lists the runs,
the mutants that each property must catch, the hazards and the theorems.

    tlc -workers 2 -config timely.cfg MCOrchestration.tla
    tlc -workers 2 -config web.cfg MCWebApp.tla
    tlapm JobPanel_proofs.tla
    tlapm WebApp_proofs.tla

## The system

| part | state | operations | interacts with |
|---|---|---|---|
| Job rows (`job_repository.go`) | table `jobs` | one SQL statement each, no transactions | everybody below |
| Submission (`automation_handler.go`, `job_handler.go`, `scheduler.go`) | request or firing | insert, publish, compensate | rows, broker |
| Retry worker (`retry_worker.go`) | the list of one pass | find stuck jobs, count, reset, publish, give up | rows, broker |
| Worker protocol (`worker_handler.go`, `examples/worker_example.py`) | the delivery a worker holds | status, start, log, cancellation poll, finish, ack | rows, logs, broker |
| Log stream (`StreamJobLogs`, `job_log_repository.go`, `api.ts`) | position of each stream | poll logs, poll status, last sweep, end | rows, logs, browser |
| Scheduler (`scheduler.go`, `schedule_handler.go`) | cron entries, map of entries, mutex | start, reload, fire | table `schedules`, submission |
| Broker client (`rabbitmq.go`) | connection, channel, DLQ consumer | publish, reconnect, consume, close | everybody who publishes |
| Accounts (`user_handler.go`, `auth_handler.go`, middleware) | table `users`, tokens | login, roles, deactivation, passwords | every request, the pages of users and account |
| Calendar (`cron_schedule.go`, `date_placeholders.go`, `cron.ts`, `cron-builder.tsx`) | none | days of an expression, previous firing, placeholders; reading and writing expressions | scheduler, page of schedules |
| Job panel (`job-panel.tsx`, `streamLogs`) | lines shown, EventSource | connect, append, reconnect, close | log stream |
| Pages of jobs, schedules, users, automations | filters, forms, dialogs; the query cache; mutations under way | list, poll, page through, edit, confirm, run | API handlers, query cache |
| Session (`auth.tsx`, `api.ts`) | token in localStorage, what each tab shows | login, logout, 401, events between tabs | every page |
| Forms (`dynamic-parameter-form.tsx`, `parameter-schema-editor.tsx`) | texts in the controls, fields of a schema | open, type, submit; infer from an example | pages of automations and schedules |
| XML dashboard (`app/xml`, `xml-api.ts`) | filters, URL, saved queries, company drilled into, period of the cards | filter, page, save, apply, drill down, switch view, pick a period | URL, localStorage, the tracker's API |
| Metrics, dashboard | none | read-only SQL and charts | rows |
| Configuration, logging | - | - | - |

What makes it hard:

- no handler uses a transaction: a handler is a sequence of statements and
  broker calls, and another process, an error or a crash may come in between;
- messages are published without confirms and delivered at least once;
- a worker's call may be lost, or take effect and lose its answer;
- a live worker is taken for dead when it does not poll for five minutes, and
  the job of a worker that is dead has two messages when the broker's own waits
  as long;
- the retry worker and the scheduler act on what they read before they took
  their turn (a list of rows, the enabled schedules);
- a log stream polls two tables one after the other while both change, and the
  browser opens another whenever one breaks, but not when one is refused;
- a page shows answers that are older than its filters and than the server,
  sends what it showed, and its requests are lost or overtake each other;
- forms, the URL, the cron builder and saved queries are conversions to a
  text and back, where a false, a zero, a Sunday or a default gets lost;
- the tabs of one browser share a token and hear of changes by events.

What makes each part correct: *rows and workers* - a job is executed by one
worker at a time, its final status is final, a cancellation stops the attempt it
was meant for, every job settles; *submission* - no pending job is left with
nobody to deal with it; *retry worker* - never more attempts than the budget;
*log stream* - every log once, in order, all of them before the end; *scheduler*
- the runner holds exactly the enabled schedules, each once, and `next_run_at`
  says when it runs next; *calendar* - the days shown are the days fired on, and
  each day is in the period of one firing; *panel* - no gap, no repetition
  without a fault, and news of the job as long as it is open; *pages* - the rows
  are those asked for, a stale list catches up, a request carries what the form
  showed; *session* - tabs agree, and end for a cause; *forms* - what is sent
  has its type and comes back when opened again; *XML* - a link, a saved query
  and a row lead where they say, and the cards count what their heading says.
  Where the code falls short of this, a violation run or the section on
disagreements says how.

## The modules

| module | models |
|---|---|
| `JobStore` | a row of `jobs` and every statement on it, as functions from row to row |
| `Orchestration` | submission, cancellation, retry worker, worker endpoints, workers, broker queue and faults, over `JobStore` |
| `DeliveryLedger` | abstract: a job is handed to the broker once for free, then once per unit of its retry budget |
| `JobContract` | abstract: the life of a job as `docs/worker-contract.md` has it |
| `Orchestration_proofs`, `Execution_proofs` | theorems about `Orchestration`: under any faults; where live workers are trusted |
| `LogStream` | log rows, `HandleJobLog`, one browser's successive streams |
| `JobPanel` | the side panel of a job and its EventSource, over `LogStream` |
| `LogStream_proofs`, `JobPanel_proofs` | theorems about the stream alone, and under the panel |
| `Scheduler` | table `schedules`, cron runner, entry map and mutex, `Reload`, `runSchedule`, the requests |
| `Scheduler_proofs` | theorems about `Scheduler` |
| `Page` | what pages share: a TanStack query (cache, requests in flight, invalid and failed keys), who pays for a step |
| `JobsPage`, `SchedulesPage`, `UsersPage`, `AutomationsPage` | a page each, with the handlers it calls and the rows they keep |
| `Session` | the token, the tabs of a browser, login, change of password, the interceptors of `api.ts` |
| `ParameterForm`, `SchemaEditor` | a form's field from the saved value to the one sent; a schema written or inferred |
| `CronPage` | builder, calendar and the scheduler's reading of cron expressions, previous firing and placeholders |
| `XmlPage` | the page of notas and companies |
| `XmlCards` | the cards above it: their period, and the two queries they choose from |
| `WebApp` | the web client: the union of its pages |
| `Pages_proofs`, `XmlPage_proofs`, `WebApp_proofs` | theorems about `WebApp`: the pages of jobs, schedules and users; the dashboard; the rest, and the client as a whole |
| `MC...` | model values and symmetry for TLC |

**Orchestration.** `jobs` is the table (a job not inserted yet has status
"absent"); `queue` counts the ready messages of each job; `handlers`, `retry`
and `workers` hold, for each goroutine or worker, where it is (`pc`) and its
local variables: the job in hand, the list of `checkAndRetry`, whether the
worker's delivery is still its own (`owns`) and the status it is reporting
(`outcome`). Every SQL statement that writes and every broker call is an
action. A read is taken together with the statement after it, except the three
whose result is used later on: the list of a retry pass, the status a worker
asks for, the answer to its cancellation poll. Times appear as what a query
sees: a heartbeat is null, fresh or stale (older than the timeout). The timeout
may pass in three situations, which are fault kinds of their own: a worker has
the job and sends nothing ("stall"), its message waits in the queue ("backlog"),
or there is neither ("silence").
`published` and `asked` are history variables: they are read by properties
only. The worker's `report_log` calls are not separate steps: one that fails
raises exactly as the poll or the report next to it.

**LogStream.** A log is its id. An insert takes its id when it begins
(`BeginLog`) and is visible when it commits (`CommitLog`). The stream's round is
three reads: `Drain`, `ReadStatus`, and for a job that has ended `DrainLate`. The
request for a stream may be refused (`RefuseStream`): any error of `GetByID` is a
404.

**Scheduler.** Each request, and `main` during start-up, goes through `Reload`
step by step; `mutex` is `s.mu`. A time is represented by the entry it was
computed for and by which of its firings it is, from 1 on; turn 0 is the zero
time, which an entry of a runner not started has. A firing is one goroutine per
schedule at a time. The submission inside it is one step here, because
`Orchestration` (`RunSchedule`, `PublishScheduled`) has it in detail.
`CreateSchedule` hands out each identifier once.

**JobPanel.** What a stream has sent arrives one by one (`read` counts them) or
is lost with its connection (`EndLost`, or a disconnection of `LogStream`); the
EventSource then opens another stream (`Connect`), which begins with the first
log, until `onEnd` closes it or an answer is no stream (`Refused`): an
EventSource then gives up for good, and the panel ignores the event. A
repetition in the panel is what the code does after a broken connection, so the
properties are about gaps, about repetitions without a fault, and about coming
to rest.

**Page.** A query is TanStack Query's as the pages use it: a key without data is
fetched, an answer is computed by the server when the request is served and
stored when it arrives, a failure is tried again once (`query-client.ts`), an
invalidation makes the key on the screen be fetched again and drops an answer
under way, unless there is no data yet. `ui` is the state of the mounted page,
`srv` the rows behind it. A list with `placeholderData` shows the last key's
rows until its own arrive (`LastKey`). A mutation is sent, served (in two steps
where a handler reads before it writes, as in `UsersPage`), answered, and its
answer handled by `onSuccess` or `onError`.

**JobsPage**: filters, offset and polling; a row is its status; the COUNT and the
SELECT of a list are taken at one moment. **SchedulesPage**:
the form of creating, editing and duplicating, the switch and the confirmation
dialog. **UsersPage**: two administrators, one on the page, the other anywhere.
**AutomationsPage**: the dialog that runs an automation, filled from the last
parameters, the defaults or nothing, and remounted when its key changes, of which
`form.of` is the execution the values are from; the
editor of an automation. **Session**: a token is the number of its login; a tab
hears of another tab's change by a `storage` event that may come late.

**ParameterForm** and **SchemaEditor** abstract texts to what the conversions tell
apart: a date in either notation, numbers, words, placeholders, lists of them.
**CronPage**: a field of an expression is a set of parts; the calendar is 2024's
and 2025's, from January 2024 on; time of day does not matter within a date. A part
with a name (`MON-FRI`, `JAN`, `?`) is not `plain`: robfig reads it as the
numbers, and the browser cannot. A `Descriptor` (`@daily`) is not of five
fields. **XmlPage**: one filter of each kind; the rows of three companies (two
branches, one branch, none); `shown` of a saved query is a history of what it was
saved from.

**XmlCards**: a number is the set of the notas it counts, so that a sum is a union.
The overview and the companies are two queries under one key of period and date;
`Cards` takes the company's rows, or the overview when there are none, as the
page does. A refetch on the timer is a step when it brings something new.

**WebApp.** Only one page is mounted at a time and a page forgets its state when
it is left, so the client is the disjoint union of its pages, and one run
explores them side by side without multiplying them.

## Runs

| run | instance | shows |
|---|---|---|
| `timely` | 2 jobs, 2 handlers, 2 workers, 1 retry, 4 faults of all kinds but channel, stall and backlog | `TypeOK`, `RetryBudget`, `SingleExecution`, `RequestReachesWorker`, refinement `KeepsLedger` |
| `calm` | the same with 4 faults among publish, lost, db, start, poll, crash, silence | refinement `KeepsContract` |
| `recovery` | 1 job, 1 handler, 2 workers, 2 faults of workers, channels and reports, stall and backlog included | `PendingAccounted`, `CancelAbortsOwnAttempt`, liveness `Settles` |
| `orphan` | violation of `PendingAccounted` | a retried job whose publication fails is left pending |
| `cancel_race` | violation of `CanceledNeverRuns` | a cancelled job is started |
| `stale_retry` | violation of `OnlyRunningRescued` | a finished job is put back to pending |
| `log_stream` | 4 logs, batches of 2, 2 streams, 2 faults, refused openings included, one panel | `TypeOK`, `NothingSkipped`, `EndLosesOnlyExcess`, `StreamEnds`; of the panel `PanelHasNoGaps`, `RepeatsOnlyAfterFaults`, liveness `PanelSettles` |
| `scheduler` | 2 schedules, 2 expressions, 2 requests, 6 entry ids, 3 turns | `TypeOK`, `RegisteredOnce`, `NextRunMatches` |
| `stale_reload` | violation of `InSync` | overlapping reloads leave a stale entry |
| `web` | each page: 2 to 4 acts of its user, 1 change elsewhere, 2 losses | the properties below |
| `days_lost` | violation of `EveryDayTaken` | the periods proposed leave out the days of the firings |
| `session_lost` | violation of `SessionEndsForCause` | a wrong password ends a valid session |

What `web` shows, page by page:

| property | says |
|---|---|
| `WebTypeOK` | the state of each page has its shape; a query has one request for a key |
| `RowsMatchRequest` | the rows of the key on the screen are an answer to that key's request |
| `PagerLeadsBack` | a page past the end of the jobs can be left |
| `StaleStatusClears` (liveness) | a job shown as active that is not any more is shown as it is |
| `ParametersFitSchema` | a schedule is saved with parameters of its own automation |
| `ListCatchesUp` (liveness) | a list of schedules behind the server catches up after a change made here |
| `AccountAsAsked` | no update brings back a deactivated account or an old password |
| `FormSuitsModal` | the dialog's form holds the parameters of an execution of its own automation, and none after going back to the defaults |
| `TabsAgree` (liveness) | all tabs come to show the session that is stored |
| `ReopenKeeps`, `SentWellTyped` | the form sends values of its fields' types, and opening it again changes nothing |
| `SampleComesBack` | the schema inferred from an example gives a form that sends the example |
| `BuilderReadsBack` | the cron builder reads what it wrote as what it meant |
| `CalendarAgrees` | the browser's calendar marks the days the scheduler fires on, but for the readings `SameReading` names |
| `NoDayTwice` | no day is in the periods `{{prev_run+1}}` to `{{yesterday}}` of two firings |
| `CardsOfPeriod` | numbers on the cards are of the period picked, of the company or of all |
| `LinkKeepsNotas` | whoever opens the page's URL gets the same view and list of notas |
| `PresetReproduces` | a saved query asks for what was on the screen when it was saved |
| `FilterStartsAtTop`, `FilialOfEmpresa` | other filters start at the first page; a branch is one of the company filtered by |

Deadlock is not checked: jobs, streams and entry ids are bounded, so every
instance may come to rest; `Settles`, `StreamEnds` and `PanelSettles` say where. A
page at rest waits for its user, whose acts are bounded.

**Bounds.** Two jobs are enough for one pass of the retry worker to hold a list
it has not finished while the other job moves; two workers for a redelivery to
meet the worker it was taken from; one or two retries for a budget to be used,
exceeded or wasted. Two faults let a second one hit the recovery from the first;
four in `calm` and `timely`, where they are of fewer kinds. Batches of two and
four logs let a stream be behind by less than one, by one and by two batches.
Two schedules and two requests let reloads overlap each other, a firing and a
change of another schedule; three turns let an entry be registered, fire and
fire again. `MaxFaults`, `MaxLogs`, `MaxStreams`, `MaxEntries` and `MaxTurns`
bound the state space and are nothing in the code. The sets `Jobs` and
`Schedules` bound the identifiers the database hands out.

In `web` two losses are a fetch and its one repetition, so that a query can fail
for good; one change elsewhere is what makes a list stale, an edit concurrent
or a saved query disappear. Two to four acts open a form, change it and submit
it, or filter, page and filter again; `PageSize` 1 and three jobs give pages in
front of, on and past the end. `MaxTokens` lets both tabs log in and one again.
`MaxFields` 2 gives pairs of fields to replace and to append to. `BuilderDays`
has Sunday, neighbours and a gap; the months 0 to `MaxMonths` = 13 have every
length of a month, February's twice, gaps of two months between two 31sts and of
more than 200 days between two firings. The cron and form pages
have no bound on acts: their state is finite. Two acts on the cards
are a period and a date, or a company, while answers for the old ones are under way,
and both queries may be lost or overtaken.

**Faults** are named by kind, so that a run says what it assumes: the list is in
`Orchestration` above `May`. `timely` leaves out what makes a live worker be
taken for dead (stalls, lost channels) and the message that waits in the queue
longer than the timeout ("backlog"), since a second execution is then what the
code does: TLC refutes `SingleExecution` with no more than a crash and a backlog
(below, among the disagreements). That `TypeOK`, `RetryBudget` and `KeepsLedger`
hold under those three kinds as well is a theorem, and `recovery` has them. In
`timely` the heartbeat of a job grows old when its message is gone and nobody
works on it (a report was lost, a statement of `/finish` failed), and the retry
worker gives the job to another; a crashed worker's message is delivered again.
`calm` leaves out the same and the failures of two of a worker's calls: a
`/finish` that took effect and lost its answer, or a `/status` that failed on a
redelivery, makes the reference worker report a finished job as failed, which
the contract does not allow (both are in the hazards). It also leaves out
restarts of the backend. These are the hypotheses of `ExecutedOnce`,
`RequestsHeard` and `ContractKept`. `recovery` includes stalls, and leaves out
what no process recovers from: lost messages, failed database statements,
restarts of the backend between two statements, and failures before `/start`;
each was found to orphan a job and is an assumption of the theorem
`PendingKept`.

**Fairness** (`recovery`): a goroutine with a statement to run runs it; a free
worker takes some ready message (workers run `start_consuming`); a worker's
calls return and its automation ends; the retry worker's ticker fires; a
heartbeat nobody refreshes grows old. Weak fairness is enough for each, since
nothing but the process itself disables its step for good. Users need not
cancel, submit or retry, workers need not poll, and faults need not happen.
`log_stream` assumes that the handler goes round its loop and that the browser
delivers what has arrived and reconnects after a broken connection, which an
EventSource does by itself; after a refusal it does not, and nothing is assumed.
`PanelSettles` therefore counts a refused panel among those at rest;
`PanelFollows`, which TLC refutes, is what is wrong with that rest.
`web` assumes that what a page has to fetch is fetched and answered, and that the
browser delivers `storage` events and loads its pages: one weak fairness
condition on `JobsStep \/ SchedulesStep \/ SessionStep` is enough, since a
behaviour is one of a single page and each of these steps brings a request
or an event nearer to its end. Nothing is assumed of users, of mutations, of
other clients or of losses, which are bounded.

**Mutants.** Each property of a passing run is falsified by a mutated definition
of the model, next to the definition it mutates (`BudgetLeftOffByOne`,
`CheckStatusIgnored`, `UnregisterAllUnlocked` and so on), marked *Mutant*.

## Proofs

Each theorem is about the specification the run checks, for any sets of jobs,
workers, handlers, schedules, requests and writers, any budget, batch and page
size, any bounds and any number of faults, losses and acts of a user, from the
named assumptions the modules make on their constants. Hypotheses on the kinds
of faults or on who logs are written in the theorem (`ASSUME ... PROVE`), and
TLC refutes the property with any of them dropped. Each inductive invariant was
an invariant of a run before its proof.

**Any faults** (`Orchestration_proofs`).

- `TypeCorrect`: `[]TypeOK`. The type invariant is inductive. Its last parts
  (a busy process has a job in hand) are what later steps need in order to
  apply functions within their domain.
- `BudgetKept`: `[]RetryBudget`. Not inductive: the retry worker decides on a
  `retry_count` read earlier. `BudgetInv` adds that the counts in its list
  are still those of the rows, since nobody else writes `retry_count`, and
  that every publication still to come (by a handler, or by the retry worker
  between the increment and the publication) is paid for: a job's publications
  and the ones on their way (`Owed`) never exceed `retryCount + 1`. That needs
  a job to be in the hands of at most one handler, and an identifier that is not
  in use yet to be new to everybody.
- `LedgerRefined`: `Spec => KeepsLedger`. With `BudgetInv`, each step of the
  orchestration is a `Pay`, a `HandOver` or a stutter of `DeliveryLedger`.
- `CancellationOwned`: `[]CancelAbortsOwnAttempt`. Strengthened with: the
  cancellation flag of a job a worker is executing is only set if `asked`
  holds for that worker. `SetStarted` re-establishes it by clearing the flag.
- `PendingKept`: `[]PendingAccounted`, if jobs come from `ExecuteAutomation`
  only and the fault kinds exclude "lost", "db", "status", "start" and
  "backend". Nearly inductive: the strengthening says that a handler about to
  publish came from an allowed origin, and the steps are split into those that
  revive no row as pending and those that do while still dealing with it.

**Live workers trusted** (`Execution_proofs`): no "stall", "channel" or
"backlog", that is, nothing makes the retry worker or the broker take a live
worker for dead, and a message is taken within the timeout. Workers may crash at any
point, reports may be lost and the backend restart, and the retry worker takes up
what is left. The contract says nothing of workers that do not poll; for the
backlog see the disagreements.

- `ExecutedOnce`: `[]SingleExecution`. `OneToken` counts where a job is: with
  the handler that publishes it, in the queue, or held by one worker, and in one
  of these at a time. It is inductive only with `OnlyLostRescued`: a row that
  the retry worker would find, or has on its list, has no token anywhere, so
  that its publication makes the only one.
- `RequestsHeard`: `RequestReachesWorker`. Of all statements only `SetStarted`
  clears a cancellation, and who starts a job holds its one token.
- `ContractKept`: `Spec => KeepsContract`, if besides the calls about a job that
  has ended arrive (no "status", "finish" or "backend") and only running jobs
  are cancelled. On `OneToken`, `Agrees` says what each place of the token means
  for the row: what a handler publishes is pending, a worker's position and its
  job's status go together. Every step then moves one row along an arrow of
  `JobContract`, or none. `CalmInv` adds that a running job has its message in
  the queue or a worker that has yet to end it, so that no row is ever stuck and
  the retry worker is idle.

**Scheduler** (`Scheduler_proofs`), any faults but where it says so.

- `TypeCorrect`: `[]TypeOK`, with mutual exclusion of `mutex`. The bound on
  entry ids needs a count: the ids handed out, one set of schedules for each
  process that has yet to register, and what the one at it has left, fit
  `MaxEntries`.
- `RegisteredKept`: `[]RegisteredOnce`. Strengthened with: entry ids are never
  used twice, and while a process registers, what it has yet to register has no
  entry. The last part holds by the mutex alone: the list it works from may be
  older than the table, which is why `InSync` fails and this does not.
- `NextRunKept`: `[]NextRunMatches`, unless "next" faults happen
  (`UpdateNextRun` failing is only logged). A time is one of the present entry,
  and the turn it waits for: an older one only while a firing is on its way to
  refresh it, or was dropped before (`Dropped`: a firing that fails writes no
  time), and the zero time only until the entry's first firing. Strengthened
  with: what a firing is about to write is the next time of its schedule's
  entry, as long as there is one (`WritesNext`), which holds because both the
  reading and the writing are under the mutex; and what is read or registered
  was created before, so that a creation does not touch it.

**Log stream and panel** (`LogStream_proofs`, `JobPanel_proofs`). `OneWriter`: one
worker logs for the job, which is `ExecutedOnce`. With two, a log may become
visible after a later one was sent, and it is skipped (`hazards`).

- `PollingIsComplete`: `[]NothingSkipped`. `Ordered`: what was sent is increasing,
  is visible, and ends at the position. `Latest`: a log being written has the
  newest id and is not visible yet. `Complete`: no visible log below one sent is
  unsent. With them what was sent is an increasing sequence of exactly the
  visible logs up to the position, and `SortedUnique` says there is one such
  sequence.
- `SweepLosesOnlyExcess`: `[]EndLosesOnlyExcess`, unless the last sweep fails
  ("late").
- `PanelPollingIsComplete`, `PanelSweepLosesOnlyExcess`: the same under
  `PanelSpec`, whose panel closes streams and cancels the job. The lemmas of
  `LogStream_proofs` are about `AnyNext`, which has these two steps from outside.
- `PanelLeavesNothingOut`: `[]PanelHasNoGaps`. Not inductive: what makes the next
  line fit is that what the present stream has delivered is all on the panel
  (`PanelShows`), and that the stream itself skips nothing.
- `RepeatsArePaid`: `[]RepeatsOnlyAfterFaults`, with any number of writers. Each
  stream but the first was paid for by a fault (`Paid`); a line is shown at most
  once for each stream, and as often as there were streams only if it arrived on
  the present one (`LinesPaid`).

`TypeOK` of `JobPanel`'s stream is `PanelTypeCorrect`. `Sorted` is written with
ranks, and not by recursion, so that these proofs need no induction.

**Web client** (`Pages_proofs`, `XmlPage_proofs`, `WebApp_proofs`). `WebInv` is the
invariant of one page, whichever is open: no step leads from one page to another
(`StepOfPage`), so that each page is proved on its own. What the pages of the
backend's lists share is `QueryIn`: every answer in the cache or on its way,
however old, repeated or overtaken, is one that the request of its key could have
had, and a key has one request. An answer may stay in the cache while the server
moves on, so the sets of possible answers only grow (`MoreUsers`, `MoreSchedules`,
`MoreAutomations`, `MoreJobs`).

- `WebTypeCorrect`: `[]WebTypeOK`, from the invariants below.
- `RowsAsAsked`: `[]RowsMatchRequest`. `QueryIn`, where the answers of a key
  carry the filter and position they were asked with.
- `PagerNeverStuck`: `[]PagerLeadsBack`. `List` takes a row by how many newer
  ones there are, and `NewestFirst` counts: if any row is asked for, some has
  none newer. So the first page is not empty when there are jobs, and a page
  that is empty has one before it, and the pager.
- `ParametersFit`: `[]ParametersFitSchema`. Strengthened to wherever a row is,
  since any of them may be edited, copied or switched on: the server, the cache,
  the form, the request under way.
- `AccountsKept`: `[]AccountAsAsked`, with the types of requests between their
  read and their write. A request then holds an old row; the step of the write
  shows that an update takes from it none of the columns in question.
- `FormKept`: `[]FormSuitsModal`. Every answer of last parameters in the cache
  or on its way is an execution of the automation in its key; the form is filled
  from such an answer when it is mounted, and every change of what its key
  depends on (a list, a last run, a job that arrives or fails) renders and
  remounts. That it holds the *latest* of them is not so (`BadgeTellsSource`).
- `TypesKept`: `[]SentWellTyped`, by cases on the control and the kind of text
  in it.
- `ReopeningKeeps`: `[]ReopenKeeps`. `FormInv` is strengthened with: what the
  lists in the control hold, and what was sent has its field's type and is
  `Kept`, that is, shown again and sent again it is the same, or nothing if it
  was the empty list. `SendsKept` shows this for any text a control can hold, by
  what `FilterKeeps` says of the lists: a filter returns items of the kind it
  keeps, and leaves a list of such items as it is. So the first submission may
  drop items, and a second one drops no more.
- `ExampleKept`: `[]SampleComesBack`. `FromExample` relates each field of the
  editor to the value it was inferred from, until its type is changed;
  `SampleBack` takes the kinds of values through the form and back.
- `BuilderKept`: `[]BuilderReadsBack`. `IsModel` says which models the controls
  can show, `ReadsModel` that any expression is read as one of them, `ReadsBack`
  that writing and reading one gives it back and is accepted. The weekdays are
  the difficult part (`DaysWritten`: neighbours become a range), with the least
  and greatest day from the well-founded order of the numbers.
- `CalendarKept`: `[]CalendarAgrees`, for every expression that can be typed or
  built, but for those `SameReading` names: descriptors, names, `?`, and the
  readings listed below. `SameDays` is the comparison, for any well-formed
  expression and any date: by whether it has an L, and then by which of its two
  days are stars; `SundayOnce` says that the 7 the calendar tries on a Sunday
  adds nothing. That the dates are dates needs `DaysBefore`, a recursive
  function: `DaysExist` and `DaysCounted` show it to exist and to have numbers
  as values, by a least counterexample instead of an induction.
- `DaysTakenOnce`: `[]NoDayTwice`, for any expression and any number of months.
  `PreviousFound` takes the windows of `PrevFire` one by one: together they are
  the 200 days before, so that it returns the last firing in them, if there is
  one. A period then begins after every earlier firing, and so after every
  earlier period.
- `LinksKept`, `FilialKept`: `[]LinkKeepsNotas`, `[]FilialOfEmpresa`. The branch
  filtered by is one of its company's (`OfEmpresa`) after every way to filter,
  and loading the URL puts back what the URL leaves out (`CompletedUrl`).
- `PresetsKept`, `TopKept`: `PresetReproduces`, `FilterStartsAtTop`. Saved
  queries ask for what they were saved with (`Reproduces`), also one that knew
  fewer filters; each step that changes the request resets the position.
- `CardsKept`: `[]CardsOfPeriod`. Notas only arrive, so an answer of either
  query was right at some moment of the visit and stays within what there is
  now; each answer, cached or on its way, is one of the period and date in its
  key (`CardsInv`). The rows of a company then add up to a count of that company
  (`RowsCount`), and without any the cards are a count of all. That they are the
  company's is not so (`CardsOfCompany`).

**Only model-checked.** Liveness under fairness is beyond the prover: `Settles`,
`StreamEnds`, `PanelSettles`, `StaleStatusClears`, `ListCatchesUp`, `TabsAgree`.
Every invariant and every other action property of the passing runs is a
theorem. Where a proof needs an induction (the filters of lists, the days before
a month), it reasons from a least counterexample (`Earliest`, from the
well-founded order of the numbers). That needs recursion written as a function,
which is why `ParameterForm` has its own `Filtered` in place of `SelectSeq`.

## Disagreements with comments and documents

The six violation runs each quote the line they contradict, in `findings`. The
following formulas state what the repository says elsewhere, and the code does
not do it. TLC refutes each, named as the only property in the configuration of
the run given:

| formula | configuration |
|---|---|
| `SingleExecution` | `timely`, with `FaultKinds = {"crash", "backlog"}` |
| `EndIsComplete`, `PanelFollows` | `log_stream` |
| `NextRunReckoned` | `scheduler` |
| `BadgeTellsSource`, `CalendarOfFiveFields`, `FoundWithinYear`, `LinkShowsCompanies`, `CardsOfCompany`, `DrillShowsRow` | `web` |

- `SingleExecution` (`internal/retry/retry_worker.go:111`): a message of a
  worker that died is delivered again by the broker, and the job is found stuck
  by the retry worker as well, which publishes a second message: while the first
  one waits in the queue longer than the timeout there are two, and two live
  workers execute the job, though none was taken for dead.
  `examples/worker_example.py:6` says "Idempotência: checa /status antes de
  processar (cobre re-entrega)", `docs/automations.md:341` "Cobre o caso de
  redelivery": the check covers the message of a job that has ended, and not the
  second message of one that runs.
- `EndIsComplete` (`internal/api/handlers/job_handler.go:391`): a round that
  finds the job ended reads one more batch and sends the end. A client further
  behind never gets the rest, since the browser closes its EventSource on it.
  The protocol says "drena uma última vez e envia event: end" (lines 297-298).
  With the real batch of 200 these are the logs beyond 400 of a job that had
  ended when its panel was opened.
- `PanelFollows` (`web/src/components/job-panel.tsx:67`): `StreamJobLogs`
  answers 404 to any error of `GetByID`, a database that fails for a moment
  included (`job_handler.go:314-318`); a 401 or a proxy's 502 are as possible.
  An EventSource closes for good on such an answer, and the panel's `onError`
  only looks for an `error` in the event, which that one does not have: no
  message, no second attempt, and the job's own query is not polled. The panel
  is "painel lateral fixo que mostra dados do job + logs em tempo real via SSE"
  (`job-panel.tsx:29-30`).
- `NextRunReckoned` (`internal/scheduler/scheduler.go:127`): `Start` calls
  `Reload` before `cron.Start` (lines 77-81). An entry of a runner that is not
  running has no next time, so the zero time is written, and stays until the
  schedule fires or someone changes a schedule. The comment has "que o
  next_run_at seja sempre recalculado" (lines 103-104).
- `BadgeTellsSource` (`web/src/app/automations/page.tsx:268`): the form takes
  its values when it is mounted, and its key is the automation and the kind of
  source. When a newer last execution arrives the key is the same: the form
  keeps the older one's values under "Carregado da sua última execução" (line
  240).
- `CalendarOfFiveFields` (`web/src/lib/cron.ts:206`): `cronFiresOnDate` reads
  the fields with `parseInt`, so that a name (`MON-FRI`, `JAN`), which the
  server takes, marks no day; nor does `?`. Its comment says "Diz se uma
  expressão cron de 5 campos dispara em algum momento da data dada" (line 200).
  Descriptors (`@daily`, `@every`) have one field, and the calendar is blank for
  them too.
- `FoundWithinYear` (`internal/scheduler/cron_schedule.go:135`): the windows of
  `PrevFire` are of 1, 7, 40 and 200 days. Its comment says "Devolve zero se não
  achar (ex.: schedule sem disparo no último ~ano)" (line 129): a schedule whose
  last firing was 201 to 365 days ago has none either, and `{{prev_run}}`
  becomes the day itself.
- `LinkShowsCompanies` (`web/src/app/xml/page.tsx:983`): the companies' view
  keeps filters of its own, search, period, document, direction and health
  (lines 2498-2511), and none is in the URL; nor is the period of the cards
  (972-973). The comment says "Espelha os filtros na URL (sem navegar/refetch):
  URL compartilhável" (lines 981-982).
- `CardsOfCompany` (`web/src/app/xml/page.tsx:1124`): `empOv ?? ovGlobal` is the
  global overview when the companies' query has failed and when the company has
  no row, as one without notas in the period; for notas without a company the
  cards are not filtered at all. The comment says "Quando há filtro de empresa,
  refletem os números daquela empresa" (lines 1355-1356).
- `DrillShowsRow` (`web/src/app/xml/page.tsx:1228`): `drillToEmpresa` leaves the
  texts typed into the filters of the notas as they are, and they narrow the
  list it opens. Its comment says "abre a aba Notas filtrada por aquela
  (empresa, filial)" (lines 1222-1225).

Further ones, without a formula:

- the calendar counts a step from a day of the week up to 7, so `1/3` marks
  Sundays the scheduler does not fire on; and it takes `*/1` and `*,3` for
  restrictions, which robfig takes for stars. `SameReading` leaves these out, with
  the names and descriptors above.
- a success reported twice, ids that become visible out of order, a switch that
  overwrites another administrator's change: see `hazards`.

## Not modelled

- The graceful shutdown (15 seconds for requests in flight, `Scheduler.Stop`): a
  restart at any moment covers its effect on the rows.
- The reconnection of the broker client: a publication may fail at any time in
  `Orchestration`, for whatever cause. Which queue a message is in, payloads and
  results.
- Metrics, series and the dashboard that charts them: read-only SQL and its
  display, no state that lasts; the date filters of the list of jobs, which
  behave as its status filter.
- Rows that go with an automation that is deleted: the database decides, by its
  constraints.
- Roles: a page is modelled for an administrator; the middleware compares a role
  with a constant.
- The placeholders of months, times of day, time zones (a `TZ=` before an
  expression included), `@every` of a day or more, `describeCron`.
- Of the XML dashboard: the tracker behind its API, exports, charts, presentation
  mode and detail panels; sorting and unfolding of rows; the saved queries of
  the companies' tab (the same menu on fewer filters), and which rows its search
  and its filter by health leave; the status page, which
  polls and displays. Of the job panel: filtering, copying, the summary of a result.
- Configuration, logging, connection set-up, layout and visual components.
- `UpdateNextRun` failing (fault kind "next" of `Scheduler`) and the error of the
  last sweep ("late" of `LogStream`) are in the models, and no passing run uses
  them: with them `NextRunMatches` and `EndLosesOnlyExcess` do not hold.

## Plan

Done: `JobStore`, `Orchestration` with its abstract specifications and proofs,
`LogStream` and `JobPanel`, `Scheduler` with their proofs, the web client with its
proofs.

What is left: the liveness properties, as leads-to steps whose enabledness is
stated by hand; and the hazards without a property, whose notes say what each
would take.
