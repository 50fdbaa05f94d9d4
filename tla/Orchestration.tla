---------------------------- MODULE Orchestration ----------------------------
(***************************************************************************)
(* The life of a job across the processes that write its row:              *)
(*                                                                         *)
(*   handlers  goroutines that submit a job: POST /automations/:id/execute,*)
(*             POST /jobs/:id/retry and the cron callback runSchedule      *)
(*   retry     the goroutine of internal/retry, one pass per minute        *)
(*   workers   examples/worker_example.py, prefetch 1, talking to the      *)
(*             broker on one side and to worker_handler.go on the other    *)
(*   users     POST /jobs/:id/cancel                                       *)
(*                                                                         *)
(* Every statement that writes and every broker call is a step of its own: *)
(* nothing in the code holds a transaction or a lock over two of them.  A  *)
(* read whose value is only used by the next statement of the same handler *)
(* is taken together with that statement.                                  *)
(* The broker's queue is the number of ready messages per job; any ready   *)
(* message may be delivered next.                                          *)
(***************************************************************************)
EXTENDS JobStore

CONSTANTS
    Jobs,         \* identifiers the database may hand out
    NoJob,        \* stands for "no job"
    Handlers,     \* goroutines that can be submitting a job at the same time
    Workers,      \* worker processes
    Origins,      \* which of "execute", "retry", "schedule" submit jobs here
    MaxRetries,   \* maxRetries of the retry worker
    Successes,    \* statuses with which a worker reports a successful run
    CancelFrom,   \* statuses in which users press Cancel
    FaultKinds,   \* what may go wrong, see May
    MaxFaults     \* how often, over a whole behaviour

ASSUME NoJobAssumption == NoJob \notin Jobs
ASSUME MaxRetriesAssumption == MaxRetries \in Nat
ASSUME MaxFaultsAssumption == MaxFaults \in Nat
ASSUME OriginsAssumption == Origins \subseteq {"execute", "retry", "schedule"}
ASSUME SuccessesAssumption == Successes \subseteq {"completed", "completed_no_invoices"}
ASSUME CancelFromAssumption == CancelFrom \subseteq Cancelable

VARIABLES
    jobs,       \* the table jobs
    queue,      \* ready messages in the broker, per job
    handlers,   \* what each submitting goroutine is doing
    retry,      \* what the retry worker is doing
    workers,    \* what each worker is doing
    faults,     \* faults so far: bounds the model
    published,  \* history: publications the broker client reported as done
    asked       \* history: a user asked to cancel since the worker's attempt began

vars == <<jobs, queue, handlers, retry, workers, faults, published, asked>>

IdleHandler == [pc |-> "idle", job |-> NoJob, origin |-> "execute"]
IdleWorker  == [pc |-> "idle", job |-> NoJob, owns |-> FALSE, outcome |-> "none"]
NoEntry     == [job |-> NoJob, retryCount |-> 0]
IdleRetry   == [pc |-> "idle", todo |-> {}, cur |-> NoEntry]

Init == /\ jobs = [j \in Jobs |-> NoRow]
        /\ queue = [j \in Jobs |-> 0]
        /\ handlers = [h \in Handlers |-> IdleHandler]
        /\ retry = IdleRetry
        /\ workers = [w \in Workers |-> IdleWorker]
        /\ faults = 0
        /\ published = [j \in Jobs |-> 0]
        /\ asked = [w \in Workers |-> FALSE]

-----------------------------------------------------------------------------
(* Faults.  The kinds are "publish" (PublishJob returns an error), "lost"  *)
(* (the client writes the message and the broker never gets it: there are  *)
(* no publisher confirms), "db" (a statement of the backend's own fails),  *)
(* "status", "start", "poll", "finish" (that call of a worker fails),      *)
(* "crash" (a worker dies), "channel" (the broker takes the delivery back  *)
(* while the worker goes on) and "backend" (the backend restarts).  The    *)
(* heartbeat timeout passes by "stall" (the worker that has the job sends  *)
(* no sign of life), by "backlog" (no worker has it, and its message waits *)
(* in the queue that long) or by "silence" (there is no message either).   *)

May(kind) == kind \in FaultKinds /\ faults < MaxFaults

Charge(fault) == faults' = IF fault THEN faults + 1 ELSE faults

(* The statement succeeds or fails. *)
StatementResults == {TRUE} \cup {ok \in {FALSE} : May("db")}

(* A call is answered, fails before it has any effect, or has its effect   *)
(* and loses its answer.                                                   *)
Answers(call) == {"ok"} \cup {a \in {"refused", "unanswered"} : May(call)}

Applied(answer) == answer # "refused"

Set(j, row) == jobs' = [jobs EXCEPT ![j] = row]

(* PublishJob: an error, or a message the broker has, or one it never got. *)
PublishResults == {"ok"} \cup {r \in {"error"} : May("publish")}
                         \cup {r \in {"lost"} : May("lost")}

PublishJob(j, result) ==
    /\ queue' = IF result = "ok" THEN [queue EXCEPT ![j] = @ + 1] ELSE queue
    /\ published' = IF result = "error" THEN published
                                        ELSE [published EXCEPT ![j] = @ + 1]
    /\ Charge(result # "ok")

-----------------------------------------------------------------------------
(* Submitting a job: insert the row, then publish the message.             *)

InsertJob(h, j, origin) ==
    /\ origin \in Origins
    /\ handlers[h].pc = "idle"
    /\ jobs[j].status = "absent"
    /\ Set(j, Create)
    /\ handlers' = [handlers EXCEPT
                      ![h] = [pc |-> "publish", job |-> j, origin |-> origin]]
    /\ UNCHANGED <<queue, retry, workers, faults, published, asked>>

ExecuteAutomation(h, j) == InsertJob(h, j, "execute")

(* Any job can be retried, whatever its status; only its parameters are    *)
(* read, and the new job starts with a budget of its own.                  *)
RetryJob(h, j, original) == /\ jobs[original].status # "absent"
                            /\ InsertJob(h, j, "retry")

RunSchedule(h, j) == InsertJob(h, j, "schedule")

Publish(h, origin, onError) ==
    /\ handlers[h].pc = "publish"
    /\ handlers[h].origin = origin
    /\ \E result \in PublishResults :
         /\ PublishJob(handlers[h].job, result)
         /\ handlers' = [handlers EXCEPT
                           ![h] = IF result = "error" THEN onError ELSE IdleHandler]
    /\ UNCHANGED <<jobs, retry, workers, asked>>

(* Mutant: the error of the broker is returned and nothing is compensated. *)
PublishExecutedUncompensated(h) == Publish(h, "execute", IdleHandler)

(* Only ExecuteAutomation compensates for a publication that failed. *)
PublishExecuted(h) ==
    Publish(h, "execute", [handlers[h] EXCEPT !.pc = "failResult"])

PublishRetried(h)   == Publish(h, "retry", IdleHandler)
PublishScheduled(h) == Publish(h, "schedule", IdleHandler)

(* The errors of the two compensating statements are dropped; the request's *)
(* context, cancelled when the client has gone, is enough to fail both.     *)
CompensateResult(h) ==
    /\ handlers[h].pc = "failResult"
    /\ \E ok \in StatementResults :
         /\ Set(handlers[h].job, IF ok THEN SetResult(jobs[handlers[h].job], "error")
                                       ELSE jobs[handlers[h].job])
         /\ Charge(~ok)
    /\ handlers' = [handlers EXCEPT ![h].pc = "failStatus"]
    /\ UNCHANGED <<queue, retry, workers, published, asked>>

CompensateStatus(h) ==
    /\ handlers[h].pc = "failStatus"
    /\ \E ok \in StatementResults :
         /\ Set(handlers[h].job, IF ok THEN UpdateStatus(jobs[handlers[h].job], "failed")
                                       ELSE jobs[handlers[h].job])
         /\ Charge(~ok)
    /\ handlers' = [handlers EXCEPT ![h] = IdleHandler]
    /\ UNCHANGED <<queue, retry, workers, published, asked>>

HandlerStep(h) == \/ PublishExecuted(h)
                  \/ PublishRetried(h)
                  \/ PublishScheduled(h)
                  \/ CompensateResult(h)
                  \/ CompensateStatus(h)

-----------------------------------------------------------------------------
(* The user: CancelJob.                                                    *)

CancelJob(j) ==
    /\ jobs[j].status \in CancelFrom
    /\ Set(j, RequestCancellation(jobs[j]))
    /\ asked' = [w \in Workers |-> asked[w] \/ workers[w].job = j]
    /\ UNCHANGED <<queue, handlers, retry, workers, faults, published>>

-----------------------------------------------------------------------------
(* The retry worker.  A pass works on the rows GetStuckJobs returned: their *)
(* retry_count is the one read then, and no statement looks at the row's   *)
(* status again.                                                           *)

(* The loop of checkAndRetry goes on with what is left of its list. *)
Continue(todo) == [pc |-> IF todo = {} THEN "idle" ELSE "scan",
                   todo |-> todo, cur |-> NoEntry]

NextJob == Continue(retry.todo)

At(pc) == [retry EXCEPT !.pc = pc]

StuckJobs == {j \in Jobs : IsStuck(jobs[j])}

GetStuckJobs ==
    /\ retry.pc = "idle"
    /\ StuckJobs # {}
    /\ retry' = [pc |-> "scan", cur |-> NoEntry,
                 todo |-> {[job |-> j, retryCount |-> jobs[j].retryCount] :
                              j \in StuckJobs}]
    /\ UNCHANGED <<jobs, queue, handlers, workers, faults, published, asked>>

(* Mutant: one attempt too many. *)
BudgetLeftOffByOne(entry) == entry.retryCount <= MaxRetries

BudgetLeft(entry) == entry.retryCount < MaxRetries

(* Take a job of the list.  With budget left its automation is looked up, *)
(* and a lookup that fails skips the job.                                  *)
TakeStuckJob(entry) ==
    /\ retry.pc = "scan"
    /\ entry \in retry.todo
    /\ \E found \in StatementResults :
         /\ retry' =
              IF BudgetLeft(entry) /\ ~found THEN Continue(retry.todo \ {entry})
              ELSE [pc |-> IF BudgetLeft(entry) THEN "increment" ELSE "failResult",
                    todo |-> retry.todo \ {entry}, cur |-> entry]
         /\ Charge(~found)
    /\ UNCHANGED <<jobs, queue, handlers, workers, published, asked>>

(* A statement of the retry worker on its current job. *)
RetryStatement(pc, row, onSuccess, onFailure) ==
    /\ retry.pc = pc
    /\ \E ok \in StatementResults :
         /\ Set(retry.cur.job, IF ok THEN row ELSE jobs[retry.cur.job])
         /\ retry' = IF ok THEN onSuccess ELSE onFailure
         /\ Charge(~ok)
    /\ UNCHANGED <<queue, handlers, workers, published, asked>>

CurrentRow == jobs[retry.cur.job]

(* Mutant: the retry is not counted. *)
IncrementForgotten ==
    RetryStatement("increment", CurrentRow, At("reset"), NextJob)

IncrementRetries ==
    RetryStatement("increment", IncrementRetryCount(CurrentRow),
                   At("reset"), NextJob)

ResetToPending ==
    RetryStatement("reset", UpdateStatus(CurrentRow, "pending"),
                   At("publish"), NextJob)

Republish ==
    /\ retry.pc = "publish"
    /\ \E result \in PublishResults :
         /\ PublishJob(retry.cur.job, result)
         /\ retry' = IF result = "error" THEN At("failResult") ELSE NextJob
    /\ UNCHANGED <<jobs, handlers, workers, asked>>

(* Giving up, for want of budget or because the broker refused.  An error  *)
(* of the first statement is logged and the second one still runs.         *)
RecordFailure ==
    RetryStatement("failResult", SetResult(CurrentRow, "error"),
                   At("failStatus"), At("failStatus"))

MarkFailed ==
    RetryStatement("failStatus", UpdateStatus(CurrentRow, "failed"),
                   NextJob, NextJob)

RetryStep == \/ GetStuckJobs
             \/ \E entry \in retry.todo : TakeStuckJob(entry)
             \/ IncrementRetries
             \/ ResetToPending
             \/ Republish
             \/ RecordFailure
             \/ MarkFailed

-----------------------------------------------------------------------------
(* The endpoints of worker_handler.go, as far as they change the row.      *)

HandleJobStatus(j) == jobs[j].status \in Terminal
HandleJobStart(j, answer) ==
    Set(j, IF Applied(answer) THEN SetStarted(jobs[j]) ELSE jobs[j])
HandleCancellationCheck(j, answer) ==
    Set(j, IF Applied(answer) THEN UpdateHeartbeat(jobs[j]) ELSE jobs[j])

Finishing == {"finishStatus", "finishCompleted", "finishResult"}

(* /finish is three statements: status, completed_at and, when the worker  *)
(* sends one, the result.  None of them looks at the row.                  *)
FinishStatement(j, part, outcome) ==
    CASE part = "finishStatus"    -> UpdateStatus(jobs[j], outcome)
      [] part = "finishCompleted" -> SetCompleted(jobs[j])
      [] part = "finishResult"    -> SetResult(jobs[j], "worker")

SendsResult(outcome) == outcome # "canceled"

AfterPart(part, outcome) ==
    CASE part = "finishStatus"    -> "finishCompleted"
      [] part = "finishCompleted" -> IF SendsResult(outcome) THEN "finishResult"
                                                             ELSE "ack"
      [] part = "finishResult"    -> "ack"

-----------------------------------------------------------------------------
(* The worker: process_message, one delivery at a time.                    *)

(* Mutant: the report of an exception has no status. *)
RaiseWithoutStatus(worker) ==
    IF worker.outcome \in {"failed", "canceled"}
    THEN [worker EXCEPT !.pc = "ack"] ELSE [worker EXCEPT !.pc = "finishStatus"]

(* An exception: whatever was being done, and a success whose report       *)
(* failed, is reported as failed; an exception out of that report, or out  *)
(* of the report of a cancellation, leads to the ack of the finally block. *)
Raise(worker) ==
    IF worker.outcome \in {"failed", "canceled"}
    THEN [worker EXCEPT !.pc = "ack"]
    ELSE [worker EXCEPT !.pc = "finishStatus", !.outcome = "failed"]

Resume(w, answer, next) ==
    /\ workers' = [workers EXCEPT ![w] = IF answer = "ok" THEN next ELSE Raise(@)]
    /\ Charge(answer # "ok")

(* The broker delivers a ready message to a worker that has none. *)
Consume(w, j) ==
    /\ workers[w].pc = "idle"
    /\ queue[j] > 0
    /\ queue' = [queue EXCEPT ![j] = @ - 1]
    /\ workers' = [workers EXCEPT ![w] = [pc |-> "status", job |-> j, owns |-> TRUE,
                                          outcome |-> "none"]]
    /\ asked' = [asked EXCEPT ![w] = FALSE]
    /\ UNCHANGED <<jobs, handlers, retry, faults, published>>

(* Mutant: the worker does not look at the status of the job. *)
CheckStatusIgnored(w) ==
    /\ workers[w].pc = "status"
    /\ \E answer \in Answers("status") :
         Resume(w, answer, [workers[w] EXCEPT !.pc = "start"])
    /\ UNCHANGED <<jobs, queue, handlers, retry, published, asked>>

(* Idempotency check: a job already finished is not run again. *)
CheckStatus(w) ==
    /\ workers[w].pc = "status"
    /\ \E answer \in Answers("status") :
         Resume(w, answer, [workers[w] EXCEPT !.pc = IF HandleJobStatus(workers[w].job)
                                                     THEN "ack" ELSE "start"])
    /\ UNCHANGED <<jobs, queue, handlers, retry, published, asked>>

ReportStart(w) ==
    /\ workers[w].pc = "start"
    /\ \E answer \in Answers("start") :
         /\ HandleJobStart(workers[w].job, answer)
         /\ Resume(w, answer, [workers[w] EXCEPT !.pc = "run"])
    /\ asked' = [asked EXCEPT ![w] = FALSE]
    /\ UNCHANGED <<queue, handlers, retry, published>>

(* One round of the work loop: poll, refresh the heartbeat, and give up    *)
(* when a cancellation was requested.  The endpoint drops an error of the  *)
(* refresh: such a poll is one that did not happen.                        *)
PollCancellation(w) ==
    /\ workers[w].pc = "run"
    /\ \E answer \in Answers("poll") :
         /\ HandleCancellationCheck(workers[w].job, answer)
         /\ Resume(w, answer,
                   IF jobs[workers[w].job].cancelRequested
                   THEN [workers[w] EXCEPT !.pc = "finishStatus", !.outcome = "canceled"]
                   ELSE workers[w])
    /\ UNCHANGED <<queue, handlers, retry, published, asked>>

(* The automation returns, or raises. *)
EndExecution(w) ==
    /\ workers[w].pc = "run"
    /\ \E outcome \in Successes \cup {"failed"} :
         workers' = [workers EXCEPT
                       ![w] = [@ EXCEPT !.pc = "finishStatus", !.outcome = outcome]]
    /\ UNCHANGED <<jobs, queue, handlers, retry, faults, published, asked>>

ReportFinish(w) ==
    LET worker == workers[w]
    IN /\ worker.pc \in Finishing
       /\ \E answer \in Answers("finish") :
            /\ Set(worker.job, IF Applied(answer)
                               THEN FinishStatement(worker.job, worker.pc, worker.outcome)
                               ELSE jobs[worker.job])
            /\ Resume(w, answer,
                      [worker EXCEPT !.pc = AfterPart(worker.pc, worker.outcome)])
       /\ UNCHANGED <<queue, handlers, retry, published, asked>>

(* basic_ack of the finally block.  On a channel the broker has closed it  *)
(* raises and the worker restarts; the message went back to the queue when *)
(* the channel closed, so the ack changes nothing there.                   *)
Ack(w) ==
    /\ workers[w].pc = "ack"
    /\ workers' = [workers EXCEPT ![w] = IdleWorker]
    /\ asked' = [asked EXCEPT ![w] = FALSE]
    /\ UNCHANGED <<jobs, queue, handlers, retry, faults, published>>

WorkerStep(w) == \/ \E j \in Jobs : Consume(w, j)
                 \/ CheckStatus(w)
                 \/ ReportStart(w)
                 \/ PollCancellation(w)
                 \/ EndExecution(w)
                 \/ ReportFinish(w)
                 \/ Ack(w)

-----------------------------------------------------------------------------
(* What else may happen.                                                   *)

(* The broker makes the unacknowledged message of a worker ready again. *)
Redeliver(w) == queue' = IF workers[w].owns
                         THEN [queue EXCEPT ![workers[w].job] = @ + 1] ELSE queue

(* A worker dies and is started again. *)
WorkerCrash(w) ==
    /\ May("crash")
    /\ workers[w].pc # "idle"
    /\ Redeliver(w)
    /\ workers' = [workers EXCEPT ![w] = IdleWorker]
    /\ asked' = [asked EXCEPT ![w] = FALSE]
    /\ Charge(TRUE)
    /\ UNCHANGED <<jobs, handlers, retry, published>>

(* consumer_timeout or a broken connection, while the worker is busy. *)
LoseChannel(w) ==
    /\ May("channel")
    /\ workers[w].owns
    /\ Redeliver(w)
    /\ workers' = [workers EXCEPT ![w].owns = FALSE]
    /\ Charge(TRUE)
    /\ UNCHANGED <<jobs, handlers, retry, published, asked>>

WorkedOn(j) == \E w \in Workers : workers[w].job = j

GrowOld(j) ==
    /\ jobs[j].status = "running"
    /\ jobs[j].heartbeat = "fresh"
    /\ Set(j, [jobs[j] EXCEPT !.heartbeat = "stale"])

(* A worker has the job and neither starts nor polls for longer than the   *)
(* heartbeat timeout.                                                      *)
Stall(j) ==
    /\ May("stall")
    /\ WorkedOn(j)
    /\ GrowOld(j)
    /\ Charge(TRUE)
    /\ UNCHANGED <<queue, handlers, retry, workers, published, asked>>

(* Nobody works on the job, and the heartbeat timeout passes. *)
FallSilent(j) ==
    /\ (IF queue[j] > 0 THEN "backlog" ELSE "silence") \in FaultKinds
    /\ ~WorkedOn(j)
    /\ GrowOld(j)
    /\ UNCHANGED <<queue, handlers, retry, workers, faults, published, asked>>

(* The backend restarts: goroutines are gone, and a worker in the middle   *)
(* of a /finish gets no answer.                                            *)
BackendRestart ==
    /\ May("backend")
    /\ handlers' = [h \in Handlers |-> IdleHandler]
    /\ retry' = IdleRetry
    /\ workers' = [w \in Workers |->
                     IF workers[w].pc \in {"finishCompleted", "finishResult"}
                     THEN Raise(workers[w]) ELSE workers[w]]
    /\ Charge(TRUE)
    /\ UNCHANGED <<jobs, queue, published, asked>>

-----------------------------------------------------------------------------
Next ==
    \/ \E h \in Handlers :
         \/ \E j \in Jobs : \/ ExecuteAutomation(h, j)
                            \/ \E original \in Jobs : RetryJob(h, j, original)
                            \/ RunSchedule(h, j)
         \/ HandlerStep(h)
    \/ RetryStep
    \/ \E w \in Workers : WorkerStep(w) \/ WorkerCrash(w) \/ LoseChannel(w)
    \/ \E j \in Jobs : CancelJob(j) \/ Stall(j) \/ FallSilent(j)
    \/ BackendRestart

Spec == Init /\ [][Next]_vars

(* A goroutine and a worker that can go on do; a worker's loop ends; the   *)
(* ticker of the retry worker keeps ticking; time passes for a heartbeat   *)
(* nobody refreshes.  Requests, cancellations and faults need not happen.  *)
Fairness ==
    /\ \A h \in Handlers : WF_vars(HandlerStep(h))
    /\ WF_vars(RetryStep)
    /\ \A w \in Workers :
         /\ WF_vars(\E j \in Jobs : Consume(w, j))
         /\ WF_vars(CheckStatus(w))
         /\ WF_vars(ReportStart(w))
         /\ WF_vars(EndExecution(w))
         /\ WF_vars(ReportFinish(w))
         /\ WF_vars(Ack(w))
    /\ \A j \in Jobs : WF_vars(FallSilent(j))

FairSpec == Spec /\ Fairness

-----------------------------------------------------------------------------
(* Types *)

HandlerState == [pc: {"idle", "publish", "failResult", "failStatus"},
                 job: Jobs \cup {NoJob}, origin: {"execute", "retry", "schedule"}]

Entry == [job: Jobs, retryCount: Nat]

RetryState == [pc: {"idle", "scan", "increment", "reset", "publish",
                    "failResult", "failStatus"},
               todo: SUBSET Entry, cur: Entry \cup {NoEntry}]

WorkerState == [pc: {"idle", "status", "start", "run", "finishStatus",
                     "finishCompleted", "finishResult", "ack"},
                job: Jobs \cup {NoJob}, owns: BOOLEAN,
                outcome: {"none"} \cup Terminal]

(* The variables have their types, and a process that is busy is busy with *)
(* a job: the code dereferences job.ID in every one of these places.  A    *)
(* worker that reports has a status to report, also after an exception.    *)
TypeOK ==
    /\ jobs \in [Jobs -> Row]
    /\ queue \in [Jobs -> Nat]
    /\ handlers \in [Handlers -> HandlerState]
    /\ retry \in RetryState
    /\ workers \in [Workers -> WorkerState]
    /\ faults \in Nat
    /\ published \in [Jobs -> Nat]
    /\ asked \in [Workers -> BOOLEAN]
    /\ \A h \in Handlers : handlers[h].pc # "idle" => handlers[h].job \in Jobs
    /\ retry.pc \notin {"idle", "scan"} => retry.cur \in Entry
    /\ \A w \in Workers :
         /\ workers[w].pc # "idle" => workers[w].job \in Jobs
         /\ workers[w].pc \in Finishing => workers[w].outcome # "none"

-----------------------------------------------------------------------------
(* Properties *)

(* The retry worker requeues a job at most MaxRetries times, although it   *)
(* decides on a retry_count read at the start of its pass, and no job is   *)
(* handed to the broker more often than it was paid for: a crash between   *)
(* counting a retry and publishing it can only waste budget.               *)
RetryBudget ==
    \A j \in Jobs : /\ jobs[j].retryCount <= MaxRetries
                    /\ published[j] <= jobs[j].retryCount + 1

(* The same as a refinement: submissions and retries, however they         *)
(* interleave, fail and restart, only ever take the steps of the ledger.   *)
Ledger == INSTANCE DeliveryLedger
            WITH spent <- [j \in Jobs |-> jobs[j].retryCount], handed <- published

KeepsLedger == Ledger!Spec

(* A worker aborts an attempt only for a cancellation requested during     *)
(* that attempt, never for one aimed at an earlier attempt of the job: the *)
(* reason SetStarted clears cancellation_requested_at.                     *)
CancelAbortsOwnAttempt ==
    \A w \in Workers : workers[w].outcome = "canceled" => asked[w]

(* Somebody still has to deal with the pending job j: the broker has its   *)
(* message, or a worker that has not started it holds the message, or the  *)
(* process that made it pending has yet to publish or to compensate.       *)
Accounted(j) ==
    \/ queue[j] > 0
    \/ \E w \in Workers : /\ workers[w].job = j
                          /\ workers[w].owns
                          /\ workers[w].pc \in {"status", "start"}
    \/ \E h \in Handlers : handlers[h].pc # "idle" /\ handlers[h].job = j
    \/ retry.cur.job = j /\ retry.pc \in {"publish", "failResult", "failStatus"}

(* No pending job is an orphan: the retry worker only looks at running     *)
(* jobs, so a pending job nobody has to deal with stays pending for ever   *)
(* (the comments at both compensations say so).                            *)
PendingAccounted ==
    \A j \in Jobs : jobs[j].status = "pending" => Accounted(j)

Executing(w, j) == /\ workers[w].job = j
                   /\ workers[w].pc \in {"start", "run"} \cup Finishing

(* No two workers execute the same job: a message is held by one worker,   *)
(* goes back to the queue only when that worker has died, and the retry    *)
(* worker sends another one only when there is none.  This last point is   *)
(* the heartbeat's word, and true while a live worker polls and a message  *)
(* is taken up within the heartbeat timeout.                               *)
SingleExecution ==
    \A j \in Jobs : \A v, w \in Workers : Executing(v, j) /\ Executing(w, j) => v = w

(* A cancellation the user asks of a running attempt is there until that   *)
(* attempt sees it: SetStarted clears the flag for the attempt that begins *)
(* and must not clear it for one under way.                                *)
RequestReachesWorker ==
    [][\A w \in Workers :
          workers[w].pc = "run" /\ jobs[workers[w].job].cancelRequested =>
              jobs'[workers[w].job].cancelRequested]_vars

(* The statuses of every job follow the contract; in particular what a     *)
(* worker reported is final, whatever is redelivered afterwards.           *)
Contract == INSTANCE JobContract WITH status <- [j \in Jobs |-> jobs[j].status]

KeepsContract == Contract!Spec

(* A job cancelled while pending never gets to run, as RequestCancellation *)
(* and CancelJob say ("nao vai sair da fila pra worker").                  *)
CanceledNeverRuns ==
    [][\A j \in Jobs : jobs[j].status = "canceled" => jobs'[j].status # "running"]_vars

(* Only a running job is put back to pending: the comments at both         *)
(* compensations rely on "o retry worker so resgata jobs 'running'".       *)
OnlyRunningRescued ==
    [][\A j \in Jobs : jobs[j].status # "pending" /\ jobs'[j].status = "pending" =>
                           jobs[j].status \in {"absent", "running"}]_vars

(* Every job submitted ends up in a terminal status and stays there, also  *)
(* when its worker died, lost its channel, stopped polling, or could not   *)
(* report: the broker's redelivery and the retry worker see to it.         *)
Settles ==
    \A j \in Jobs : <>[](jobs[j].status \in {"absent"} \cup Terminal)

=============================================================================
