------------------------ MODULE Orchestration_proofs ------------------------
(***************************************************************************)
(* Proofs about Orchestration, for all values of its constants: the types, *)
(* the retry budget and the refinement of DeliveryLedger, and the origin   *)
(* of every cancellation.                                                  *)
(***************************************************************************)
EXTENDS Orchestration, TLAPS

-----------------------------------------------------------------------------
(* Types *)

(* The statements of the repository turn rows into rows. *)
LEMMA RowTypes ==
    ASSUME NEW row \in Row
    PROVE  /\ NoRow \in Row
           /\ Create \in Row
           /\ \A s \in Status : UpdateStatus(row, s) \in Row
           /\ \A r \in Result : SetResult(row, r) \in Row
           /\ SetCompleted(row) \in Row
           /\ IncrementRetryCount(row) \in Row
           /\ SetStarted(row) \in Row
           /\ UpdateHeartbeat(row) \in Row
           /\ RequestCancellation(row) \in Row
           /\ [row EXCEPT !.heartbeat = "stale"] \in Row
<1> USE DEF Row, Status, Terminal, Result, Heartbeat
<1>1. NoRow \in Row /\ Create \in Row
  BY DEF NoRow, Create
<1>2. /\ \A s \in Status : UpdateStatus(row, s) \in Row
      /\ \A r \in Result : SetResult(row, r) \in Row
  BY DEF UpdateStatus, SetResult
<1>3. SetCompleted(row) \in Row
  BY DEF SetCompleted
<1>4. IncrementRetryCount(row) \in Row
  <2>1. row.retryCount + 1 \in Nat
    OBVIOUS
  <2>2. QED
    BY <2>1 DEF IncrementRetryCount
<1>5. SetStarted(row) \in Row
  BY DEF SetStarted
<1>6. UpdateHeartbeat(row) \in Row /\ [row EXCEPT !.heartbeat = "stale"] \in Row
  BY DEF UpdateHeartbeat
<1>7. RequestCancellation(row) \in Row
  BY DEF RequestCancellation
<1>8. QED
  BY <1>1, <1>2, <1>3, <1>4, <1>5, <1>6, <1>7

LEMMA SetType ==
    ASSUME TypeOK, NEW j \in Jobs, NEW row \in Row, Set(j, row)
    PROVE  jobs' \in [Jobs -> Row]
  BY DEF TypeOK, Set

LEMMA ChargeType == ASSUME TypeOK, NEW b \in BOOLEAN, Charge(b) PROVE faults' \in Nat
  BY DEF TypeOK, Charge

LEMMA PublishType ==
    ASSUME TypeOK, NEW j \in Jobs, NEW result, PublishJob(j, result)
    PROVE  /\ queue' \in [Jobs -> Nat]
           /\ published' \in [Jobs -> Nat]
           /\ faults' \in Nat
  BY DEF TypeOK, PublishJob, Charge

LEMMA InitTypeOK == Init => TypeOK
  BY RowTypes DEF Init, TypeOK, NoRow, Row, Status, Terminal, Heartbeat, Result,
     IdleHandler, IdleWorker, IdleRetry, NoEntry, HandlerState, RetryState,
     WorkerState, Entry, Finishing

LEMMA HandlerTypes ==
    ASSUME TypeOK, NEW h \in Handlers
    PROVE  /\ \A j \in Jobs : ExecuteAutomation(h, j) => TypeOK'
           /\ \A j, i \in Jobs : RetryJob(h, j, i) => TypeOK'
           /\ \A j \in Jobs : RunSchedule(h, j) => TypeOK'
           /\ HandlerStep(h) => TypeOK'
<1>1. ASSUME NEW j \in Jobs, NEW o, InsertJob(h, j, o) PROVE TypeOK'
  <2>1. jobs' \in [Jobs -> Row]
    BY <1>1, SetType, RowTypes DEF InsertJob, TypeOK
  <2>2. QED
    BY <1>1, <2>1, OriginsAssumption DEF InsertJob, TypeOK, HandlerState
<1>2. ASSUME NEW o, NEW next \in HandlerState, Publish(h, o, next),
             next.job \in Jobs \/ next.pc = "idle"
      PROVE  TypeOK'
  <2>1. handlers[h].job \in Jobs
    BY <1>2 DEF Publish, TypeOK
  <2>2. /\ queue' \in [Jobs -> Nat]
        /\ published' \in [Jobs -> Nat]
        /\ faults' \in Nat
    BY <1>2, <2>1, PublishType DEF Publish
  <2>3. IdleHandler \in HandlerState /\ IdleHandler.pc = "idle"
    BY DEF IdleHandler, HandlerState
  <2>4. PICK result \in PublishResults :
          handlers' = [handlers EXCEPT ![h] = IF result = "error" THEN next ELSE IdleHandler]
    BY <1>2 DEF Publish
  <2>5. QED
    BY <1>2, <2>2, <2>3, <2>4 DEF Publish, TypeOK
<1>3. ASSUME CompensateResult(h) PROVE TypeOK'
  <2>1. jobs' \in [Jobs -> Row] /\ faults' \in Nat
    BY <1>3, SetType, RowTypes, ChargeType
       DEF CompensateResult, TypeOK, Result, StatementResults
  <2>2. QED
    BY <1>3, <2>1 DEF CompensateResult, TypeOK, HandlerState
<1>4. ASSUME CompensateStatus(h) PROVE TypeOK'
  <2>1. jobs' \in [Jobs -> Row] /\ faults' \in Nat
    BY <1>4, SetType, RowTypes, ChargeType
       DEF CompensateStatus, TypeOK, Status, Terminal, StatementResults
  <2>2. QED
    BY <1>4, <2>1 DEF CompensateStatus, TypeOK, HandlerState, IdleHandler
<1>5. IdleHandler \in HandlerState /\ IdleHandler.pc = "idle"
  BY DEF IdleHandler, HandlerState
<1>6. ASSUME PublishExecuted(h) PROVE TypeOK'
  <2>1. /\ [handlers[h] EXCEPT !.pc = "failResult"] \in HandlerState
        /\ [handlers[h] EXCEPT !.pc = "failResult"].job \in Jobs
    BY <1>6 DEF PublishExecuted, Publish, TypeOK, HandlerState
  <2>2. QED
    BY <1>2, <1>6, <2>1 DEF PublishExecuted
<1>7. QED
  BY <1>1, <1>2, <1>3, <1>4, <1>5, <1>6
     DEF ExecuteAutomation, RetryJob, RunSchedule, HandlerStep, PublishRetried,
         PublishScheduled

LEMMA RetryTypes ==
    ASSUME TypeOK
    PROVE  RetryStep => TypeOK'
<1>1. ASSUME GetStuckJobs PROVE TypeOK'
  <2>1. {[job |-> j, retryCount |-> jobs[j].retryCount] : j \in StuckJobs} \in SUBSET Entry
    BY DEF StuckJobs, Entry, TypeOK, Row
  <2>2. QED
    BY <1>1, <2>1 DEF GetStuckJobs, TypeOK, RetryState
<1>2. ASSUME NEW todo \in SUBSET Entry
      PROVE  /\ Continue(todo) \in RetryState
             /\ Continue(todo).pc \in {"idle", "scan"}
  BY DEF Continue, RetryState
<1>3. retry.todo \in SUBSET Entry
  BY DEF TypeOK, RetryState
<1>4. ASSUME NEW entry \in retry.todo, TakeStuckJob(entry) PROVE TypeOK'
  <2>1. PICK found \in StatementResults :
          /\ retry' =
               IF BudgetLeft(entry) /\ ~found THEN Continue(retry.todo \ {entry})
               ELSE [pc |-> IF BudgetLeft(entry) THEN "increment" ELSE "failResult",
                     todo |-> retry.todo \ {entry}, cur |-> entry]
          /\ Charge(~found)
    BY <1>4 DEF TakeStuckJob
  <2>2. entry \in Entry /\ retry.todo \ {entry} \in SUBSET Entry
    BY <1>3
  <2>3. faults' \in Nat
    BY <2>1, ChargeType DEF StatementResults
  <2>4. /\ retry' \in RetryState
        /\ retry'.pc \notin {"idle", "scan"} => retry'.cur \in Entry
    BY <1>2, <2>1, <2>2 DEF RetryState
  <2>5. QED
    BY <1>4, <2>3, <2>4 DEF TakeStuckJob, TypeOK
<1>5. ASSUME NEW pc, NEW row \in Row, NEW next, NEW other,
             RetryStatement(pc, row, next, other),
             pc \notin {"idle", "scan"},
             \A r \in {next, other} : /\ r \in RetryState
                                      /\ r.pc \notin {"idle", "scan"} => r.cur \in Entry
      PROVE  TypeOK'
  <2>1. retry.cur.job \in Jobs
    BY <1>5 DEF RetryStatement, TypeOK, Entry
  <2>2. jobs' \in [Jobs -> Row] /\ faults' \in Nat
    BY <1>5, <2>1, SetType, ChargeType DEF RetryStatement, TypeOK, StatementResults
  <2>3. retry' \in {next, other}
    BY <1>5 DEF RetryStatement
  <2>4. QED
    BY <1>5, <2>2, <2>3 DEF RetryStatement, TypeOK
<1>6. /\ NextJob \in RetryState
      /\ NextJob.pc \notin {"idle", "scan"} => NextJob.cur \in Entry
  BY <1>2, <1>3 DEF NextJob
<1>7. ASSUME retry.cur \in Entry,
             NEW pc \in {"reset", "publish", "failResult", "failStatus"}
      PROVE  At(pc) \in RetryState /\ At(pc).cur \in Entry
  BY <1>7 DEF At, TypeOK, RetryState
<1>8. ASSUME retry.pc \notin {"idle", "scan"}
      PROVE  retry.cur \in Entry /\ CurrentRow \in Row
  BY <1>8 DEF TypeOK, CurrentRow, Entry
<1>9. ASSUME IncrementRetries PROVE TypeOK'
  <2>1. retry.pc = "increment"
    BY <1>9 DEF IncrementRetries, RetryStatement
  <2>2. IncrementRetryCount(CurrentRow) \in Row
    BY <1>8, <2>1, RowTypes
  <2>3. QED
    BY <1>5, <1>6, <1>7, <1>8, <1>9, <2>1, <2>2 DEF IncrementRetries
<1>10. ASSUME ResetToPending PROVE TypeOK'
  <2>1. retry.pc = "reset"
    BY <1>10 DEF ResetToPending, RetryStatement
  <2>2. UpdateStatus(CurrentRow, "pending") \in Row
    BY <1>8, <2>1, RowTypes DEF Status
  <2>3. QED
    BY <1>5, <1>6, <1>7, <1>8, <1>10, <2>1, <2>2 DEF ResetToPending
<1>11. ASSUME RecordFailure PROVE TypeOK'
  <2>1. retry.pc = "failResult"
    BY <1>11 DEF RecordFailure, RetryStatement
  <2>2. SetResult(CurrentRow, "error") \in Row
    BY <1>8, <2>1, RowTypes DEF Result
  <2>3. QED
    BY <1>5, <1>7, <1>8, <1>11, <2>1, <2>2 DEF RecordFailure
<1>12. ASSUME MarkFailed PROVE TypeOK'
  <2>1. retry.pc = "failStatus"
    BY <1>12 DEF MarkFailed, RetryStatement
  <2>2. UpdateStatus(CurrentRow, "failed") \in Row
    BY <1>8, <2>1, RowTypes DEF Status, Terminal
  <2>3. QED
    BY <1>5, <1>6, <1>8, <1>12, <2>1, <2>2 DEF MarkFailed
<1>13. ASSUME Republish PROVE TypeOK'
  <2>1. retry.pc = "publish"
    BY <1>13 DEF Republish
  <2>2. retry.cur.job \in Jobs
    BY <1>8, <2>1 DEF Entry
  <2>3. /\ queue' \in [Jobs -> Nat]
        /\ published' \in [Jobs -> Nat]
        /\ faults' \in Nat
    BY <1>13, <2>2, PublishType DEF Republish
  <2>4. /\ retry' \in RetryState
        /\ retry'.pc \notin {"idle", "scan"} => retry'.cur \in Entry
    BY <1>6, <1>7, <1>8, <1>13, <2>1 DEF Republish
  <2>5. QED
    BY <1>13, <2>3, <2>4 DEF Republish, TypeOK
<1>14. QED
  BY <1>1, <1>4, <1>9, <1>10, <1>11, <1>12, <1>13 DEF RetryStep

LEMMA RaiseType ==
    ASSUME NEW worker \in WorkerState, worker.job \in Jobs
    PROVE  /\ Raise(worker) \in WorkerState
           /\ Raise(worker).job \in Jobs
           /\ Raise(worker).outcome # "none"
  BY DEF Raise, WorkerState, Terminal

(* What TypeOK says of one worker. *)
GoodWorker(worker) == /\ worker \in WorkerState
                      /\ worker.pc # "idle" => worker.job \in Jobs
                      /\ worker.pc \in Finishing => worker.outcome # "none"

LEMMA WorkerTypes ==
    ASSUME TypeOK, NEW w \in Workers
    PROVE  WorkerStep(w) => TypeOK'
<1> DEFINE worker == workers[w]
<1>1. GoodWorker(worker)
  BY DEF TypeOK, GoodWorker
<1>2. ASSUME NEW answer, NEW next, worker.job \in Jobs, GoodWorker(next),
             Resume(w, answer, next)
      PROVE  /\ workers' \in [Workers -> WorkerState]
             /\ \A v \in Workers : GoodWorker(workers'[v])
             /\ faults' \in Nat
  <2>1. GoodWorker(Raise(worker))
    BY <1>1, <1>2, RaiseType DEF GoodWorker
  <2>2. faults' \in Nat
    BY <1>2, ChargeType DEF Resume
  <2>3. \A v \in Workers : GoodWorker(workers[v])
    BY DEF TypeOK, GoodWorker
  <2>4. workers' = [workers EXCEPT ![w] = IF answer = "ok" THEN next ELSE Raise(worker)]
    BY <1>2 DEF Resume
  <2>5. GoodWorker(IF answer = "ok" THEN next ELSE Raise(worker))
    BY <1>2, <2>1
  <2>6. \A v \in Workers : GoodWorker(workers'[v])
    BY <2>3, <2>4, <2>5 DEF TypeOK
  <2>7. workers' \in [Workers -> WorkerState]
    BY <2>4, <2>5 DEF TypeOK, GoodWorker
  <2>8. QED
    BY <2>2, <2>6, <2>7
<1>3. ASSUME NEW j \in Jobs, Consume(w, j) PROVE TypeOK'
  <2>1. queue' \in [Jobs -> Nat]
    BY <1>3 DEF Consume, TypeOK
  <2>2. QED
    BY <1>3, <2>1 DEF Consume, TypeOK, WorkerState, Finishing
<1>4. ASSUME CheckStatus(w) PROVE TypeOK'
  <2>1. /\ \A pc \in {"ack", "start"} : GoodWorker([worker EXCEPT !.pc = pc])
        /\ worker.job \in Jobs
    BY <1>1, <1>4 DEF CheckStatus, GoodWorker, WorkerState, Finishing
  <2>2. QED
    BY <1>2, <1>4, <2>1 DEF CheckStatus, TypeOK, GoodWorker
<1>5. ASSUME ReportStart(w) PROVE TypeOK'
  <2>1. PICK answer \in Answers("start") :
          /\ HandleJobStart(worker.job, answer)
          /\ Resume(w, answer, [worker EXCEPT !.pc = "run"])
    BY <1>5 DEF ReportStart
  <2>2. GoodWorker([worker EXCEPT !.pc = "run"]) /\ worker.job \in Jobs
    BY <1>1, <1>5 DEF ReportStart, GoodWorker, WorkerState, Finishing
  <2>3. jobs' \in [Jobs -> Row]
    BY <2>1, <2>2, SetType, RowTypes DEF HandleJobStart, TypeOK
  <2>4. QED
    BY <1>2, <1>5, <2>1, <2>2, <2>3 DEF ReportStart, TypeOK, GoodWorker
<1>6. ASSUME PollCancellation(w) PROVE TypeOK'
  <2> DEFINE next == IF jobs[worker.job].cancelRequested
                     THEN [worker EXCEPT !.pc = "finishStatus", !.outcome = "canceled"]
                     ELSE worker
  <2>1. PICK answer \in Answers("poll") :
          HandleCancellationCheck(worker.job, answer) /\ Resume(w, answer, next)
    BY <1>6 DEF PollCancellation
  <2>2. GoodWorker(next) /\ worker.job \in Jobs
    BY <1>1, <1>6 DEF PollCancellation, GoodWorker, WorkerState, Terminal
  <2>3. jobs' \in [Jobs -> Row]
    BY <2>1, <2>2, SetType, RowTypes DEF HandleCancellationCheck, TypeOK
  <2>4. QED
    BY <1>2, <1>6, <2>1, <2>2, <2>3 DEF PollCancellation, TypeOK, GoodWorker
<1>7. ASSUME EndExecution(w) PROVE TypeOK'
  <2>1. PICK outcome \in Successes \cup {"failed"} :
          workers' = [workers EXCEPT
            ![w] = [worker EXCEPT !.pc = "finishStatus", !.outcome = outcome]]
    BY <1>7 DEF EndExecution
  <2>2. outcome \in Terminal
    BY SuccessesAssumption DEF Terminal
  <2>3. GoodWorker([worker EXCEPT !.pc = "finishStatus", !.outcome = outcome])
    BY <1>1, <1>7, <2>2 DEF EndExecution, GoodWorker, WorkerState, Terminal
  <2>4. QED
    BY <1>7, <2>1, <2>3 DEF EndExecution, TypeOK, GoodWorker
<1>8. ASSUME ReportFinish(w) PROVE TypeOK'
  <2> DEFINE part == worker.pc
             next == [worker EXCEPT !.pc = AfterPart(worker.pc, worker.outcome)]
  <2>1. PICK answer \in Answers("finish") :
          /\ Set(worker.job, IF Applied(answer)
                             THEN FinishStatement(worker.job, part, worker.outcome)
                             ELSE jobs[worker.job])
          /\ Resume(w, answer, next)
    BY <1>8 DEF ReportFinish
  <2>2. part \in Finishing /\ worker.job \in Jobs /\ worker.outcome \in Terminal
    BY <1>1, <1>8 DEF ReportFinish, GoodWorker, WorkerState, Finishing
  <2>3. AfterPart(part, worker.outcome) \in {"finishCompleted", "finishResult", "ack"}
    BY <2>2 DEF AfterPart, Finishing
  <2>4. GoodWorker(next)
    BY <1>1, <2>2, <2>3 DEF GoodWorker, WorkerState, Terminal
  <2>5. FinishStatement(worker.job, part, worker.outcome) \in Row
    BY <2>2, RowTypes DEF FinishStatement, TypeOK, Status, Result, Finishing
  <2>6. jobs' \in [Jobs -> Row]
    BY <2>1, <2>2, <2>5, SetType DEF TypeOK
  <2>7. QED
    BY <1>2, <1>8, <2>1, <2>2, <2>4, <2>6 DEF ReportFinish, TypeOK, GoodWorker
<1>9. ASSUME Ack(w) PROVE TypeOK'
  BY <1>9 DEF Ack, TypeOK, IdleWorker, WorkerState, Finishing
<1>10. QED
  BY <1>3, <1>4, <1>5, <1>6, <1>7, <1>8, <1>9 DEF WorkerStep

LEMMA UserAndEnvironmentTypes ==
    ASSUME TypeOK
    PROVE  /\ \A j \in Jobs : CancelJob(j) \/ Stall(j) \/ FallSilent(j) => TypeOK'
           /\ \A w \in Workers : WorkerCrash(w) \/ LoseChannel(w) => TypeOK'
           /\ BackendRestart => TypeOK'
<1>1. ASSUME NEW j \in Jobs, CancelJob(j) PROVE TypeOK'
  <2>1. jobs' \in [Jobs -> Row]
    BY <1>1, SetType, RowTypes DEF CancelJob, TypeOK
  <2>2. asked' \in [Workers -> BOOLEAN]
    BY <1>1 DEF CancelJob, TypeOK
  <2>3. QED
    BY <1>1, <2>1, <2>2 DEF CancelJob, TypeOK
<1>2. ASSUME NEW j \in Jobs, Stall(j) \/ FallSilent(j) PROVE TypeOK'
  <2>1. jobs' \in [Jobs -> Row]
    BY <1>2, SetType, RowTypes DEF Stall, FallSilent, GrowOld, TypeOK
  <2>2. faults' \in Nat
    BY <1>2, ChargeType DEF Stall, FallSilent, TypeOK
  <2>3. QED
    BY <1>2, <2>1, <2>2 DEF Stall, FallSilent, TypeOK
<1>3. ASSUME NEW w \in Workers, WorkerCrash(w) \/ LoseChannel(w) PROVE TypeOK'
  <2>1. queue' \in [Jobs -> Nat]
    <3>1. workers[w].job \in Jobs => queue[workers[w].job] + 1 \in Nat
      BY DEF TypeOK
    <3>2. Redeliver(w)
      BY <1>3 DEF WorkerCrash, LoseChannel
    <3>3. QED
      BY <3>1, <3>2 DEF Redeliver, TypeOK
  <2>2. faults' \in Nat
    BY <1>3, ChargeType DEF WorkerCrash, LoseChannel
  <2>3. CASE WorkerCrash(w)
    BY <2>1, <2>2, <2>3 DEF WorkerCrash, TypeOK, IdleWorker, WorkerState, Finishing
  <2>4. CASE LoseChannel(w)
    <3>1. workers' \in [Workers -> WorkerState]
      BY <2>4 DEF LoseChannel, TypeOK, WorkerState
    <3>2. \A v \in Workers : /\ workers'[v].pc = workers[v].pc
                             /\ workers'[v].job = workers[v].job
                             /\ workers'[v].outcome = workers[v].outcome
      BY <2>4 DEF LoseChannel, TypeOK, WorkerState
    <3>3. QED
      BY <2>1, <2>2, <2>4, <3>1, <3>2 DEF LoseChannel, TypeOK
  <2>5. QED
    BY <1>3, <2>3, <2>4
<1>4. ASSUME BackendRestart PROVE TypeOK'
  <2>1. faults' \in Nat
    BY <1>4, ChargeType DEF BackendRestart
  <2>2. handlers' \in [Handlers -> HandlerState] /\ retry' \in RetryState
    BY <1>4 DEF BackendRestart, IdleHandler, IdleRetry, HandlerState, RetryState
  <2>3. \A w \in Workers :
          /\ GoodWorker(workers[w])
          /\ workers[w].pc \in {"finishCompleted", "finishResult"} =>
               GoodWorker(Raise(workers[w]))
    BY RaiseType DEF TypeOK, GoodWorker
  <2>4. \A w \in Workers : GoodWorker(workers'[w])
    BY <1>4, <2>3 DEF BackendRestart
  <2>5. workers' \in [Workers -> WorkerState]
    BY <1>4, <2>3 DEF BackendRestart, GoodWorker
  <2>6. QED
    BY <1>4, <2>1, <2>2, <2>4, <2>5
       DEF BackendRestart, TypeOK, GoodWorker, IdleHandler, IdleRetry
<1>5. QED
  BY <1>1, <1>2, <1>3, <1>4

(* The variables have their types, and a busy process has a job, and a     *)
(* status when it reports, in every reachable state.                       *)
THEOREM TypeCorrect == Spec => []TypeOK
<1>1. TypeOK /\ Next => TypeOK'
  BY HandlerTypes, RetryTypes, WorkerTypes, UserAndEnvironmentTypes DEF Next
<1>2. TypeOK /\ UNCHANGED vars => TypeOK'
  BY DEF TypeOK, vars
<1>3. QED
  BY InitTypeOK, <1>1, <1>2, PTL DEF Spec

-----------------------------------------------------------------------------
(* The retry budget.  RetryBudget is not inductive: the retry worker       *)
(* compares a retry_count it read earlier, and a publication happens some  *)
(* steps after the insertion or the increment that pays for it.  The       *)
(* invariant below says that the count read is still the row's, because    *)
(* only the retry worker writes it, and counts the publications that are   *)
(* paid for and have not happened yet.                                     *)

Submitting(j) == \E h \in Handlers : /\ handlers[h].pc = "publish"
                                     /\ handlers[h].job = j

Requeuing(j) == retry.pc \in {"reset", "publish"} /\ retry.cur.job = j

Owed(j) == (IF Submitting(j) THEN 1 ELSE 0) + (IF Requeuing(j) THEN 1 ELSE 0)

(* An identifier that is not in use is new to everybody. *)
UnusedIsNew ==
    \A j \in Jobs : jobs[j].status = "absent" =>
        /\ jobs[j].retryCount = 0
        /\ published[j] = 0
        /\ \A h \in Handlers : handlers[h].pc # "idle" => handlers[h].job # j
        /\ \A e \in retry.todo : e.job # j
        /\ retry.pc \notin {"idle", "scan"} => retry.cur.job # j

OneHandlerPerJob ==
    \A h, i \in Handlers : /\ handlers[h].pc # "idle"
                           /\ handlers[i].pc # "idle"
                           /\ handlers[h].job = handlers[i].job
                           => h = i

ListIsCurrent ==
    /\ \A e \in retry.todo : e.retryCount = jobs[e.job].retryCount
    /\ retry.pc \notin {"idle", "scan"} => \A e \in retry.todo : e.job # retry.cur.job
    /\ retry.pc = "increment" => /\ retry.cur.retryCount = CurrentRow.retryCount
                                 /\ retry.cur.retryCount < MaxRetries

WithinBudget ==
    \A j \in Jobs : /\ jobs[j].retryCount <= MaxRetries
                    /\ published[j] + Owed(j) <= jobs[j].retryCount + 1

BudgetInv == UnusedIsNew /\ OneHandlerPerJob /\ ListIsCurrent /\ WithinBudget

LEMMA OwedType ==
    ASSUME NEW j \in Jobs
    PROVE  Owed(j) \in 0..2
  BY DEF Owed

LEMMA BudgetImplied == TypeOK /\ BudgetInv => RetryBudget
<1> SUFFICES ASSUME TypeOK, BudgetInv, NEW j \in Jobs
             PROVE  /\ jobs[j].retryCount <= MaxRetries
                    /\ published[j] <= jobs[j].retryCount + 1
  BY DEF RetryBudget
<1>1. Owed(j) \in 0..2 /\ published[j] \in Nat /\ jobs[j].retryCount \in Nat
  BY OwedType DEF TypeOK, Row
<1>2. QED
  BY <1>1 DEF BudgetInv, WithinBudget

LEMMA InitBudget == Init => BudgetInv
<1> SUFFICES ASSUME Init PROVE BudgetInv
  OBVIOUS
<1>1. \A j \in Jobs : ~Submitting(j) /\ ~Requeuing(j)
  BY DEF Init, Submitting, Requeuing, IdleHandler, IdleRetry
<1>2. WithinBudget
  BY <1>1, MaxRetriesAssumption DEF WithinBudget, Owed, Init, NoRow
<1>3. UnusedIsNew /\ OneHandlerPerJob /\ ListIsCurrent
  BY DEF UnusedIsNew, OneHandlerPerJob, ListIsCurrent, Init, NoRow, IdleHandler, IdleRetry
<1>4. QED
  BY <1>2, <1>3 DEF BudgetInv

(* What a step may do without touching the budget: it writes no            *)
(* retry_count, publishes nothing, and submitters and the retry worker     *)
(* only move away from their publications.                                 *)
KeepsCounts == \A j \in Jobs : /\ jobs'[j].retryCount = jobs[j].retryCount
                               /\ jobs'[j].status = "absent" => jobs[j].status = "absent"

HandlersSettle ==
    \A h \in Handlers : handlers'[h].pc # "idle" =>
        /\ handlers[h].pc # "idle"
        /\ handlers'[h].job = handlers[h].job
        /\ handlers'[h].pc = "publish" => handlers[h].pc = "publish"

RetrySettles ==
    /\ retry'.todo \subseteq retry.todo
    /\ retry'.pc \notin {"idle", "scan"} =>
         /\ retry.pc \notin {"idle", "scan"}
         /\ retry'.cur = retry.cur
         /\ retry'.pc = "increment" => retry.pc = "increment"
         /\ retry'.pc \in {"reset", "publish"} => retry.pc \in {"reset", "publish"}

LEMMA QuietStep ==
    ASSUME TypeOK, TypeOK', BudgetInv, KeepsCounts, HandlersSettle, RetrySettles,
           published' = published
    PROVE  BudgetInv'
<1>1. UnusedIsNew'
  BY DEF BudgetInv, UnusedIsNew, KeepsCounts, HandlersSettle, RetrySettles
<1>2. OneHandlerPerJob'
  BY DEF BudgetInv, OneHandlerPerJob, HandlersSettle
<1>3. ListIsCurrent'
  BY DEF BudgetInv, ListIsCurrent, KeepsCounts, RetrySettles, TypeOK, RetryState,
         Entry, CurrentRow
<1>4. ASSUME NEW j \in Jobs
      PROVE  /\ jobs'[j].retryCount <= MaxRetries
             /\ published'[j] + Owed(j)' <= jobs'[j].retryCount + 1
  <2>1. /\ Submitting(j)' => Submitting(j)
        /\ Requeuing(j)' => Requeuing(j)
    BY DEF Submitting, Requeuing, HandlersSettle, RetrySettles
  <2>2. Owed(j)' <= Owed(j) /\ Owed(j) \in 0..2 /\ Owed(j)' \in 0..2
    BY <2>1 DEF Owed
  <2>3. published[j] \in Nat /\ jobs[j].retryCount \in Nat
    BY DEF TypeOK, Row
  <2>4. QED
    BY <2>2, <2>3 DEF BudgetInv, WithinBudget, KeepsCounts
<1>5. QED
  BY <1>1, <1>2, <1>3, <1>4 DEF BudgetInv, WithinBudget

(* Only IncrementRetryCount writes retry_count, and no statement removes a *)
(* row.                                                                    *)
KeepsCount(new, row) == /\ new.retryCount = row.retryCount
                        /\ new.status = "absent" => row.status = "absent"

LEMMA RowCounts ==
    ASSUME NEW row \in Row
    PROVE  /\ KeepsCount(row, row)
           /\ \A s \in Status \ {"absent"} : KeepsCount(UpdateStatus(row, s), row)
           /\ \A r \in Result : KeepsCount(SetResult(row, r), row)
           /\ KeepsCount(SetCompleted(row), row)
           /\ KeepsCount(SetStarted(row), row)
           /\ KeepsCount(UpdateHeartbeat(row), row)
           /\ KeepsCount(RequestCancellation(row), row)
           /\ KeepsCount([row EXCEPT !.heartbeat = "stale"], row)
  BY DEF KeepsCount, Row, UpdateStatus, SetResult, SetCompleted, SetStarted,
         UpdateHeartbeat, RequestCancellation

LEMMA SetKeepsCounts ==
    ASSUME TypeOK, NEW j, NEW row, Set(j, row), j \in Jobs => KeepsCount(row, jobs[j])
    PROVE  KeepsCounts
<1>1. \A i \in Jobs : jobs'[i] = IF i = j THEN row ELSE jobs[i]
  BY DEF Set, TypeOK
<1>2. QED
  BY <1>1 DEF KeepsCounts, KeepsCount

LEMMA Unmoved ==
    /\ handlers' = handlers => HandlersSettle
    /\ retry' = retry => RetrySettles
    /\ TypeOK /\ jobs' = jobs => KeepsCounts
  BY DEF HandlersSettle, RetrySettles, KeepsCounts

LEMMA HandlerBudget ==
    ASSUME TypeOK, TypeOK', BudgetInv, NEW h \in Handlers
    PROVE  /\ \A j \in Jobs, o \in Origins : InsertJob(h, j, o) => BudgetInv'
           /\ HandlerStep(h) => BudgetInv'
<1>1. ASSUME NEW j \in Jobs, NEW o \in Origins, InsertJob(h, j, o) PROVE BudgetInv'
  <2>1. /\ \A i \in Jobs : jobs'[i] = IF i = j THEN Create ELSE jobs[i]
        /\ \A g \in Handlers : handlers'[g] =
             IF g = h THEN [pc |-> "publish", job |-> j, origin |-> o] ELSE handlers[g]
        /\ retry' = retry /\ published' = published
        /\ jobs[j].status = "absent" /\ handlers[h].pc = "idle"
    BY <1>1 DEF InsertJob, Set, TypeOK
  <2>2. Create.status = "pending" /\ Create.retryCount = 0
    BY DEF Create, NoRow
  <2>3. /\ jobs[j].retryCount = 0 /\ published[j] = 0
        /\ \A g \in Handlers : handlers[g].pc # "idle" => handlers[g].job # j
        /\ \A e \in retry.todo : e.job # j
        /\ retry.pc \notin {"idle", "scan"} => retry.cur.job # j
    BY <2>1 DEF BudgetInv, UnusedIsNew
  <2>4. UnusedIsNew'
    BY <2>1, <2>2 DEF BudgetInv, UnusedIsNew
  <2>5. OneHandlerPerJob'
    BY <2>1, <2>3 DEF BudgetInv, OneHandlerPerJob
  <2>6. ListIsCurrent'
    BY <2>1, <2>3 DEF BudgetInv, ListIsCurrent, CurrentRow, TypeOK, RetryState, Entry
  <2>7. ASSUME NEW i \in Jobs
        PROVE  /\ jobs'[i].retryCount <= MaxRetries
               /\ published'[i] + Owed(i)' <= jobs'[i].retryCount + 1
    <3>1. CASE i = j
      <4>1. ~Requeuing(j)'
        BY <2>1, <2>3 DEF Requeuing
      <4>2. QED
        BY <2>1, <2>2, <2>3, <3>1, <4>1, MaxRetriesAssumption DEF Owed
    <3>2. CASE i # j
      <4>1. /\ Submitting(i)' <=> Submitting(i)
            /\ Requeuing(i)' <=> Requeuing(i)
        BY <2>1, <3>2 DEF Submitting, Requeuing
      <4>2. QED
        BY <2>1, <3>2, <4>1 DEF Owed, BudgetInv, WithinBudget
    <3>3. QED
      BY <3>1, <3>2
  <2>8. QED
    BY <2>4, <2>5, <2>6, <2>7 DEF BudgetInv, WithinBudget
<1>2. ASSUME NEW o, NEW next, Publish(h, o, next),
             next.pc # "publish", next.job = handlers[h].job \/ next.pc = "idle"
      PROVE  BudgetInv'
  <2>0. PICK j \in Jobs : j = handlers[h].job
    BY <1>2 DEF Publish, TypeOK
  <2>1. PICK result \in PublishResults :
          /\ PublishJob(j, result)
          /\ handlers' = [handlers EXCEPT
                            ![h] = IF result = "error" THEN next ELSE IdleHandler]
    BY <1>2, <2>0 DEF Publish
  <2>2. /\ jobs' = jobs /\ retry' = retry
        /\ handlers[h].pc = "publish" /\ handlers[h].job = j
    BY <1>2, <2>0 DEF Publish
  <2>3. HandlersSettle /\ handlers'[h].pc # "publish"
    BY <1>2, <2>1, <2>2 DEF HandlersSettle, TypeOK, IdleHandler
  <2>4. \A i \in Jobs : /\ published'[i] <= IF i = j THEN published[i] + 1 ELSE published[i]
                        /\ published[i] \in Nat /\ published'[i] \in Nat
    BY <2>1, <2>2 DEF PublishJob, TypeOK
  <2>5. jobs[j].status # "absent"
    BY <2>2 DEF BudgetInv, UnusedIsNew
  <2>6. UnusedIsNew'
    BY <2>2, <2>3, <2>4, <2>5 DEF BudgetInv, UnusedIsNew, HandlersSettle
  <2>7. OneHandlerPerJob'
    BY <2>3 DEF BudgetInv, OneHandlerPerJob, HandlersSettle
  <2>8. ListIsCurrent'
    BY <2>2 DEF BudgetInv, ListIsCurrent, CurrentRow
  <2>9. ASSUME NEW i \in Jobs
        PROVE  published'[i] + Owed(i)' <= jobs'[i].retryCount + 1
    <3>1. /\ Submitting(i)' => Submitting(i)
          /\ Requeuing(i)' <=> Requeuing(i)
      BY <2>2, <2>3 DEF Submitting, Requeuing, HandlersSettle
    <3>2. Submitting(j) /\ ~Submitting(j)'
      BY <2>2, <2>3 DEF Submitting, HandlersSettle, BudgetInv, OneHandlerPerJob
    <3>3. published[i] + Owed(i) <= jobs[i].retryCount + 1 /\ jobs[i].retryCount \in Nat
      BY DEF BudgetInv, WithinBudget, TypeOK, Row
    <3>4. QED
      BY <2>2, <2>4, <3>1, <3>2, <3>3 DEF Owed
  <2>10. QED
    BY <2>2, <2>6, <2>7, <2>8, <2>9 DEF BudgetInv, WithinBudget
<1>3. ASSUME CompensateResult(h) PROVE BudgetInv'
  <2>1. KeepsCounts
    BY <1>3, SetKeepsCounts, RowCounts DEF CompensateResult, TypeOK, Result
  <2>2. HandlersSettle
    BY <1>3 DEF CompensateResult, HandlersSettle, TypeOK
  <2>3. QED
    BY <1>3, <2>1, <2>2, QuietStep, Unmoved DEF CompensateResult
<1>4. ASSUME CompensateStatus(h) PROVE BudgetInv'
  <2>1. KeepsCounts
    BY <1>4, SetKeepsCounts, RowCounts DEF CompensateStatus, TypeOK, Status, Terminal
  <2>2. HandlersSettle
    BY <1>4 DEF CompensateStatus, HandlersSettle, TypeOK, IdleHandler
  <2>3. QED
    BY <1>4, <2>1, <2>2, QuietStep, Unmoved DEF CompensateStatus
<1>5. ASSUME PublishExecuted(h) PROVE BudgetInv'
  <2>1. /\ [handlers[h] EXCEPT !.pc = "failResult"].pc = "failResult"
        /\ [handlers[h] EXCEPT !.pc = "failResult"].job = handlers[h].job
    BY DEF TypeOK, HandlerState
  <2>2. QED
    BY <1>2, <1>5, <2>1 DEF PublishExecuted
<1>6. IdleHandler.pc = "idle"
  BY DEF IdleHandler
<1>7. QED
  BY <1>1, <1>2, <1>3, <1>4, <1>5, <1>6 DEF HandlerStep, PublishRetried, PublishScheduled

LEMMA RetryBudgetStep ==
    ASSUME TypeOK, TypeOK', BudgetInv
    PROVE  RetryStep => BudgetInv'
<1> USE DEF KeepsCount
<1>1. ASSUME GetStuckJobs PROVE BudgetInv'
  <2>1. /\ jobs' = jobs /\ handlers' = handlers /\ published' = published
        /\ retry'.pc = "scan" /\ retry.pc = "idle"
        /\ \A e \in retry'.todo : \E j \in Jobs :
             e.job = j /\ e.retryCount = jobs[j].retryCount /\ IsStuck(jobs[j])
    BY <1>1 DEF GetStuckJobs, StuckJobs
  <2>2. UnusedIsNew'
    BY <2>1 DEF BudgetInv, UnusedIsNew, IsStuck
  <2>3. OneHandlerPerJob' /\ ListIsCurrent'
    BY <2>1 DEF BudgetInv, OneHandlerPerJob, ListIsCurrent
  <2>4. \A j \in Jobs : Owed(j)' = Owed(j)
    BY <2>1 DEF Owed, Submitting, Requeuing
  <2>5. QED
    BY <2>1, <2>2, <2>3, <2>4 DEF BudgetInv, WithinBudget
<1>2. ASSUME NEW todo \in SUBSET retry.todo, retry' = Continue(todo)
      PROVE  RetrySettles
  BY <1>2 DEF Continue, RetrySettles
<1>3. ASSUME NEW entry \in retry.todo, TakeStuckJob(entry) PROVE BudgetInv'
  <2>1. /\ jobs' = jobs /\ handlers' = handlers /\ published' = published
        /\ retry.pc = "scan" /\ entry \in Entry
    BY <1>3 DEF TakeStuckJob, TypeOK, RetryState
  <2>2. CASE retry' = Continue(retry.todo \ {entry})
    BY <1>2, <2>1, <2>2, QuietStep, Unmoved
  <2>3. CASE retry' = [pc |-> IF BudgetLeft(entry) THEN "increment" ELSE "failResult",
                       todo |-> retry.todo \ {entry}, cur |-> entry]
    <3>1. entry.retryCount = jobs[entry.job].retryCount
      BY <1>3 DEF BudgetInv, ListIsCurrent
    <3>2. \A e \in retry.todo : e.job = entry.job => e = entry
      <4> SUFFICES ASSUME NEW e \in retry.todo, e.job = entry.job PROVE e = entry
        OBVIOUS
      <4>1. e \in Entry /\ e.retryCount = entry.retryCount
        BY <3>1 DEF BudgetInv, ListIsCurrent, TypeOK, RetryState
      <4>2. QED
        BY <2>1, <4>1 DEF Entry
    <3>3. ListIsCurrent'
      BY <2>1, <2>3, <3>1, <3>2 DEF BudgetInv, ListIsCurrent, BudgetLeft, CurrentRow
    <3>4. UnusedIsNew' /\ OneHandlerPerJob'
      BY <1>3, <2>1, <2>3 DEF BudgetInv, UnusedIsNew, OneHandlerPerJob
    <3>5. \A j \in Jobs : /\ Submitting(j)' <=> Submitting(j)
                          /\ ~Requeuing(j)' /\ ~Requeuing(j)
      BY <2>1, <2>3 DEF Submitting, Requeuing
    <3>6. QED
      BY <2>1, <3>3, <3>4, <3>5 DEF BudgetInv, WithinBudget, Owed
  <2>4. QED
    BY <1>3, <2>2, <2>3 DEF TakeStuckJob
<1>4. ASSUME IncrementRetries PROVE BudgetInv'
  <2>1. PICK ok \in StatementResults :
          /\ Set(retry.cur.job, IF ok THEN IncrementRetryCount(CurrentRow) ELSE CurrentRow)
          /\ retry' = IF ok THEN At("reset") ELSE NextJob
    BY <1>4 DEF IncrementRetries, RetryStatement, CurrentRow
  <2>2. /\ retry.pc = "increment" /\ retry.cur \in Entry
        /\ handlers' = handlers /\ published' = published
    BY <1>4 DEF IncrementRetries, RetryStatement, TypeOK
  <2>3. PICK j \in Jobs : j = retry.cur.job
    BY <2>2 DEF Entry
  <2>4. CASE ~ok
    <3>1. KeepsCounts
      BY <2>1, <2>3, <2>4, SetKeepsCounts DEF CurrentRow
    <3>2. RetrySettles
      BY <1>2, <2>1, <2>4 DEF NextJob
    <3>3. QED
      BY <2>2, <3>1, <3>2, QuietStep, Unmoved
  <2>5. CASE ok
    <3>1. /\ jobs[j].retryCount < MaxRetries /\ jobs[j].retryCount \in Nat
          /\ jobs[j].status # "absent"
          /\ \A e \in retry.todo : e.job # j
      BY <2>2, <2>3 DEF BudgetInv, ListIsCurrent, UnusedIsNew, CurrentRow, TypeOK, Row
    <3>2. \A i \in Jobs :
            /\ jobs'[i].status = jobs[i].status
            /\ jobs'[i].retryCount = IF i = j THEN jobs[j].retryCount + 1
                                              ELSE jobs[i].retryCount
      <4>1. jobs' = [jobs EXCEPT ![j] = IncrementRetryCount(jobs[j])]
        BY <2>1, <2>3, <2>5 DEF Set, CurrentRow
      <4>2. /\ IncrementRetryCount(jobs[j]).status = jobs[j].status
            /\ IncrementRetryCount(jobs[j]).retryCount = jobs[j].retryCount + 1
        BY DEF IncrementRetryCount, TypeOK, Row
      <4>3. QED
        BY <4>1, <4>2 DEF TypeOK
    <3>3. /\ retry'.pc = "reset" /\ retry'.todo = retry.todo /\ retry'.cur = retry.cur
      BY <2>1, <2>5 DEF At, TypeOK, RetryState
    <3>4. UnusedIsNew' /\ OneHandlerPerJob'
      BY <2>2, <2>3, <3>1, <3>2, <3>3 DEF BudgetInv, UnusedIsNew, OneHandlerPerJob
    <3>5. ListIsCurrent'
      BY <2>2, <2>3, <3>1, <3>2, <3>3
         DEF BudgetInv, ListIsCurrent, TypeOK, RetryState, Entry
    <3>6. ASSUME NEW i \in Jobs
          PROVE  /\ jobs'[i].retryCount <= MaxRetries
                 /\ published'[i] + Owed(i)' <= jobs'[i].retryCount + 1
      <4>1. /\ Submitting(i)' <=> Submitting(i)
            /\ ~Requeuing(i)
            /\ Requeuing(i)' <=> i = j
        BY <2>2, <2>3, <3>3 DEF Submitting, Requeuing
      <4>2. /\ published[i] + Owed(i) <= jobs[i].retryCount + 1
            /\ jobs[i].retryCount <= MaxRetries
            /\ jobs[i].retryCount \in Nat /\ published[i] \in Nat
        BY DEF BudgetInv, WithinBudget, TypeOK, Row
      <4>3. QED
        BY <2>2, <3>1, <3>2, <4>1, <4>2, MaxRetriesAssumption DEF Owed
    <3>7. QED
      BY <3>4, <3>5, <3>6 DEF BudgetInv, WithinBudget
  <2>6. QED
    BY <2>4, <2>5
<1>5. ASSUME NEW pc, NEW row, NEW next, NEW other, RetryStatement(pc, row, next, other),
             CurrentRow \in Row => KeepsCount(row, CurrentRow),
             retry' \in {next, other} => RetrySettles
      PROVE  BudgetInv'
  <2>1. KeepsCounts
    BY <1>5, SetKeepsCounts DEF RetryStatement, CurrentRow, TypeOK
  <2>2. RetrySettles
    BY <1>5 DEF RetryStatement
  <2>3. QED
    BY <1>5, <2>1, <2>2, QuietStep, Unmoved DEF RetryStatement
<1>6. retry' = NextJob => RetrySettles
  BY <1>2 DEF NextJob
<1>7. ASSUME NEW pc \in {"publish", "failStatus", "failResult"}, retry' = At(pc),
             retry.pc \in {"reset", "publish", "failResult"},
             pc = "publish" => retry.pc = "reset"
      PROVE  RetrySettles
  BY <1>7 DEF At, RetrySettles, TypeOK, RetryState
<1>8. ASSUME ResetToPending PROVE BudgetInv'
  <2>1. CurrentRow \in Row => KeepsCount(UpdateStatus(CurrentRow, "pending"), CurrentRow)
    BY RowCounts DEF Status
  <2>2. retry' = At("publish") => RetrySettles
    BY <1>7, <1>8 DEF ResetToPending, RetryStatement
  <2>3. QED
    BY <1>5, <1>6, <1>8, <2>1, <2>2 DEF ResetToPending
<1>9. ASSUME RecordFailure PROVE BudgetInv'
  <2>1. CurrentRow \in Row => KeepsCount(SetResult(CurrentRow, "error"), CurrentRow)
    BY RowCounts DEF Result
  <2>2. retry' = At("failStatus") => RetrySettles
    BY <1>7, <1>9 DEF RecordFailure, RetryStatement
  <2>3. QED
    BY <1>5, <1>9, <2>1, <2>2 DEF RecordFailure
<1>10. ASSUME MarkFailed PROVE BudgetInv'
  <2>1. CurrentRow \in Row => KeepsCount(UpdateStatus(CurrentRow, "failed"), CurrentRow)
    BY RowCounts DEF Status, Terminal
  <2>2. QED
    BY <1>5, <1>6, <1>10, <2>1 DEF MarkFailed
<1>11. ASSUME Republish PROVE BudgetInv'
  <2>1. PICK result \in PublishResults :
          /\ PublishJob(retry.cur.job, result)
          /\ retry' = IF result = "error" THEN At("failResult") ELSE NextJob
    BY <1>11 DEF Republish
  <2>2. /\ retry.pc = "publish" /\ retry.cur \in Entry
        /\ jobs' = jobs /\ handlers' = handlers
    BY <1>11 DEF Republish, TypeOK
  <2>3. PICK j \in Jobs : j = retry.cur.job
    BY <2>2 DEF Entry
  <2>4. RetrySettles /\ retry'.pc \notin {"reset", "publish"}
    <3>1. RetrySettles
      BY <1>6, <1>7, <2>1, <2>2
    <3>2. retry'.pc \in {"failResult", "idle", "scan"}
      BY <2>1 DEF At, NextJob, Continue, TypeOK, RetryState
    <3>3. QED
      BY <3>1, <3>2
  <2>5. \A i \in Jobs : /\ published'[i] <= IF i = j THEN published[i] + 1 ELSE published[i]
                        /\ published[i] \in Nat /\ published'[i] \in Nat
    BY <2>1, <2>3 DEF PublishJob, TypeOK
  <2>6. jobs[j].status # "absent"
    BY <2>2, <2>3 DEF BudgetInv, UnusedIsNew
  <2>7. UnusedIsNew' /\ OneHandlerPerJob'
    BY <2>2, <2>4, <2>5, <2>6 DEF BudgetInv, UnusedIsNew, OneHandlerPerJob, RetrySettles
  <2>8. ListIsCurrent'
    BY <2>2, <2>4 DEF BudgetInv, ListIsCurrent, RetrySettles
  <2>9. ASSUME NEW i \in Jobs PROVE published'[i] + Owed(i)' <= jobs'[i].retryCount + 1
    <3>1. /\ Submitting(i)' <=> Submitting(i)
          /\ Requeuing(i) <=> i = j
          /\ ~Requeuing(i)'
      BY <2>2, <2>3, <2>4 DEF Submitting, Requeuing
    <3>2. published[i] + Owed(i) <= jobs[i].retryCount + 1 /\ jobs[i].retryCount \in Nat
      BY DEF BudgetInv, WithinBudget, TypeOK, Row
    <3>3. QED
      BY <2>2, <2>5, <3>1, <3>2 DEF Owed
  <2>10. QED
    BY <2>2, <2>7, <2>8, <2>9 DEF BudgetInv, WithinBudget
<1>12. QED
  BY <1>1, <1>3, <1>4, <1>8, <1>9, <1>10, <1>11 DEF RetryStep

LEMMA WorkerCounts ==
    ASSUME TypeOK, NEW w \in Workers, WorkerStep(w)
    PROVE  /\ KeepsCounts
           /\ UNCHANGED <<handlers, retry, published>>
<1>1. ASSUME NEW j \in Jobs, Consume(w, j)
      PROVE  jobs' = jobs /\ UNCHANGED <<handlers, retry, published>>
  BY <1>1 DEF Consume
<1>2. ASSUME CheckStatus(w) \/ EndExecution(w) \/ Ack(w)
      PROVE  jobs' = jobs /\ UNCHANGED <<handlers, retry, published>>
  BY <1>2 DEF CheckStatus, EndExecution, Ack
<1>3. ASSUME ReportStart(w) \/ PollCancellation(w)
      PROVE  KeepsCounts /\ UNCHANGED <<handlers, retry, published>>
  BY <1>3, SetKeepsCounts, RowCounts
     DEF ReportStart, PollCancellation, HandleJobStart, HandleCancellationCheck, TypeOK
<1>4. ASSUME ReportFinish(w)
      PROVE  KeepsCounts /\ UNCHANGED <<handlers, retry, published>>
  <2> DEFINE worker == workers[w]
  <2>1. PICK answer \in Answers("finish") :
          Set(worker.job, IF Applied(answer)
                          THEN FinishStatement(worker.job, worker.pc, worker.outcome)
                          ELSE jobs[worker.job])
    BY <1>4 DEF ReportFinish
  <2>2. /\ worker.pc \in Finishing /\ worker.job \in Jobs
        /\ worker.outcome \in Status \ {"absent"}
    BY <1>4 DEF ReportFinish, TypeOK, WorkerState, Finishing, Status, Terminal
  <2>3. KeepsCount(FinishStatement(worker.job, worker.pc, worker.outcome),
                   jobs[worker.job])
    BY <2>2, RowCounts DEF FinishStatement, Finishing, TypeOK, Result
  <2>4. KeepsCount(jobs[worker.job], jobs[worker.job])
    BY DEF KeepsCount
  <2>5. QED
    BY <1>4, <2>1, <2>3, <2>4, SetKeepsCounts DEF ReportFinish
<1>5. QED
  BY <1>1, <1>2, <1>3, <1>4, Unmoved DEF WorkerStep

LEMMA EnvironmentCounts ==
    ASSUME TypeOK
    PROVE  /\ \A j \in Jobs : CancelJob(j) \/ Stall(j) \/ FallSilent(j) =>
                KeepsCounts /\ UNCHANGED <<handlers, retry, published>>
           /\ \A w \in Workers : WorkerCrash(w) \/ LoseChannel(w) =>
                KeepsCounts /\ UNCHANGED <<handlers, retry, published>>
           /\ BackendRestart => /\ KeepsCounts /\ HandlersSettle /\ RetrySettles
                                /\ published' = published
<1>1. ASSUME NEW j \in Jobs, CancelJob(j) \/ Stall(j) \/ FallSilent(j)
      PROVE  KeepsCounts /\ UNCHANGED <<handlers, retry, published>>
  BY <1>1, SetKeepsCounts, RowCounts DEF CancelJob, Stall, FallSilent, GrowOld, TypeOK
<1>2. ASSUME NEW w \in Workers, WorkerCrash(w) \/ LoseChannel(w)
      PROVE  KeepsCounts /\ UNCHANGED <<handlers, retry, published>>
  BY <1>2, Unmoved DEF WorkerCrash, LoseChannel
<1>3. ASSUME BackendRestart
      PROVE  KeepsCounts /\ HandlersSettle /\ RetrySettles /\ published' = published
  BY <1>3, Unmoved
     DEF BackendRestart, HandlersSettle, RetrySettles, IdleHandler, IdleRetry
<1>4. QED
  BY <1>1, <1>2, <1>3

LEMMA BudgetInvariant == Spec => []BudgetInv
<1>1. TypeOK /\ TypeOK' /\ BudgetInv /\ Next => BudgetInv'
  <2> SUFFICES ASSUME TypeOK, TypeOK', BudgetInv, Next PROVE BudgetInv'
    OBVIOUS
  <2>1. ASSUME NEW h \in Handlers, NEW j \in Jobs, NEW i \in Jobs,
               ExecuteAutomation(h, j) \/ RetryJob(h, j, i) \/ RunSchedule(h, j)
        PROVE  BudgetInv'
    BY <2>1, HandlerBudget
       DEF ExecuteAutomation, RetryJob, RunSchedule, InsertJob
  <2>2. ASSUME NEW h \in Handlers, HandlerStep(h) PROVE BudgetInv'
    BY <2>2, HandlerBudget
  <2>3. ASSUME NEW w \in Workers, WorkerStep(w) \/ WorkerCrash(w) \/ LoseChannel(w)
        PROVE  BudgetInv'
    BY <2>3, WorkerCounts, EnvironmentCounts, QuietStep, Unmoved
  <2>4. ASSUME NEW j \in Jobs, CancelJob(j) \/ Stall(j) \/ FallSilent(j) PROVE BudgetInv'
    BY <2>4, EnvironmentCounts, QuietStep, Unmoved
  <2>5. ASSUME BackendRestart PROVE BudgetInv'
    BY <2>5, EnvironmentCounts, QuietStep
  <2>6. QED
    BY <2>1, <2>2, <2>3, <2>4, <2>5, RetryBudgetStep DEF Next
<1>2. TypeOK /\ TypeOK' /\ BudgetInv /\ UNCHANGED vars => BudgetInv'
  <2> SUFFICES ASSUME TypeOK, TypeOK', BudgetInv, UNCHANGED vars PROVE BudgetInv'
    OBVIOUS
  <2>1. KeepsCounts /\ HandlersSettle /\ RetrySettles /\ published' = published
    BY Unmoved DEF vars
  <2>2. QED
    BY <2>1, QuietStep
<1>3. QED
  BY TypeCorrect, InitBudget, <1>1, <1>2, PTL DEF Spec

(* No process takes more retries than there are, and no job is published   *)
(* more often than once plus its retries, for any number of jobs,          *)
(* submitters, workers and faults, in any interleaving.                    *)
THEOREM BudgetKept == Spec => []RetryBudget
  BY TypeCorrect, BudgetInvariant, BudgetImplied, PTL

-----------------------------------------------------------------------------
(* The ledger.  The invariant says of every publication that its unit has  *)
(* not been used yet, and of every increment that budget is left; all      *)
(* other steps are invisible to the ledger.                                *)

LEMMA LedgerStutters ==
    ASSUME TypeOK, TypeOK', KeepsCounts, published' = published
    PROVE  UNCHANGED Ledger!vars
<1>1. [j \in Jobs |-> jobs[j].retryCount]' = [j \in Jobs |-> jobs[j].retryCount]
  BY DEF KeepsCounts
<1>2. QED
  BY <1>1 DEF Ledger!vars

LEMMA LedgerHandsOver ==
    ASSUME TypeOK, TypeOK', BudgetInv, jobs' = jobs, NEW j \in Jobs,
           Submitting(j) \/ Requeuing(j), NEW result, PublishJob(j, result)
    PROVE  [Ledger!Next]_(Ledger!vars)
<1>1. CASE result = "error"
  BY <1>1, LedgerStutters, Unmoved DEF PublishJob
<1>2. CASE result # "error"
  <2>1. published' = [published EXCEPT ![j] = @ + 1]
    BY <1>2 DEF PublishJob
  <2>2. published[j] <= jobs[j].retryCount
    <3>1. Owed(j) \in {1, 2} /\ published[j] \in Nat /\ jobs[j].retryCount \in Nat
      BY DEF Owed, TypeOK, Row
    <3>2. QED
      BY <3>1 DEF BudgetInv, WithinBudget
  <2>3. [i \in Jobs |-> jobs[i].retryCount]' = [i \in Jobs |-> jobs[i].retryCount]
    OBVIOUS
  <2>4. Ledger!HandOver(j)
    BY <2>1, <2>2, <2>3 DEF Ledger!HandOver
  <2>5. QED
    BY <2>4 DEF Ledger!Next
<1>3. QED
  BY <1>1, <1>2

LEMMA LedgerPays ==
    ASSUME TypeOK, TypeOK', BudgetInv, IncrementRetries
    PROVE  [Ledger!Next]_(Ledger!vars)
<1>1. PICK ok \in StatementResults :
        Set(retry.cur.job, IF ok THEN IncrementRetryCount(CurrentRow) ELSE CurrentRow)
  BY DEF IncrementRetries, RetryStatement, CurrentRow
<1>2. published' = published /\ retry.pc = "increment" /\ retry.cur \in Entry
  BY DEF IncrementRetries, RetryStatement, TypeOK
<1>3. PICK j \in Jobs : j = retry.cur.job
  BY <1>2 DEF Entry
<1>4. CASE ~ok
  BY <1>1, <1>2, <1>3, <1>4, SetKeepsCounts, LedgerStutters DEF CurrentRow, KeepsCount
<1>5. CASE ok
  <2>1. jobs' = [jobs EXCEPT ![j] = IncrementRetryCount(jobs[j])]
    BY <1>1, <1>3, <1>5 DEF Set, CurrentRow
  <2>2. IncrementRetryCount(jobs[j]).retryCount = jobs[j].retryCount + 1
    BY DEF IncrementRetryCount, TypeOK, Row
  <2>3. jobs[j].retryCount < MaxRetries
    BY <1>2, <1>3 DEF BudgetInv, ListIsCurrent, CurrentRow
  <2>4. [i \in Jobs |-> jobs[i].retryCount]' =
        [[i \in Jobs |-> jobs[i].retryCount] EXCEPT ![j] = @ + 1]
    <3>1. \A i \in Jobs : jobs'[i].retryCount = IF i = j THEN jobs[j].retryCount + 1
                                                         ELSE jobs[i].retryCount
      BY <2>1, <2>2 DEF TypeOK
    <3>2. QED
      BY <3>1
  <2>5. Ledger!Pay(j)
    BY <1>2, <2>3, <2>4 DEF Ledger!Pay
  <2>6. QED
    BY <2>5 DEF Ledger!Next
<1>6. QED
  BY <1>4, <1>5

LEMMA LedgerHandlerStep ==
    ASSUME TypeOK, TypeOK', BudgetInv, NEW h \in Handlers
    PROVE  /\ \A j \in Jobs, o \in Origins :
                InsertJob(h, j, o) => UNCHANGED Ledger!vars
           /\ HandlerStep(h) => [Ledger!Next]_(Ledger!vars)
<1>1. ASSUME NEW j \in Jobs, NEW o \in Origins, InsertJob(h, j, o)
      PROVE  UNCHANGED Ledger!vars
  <2>1. \A i \in Jobs : jobs'[i].retryCount = jobs[i].retryCount
    BY <1>1 DEF InsertJob, Set, Create, NoRow, TypeOK, BudgetInv, UnusedIsNew
  <2>2. [i \in Jobs |-> jobs[i].retryCount]' = [i \in Jobs |-> jobs[i].retryCount]
    BY <2>1
  <2>3. QED
    BY <1>1, <2>2 DEF InsertJob, Ledger!vars
<1>2. ASSUME NEW o, NEW next, Publish(h, o, next) PROVE [Ledger!Next]_(Ledger!vars)
  <2>1. handlers[h].job \in Jobs /\ Submitting(handlers[h].job)
    BY <1>2 DEF Publish, Submitting, TypeOK
  <2>2. QED
    BY <1>2, <2>1, LedgerHandsOver DEF Publish
<1>3. ASSUME CompensateResult(h) \/ CompensateStatus(h)
      PROVE  KeepsCounts /\ published' = published
  BY <1>3, SetKeepsCounts, RowCounts
     DEF CompensateResult, CompensateStatus, TypeOK, Result, Status, Terminal
<1>4. QED
  BY <1>1, <1>2, <1>3, LedgerStutters
     DEF HandlerStep, PublishExecuted, PublishRetried, PublishScheduled

LEMMA LedgerRetryStep ==
    ASSUME TypeOK, TypeOK', BudgetInv, RetryStep
    PROVE  [Ledger!Next]_(Ledger!vars)
<1>1. ASSUME GetStuckJobs \/ \E entry \in retry.todo : TakeStuckJob(entry)
      PROVE  UNCHANGED Ledger!vars
  BY <1>1, LedgerStutters, Unmoved DEF GetStuckJobs, TakeStuckJob
<1>2. ASSUME ResetToPending \/ RecordFailure \/ MarkFailed
      PROVE  KeepsCounts /\ published' = published
  BY <1>2, SetKeepsCounts, RowCounts
     DEF ResetToPending, RecordFailure, MarkFailed, RetryStatement, CurrentRow,
         TypeOK, Status, Terminal, Result
<1>3. ASSUME Republish PROVE [Ledger!Next]_(Ledger!vars)
  <2>1. retry.cur.job \in Jobs /\ Requeuing(retry.cur.job)
    BY <1>3 DEF Republish, Requeuing, TypeOK, Entry
  <2>2. QED
    BY <1>3, <2>1, LedgerHandsOver DEF Republish
<1>4. QED
  BY <1>1, <1>2, <1>3, LedgerPays, LedgerStutters DEF RetryStep

(* Submissions and retries implement the delivery ledger.                  *)
THEOREM LedgerRefined == Spec => KeepsLedger
<1>1. Init => Ledger!Init
  BY DEF Init, NoRow, Ledger!Init
<1>2. TypeOK /\ TypeOK' /\ BudgetInv /\ [Next]_vars => [Ledger!Next]_(Ledger!vars)
  <2> SUFFICES ASSUME TypeOK, TypeOK', BudgetInv, [Next]_vars
               PROVE  [Ledger!Next]_(Ledger!vars)
    OBVIOUS
  <2>1. ASSUME NEW h \in Handlers, NEW j \in Jobs, NEW i \in Jobs,
               ExecuteAutomation(h, j) \/ RetryJob(h, j, i) \/ RunSchedule(h, j)
        PROVE  UNCHANGED Ledger!vars
    BY <2>1, LedgerHandlerStep DEF ExecuteAutomation, RetryJob, RunSchedule, InsertJob
  <2>2. ASSUME NEW w \in Workers, WorkerStep(w) \/ WorkerCrash(w) \/ LoseChannel(w)
        PROVE  UNCHANGED Ledger!vars
    BY <2>2, WorkerCounts, EnvironmentCounts, LedgerStutters
  <2>3. ASSUME NEW j \in Jobs, CancelJob(j) \/ Stall(j) \/ FallSilent(j)
        PROVE  UNCHANGED Ledger!vars
    BY <2>3, EnvironmentCounts, LedgerStutters
  <2>4. ASSUME BackendRestart PROVE UNCHANGED Ledger!vars
    BY <2>4, EnvironmentCounts, LedgerStutters
  <2>5. ASSUME UNCHANGED vars PROVE UNCHANGED Ledger!vars
    BY <2>5, LedgerStutters, Unmoved DEF vars
  <2>6. QED
    BY <2>1, <2>2, <2>3, <2>4, <2>5, LedgerHandlerStep, LedgerRetryStep DEF Next
<1>3. QED
  BY TypeCorrect, BudgetInvariant, <1>1, <1>2, PTL DEF Spec, KeepsLedger, Ledger!Spec

-----------------------------------------------------------------------------
(* Cancellations.  A worker that runs a job whose flag is set was asked    *)
(* during its attempt, because /start clears the flag and only CancelJob   *)
(* sets it again.                                                          *)

CancelOK(w) ==
    /\ workers[w].outcome = "canceled" => asked[w]
    /\ workers[w].pc = "run" /\ jobs[workers[w].job].cancelRequested => asked[w]
    /\ workers[w].pc \in {"status", "start", "run"} => workers[w].outcome = "none"

CancelInv == \A w \in Workers : CancelOK(w)

(* No step but CancelJob sets a flag. *)
KeepsFlag(new, row) == new.cancelRequested => row.cancelRequested

KeepsFlags == \A j \in Jobs : KeepsFlag(jobs'[j], jobs[j])

LEMMA RowFlags ==
    ASSUME NEW row \in Row
    PROVE  /\ KeepsFlag(row, row)
           /\ KeepsFlag(Create, row)
           /\ \A s \in Status : KeepsFlag(UpdateStatus(row, s), row)
           /\ \A r \in Result : KeepsFlag(SetResult(row, r), row)
           /\ KeepsFlag(SetCompleted(row), row)
           /\ KeepsFlag(IncrementRetryCount(row), row)
           /\ ~SetStarted(row).cancelRequested
           /\ KeepsFlag(SetStarted(row), row)
           /\ KeepsFlag(UpdateHeartbeat(row), row)
           /\ KeepsFlag([row EXCEPT !.heartbeat = "stale"], row)
  BY DEF KeepsFlag, Row, Create, NoRow, UpdateStatus, SetResult, SetCompleted,
         IncrementRetryCount, SetStarted, UpdateHeartbeat

LEMMA SetKeepsFlags ==
    ASSUME TypeOK, NEW j, NEW row, Set(j, row), j \in Jobs => KeepsFlag(row, jobs[j])
    PROVE  KeepsFlags
<1>1. \A i \in Jobs : jobs'[i] = IF i = j THEN row ELSE jobs[i]
  BY DEF Set, TypeOK
<1>2. QED
  BY <1>1 DEF KeepsFlags, KeepsFlag

LEMMA SameFlags == TypeOK /\ jobs' = jobs => KeepsFlags
  BY DEF KeepsFlags, KeepsFlag

(* A step of one worker: the others are as good as before. *)
LEMMA OneWorkerCancel ==
    ASSUME TypeOK, CancelInv, KeepsFlags, NEW w \in Workers,
           \A v \in Workers \ {w} : workers'[v] = workers[v] /\ asked'[v] = asked[v],
           CancelOK(w)'
    PROVE  CancelInv'
<1> SUFFICES ASSUME NEW v \in Workers \ {w} PROVE CancelOK(v)'
  BY DEF CancelInv
<1>1. CancelOK(v) /\ workers'[v] = workers[v] /\ asked'[v] = asked[v]
  BY DEF CancelInv
<1>2. workers[v].pc = "run" => workers[v].job \in Jobs
  BY DEF TypeOK
<1>3. QED
  BY <1>1, <1>2 DEF CancelOK, KeepsFlags, KeepsFlag

LEMMA BackendCancel ==
    ASSUME TypeOK, CancelInv, KeepsFlags, UNCHANGED <<workers, asked>>
    PROVE  CancelInv'
  BY DEF CancelInv, CancelOK, KeepsFlags, KeepsFlag, TypeOK

LEMMA HandlerFlags ==
    ASSUME TypeOK, NEW h \in Handlers
    PROVE  /\ \A j \in Jobs, o \in Origins :
                InsertJob(h, j, o) => KeepsFlags /\ UNCHANGED <<workers, asked>>
           /\ HandlerStep(h) => KeepsFlags /\ UNCHANGED <<workers, asked>>
<1>1. ASSUME NEW j \in Jobs, NEW o \in Origins, InsertJob(h, j, o)
      PROVE  KeepsFlags /\ UNCHANGED <<workers, asked>>
  BY <1>1, SetKeepsFlags, RowFlags DEF InsertJob, TypeOK
<1>2. ASSUME NEW o, NEW next, Publish(h, o, next)
      PROVE  KeepsFlags /\ UNCHANGED <<workers, asked>>
  BY <1>2, SameFlags DEF Publish
<1>3. ASSUME CompensateResult(h) \/ CompensateStatus(h)
      PROVE  KeepsFlags /\ UNCHANGED <<workers, asked>>
  BY <1>3, SetKeepsFlags, RowFlags
     DEF CompensateResult, CompensateStatus, TypeOK, Result, Status, Terminal
<1>4. QED
  BY <1>1, <1>2, <1>3
     DEF HandlerStep, PublishExecuted, PublishRetried, PublishScheduled

LEMMA RetryFlags ==
    ASSUME TypeOK, RetryStep
    PROVE  KeepsFlags /\ UNCHANGED <<workers, asked>>
<1>1. ASSUME GetStuckJobs \/ Republish \/ \E entry \in retry.todo : TakeStuckJob(entry)
      PROVE  KeepsFlags /\ UNCHANGED <<workers, asked>>
  BY <1>1, SameFlags DEF GetStuckJobs, TakeStuckJob, Republish
<1>2. ASSUME NEW pc, NEW row, NEW next, NEW other, RetryStatement(pc, row, next, other),
             CurrentRow \in Row => KeepsFlag(row, CurrentRow)
      PROVE  KeepsFlags /\ UNCHANGED <<workers, asked>>
  BY <1>2, SetKeepsFlags DEF RetryStatement, CurrentRow, TypeOK, KeepsFlag
<1>3. CurrentRow \in Row =>
        /\ KeepsFlag(IncrementRetryCount(CurrentRow), CurrentRow)
        /\ KeepsFlag(UpdateStatus(CurrentRow, "pending"), CurrentRow)
        /\ KeepsFlag(UpdateStatus(CurrentRow, "failed"), CurrentRow)
        /\ KeepsFlag(SetResult(CurrentRow, "error"), CurrentRow)
  BY RowFlags DEF Status, Terminal, Result
<1>4. QED
  BY <1>1, <1>2, <1>3
     DEF RetryStep, IncrementRetries, ResetToPending, RecordFailure, MarkFailed

LEMMA WorkerCancel ==
    ASSUME TypeOK, TypeOK', CancelInv, NEW w \in Workers
    PROVE  WorkerStep(w) \/ WorkerCrash(w) \/ LoseChannel(w) => CancelInv'
<1> DEFINE worker == workers[w]
<1>1. CancelOK(w) /\ (worker.pc # "idle" => worker.job \in Jobs) /\ worker \in WorkerState
  BY DEF CancelInv, TypeOK
<1>2. ASSUME NEW answer, NEW next, Resume(w, answer, next)
      PROVE  /\ \A v \in Workers \ {w} : workers'[v] = workers[v]
             /\ workers'[w] = IF answer = "ok" THEN next ELSE Raise(worker)
  BY <1>2 DEF Resume, TypeOK
<1>3. /\ Raise(worker).outcome = "canceled" => worker.outcome = "canceled"
      /\ Raise(worker).pc \in {"ack", "finishStatus"}
  BY <1>1 DEF Raise, WorkerState
<1>4. ASSUME (\E j \in Jobs : Consume(w, j)) \/ Ack(w) \/ WorkerCrash(w) PROVE CancelInv'
  <2>1. workers'[w].outcome = "none" /\ workers'[w].pc \in {"idle", "status"}
    <3>1. CASE \E j \in Jobs : Consume(w, j)
      <4>1. PICK j \in Jobs : Consume(w, j)
        BY <3>1
      <4>2. workers'[w] = [pc |-> "status", job |-> j, owns |-> TRUE, outcome |-> "none"]
        BY <4>1 DEF Consume, TypeOK
      <4>3. QED
        BY <4>2
    <3>2. CASE Ack(w) \/ WorkerCrash(w)
      <4>1. workers'[w] = IdleWorker
        BY <3>2 DEF Ack, WorkerCrash, TypeOK
      <4>2. QED
        BY <4>1 DEF IdleWorker
    <3>3. QED
      BY <1>4, <3>1, <3>2
  <2>2. CancelOK(w)'
    BY <2>1 DEF CancelOK
  <2>3. \A v \in Workers \ {w} : workers'[v] = workers[v] /\ asked'[v] = asked[v]
    BY <1>4 DEF Consume, Ack, WorkerCrash, TypeOK
  <2>4. jobs' = jobs
    BY <1>4 DEF Consume, Ack, WorkerCrash
  <2>5. QED
    BY <2>2, <2>3, <2>4, OneWorkerCancel, SameFlags
<1>5. ASSUME CheckStatus(w) PROVE CancelInv'
  <2>1. PICK answer \in Answers("status") :
          Resume(w, answer, [worker EXCEPT !.pc = IF HandleJobStatus(worker.job)
                                                  THEN "ack" ELSE "start"])
    BY <1>5 DEF CheckStatus
  <2>2. /\ workers'[w].outcome = "canceled" => worker.outcome = "canceled"
        /\ workers'[w].pc # "run"
        /\ workers'[w].pc \in {"status", "start"} => workers'[w].outcome = "none"
    BY <1>1, <1>2, <1>3, <1>5, <2>1 DEF CheckStatus, CancelOK, WorkerState
  <2>3. CancelOK(w)'
    BY <1>1, <1>5, <2>2 DEF CancelOK, CheckStatus
  <2>4. QED
    BY <1>2, <1>5, <2>1, <2>3, OneWorkerCancel, SameFlags DEF CheckStatus
<1>6. ASSUME ReportStart(w) PROVE CancelInv'
  <2>1. PICK answer \in Answers("start") :
          /\ HandleJobStart(worker.job, answer)
          /\ Resume(w, answer, [worker EXCEPT !.pc = "run"])
    BY <1>6 DEF ReportStart
  <2>2. worker.job \in Jobs /\ worker.outcome = "none"
    BY <1>1, <1>6 DEF ReportStart, CancelOK
  <2>3. KeepsFlags
    BY <2>1, <2>2, SetKeepsFlags, RowFlags DEF HandleJobStart, TypeOK
  <2>4. CancelOK(w)' => CancelInv'
    BY <1>2, <1>6, <2>1, <2>3, OneWorkerCancel DEF ReportStart, TypeOK
  <2>5. CancelOK(w)'
    <3>1. CASE answer = "ok"
      <4>1. workers'[w] = [worker EXCEPT !.pc = "run"]
        BY <1>2, <2>1, <3>1
      <4>2. workers'[w].job = worker.job /\ workers'[w].outcome = "none"
        BY <1>1, <2>2, <4>1 DEF WorkerState
      <4>3. ~jobs'[worker.job].cancelRequested
        BY <2>1, <2>2, <3>1, RowFlags DEF HandleJobStart, Applied, Set, TypeOK
      <4>4. QED
        BY <4>2, <4>3 DEF CancelOK
    <3>2. CASE answer # "ok"
      BY <1>2, <1>3, <2>1, <2>2, <3>2 DEF CancelOK
    <3>3. QED
      BY <3>1, <3>2
  <2>6. QED
    BY <2>4, <2>5
<1>7. ASSUME PollCancellation(w) PROVE CancelInv'
  <2> DEFINE canceled == jobs[worker.job].cancelRequested
             next == IF canceled
                     THEN [worker EXCEPT !.pc = "finishStatus", !.outcome = "canceled"]
                     ELSE worker
  <2>1. PICK answer \in Answers("poll") :
          HandleCancellationCheck(worker.job, answer) /\ Resume(w, answer, next)
    BY <1>7 DEF PollCancellation
  <2>2. worker.pc = "run" /\ worker.job \in Jobs /\ asked' = asked
    BY <1>1, <1>7 DEF PollCancellation
  <2>3. KeepsFlags
    BY <2>1, <2>2, SetKeepsFlags, RowFlags DEF HandleCancellationCheck, TypeOK
  <2>4. canceled => asked[w]
    BY <1>1, <2>2 DEF CancelOK
  <2>5. CASE answer = "ok" /\ canceled
    <3>1. workers'[w] = [worker EXCEPT !.pc = "finishStatus", !.outcome = "canceled"]
      BY <1>2, <2>1, <2>5
    <3>2. workers'[w].pc = "finishStatus"
      BY <1>1, <3>1 DEF WorkerState
    <3>3. CancelOK(w)'
      BY <2>2, <2>4, <2>5, <3>2 DEF CancelOK
    <3>4. QED
      BY <1>2, <2>1, <2>2, <2>3, <3>3, OneWorkerCancel
  <2>6. CASE answer = "ok" /\ ~canceled
    <3>1. workers'[w] = worker
      BY <1>2, <2>1, <2>6
    <3>2. CancelOK(w)'
      BY <1>1, <2>2, <2>3, <3>1 DEF CancelOK, KeepsFlags, KeepsFlag
    <3>3. QED
      BY <1>2, <2>1, <2>2, <2>3, <3>2, OneWorkerCancel
  <2>7. CASE answer # "ok"
    <3>1. CancelOK(w)'
      BY <1>1, <1>2, <1>3, <2>1, <2>2, <2>7 DEF CancelOK
    <3>2. QED
      BY <1>2, <2>1, <2>2, <2>3, <3>1, OneWorkerCancel
  <2>8. QED
    BY <2>5, <2>6, <2>7
<1>8. ASSUME EndExecution(w) PROVE CancelInv'
  <2>1. PICK outcome \in Successes \cup {"failed"} :
          workers' = [workers EXCEPT
            ![w] = [worker EXCEPT !.pc = "finishStatus", !.outcome = outcome]]
    BY <1>8 DEF EndExecution
  <2>2. workers'[w].pc = "finishStatus" /\ workers'[w].outcome = outcome
    BY <1>1, <2>1 DEF TypeOK, WorkerState
  <2>3. CancelOK(w)'
    BY <2>2, SuccessesAssumption DEF CancelOK
  <2>4. \A v \in Workers \ {w} : workers'[v] = workers[v] /\ asked'[v] = asked[v]
    BY <1>8, <2>1 DEF EndExecution, TypeOK
  <2>5. QED
    BY <1>8, <2>3, <2>4, OneWorkerCancel, SameFlags DEF EndExecution
<1>9. ASSUME ReportFinish(w) PROVE CancelInv'
  <2> DEFINE next == [worker EXCEPT !.pc = AfterPart(worker.pc, worker.outcome)]
  <2>1. PICK answer \in Answers("finish") :
          /\ Set(worker.job, IF Applied(answer)
                             THEN FinishStatement(worker.job, worker.pc, worker.outcome)
                             ELSE jobs[worker.job])
          /\ Resume(w, answer, next)
    BY <1>9 DEF ReportFinish
  <2>2. /\ worker.pc \in Finishing /\ worker.job \in Jobs /\ worker.outcome \in Status
        /\ asked' = asked
    BY <1>1, <1>9 DEF ReportFinish, TypeOK, WorkerState, Finishing, Status, Terminal
  <2>3. KeepsFlags
    <3>1. KeepsFlag(FinishStatement(worker.job, worker.pc, worker.outcome),
                    jobs[worker.job])
      BY <2>2, RowFlags DEF FinishStatement, Finishing, TypeOK, Result
    <3>2. QED
      BY <2>1, <3>1, SetKeepsFlags DEF KeepsFlag
  <2>4. AfterPart(worker.pc, worker.outcome) \in {"finishCompleted", "finishResult", "ack"}
    BY <2>2 DEF AfterPart, Finishing
  <2>5. next.pc \in {"finishCompleted", "finishResult", "ack"}
        /\ next.outcome = worker.outcome
    BY <1>1, <2>4 DEF WorkerState
  <2>6. CancelOK(w)'
    BY <1>1, <1>2, <1>3, <2>1, <2>2, <2>5 DEF CancelOK
  <2>7. QED
    BY <1>2, <2>1, <2>2, <2>3, <2>6, OneWorkerCancel
<1>10. ASSUME LoseChannel(w) PROVE CancelInv'
  <2>1. /\ workers'[w].pc = worker.pc /\ workers'[w].job = worker.job
        /\ workers'[w].outcome = worker.outcome
        /\ \A v \in Workers \ {w} : workers'[v] = workers[v]
        /\ asked' = asked /\ jobs' = jobs
    BY <1>1, <1>10 DEF LoseChannel, TypeOK, WorkerState
  <2>2. CancelOK(w)'
    BY <1>1, <2>1 DEF CancelOK
  <2>3. QED
    BY <2>1, <2>2, OneWorkerCancel, SameFlags
<1>11. QED
  BY <1>4, <1>5, <1>6, <1>7, <1>8, <1>9, <1>10 DEF WorkerStep

(* The user's step sets the flag, and asks every worker of the job. *)
LEMMA UserCancel ==
    ASSUME TypeOK, CancelInv, NEW j \in Jobs, CancelJob(j)
    PROVE  CancelInv'
<1> SUFFICES ASSUME NEW w \in Workers PROVE CancelOK(w)'
  BY DEF CancelInv
<1>1. /\ workers' = workers
      /\ asked'[w] = (asked[w] \/ workers[w].job = j)
      /\ \A i \in Jobs \ {j} : jobs'[i] = jobs[i]
  BY DEF CancelJob, Set, TypeOK
<1>2. CancelOK(w) /\ (workers[w].pc = "run" => workers[w].job \in Jobs)
  BY DEF CancelInv, TypeOK
<1>3. QED
  BY <1>1, <1>2 DEF CancelOK

LEMMA RestartCancel ==
    ASSUME TypeOK, CancelInv, BackendRestart
    PROVE  CancelInv'
<1> SUFFICES ASSUME NEW w \in Workers PROVE CancelOK(w)'
  BY DEF CancelInv
<1>1. jobs' = jobs /\ asked' = asked /\ CancelOK(w) /\ workers[w] \in WorkerState
  BY DEF BackendRestart, CancelInv, TypeOK
<1>2. workers'[w] = IF workers[w].pc \in {"finishCompleted", "finishResult"}
                    THEN Raise(workers[w]) ELSE workers[w]
  BY DEF BackendRestart
<1>3. /\ Raise(workers[w]).outcome = "canceled" => workers[w].outcome = "canceled"
      /\ Raise(workers[w]).pc \in {"ack", "finishStatus"}
  BY <1>1 DEF Raise, WorkerState
<1>4. QED
  BY <1>1, <1>2, <1>3 DEF CancelOK

(* A worker reports "canceled" only when a user asked to cancel during the *)
(* attempt it is aborting, whatever requests earlier attempts received and *)
(* however many workers share the job.                                     *)
THEOREM CancellationOwned == Spec => []CancelAbortsOwnAttempt
<1>1. Init => CancelInv
  BY DEF Init, CancelInv, CancelOK, IdleWorker
<1>2. TypeOK /\ TypeOK' /\ CancelInv /\ [Next]_vars => CancelInv'
  <2> SUFFICES ASSUME TypeOK, TypeOK', CancelInv, [Next]_vars PROVE CancelInv'
    OBVIOUS
  <2>1. ASSUME NEW h \in Handlers, NEW j \in Jobs, NEW i \in Jobs,
               ExecuteAutomation(h, j) \/ RetryJob(h, j, i) \/ RunSchedule(h, j)
        PROVE  CancelInv'
    BY <2>1, HandlerFlags, BackendCancel
       DEF ExecuteAutomation, RetryJob, RunSchedule, InsertJob
  <2>2. ASSUME NEW h \in Handlers, HandlerStep(h) PROVE CancelInv'
    BY <2>2, HandlerFlags, BackendCancel
  <2>3. ASSUME RetryStep PROVE CancelInv'
    BY <2>3, RetryFlags, BackendCancel
  <2>4. ASSUME NEW j \in Jobs, Stall(j) \/ FallSilent(j) PROVE CancelInv'
    <3>1. KeepsFlags /\ UNCHANGED <<workers, asked>>
      BY <2>4, SetKeepsFlags, RowFlags DEF Stall, FallSilent, GrowOld, TypeOK
    <3>2. QED
      BY <3>1, BackendCancel
  <2>5. ASSUME UNCHANGED vars PROVE CancelInv'
    BY <2>5, BackendCancel, SameFlags DEF vars
  <2>6. QED
    BY <2>1, <2>2, <2>3, <2>4, <2>5, WorkerCancel, UserCancel, RestartCancel DEF Next
<1>3. CancelInv => CancelAbortsOwnAttempt
  BY DEF CancelInv, CancelOK, CancelAbortsOwnAttempt
<1>4. QED
  BY TypeCorrect, <1>1, <1>2, <1>3, PTL DEF Spec

-----------------------------------------------------------------------------
(* Pending jobs.  Under the assumptions of the theorem every submission    *)
(* compensates, every statement of the backend works, and a worker never   *)
(* leaves a job it could not start.                                        *)

PendingInv == /\ PendingAccounted
              /\ \A h \in Handlers : handlers[h].pc = "publish" =>
                                         handlers[h].origin \in Origins

(* The cases of Accounted, by name. *)
InBroker(j) == queue[j] > 0
AtWorker(w, j) == /\ workers[w].job = j /\ workers[w].owns
                  /\ workers[w].pc \in {"status", "start"}
AtHandler(h, j) == handlers[h].pc # "idle" /\ handlers[h].job = j
AtRetry(j) == /\ retry.cur.job = j
              /\ retry.pc \in {"publish", "failResult", "failStatus"}

LEMMA AccountedCases ==
    ASSUME NEW j
    PROVE  Accounted(j) <=> \/ InBroker(j) \/ AtRetry(j)
                            \/ \E w \in Workers : AtWorker(w, j)
                            \/ \E h \in Handlers : AtHandler(h, j)
  BY DEF Accounted, InBroker, AtWorker, AtHandler, AtRetry

NotRevived(new, row) == new.status = "pending" => row.status = "pending"

LEMMA RowPending ==
    ASSUME NEW row \in Row
    PROVE  /\ \A s \in Status \ {"pending"} : UpdateStatus(row, s).status # "pending"
           /\ \A r \in Result : NotRevived(SetResult(row, r), row)
           /\ NotRevived(SetCompleted(row), row)
           /\ NotRevived(IncrementRetryCount(row), row)
           /\ SetStarted(row).status # "pending"
           /\ NotRevived(UpdateHeartbeat(row), row)
           /\ NotRevived(RequestCancellation(row), row)
           /\ NotRevived([row EXCEPT !.heartbeat = "stale"], row)
  BY DEF NotRevived, Row, UpdateStatus, SetResult, SetCompleted, IncrementRetryCount,
         SetStarted, UpdateHeartbeat, RequestCancellation

NoneRevived == \A j \in Jobs : NotRevived(jobs'[j], jobs[j])

LEMMA SetRevivesNone ==
    ASSUME TypeOK, NEW j, NEW row, Set(j, row), j \in Jobs => NotRevived(row, jobs[j])
    PROVE  NoneRevived
<1>1. \A i \in Jobs : jobs'[i] = IF i = j THEN row ELSE jobs[i]
  BY DEF Set, TypeOK
<1>2. QED
  BY <1>1 DEF NoneRevived, NotRevived

LEMMA SameRows == jobs' = jobs => NoneRevived
  BY DEF NoneRevived, NotRevived

(* A step that revives no job keeps the invariant when whoever accounted   *)
(* for a job still does, or somebody else does now.                        *)
LEMMA PendingStep ==
    ASSUME PendingInv, NoneRevived,
           \A h \in Handlers : handlers'[h].pc = "publish" => handlers'[h] = handlers[h],
           \A j \in Jobs : jobs'[j].status = "pending" /\ Accounted(j) => Accounted(j)'
    PROVE  PendingInv'
  BY DEF PendingInv, PendingAccounted, NoneRevived, NotRevived

LEMMA HandlerPending ==
    ASSUME TypeOK, PendingInv, NEW h \in Handlers,
           Origins \subseteq {"execute"}, "db" \notin FaultKinds, "lost" \notin FaultKinds
    PROVE  /\ \A j \in Jobs, o \in Origins : InsertJob(h, j, o) => PendingInv'
           /\ HandlerStep(h) => PendingInv'
<1>1. ASSUME NEW j \in Jobs, NEW o \in Origins, InsertJob(h, j, o) PROVE PendingInv'
  <2>1. /\ \A i \in Jobs \ {j} : jobs'[i] = jobs[i]
        /\ handlers'[h] = [pc |-> "publish", job |-> j, origin |-> o]
        /\ handlers[h].pc = "idle"
        /\ \A g \in Handlers \ {h} : handlers'[g] = handlers[g]
        /\ UNCHANGED <<queue, retry, workers>>
    BY <1>1 DEF InsertJob, Set, TypeOK
  <2>2. Accounted(j)'
    BY <2>1 DEF Accounted
  <2>3. ASSUME NEW i \in Jobs \ {j}, Accounted(i) PROVE Accounted(i)'
    BY <2>1, <2>3 DEF Accounted
  <2>4. PendingAccounted'
    BY <2>1, <2>2, <2>3 DEF PendingInv, PendingAccounted
  <2>5. QED
    BY <2>1, <2>4 DEF PendingInv
<1>2. ASSUME PublishExecuted(h) PROVE PendingInv'
  <2>1. PICK j \in Jobs : j = handlers[h].job
    BY <1>2 DEF PublishExecuted, Publish, TypeOK
  <2>2. PICK result \in PublishResults :
          /\ PublishJob(j, result)
          /\ handlers' = [handlers EXCEPT
               ![h] = IF result = "error" THEN [handlers[h] EXCEPT !.pc = "failResult"]
                                          ELSE IdleHandler]
    BY <1>2, <2>1 DEF PublishExecuted, Publish
  <2>3. jobs' = jobs /\ retry' = retry /\ workers' = workers
    BY <1>2 DEF PublishExecuted, Publish
  <2>4. result \in {"ok", "error"}
    BY DEF PublishResults, May
  <2>5. \A i \in Jobs : queue'[i] = IF i = j /\ result = "ok" THEN queue[i] + 1 ELSE queue[i]
    BY <2>2 DEF PublishJob, TypeOK
  <2>6. /\ \A g \in Handlers \ {h} : handlers'[g] = handlers[g]
        /\ result = "error" => handlers'[h].pc = "failResult" /\ handlers'[h].job = j
        /\ handlers'[h].pc # "publish"
    BY <2>1, <2>2 DEF IdleHandler, TypeOK, HandlerState
  <2>7. \A i \in Jobs : queue[i] \in Nat
    BY DEF TypeOK
  <2>8. ASSUME NEW i \in Jobs, Accounted(i) PROVE Accounted(i)'
    <3>1. CASE i = j
      <4>1. CASE result = "ok"
        BY <2>5, <2>7, <3>1, <4>1 DEF Accounted
      <4>2. CASE result = "error"
        BY <2>6, <3>1, <4>2 DEF Accounted
      <4>3. QED
        BY <2>4, <4>1, <4>2
    <3>2. CASE i # j
      BY <2>1, <2>3, <2>5, <2>6, <2>8, <3>2 DEF Accounted
    <3>3. QED
      BY <3>1, <3>2
  <2>9. QED
    BY <2>3, <2>6, <2>8, PendingStep, SameRows
<1>3. ASSUME CompensateResult(h) PROVE PendingInv'
  <2>1. NoneRevived
    BY <1>3, SetRevivesNone, RowPending DEF CompensateResult, TypeOK, Result, NotRevived
  <2>2. /\ \A g \in Handlers : /\ handlers'[g].job = handlers[g].job
                               /\ handlers[g].pc # "idle" => handlers'[g].pc # "idle"
                               /\ handlers'[g].pc = "publish" => handlers'[g] = handlers[g]
        /\ UNCHANGED <<queue, retry, workers>>
    BY <1>3 DEF CompensateResult, TypeOK, HandlerState
  <2>3. \A j \in Jobs : Accounted(j) => Accounted(j)'
    BY <2>2 DEF Accounted
  <2>4. QED
    BY <2>1, <2>2, <2>3, PendingStep
<1>4. ASSUME CompensateStatus(h) PROVE PendingInv'
  <2>1. PICK j \in Jobs : j = handlers[h].job
    BY <1>4 DEF CompensateStatus, TypeOK
  <2>2. /\ jobs' = [jobs EXCEPT ![j] = UpdateStatus(jobs[j], "failed")]
        /\ handlers' = [handlers EXCEPT ![h] = IdleHandler]
        /\ UNCHANGED <<queue, retry, workers>>
    BY <1>4, <2>1 DEF CompensateStatus, StatementResults, May, Set
  <2>3. UpdateStatus(jobs[j], "failed").status = "failed"
    BY DEF UpdateStatus, TypeOK, Row
  <2>4. NoneRevived /\ jobs'[j].status # "pending"
    BY <2>2, <2>3 DEF NoneRevived, NotRevived, TypeOK
  <2>5. /\ \A g \in Handlers \ {h} : handlers'[g] = handlers[g]
        /\ handlers'[h].pc # "publish"
    BY <2>2 DEF TypeOK, IdleHandler
  <2>6. ASSUME NEW i \in Jobs \ {j}, Accounted(i) PROVE Accounted(i)'
    BY <2>1, <2>2, <2>5, <2>6 DEF Accounted
  <2>7. QED
    BY <2>4, <2>5, <2>6, PendingStep
<1>5. ~PublishRetried(h) /\ ~PublishScheduled(h)
  BY DEF PublishRetried, PublishScheduled, Publish, PendingInv
<1>6. QED
  BY <1>1, <1>2, <1>3, <1>4, <1>5 DEF HandlerStep

LEMMA RetryPending ==
    ASSUME TypeOK, PendingInv, RetryStep, "db" \notin FaultKinds, "lost" \notin FaultKinds
    PROVE  PendingInv'
<1>1. ASSUME GetStuckJobs \/ \E entry \in retry.todo : TakeStuckJob(entry)
      PROVE  PendingInv'
  <2>1. retry.pc \in {"idle", "scan"} /\ UNCHANGED <<jobs, queue, handlers, workers>>
    BY <1>1 DEF GetStuckJobs, TakeStuckJob
  <2>2. \A j \in Jobs : Accounted(j) => Accounted(j)'
    BY <2>1 DEF Accounted
  <2>3. QED
    BY <2>1, <2>2, PendingStep, SameRows
<1>2. ASSUME NEW pc \in {"increment", "reset", "failResult", "failStatus"}, NEW row,
             NEW next, NEW other, RetryStatement(pc, row, next, other)
      PROVE  /\ retry.pc = pc /\ retry.cur \in Entry /\ retry.cur.job \in Jobs
             /\ CurrentRow \in Row
             /\ Set(retry.cur.job, row) /\ retry' = next
             /\ UNCHANGED <<queue, handlers, workers>>
  BY <1>2 DEF RetryStatement, StatementResults, May, TypeOK, Entry, CurrentRow
<1>3. ASSUME NoneRevived, UNCHANGED <<queue, handlers, workers>>,
             \A j \in Jobs : jobs'[j].status = "pending" /\ AtRetry(j) => AtRetry(j)'
      PROVE  PendingInv'
  <2>1. ASSUME NEW j \in Jobs, jobs'[j].status = "pending", Accounted(j)
        PROVE  Accounted(j)'
    BY <1>3, <2>1 DEF Accounted, AtRetry
  <2>2. QED
    BY <1>3, <2>1, PendingStep
<1>4. ASSUME IncrementRetries PROVE PendingInv'
  <2>1. /\ retry.pc = "increment" /\ CurrentRow \in Row
        /\ Set(retry.cur.job, IncrementRetryCount(CurrentRow))
        /\ UNCHANGED <<queue, handlers, workers>>
    BY <1>2, <1>4 DEF IncrementRetries
  <2>2. NoneRevived
    BY <2>1, SetRevivesNone, RowPending DEF CurrentRow
  <2>3. QED
    BY <1>3, <2>1, <2>2 DEF AtRetry
<1>5. ASSUME RecordFailure PROVE PendingInv'
  <2>1. /\ retry.pc = "failResult" /\ CurrentRow \in Row /\ retry' = At("failStatus")
        /\ Set(retry.cur.job, SetResult(CurrentRow, "error"))
        /\ UNCHANGED <<queue, handlers, workers>>
    BY <1>2, <1>5 DEF RecordFailure
  <2>2. NoneRevived
    BY <2>1, SetRevivesNone, RowPending DEF CurrentRow, Result
  <2>3. retry'.cur = retry.cur /\ retry'.pc = "failStatus"
    BY <2>1 DEF At, TypeOK, RetryState
  <2>4. QED
    BY <1>3, <2>1, <2>2, <2>3 DEF AtRetry
<1>6. ASSUME MarkFailed PROVE PendingInv'
  <2>1. /\ retry.pc = "failStatus" /\ CurrentRow \in Row /\ retry.cur.job \in Jobs
        /\ Set(retry.cur.job, UpdateStatus(CurrentRow, "failed"))
        /\ UNCHANGED <<queue, handlers, workers>>
    BY <1>2, <1>6 DEF MarkFailed
  <2>2. UpdateStatus(CurrentRow, "failed").status = "failed"
    BY <2>1 DEF UpdateStatus, Row
  <2>3. NoneRevived
    BY <2>1, <2>2, SetRevivesNone DEF NotRevived
  <2>4. jobs'[retry.cur.job].status # "pending"
    BY <2>1, <2>2 DEF Set, TypeOK
  <2>5. QED
    BY <1>3, <2>1, <2>3, <2>4 DEF AtRetry
<1>7. ASSUME ResetToPending PROVE PendingInv'
  <2>1. /\ retry.pc = "reset" /\ retry' = At("publish")
        /\ Set(retry.cur.job, UpdateStatus(CurrentRow, "pending"))
        /\ UNCHANGED <<queue, handlers, workers>>
    BY <1>2, <1>7 DEF ResetToPending
  <2>2. retry'.cur = retry.cur /\ retry'.pc = "publish"
    BY <2>1 DEF At, TypeOK, RetryState
  <2>3. ASSUME NEW j \in Jobs, jobs'[j].status = "pending" PROVE Accounted(j)'
    <3>1. CASE j = retry.cur.job
      BY <2>2, <3>1 DEF Accounted
    <3>2. CASE j # retry.cur.job
      <4>1. jobs'[j] = jobs[j]
        BY <2>1, <3>2 DEF Set, TypeOK
      <4>2. Accounted(j) /\ ~AtRetry(j)
        BY <2>3, <3>2, <4>1 DEF PendingInv, PendingAccounted, AtRetry
      <4>3. QED
        BY <2>1, <4>2 DEF Accounted, AtRetry
    <3>3. QED
      BY <3>1, <3>2
  <2>4. QED
    BY <2>1, <2>3 DEF PendingInv, PendingAccounted
<1>8. ASSUME Republish PROVE PendingInv'
  <2>1. PICK result \in PublishResults :
          /\ PublishJob(retry.cur.job, result)
          /\ retry' = IF result = "error" THEN At("failResult") ELSE NextJob
    BY <1>8 DEF Republish
  <2>2. /\ retry.pc = "publish" /\ retry.cur.job \in Jobs
        /\ UNCHANGED <<jobs, handlers, workers>>
    BY <1>8 DEF Republish, TypeOK, Entry
  <2>3. result \in {"ok", "error"}
    BY DEF PublishResults, May
  <2>4. PICK k \in Jobs : k = retry.cur.job
    BY <2>2
  <2>5. \A i \in Jobs : /\ queue[i] \in Nat
                        /\ queue'[i] = IF i = k /\ result = "ok" THEN queue[i] + 1
                                                                 ELSE queue[i]
    BY <2>1, <2>4 DEF PublishJob, TypeOK
  <2>6. result = "error" => retry'.cur = retry.cur /\ retry'.pc = "failResult"
    BY <2>1 DEF At, TypeOK, RetryState
  <2>7. ASSUME NEW j \in Jobs, Accounted(j) PROVE Accounted(j)'
    <3>1. CASE j = k
      <4>1. CASE result = "ok"
        BY <2>5, <3>1, <4>1 DEF Accounted
      <4>2. CASE result = "error"
        BY <2>4, <2>6, <3>1, <4>2 DEF Accounted
      <4>3. QED
        BY <2>3, <4>1, <4>2
    <3>2. CASE j # k
      <4>1. InBroker(j) \/ (\E w \in Workers : AtWorker(w, j))
                        \/ (\E h \in Handlers : AtHandler(h, j))
        BY <2>4, <2>7, <3>2, AccountedCases DEF AtRetry
      <4>2. queue'[j] = queue[j]
        BY <2>5, <3>2
      <4>3. QED
        BY <2>2, <4>1, <4>2 DEF Accounted, InBroker, AtWorker, AtHandler
    <3>3. QED
      BY <3>1, <3>2
  <2>8. QED
    BY <2>2, <2>7, PendingStep, SameRows
<1>9. QED
  BY <1>1, <1>4, <1>5, <1>6, <1>7, <1>8 DEF RetryStep

(* A worker's step on its own job: the others still account for theirs. *)
LEMMA OneWorkerPending ==
    ASSUME TypeOK, PendingInv, NoneRevived, NEW w \in Workers,
           UNCHANGED <<queue, handlers, retry>>,
           \A v \in Workers \ {w} : workers'[v] = workers[v],
           \A j \in Jobs : jobs'[j].status = "pending" /\ AtWorker(w, j) => AtWorker(w, j)'
    PROVE  PendingInv'
<1>1. ASSUME NEW j \in Jobs, jobs'[j].status = "pending", Accounted(j)
      PROVE  Accounted(j)'
  <2>1. CASE \E v \in Workers : AtWorker(v, j)
    <3>1. PICK v \in Workers : AtWorker(v, j)
      BY <2>1
    <3>2. AtWorker(v, j)'
      BY <1>1, <3>1 DEF AtWorker
    <3>3. QED
      BY <3>2 DEF Accounted, AtWorker
  <2>2. CASE ~\E v \in Workers : AtWorker(v, j)
    BY <1>1, <2>2 DEF Accounted, AtWorker
  <2>3. QED
    BY <2>1, <2>2
<1>2. QED
  BY <1>1, PendingStep

LEMMA WorkerPending ==
    ASSUME TypeOK, PendingInv, NEW w \in Workers, WorkerStep(w),
           "status" \notin FaultKinds, "start" \notin FaultKinds
    PROVE  PendingInv'
<1> DEFINE worker == workers[w]
<1>1. worker \in WorkerState /\ (worker.pc # "idle" => worker.job \in Jobs)
  BY DEF TypeOK
<1>2. ASSUME NEW answer, NEW next, Resume(w, answer, next)
      PROVE  /\ \A v \in Workers \ {w} : workers'[v] = workers[v]
             /\ answer = "ok" => workers'[w] = next
  BY <1>2 DEF Resume, TypeOK
<1>3. ASSUME NEW j \in Jobs, Consume(w, j) PROVE PendingInv'
  <2>1. /\ UNCHANGED <<jobs, handlers, retry>>
        /\ \A i \in Jobs \ {j} : queue'[i] = queue[i]
        /\ workers'[w] = [pc |-> "status", job |-> j, owns |-> TRUE, outcome |-> "none"]
        /\ \A v \in Workers \ {w} : workers'[v] = workers[v]
        /\ worker.pc = "idle"
    BY <1>3 DEF Consume, TypeOK
  <2>2. AtWorker(w, j)'
    BY <2>1 DEF AtWorker
  <2>3. ASSUME NEW i \in Jobs \ {j}, Accounted(i) PROVE Accounted(i)'
    BY <2>1, <2>3 DEF Accounted
  <2>4. Accounted(j)'
    BY <2>2, AccountedCases DEF Accounted, AtWorker
  <2>5. QED
    BY <2>1, <2>3, <2>4, PendingStep, SameRows
<1>4. ASSUME CheckStatus(w) PROVE PendingInv'
  <2>1. PICK answer \in Answers("status") :
          Resume(w, answer, [worker EXCEPT !.pc = IF HandleJobStatus(worker.job)
                                                  THEN "ack" ELSE "start"])
    BY <1>4 DEF CheckStatus
  <2>2. answer = "ok" /\ jobs' = jobs /\ UNCHANGED <<queue, handlers, retry>>
    BY <1>4 DEF Answers, May, CheckStatus
  <2>3. workers'[w] = [worker EXCEPT !.pc = IF HandleJobStatus(worker.job)
                                            THEN "ack" ELSE "start"]
    BY <1>2, <2>1, <2>2
  <2>4. /\ workers'[w].job = worker.job /\ workers'[w].owns = worker.owns
        /\ ~HandleJobStatus(worker.job) => workers'[w].pc = "start"
    BY <1>1, <2>3 DEF WorkerState
  <2>5. ASSUME NEW j \in Jobs, jobs'[j].status = "pending", AtWorker(w, j)
        PROVE  AtWorker(w, j)'
    BY <2>2, <2>4, <2>5 DEF AtWorker, HandleJobStatus, Terminal
  <2>6. QED
    BY <1>2, <2>1, <2>2, <2>5, OneWorkerPending, SameRows
<1>5. ASSUME ReportStart(w) PROVE PendingInv'
  <2>1. PICK answer \in Answers("start") :
          /\ HandleJobStart(worker.job, answer)
          /\ Resume(w, answer, [worker EXCEPT !.pc = "run"])
    BY <1>5 DEF ReportStart
  <2>2. /\ answer = "ok" /\ worker.job \in Jobs
        /\ UNCHANGED <<queue, handlers, retry>>
    BY <1>1, <1>5 DEF Answers, May, ReportStart
  <2>3. Set(worker.job, SetStarted(jobs[worker.job]))
    BY <2>1, <2>2 DEF HandleJobStart, Applied
  <2>4. SetStarted(jobs[worker.job]).status # "pending"
    BY <2>2, RowPending DEF TypeOK
  <2>5. NoneRevived
    BY <2>3, <2>4, SetRevivesNone DEF NotRevived
  <2>6. jobs'[worker.job].status # "pending"
    BY <2>2, <2>3, <2>4 DEF Set, TypeOK
  <2>7. QED
    BY <1>2, <2>1, <2>2, <2>5, <2>6, OneWorkerPending DEF AtWorker
<1>6. ASSUME PollCancellation(w) PROVE PendingInv'
  <2>1. PICK answer \in Answers("poll") :
          HandleCancellationCheck(worker.job, answer)
    BY <1>6 DEF PollCancellation
  <2>2. /\ worker.pc = "run" /\ worker.job \in Jobs
        /\ UNCHANGED <<queue, handlers, retry>>
        /\ \A v \in Workers \ {w} : workers'[v] = workers[v]
    BY <1>1, <1>6 DEF PollCancellation, Resume, TypeOK
  <2>3. NoneRevived
    BY <2>1, <2>2, SetRevivesNone, RowPending
       DEF HandleCancellationCheck, TypeOK, NotRevived
  <2>4. QED
    BY <2>2, <2>3, OneWorkerPending DEF AtWorker
<1>7. ASSUME EndExecution(w) \/ Ack(w) PROVE PendingInv'
  <2>1. /\ worker.pc \in {"run", "ack"} /\ jobs' = jobs
        /\ UNCHANGED <<queue, handlers, retry>>
        /\ \A v \in Workers \ {w} : workers'[v] = workers[v]
    BY <1>7 DEF EndExecution, Ack, TypeOK
  <2>2. QED
    BY <2>1, OneWorkerPending, SameRows DEF AtWorker
<1>8. ASSUME ReportFinish(w) PROVE PendingInv'
  <2>1. PICK answer \in Answers("finish") :
          Set(worker.job, IF Applied(answer)
                          THEN FinishStatement(worker.job, worker.pc, worker.outcome)
                          ELSE jobs[worker.job])
    BY <1>8 DEF ReportFinish
  <2>2. /\ worker.pc \in Finishing /\ worker.job \in Jobs
        /\ worker.outcome \in Status \ {"pending"}
        /\ UNCHANGED <<queue, handlers, retry>>
        /\ \A v \in Workers \ {w} : workers'[v] = workers[v]
    BY <1>1, <1>8
       DEF ReportFinish, Resume, TypeOK, WorkerState, Finishing, Status, Terminal
  <2>3. NoneRevived
    <3>1. NotRevived(FinishStatement(worker.job, worker.pc, worker.outcome),
                     jobs[worker.job])
      BY <2>2, RowPending DEF FinishStatement, Finishing, TypeOK, Result, NotRevived
    <3>2. QED
      BY <2>1, <3>1, SetRevivesNone DEF NotRevived
  <2>4. QED
    BY <2>2, <2>3, OneWorkerPending DEF AtWorker, Finishing
<1>9. QED
  BY <1>3, <1>4, <1>5, <1>6, <1>7, <1>8 DEF WorkerStep

LEMMA EnvironmentPending ==
    ASSUME TypeOK, PendingInv, "backend" \notin FaultKinds
    PROVE  /\ \A j \in Jobs : CancelJob(j) \/ Stall(j) \/ FallSilent(j) => PendingInv'
           /\ \A w \in Workers : WorkerCrash(w) \/ LoseChannel(w) => PendingInv'
           /\ ~BackendRestart
<1>1. ASSUME NEW j \in Jobs, CancelJob(j) \/ Stall(j) \/ FallSilent(j) PROVE PendingInv'
  <2>1. NoneRevived
    BY <1>1, SetRevivesNone, RowPending
       DEF CancelJob, Stall, FallSilent, GrowOld, TypeOK
  <2>2. UNCHANGED <<queue, handlers, retry, workers>>
    BY <1>1 DEF CancelJob, Stall, FallSilent
  <2>3. \A i \in Jobs : Accounted(i) => Accounted(i)'
    BY <2>2 DEF Accounted
  <2>4. QED
    BY <2>1, <2>2, <2>3, PendingStep
<1>2. ASSUME NEW w \in Workers, WorkerCrash(w) \/ LoseChannel(w) PROVE PendingInv'
  <2>1. /\ UNCHANGED <<jobs, handlers, retry>>
        /\ \A v \in Workers \ {w} : workers'[v] = workers[v]
        /\ workers[w].owns => queue' = [queue EXCEPT ![workers[w].job] = @ + 1]
        /\ ~workers[w].owns => queue' = queue
    BY <1>2 DEF WorkerCrash, LoseChannel, Redeliver, TypeOK
  <2>2. \A j \in Jobs : queue[j] \in Nat
    BY DEF TypeOK
  <2>3. ASSUME NEW j \in Jobs PROVE queue[j] > 0 => queue'[j] > 0
    BY <2>1, <2>2 DEF TypeOK
  <2>4. ASSUME NEW j \in Jobs, AtWorker(w, j) PROVE queue'[j] > 0
    BY <2>1, <2>2, <2>4 DEF AtWorker, TypeOK
  <2>5. ASSUME NEW j \in Jobs, Accounted(j) PROVE Accounted(j)'
    <3>1. CASE AtWorker(w, j)
      BY <2>4, <3>1 DEF Accounted
    <3>2. CASE ~AtWorker(w, j)
      BY <2>1, <2>3, <2>5, <3>2 DEF Accounted, AtWorker
    <3>3. QED
      BY <3>1, <3>2
  <2>6. QED
    BY <2>1, <2>5, PendingStep, SameRows
<1>3. ~BackendRestart
  BY DEF BackendRestart, May
<1>4. QED
  BY <1>1, <1>2, <1>3

(* Where only ExecuteAutomation submits, the backend neither fails a       *)
(* statement nor restarts nor loses a publication, and workers reach it    *)
(* until they have started, no pending job is ever an orphan: workers may  *)
(* crash, lose their channel, stall and fail to report, publications may   *)
(* be refused, and the retry worker may act on stale rows.  Each of the    *)
(* assumptions is needed: the run orphan drops the first.                  *)
THEOREM PendingKept ==
    ASSUME Origins \subseteq {"execute"},
           FaultKinds \cap {"lost", "db", "status", "start", "backend"} = {}
    PROVE  Spec => []PendingAccounted
<1>1. Init => PendingInv
  BY DEF Init, PendingInv, PendingAccounted, NoRow, IdleHandler
<1>2. TypeOK /\ PendingInv /\ [Next]_vars => PendingInv'
  <2> SUFFICES ASSUME TypeOK, PendingInv, [Next]_vars PROVE PendingInv'
    OBVIOUS
  <2>1. ASSUME NEW h \in Handlers, NEW j \in Jobs, NEW i \in Jobs,
               ExecuteAutomation(h, j) \/ RetryJob(h, j, i) \/ RunSchedule(h, j)
        PROVE  PendingInv'
    BY <2>1, HandlerPending DEF ExecuteAutomation, RetryJob, RunSchedule, InsertJob
  <2>2. ASSUME NEW h \in Handlers, HandlerStep(h) PROVE PendingInv'
    BY <2>2, HandlerPending
  <2>3. ASSUME RetryStep PROVE PendingInv'
    BY <2>3, RetryPending
  <2>4. ASSUME NEW w \in Workers, WorkerStep(w) PROVE PendingInv'
    BY <2>4, WorkerPending
  <2>5. ASSUME UNCHANGED vars PROVE PendingInv'
    <3>1. NoneRevived /\ \A j \in Jobs : Accounted(j) => Accounted(j)'
      BY <2>5, SameRows DEF vars, Accounted
    <3>2. QED
      BY <2>5, <3>1, PendingStep DEF vars
  <2>6. QED
    BY <2>1, <2>2, <2>3, <2>4, <2>5, EnvironmentPending DEF Next
<1>3. PendingInv => PendingAccounted
  BY DEF PendingInv
<1>4. QED
  BY TypeCorrect, <1>1, <1>2, <1>3, PTL DEF Spec
=============================================================================
