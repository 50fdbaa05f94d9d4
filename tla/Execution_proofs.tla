--------------------------- MODULE Execution_proofs ---------------------------
(***************************************************************************)
(* Proofs about Orchestration where nothing makes the retry worker send a  *)
(* second message of a job: at most one worker executes a job, and the     *)
(* statuses of a job follow JobContract.  Both rest on the same count: a   *)
(* job has one token, which is its submission under way, its message in    *)
(* the queue, the worker that holds the message, or its place in the pass  *)
(* of the retry worker, which takes it up only where no other token is.    *)
(***************************************************************************)
EXTENDS Orchestration_proofs

Submits(h, j) == handlers[h].pc # "idle" /\ handlers[h].job = j

Held(w, j) == workers[w].pc # "idle" /\ workers[w].job = j

Unheld(j) == \A w \in Workers : ~Held(w, j)

OneToken ==
    \A j \in Jobs :
        /\ queue[j] \in {0, 1}
        /\ queue[j] = 1 => Unheld(j)
        /\ \A v, w \in Workers : Held(v, j) /\ Held(w, j) => v = w
        /\ \A h \in Handlers : Submits(h, j) =>
             (queue[j] = 0 /\ Unheld(j) /\ jobs[j].status # "running")
        /\ jobs[j].status = "absent" => queue[j] = 0 /\ Unheld(j)

(* The retry worker has the job on its list, or works on it. *)
Listed(j) == \/ \E e \in retry.todo : e.job = j
             \/ retry.pc \notin {"idle", "scan"} /\ retry.cur.job = j

Publishing(j) == retry.pc = "publish" /\ retry.cur.job = j

NoToken(j) == /\ queue[j] = 0
              /\ Unheld(j)
              /\ \A h \in Handlers : ~Submits(h, j)

(* What GetStuckJobs finds, and what it found, has no token elsewhere. *)
OnlyLostRescued ==
    \A j \in Jobs : /\ IsStuck(jobs[j]) => NoToken(j)
                    /\ Listed(j) => NoToken(j)
                    /\ Publishing(j) => jobs[j].status # "running"

ExecInv == OneToken /\ OnlyLostRescued

(* What makes the retry worker send a second message: a live worker that   *)
(* gives no sign of life, a message not taken up within the heartbeat      *)
(* timeout, a delivery taken back from a worker that goes on.              *)
LiveWorkersTrusted == FaultKinds \cap {"stall", "backlog", "channel"} = {}

LEMMA InitExec == Init => ExecInv
  BY DEF Init, ExecInv, OneToken, OnlyLostRescued, NoToken, Listed, Publishing, IsStuck,
     Submits, Held, Unheld, NoRow, IdleHandler, IdleWorker, IdleRetry

LEMMA ExecImplied == TypeOK /\ ExecInv => SingleExecution
  BY DEF ExecInv, OneToken, SingleExecution, Executing, Held, Finishing

-----------------------------------------------------------------------------
(* The rows. *)

(* No statement makes a row absent or a job look dead, *)
StaysAlive(new, row) == /\ new \in Row
                        /\ IsStuck(new) => IsStuck(row)
                        /\ new.status = "absent" => row.status = "absent"

(* and none but a start makes it run. *)
StaysOff(new, row) == /\ StaysAlive(new, row)
                      /\ new.status = "running" => row.status = "running"

LEMMA RowAlive ==
    ASSUME NEW row \in Row
    PROVE  /\ StaysOff(row, row)
           /\ \A s \in Status \ {"absent", "running"} : StaysOff(UpdateStatus(row, s), row)
           /\ \A r \in Result : StaysOff(SetResult(row, r), row)
           /\ StaysOff(SetCompleted(row), row)
           /\ StaysOff(IncrementRetryCount(row), row)
           /\ StaysAlive(SetStarted(row), row)
           /\ StaysOff(UpdateHeartbeat(row), row)
           /\ StaysOff(RequestCancellation(row), row)
<1> USE DEF StaysOff, StaysAlive, IsStuck, Row
<1>1. StaysOff(row, row)
  OBVIOUS
<1>2. \A s \in Status \ {"absent", "running"} : StaysOff(UpdateStatus(row, s), row)
  <2> SUFFICES ASSUME NEW s \in Status \ {"absent", "running"}
               PROVE  StaysOff(UpdateStatus(row, s), row)
    OBVIOUS
  <2>1. UpdateStatus(row, s) \in Row /\ UpdateStatus(row, s).status = s
    BY RowTypes DEF UpdateStatus
  <2>2. QED
    BY <2>1
<1>3. \A r \in Result : StaysOff(SetResult(row, r), row)
  BY RowTypes DEF SetResult
<1>4. StaysOff(SetCompleted(row), row)
  BY RowTypes DEF SetCompleted
<1>5. StaysOff(IncrementRetryCount(row), row)
  BY RowTypes DEF IncrementRetryCount
<1>6. StaysAlive(SetStarted(row), row)
  BY RowTypes DEF SetStarted
<1>7. StaysOff(UpdateHeartbeat(row), row)
  BY RowTypes DEF UpdateHeartbeat
<1>8. StaysOff(RequestCancellation(row), row)
  <2>1. RequestCancellation(row) \in Row
    BY RowTypes
  <2>2. /\ row.status = "pending" => RequestCancellation(row).status = "canceled"
        /\ row.status # "pending" =>
             /\ RequestCancellation(row).status = row.status
             /\ RequestCancellation(row).heartbeat = row.heartbeat
    BY DEF RequestCancellation
  <2>3. QED
    BY <2>1, <2>2
<1> HIDE DEF StaysOff, StaysAlive, IsStuck, Row
<1>9. QED
  BY <1>1, <1>2, <1>3, <1>4, <1>5, <1>6, <1>7, <1>8

(* What one statement on the row of j leaves true of every row. *)
LEMMA SetAlive ==
    ASSUME TypeOK, NEW j \in Jobs, NEW row, Set(j, row), StaysAlive(row, jobs[j])
    PROVE  /\ jobs'[j] = row
           /\ \A i \in Jobs \ {j} : jobs'[i] = jobs[i]
           /\ \A i \in Jobs : /\ jobs'[i].status = "absent" => jobs[i].status = "absent"
                              /\ IsStuck(jobs'[i]) => IsStuck(jobs[i])
  BY DEF TypeOK, Set, StaysAlive

-----------------------------------------------------------------------------
(* Most steps move no token: the queue stays as it is, and whoever is busy *)
(* with a job afterwards was busy with it before, or found it stuck.       *)

TokensRest ==
    /\ queue' = queue
    /\ \A h \in Handlers, j \in Jobs : Submits(h, j)' => Submits(h, j)
    /\ \A w \in Workers, j \in Jobs : Held(w, j)' => Held(w, j)
    /\ \A j \in Jobs : /\ jobs'[j].status = "absent" => jobs[j].status = "absent"
                       /\ IsStuck(jobs[j])' => IsStuck(jobs[j])
                       /\ jobs'[j].status = "running" =>
                            (jobs[j].status = "running" \/ ~Unheld(j))
                       /\ Listed(j)' => (Listed(j) \/ IsStuck(jobs[j]))
                       /\ Publishing(j)' => (Publishing(j) \/ jobs'[j].status # "running")

LEMMA TokensAtRest == ASSUME ExecInv, TokensRest PROVE ExecInv'
<1>1. OneToken'
  BY DEF ExecInv, OneToken, TokensRest, Unheld
<1>2. ASSUME NEW j \in Jobs PROVE NoToken(j) => NoToken(j)'
  BY DEF NoToken, TokensRest, Unheld
<1>3. \A j \in Jobs : Publishing(j) => Listed(j)
  BY DEF Publishing, Listed
<1>4. OnlyLostRescued'
  <2> SUFFICES ASSUME NEW j \in Jobs
               PROVE  /\ IsStuck(jobs[j])' => NoToken(j)'
                      /\ Listed(j)' => NoToken(j)'
                      /\ Publishing(j)' => jobs'[j].status # "running"
    BY DEF OnlyLostRescued
  <2>1. (IsStuck(jobs[j])' => NoToken(j)') /\ (Listed(j)' => NoToken(j)')
    BY <1>2 DEF ExecInv, OnlyLostRescued, TokensRest
  <2>2. Publishing(j)' => jobs'[j].status # "running"
    BY <1>3 DEF ExecInv, OnlyLostRescued, TokensRest, NoToken
  <2>3. QED
    BY <2>1, <2>2
<1>5. QED
  BY <1>1, <1>4 DEF ExecInv

(* The retry worker and the rows are left alone: only the first three      *)
(* conjuncts are to be shown.                                              *)
LEMMA RowsAtRest ==
    ASSUME jobs' = jobs, retry' = retry
    PROVE  \A j \in Jobs : /\ jobs'[j].status = "absent" => jobs[j].status = "absent"
                           /\ IsStuck(jobs[j])' => IsStuck(jobs[j])
                           /\ jobs'[j].status = "running" =>
                                (jobs[j].status = "running" \/ ~Unheld(j))
                           /\ Listed(j)' => (Listed(j) \/ IsStuck(jobs[j]))
                           /\ Publishing(j)' => (Publishing(j) \/ jobs'[j].status # "running")
  BY DEF Listed, Publishing

(* A statement that makes nothing run, while everybody keeps his token. *)
LEMMA RowKept ==
    ASSUME TypeOK, NEW j \in Jobs, NEW row, Set(j, row), StaysOff(row, jobs[j]),
           UNCHANGED <<queue, retry>>,
           \A h \in Handlers, i \in Jobs : Submits(h, i)' => Submits(h, i),
           \A w \in Workers, i \in Jobs : Held(w, i)' => Held(w, i)
    PROVE  TokensRest
  BY SetAlive DEF TokensRest, StaysOff, Listed, Publishing

LEMMA HandlerExec ==
    ASSUME TypeOK, BudgetInv, ExecInv, NEW h \in Handlers
    PROVE  /\ \A j \in Jobs, o \in Origins : InsertJob(h, j, o) => ExecInv'
           /\ HandlerStep(h) => ExecInv'
<1>1. ASSUME NEW j \in Jobs, NEW o \in Origins, InsertJob(h, j, o) PROVE ExecInv'
  <2>1. /\ \A i \in Jobs : jobs'[i] = IF i = j THEN Create ELSE jobs[i]
        /\ \A g \in Handlers : handlers'[g] =
             IF g = h THEN [pc |-> "publish", job |-> j, origin |-> o] ELSE handlers[g]
        /\ jobs[j].status = "absent"
        /\ UNCHANGED <<queue, workers, retry>>
    BY <1>1 DEF InsertJob, Set, TypeOK
  <2>2. Create.status = "pending"
    BY DEF Create, NoRow
  <2>3. queue[j] = 0 /\ Unheld(j) /\ ~Listed(j)
    BY <2>1 DEF ExecInv, OneToken, BudgetInv, UnusedIsNew, Listed
  <2>4. \A g \in Handlers, i \in Jobs : Submits(g, i)' => Submits(g, i) \/ i = j
    BY <2>1 DEF Submits
  <2>5. \A w \in Workers, i \in Jobs : Held(w, i)' <=> Held(w, i)
    BY <2>1 DEF Held
  <2>6. OneToken'
    BY <2>1, <2>2, <2>3, <2>4, <2>5 DEF ExecInv, OneToken, Unheld
  <2>7. /\ ~IsStuck(jobs[j])' /\ ~Listed(j)'
        /\ \A i \in Jobs : /\ Listed(i)' <=> Listed(i)
                           /\ Publishing(i)' <=> Publishing(i)
    BY <2>1, <2>2, <2>3 DEF IsStuck, Listed, Publishing
  <2>8. \A i \in Jobs : i # j /\ NoToken(i) => NoToken(i)'
    BY <2>1, <2>4, <2>5 DEF NoToken, Unheld
  <2>9. OnlyLostRescued'
    BY <2>1, <2>2, <2>7, <2>8 DEF ExecInv, OnlyLostRescued
  <2>10. QED
    BY <2>6, <2>9 DEF ExecInv
<1>2. ASSUME NEW o, NEW next, Publish(h, o, next),
             next.job = handlers[h].job \/ next.pc = "idle"
      PROVE  ExecInv'
  <2>1. PICK result \in PublishResults :
          /\ PublishJob(handlers[h].job, result)
          /\ handlers' = [handlers EXCEPT
                            ![h] = IF result = "error" THEN next ELSE IdleHandler]
    BY <1>2 DEF Publish
  <2>2. handlers[h].pc = "publish" /\ UNCHANGED <<jobs, workers, retry>>
    BY <1>2 DEF Publish
  <2>3. PICK j \in Jobs : j = handlers[h].job /\ Submits(h, j)
    BY <2>2 DEF TypeOK, Submits
  <2>4. \A g \in Handlers, i \in Jobs : Submits(g, i)' => Submits(g, i)
    BY <1>2, <2>1, <2>2, <2>3 DEF Submits, TypeOK, IdleHandler
  <2>5. \A w \in Workers, i \in Jobs : Held(w, i)' <=> Held(w, i)
    BY <2>2 DEF Held
  <2>6. CASE result # "ok"
    <3>1. TokensRest
      BY <2>1, <2>2, <2>4, <2>5, <2>6, RowsAtRest DEF TokensRest, PublishJob
    <3>2. QED
      BY <3>1, TokensAtRest
  <2>7. CASE result = "ok"
    <3>1. \A i \in Jobs : queue'[i] = IF i = j THEN queue[j] + 1 ELSE queue[i]
      BY <2>1, <2>3, <2>7 DEF PublishJob, TypeOK
    <3>2. queue[j] = 0 /\ Unheld(j) /\ jobs[j].status # "absent"
      BY <2>2, <2>3 DEF ExecInv, OneToken, BudgetInv, UnusedIsNew, Submits
    <3>3. ~Submits(h, j)'
      BY <2>1, <2>7 DEF Submits, IdleHandler, TypeOK
    <3>4. \A g \in Handlers : ~Submits(g, j)'
      BY <2>3, <2>4, <3>3 DEF BudgetInv, OneHandlerPerJob, Submits
    <3>5. OneToken'
      BY <2>2, <2>4, <2>5, <3>1, <3>2, <3>4 DEF ExecInv, OneToken, Unheld
    <3>6. ~IsStuck(jobs[j]) /\ ~Listed(j) /\ ~Publishing(j)
      BY <2>3 DEF ExecInv, OnlyLostRescued, NoToken, Publishing, Listed
    <3>7. \A i \in Jobs : i # j /\ NoToken(i) => NoToken(i)'
      BY <2>4, <2>5, <3>1 DEF NoToken, Unheld
    <3>8. OnlyLostRescued'
      BY <2>2, <3>6, <3>7 DEF ExecInv, OnlyLostRescued, Listed, Publishing
    <3>9. QED
      BY <3>5, <3>8 DEF ExecInv
  <2>8. QED
    BY <2>6, <2>7
<1>3. ASSUME CompensateResult(h) \/ CompensateStatus(h) PROVE ExecInv'
  <2>1. PICK j \in Jobs : j = handlers[h].job
    BY <1>3 DEF CompensateResult, CompensateStatus, TypeOK
  <2>2. PICK row \in {SetResult(jobs[j], "error"), UpdateStatus(jobs[j], "failed"), jobs[j]} :
          Set(j, row)
    BY <1>3, <2>1 DEF CompensateResult, CompensateStatus
  <2>3. StaysOff(row, jobs[j])
    BY RowAlive DEF TypeOK, Result, Status, Terminal
  <2>4. UNCHANGED <<queue, workers, retry>>
    BY <1>3 DEF CompensateResult, CompensateStatus
  <2>5. /\ \A g \in Handlers \ {h} : handlers'[g] = handlers[g]
        /\ handlers[h].pc # "idle"
        /\ handlers'[h].pc # "idle" => handlers'[h].job = handlers[h].job
    BY <1>3 DEF CompensateResult, CompensateStatus, TypeOK, HandlerState, IdleHandler
  <2>6. \A g \in Handlers, i \in Jobs : Submits(g, i)' => Submits(g, i)
    BY <2>5 DEF Submits
  <2>7. QED
    BY <2>2, <2>3, <2>4, <2>6, RowKept, TokensAtRest DEF Held
<1>4. ASSUME PublishExecuted(h) PROVE ExecInv'
  <2>1. [handlers[h] EXCEPT !.pc = "failResult"].job = handlers[h].job
    BY DEF TypeOK, HandlerState
  <2>2. QED
    BY <1>2, <1>4, <2>1 DEF PublishExecuted
<1>5. IdleHandler.pc = "idle"
  BY DEF IdleHandler
<1>6. QED
  BY <1>1, <1>2, <1>3, <1>4, <1>5 DEF HandlerStep, PublishRetried, PublishScheduled

LEMMA RetryExec ==
    ASSUME TypeOK, BudgetInv, ExecInv, RetryStep
    PROVE  ExecInv'
<1>1. ASSUME UNCHANGED <<queue, handlers, workers>>, NEW j \in Jobs, NEW row,
             Set(j, row), StaysOff(row, jobs[j]),
             \A i \in Jobs : Listed(i)' => (Listed(i) \/ IsStuck(jobs[i])),
             \A i \in Jobs : Publishing(i)' => (Publishing(i) \/ jobs'[i].status # "running")
      PROVE  ExecInv'
  <2>1. /\ \A i \in Jobs : /\ jobs'[i].status = "absent" => jobs[i].status = "absent"
                           /\ IsStuck(jobs'[i]) => IsStuck(jobs[i])
                           /\ jobs'[i].status = "running" => jobs[i].status = "running"
    BY <1>1, SetAlive DEF StaysOff
  <2>2. /\ \A h \in Handlers, i \in Jobs : Submits(h, i)' => Submits(h, i)
        /\ \A w \in Workers, i \in Jobs : Held(w, i)' => Held(w, i)
    BY <1>1 DEF Submits, Held
  <2>3. TokensRest
    BY <1>1, <2>1, <2>2 DEF TokensRest
  <2>4. QED
    BY <2>3, TokensAtRest
<1>2. ASSUME UNCHANGED <<jobs, queue, handlers, workers>>,
             \A i \in Jobs : Listed(i)' => (Listed(i) \/ IsStuck(jobs[i])),
             \A i \in Jobs : ~Publishing(i)'
      PROVE  ExecInv'
  <2>1. TokensRest
    BY <1>2 DEF TokensRest, Submits, Held
  <2>2. QED
    BY <2>1, TokensAtRest
<1>3. CASE GetStuckJobs
  <2>1. /\ retry'.pc = "scan"
        /\ \A e \in retry'.todo : IsStuck(jobs[e.job])
    BY <1>3 DEF GetStuckJobs, StuckJobs
  <2>2. UNCHANGED <<jobs, queue, handlers, workers>>
    BY <1>3 DEF GetStuckJobs
  <2>3. /\ \A i \in Jobs : Listed(i)' => (Listed(i) \/ IsStuck(jobs[i]))
        /\ \A i \in Jobs : ~Publishing(i)'
    BY <2>1 DEF Listed, Publishing
  <2>4. QED
    BY <1>2, <2>2, <2>3
<1>4. ASSUME NEW entry \in retry.todo, TakeStuckJob(entry) PROVE ExecInv'
  <2>1. /\ retry'.todo \subseteq retry.todo
        /\ \/ retry'.pc \in {"idle", "scan"}
           \/ retry'.pc \in {"increment", "failResult"} /\ retry'.cur = entry
    BY <1>4 DEF TakeStuckJob, Continue
  <2>2. UNCHANGED <<jobs, queue, handlers, workers>>
    BY <1>4 DEF TakeStuckJob
  <2>3. /\ \A i \in Jobs : Listed(i)' => (Listed(i) \/ IsStuck(jobs[i]))
        /\ \A i \in Jobs : ~Publishing(i)'
    BY <2>1 DEF Listed, Publishing
  <2>4. QED
    BY <1>2, <2>2, <2>3
<1>5. ASSUME retry.pc \notin {"idle", "scan"} PROVE retry.cur.job \in Jobs /\ CurrentRow \in Row
  BY <1>5 DEF TypeOK, Entry, CurrentRow
<1>6. ASSUME NEW pc, NEW row, NEW good, NEW bad, RetryStatement(pc, row, good, bad),
             StaysOff(row, CurrentRow), pc \notin {"idle", "scan"},
             good \in {NextJob, At("reset"), At("publish"), At("failStatus")},
             bad \in {NextJob, At("failStatus")},
             good = At("publish") => row.status # "running"
      PROVE  ExecInv'
  <2>1. PICK ok \in StatementResults :
          /\ Set(retry.cur.job, IF ok THEN row ELSE jobs[retry.cur.job])
          /\ retry' = IF ok THEN good ELSE bad
    BY <1>6 DEF RetryStatement
  <2> DEFINE new == IF ok THEN row ELSE CurrentRow
  <2>2. /\ retry.pc \notin {"idle", "scan"} /\ retry.cur.job \in Jobs
        /\ UNCHANGED <<queue, handlers, workers>>
    BY <1>5, <1>6 DEF RetryStatement
  <2>3. Set(retry.cur.job, new) /\ StaysOff(new, jobs[retry.cur.job])
    BY <1>5, <1>6, <2>1, <2>2, RowAlive DEF CurrentRow
  <2>4. retry \in RetryState
    BY DEF TypeOK
  <2>5. /\ retry'.todo = retry.todo
        /\ \/ retry'.pc \in {"idle", "scan"}
           \/ retry'.pc # "publish" /\ retry'.cur = retry.cur
           \/ retry' = At("publish") /\ retry' = good /\ ok /\ retry'.cur = retry.cur
    BY <1>6, <2>1, <2>4 DEF NextJob, Continue, At, RetryState
  <2>6. \A i \in Jobs : Listed(i)' => (Listed(i) \/ IsStuck(jobs[i]))
    BY <2>2, <2>5 DEF Listed
  <2>7. jobs'[retry.cur.job] = new
    BY <2>2, <2>3, SetAlive DEF StaysOff
  <2>8. \A i \in Jobs : Publishing(i)' => (Publishing(i) \/ jobs'[i].status # "running")
    BY <1>6, <2>5, <2>7 DEF Publishing
  <2>9. QED
    BY <1>1, <2>2, <2>3, <2>6, <2>8
<1>7. CASE IncrementRetries
  <2>1. retry.pc = "increment" /\ At("reset") # At("publish")
    <3>1. At("reset").pc = "reset" /\ At("publish").pc = "publish"
      BY DEF At, TypeOK, RetryState
    <3>2. QED
      BY <1>7, <3>1 DEF IncrementRetries, RetryStatement
  <2>2. StaysOff(IncrementRetryCount(CurrentRow), CurrentRow)
    BY <1>5, <2>1, RowAlive
  <2>3. QED
    BY <1>6, <1>7, <2>1, <2>2 DEF IncrementRetries
<1>8. CASE ResetToPending
  <2>1. retry.pc = "reset"
    BY <1>8 DEF ResetToPending, RetryStatement
  <2>2. UpdateStatus(CurrentRow, "pending").status = "pending"
    BY <1>5, <2>1 DEF UpdateStatus, Row
  <2>3. StaysOff(UpdateStatus(CurrentRow, "pending"), CurrentRow)
    BY <1>5, <2>1, RowAlive DEF Status
  <2>4. QED
    BY <1>6, <1>8, <2>2, <2>3 DEF ResetToPending
<1>9. CASE RecordFailure
  <2>1. retry.pc = "failResult" /\ At("failStatus") # At("publish")
    <3>1. At("failStatus").pc = "failStatus" /\ At("publish").pc = "publish"
      BY DEF At, TypeOK, RetryState
    <3>2. QED
      BY <1>9, <3>1 DEF RecordFailure, RetryStatement
  <2>2. StaysOff(SetResult(CurrentRow, "error"), CurrentRow)
    BY <1>5, <2>1, RowAlive DEF Result
  <2>3. QED
    BY <1>6, <1>9, <2>1, <2>2 DEF RecordFailure
<1>10. CASE MarkFailed
  <2>1. retry.pc = "failStatus"
    BY <1>10 DEF MarkFailed, RetryStatement
  <2>2. /\ StaysOff(UpdateStatus(CurrentRow, "failed"), CurrentRow)
        /\ UpdateStatus(CurrentRow, "failed").status = "failed"
    BY <1>5, <2>1, RowAlive DEF Status, Terminal, UpdateStatus, Row
  <2>3. QED
    BY <1>6, <1>10, <2>2 DEF MarkFailed
<1>11. CASE Republish
  <2>1. PICK result \in PublishResults :
          /\ PublishJob(retry.cur.job, result)
          /\ retry' = IF result = "error" THEN At("failResult") ELSE NextJob
    BY <1>11 DEF Republish
  <2>2. retry.pc = "publish" /\ UNCHANGED <<jobs, handlers, workers>>
    BY <1>11 DEF Republish
  <2>3. PICK j \in Jobs : j = retry.cur.job
    BY <1>5, <2>2
  <2>4. /\ \A i \in Jobs : Listed(i)' => Listed(i)
        /\ \A i \in Jobs : ~Publishing(i)'
    BY <2>1, <2>2 DEF Listed, Publishing, At, NextJob, Continue, TypeOK, RetryState
  <2>5. /\ \A h \in Handlers, i \in Jobs : Submits(h, i)' <=> Submits(h, i)
        /\ \A w \in Workers, i \in Jobs : Held(w, i)' <=> Held(w, i)
    BY <2>2 DEF Submits, Held
  <2>6. CASE result # "ok"
    <3>1. UNCHANGED <<jobs, queue, handlers, workers>>
      BY <2>1, <2>2, <2>6 DEF PublishJob
    <3>2. QED
      BY <1>2, <2>4, <3>1
  <2>7. CASE result = "ok"
    <3>1. \A i \in Jobs : queue'[i] = IF i = j THEN queue[j] + 1 ELSE queue[i]
      BY <2>1, <2>3, <2>7 DEF PublishJob, TypeOK
    <3>2. /\ NoToken(j) /\ jobs[j].status # "running" /\ jobs[j].status # "absent"
      BY <2>2, <2>3 DEF ExecInv, OnlyLostRescued, Listed, Publishing, BudgetInv, UnusedIsNew
    <3>3. retry' = NextJob /\ \A e \in retry.todo : e.job # j
      BY <2>1, <2>2, <2>3, <2>7 DEF BudgetInv, ListIsCurrent
    <3>4. ~Listed(j)'
      BY <3>3 DEF Listed, NextJob, Continue
    <3>5. OneToken'
      BY <2>2, <2>5, <3>1, <3>2 DEF ExecInv, OneToken, NoToken, Unheld
    <3>6. \A i \in Jobs : i # j /\ NoToken(i) => NoToken(i)'
      BY <2>5, <3>1 DEF NoToken, Unheld
    <3>7. OnlyLostRescued'
      BY <2>2, <2>4, <3>2, <3>4, <3>6 DEF ExecInv, OnlyLostRescued, IsStuck
    <3>8. QED
      BY <3>5, <3>7 DEF ExecInv
  <2>8. QED
    BY <2>6, <2>7
<1>12. QED
  BY <1>3, <1>4, <1>7, <1>8, <1>9, <1>10, <1>11 DEF RetryStep

LEMMA WorkerExec ==
    ASSUME TypeOK, ExecInv, NEW w \in Workers
    PROVE  WorkerStep(w) \/ WorkerCrash(w) => ExecInv'
<1> DEFINE worker == workers[w]
<1>1. worker \in WorkerState /\ (worker.pc # "idle" => worker.job \in Jobs)
  BY DEF TypeOK
<1>2. ASSUME worker.pc # "idle", workers'[w].pc = "idle" \/ workers'[w].job = worker.job,
             \A v \in Workers \ {w} : workers'[v] = workers[v],
             UNCHANGED <<queue, handlers, retry>>,
             jobs' = jobs \/ \E row : /\ Set(worker.job, row)
                                      /\ StaysAlive(row, jobs[worker.job])
      PROVE  ExecInv'
  <2>1. Held(w, worker.job) /\ worker.job \in Jobs
    BY <1>1, <1>2 DEF Held
  <2>2. \A j \in Jobs : /\ jobs'[j].status = "absent" => jobs[j].status = "absent"
                        /\ IsStuck(jobs[j])' => IsStuck(jobs[j])
                        /\ j # worker.job => jobs'[j] = jobs[j]
    BY <1>2, <2>1, SetAlive
  <2>3. TokensRest
    BY <1>2, <2>1, <2>2 DEF TokensRest, Submits, Held, Unheld, Listed, Publishing
  <2>4. QED
    BY <2>3, TokensAtRest
<1>3. ASSUME NEW answer, NEW next, next.job = worker.job, Resume(w, answer, next)
      PROVE  /\ workers'[w].job = worker.job
             /\ \A v \in Workers \ {w} : workers'[v] = workers[v]
  BY <1>1, <1>3 DEF Resume, Raise, TypeOK, WorkerState
<1>5. ASSUME NEW j \in Jobs, Consume(w, j) PROVE ExecInv'
  <2>1. /\ \A i \in Jobs : queue'[i] = IF i = j THEN queue[j] - 1 ELSE queue[i]
        /\ queue[j] > 0 /\ worker.pc = "idle"
        /\ \A v \in Workers \ {w} : workers'[v] = workers[v]
        /\ workers'[w].job = j
        /\ UNCHANGED <<jobs, handlers, retry>>
    BY <1>5 DEF Consume, TypeOK
  <2>2. /\ queue[j] = 1 /\ Unheld(j) /\ jobs[j].status # "absent"
        /\ \A h \in Handlers : ~Submits(h, j)
    BY <2>1 DEF ExecInv, OneToken
  <2>3. \A h \in Handlers, i \in Jobs : Submits(h, i)' <=> Submits(h, i)
    BY <2>1 DEF Submits
  <2>4. \A v \in Workers, i \in Jobs : Held(v, i)' => Held(v, i) \/ (v = w /\ i = j)
    BY <2>1 DEF Held
  <2>5. OneToken'
    BY <2>1, <2>2, <2>3, <2>4 DEF ExecInv, OneToken, Unheld
  <2>6. ~NoToken(j) /\ \A i \in Jobs : i # j /\ NoToken(i) => NoToken(i)'
    BY <2>1, <2>2, <2>3, <2>4 DEF NoToken, Unheld
  <2>7. OnlyLostRescued'
    BY <2>1, <2>6 DEF ExecInv, OnlyLostRescued, Listed, Publishing
  <2>8. QED
    BY <2>5, <2>7 DEF ExecInv
<1>6. ASSUME CheckStatus(w) PROVE ExecInv'
  <2>1. PICK answer \in Answers("status") :
          Resume(w, answer, [worker EXCEPT !.pc = IF HandleJobStatus(worker.job)
                                                  THEN "ack" ELSE "start"])
    BY <1>6 DEF CheckStatus
  <2>2. worker.pc # "idle" /\ UNCHANGED <<jobs, queue, handlers, retry>>
    BY <1>6 DEF CheckStatus
  <2>3. QED
    BY <1>1, <1>2, <1>3, <2>1, <2>2 DEF WorkerState
<1>7. ASSUME ReportStart(w) PROVE ExecInv'
  <2>1. PICK answer \in Answers("start") :
          /\ HandleJobStart(worker.job, answer)
          /\ Resume(w, answer, [worker EXCEPT !.pc = "run"])
    BY <1>7 DEF ReportStart
  <2>2. worker.pc # "idle" /\ worker.job \in Jobs /\ UNCHANGED <<queue, handlers, retry>>
    BY <1>1, <1>7 DEF ReportStart
  <2>3. PICK row \in {SetStarted(jobs[worker.job]), jobs[worker.job]} :
          Set(worker.job, row)
    BY <2>1 DEF HandleJobStart
  <2>4. StaysAlive(row, jobs[worker.job])
    BY <2>2, RowAlive DEF TypeOK, StaysOff
  <2>5. QED
    BY <1>1, <1>2, <1>3, <2>1, <2>2, <2>3, <2>4 DEF WorkerState
<1>8. ASSUME PollCancellation(w) PROVE ExecInv'
  <2> DEFINE next == IF jobs[worker.job].cancelRequested
                     THEN [worker EXCEPT !.pc = "finishStatus", !.outcome = "canceled"]
                     ELSE worker
  <2>1. PICK answer \in Answers("poll") :
          HandleCancellationCheck(worker.job, answer) /\ Resume(w, answer, next)
    BY <1>8 DEF PollCancellation
  <2>2. worker.pc # "idle" /\ worker.job \in Jobs /\ UNCHANGED <<queue, handlers, retry>>
    BY <1>1, <1>8 DEF PollCancellation
  <2>3. PICK row \in {UpdateHeartbeat(jobs[worker.job]), jobs[worker.job]} :
          Set(worker.job, row)
    BY <2>1 DEF HandleCancellationCheck
  <2>4. StaysAlive(row, jobs[worker.job])
    BY <2>2, RowAlive DEF TypeOK, StaysOff
  <2>5. next.job = worker.job
    BY <1>1 DEF WorkerState
  <2>6. QED
    BY <1>2, <1>3, <2>1, <2>2, <2>3, <2>4, <2>5
<1>9. ASSUME EndExecution(w) PROVE ExecInv'
  <2>1. /\ worker.pc # "idle" /\ workers'[w].job = worker.job
        /\ \A v \in Workers \ {w} : workers'[v] = workers[v]
        /\ UNCHANGED <<jobs, queue, handlers, retry>>
    BY <1>9 DEF EndExecution, TypeOK, WorkerState
  <2>2. QED
    BY <1>2, <2>1
<1>10. ASSUME ReportFinish(w) PROVE ExecInv'
  <2> DEFINE next == [worker EXCEPT !.pc = AfterPart(worker.pc, worker.outcome)]
  <2>1. PICK answer \in Answers("finish") :
          /\ Set(worker.job, IF Applied(answer)
                             THEN FinishStatement(worker.job, worker.pc, worker.outcome)
                             ELSE jobs[worker.job])
          /\ Resume(w, answer, next)
    BY <1>10 DEF ReportFinish
  <2>2. /\ worker.pc \in Finishing /\ worker.job \in Jobs /\ worker.outcome \in Terminal
        /\ UNCHANGED <<queue, handlers, retry>>
    BY <1>1, <1>10 DEF ReportFinish, TypeOK, WorkerState, Finishing
  <2>3. PICK row \in {UpdateStatus(jobs[worker.job], worker.outcome),
                      SetCompleted(jobs[worker.job]),
                      SetResult(jobs[worker.job], "worker"), jobs[worker.job]} :
          Set(worker.job, row)
    BY <2>1, <2>2 DEF FinishStatement, Finishing
  <2>4. StaysAlive(row, jobs[worker.job])
    BY <2>2, RowAlive DEF TypeOK, Terminal, Status, Result, StaysOff
  <2>5. next.job = worker.job /\ worker.pc # "idle"
    BY <1>1, <2>2 DEF WorkerState, Finishing
  <2>6. QED
    BY <1>2, <1>3, <2>1, <2>2, <2>3, <2>4, <2>5
<1>11. ASSUME Ack(w) PROVE ExecInv'
  <2>1. /\ worker.pc # "idle" /\ workers'[w].pc = "idle"
        /\ \A v \in Workers \ {w} : workers'[v] = workers[v]
        /\ UNCHANGED <<jobs, queue, handlers, retry>>
    BY <1>11 DEF Ack, TypeOK, IdleWorker
  <2>2. QED
    BY <1>2, <2>1
<1>12. ASSUME WorkerCrash(w) PROVE ExecInv'
  <2>1. PICK j \in Jobs : j = worker.job /\ Held(w, j)
    BY <1>1, <1>12 DEF WorkerCrash, Held
  <2>2. /\ workers'[w].pc = "idle"
        /\ \A v \in Workers \ {w} : workers'[v] = workers[v]
        /\ UNCHANGED <<jobs, handlers, retry>>
        /\ Redeliver(w)
    BY <1>12 DEF WorkerCrash, TypeOK, IdleWorker
  <2>3. \A i \in Jobs : queue'[i] = queue[i] \/ (i = j /\ queue'[i] = queue[i] + 1)
    BY <2>1, <2>2 DEF Redeliver, TypeOK
  <2>4. /\ queue[j] = 0 /\ jobs[j].status # "absent"
        /\ \A h \in Handlers : ~Submits(h, j)
    BY <2>1 DEF ExecInv, OneToken, Unheld
  <2>5. \A h \in Handlers, i \in Jobs : Submits(h, i)' <=> Submits(h, i)
    BY <2>2 DEF Submits
  <2>6. \A v \in Workers, i \in Jobs : Held(v, i)' => Held(v, i) /\ v # w
    BY <2>2 DEF Held
  <2>7. Unheld(j)'
    BY <2>1, <2>6 DEF ExecInv, OneToken, Unheld
  <2>8. OneToken'
    BY <2>2, <2>3, <2>4, <2>5, <2>6, <2>7 DEF ExecInv, OneToken, Unheld
  <2>9. ~NoToken(j) /\ \A i \in Jobs : i # j /\ NoToken(i) => NoToken(i)'
    BY <2>1, <2>3, <2>5, <2>6 DEF NoToken, Unheld
  <2>10. OnlyLostRescued'
    BY <2>2, <2>9 DEF ExecInv, OnlyLostRescued, Listed, Publishing
  <2>11. QED
    BY <2>8, <2>10 DEF ExecInv
<1>13. QED
  BY <1>5, <1>6, <1>7, <1>8, <1>9, <1>10, <1>11, <1>12 DEF WorkerStep

LEMMA EnvironmentExec ==
    ASSUME TypeOK, ExecInv, LiveWorkersTrusted
    PROVE  /\ \A j \in Jobs : CancelJob(j) \/ FallSilent(j) => ExecInv'
           /\ BackendRestart => ExecInv'
           /\ \A j \in Jobs : ~Stall(j)
           /\ \A w \in Workers : ~LoseChannel(w)
<1>1. ASSUME NEW j \in Jobs, CancelJob(j) PROVE ExecInv'
  <2>1. /\ Set(j, RequestCancellation(jobs[j]))
        /\ UNCHANGED <<queue, handlers, workers, retry>>
    BY <1>1 DEF CancelJob
  <2>2. StaysOff(RequestCancellation(jobs[j]), jobs[j])
    BY RowAlive DEF TypeOK
  <2>3. QED
    BY <2>1, <2>2, RowKept, TokensAtRest DEF Submits, Held
(* The heartbeat that grows old is that of a job without a token. *)
<1>2. ASSUME NEW j \in Jobs, FallSilent(j) PROVE ExecInv'
  <2>1. /\ jobs[j].status = "running" /\ Set(j, [jobs[j] EXCEPT !.heartbeat = "stale"])
        /\ UNCHANGED <<queue, handlers, workers, retry>> /\ ~WorkedOn(j)
    BY <1>2 DEF FallSilent, GrowOld
  <2>2. /\ \A i \in Jobs \ {j} : jobs'[i] = jobs[i]
        /\ jobs'[j].status = "running"
    BY <2>1 DEF Set, TypeOK, Row
  <2>3. queue[j] = 0
    <3>1. queue[j] \in {0, 1}
      BY DEF ExecInv, OneToken
    <3>2. ~(queue[j] > 0)
      BY <1>2 DEF FallSilent, LiveWorkersTrusted
    <3>3. QED
      BY <3>1, <3>2
  <2>4. NoToken(j)
    BY <2>1, <2>3 DEF NoToken, Unheld, Held, WorkedOn, ExecInv, OneToken
  <2>5. /\ \A h \in Handlers, i \in Jobs : Submits(h, i)' <=> Submits(h, i)
        /\ \A w \in Workers, i \in Jobs : Held(w, i)' <=> Held(w, i)
        /\ \A i \in Jobs : /\ Listed(i)' <=> Listed(i)
                           /\ Publishing(i)' <=> Publishing(i)
    BY <2>1 DEF Submits, Held, Listed, Publishing
  <2>6. \A i \in Jobs : NoToken(i) => NoToken(i)'
    BY <2>1, <2>5 DEF NoToken, Unheld
  <2>7. OneToken'
    BY <2>1, <2>2, <2>5 DEF ExecInv, OneToken, Unheld
  <2>8. OnlyLostRescued'
    BY <2>1, <2>2, <2>4, <2>5, <2>6 DEF ExecInv, OnlyLostRescued
  <2>9. QED
    BY <2>7, <2>8 DEF ExecInv
<1>3. ASSUME BackendRestart PROVE ExecInv'
  <2>1. /\ \A h \in Handlers : handlers'[h].pc = "idle"
        /\ retry'.pc = "idle" /\ retry'.todo = {}
        /\ UNCHANGED <<jobs, queue>>
    BY <1>3 DEF BackendRestart, IdleHandler, IdleRetry
  <2>2. \A w \in Workers : workers[w] \in WorkerState
    BY DEF TypeOK
  <2>3. \A w \in Workers :
          workers'[w] = IF workers[w].pc \in {"finishCompleted", "finishResult"}
                        THEN Raise(workers[w]) ELSE workers[w]
    BY <1>3 DEF BackendRestart
  <2>4. \A w \in Workers : /\ workers'[w].job = workers[w].job
                           /\ workers[w].pc = "idle" => workers'[w].pc = "idle"
    BY <2>2, <2>3 DEF Raise, WorkerState
  <2>5. TokensRest
    BY <2>1, <2>4 DEF TokensRest, Submits, Held, Listed, Publishing
  <2>6. QED
    BY <2>5, TokensAtRest
<1>4. QED
  BY <1>1, <1>2, <1>3 DEF LiveWorkersTrusted, Stall, LoseChannel, May

LEMMA ExecInvariant == ASSUME LiveWorkersTrusted PROVE Spec => []ExecInv
<1>1. TypeOK /\ BudgetInv /\ ExecInv /\ [Next]_vars => ExecInv'
  <2> SUFFICES ASSUME TypeOK, BudgetInv, ExecInv, [Next]_vars PROVE ExecInv'
    OBVIOUS
  <2>1. ASSUME NEW h \in Handlers, NEW j \in Jobs, NEW i \in Jobs,
               ExecuteAutomation(h, j) \/ RetryJob(h, j, i) \/ RunSchedule(h, j)
        PROVE  ExecInv'
    BY <2>1, HandlerExec DEF ExecuteAutomation, RetryJob, RunSchedule, InsertJob
  <2>2. ASSUME NEW h \in Handlers, HandlerStep(h) PROVE ExecInv'
    BY <2>2, HandlerExec
  <2>3. ASSUME RetryStep PROVE ExecInv'
    BY <2>3, RetryExec
  <2>4. ASSUME NEW w \in Workers, WorkerStep(w) \/ WorkerCrash(w) PROVE ExecInv'
    BY <2>4, WorkerExec
  <2>5. ASSUME UNCHANGED vars PROVE ExecInv'
    <3>1. TokensRest
      BY <2>5, RowsAtRest DEF vars, TokensRest, Submits, Held
    <3>2. QED
      BY <3>1, TokensAtRest
  <2>6. QED
    BY <2>1, <2>2, <2>3, <2>4, <2>5, EnvironmentExec DEF Next
<1>2. QED
  BY TypeCorrect, BudgetInvariant, InitExec, <1>1, PTL DEF Spec

(* No two workers execute the same job, whatever fails (statements,        *)
(* publications, reports, workers, the backend) and however often the      *)
(* retry worker takes up a job nobody works on, as long as no delivery is  *)
(* taken back from a worker that goes on and the heartbeat timeout only    *)
(* passes for a job whose worker and message are gone.  The assumption is  *)
(* needed: a message that waits longer is joined by the retry worker's.    *)
THEOREM ExecutedOnce == ASSUME LiveWorkersTrusted PROVE Spec => []SingleExecution
  BY TypeCorrect, ExecInvariant, ExecImplied, PTL

-----------------------------------------------------------------------------
(* Requests to cancel.  Only the start of an attempt clears one.           *)

KeepsRequest(new, row) == row.cancelRequested => new.cancelRequested

KeepsRequests == \A j \in Jobs : KeepsRequest(jobs'[j], jobs[j])

LEMMA RowRequests ==
    ASSUME NEW row \in Row
    PROVE  /\ KeepsRequest(row, row)
           /\ \A s \in Status : KeepsRequest(UpdateStatus(row, s), row)
           /\ \A r \in Result : KeepsRequest(SetResult(row, r), row)
           /\ KeepsRequest(SetCompleted(row), row)
           /\ KeepsRequest(IncrementRetryCount(row), row)
           /\ KeepsRequest(UpdateHeartbeat(row), row)
           /\ KeepsRequest(RequestCancellation(row), row)
           /\ KeepsRequest([row EXCEPT !.heartbeat = "stale"], row)
  BY DEF KeepsRequest, Row, UpdateStatus, SetResult, SetCompleted, IncrementRetryCount,
     UpdateHeartbeat, RequestCancellation

LEMMA SetKeepsRequests ==
    ASSUME TypeOK, NEW j, NEW row, Set(j, row), j \in Jobs => KeepsRequest(row, jobs[j])
    PROVE  KeepsRequests
<1>1. \A i \in Jobs : jobs'[i] = IF i = j THEN row ELSE jobs[i]
  BY DEF Set, TypeOK
<1>2. QED
  BY <1>1 DEF KeepsRequests, KeepsRequest

LEMMA SameRequests == jobs' = jobs => KeepsRequests
  BY DEF KeepsRequests, KeepsRequest

LEMMA BackendRequests ==
    ASSUME TypeOK
    PROVE  /\ \A h \in Handlers : HandlerStep(h) => KeepsRequests
           /\ RetryStep => KeepsRequests
           /\ \A j \in Jobs : CancelJob(j) \/ Stall(j) \/ FallSilent(j) => KeepsRequests
           /\ BackendRestart => KeepsRequests
<1>1. ASSUME NEW h \in Handlers, HandlerStep(h) PROVE KeepsRequests
  <2>1. CASE CompensateResult(h) \/ CompensateStatus(h)
    BY <2>1, SetKeepsRequests, RowRequests
       DEF CompensateResult, CompensateStatus, TypeOK, Result, Status, Terminal
  <2>2. CASE PublishExecuted(h) \/ PublishRetried(h) \/ PublishScheduled(h)
    BY <2>2, SameRequests DEF PublishExecuted, PublishRetried, PublishScheduled, Publish
  <2>3. QED
    BY <1>1, <2>1, <2>2 DEF HandlerStep
<1>2. ASSUME RetryStep PROVE KeepsRequests
  <2>1. ASSUME GetStuckJobs \/ Republish \/ \E entry \in retry.todo : TakeStuckJob(entry)
        PROVE  KeepsRequests
    BY <2>1, SameRequests DEF GetStuckJobs, TakeStuckJob, Republish
  <2>2. ASSUME NEW pc, NEW row, NEW next, NEW other, RetryStatement(pc, row, next, other),
               CurrentRow \in Row => KeepsRequest(row, CurrentRow)
        PROVE  KeepsRequests
    BY <2>2, SetKeepsRequests DEF RetryStatement, CurrentRow, TypeOK, KeepsRequest
  <2>3. CurrentRow \in Row =>
          /\ KeepsRequest(IncrementRetryCount(CurrentRow), CurrentRow)
          /\ KeepsRequest(UpdateStatus(CurrentRow, "pending"), CurrentRow)
          /\ KeepsRequest(UpdateStatus(CurrentRow, "failed"), CurrentRow)
          /\ KeepsRequest(SetResult(CurrentRow, "error"), CurrentRow)
    BY RowRequests DEF Status, Terminal, Result
  <2>4. QED
    BY <1>2, <2>1, <2>2, <2>3
       DEF RetryStep, IncrementRetries, ResetToPending, RecordFailure, MarkFailed
<1>3. ASSUME NEW j \in Jobs, CancelJob(j) \/ Stall(j) \/ FallSilent(j) PROVE KeepsRequests
  BY <1>3, SetKeepsRequests, RowRequests DEF CancelJob, Stall, FallSilent, GrowOld, TypeOK
<1>4. BackendRestart => KeepsRequests
  BY SameRequests DEF BackendRestart
<1>5. QED
  BY <1>1, <1>2, <1>3, <1>4

LEMMA WorkerRequests ==
    ASSUME TypeOK, NEW w \in Workers, WorkerStep(w) \/ WorkerCrash(w) \/ LoseChannel(w),
           ~ReportStart(w)
    PROVE  KeepsRequests
<1>1. CASE \/ \E j \in Jobs : Consume(w, j)
           \/ CheckStatus(w) \/ EndExecution(w) \/ Ack(w) \/ WorkerCrash(w) \/ LoseChannel(w)
  BY <1>1, SameRequests DEF Consume, CheckStatus, EndExecution, Ack, WorkerCrash, LoseChannel
<1>2. CASE PollCancellation(w)
  BY <1>2, SetKeepsRequests, RowRequests DEF PollCancellation, HandleCancellationCheck, TypeOK
<1>3. CASE ReportFinish(w)
  <2>1. PICK row : Set(workers[w].job, row) /\
          row \in {UpdateStatus(jobs[workers[w].job], workers[w].outcome),
                   SetCompleted(jobs[workers[w].job]),
                   SetResult(jobs[workers[w].job], "worker"), jobs[workers[w].job]}
    BY <1>3 DEF ReportFinish, FinishStatement, Finishing
  <2>2. workers[w].outcome \in Status /\ workers[w].job \in Jobs
    BY <1>3 DEF ReportFinish, TypeOK, WorkerState, Finishing, Status
  <2>3. QED
    BY <2>1, <2>2, SetKeepsRequests, RowRequests DEF TypeOK, Result
<1>4. QED
  BY <1>1, <1>2, <1>3 DEF WorkerStep

(* A request to cancel an attempt that runs stays until that attempt sees  *)
(* it: no other worker starts the job meanwhile.                           *)
THEOREM RequestsHeard == ASSUME LiveWorkersTrusted PROVE Spec => RequestReachesWorker
<1> DEFINE Heard == \A w \in Workers :
                workers[w].pc = "run" /\ jobs[workers[w].job].cancelRequested =>
                    jobs'[workers[w].job].cancelRequested
<1>1. TypeOK /\ ExecInv /\ [Next]_vars => Heard
  <2> SUFFICES ASSUME TypeOK, ExecInv, [Next]_vars, NEW w \in Workers,
                      workers[w].pc = "run", jobs[workers[w].job].cancelRequested
               PROVE  jobs'[workers[w].job].cancelRequested
    OBVIOUS
  <2>1. PICK k \in Jobs : k = workers[w].job /\ Held(w, k)
    BY DEF TypeOK, Held
  <2>2. CASE KeepsRequests
    BY <2>1, <2>2 DEF KeepsRequests, KeepsRequest
  <2>3. ASSUME NEW h \in Handlers, NEW j \in Jobs, NEW i \in Jobs,
               ExecuteAutomation(h, j) \/ RetryJob(h, j, i) \/ RunSchedule(h, j)
        PROVE  jobs'[workers[w].job].cancelRequested
    <3>1. jobs[j].status = "absent" /\ Set(j, Create)
      BY <2>3 DEF ExecuteAutomation, RetryJob, RunSchedule, InsertJob
    <3>2. j # k
      BY <2>1, <3>1 DEF ExecInv, OneToken, Unheld
    <3>3. QED
      BY <2>1, <3>1, <3>2 DEF Set, TypeOK
  <2>4. ASSUME NEW v \in Workers, ReportStart(v)
        PROVE  jobs'[workers[w].job].cancelRequested
    <3>1. PICK j \in Jobs : j = workers[v].job /\ Held(v, j) /\ v # w
      BY <2>4 DEF ReportStart, TypeOK, Held
    <3>2. j # k
      BY <2>1, <3>1 DEF ExecInv, OneToken
    <3>3. QED
      BY <2>1, <2>4, <3>1, <3>2 DEF ReportStart, HandleJobStart, Set, TypeOK
  <2>5. CASE UNCHANGED vars
    BY <2>2, <2>5, SameRequests DEF vars
  <2>6. QED
    BY <2>2, <2>3, <2>4, <2>5, BackendRequests, WorkerRequests DEF Next
<1>2. QED
  BY TypeCorrect, ExecInvariant, <1>1, PTL DEF Spec, RequestReachesWorker

-----------------------------------------------------------------------------
(* The statuses.  Whoever is about to write a status knows the one the row *)
(* has: a submission works on a pending job, and the worker that starts or *)
(* reports a job on one that has not ended.                                *)

HandlerAgrees(h) ==
    handlers[h].pc # "idle" => jobs[handlers[h].job].status = "pending"

WorkerAgrees(w) ==
    /\ workers[w].pc = "start" =>
         jobs[workers[w].job].status \in {"pending", "running"}
    /\ workers[w].pc = "run" => jobs[workers[w].job].status = "running"
    /\ workers[w].pc = "finishStatus" =>
         \/ jobs[workers[w].job].status = "running"
         \/ /\ jobs[workers[w].job].status = "pending"
            /\ workers[w].outcome = "failed"

Agrees == (\A h \in Handlers : HandlerAgrees(h)) /\ (\A w \in Workers : WorkerAgrees(w))

StatusOf == [j \in Jobs |-> jobs[j].status]

(* What makes a report be repeated after the job has ended, or be made of  *)
(* a job that has: the call fails or goes unanswered, or the backend goes  *)
(* away under it.                                                          *)
ReportsArrive == FaultKinds \cap {"status", "finish", "backend"} = {}

OnlyRunningCancelled == CancelFrom \subseteq {"running"}

SameStatus == \A j \in Jobs : jobs'[j].status = jobs[j].status

LEMMA StatusSet ==
    ASSUME TypeOK, NEW j \in Jobs, NEW row, Set(j, row)
    PROVE  /\ jobs'[j] = row
           /\ \A i \in Jobs \ {j} : jobs'[i] = jobs[i]
           /\ StatusOf' = [StatusOf EXCEPT ![j] = row.status]
           /\ row.status = jobs[j].status => SameStatus
<1>1. \A i \in Jobs : jobs'[i] = IF i = j THEN row ELSE jobs[i]
  BY DEF Set, TypeOK
<1>2. QED
  BY <1>1 DEF StatusOf, SameStatus

LEMMA StatusStutters == SameStatus => UNCHANGED StatusOf
  BY DEF SameStatus, StatusOf

LEMMA SameRowsStatus == jobs' = jobs => SameStatus
  BY DEF SameStatus

LEMMA QuietAgrees ==
    ASSUME TypeOK, Agrees, SameStatus,
           \A h \in Handlers : handlers'[h].pc # "idle" =>
               handlers[h].pc # "idle" /\ handlers'[h].job = handlers[h].job,
           \A w \in Workers : \/ workers'[w] = workers[w]
                              \/ workers'[w].pc \notin {"start", "run", "finishStatus"}
    PROVE  Agrees'
<1>1. ASSUME NEW h \in Handlers PROVE HandlerAgrees(h)'
  <2>1. handlers[h].pc # "idle" => handlers[h].job \in Jobs
    BY DEF TypeOK
  <2>2. QED
    BY <2>1 DEF Agrees, HandlerAgrees, SameStatus
<1>2. ASSUME NEW w \in Workers PROVE WorkerAgrees(w)'
  <2>1. workers[w].pc # "idle" => workers[w].job \in Jobs
    BY DEF TypeOK
  <2>2. CASE workers'[w] = workers[w]
    BY <2>1, <2>2 DEF Agrees, WorkerAgrees, SameStatus
  <2>3. CASE workers'[w].pc \notin {"start", "run", "finishStatus"}
    BY <2>3 DEF WorkerAgrees
  <2>4. QED
    BY <2>2, <2>3
<1>3. QED
  BY <1>1, <1>2 DEF Agrees

(* A worker that changes the status of its job disturbs nobody: no other   *)
(* worker holds the job and nobody is submitting it.                       *)
LEMMA OwnJobAgrees ==
    ASSUME TypeOK, OneToken, Agrees, NEW w \in Workers, workers[w].pc # "idle",
           \A i \in Jobs \ {workers[w].job} : jobs'[i] = jobs[i],
           \A v \in Workers \ {w} : workers'[v] = workers[v],
           handlers' = handlers, WorkerAgrees(w)'
    PROVE  Agrees'
<1>1. workers[w].job \in Jobs /\ Held(w, workers[w].job)
  BY DEF TypeOK, Held
<1>2. ASSUME NEW h \in Handlers PROVE HandlerAgrees(h)'
  <2>1. handlers[h].pc # "idle" => handlers[h].job \in Jobs \ {workers[w].job}
    BY <1>1 DEF TypeOK, OneToken, Submits, Unheld
  <2>2. QED
    BY <2>1 DEF Agrees, HandlerAgrees
<1>3. ASSUME NEW v \in Workers \ {w} PROVE WorkerAgrees(v)'
  <2>1. workers[v].pc # "idle" => workers[v].job \in Jobs \ {workers[w].job}
    BY <1>1 DEF TypeOK, OneToken, Held
  <2>2. QED
    BY <2>1 DEF Agrees, WorkerAgrees
<1>4. QED
  BY <1>2, <1>3 DEF Agrees

LEMMA HandlerContract ==
    ASSUME TypeOK, BudgetInv, ExecInv, Agrees, NEW h \in Handlers
    PROVE  /\ \A j \in Jobs, o \in Origins :
                InsertJob(h, j, o) => Agrees' /\ [Contract!Next]_StatusOf
           /\ HandlerStep(h) => Agrees' /\ [Contract!Next]_StatusOf
<1>1. ASSUME NEW j \in Jobs, NEW o \in Origins, InsertJob(h, j, o)
      PROVE  Agrees' /\ [Contract!Next]_StatusOf
  <2>1. /\ Set(j, Create) /\ jobs[j].status = "absent" /\ workers' = workers
        /\ \A g \in Handlers : handlers'[g] =
             IF g = h THEN [pc |-> "publish", job |-> j, origin |-> o] ELSE handlers[g]
    BY <1>1 DEF InsertJob, TypeOK
  <2>2. Create.status = "pending"
    BY DEF Create, NoRow
  <2>3. /\ jobs'[j].status = "pending"
        /\ \A i \in Jobs \ {j} : jobs'[i] = jobs[i]
        /\ StatusOf' = [StatusOf EXCEPT ![j] = "pending"]
    BY <2>1, <2>2, StatusSet
  <2>4. Contract!Accept(j)
    BY <2>1, <2>3 DEF Contract!Accept, Contract!Move, StatusOf
  <2>5. ASSUME NEW g \in Handlers PROVE HandlerAgrees(g)'
    <3>1. g # h /\ handlers[g].pc # "idle" => handlers[g].job \in Jobs \ {j}
      BY <2>1 DEF TypeOK, Agrees, HandlerAgrees
    <3>2. QED
      BY <2>1, <2>3, <3>1 DEF Agrees, HandlerAgrees
  <2>6. ASSUME NEW w \in Workers PROVE WorkerAgrees(w)'
    <3>1. workers[w].pc # "idle" => workers[w].job \in Jobs \ {j}
      BY <2>1 DEF TypeOK, ExecInv, OneToken, Unheld, Held
    <3>2. QED
      BY <2>1, <2>3, <3>1 DEF Agrees, WorkerAgrees
  <2>7. Agrees'
    BY <2>5, <2>6 DEF Agrees
  <2>8. QED
    BY <2>4, <2>7 DEF Contract!Next, StatusOf
<1>2. ASSUME NEW o, NEW next, Publish(h, o, next),
             next.job = handlers[h].job \/ next.pc = "idle"
      PROVE  Agrees' /\ [Contract!Next]_StatusOf
  <2>1. PICK result \in PublishResults :
          handlers' = [handlers EXCEPT
                         ![h] = IF result = "error" THEN next ELSE IdleHandler]
    BY <1>2 DEF Publish
  <2>2. handlers[h].pc = "publish" /\ UNCHANGED <<jobs, workers>>
    BY <1>2 DEF Publish
  <2>3. \A g \in Handlers : handlers'[g].pc # "idle" =>
           handlers[g].pc # "idle" /\ handlers'[g].job = handlers[g].job
    BY <1>2, <2>1, <2>2 DEF TypeOK, IdleHandler
  <2>4. Agrees'
    BY <2>2, <2>3, SameRowsStatus, QuietAgrees
  <2>5. QED
    BY <2>2, <2>4, SameRowsStatus, StatusStutters
<1>3. ASSUME CompensateResult(h) PROVE Agrees' /\ [Contract!Next]_StatusOf
  <2>1. PICK j \in Jobs : j = handlers[h].job
    BY <1>3 DEF CompensateResult, TypeOK
  <2>2. PICK row \in {SetResult(jobs[j], "error"), jobs[j]} : Set(j, row)
    BY <1>3, <2>1 DEF CompensateResult
  <2>3. SetResult(jobs[j], "error").status = jobs[j].status
    BY DEF SetResult, TypeOK, Row
  <2>4. SameStatus
    BY <2>2, <2>3, StatusSet
  <2>5. /\ workers' = workers
        /\ \A g \in Handlers : handlers'[g].pc # "idle" =>
             handlers[g].pc # "idle" /\ handlers'[g].job = handlers[g].job
    BY <1>3 DEF CompensateResult, TypeOK, HandlerState
  <2>6. Agrees'
    BY <2>4, <2>5, QuietAgrees
  <2>7. QED
    BY <2>4, <2>6, StatusStutters
<1>4. ASSUME CompensateStatus(h) PROVE Agrees' /\ [Contract!Next]_StatusOf
  <2>1. PICK j \in Jobs : j = handlers[h].job /\ Submits(h, j)
    BY <1>4 DEF CompensateStatus, TypeOK, Submits
  <2>2. PICK row \in {UpdateStatus(jobs[j], "failed"), jobs[j]} : Set(j, row)
    BY <1>4, <2>1 DEF CompensateStatus
  <2>3. jobs[j].status = "pending" /\ row.status \in {"failed", "pending"}
    BY <2>1, <2>2 DEF Agrees, HandlerAgrees, Submits, UpdateStatus, TypeOK, Row
  <2>4. /\ \A i \in Jobs \ {j} : jobs'[i] = jobs[i]
        /\ StatusOf' = [StatusOf EXCEPT ![j] = row.status]
    BY <2>2, StatusSet
  <2>5. [Contract!Next]_StatusOf
    <3>1. CASE row.status = "failed"
      <4>1. Contract!Refuse(j)
        BY <2>3, <2>4, <3>1 DEF Contract!Refuse, Contract!Move, StatusOf
      <4>2. QED
        BY <4>1 DEF Contract!Next, StatusOf
    <3>2. CASE row.status = "pending"
      BY <2>2, <2>3, <3>2, StatusSet, StatusStutters
    <3>3. QED
      BY <2>3, <3>1, <3>2
  <2>6. workers' = workers /\ \A g \in Handlers : handlers'[g] =
          IF g = h THEN IdleHandler ELSE handlers[g]
    BY <1>4 DEF CompensateStatus, TypeOK
  <2>7. ASSUME NEW g \in Handlers PROVE HandlerAgrees(g)'
    <3>1. g # h /\ handlers[g].pc # "idle" => handlers[g].job \in Jobs \ {j}
      BY <2>1 DEF TypeOK, BudgetInv, OneHandlerPerJob, Submits
    <3>2. QED
      BY <2>4, <2>6, <3>1 DEF Agrees, HandlerAgrees, IdleHandler
  <2>8. ASSUME NEW w \in Workers PROVE WorkerAgrees(w)'
    <3>1. workers[w].pc # "idle" => workers[w].job \in Jobs \ {j}
      BY <2>1 DEF TypeOK, ExecInv, OneToken, Unheld, Held
    <3>2. QED
      BY <2>4, <2>6, <3>1 DEF Agrees, WorkerAgrees
  <2>9. Agrees'
    BY <2>7, <2>8 DEF Agrees
  <2>10. QED
    BY <2>5, <2>9
<1>5. [handlers[h] EXCEPT !.pc = "failResult"].job = handlers[h].job
  BY DEF TypeOK, HandlerState
<1>6. IdleHandler.pc = "idle"
  BY DEF IdleHandler
<1>7. QED
  BY <1>1, <1>2, <1>3, <1>4, <1>5, <1>6
     DEF HandlerStep, PublishExecuted, PublishRetried, PublishScheduled

LEMMA WorkerContract ==
    ASSUME TypeOK, ExecInv, Agrees, ReportsArrive, NEW w \in Workers
    PROVE  WorkerStep(w) \/ WorkerCrash(w) => Agrees' /\ [Contract!Next]_StatusOf
<1> DEFINE worker == workers[w]
           Kept == Agrees' /\ [Contract!Next]_StatusOf
<1>1. /\ worker \in WorkerState
      /\ worker.pc # "idle" => worker.job \in Jobs /\ jobs[worker.job] \in Row
  BY DEF TypeOK
<1>2. WorkerAgrees(w) /\ OneToken
  BY DEF Agrees, ExecInv
<1>3. ASSUME SameStatus, handlers' = handlers,
             \A v \in Workers \ {w} : workers'[v] = workers[v],
             workers'[w].pc \notin {"start", "run", "finishStatus"}
      PROVE  Kept
  BY <1>3, QuietAgrees, StatusStutters
<1>4. ASSUME NEW answer, NEW next, Resume(w, answer, next)
      PROVE  /\ workers'[w] = IF answer = "ok" THEN next ELSE Raise(worker)
             /\ \A v \in Workers \ {w} : workers'[v] = workers[v]
  BY <1>4 DEF Resume, TypeOK
(* A step that keeps the status, or changes it as the contract says. *)
<1>5. ASSUME worker.pc # "idle", handlers' = handlers,
             \A v \in Workers \ {w} : workers'[v] = workers[v],
             NEW row, Set(worker.job, row), WorkerAgrees(w)',
             \/ row.status = jobs[worker.job].status
             \/ /\ jobs[worker.job].status = "pending"
                /\ row.status \in {"running", "failed"}
             \/ /\ jobs[worker.job].status = "running"
                /\ row.status \in Terminal
      PROVE  Kept
  <2> PICK j \in Jobs : j = worker.job
    BY <1>1, <1>5
  <2>1. /\ \A i \in Jobs \ {j} : jobs'[i] = jobs[i]
        /\ StatusOf' = [StatusOf EXCEPT ![j] = row.status]
    BY <1>5, StatusSet
  <2>2. Agrees'
    BY <1>2, <1>5, <2>1, OwnJobAgrees
  <2>3. [Contract!Next]_StatusOf
    <3>1. CASE row.status = jobs[j].status
      BY <1>5, <2>1, <3>1, StatusSet, StatusStutters
    <3>2. CASE jobs[j].status = "pending" /\ row.status = "running"
      <4>1. Contract!Start(j)
        BY <2>1, <3>2 DEF Contract!Start, Contract!Move, StatusOf
      <4>2. QED
        BY <2>1, <4>1 DEF Contract!Next, StatusOf
    <3>3. CASE jobs[j].status = "pending" /\ row.status = "failed"
      <4>1. Contract!Refuse(j)
        BY <2>1, <3>3 DEF Contract!Refuse, Contract!Move, StatusOf
      <4>2. QED
        BY <2>1, <4>1 DEF Contract!Next, StatusOf
    <3>4. CASE jobs[j].status = "running" /\ row.status \in Terminal
      <4>1. Contract!Finish(j, row.status)
        BY <2>1, <3>4
           DEF Contract!Finish, Contract!Move, Contract!Final, Terminal, StatusOf
      <4>2. row.status \in Contract!Final
        BY <3>4 DEF Contract!Final, Terminal
      <4>3. QED
        BY <2>1, <4>1, <4>2 DEF Contract!Next, StatusOf
    <3>5. QED
      BY <1>5, <3>1, <3>2, <3>3, <3>4
  <2>4. QED
    BY <2>2, <2>3
<1>6. /\ Raise(worker).job = worker.job
      /\ \/ Raise(worker).pc = "ack"
         \/ Raise(worker).pc = "finishStatus" /\ Raise(worker).outcome = "failed"
  BY <1>1 DEF Raise, WorkerState
<1>7. ASSUME NEW j \in Jobs, Consume(w, j) PROVE Kept
  <2>1. /\ jobs' = jobs /\ handlers' = handlers /\ workers'[w].pc = "status"
        /\ \A v \in Workers \ {w} : workers'[v] = workers[v]
    BY <1>7 DEF Consume, TypeOK
  <2>2. QED
    BY <1>3, <2>1, SameRowsStatus
<1>8. ASSUME CheckStatus(w) PROVE Kept
  <2> DEFINE next == [worker EXCEPT !.pc = IF HandleJobStatus(worker.job)
                                           THEN "ack" ELSE "start"]
  <2>1. PICK answer \in Answers("status") : Resume(w, answer, next)
    BY <1>8 DEF CheckStatus
  <2>2. answer = "ok"
    BY DEF Answers, May, ReportsArrive
  <2>3. worker.pc # "idle" /\ jobs' = jobs /\ handlers' = handlers
    BY <1>8 DEF CheckStatus
  <2>4. jobs[worker.job].status # "absent"
    BY <1>1, <1>2, <2>3 DEF OneToken, Unheld, Held
  <2>5. /\ workers'[w] = next
        /\ \A v \in Workers \ {w} : workers'[v] = workers[v]
    BY <1>4, <2>1, <2>2
  <2>6. /\ next.job = worker.job
        /\ next.pc = IF HandleJobStatus(worker.job) THEN "ack" ELSE "start"
    BY <1>1 DEF WorkerState
  <2>7. CASE HandleJobStatus(worker.job)
    BY <1>3, <2>3, <2>5, <2>6, <2>7, SameRowsStatus
  <2>8. CASE ~HandleJobStatus(worker.job)
    <3>1. jobs[worker.job].status \in {"pending", "running"}
      BY <1>1, <2>3, <2>4, <2>8 DEF HandleJobStatus, Row, Status
    <3>2. WorkerAgrees(w)'
      BY <2>3, <2>5, <2>6, <2>8, <3>1 DEF WorkerAgrees
    <3>3. Agrees'
      BY <1>2, <2>3, <2>5, <3>2, OwnJobAgrees
    <3>4. QED
      BY <2>3, <3>3, SameRowsStatus, StatusStutters
  <2>9. QED
    BY <2>7, <2>8
<1>9. ASSUME ReportStart(w) PROVE Kept
  <2>1. PICK answer \in Answers("start") :
          /\ HandleJobStart(worker.job, answer)
          /\ Resume(w, answer, [worker EXCEPT !.pc = "run"])
    BY <1>9 DEF ReportStart
  <2>2. worker.pc = "start" /\ handlers' = handlers
    BY <1>9 DEF ReportStart
  <2> DEFINE row == IF Applied(answer) THEN SetStarted(jobs[worker.job])
                                       ELSE jobs[worker.job]
  <2>3. Set(worker.job, row)
    BY <2>1 DEF HandleJobStart
  <2>4. SetStarted(jobs[worker.job]).status = "running"
    BY <1>1, <2>2 DEF SetStarted, Row
  <2>5. jobs[worker.job].status \in {"pending", "running"}
    BY <1>2, <2>2 DEF WorkerAgrees
  <2>6. /\ workers'[w] = IF answer = "ok" THEN [worker EXCEPT !.pc = "run"] ELSE Raise(worker)
        /\ \A v \in Workers \ {w} : workers'[v] = workers[v]
    BY <1>4, <2>1
  <2>7. workers'[w].job = worker.job /\ jobs'[worker.job] = row
    BY <1>1, <1>6, <2>2, <2>3, <2>6, StatusSet DEF WorkerState
  <2>8. WorkerAgrees(w)'
    <3>1. CASE answer = "ok"
      <4>1. workers'[w].pc = "run" /\ row.status = "running"
        BY <1>1, <2>4, <2>6, <3>1 DEF WorkerState, Applied
      <4>2. QED
        BY <2>7, <4>1 DEF WorkerAgrees
    <3>2. CASE answer # "ok"
      <4>1. row.status \in {"pending", "running"}
        BY <2>4, <2>5
      <4>2. QED
        BY <1>6, <2>6, <2>7, <3>2, <4>1 DEF WorkerAgrees
    <3>3. QED
      BY <3>1, <3>2
  <2>9. QED
    BY <1>5, <2>2, <2>3, <2>4, <2>5, <2>6, <2>8
<1>10. ASSUME PollCancellation(w) PROVE Kept
  <2> DEFINE next == IF jobs[worker.job].cancelRequested
                     THEN [worker EXCEPT !.pc = "finishStatus", !.outcome = "canceled"]
                     ELSE worker
  <2>1. PICK answer \in Answers("poll") :
          HandleCancellationCheck(worker.job, answer) /\ Resume(w, answer, next)
    BY <1>10 DEF PollCancellation
  <2>2. worker.pc = "run" /\ handlers' = handlers
    BY <1>10 DEF PollCancellation
  <2>3. PICK row \in {UpdateHeartbeat(jobs[worker.job]), jobs[worker.job]} :
          Set(worker.job, row)
    BY <2>1 DEF HandleCancellationCheck
  <2>4. row.status = jobs[worker.job].status
    BY <1>1, <2>2 DEF UpdateHeartbeat, Row
  <2>5. jobs[worker.job].status = "running"
    BY <1>2, <2>2 DEF WorkerAgrees
  <2>6. next.job = worker.job /\ next.pc \in {"run", "finishStatus"}
    BY <1>1, <2>2 DEF WorkerState
  <2>7. /\ workers'[w] = IF answer = "ok" THEN next ELSE Raise(worker)
        /\ \A v \in Workers \ {w} : workers'[v] = workers[v]
    BY <1>4, <2>1
  <2>8. workers'[w].job = worker.job /\ jobs'[worker.job] = row
    BY <1>1, <1>6, <2>2, <2>3, <2>6, <2>7, StatusSet
  <2>9. WorkerAgrees(w)'
    BY <2>4, <2>5, <2>8 DEF WorkerAgrees
  <2>10. QED
    BY <1>5, <2>2, <2>3, <2>4, <2>7, <2>9
<1>11. ASSUME EndExecution(w) PROVE Kept
  <2>1. /\ worker.pc = "run" /\ handlers' = handlers /\ jobs' = jobs
        /\ workers'[w].job = worker.job
        /\ \A v \in Workers \ {w} : workers'[v] = workers[v]
    BY <1>11 DEF EndExecution, TypeOK, WorkerState
  <2>2. WorkerAgrees(w)'
    BY <1>2, <2>1 DEF WorkerAgrees
  <2>3. Agrees'
    BY <1>2, <2>1, <2>2, OwnJobAgrees
  <2>4. QED
    BY <2>1, <2>3, SameRowsStatus, StatusStutters
<1>12. ASSUME ReportFinish(w) PROVE Kept
  <2> DEFINE next == [worker EXCEPT !.pc = AfterPart(worker.pc, worker.outcome)]
  <2>1. PICK answer \in Answers("finish") :
          /\ Set(worker.job, IF Applied(answer)
                             THEN FinishStatement(worker.job, worker.pc, worker.outcome)
                             ELSE jobs[worker.job])
          /\ Resume(w, answer, next)
    BY <1>12 DEF ReportFinish
  <2>2. answer = "ok"
    BY DEF Answers, May, ReportsArrive
  <2>3. Set(worker.job, FinishStatement(worker.job, worker.pc, worker.outcome))
    BY <2>1, <2>2 DEF Applied
  <2>4. /\ worker.pc \in Finishing /\ worker.outcome \in Terminal
        /\ handlers' = handlers
    BY <1>1, <1>12 DEF ReportFinish, TypeOK, WorkerState
  <2>5. AfterPart(worker.pc, worker.outcome) \in {"finishCompleted", "finishResult", "ack"}
    BY <2>4 DEF AfterPart, Finishing
  <2>6. /\ workers'[w].pc \in {"finishCompleted", "finishResult", "ack"}
        /\ \A v \in Workers \ {w} : workers'[v] = workers[v]
    BY <1>1, <1>4, <2>1, <2>2, <2>5 DEF WorkerState
  <2>7. WorkerAgrees(w)'
    BY <2>6 DEF WorkerAgrees
  <2>8. CASE worker.pc = "finishStatus"
    <3>1. Set(worker.job, UpdateStatus(jobs[worker.job], worker.outcome))
      BY <2>3, <2>8 DEF FinishStatement
    <3>2. UpdateStatus(jobs[worker.job], worker.outcome).status = worker.outcome
      BY <1>1, <2>4 DEF UpdateStatus, Row, Finishing
    <3>3. \/ jobs[worker.job].status = "running"
          \/ jobs[worker.job].status = "pending" /\ worker.outcome = "failed"
      BY <1>2, <2>8 DEF WorkerAgrees
    <3>4. QED
      BY <1>5, <2>4, <2>6, <2>7, <2>8, <3>1, <3>2, <3>3
  <2>9. CASE worker.pc # "finishStatus"
    <3>1. PICK row \in {SetCompleted(jobs[worker.job]),
                        SetResult(jobs[worker.job], "worker")} : Set(worker.job, row)
      BY <2>3, <2>4, <2>9 DEF FinishStatement, Finishing
    <3>2. row.status = jobs[worker.job].status
      BY <1>1, <2>4 DEF SetCompleted, SetResult, Row, Finishing
    <3>3. QED
      BY <1>5, <2>4, <2>6, <2>7, <3>1, <3>2 DEF Finishing
  <2>10. QED
    BY <2>8, <2>9
<1>13. ASSUME Ack(w) \/ WorkerCrash(w) PROVE Kept
  <2>1. /\ jobs' = jobs /\ handlers' = handlers
        /\ workers' = [workers EXCEPT ![w] = IdleWorker]
    BY <1>13 DEF Ack, WorkerCrash
  <2>2. /\ workers'[w].pc = "idle"
        /\ \A v \in Workers \ {w} : workers'[v] = workers[v]
    BY <2>1 DEF TypeOK, IdleWorker
  <2>3. QED
    BY <1>3, <2>1, <2>2, SameRowsStatus
<1>14. QED
  BY <1>7, <1>8, <1>9, <1>10, <1>11, <1>12, <1>13 DEF WorkerStep

LEMMA UserContract ==
    ASSUME TypeOK, Agrees, OnlyRunningCancelled, NEW j \in Jobs, CancelJob(j)
    PROVE  Agrees' /\ [Contract!Next]_StatusOf
<1>1. /\ jobs[j].status = "running" /\ Set(j, RequestCancellation(jobs[j]))
      /\ UNCHANGED <<handlers, workers>>
  BY DEF CancelJob, OnlyRunningCancelled
<1>2. RequestCancellation(jobs[j]).status = jobs[j].status
  BY <1>1 DEF RequestCancellation, TypeOK, Row
<1>3. SameStatus
  BY <1>1, <1>2, StatusSet
<1>4. Agrees'
  BY <1>1, <1>3, QuietAgrees
<1>5. QED
  BY <1>3, <1>4, StatusStutters

-----------------------------------------------------------------------------
(* Where reports arrive the retry worker finds nothing either: a running   *)
(* job has its message in the queue or a worker that has not ended it.     *)

Tending == {"status", "start", "run", "finishStatus"}

Tended(j) == \/ queue[j] = 1
             \/ \E w \in Workers : Held(w, j) /\ workers[w].pc \in Tending

CalmWorker(w) ==
    /\ workers[w].pc # "idle" => workers[w].owns
    /\ workers[w].pc \in {"status", "start", "run"} => workers[w].outcome = "none"

CalmInv == /\ retry.pc = "idle"
           /\ \A j \in Jobs : ~IsStuck(jobs[j])
           /\ \A j \in Jobs : jobs[j].status = "running" => Tended(j)
           /\ \A w \in Workers : CalmWorker(w)

LEMMA InitCalm == Init => CalmInv
  BY DEF Init, CalmInv, CalmWorker, IsStuck, NoRow, IdleRetry, IdleWorker

LEMMA RetryIdle == ASSUME CalmInv PROVE ~RetryStep
<1>1. StuckJobs = {}
  BY DEF CalmInv, StuckJobs
<1>2. QED
  BY <1>1 DEF RetryStep, CalmInv, GetStuckJobs, TakeStuckJob, IncrementRetries,
     ResetToPending, Republish, RecordFailure, MarkFailed, RetryStatement

LEMMA QuietCalm ==
    ASSUME CalmInv, UNCHANGED <<workers, retry>>,
           \A j \in Jobs : queue'[j] = queue[j] \/ queue'[j] = 1,
           \A j \in Jobs : /\ IsStuck(jobs'[j]) => IsStuck(jobs[j])
                           /\ jobs'[j].status = "running" => jobs[j].status = "running"
    PROVE  CalmInv'
  BY DEF CalmInv, CalmWorker, Tended, Held

LEMMA HandlerCalm ==
    ASSUME TypeOK, BudgetInv, ExecInv, CalmInv, NEW h \in Handlers
    PROVE  /\ \A j \in Jobs, o \in Origins : InsertJob(h, j, o) => CalmInv'
           /\ HandlerStep(h) => CalmInv'
<1>1. ASSUME NEW j \in Jobs, NEW o \in Origins, InsertJob(h, j, o) PROVE CalmInv'
  <2>1. /\ \A i \in Jobs : jobs'[i] = IF i = j THEN Create ELSE jobs[i]
        /\ UNCHANGED <<queue, workers, retry>>
    BY <1>1 DEF InsertJob, Set, TypeOK
  <2>2. Create.status = "pending" /\ ~IsStuck(Create)
    BY DEF Create, NoRow, IsStuck
  <2>3. QED
    BY <2>1, <2>2, QuietCalm
<1>2. ASSUME NEW o, NEW next, Publish(h, o, next) PROVE CalmInv'
  <2>1. PICK result \in PublishResults : PublishJob(handlers[h].job, result)
    BY <1>2 DEF Publish
  <2>2. handlers[h].pc = "publish" /\ UNCHANGED <<jobs, workers, retry>>
    BY <1>2 DEF Publish
  <2>3. PICK j \in Jobs : j = handlers[h].job /\ Submits(h, j)
    BY <2>2 DEF TypeOK, Submits
  <2>4. queue[j] = 0
    BY <2>3 DEF ExecInv, OneToken
  <2>5. \A i \in Jobs : queue'[i] = queue[i] \/ queue'[i] = 1
    BY <2>1, <2>3, <2>4 DEF PublishJob, TypeOK
  <2>6. QED
    BY <2>2, <2>5, QuietCalm
<1>3. ASSUME CompensateResult(h) \/ CompensateStatus(h) PROVE CalmInv'
  <2>1. PICK j \in Jobs : j = handlers[h].job
    BY <1>3 DEF CompensateResult, CompensateStatus, TypeOK
  <2>2. PICK row \in {SetResult(jobs[j], "error"), UpdateStatus(jobs[j], "failed"), jobs[j]} :
          Set(j, row)
    BY <1>3, <2>1 DEF CompensateResult, CompensateStatus
  <2>3. StaysOff(row, jobs[j])
    BY RowAlive DEF TypeOK, Result, Status, Terminal
  <2>4. UNCHANGED <<queue, workers, retry>>
    BY <1>3 DEF CompensateResult, CompensateStatus
  <2>5. QED
    BY <2>2, <2>3, <2>4, SetAlive, QuietCalm DEF StaysOff
<1>4. QED
  BY <1>1, <1>2, <1>3
     DEF HandlerStep, PublishExecuted, PublishRetried, PublishScheduled

LEMMA WorkerCalm ==
    ASSUME TypeOK, ExecInv, CalmInv, ReportsArrive, NEW w \in Workers
    PROVE  WorkerStep(w) \/ WorkerCrash(w) => CalmInv'
<1> DEFINE worker == workers[w]
<1>1. /\ worker \in WorkerState /\ CalmWorker(w)
      /\ worker.pc # "idle" => worker.job \in Jobs /\ jobs[worker.job] \in Row
  BY DEF TypeOK, CalmInv
(* A step of a worker on the job it holds disturbs nobody else's. *)
<1>2. ASSUME worker.pc # "idle", UNCHANGED <<queue, retry>>,
             \A v \in Workers \ {w} : workers'[v] = workers[v],
             jobs' = jobs \/ \E row : /\ Set(worker.job, row)
                                      /\ StaysAlive(row, jobs[worker.job]),
             CalmWorker(w)',
             jobs'[worker.job].status = "running" =>
               (workers'[w].job = worker.job /\ workers'[w].pc \in Tending)
      PROVE  CalmInv'
  <2>1. /\ worker.job \in Jobs
        /\ \A j \in Jobs : /\ IsStuck(jobs'[j]) => IsStuck(jobs[j])
                           /\ j # worker.job => jobs'[j] = jobs[j]
    BY <1>1, <1>2, SetAlive
  <2>2. \A v \in Workers : CalmWorker(v)'
    BY <1>2 DEF CalmInv, CalmWorker
  <2>3. ASSUME NEW j \in Jobs, jobs'[j].status = "running" PROVE Tended(j)'
    <3>1. CASE j = worker.job
      BY <1>2, <2>3, <3>1 DEF Tended, Held, Tending
    <3>2. CASE j # worker.job
      <4>1. Tended(j)
        BY <2>1, <2>3, <3>2 DEF CalmInv
      <4>2. QED
        BY <1>2, <3>2, <4>1 DEF Tended, Held
    <3>3. QED
      BY <3>1, <3>2
  <2>4. QED
    BY <1>2, <2>1, <2>2, <2>3 DEF CalmInv
(* A worker that has reported the end has a job that does not run. *)
<1>3. ASSUME worker.pc \notin Tending, worker.pc # "idle"
      PROVE  jobs[worker.job].status # "running"
  <2>1. worker.job \in Jobs /\ Held(w, worker.job)
    BY <1>1, <1>3 DEF Held
  <2>2. ~Tended(worker.job)
    BY <1>3, <2>1 DEF Tended, ExecInv, OneToken, Unheld
  <2>3. QED
    BY <2>1, <2>2 DEF CalmInv
<1>4. ASSUME NEW answer, NEW next, Resume(w, answer, next)
      PROVE  /\ workers'[w] = IF answer = "ok" THEN next ELSE Raise(worker)
             /\ \A v \in Workers \ {w} : workers'[v] = workers[v]
  BY <1>4 DEF Resume, TypeOK
<1>5. ASSUME worker.outcome = "none"
      PROVE  /\ Raise(worker).pc = "finishStatus" /\ Raise(worker).job = worker.job
             /\ Raise(worker).owns = worker.owns
  BY <1>1, <1>5 DEF Raise, WorkerState
<1>6. ASSUME NEW j \in Jobs, Consume(w, j) PROVE CalmInv'
  <2>1. /\ worker.pc = "idle" /\ UNCHANGED <<jobs, retry>>
        /\ \A i \in Jobs \ {j} : queue'[i] = queue[i]
        /\ workers'[w] = [pc |-> "status", job |-> j, owns |-> TRUE, outcome |-> "none"]
        /\ \A v \in Workers \ {w} : workers'[v] = workers[v]
    BY <1>6 DEF Consume, TypeOK
  <2>2. \A v \in Workers : CalmWorker(v)'
    BY <2>1 DEF CalmInv, CalmWorker
  <2>3. Tended(j)'
    BY <2>1 DEF Tended, Held, Tending
  <2>4. \A i \in Jobs \ {j} : Tended(i) => Tended(i)'
    BY <2>1 DEF Tended, Held
  <2>5. QED
    BY <2>1, <2>2, <2>3, <2>4 DEF CalmInv
<1>7. ASSUME CheckStatus(w) PROVE CalmInv'
  <2> DEFINE next == [worker EXCEPT !.pc = IF HandleJobStatus(worker.job)
                                           THEN "ack" ELSE "start"]
  <2>1. PICK answer \in Answers("status") : Resume(w, answer, next)
    BY <1>7 DEF CheckStatus
  <2>2. answer = "ok" /\ worker.pc = "status" /\ UNCHANGED <<jobs, queue, retry>>
    BY <1>7 DEF CheckStatus, Answers, May, ReportsArrive
  <2>3. /\ workers'[w] = next
        /\ \A v \in Workers \ {w} : workers'[v] = workers[v]
    BY <1>4, <2>1, <2>2
  <2>4. /\ next.pc = IF HandleJobStatus(worker.job) THEN "ack" ELSE "start"
        /\ next.job = worker.job /\ next.owns = worker.owns
        /\ next.outcome = worker.outcome
    BY <1>1 DEF WorkerState
  <2>5. jobs[worker.job].status = "running" => next.pc = "start"
    BY <2>4 DEF HandleJobStatus, Terminal
  <2>6. CalmWorker(w)'
    BY <1>1, <2>2, <2>3, <2>4 DEF CalmWorker
  <2>7. QED
    BY <1>2, <2>2, <2>3, <2>4, <2>5, <2>6 DEF Held, Tending
<1>8. ASSUME ReportStart(w) PROVE CalmInv'
  <2> DEFINE next == [worker EXCEPT !.pc = "run"]
  <2>1. PICK answer \in Answers("start") :
          HandleJobStart(worker.job, answer) /\ Resume(w, answer, next)
    BY <1>8 DEF ReportStart
  <2>2. worker.pc = "start" /\ UNCHANGED <<queue, retry>>
    BY <1>8 DEF ReportStart
  <2>3. PICK row \in {SetStarted(jobs[worker.job]), jobs[worker.job]} :
          Set(worker.job, row)
    BY <2>1 DEF HandleJobStart
  <2>4. StaysAlive(row, jobs[worker.job])
    BY <1>1, <2>2, RowAlive DEF StaysOff
  <2>5. /\ next.pc = "run" /\ next.job = worker.job /\ next.owns = worker.owns
        /\ next.outcome = worker.outcome
    BY <1>1 DEF WorkerState
  <2>6. worker.outcome = "none" /\ worker.owns
    BY <1>1, <2>2 DEF CalmWorker
  <2>7. CalmWorker(w)' /\ workers'[w].job = worker.job /\ workers'[w].pc \in Tending
    <3>1. workers'[w] = next \/ workers'[w] = Raise(worker)
      BY <1>4, <2>1
    <3>2. CASE workers'[w] = next
      BY <1>1, <2>2, <2>5, <2>6, <3>2 DEF CalmWorker, Tending
    <3>3. CASE workers'[w] = Raise(worker)
      BY <1>5, <2>6, <3>3 DEF CalmWorker, Tending
    <3>4. QED
      BY <3>1, <3>2, <3>3
  <2>8. QED
    BY <1>2, <1>4, <2>1, <2>2, <2>3, <2>4, <2>7
<1>9. ASSUME PollCancellation(w) PROVE CalmInv'
  <2> DEFINE next == IF jobs[worker.job].cancelRequested
                     THEN [worker EXCEPT !.pc = "finishStatus", !.outcome = "canceled"]
                     ELSE worker
  <2>1. PICK answer \in Answers("poll") :
          HandleCancellationCheck(worker.job, answer) /\ Resume(w, answer, next)
    BY <1>9 DEF PollCancellation
  <2>2. worker.pc = "run" /\ UNCHANGED <<queue, retry>>
    BY <1>9 DEF PollCancellation
  <2>3. PICK row \in {UpdateHeartbeat(jobs[worker.job]), jobs[worker.job]} :
          Set(worker.job, row)
    BY <2>1 DEF HandleCancellationCheck
  <2>4. StaysAlive(row, jobs[worker.job])
    BY <1>1, <2>2, RowAlive DEF StaysOff
  <2>5. /\ next.job = worker.job /\ next.owns = worker.owns
        /\ next.pc = "finishStatus" \/ next = worker
    BY <1>1 DEF WorkerState
  <2>6. worker.outcome = "none" /\ worker.owns
    BY <1>1, <2>2 DEF CalmWorker
  <2>7. CalmWorker(w)' /\ workers'[w].job = worker.job /\ workers'[w].pc \in Tending
    <3>1. workers'[w] = next \/ workers'[w] = Raise(worker)
      BY <1>4, <2>1
    <3>2. CASE workers'[w] = next
      BY <1>1, <2>2, <2>5, <2>6, <3>2 DEF CalmWorker, Tending
    <3>3. CASE workers'[w] = Raise(worker)
      BY <1>5, <2>6, <3>3 DEF CalmWorker, Tending
    <3>4. QED
      BY <3>1, <3>2, <3>3
  <2>8. QED
    BY <1>2, <1>4, <2>1, <2>2, <2>3, <2>4, <2>7
<1>10. ASSUME EndExecution(w) PROVE CalmInv'
  <2>1. /\ worker.pc = "run" /\ UNCHANGED <<jobs, queue, retry>>
        /\ workers'[w].job = worker.job /\ workers'[w].owns = worker.owns
        /\ workers'[w].pc = "finishStatus"
        /\ \A v \in Workers \ {w} : workers'[v] = workers[v]
    BY <1>10 DEF EndExecution, TypeOK, WorkerState
  <2>2. CalmWorker(w)' /\ workers'[w].job = worker.job /\ workers'[w].pc \in Tending
    BY <1>1, <2>1 DEF CalmWorker, Tending
  <2>3. QED
    BY <1>2, <2>1, <2>2
<1>11. ASSUME ReportFinish(w) PROVE CalmInv'
  <2> DEFINE next == [worker EXCEPT !.pc = AfterPart(worker.pc, worker.outcome)]
  <2>1. PICK answer \in Answers("finish") :
          /\ Set(worker.job, IF Applied(answer)
                             THEN FinishStatement(worker.job, worker.pc, worker.outcome)
                             ELSE jobs[worker.job])
          /\ Resume(w, answer, next)
    BY <1>11 DEF ReportFinish
  <2>2. /\ worker.pc \in Finishing /\ worker.outcome \in Terminal /\ worker.owns
        /\ UNCHANGED <<queue, retry>>
    BY <1>1, <1>11 DEF ReportFinish, TypeOK, WorkerState, CalmWorker, Finishing
  <2>3. answer = "ok"
    BY DEF Answers, May, ReportsArrive
  <2> DEFINE row == FinishStatement(worker.job, worker.pc, worker.outcome)
  <2>4. Set(worker.job, row)
    BY <2>1, <2>3 DEF Applied
  <2>5. row \in {UpdateStatus(jobs[worker.job], worker.outcome),
                 SetCompleted(jobs[worker.job]), SetResult(jobs[worker.job], "worker")}
    BY <2>2 DEF FinishStatement, Finishing
  <2>6. StaysOff(row, jobs[worker.job])
    BY <1>1, <2>2, <2>5, RowAlive DEF Terminal, Status, Result, Finishing
  <2>7. row.status # "running"
    <3>1. CASE worker.pc = "finishStatus"
      BY <1>1, <2>2, <3>1 DEF FinishStatement, UpdateStatus, Row, Terminal
    <3>2. CASE worker.pc # "finishStatus"
      BY <1>3, <2>2, <2>6, <3>2 DEF Finishing, Tending, StaysOff
    <3>3. QED
      BY <3>1, <3>2
  <2>8. /\ next.owns = worker.owns
        /\ next.pc \in {"finishCompleted", "finishResult", "ack"}
    BY <1>1, <2>2 DEF WorkerState, AfterPart, Finishing
  <2>9. CalmWorker(w)' /\ \A v \in Workers \ {w} : workers'[v] = workers[v]
    BY <1>4, <2>1, <2>2, <2>3, <2>8 DEF CalmWorker
  <2>10. jobs'[worker.job].status # "running"
    BY <1>1, <2>2, <2>4, <2>6, <2>7, SetAlive DEF StaysOff, Finishing
  <2>11. QED
    BY <1>2, <2>2, <2>4, <2>6, <2>9, <2>10 DEF StaysOff, Finishing
<1>12. ASSUME Ack(w) PROVE CalmInv'
  <2>1. /\ worker.pc = "ack" /\ UNCHANGED <<jobs, queue, retry>>
        /\ workers'[w].pc = "idle"
        /\ \A v \in Workers \ {w} : workers'[v] = workers[v]
    BY <1>12 DEF Ack, TypeOK, IdleWorker
  <2>2. CalmWorker(w)' /\ jobs[worker.job].status # "running"
    BY <1>3, <2>1 DEF CalmWorker, Tending
  <2>3. QED
    BY <1>2, <2>1, <2>2
<1>13. ASSUME WorkerCrash(w) PROVE CalmInv'
  <2>1. PICK j \in Jobs : j = worker.job /\ Held(w, j) /\ worker.owns
    BY <1>1, <1>13 DEF WorkerCrash, Held, CalmWorker
  <2>2. /\ workers'[w].pc = "idle"
        /\ \A v \in Workers \ {w} : workers'[v] = workers[v]
        /\ UNCHANGED <<jobs, retry>>
        /\ Redeliver(w)
    BY <1>13 DEF WorkerCrash, TypeOK, IdleWorker
  <2>3. queue[j] = 0
    BY <2>1 DEF ExecInv, OneToken, Unheld
  <2>4. queue'[j] = 1 /\ \A i \in Jobs \ {j} : queue'[i] = queue[i]
    BY <2>1, <2>2, <2>3 DEF Redeliver, TypeOK
  <2>5. \A v \in Workers : CalmWorker(v)'
    BY <2>2 DEF CalmInv, CalmWorker
  <2>6. \A i \in Jobs : Tended(i) => Tended(i)'
    BY <2>1, <2>2, <2>4 DEF Tended, Held
  <2>7. QED
    BY <2>2, <2>5, <2>6 DEF CalmInv
<1>14. QED
  BY <1>6, <1>7, <1>8, <1>9, <1>10, <1>11, <1>12, <1>13 DEF WorkerStep

(* The faults that are left out, and the heartbeat that never grows old. *)
LEMMA CalmFaults ==
    ASSUME CalmInv, LiveWorkersTrusted, ReportsArrive
    PROVE  /\ ~BackendRestart
           /\ \A j \in Jobs : ~Stall(j) /\ ~FallSilent(j)
           /\ \A w \in Workers : ~LoseChannel(w)
<1>1. ASSUME NEW j \in Jobs, FallSilent(j) PROVE FALSE
  <2>1. ~WorkedOn(j) /\ jobs[j].status = "running" /\ ~(queue[j] > 0)
    BY <1>1 DEF FallSilent, GrowOld, LiveWorkersTrusted
  <2>2. Tended(j)
    BY <2>1 DEF CalmInv
  <2>3. QED
    BY <2>1, <2>2 DEF Tended, Held, WorkedOn
<1>2. QED
  BY <1>1 DEF BackendRestart, Stall, LoseChannel, May, ReportsArrive, LiveWorkersTrusted

LEMMA CalmKept ==
    ASSUME TypeOK, BudgetInv, ExecInv, CalmInv, LiveWorkersTrusted, ReportsArrive,
           [Next]_vars
    PROVE  CalmInv'
<1>1. ASSUME NEW h \in Handlers, NEW j \in Jobs, NEW i \in Jobs,
             ExecuteAutomation(h, j) \/ RetryJob(h, j, i) \/ RunSchedule(h, j)
      PROVE  CalmInv'
  BY <1>1, HandlerCalm DEF ExecuteAutomation, RetryJob, RunSchedule, InsertJob
<1>2. ASSUME NEW h \in Handlers, HandlerStep(h) PROVE CalmInv'
  BY <1>2, HandlerCalm
<1>3. ~RetryStep
  BY RetryIdle
<1>4. ASSUME NEW w \in Workers, WorkerStep(w) \/ WorkerCrash(w) PROVE CalmInv'
  BY <1>4, WorkerCalm
<1>5. ASSUME NEW j \in Jobs, CancelJob(j) PROVE CalmInv'
  <2>1. /\ Set(j, RequestCancellation(jobs[j]))
        /\ UNCHANGED <<queue, workers, retry>>
    BY <1>5 DEF CancelJob
  <2>2. StaysOff(RequestCancellation(jobs[j]), jobs[j])
    BY RowAlive DEF TypeOK
  <2>3. QED
    BY <2>1, <2>2, SetAlive, QuietCalm DEF StaysOff
<1>6. ASSUME UNCHANGED vars PROVE CalmInv'
  BY <1>6, QuietCalm DEF vars
<1>7. QED
  BY <1>1, <1>2, <1>3, <1>4, <1>5, <1>6, CalmFaults DEF Next

LEMMA CalmInvariant ==
    ASSUME LiveWorkersTrusted, ReportsArrive
    PROVE  Spec => []CalmInv
  BY TypeCorrect, BudgetInvariant, ExecInvariant, InitCalm, CalmKept, PTL DEF Spec

(* The statuses of every job follow the workers' contract, where nothing   *)
(* makes the retry worker send a second message, the calls about a job     *)
(* that has ended arrive, and users cancel only what runs.  Each of these  *)
(* is needed; statements, publications, starts and polls may fail, and     *)
(* workers may die.  The retry worker then has nothing to do: CalmInv.     *)
THEOREM ContractKept ==
    ASSUME LiveWorkersTrusted, ReportsArrive, OnlyRunningCancelled
    PROVE  Spec => KeepsContract
<1>1. Init => Contract!Init /\ Agrees
  <2>1. Init => Contract!Init
    BY DEF Init, NoRow, Contract!Init
  <2>2. Init => Agrees
    BY DEF Init, Agrees, HandlerAgrees, WorkerAgrees, IdleHandler, IdleWorker
  <2>3. QED
    BY <2>1, <2>2
<1>2. TypeOK /\ BudgetInv /\ ExecInv /\ CalmInv /\ Agrees /\ [Next]_vars
        => Agrees' /\ [Contract!Next]_StatusOf
  <2> SUFFICES ASSUME TypeOK, BudgetInv, ExecInv, CalmInv, Agrees, [Next]_vars
               PROVE  Agrees' /\ [Contract!Next]_StatusOf
    OBVIOUS
  <2>1. ASSUME NEW h \in Handlers, NEW j \in Jobs, NEW i \in Jobs,
               ExecuteAutomation(h, j) \/ RetryJob(h, j, i) \/ RunSchedule(h, j)
        PROVE  Agrees' /\ [Contract!Next]_StatusOf
    BY <2>1, HandlerContract DEF ExecuteAutomation, RetryJob, RunSchedule, InsertJob
  <2>2. ASSUME NEW h \in Handlers, HandlerStep(h)
        PROVE  Agrees' /\ [Contract!Next]_StatusOf
    BY <2>2, HandlerContract
  <2>3. ~RetryStep
    BY RetryIdle
  <2>4. ASSUME NEW w \in Workers, WorkerStep(w) \/ WorkerCrash(w)
        PROVE  Agrees' /\ [Contract!Next]_StatusOf
    BY <2>4, WorkerContract
  <2>5. ASSUME NEW j \in Jobs, CancelJob(j)
        PROVE  Agrees' /\ [Contract!Next]_StatusOf
    BY <2>5, UserContract
  <2>6. ASSUME UNCHANGED vars PROVE Agrees' /\ [Contract!Next]_StatusOf
    BY <2>6, SameRowsStatus, QuietAgrees, StatusStutters DEF vars
  <2>7. /\ ~BackendRestart
        /\ \A j \in Jobs : ~Stall(j) /\ ~FallSilent(j)
        /\ \A w \in Workers : ~LoseChannel(w)
    BY CalmFaults
  <2>8. QED
    BY <2>1, <2>2, <2>3, <2>4, <2>5, <2>6, <2>7 DEF Next
<1>3. QED
  BY TypeCorrect, BudgetInvariant, ExecInvariant, CalmInvariant, <1>1, <1>2, PTL
     DEF Spec, KeepsContract, Contract!Spec, StatusOf

=============================================================================
