------------------------------ MODULE JobStore ------------------------------
(***************************************************************************)
(* The rows of the table `jobs` and the statements of                      *)
(* internal/repository/job_repository.go on them.  PostgreSQL runs each    *)
(* statement atomically, and none of the callers opens a transaction, so a *)
(* statement is one function from the old row to the new one.              *)
(*                                                                         *)
(* Times are kept only as far as a query tells them apart:                 *)
(* last_heartbeat_at is NULL, recent, or older than the heartbeat timeout; *)
(* completed_at is set or not; the result is absent, the worker's, or an   *)
(* error text written by the backend itself.                               *)
(***************************************************************************)
EXTENDS Naturals

Terminal  == {"completed", "completed_no_invoices", "failed", "canceled"}
Status    == {"absent", "pending", "running"} \cup Terminal
Heartbeat == {"null", "fresh", "stale"}
Result    == {"null", "worker", "error"}

Row == [status: Status, retryCount: Nat, cancelRequested: BOOLEAN,
        heartbeat: Heartbeat, completedAt: BOOLEAN, result: Result]

NoRow == [status |-> "absent", retryCount |-> 0, cancelRequested |-> FALSE,
          heartbeat |-> "null", completedAt |-> FALSE, result |-> "null"]

(* Create: the columns the INSERT does not name take the table's defaults. *)
Create == [NoRow EXCEPT !.status = "pending"]

(* None of these has a condition on the status the row has. *)
UpdateStatus(row, status) == [row EXCEPT !.status = status]
SetResult(row, result) == [row EXCEPT !.result = result]
SetCompleted(row) == [row EXCEPT !.completedAt = TRUE]
IncrementRetryCount(row) == [row EXCEPT !.retryCount = @ + 1]

(* Mutant: the flag of an earlier attempt survives into the next one. *)
SetStartedKeepingFlag(row) ==
    [row EXCEPT !.status = "running", !.heartbeat = "fresh"]

(* Each attempt starts clean; completed_at and result keep their values. *)
SetStarted(row) ==
    [row EXCEPT !.status = "running", !.heartbeat = "fresh",
                !.cancelRequested = FALSE]

UpdateHeartbeat(row) ==
    IF row.status = "running" THEN [row EXCEPT !.heartbeat = "fresh"] ELSE row

Cancelable == {"pending", "running"}

RequestCancellation(row) ==
    IF row.status = "pending"
    THEN [row EXCEPT !.cancelRequested = TRUE, !.status = "canceled",
                     !.completedAt = TRUE]
    ELSE [row EXCEPT !.cancelRequested = TRUE]

(* Mutants: the query forgets the timeout; the query forgets the rows that *)
(* have a heartbeat and only looks at those that never had one.            *)
IsStuckAtOnce(row) == row.status = "running"
IsStuckWithoutHeartbeat(row) == row.status = "running" /\ row.heartbeat = "null"

(* GetStuckJobs.  "null" stands for the second disjunct of the query, a    *)
(* running row that never had a heartbeat and started two hours ago.       *)
IsStuck(row) == row.status = "running" /\ row.heartbeat \in {"stale", "null"}

=============================================================================
