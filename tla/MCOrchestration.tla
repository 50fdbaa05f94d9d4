--------------------------- MODULE MCOrchestration ---------------------------
(* Small instances of Orchestration for TLC.                               *)
EXTENDS Orchestration, TLC

CONSTANTS j1, j2, h1, h2, w1, w2

(* Jobs, submitting goroutines and workers are interchangeable. *)
Symmetry == Permutations(Jobs) \cup Permutations(Handlers) \cup Permutations(Workers)

AllOrigins == {"execute", "retry", "schedule"}

AllFaults == {"publish", "lost", "db", "status", "start", "poll", "finish",
              "crash", "channel", "stall", "silence", "backlog", "backend"}

(* The worker and its channel may fail, its reports too, and heartbeats    *)
(* grow old; every publication is either refused or delivered.             *)
RecoverableFaults == {"publish", "poll", "finish", "crash", "channel", "stall",
                      "silence", "backlog"}

(* Everything but what makes the retry worker send a second message: live  *)
(* workers poll, and messages are taken up within the heartbeat timeout.   *)
TimelyFaults == AllFaults \ {"channel", "stall", "backlog"}

(* Of these, what leaves a worker in doubt about its reports only before   *)
(* the job has ended.                                                      *)
CalmFaults == TimelyFaults \ {"status", "finish", "backend"}

=============================================================================
