----------------------------- MODULE JobContract -----------------------------
(***************************************************************************)
(* The life of a job as the contract with the workers describes it: it is  *)
(* accepted, started, finished with one of the four terminal statuses, and *)
(* a terminal status is final.                                             *)
(***************************************************************************)
CONSTANT Jobs       \* the identifiers jobs may get

VARIABLE status     \* the status of each job

Final == {"completed", "completed_no_invoices", "failed", "canceled"}

Move(j, from, to) == /\ status[j] \in from
                     /\ status' = [status EXCEPT ![j] = to]

Accept(j)    == Move(j, {"absent"}, "pending")
Refuse(j)    == Move(j, {"pending"}, "failed")     \* the broker did not take it
Start(j)     == Move(j, {"pending"}, "running")
Finish(j, s) == s \in Final /\ Move(j, {"running"}, s)

Init == status = [j \in Jobs |-> "absent"]

Next == \E j \in Jobs :
            Accept(j) \/ Refuse(j) \/ Start(j) \/ \E s \in Final : Finish(j, s)

Spec == Init /\ [][Next]_status
=============================================================================
