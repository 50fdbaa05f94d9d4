--------------------------- MODULE DeliveryLedger ---------------------------
(***************************************************************************)
(* What the orchestration promises about how often a job is handed to the  *)
(* broker: the first delivery is free, every later one is paid for with    *)
(* one unit of the job's retry budget, and the budget never exceeds        *)
(* MaxRetries.  Which process hands the job over, in which order, and what *)
(* crashes in between, is not said here.                                   *)
(***************************************************************************)
EXTENDS Naturals

CONSTANTS Jobs,        \* the identifiers jobs may get
          MaxRetries   \* the retry budget of a job

VARIABLES spent,   \* units of the budget taken so far, per job
          handed   \* messages the broker has accepted so far, per job

vars == <<spent, handed>>

Init == /\ spent = [j \in Jobs |-> 0]
        /\ handed = [j \in Jobs |-> 0]

(* A retry is paid for before the job is handed over again. *)
Pay(j) == /\ spent[j] < MaxRetries
          /\ spent' = [spent EXCEPT ![j] = @ + 1]
          /\ UNCHANGED handed

(* A delivery needs a unit that no earlier delivery has used. *)
HandOver(j) == /\ handed[j] <= spent[j]
               /\ handed' = [handed EXCEPT ![j] = @ + 1]
               /\ UNCHANGED spent

Next == \E j \in Jobs : Pay(j) \/ HandOver(j)

Spec == Init /\ [][Next]_vars
=============================================================================
