---------------------------- MODULE MCScheduler ----------------------------
(* Small instances of Scheduler for TLC. *)
EXTENDS Scheduler, TLC

CONSTANTS s1, s2, c1, c2, r1, r2

(* Schedules, expressions and requests are interchangeable. *)
Symmetry == Permutations(Schedules) \cup Permutations(Crons) \cup Permutations(Requests)

=============================================================================
