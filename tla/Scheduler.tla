------------------------------ MODULE Scheduler ------------------------------
(***************************************************************************)
(* internal/scheduler and the handlers that change schedules.              *)
(*                                                                         *)
(* A request writes the table schedules and then calls Reload, which reads *)
(* the enabled schedules, takes the mutex, unregisters every entry of the  *)
(* cron runner and registers what it read, one schedule at a time, writing *)
(* each next_run_at.  The runner starts a goroutine per firing, which      *)
(* submits a job (Orchestration models that) and refreshes next_run_at     *)
(* under the same mutex.                                                   *)
(*                                                                         *)
(* A time is kept as what it is the time of: an entry's first firing, its  *)
(* second, and so on.  Firing 0 stands for the zero time, the Next of an   *)
(* entry the runner has not seen yet.                                      *)
(***************************************************************************)
EXTENDS Naturals, FiniteSets

CONSTANTS
    Schedules,    \* identifiers the table may hand out
    Crons,        \* valid cron expressions
    Requests,     \* goroutines serving create, update or delete
    Main,         \* the goroutine of main, which calls Start
    None,         \* no schedule, no entry, no process
    MaxEntries,   \* bounds the model: entry ids the cron runner hands out
    MaxTurns,     \* bounds the model: the firing an entry may wait for
    FaultKinds,   \* "read": GetAllEnabled fails; "submit": a firing fails
                  \* before its job is on the queue; "next": UpdateNextRun fails
    MaxFaults     \* how often, over a whole behaviour

ASSUME MainAssumption == Main \notin Requests \cup Schedules
ASSUME KindsAssumption == Requests \cap Schedules = {}
ASSUME FiniteAssumption == IsFiniteSet(Schedules) /\ IsFiniteSet(Requests)
ASSUME MaxEntriesAssumption == MaxEntries \in Nat /\ MaxEntries >= Cardinality(Schedules)
ASSUME MaxTurnsAssumption == MaxTurns \in Nat \ {0}
ASSUME MaxFaultsAssumption == MaxFaults \in Nat
ASSUME NoneAssumption ==
    None \notin Schedules \cup Crons \cup Requests \cup {Main} \cup (1..MaxEntries)

Processes == Requests \cup {Main}

VARIABLES
    table,      \* the table schedules
    runner,     \* the entries of the cron runner; turn: the firing that is next
    running,    \* cron.Start was called
    nextID,     \* the runner's counter of entry ids
    entries,    \* s.entries: the entry id of each registered schedule
    mutex,      \* s.mu: the process or firing that holds it
    reload,     \* where each process is in Reload
    firing,     \* the goroutine runSchedule of each schedule
    faults      \* faults so far

vars == <<table, runner, running, nextID, entries, mutex, reload, firing, faults>>

NoRow == [state |-> "new", enabled |-> FALSE, cron |-> None, nextRun |-> None]
Done  == [pc |-> "done", todo |-> {}]
NoFiring == [pc |-> "none", next |-> None]
Dropped  == [pc |-> "dropped", next |-> None]

(* The backend starts with schedules an earlier run left in the table. *)
Init == /\ table \in [Schedules -> {NoRow} \cup
                        [state: {"live"}, enabled: {TRUE}, cron: Crons, nextRun: {None}]]
        /\ runner = {}
        /\ running = FALSE
        /\ nextID = 1
        /\ entries = [s \in Schedules |-> None]
        /\ mutex = None
        /\ reload = [p \in Processes |-> IF p = Main THEN [Done EXCEPT !.pc = "read"]
                                                     ELSE Done]
        /\ firing = [s \in Schedules |-> NoFiring]
        /\ faults = 0

May(kind) == kind \in FaultKinds /\ faults < MaxFaults

Results(kind) == {TRUE} \cup {ok \in {FALSE} : May(kind)}

Charge(fault) == faults' = IF fault THEN faults + 1 ELSE faults

-----------------------------------------------------------------------------
(* The requests: write the row, then Reload.  The server only listens once *)
(* Start has returned.  Crons are valid, the handlers check them first.    *)

Reloading == {p \in Processes : reload[p].pc \in {"read", "lock", "register"}}

Request(r, s, row) ==
    /\ running
    /\ reload[r].pc = "done"
    /\ nextID + Cardinality(Schedules) * (Cardinality(Reloading) + 1) <= MaxEntries + 1
    /\ table' = [table EXCEPT ![s] = row]
    /\ reload' = [reload EXCEPT ![r].pc = "read"]
    /\ UNCHANGED <<runner, running, nextID, entries, mutex, firing, faults>>

CreateSchedule(r, s, enabled, cron) ==
    /\ table[s].state = "new"
    /\ Request(r, s, [state |-> "live", enabled |-> enabled, cron |-> cron,
                      nextRun |-> None])

(* next_run_at is left alone: it belongs to the scheduler. *)
UpdateSchedule(r, s, enabled, cron) ==
    /\ table[s].state = "live"
    /\ Request(r, s, [table[s] EXCEPT !.enabled = enabled, !.cron = cron])

DeleteSchedule(r, s) ==
    /\ table[s].state = "live"
    /\ Request(r, s, [NoRow EXCEPT !.state = "deleted"])

-----------------------------------------------------------------------------
(* Reload. *)

Enabled == {s \in Schedules : table[s].state = "live" /\ table[s].enabled}

(* Read before the mutex is taken.  An error is logged by the caller. *)
GetAllEnabled(p) ==
    /\ reload[p].pc = "read"
    /\ \E ok \in Results("read") :
         /\ reload' = [reload EXCEPT
                         ![p] = IF ok THEN [pc |-> "lock",
                                            todo |-> {<<s, table[s].cron>> : s \in Enabled}]
                                      ELSE [Done EXCEPT !.pc = "return"]]
         /\ Charge(~ok)
    /\ UNCHANGED <<table, runner, running, nextID, entries, mutex, firing>>

(* Mutant: without the mutex. *)
UnregisterAllUnlocked(p) ==
    /\ reload[p].pc = "lock"
    /\ runner' = {e \in runner : \A s \in Schedules : entries[s] # e.id}
    /\ entries' = [s \in Schedules |-> None]
    /\ mutex' = p
    /\ reload' = [reload EXCEPT ![p].pc = "register"]
    /\ UNCHANGED <<table, running, nextID, firing, faults>>

(* Take the mutex and remove every entry of the map from the runner. *)
UnregisterAll(p) ==
    /\ mutex = None
    /\ UnregisterAllUnlocked(p)

(* The Next of an entry: what UpdateNextRun is given. *)
Next_(e) == [entry |-> e.id, turn |-> e.turn]

(* UpdateNextRun on a row that is gone changes nothing. *)
UpdateNextRun(s, time, ok) ==
    table' = IF ok /\ table[s].state = "live" THEN [table EXCEPT ![s].nextRun = time]
                                             ELSE table

(* Register one of the schedules read: the runner computes the entry's     *)
(* Next at once if it runs, and when it is started otherwise.              *)
Register(p) ==
    /\ reload[p].pc = "register"
    /\ \E item \in reload[p].todo, ok \in Results("next") :
         LET s == item[1]
             e == [id |-> nextID, schedule |-> s, cron |-> item[2],
                   turn |-> IF running THEN 1 ELSE 0]
         IN /\ runner' = runner \cup {e}
            /\ nextID' = nextID + 1
            /\ entries' = [entries EXCEPT ![s] = e.id]
            /\ UpdateNextRun(s, Next_(e), ok)
            /\ reload' = [reload EXCEPT ![p].todo = @ \ {item}]
            /\ Charge(~ok)
    /\ UNCHANGED <<running, mutex, firing>>

Unlock(p) ==
    /\ reload[p].pc = "register"
    /\ reload[p].todo = {}
    /\ mutex' = None
    /\ reload' = [reload EXCEPT ![p].pc = "return"]
    /\ UNCHANGED <<table, runner, running, nextID, entries, firing, faults>>

(* The answer to the request; in main, cron.Start. *)
Return(p) ==
    /\ reload[p].pc = "return"
    /\ reload' = [reload EXCEPT ![p] = Done]
    /\ running' = (running \/ p = Main)
    /\ runner' = IF p = Main THEN {[e EXCEPT !.turn = 1] : e \in runner} ELSE runner
    /\ UNCHANGED <<table, nextID, entries, mutex, firing, faults>>

ReloadStep(p) == GetAllEnabled(p) \/ UnregisterAll(p) \/ Register(p) \/ Unlock(p) \/ Return(p)

-----------------------------------------------------------------------------
(* A firing. *)

Move(s, pc) == firing' = [firing EXCEPT ![s].pc = pc]

(* The runner finds the entry due: it reckons the next firing and starts   *)
(* the goroutine of this one.  The model has one firing of a schedule at a *)
(* time.                                                                   *)
Fire(e) ==
    /\ running
    /\ firing[e.schedule].pc \in {"none", "dropped"}
    /\ e.turn < MaxTurns
    /\ runner' = (runner \ {e}) \cup {[e EXCEPT !.turn = @ + 1]}
    /\ Move(e.schedule, "submit")
    /\ UNCHANGED <<table, running, nextID, entries, mutex, reload, faults>>

(* Look the schedule up again, and submit its job: a schedule that is gone *)
(* or disabled by now submits nothing, and neither does one whose lookups, *)
(* insertion or publication fail; next_run_at is not refreshed then.       *)
Submit(s) ==
    /\ firing[s].pc = "submit"
    /\ \E ok \in Results("submit") :
         /\ firing' = [firing EXCEPT
                         ![s] = IF ok /\ s \in Enabled THEN [@ EXCEPT !.pc = "next"]
                                                       ELSE Dropped]
         /\ Charge(~ok)
    /\ UNCHANGED <<table, runner, running, nextID, entries, mutex, reload>>

(* Mutant: without the mutex. *)
ReadNextUnlocked(s) ==
    /\ firing[s].pc = "next"
    /\ mutex' = s
    /\ firing' = [firing EXCEPT
                    ![s] = IF entries[s] = None THEN [pc |-> "unlock", next |-> None]
                           ELSE [pc |-> "write",
                                 next |-> LET e == CHOOSE e \in runner : e.id = entries[s]
                                          IN Next_(e)]]
    /\ UNCHANGED <<table, runner, running, nextID, entries, reload, faults>>

(* Take the mutex and look up the Next of the schedule's entry, if any. *)
ReadNext(s) ==
    /\ mutex = None
    /\ ReadNextUnlocked(s)

WriteNext(s) ==
    /\ firing[s].pc = "write"
    /\ \E ok \in Results("next") :
         /\ UpdateNextRun(s, firing[s].next, ok)
         /\ Charge(~ok)
    /\ Move(s, "unlock")
    /\ UNCHANGED <<runner, running, nextID, entries, mutex, reload>>

EndFiring(s) ==
    /\ firing[s].pc = "unlock"
    /\ mutex' = None
    /\ firing' = [firing EXCEPT ![s] = NoFiring]
    /\ UNCHANGED <<table, runner, running, nextID, entries, reload, faults>>

FiringStep(s) == Submit(s) \/ ReadNext(s) \/ WriteNext(s) \/ EndFiring(s)

-----------------------------------------------------------------------------
Next ==
    \/ \E r \in Requests, s \in Schedules :
         \/ \E enabled \in BOOLEAN, cron \in Crons :
              CreateSchedule(r, s, enabled, cron) \/ UpdateSchedule(r, s, enabled, cron)
         \/ DeleteSchedule(r, s)
    \/ \E p \in Processes : ReloadStep(p)
    \/ \E e \in runner : Fire(e)
    \/ \E s \in Schedules : FiringStep(s)

Spec == Init /\ [][Next]_vars

-----------------------------------------------------------------------------
(* Types *)

Times == [entry: 1..MaxEntries, turn: 0..MaxTurns]

ScheduleRow == [state: {"new", "live", "deleted"}, enabled: BOOLEAN,
                cron: Crons \cup {None}, nextRun: Times \cup {None}]

Entry == [id: 1..MaxEntries, schedule: Schedules, cron: Crons, turn: 0..MaxTurns]

ReloadState == [pc: {"done", "read", "lock", "register", "return"},
                todo: SUBSET (Schedules \X Crons)]

FiringState == [pc: {"none", "dropped", "submit", "next", "write", "unlock"},
                next: Times \cup {None}]

(* The variables have their types, and the mutex is held by a process or a *)
(* firing that is inside a critical section, and by nobody else.           *)
TypeOK ==
    /\ table \in [Schedules -> ScheduleRow]
    /\ runner \subseteq Entry
    /\ running \in BOOLEAN
    /\ nextID \in 1..(MaxEntries + 1)
    /\ entries \in [Schedules -> 1..MaxEntries \cup {None}]
    /\ mutex \in Processes \cup Schedules \cup {None}
    /\ reload \in [Processes -> ReloadState]
    /\ firing \in [Schedules -> FiringState]
    /\ faults \in 0..MaxFaults
    /\ \A p \in Processes : reload[p].pc = "register" <=> mutex = p
    /\ \A s \in Schedules : firing[s].pc \in {"write", "unlock"} <=> mutex = s

-----------------------------------------------------------------------------
(* Properties *)

(* Every entry of the cron runner is the one the map knows for its         *)
(* schedule: a schedule fires once each time it is due, and the next       *)
(* Reload can remove every entry of this one.                              *)
RegisteredOnce ==
    /\ \A e \in runner : entries[e.schedule] = e.id
    /\ \A s \in Schedules : entries[s] # None => \E e \in runner : e.id = entries[s]

(* The time is the one of the firing the entry waits for.  It lags behind  *)
(* only while a firing is under way or when the last one was dropped, and  *)
(* the zero time Start writes stays until the first firing at most.        *)
TimeOfNext(time, e, pc) ==
    /\ time \in Times
    /\ time.entry = e.id
    /\ \/ time.turn = e.turn
       \/ time.turn = 0 /\ e.turn = 1
       \/ time.turn < e.turn /\ pc # "none"

(* Whenever nobody holds the mutex, the next_run_at of a registered        *)
(* schedule is the time of the firing its present entry waits for, never   *)
(* one of an entry that was replaced, nor, but for a firing that has not   *)
(* come to refresh it, one that has passed.                                *)
NextRunMatches ==
    mutex = None =>
        \A e \in runner : table[e.schedule].state = "live" =>
            TimeOfNext(table[e.schedule].nextRun, e, firing[e.schedule].pc)

(* While the runner runs, a registered schedule has a next firing to show: *)
(* Reload removes and registers every entry so that next_run_at is always  *)
(* recalculated ("que o next_run_at seja sempre recalculado").             *)
NextRunReckoned ==
    running /\ mutex = None =>
        \A e \in runner : table[e.schedule].state = "live" =>
            table[e.schedule].nextRun # [entry |-> e.id, turn |-> 0]

(* Once no request is being served, what is registered is what is enabled, *)
(* with its current expression ("garante que edicoes na expressao cron ... *)
(* passem a valer imediatamente").                                         *)
InSync ==
    (running /\ \A p \in Processes : reload[p].pc = "done") =>
        {<<e.schedule, e.cron>> : e \in runner} = {<<s, table[s].cron>> : s \in Enabled}

=============================================================================
