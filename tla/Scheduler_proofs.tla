--------------------------- MODULE Scheduler_proofs ---------------------------
(***************************************************************************)
(* Proofs about Scheduler: its types, that the cron runner never holds an  *)
(* entry the map does not know, and that every next_run_at is the time of  *)
(* the firing that the present entry of its schedule waits for.            *)
(***************************************************************************)
EXTENDS Scheduler, FiniteSetTheorems, TLAPS

-----------------------------------------------------------------------------
(* Types.  The bound on the entry ids needs a count of those that may yet  *)
(* be handed out.                                                          *)

(* The processes whose Reload has yet to register what it finds, and what  *)
(* the one that is registering has left.                                   *)
Waiting == {p \in Processes : reload[p].pc \in {"read", "lock"}}

Left == IF mutex \in Processes THEN Cardinality(reload[mutex].todo) ELSE 0

(* There are entry ids for all of them. *)
Fits == nextID + Cardinality(Schedules) * Cardinality(Waiting) + Left <= MaxEntries + 1

(* What a process has read names each schedule once. *)
ReadOnce ==
    \A p \in Processes : reload[p].pc \in {"lock", "register"} =>
        /\ IsFiniteSet(reload[p].todo)
        /\ Cardinality(reload[p].todo) <= Cardinality(Schedules)
        /\ \A a, b \in reload[p].todo : a[1] = b[1] => a = b

LiveHasCron == \A s \in Schedules : table[s].state = "live" => table[s].cron \in Crons

TypeInv == TypeOK /\ LiveHasCron /\ ReadOnce /\ Fits

LEMMA Kinds ==
    /\ Processes \cap Schedules = {}
    /\ None \notin Processes \cup Schedules \cup (1..MaxEntries)
    /\ IsFiniteSet(Processes)
    /\ Cardinality(Schedules) \in Nat
<1>1. IsFiniteSet(Requests \cup {Main})
  BY FiniteAssumption, FS_AddElement
<1>2. Cardinality(Schedules) \in Nat
  BY FiniteAssumption, FS_CardinalityType
<1>3. QED
  BY <1>1, <1>2, MainAssumption, KindsAssumption, NoneAssumption DEF Processes

(* Any set of processes can be counted, and one process more or less. *)
LEMMA Counts ==
    ASSUME NEW S \in SUBSET Processes, NEW p \in Processes
    PROVE  /\ Cardinality(S) \in Nat
           /\ p \notin S => Cardinality(S \cup {p}) = Cardinality(S) + 1
           /\ p \in S => Cardinality(S) = Cardinality(S \ {p}) + 1
           /\ Cardinality(S \ {p}) <= Cardinality(S)
<1>1. IsFiniteSet(S)
  BY Kinds, FS_Subset
<1>2. IsFiniteSet(S \ {p})
  BY <1>1, FS_RemoveElement
<1>3. Cardinality(S) \in Nat /\ Cardinality(S \ {p}) \in Nat
  BY <1>1, <1>2, FS_CardinalityType
<1>4. p \notin S => Cardinality(S \cup {p}) = Cardinality(S) + 1
  BY <1>1, FS_AddElement
<1>5. Cardinality(S \ {p}) = IF p \in S THEN Cardinality(S) - 1 ELSE Cardinality(S)
  BY <1>1, FS_RemoveElement
<1>6. QED
  BY <1>3, <1>4, <1>5

LEMMA OneMore ==
    ASSUME NEW n \in Nat, NEW m \in Nat
    PROVE  /\ n * m \in Nat
           /\ n * (m + 1) = n * m + n
  OBVIOUS

LEMMA LeftType ==
    ASSUME TypeOK, ReadOnce
    PROVE  /\ Left \in Nat
           /\ Left <= Cardinality(Schedules)
           /\ mutex \notin Processes => Left = 0
<1>1. CASE mutex \in Processes
  <2>1. /\ IsFiniteSet(reload[mutex].todo)
        /\ Cardinality(reload[mutex].todo) <= Cardinality(Schedules)
    BY <1>1 DEF TypeOK, ReadOnce
  <2>2. Cardinality(reload[mutex].todo) \in Nat
    BY <2>1, FS_CardinalityType
  <2>3. QED
    BY <1>1, <2>1, <2>2 DEF Left
<1>2. CASE mutex \notin Processes
  BY <1>2, Kinds DEF Left
<1>3. QED
  BY <1>1, <1>2

LEMMA InitTypes == Init => TypeInv
<1> SUFFICES ASSUME Init PROVE TypeInv
  OBVIOUS
<1>1. /\ \A p \in Processes : reload[p] \in ReloadState /\ reload[p].pc # "register"
      /\ \A p \in Processes : reload[p].pc \in {"read", "done"}
      /\ \A p \in Processes : reload[p].pc = "read" <=> p = Main
  BY DEF Init, ReloadState, Done, Processes
<1>2. table \in [Schedules -> ScheduleRow]
  <2>1. NoRow \in ScheduleRow
    BY DEF NoRow, ScheduleRow
  <2>2. [state: {"live"}, enabled: {TRUE}, cron: Crons, nextRun: {None}] \subseteq ScheduleRow
    BY DEF ScheduleRow
  <2>3. QED
    BY <2>1, <2>2 DEF Init
<1>3. TypeOK
  <2>1. firing \in [Schedules -> FiringState] /\ \A s \in Schedules : firing[s].pc = "none"
    BY DEF Init, FiringState, NoFiring
  <2>2. reload \in [Processes -> ReloadState]
    BY <1>1 DEF Init
  <2>3. nextID \in 1..(MaxEntries + 1) /\ faults \in 0..MaxFaults
    BY MaxEntriesAssumption, MaxFaultsAssumption DEF Init
  <2>4. /\ \A p \in Processes : reload[p].pc = "register" <=> mutex = p
        /\ \A s \in Schedules : firing[s].pc \in {"write", "unlock"} <=> mutex = s
    BY <1>1, <2>1, Kinds DEF Init
  <2>5. QED
    BY <1>2, <2>1, <2>2, <2>3, <2>4 DEF Init, TypeOK
<1>4. ReadOnce
  <2>1. \A p \in Processes : reload[p].pc \notin {"lock", "register"}
    BY <1>1
  <2>2. QED
    BY <2>1 DEF ReadOnce
<1>5. Waiting = {Main}
  BY <1>1 DEF Waiting, Processes
<1>6. Cardinality(Waiting) = 1
  BY <1>5, FS_Singleton
<1>7. Left = 0
  BY Kinds DEF Left, Init
<1>8. Cardinality(Schedules) * Cardinality(Waiting) = Cardinality(Schedules)
  BY <1>6, Kinds
<1>9. Fits
  BY <1>7, <1>8, Kinds, MaxEntriesAssumption DEF Fits, Init
<1>10. LiveHasCron
  <2> SUFFICES ASSUME NEW s \in Schedules, table[s].state = "live"
               PROVE  table[s].cron \in Crons
    BY DEF LiveHasCron
  <2>1. table[s] # NoRow
    BY DEF NoRow
  <2>2. table[s] \in [state: {"live"}, enabled: {TRUE}, cron: Crons, nextRun: {None}]
    BY <2>1 DEF Init
  <2>3. QED
    BY <2>2
<1>11. QED
  BY <1>3, <1>4, <1>9, <1>10 DEF TypeInv

LEMMA RequestTypes ==
    ASSUME TypeInv, NEW r \in Requests, NEW s \in Schedules, NEW row \in ScheduleRow,
           row.state = "live" => row.cron \in Crons, Request(r, s, row)
    PROVE  TypeInv'
<1>1. /\ r \in Processes /\ reload[r].pc = "done" /\ mutex # r
      /\ \A p \in Processes : reload'[p] = IF p = r THEN [reload[r] EXCEPT !.pc = "read"]
                                                    ELSE reload[p]
      /\ table' \in [Schedules -> ScheduleRow]
      /\ UNCHANGED <<runner, running, nextID, entries, mutex, firing, faults>>
  BY DEF Request, TypeInv, TypeOK, Processes
<1>2. reload'[r].pc = "read" /\ reload'[r] \in ReloadState
  BY <1>1 DEF TypeInv, TypeOK, ReloadState
<1>3. reload' \in [Processes -> ReloadState]
  BY <1>1, <1>2 DEF Request, TypeInv, TypeOK
<1>4. TypeOK'
  BY <1>1, <1>2, <1>3 DEF TypeInv, TypeOK
<1>5. ReadOnce'
  BY <1>1, <1>2 DEF TypeInv, ReadOnce
<1>6. Fits'
  <2> DEFINE N == Cardinality(Schedules)
             W == Cardinality(Waiting)
             R == Cardinality(Reloading)
  <2>1. Waiting' = Waiting \cup {r} /\ r \notin Waiting
    BY <1>1, <1>2 DEF Waiting
  <2>2. W' = W + 1 /\ W \in Nat
    BY <1>1, <2>1, Counts DEF Waiting
  <2>3. Left' = Left
    BY <1>1 DEF Left
  <2>4. nextID + N * (R + 1) <= MaxEntries + 1
    BY DEF Request
  <2>5. Left \in Nat /\ Left <= N /\ (mutex \notin Processes => Left = 0)
    BY LeftType DEF TypeInv
  <2>6. N \in Nat /\ nextID \in Nat
    BY Kinds DEF TypeInv, TypeOK
  <2>7. CASE mutex \in Processes
    <3>1. Reloading = Waiting \cup {mutex} /\ mutex \notin Waiting
      BY <2>7 DEF Reloading, Waiting, TypeInv, TypeOK
    <3>2. R = W + 1
      BY <2>7, <3>1, Counts DEF Waiting
    <3>3. N * (R + 1) = N * (W + 1) + N /\ N * (W + 1) \in Nat
      BY <2>2, <2>6, <3>2, OneMore
    <3>4. nextID + N * (W + 1) + Left <= MaxEntries + 1
      BY <2>4, <2>5, <2>6, <3>3, MaxEntriesAssumption
    <3>5. QED
      BY <1>1, <2>2, <2>3, <3>4 DEF Fits
  <2>8. CASE mutex \notin Processes
    <3>1. Reloading = Waiting
      BY <2>8 DEF Reloading, Waiting, TypeInv, TypeOK
    <3>2. N * W' = N * (R + 1) /\ N * W' \in Nat /\ Left' = 0
      BY <2>2, <2>3, <2>5, <2>6, <2>8, <3>1, OneMore
    <3>3. QED
      BY <1>1, <2>4, <2>6, <3>2 DEF Fits
  <2>9. QED
    BY <2>7, <2>8
<1>7. LiveHasCron'
  BY DEF Request, TypeInv, TypeOK, LiveHasCron
<1>8. QED
  BY <1>4, <1>5, <1>6, <1>7 DEF TypeInv

LEMMA ChargeType ==
    ASSUME TypeOK, NEW kind, NEW ok \in Results(kind), Charge(~ok)
    PROVE  faults' \in 0..MaxFaults
<1>1. ok = TRUE \/ (ok = FALSE /\ faults < MaxFaults)
  BY DEF Results, May
<1>2. faults' = IF ok THEN faults ELSE faults + 1
  BY <1>1 DEF Charge
<1>3. QED
  BY <1>1, <1>2, MaxFaultsAssumption DEF TypeOK

-----------------------------------------------------------------------------
(* Reload. *)

(* What a reload reads names each schedule once, and no more than exist. *)
LEMMA ReadingTypes ==
    ASSUME TypeOK, LiveHasCron
    PROVE  LET todo == {<<s, table[s].cron>> : s \in Enabled}
           IN /\ todo \in SUBSET (Schedules \X Crons)
              /\ IsFiniteSet(todo)
              /\ Cardinality(todo) <= Cardinality(Schedules)
              /\ \A a, b \in todo : a[1] = b[1] => a = b
<1> DEFINE todo == {<<s, table[s].cron>> : s \in Enabled}
           f == [s \in Enabled |-> <<s, table[s].cron>>]
<1>1. IsFiniteSet(Enabled) /\ Cardinality(Enabled) <= Cardinality(Schedules)
  BY FiniteAssumption, FS_Subset DEF Enabled
<1>2. f \in Surjection(Enabled, todo)
  BY DEF Surjection
<1>3. IsFiniteSet(todo) /\ Cardinality(todo) <= Cardinality(Enabled)
  BY <1>1, <1>2, FS_Surjection
<1>4. /\ Cardinality(todo) \in Nat /\ Cardinality(Enabled) \in Nat
      /\ Cardinality(Schedules) \in Nat
  BY <1>1, <1>3, FiniteAssumption, FS_CardinalityType
<1>5. todo \in SUBSET (Schedules \X Crons)
  BY DEF Enabled, LiveHasCron
<1>6. \A a, b \in todo : a[1] = b[1] => a = b
  OBVIOUS
<1>7. QED
  BY <1>1, <1>3, <1>4, <1>5, <1>6

(* What UpdateNextRun does to a row. *)
LEMMA NextRunTypes ==
    ASSUME TypeOK, LiveHasCron, NEW s \in Schedules, NEW time \in Times \cup {None},
           NEW ok \in BOOLEAN, UpdateNextRun(s, time, ok)
    PROVE  /\ table' \in [Schedules -> ScheduleRow]
           /\ LiveHasCron'
           /\ \A t \in Schedules : /\ table'[t].state = table[t].state
                                   /\ table'[t].enabled = table[t].enabled
                                   /\ table'[t].cron = table[t].cron
                                   /\ t # s => table'[t] = table[t]
           /\ ok /\ table[s].state = "live" => table'[s].nextRun = time
           /\ ~(ok /\ table[s].state = "live") => table' = table
<1>1. CASE ok /\ table[s].state = "live"
  <2>1. \A t \in Schedules :
          table'[t] = IF t = s THEN [table[s] EXCEPT !.nextRun = time] ELSE table[t]
    BY <1>1 DEF UpdateNextRun, TypeOK
  <2>2. [table[s] EXCEPT !.nextRun = time] \in ScheduleRow
    BY DEF TypeOK, ScheduleRow
  <2>3. table' \in [Schedules -> ScheduleRow]
    BY <1>1, <2>2 DEF UpdateNextRun, TypeOK
  <2>4. \A t \in Schedules : table[t] \in ScheduleRow
    BY DEF TypeOK
  <2>5. /\ [table[s] EXCEPT !.nextRun = time].state = table[s].state
        /\ [table[s] EXCEPT !.nextRun = time].enabled = table[s].enabled
        /\ [table[s] EXCEPT !.nextRun = time].cron = table[s].cron
        /\ [table[s] EXCEPT !.nextRun = time].nextRun = time
    BY <2>4 DEF ScheduleRow
  <2>6. QED
    BY <1>1, <2>1, <2>3, <2>5 DEF LiveHasCron
<1>2. CASE ~(ok /\ table[s].state = "live")
  BY <1>2 DEF UpdateNextRun, TypeOK, LiveHasCron
<1>3. QED
  BY <1>1, <1>2

LEMMA ReloadTypes ==
    ASSUME TypeInv, NEW p \in Processes, ReloadStep(p)
    PROVE  TypeInv'
<1> DEFINE N == Cardinality(Schedules)
           W == Cardinality(Waiting)
<1> USE DEF TypeInv
<1>1. /\ N \in Nat /\ W \in Nat /\ nextID \in Nat
      /\ Left \in Nat /\ Left <= N
      /\ nextID + N * W + Left <= MaxEntries + 1
      /\ MaxEntries \in Nat
      /\ p \notin Schedules /\ p # None /\ None \notin Processes
  <2>1. W \in Nat
    BY Counts DEF Waiting
  <2>2. nextID \in Nat /\ Left \in Nat /\ Left <= N
    BY LeftType, MaxEntriesAssumption DEF TypeOK
  <2>3. QED
    BY <2>1, <2>2, Kinds, MaxEntriesAssumption DEF Fits
<1>2. /\ N * W \in Nat
      /\ \A n \in Nat : n <= W => N * n \in Nat /\ N * n <= N * W
      /\ \A n \in Nat : W = n + 1 => N * W = N * n + N
  <2>1. N * W \in Nat
    BY <1>1, OneMore
  <2>2. ASSUME NEW n \in Nat, n <= W PROVE N * n \in Nat /\ N * n <= N * W
    <3>1. N * n \in Nat /\ W - n \in Nat /\ N * (W - n) \in Nat
      BY <1>1, <2>2, OneMore
    <3>2. N * W = N * n + N * (W - n)
      BY <1>1
    <3>3. QED
      BY <2>1, <3>1, <3>2
  <2>3. QED
    BY <1>1, <2>1, <2>2, OneMore
<1>3. ASSUME GetAllEnabled(p) PROVE TypeInv'
  <2>1. PICK ok \in Results("read") :
          /\ reload' = [reload EXCEPT
                          ![p] = IF ok THEN [pc |-> "lock",
                                             todo |-> {<<s, table[s].cron>> : s \in Enabled}]
                                       ELSE [Done EXCEPT !.pc = "return"]]
          /\ Charge(~ok)
    BY <1>3 DEF GetAllEnabled
  <2>2. /\ reload[p].pc = "read" /\ mutex # p
        /\ UNCHANGED <<table, runner, running, nextID, entries, mutex, firing>>
    BY <1>3 DEF GetAllEnabled, TypeOK
  <2>3. /\ \A q \in Processes \ {p} : reload'[q] = reload[q]
        /\ reload'[p].pc \in {"lock", "return"}
        /\ reload'[p] \in ReloadState
        /\ reload'[p].pc = "lock" =>
             reload'[p].todo = {<<s, table[s].cron>> : s \in Enabled}
    BY <2>1, ReadingTypes DEF TypeOK, ReloadState, Done
  <2>4. reload' \in [Processes -> ReloadState]
    BY <2>1, <2>3 DEF TypeOK
  <2>5. TypeOK'
    BY <2>1, <2>2, <2>3, <2>4, ChargeType DEF TypeOK
  <2>6. ReadOnce'
    BY <2>3, ReadingTypes DEF ReadOnce
  <2>7. Cardinality(Waiting)' \in Nat /\ Cardinality(Waiting)' <= W
    <3>1. CASE reload'[p].pc = "lock"
      <4>1. Waiting' = Waiting
        BY <2>2, <2>3, <3>1 DEF Waiting
      <4>2. QED
        BY <1>1, <4>1
    <3>2. CASE reload'[p].pc = "return"
      <4>1. Waiting' = Waiting \ {p}
        BY <2>2, <2>3, <3>2 DEF Waiting
      <4>2. Waiting \ {p} \in SUBSET Processes
        BY DEF Waiting
      <4>3. QED
        BY <4>1, <4>2, Counts DEF Waiting
    <3>3. QED
      BY <2>3, <3>1, <3>2
  <2>8. Left' = Left
    BY <2>2, <2>3 DEF Left
  <2>9. Fits'
    BY <1>1, <1>2, <2>2, <2>7, <2>8 DEF Fits
  <2>10. QED
    BY <2>2, <2>5, <2>6, <2>9 DEF LiveHasCron
<1>4. ASSUME UnregisterAll(p) PROVE TypeInv'
  <2>1. /\ mutex = None /\ mutex' = p /\ reload[p].pc = "lock"
        /\ runner' \subseteq runner
        /\ entries' = [s \in Schedules |-> None]
        /\ reload' = [reload EXCEPT ![p].pc = "register"]
        /\ UNCHANGED <<table, running, nextID, firing, faults>>
    BY <1>4 DEF UnregisterAll, UnregisterAllUnlocked
  <2>2. /\ \A q \in Processes \ {p} : reload'[q] = reload[q]
        /\ reload'[p].pc = "register" /\ reload'[p].todo = reload[p].todo
        /\ reload'[p] \in ReloadState
    BY <2>1 DEF TypeOK, ReloadState
  <2>3. reload' \in [Processes -> ReloadState]
    BY <2>1, <2>2 DEF TypeOK
  <2>4. \A q \in Processes : reload'[q].pc = "register" <=> mutex' = q
    BY <1>1, <2>1, <2>2 DEF TypeOK
  <2>5. \A s \in Schedules : firing'[s].pc \in {"write", "unlock"} <=> mutex' = s
    BY <2>1, Kinds DEF TypeOK
  <2>6. TypeOK'
    BY <2>1, <2>3, <2>4, <2>5 DEF TypeOK
  <2>7. ReadOnce'
    BY <2>1, <2>2 DEF ReadOnce
  <2>8. Waiting' = Waiting \ {p} /\ p \in Waiting
    BY <2>1, <2>2 DEF Waiting
  <2>9. W = Cardinality(Waiting') + 1 /\ Cardinality(Waiting') \in Nat
    <3>1. Waiting' \in SUBSET Processes
      BY <2>8 DEF Waiting
    <3>2. QED
      BY <2>8, <3>1, Counts DEF Waiting
  <2>10. Left' \in Nat /\ Left' <= N
    <3>1. Left' = Cardinality(reload[p].todo)
      BY <2>1, <2>2 DEF Left
    <3>2. IsFiniteSet(reload[p].todo) /\ Cardinality(reload[p].todo) <= N
      BY <2>1 DEF ReadOnce
    <3>3. QED
      BY <3>1, <3>2, FS_CardinalityType
  <2>11. Fits'
    <3>1. N * W = N * Cardinality(Waiting') + N /\ N * Cardinality(Waiting') \in Nat
      BY <1>1, <2>9, OneMore
    <3>2. QED
      BY <1>1, <2>1, <2>10, <3>1 DEF Fits
  <2>12. QED
    BY <2>1, <2>6, <2>7, <2>11 DEF LiveHasCron
<1>5. ASSUME Register(p) PROVE TypeInv'
  <2>1. PICK item \in reload[p].todo, ok \in Results("next") :
          LET s == item[1]
              e == [id |-> nextID, schedule |-> s, cron |-> item[2], turn |-> IF running THEN 1 ELSE 0]
          IN /\ runner' = runner \cup {e}
             /\ nextID' = nextID + 1
             /\ entries' = [entries EXCEPT ![s] = e.id]
             /\ UpdateNextRun(s, Next_(e), ok)
             /\ reload' = [reload EXCEPT ![p].todo = @ \ {item}]
             /\ Charge(~ok)
    BY <1>5 DEF Register
  <2>2. /\ reload[p].pc = "register" /\ mutex = p
        /\ UNCHANGED <<running, mutex, firing>>
    BY <1>5 DEF Register, TypeOK
  <2> DEFINE s == item[1]
             e == [id |-> nextID, schedule |-> s, cron |-> item[2], turn |-> IF running THEN 1 ELSE 0]
  <2>3. s \in Schedules /\ item[2] \in Crons
    BY DEF TypeOK, ReloadState
  <2>4. Left > 0 /\ nextID <= MaxEntries
    <3>1. IsFiniteSet(reload[p].todo) /\ Left = Cardinality(reload[p].todo)
      BY <2>2 DEF ReadOnce, Left
    <3>2. Left # 0
      BY <3>1, FS_EmptySet
    <3>3. QED
      BY <1>1, <1>2, <3>2
  <2>5. nextID \in 1..MaxEntries /\ e \in Entry
    BY <1>1, <2>3, <2>4, MaxTurnsAssumption DEF TypeOK, Entry
  <2>6. Next_(e) \in Times \cup {None} /\ ok \in BOOLEAN
    BY <2>5 DEF Next_, Results, Entry, Times
  <2>7. table' \in [Schedules -> ScheduleRow] /\ LiveHasCron'
    BY <2>1, <2>3, <2>6, NextRunTypes
  <2>8. /\ \A q \in Processes \ {p} : reload'[q] = reload[q]
        /\ reload'[p].pc = "register" /\ reload'[p].todo = reload[p].todo \ {item}
        /\ reload'[p] \in ReloadState
    BY <2>1, <2>2 DEF TypeOK, ReloadState
  <2>9. reload' \in [Processes -> ReloadState]
    BY <2>1, <2>8 DEF TypeOK
  <2>10. /\ entries' \in [Schedules -> 1..MaxEntries \cup {None}]
         /\ runner' \subseteq Entry
         /\ nextID' \in 1..(MaxEntries + 1)
    BY <2>1, <2>3, <2>5, MaxEntriesAssumption DEF TypeOK
  <2>11. TypeOK'
    BY <2>1, <2>2, <2>7, <2>8, <2>9, <2>10, ChargeType DEF TypeOK
  <2>12. /\ IsFiniteSet(reload[p].todo)
         /\ IsFiniteSet(reload'[p].todo)
         /\ Cardinality(reload'[p].todo) = Left - 1
         /\ Left = Cardinality(reload[p].todo)
    <3>1. IsFiniteSet(reload[p].todo) /\ Left = Cardinality(reload[p].todo)
      BY <2>2 DEF ReadOnce, Left
    <3>2. /\ IsFiniteSet(reload[p].todo \ {item})
          /\ Cardinality(reload[p].todo \ {item}) = Cardinality(reload[p].todo) - 1
      BY <3>1, FS_RemoveElement
    <3>3. QED
      BY <2>8, <3>1, <3>2
  <2>13. ReadOnce'
    <3>1. \A q \in Processes \ {p} : reload'[q] = reload[q]
      BY <2>8
    <3>2. Cardinality(reload'[p].todo) <= N
      BY <1>1, <2>12
    <3>3. \A a, b \in reload'[p].todo : a[1] = b[1] => a = b
      BY <2>2, <2>8 DEF ReadOnce
    <3>4. QED
      BY <2>12, <3>1, <3>2, <3>3 DEF ReadOnce
  <2>14. Waiting' = Waiting
    BY <2>2, <2>8 DEF Waiting
  <2>15. Left' = Left - 1
    BY <2>2, <2>12 DEF Left
  <2>16. Fits'
    BY <1>1, <1>2, <2>1, <2>14, <2>15 DEF Fits
  <2>17. QED
    BY <2>7, <2>11, <2>13, <2>16
<1>6. ASSUME Unlock(p) PROVE TypeInv'
  <2>1. /\ reload[p].pc = "register" /\ mutex = p /\ mutex' = None
        /\ reload' = [reload EXCEPT ![p].pc = "return"]
        /\ UNCHANGED <<table, runner, running, nextID, entries, firing, faults>>
    BY <1>6 DEF Unlock, TypeOK
  <2>2. /\ \A q \in Processes \ {p} : reload'[q] = reload[q]
        /\ reload'[p].pc = "return" /\ reload'[p] \in ReloadState
    BY <2>1 DEF TypeOK, ReloadState
  <2>3. reload' \in [Processes -> ReloadState]
    BY <2>1, <2>2 DEF TypeOK
  <2>4. /\ \A q \in Processes : reload'[q].pc = "register" <=> mutex' = q
        /\ \A s \in Schedules : firing'[s].pc \in {"write", "unlock"} <=> mutex' = s
    BY <1>1, <2>1, <2>2, Kinds DEF TypeOK
  <2>5. TypeOK'
    BY <2>1, <2>3, <2>4 DEF TypeOK
  <2>6. ReadOnce'
    BY <2>2 DEF ReadOnce
  <2>7. Waiting' = Waiting /\ Left' = 0
    BY <1>1, <2>1, <2>2 DEF Waiting, Left
  <2>8. Fits'
    BY <1>1, <1>2, <2>1, <2>7 DEF Fits
  <2>9. QED
    BY <2>1, <2>5, <2>6, <2>8 DEF LiveHasCron
<1>7. ASSUME Return(p) PROVE TypeInv'
  <2>1. /\ reload[p].pc = "return" /\ mutex # p
        /\ reload' = [reload EXCEPT ![p] = Done]
        /\ running' \in BOOLEAN
        /\ UNCHANGED <<table, nextID, entries, mutex, firing, faults>>
    BY <1>7 DEF Return, TypeOK
  <2>2. /\ \A q \in Processes \ {p} : reload'[q] = reload[q]
        /\ reload'[p].pc = "done" /\ reload'[p] \in ReloadState
    BY <2>1 DEF TypeOK, ReloadState, Done
  <2>3. reload' \in [Processes -> ReloadState]
    BY <2>1, <2>2 DEF TypeOK
  <2>4. runner' \subseteq Entry
    <3>1. \A e \in Entry : [e EXCEPT !.turn = 1] \in Entry
      BY MaxTurnsAssumption DEF Entry
    <3>2. QED
      BY <1>7, <3>1 DEF Return, TypeOK
  <2>5. TypeOK'
    BY <2>1, <2>2, <2>3, <2>4 DEF TypeOK
  <2>6. ReadOnce'
    BY <2>2 DEF ReadOnce
  <2>7. Waiting' = Waiting /\ Left' = Left
    BY <2>1, <2>2 DEF Waiting, Left
  <2>8. Fits'
    BY <2>1, <2>7 DEF Fits
  <2>9. QED
    BY <2>1, <2>5, <2>6, <2>8 DEF LiveHasCron
<1>8. QED
  BY <1>3, <1>4, <1>5, <1>6, <1>7 DEF ReloadStep

-----------------------------------------------------------------------------
(* Firings. *)

(* The entry that was due, with the firing after it to come. *)
LEMMA Advanced ==
    ASSUME TypeOK, NEW e \in runner, Fire(e)
    PROVE  \E later \in Entry :
              /\ later.id = e.id /\ later.schedule = e.schedule
              /\ later.turn = e.turn + 1
              /\ runner' = (runner \ {e}) \cup {later}
<1>1. e \in Entry /\ e.turn < MaxTurns
  BY DEF TypeOK, Fire
<1>2. [e EXCEPT !.turn = e.turn + 1] \in Entry
  BY <1>1, MaxTurnsAssumption DEF Entry
<1>3. QED
  BY <1>1, <1>2 DEF Fire, Entry

(* That the Next of a schedule's entry is a time needs the runner to know  *)
(* the entry: Entry(id) of an unknown id would be another schedule's.      *)
LEMMA FiringTypes ==
    ASSUME TypeInv, RegisteredOnce
    PROVE  /\ \A e \in runner : Fire(e) => TypeInv'
           /\ \A s \in Schedules : FiringStep(s) => TypeInv'
<1> USE DEF TypeInv
(* Firings leave the processes alone, and hold the mutex between two of    *)
(* their critical sections or not at all.                                  *)
<1>1. ASSUME TypeOK', LiveHasCron', UNCHANGED <<nextID, reload>>,
             (mutex \notin Processes /\ mutex' \notin Processes) \/ mutex' = mutex
      PROVE  TypeInv'
  <2>1. Waiting' = Waiting /\ Left' = Left
    BY <1>1 DEF Waiting, Left
  <2>2. QED
    BY <1>1, <2>1 DEF Fits, ReadOnce
<1>2. ASSUME NEW e \in runner, Fire(e) PROVE TypeInv'
  <2>1. /\ e.schedule \in Schedules /\ firing[e.schedule].pc \in {"none", "dropped"}
        /\ firing' = [firing EXCEPT ![e.schedule].pc = "submit"]
        /\ UNCHANGED <<table, running, nextID, entries, mutex, reload, faults>>
    BY <1>2 DEF Fire, Move, TypeOK, Entry
  <2>6. runner' \subseteq Entry
    BY <1>2, Advanced DEF Fire, TypeOK
  <2>2. [firing[e.schedule] EXCEPT !.pc = "submit"] \in FiringState
    BY <2>1 DEF TypeOK, FiringState
  <2>3. /\ \A s \in Schedules \ {e.schedule} : firing'[s] = firing[s]
        /\ firing'[e.schedule].pc = "submit"
        /\ firing' \in [Schedules -> FiringState]
    BY <2>1, <2>2 DEF TypeOK, FiringState
  <2>4. TypeOK'
    BY <2>1, <2>3, <2>6 DEF TypeOK
  <2>5. QED
    BY <1>1, <2>1, <2>4 DEF LiveHasCron
<1>3. ASSUME NEW s \in Schedules, Submit(s) PROVE TypeInv'
  <2>1. PICK ok \in Results("submit") :
          /\ firing' = [firing EXCEPT
                          ![s] = IF ok /\ s \in Enabled THEN [@ EXCEPT !.pc = "next"]
                                                        ELSE Dropped]
          /\ Charge(~ok)
    BY <1>3 DEF Submit
  <2>2. /\ firing[s].pc = "submit"
        /\ UNCHANGED <<table, runner, running, nextID, entries, mutex, reload>>
    BY <1>3 DEF Submit
  <2>3. [firing[s] EXCEPT !.pc = "next"] \in FiringState /\ Dropped \in FiringState
    BY DEF TypeOK, FiringState, Dropped
  <2>4. /\ \A t \in Schedules \ {s} : firing'[t] = firing[t]
        /\ firing'[s].pc \in {"next", "dropped"}
        /\ firing' \in [Schedules -> FiringState]
    BY <2>1, <2>3 DEF TypeOK, FiringState, Dropped
  <2>5. TypeOK'
    BY <2>1, <2>2, <2>4, ChargeType DEF TypeOK
  <2>6. QED
    BY <1>1, <2>2, <2>5 DEF LiveHasCron
<1>4. ASSUME NEW s \in Schedules, ReadNext(s) PROVE TypeInv'
  <2> DEFINE read == CHOOSE e \in runner : e.id = entries[s]
  <2>1. /\ mutex = None /\ mutex' = s /\ firing[s].pc = "next"
        /\ firing' = [firing EXCEPT
                        ![s] = IF entries[s] = None THEN [pc |-> "unlock", next |-> None]
                               ELSE [pc |-> "write", next |-> Next_(read)]]
        /\ UNCHANGED <<table, runner, running, nextID, entries, reload, faults>>
    BY <1>4 DEF ReadNext, ReadNextUnlocked
  <2>2. ASSUME entries[s] # None PROVE Next_(read) \in Times
    <3>1. \E e \in runner : e.id = entries[s]
      BY <2>2 DEF RegisteredOnce
    <3>2. read \in runner
      BY <3>1
    <3>3. read \in Entry
      BY <3>2 DEF TypeOK
    <3>4. QED
      BY <3>3 DEF Next_, Entry, Times
  <2> DEFINE new == IF entries[s] = None THEN [pc |-> "unlock", next |-> None]
                    ELSE [pc |-> "write", next |-> Next_(read)]
  <2>3. new \in FiringState /\ new.pc \in {"write", "unlock"}
    BY <2>2 DEF FiringState
  <2> HIDE DEF new
  <2>4. /\ \A t \in Schedules \ {s} : firing'[t] = firing[t]
        /\ firing'[s].pc \in {"write", "unlock"}
        /\ firing' \in [Schedules -> FiringState]
    <3>1. firing' = [firing EXCEPT ![s] = new]
      BY <2>1 DEF new
    <3>2. QED
      BY <2>3, <3>1 DEF TypeOK
  <2>5. /\ \A p \in Processes : reload'[p].pc = "register" <=> mutex' = p
        /\ \A t \in Schedules : firing'[t].pc \in {"write", "unlock"} <=> mutex' = t
        /\ mutex' \in Processes \cup Schedules \cup {None}
    BY <2>1, <2>4, Kinds DEF TypeOK
  <2>6. TypeOK'
    BY <2>1, <2>4, <2>5 DEF TypeOK
  <2>7. QED
    BY <1>1, <2>1, <2>6, Kinds DEF LiveHasCron
<1>5. ASSUME NEW s \in Schedules, WriteNext(s) PROVE TypeInv'
  <2>1. PICK ok \in Results("next") :
          UpdateNextRun(s, firing[s].next, ok) /\ Charge(~ok)
    BY <1>5 DEF WriteNext
  <2>2. /\ firing[s].pc = "write" /\ firing' = [firing EXCEPT ![s].pc = "unlock"]
        /\ UNCHANGED <<runner, running, nextID, entries, mutex, reload>>
    BY <1>5 DEF WriteNext, Move
  <2>3. firing[s].next \in Times \cup {None} /\ ok \in BOOLEAN
    BY DEF TypeOK, FiringState, Results
  <2>4. table' \in [Schedules -> ScheduleRow] /\ LiveHasCron'
    BY <2>1, <2>3, NextRunTypes
  <2>5. [firing[s] EXCEPT !.pc = "unlock"] \in FiringState
    BY DEF TypeOK, FiringState
  <2>6. /\ \A t \in Schedules \ {s} : firing'[t] = firing[t]
        /\ firing'[s].pc = "unlock"
        /\ firing' \in [Schedules -> FiringState]
    BY <2>2, <2>5 DEF TypeOK, FiringState
  <2>7. TypeOK'
    BY <2>1, <2>2, <2>4, <2>6, ChargeType DEF TypeOK
  <2>8. QED
    BY <1>1, <2>2, <2>4, <2>7
<1>6. ASSUME NEW s \in Schedules, EndFiring(s) PROVE TypeInv'
  <2>1. /\ firing[s].pc = "unlock" /\ mutex = s /\ mutex' = None
        /\ firing' = [firing EXCEPT ![s] = NoFiring]
        /\ UNCHANGED <<table, runner, running, nextID, entries, reload, faults>>
    BY <1>6 DEF EndFiring, TypeOK
  <2>2. NoFiring \in FiringState /\ NoFiring.pc = "none"
    BY DEF FiringState, NoFiring
  <2>3. /\ \A t \in Schedules \ {s} : firing'[t] = firing[t]
        /\ firing'[s].pc = "none"
        /\ firing' \in [Schedules -> FiringState]
    BY <2>1, <2>2 DEF TypeOK
  <2>4. /\ \A p \in Processes : reload'[p].pc = "register" <=> mutex' = p
        /\ \A t \in Schedules : firing'[t].pc \in {"write", "unlock"} <=> mutex' = t
    BY <2>1, <2>3, Kinds DEF TypeOK
  <2>5. TypeOK'
    BY <2>1, <2>3, <2>4 DEF TypeOK
  <2>6. QED
    BY <1>1, <2>1, <2>5, Kinds DEF LiveHasCron
<1>7. QED
  BY <1>2, <1>3, <1>4, <1>5, <1>6 DEF FiringStep

-----------------------------------------------------------------------------
(* Registration.  The runner holds nothing the map does not know, so the   *)
(* next reload removes everything, and registers each schedule it read on  *)
(* a clean map.                                                            *)

(* Ids are not used twice. *)
IdsFresh == /\ \A e \in runner : e.id < nextID
            /\ \A e, f \in runner : e.id = f.id => e = f

(* A schedule that is yet to be registered has no entry. *)
YetToRegister ==
    \A p \in Processes : reload[p].pc = "register" =>
        \A item \in reload[p].todo : entries[item[1]] = None

RegisterInv == RegisteredOnce /\ IdsFresh /\ YetToRegister

LEMMA InitRegister == Init => RegisterInv
<1> SUFFICES ASSUME Init PROVE RegisterInv
  OBVIOUS
<1>1. RegisteredOnce /\ IdsFresh
  BY DEF Init, RegisteredOnce, IdsFresh
<1>2. \A p \in Processes : reload[p].pc \in {"read", "done"}
  BY DEF Init, Done
<1>3. YetToRegister
  <2>1. \A p \in Processes : reload[p].pc # "register"
    BY <1>2
  <2>2. QED
    BY <2>1 DEF YetToRegister
<1>4. QED
  BY <1>1, <1>3 DEF RegisterInv

(* Steps that change neither the runner nor the map. *)
LEMMA SameEntries ==
    ASSUME RegisterInv, UNCHANGED <<runner, nextID, entries>>,
           \A p \in Processes : reload'[p].pc = "register" => reload'[p] = reload[p]
    PROVE  RegisterInv'
  BY DEF RegisterInv, RegisteredOnce, IdsFresh, YetToRegister

LEMMA RequestRegisters ==
    ASSUME TypeOK, RegisterInv, NEW r \in Requests, NEW s, NEW row, Request(r, s, row)
    PROVE  RegisterInv'
<1>1. /\ UNCHANGED <<runner, nextID, entries>>
      /\ reload' = [reload EXCEPT ![r].pc = "read"]
  BY DEF Request
<1>2. r \in Processes /\ reload[r] \in ReloadState
  BY DEF TypeOK, Processes
<1>3. /\ reload'[r].pc = "read"
      /\ \A p \in Processes \ {r} : reload'[p] = reload[p]
  BY <1>1, <1>2 DEF TypeOK, ReloadState
<1>4. QED
  BY <1>1, <1>3, SameEntries

LEMMA ReloadRegisters ==
    ASSUME TypeInv, RegisterInv, NEW p \in Processes, ReloadStep(p)
    PROVE  RegisterInv'
<1>1. TypeOK /\ ReadOnce /\ reload[p] \in ReloadState
  BY DEF TypeInv, TypeOK
<1>2. ASSUME GetAllEnabled(p) \/ Unlock(p) PROVE RegisterInv'
  <2>1. UNCHANGED <<runner, nextID, entries>>
    BY <1>2 DEF GetAllEnabled, Unlock
  <2>2. CASE GetAllEnabled(p)
    <3>1. PICK ok \in Results("read") :
            reload' = [reload EXCEPT
                        ![p] = IF ok THEN [pc |-> "lock",
                                           todo |-> {<<s, table[s].cron>> : s \in Enabled}]
                                     ELSE [Done EXCEPT !.pc = "return"]]
      BY <2>2 DEF GetAllEnabled
    <3>2. QED
      BY <1>1, <2>1, <3>1, SameEntries DEF TypeOK, Done
  <2>3. CASE Unlock(p)
    <3>1. reload' = [reload EXCEPT ![p] = [reload[p] EXCEPT !.pc = "return"]]
      BY <2>3 DEF Unlock
    <3>2. QED
      BY <1>1, <2>1, <3>1, SameEntries DEF TypeOK, ReloadState
  <2>4. QED
    BY <1>2, <2>2, <2>3
<1>3. ASSUME UnregisterAll(p) PROVE RegisterInv'
  <2>1. /\ mutex = None /\ nextID' = nextID
        /\ runner' = {e \in runner : \A s \in Schedules : entries[s] # e.id}
        /\ entries' = [s \in Schedules |-> None]
        /\ reload' = [reload EXCEPT ![p].pc = "register"]
    BY <1>3 DEF UnregisterAll, UnregisterAllUnlocked
  <2>2. runner' = {}
    <3>1. \A e \in runner : e.schedule \in Schedules /\ entries[e.schedule] = e.id
      BY <1>1 DEF TypeOK, Entry, RegisterInv, RegisteredOnce
    <3>2. QED
      BY <2>1, <3>1
  <2>3. RegisteredOnce' /\ IdsFresh'
    BY <2>1, <2>2 DEF RegisteredOnce, IdsFresh
  <2>4. \A q \in Processes : reload'[q].todo \in SUBSET (Schedules \X Crons)
    BY <1>1, <2>1 DEF TypeOK, ReloadState
  <2>5. YetToRegister'
    BY <2>1, <2>4 DEF YetToRegister
  <2>6. QED
    BY <2>3, <2>5 DEF RegisterInv
<1>4. ASSUME Register(p) PROVE RegisterInv'
  <2>1. PICK item \in reload[p].todo :
          LET e == [id |-> nextID, schedule |-> item[1], cron |-> item[2], turn |-> IF running THEN 1 ELSE 0]
          IN /\ runner' = runner \cup {e}
             /\ nextID' = nextID + 1
             /\ entries' = [entries EXCEPT ![item[1]] = e.id]
             /\ reload' = [reload EXCEPT ![p].todo = @ \ {item}]
    BY <1>4 DEF Register
  <2> DEFINE s == item[1]
             e == [id |-> nextID, schedule |-> s, cron |-> item[2], turn |-> IF running THEN 1 ELSE 0]
  <2>2. /\ s \in Schedules /\ nextID \in Nat /\ nextID # None
        /\ reload[p].pc = "register" /\ mutex = p
    <3>1. s \in Schedules
      BY <1>1 DEF ReloadState
    <3>2. nextID \in Nat /\ reload[p].pc = "register" /\ mutex = p
      BY <1>1, <1>4, MaxEntriesAssumption DEF TypeOK, Register
    <3>3. TypeInv'
      BY <1>4, ReloadTypes DEF ReloadStep
    <3>4. nextID # None
      BY <2>1, <3>1, <3>2, <3>3, Kinds, MaxEntriesAssumption, NoneAssumption DEF TypeInv, TypeOK
    <3>5. QED
      BY <3>1, <3>2, <3>4
  <2>3. \A t \in Schedules : entries'[t] = IF t = s THEN nextID ELSE entries[t]
    BY <1>1, <2>1, <2>2 DEF TypeOK
  <2>4. entries[s] = None
    BY <2>2 DEF RegisterInv, YetToRegister
  <2>5. \A f \in runner : /\ f.schedule \in Schedules \ {s}
                          /\ f.id \in Nat /\ f.id < nextID
                          /\ f.id # None
    BY <1>1, <2>4, Kinds DEF TypeOK, Entry, RegisterInv, RegisteredOnce, IdsFresh
  <2>6. e.id = nextID /\ e.schedule = s
    OBVIOUS
  <2> HIDE DEF e
  <2>7. runner' = runner \cup {e}
    BY <2>1 DEF e
  <2>8. RegisteredOnce'
    <3>1. \A f \in runner' : entries'[f.schedule] = f.id
      BY <2>2, <2>3, <2>5, <2>6, <2>7 DEF RegisterInv, RegisteredOnce
    <3>2. ASSUME NEW t \in Schedules, entries'[t] # None
          PROVE  \E f \in runner' : f.id = entries'[t]
      BY <2>3, <2>6, <2>7, <3>2 DEF RegisterInv, RegisteredOnce
    <3>3. QED
      BY <3>1, <3>2 DEF RegisteredOnce
  <2>9. IdsFresh'
    <3>1. \A f \in runner' : f.id < nextID'
      BY <2>1, <2>2, <2>5, <2>6, <2>7
    <3>2. \A f, g \in runner' : f.id = g.id => f = g
      BY <2>2, <2>5, <2>6, <2>7 DEF RegisterInv, IdsFresh
    <3>3. QED
      BY <3>1, <3>2 DEF IdsFresh
  <2>10. YetToRegister'
    <3>1. ASSUME NEW q \in Processes, reload'[q].pc = "register" PROVE q = p
      BY <1>1, <2>1, <2>2, <3>1 DEF TypeOK
    <3>2. reload'[p].todo = reload[p].todo \ {item}
      BY <1>1, <2>1 DEF TypeOK, ReloadState
    <3>3. ASSUME NEW other \in reload[p].todo \ {item} PROVE entries'[other[1]] = None
      <4>1. other[1] \in Schedules \ {s}
        BY <1>1, <2>2 DEF ReadOnce, ReloadState
      <4>2. QED
        BY <2>2, <2>3, <4>1 DEF RegisterInv, YetToRegister
    <3>4. QED
      BY <3>1, <3>2, <3>3 DEF YetToRegister
  <2>11. QED
    BY <2>8, <2>9, <2>10 DEF RegisterInv
<1>5. ASSUME Return(p) PROVE RegisterInv'
  <2>1. /\ UNCHANGED <<nextID, entries>>
        /\ reload' = [reload EXCEPT ![p] = Done]
        /\ runner' = IF p = Main THEN {[e EXCEPT !.turn = 1] : e \in runner} ELSE runner
    BY <1>5 DEF Return
  <2>2. \A e \in runner : /\ [e EXCEPT !.turn = 1].id = e.id
                          /\ [e EXCEPT !.turn = 1].schedule = e.schedule
    BY <1>1 DEF TypeOK, Entry
  <2>3. /\ \A f \in runner' : \E e \in runner :
             f.id = e.id /\ f.schedule = e.schedule
        /\ \A e \in runner : \E f \in runner' : f.id = e.id
    BY <2>1, <2>2
  <2>4. RegisteredOnce'
    <3>1. \A f \in runner' : entries[f.schedule] = f.id
      BY <2>3 DEF RegisterInv, RegisteredOnce
    <3>2. ASSUME NEW t \in Schedules, entries[t] # None
          PROVE  \E f \in runner' : f.id = entries[t]
      BY <2>3, <3>2 DEF RegisterInv, RegisteredOnce
    <3>3. QED
      BY <2>1, <3>1, <3>2 DEF RegisteredOnce
  <2>5. IdsFresh'
    <3>1. \A f \in runner' : f.id < nextID'
      BY <2>1, <2>3 DEF RegisterInv, IdsFresh
    <3>2. CASE p = Main
      <4>1. ASSUME NEW e \in runner, NEW f \in runner,
                   [e EXCEPT !.turn = 1].id = [f EXCEPT !.turn = 1].id
            PROVE  e = f
        BY <2>2, <4>1 DEF RegisterInv, IdsFresh
      <4>2. runner' = {[e EXCEPT !.turn = 1] : e \in runner}
        BY <2>1, <3>2
      <4>3. ASSUME NEW f \in runner', NEW g \in runner', f.id = g.id PROVE f = g
        <5>1. PICK d \in runner : f = [d EXCEPT !.turn = 1]
          BY <4>2
        <5>2. PICK e \in runner : g = [e EXCEPT !.turn = 1]
          BY <4>2
        <5>3. QED
          BY <4>1, <4>3, <5>1, <5>2
      <4>4. QED
        BY <3>1, <4>3 DEF IdsFresh
    <3>3. CASE p # Main
      BY <2>1, <3>1, <3>3 DEF RegisterInv, IdsFresh
    <3>4. QED
      BY <3>2, <3>3
  <2>6. /\ reload'[p].pc = "done"
        /\ \A q \in Processes \ {p} : reload'[q] = reload[q]
    BY <1>1, <2>1 DEF TypeOK, Done
  <2>7. YetToRegister'
    BY <2>1, <2>6 DEF RegisterInv, YetToRegister
  <2>8. QED
    BY <2>4, <2>5, <2>7 DEF RegisterInv
<1>6. QED
  BY <1>2, <1>3, <1>4, <1>5 DEF ReloadStep

LEMMA FiringRegisters ==
    ASSUME TypeOK, RegisterInv
    PROVE  /\ \A e \in runner : Fire(e) => RegisterInv'
           /\ \A s \in Schedules : FiringStep(s) => RegisterInv'
<1>1. ASSUME NEW e \in runner, Fire(e) PROVE RegisterInv'
  <2>1. PICK later \in Entry : /\ later.id = e.id /\ later.schedule = e.schedule
                               /\ runner' = (runner \ {e}) \cup {later}
    BY <1>1, Advanced
  <2>2. UNCHANGED <<nextID, entries, reload>>
    BY <1>1 DEF Fire
  <2>3. RegisteredOnce'
    BY <2>1, <2>2 DEF RegisterInv, RegisteredOnce
  <2>4. IdsFresh'
    BY <2>1, <2>2 DEF RegisterInv, IdsFresh
  <2>5. QED
    BY <2>2, <2>3, <2>4 DEF RegisterInv, YetToRegister
<1>2. ASSUME NEW s \in Schedules, FiringStep(s) PROVE RegisterInv'
  BY <1>2, SameEntries DEF FiringStep, Submit, ReadNext, ReadNextUnlocked, WriteNext, EndFiring
<1>3. QED
  BY <1>1, <1>2

LEMMA Registration == Spec => [](TypeInv /\ RegisterInv)
<1>1. TypeInv /\ RegisterInv /\ [Next]_vars => TypeInv' /\ RegisterInv'
  <2> SUFFICES ASSUME TypeInv, RegisterInv, [Next]_vars PROVE TypeInv' /\ RegisterInv'
    OBVIOUS
  <2>1. ASSUME NEW r \in Requests, NEW s \in Schedules,
               \/ \E enabled \in BOOLEAN, cron \in Crons :
                    CreateSchedule(r, s, enabled, cron) \/ UpdateSchedule(r, s, enabled, cron)
               \/ DeleteSchedule(r, s)
        PROVE  TypeInv' /\ RegisterInv'
    <3>1. TypeOK /\ table[s] \in ScheduleRow
      BY DEF TypeInv, TypeOK
    <3>2. PICK row \in ScheduleRow :
            (row.state = "live" => row.cron \in Crons) /\ Request(r, s, row)
      BY <2>1, <3>1 DEF CreateSchedule, UpdateSchedule, DeleteSchedule, ScheduleRow, NoRow
    <3>3. QED
      BY <3>1, <3>2, RequestTypes, RequestRegisters
  <2>2. ASSUME NEW p \in Processes, ReloadStep(p) PROVE TypeInv' /\ RegisterInv'
    BY <2>2, ReloadTypes, ReloadRegisters
  <2>3. ASSUME \/ \E e \in runner : Fire(e)
               \/ \E s \in Schedules : FiringStep(s)
        PROVE  TypeInv' /\ RegisterInv'
    BY <2>3, FiringTypes, FiringRegisters DEF RegisterInv, TypeInv
  <2>4. ASSUME UNCHANGED vars PROVE TypeInv' /\ RegisterInv'
    <3>1. TypeInv'
      BY <2>4 DEF vars, TypeInv, TypeOK, LiveHasCron, ReadOnce, Fits, Waiting, Left
    <3>2. QED
      BY <2>4, <3>1, SameEntries DEF vars
  <2>5. QED
    BY <2>1, <2>2, <2>3, <2>4 DEF Next
<1>2. QED
  BY InitTypes, InitRegister, <1>1, PTL DEF Spec

(* The type invariant, with the mutex in the hands of whoever is in a      *)
(* critical section, whatever fails and however many requests, firings and *)
(* schedules there are.                                                    *)
THEOREM TypeCorrect == Spec => []TypeOK
  BY Registration, PTL DEF TypeInv

(* However reloads and firings overlap, every entry of the cron runner is  *)
(* the one the map knows for its schedule: no schedule is registered twice *)
(* and none survives the next reload.                                      *)
THEOREM RegisteredKept == Spec => []RegisteredOnce
  BY Registration, PTL DEF RegisterInv

-----------------------------------------------------------------------------
(* next_run_at.  Every write of it that reaches the table is the Next of   *)
(* the entry the schedule has while the mutex is held.                     *)

(* A schedule that was read or registered has been created: creating it    *)
(* again does not touch its next_run_at.                                   *)
Created ==
    /\ \A e \in runner : table[e.schedule].state # "new"
    /\ \A p \in Processes : reload[p].pc \in {"lock", "register"} =>
         \A item \in reload[p].todo : table[item[1]].state # "new"

(* What a firing is about to write is the Next of its schedule's entry.    *)
WritesNext ==
    \A s \in Schedules : firing[s].pc = "write" =>
        \A e \in runner : e.schedule = s => firing[s].next = Next_(e)

(* A firing that has written, and not let go of the mutex yet, leaves      *)
(* nothing behind.                                                         *)
Reached(s) == IF firing[s].pc = "unlock" THEN "none" ELSE firing[s].pc

NextRunCurrent ==
    \A e \in runner : table[e.schedule].state = "live" =>
        TimeOfNext(table[e.schedule].nextRun, e, Reached(e.schedule))

MatchInv == Created /\ WritesNext /\ NextRunCurrent

(* Until main has started the runner no entry has been seen, and nothing   *)
(* fires.                                                                  *)
StartInv ==
    /\ reload[Main].pc # "done" => ~running
    /\ ~running => /\ \A s \in Schedules : firing[s].pc = "none"
                   /\ \A e \in runner : e.turn = 0

LEMMA InitStart == Init => StartInv
  BY DEF Init, StartInv, Processes, Done, NoFiring

LEMMA StartKept ==
    ASSUME TypeOK, StartInv, [Next]_vars
    PROVE  StartInv'
<1>1. Main \in Processes /\ \A p \in Processes : reload[p] \in ReloadState
  BY DEF TypeOK, Processes
<1>2. ASSUME NEW r \in Requests, NEW s \in Schedules, NEW row, Request(r, s, row)
      PROVE  StartInv'
  BY <1>1, <1>2, MainAssumption DEF Request, StartInv, TypeOK
<1>3. ASSUME NEW p \in Processes, ReloadStep(p) PROVE StartInv'
  <2>1. CASE GetAllEnabled(p) \/ UnregisterAll(p) \/ Unlock(p)
    <3>1. /\ reload[p].pc # "done" /\ UNCHANGED <<running, firing>>
          /\ runner' \subseteq runner
      BY <2>1 DEF GetAllEnabled, UnregisterAll, UnregisterAllUnlocked, Unlock
    <3>2. PICK state : reload' = [reload EXCEPT ![p] = state]
      <4>1. CASE GetAllEnabled(p)
        BY <4>1 DEF GetAllEnabled
      <4>2. CASE UnregisterAll(p)
        BY <4>2 DEF UnregisterAll, UnregisterAllUnlocked
      <4>3. CASE Unlock(p)
        BY <4>3 DEF Unlock
      <4>4. QED
        BY <2>1, <4>1, <4>2, <4>3
    <3>3. QED
      BY <1>1, <3>1, <3>2 DEF StartInv, TypeOK
  <2>2. CASE Register(p)
    <3>1. PICK e, state :
             /\ e.turn = IF running THEN 1 ELSE 0
             /\ runner' = runner \cup {e}
             /\ reload' = [reload EXCEPT ![p] = state]
      BY <2>2 DEF Register
    <3>2. reload[p].pc # "done" /\ UNCHANGED <<running, firing>>
      BY <2>2 DEF Register
    <3>3. QED
      BY <1>1, <3>1, <3>2 DEF StartInv, TypeOK
  <2>3. CASE Return(p)
    <3>1. /\ reload' = [reload EXCEPT ![p] = Done] /\ UNCHANGED firing
          /\ running' = (running \/ p = Main)
          /\ p # Main => runner' = runner
      BY <2>3 DEF Return
    <3>2. Done.pc = "done"
      BY DEF Done
    <3>3. QED
      BY <1>1, <3>1, <3>2 DEF StartInv, TypeOK
  <2>4. QED
    BY <1>3, <2>1, <2>2, <2>3 DEF ReloadStep
<1>4. ASSUME NEW e \in runner, Fire(e) PROVE StartInv'
  BY <1>4 DEF Fire, StartInv
<1>5. ASSUME NEW s \in Schedules, FiringStep(s) PROVE StartInv'
  <2>1. firing[s].pc # "none" /\ UNCHANGED <<running, reload>>
    BY <1>5 DEF FiringStep, Submit, ReadNext, ReadNextUnlocked, WriteNext, EndFiring
  <2>2. QED
    BY <2>1 DEF StartInv
<1>6. ASSUME UNCHANGED vars PROVE StartInv'
  BY <1>6 DEF vars, StartInv
<1>7. QED
  BY <1>2, <1>3, <1>4, <1>5, <1>6
     DEF Next, CreateSchedule, UpdateSchedule, DeleteSchedule

LEMMA InitMatch == Init => MatchInv
<1> SUFFICES ASSUME Init PROVE MatchInv
  OBVIOUS
<1>1. /\ runner = {}
      /\ \A s \in Schedules : firing[s].pc = "none"
      /\ \A p \in Processes : reload[p].pc \in {"read", "done"}
  BY DEF Init, NoFiring, Done
<1>2. \A p \in Processes : reload[p].pc \notin {"lock", "register"}
  BY <1>1
<1>3. QED
  BY <1>1, <1>2 DEF MatchInv, Created, WritesNext, NextRunCurrent

(* The requests, which leave next_run_at alone except on rows that nobody  *)
(* has read yet or that are gone.                                          *)
LEMMA RequestMatches ==
    ASSUME TypeOK, MatchInv, NEW r \in Requests, NEW s \in Schedules, NEW row,
           row.state # "new",
           \/ table[s].state = "new"
           \/ row.state = "deleted"
           \/ table[s].state = "live" /\ row.nextRun = table[s].nextRun,
           Request(r, s, row)
    PROVE  MatchInv'
<1>1. /\ \A t \in Schedules : table'[t] = IF t = s THEN row ELSE table[t]
      /\ reload' = [reload EXCEPT ![r].pc = "read"]
      /\ UNCHANGED <<runner, firing>>
  BY DEF Request, TypeOK
<1>2. r \in Processes /\ reload[r] \in ReloadState
  BY DEF TypeOK, Processes
<1>3. /\ reload'[r].pc = "read"
      /\ \A p \in Processes \ {r} : reload'[p] = reload[p]
  BY <1>1, <1>2 DEF TypeOK, ReloadState
<1>4. /\ \A e \in runner : e.schedule \in Schedules
      /\ \A p \in Processes : \A item \in reload[p].todo : item[1] \in Schedules
  BY DEF TypeOK, Entry, ReloadState
<1>5. Created'
  BY <1>1, <1>3, <1>4 DEF MatchInv, Created
<1>6. WritesNext'
  BY <1>1 DEF MatchInv, WritesNext
<1>7. NextRunCurrent'
  BY <1>1, <1>4 DEF MatchInv, Created, NextRunCurrent, Reached
<1>8. QED
  BY <1>5, <1>6, <1>7 DEF MatchInv

LEMMA ReloadMatches ==
    ASSUME TypeInv, RegisterInv, MatchInv, StartInv, "next" \notin FaultKinds,
           NEW p \in Processes, ReloadStep(p)
    PROVE  MatchInv'
<1>1. TypeOK /\ LiveHasCron /\ reload[p] \in ReloadState
  BY DEF TypeInv, TypeOK
<1>2. /\ \A e \in runner : e.schedule \in Schedules
      /\ \A q \in Processes : \A item \in reload[q].todo :
           item[1] \in Schedules /\ item[2] \in Crons
  BY <1>1 DEF TypeOK, Entry, ReloadState
(* Steps that neither register nor write. *)
<1>3. ASSUME UNCHANGED <<table, firing>>, runner' \subseteq runner,
             \A q \in Processes : reload'[q].pc \in {"lock", "register"} =>
                 \A item \in reload'[q].todo : table[item[1]].state # "new"
      PROVE  MatchInv'
  BY <1>3 DEF MatchInv, Created, WritesNext, NextRunCurrent, Reached
<1>4. ASSUME GetAllEnabled(p) PROVE MatchInv'
  <2>1. PICK ok \in Results("read") :
          reload' = [reload EXCEPT
                      ![p] = IF ok THEN [pc |-> "lock",
                                         todo |-> {<<s, table[s].cron>> : s \in Enabled}]
                                   ELSE [Done EXCEPT !.pc = "return"]]
    BY <1>4 DEF GetAllEnabled
  <2>2. /\ \A q \in Processes \ {p} : reload'[q] = reload[q]
        /\ reload'[p].pc \in {"lock", "register"} =>
             reload'[p].todo = {<<s, table[s].cron>> : s \in Enabled}
    BY <1>1, <2>1 DEF TypeOK, Done
  <2>3. \A item \in {<<s, table[s].cron>> : s \in Enabled} : table[item[1]].state = "live"
    BY DEF Enabled
  <2>4. UNCHANGED <<table, firing>> /\ runner' \subseteq runner
    BY <1>4 DEF GetAllEnabled
  <2>5. QED
    BY <1>3, <2>2, <2>3, <2>4 DEF MatchInv, Created
<1>5. ASSUME UnregisterAll(p) PROVE MatchInv'
  <2>1. /\ UNCHANGED <<table, firing>> /\ runner' \subseteq runner
        /\ reload[p].pc = "lock"
        /\ reload' = [reload EXCEPT ![p].pc = "register"]
    BY <1>5 DEF UnregisterAll, UnregisterAllUnlocked
  <2>2. /\ \A q \in Processes \ {p} : reload'[q] = reload[q]
        /\ reload'[p].todo = reload[p].todo
    BY <1>1, <2>1 DEF TypeOK, ReloadState
  <2>3. QED
    BY <1>3, <2>1, <2>2 DEF MatchInv, Created
<1>6. ASSUME Unlock(p) PROVE MatchInv'
  <2>1. /\ UNCHANGED <<table, firing>> /\ runner' \subseteq runner
        /\ reload' = [reload EXCEPT ![p].pc = "return"]
    BY <1>6 DEF Unlock
  <2>2. /\ \A q \in Processes \ {p} : reload'[q] = reload[q]
        /\ reload'[p].pc = "return"
    BY <1>1, <2>1 DEF TypeOK, ReloadState
  <2>3. QED
    BY <1>3, <2>1, <2>2 DEF MatchInv, Created
<1>7. ASSUME Register(p) PROVE MatchInv'
  <2>1. PICK item \in reload[p].todo, ok \in Results("next") :
          LET e == [id |-> nextID, schedule |-> item[1], cron |-> item[2], turn |-> IF running THEN 1 ELSE 0]
          IN /\ runner' = runner \cup {e}
             /\ UpdateNextRun(item[1], Next_(e), ok)
             /\ reload' = [reload EXCEPT ![p].todo = @ \ {item}]
    BY <1>7 DEF Register
  <2> DEFINE s == item[1]
             e == [id |-> nextID, schedule |-> s, cron |-> item[2], turn |-> IF running THEN 1 ELSE 0]
  <2>2. /\ s \in Schedules /\ item[2] \in Crons /\ ok = TRUE
        /\ reload[p].pc = "register" /\ mutex = p /\ firing' = firing
    BY <1>1, <1>2, <1>7 DEF Register, Results, May, TypeOK
  <2>3. /\ Next_(e) \in Times /\ e.schedule = s
        /\ Next_(e).entry = e.id /\ Next_(e).turn = e.turn
    <3>1. TypeInv'
      BY <1>7, ReloadTypes DEF ReloadStep
    <3>2. e \in runner'
      BY <2>1
    <3>3. e \in Entry
      BY <3>1, <3>2 DEF TypeInv, TypeOK
    <3>4. QED
      BY <3>3 DEF Next_, Entry, Times
  <2>4. UpdateNextRun(s, Next_(e), ok) /\ runner' = runner \cup {e}
    BY <2>1
  <2> HIDE DEF e
  <2>5. /\ \A t \in Schedules : /\ table'[t].state = table[t].state
                                /\ t # s => table'[t] = table[t]
        /\ table[s].state = "live" => table'[s].nextRun = Next_(e)
    BY <1>1, <2>2, <2>3, <2>4, NextRunTypes
  <2>6. /\ \A q \in Processes \ {p} : reload'[q] = reload[q]
        /\ reload'[p].todo = reload[p].todo \ {item}
    BY <1>1, <2>1 DEF TypeOK, ReloadState
  <2>7. table[s].state # "new"
    BY <2>2 DEF MatchInv, Created
  <2>8. Created'
    <3>1. ASSUME NEW f \in runner' PROVE table'[f.schedule].state # "new"
      BY <1>2, <2>2, <2>3, <2>4, <2>5, <2>7 DEF MatchInv, Created
    <3>2. ASSUME NEW q \in Processes, reload'[q].pc \in {"lock", "register"},
                 NEW other \in reload'[q].todo
          PROVE  table'[other[1]].state # "new"
      <4>1. CASE q = p
        BY <1>2, <2>2, <2>5, <2>6, <3>2, <4>1 DEF MatchInv, Created
      <4>2. CASE q # p
        BY <1>2, <2>5, <2>6, <3>2, <4>2 DEF MatchInv, Created
      <4>3. QED
        BY <4>1, <4>2
    <3>3. QED
      BY <3>1, <3>2 DEF Created
  <2>9. \A t \in Schedules : firing[t].pc # "write"
    BY <2>2, Kinds, <1>1 DEF TypeOK
  <2>10. WritesNext'
    BY <2>2, <2>9 DEF WritesNext
  <2>11. \A f \in runner : f.schedule # s
    <3>1. entries[s] = None
      BY <2>2 DEF RegisterInv, YetToRegister
    <3>2. \A f \in runner : f.id # None
      BY <1>1, Kinds DEF TypeOK, Entry
    <3>3. QED
      BY <3>1, <3>2 DEF RegisterInv, RegisteredOnce
  <2>12. NextRunCurrent'
    <3>1. ASSUME NEW f \in runner', table'[f.schedule].state = "live"
          PROVE  TimeOfNext(table'[f.schedule].nextRun, f, Reached(f.schedule))
      <4>1. CASE f = e
        BY <2>2, <2>3, <2>5, <3>1, <4>1 DEF TimeOfNext
      <4>2. CASE f \in runner
        <5>1. f.schedule \in Schedules \ {s}
          BY <1>2, <2>11, <4>2
        <5>2. table'[f.schedule] = table[f.schedule]
          BY <2>5, <5>1
        <5>3. QED
          BY <3>1, <4>2, <5>2 DEF MatchInv, NextRunCurrent
      <4>3. QED
        BY <2>4, <4>1, <4>2
    <3>2. QED
      BY <2>2, <3>1 DEF NextRunCurrent, Reached
  <2>13. QED
    BY <2>8, <2>10, <2>12 DEF MatchInv
<1>8. ASSUME Return(p) PROVE MatchInv'
  <2>1. /\ UNCHANGED <<table, firing>>
        /\ reload' = [reload EXCEPT ![p] = Done]
        /\ runner' = IF p = Main THEN {[e EXCEPT !.turn = 1] : e \in runner} ELSE runner
    BY <1>8 DEF Return
  <2>2. ASSUME NEW f \in runner'
        PROVE  \E e \in runner : /\ f.id = e.id /\ f.schedule = e.schedule
                                 /\ f = e \/ (e.turn = 0 /\ f.turn = 1 /\ ~running)
    <3>1. CASE p = Main
      <4>1. PICK e \in runner : f = [e EXCEPT !.turn = 1]
        BY <2>1, <2>2, <3>1
      <4>2. e \in Entry
        BY <1>1 DEF TypeOK
      <4>3. ~running /\ e.turn = 0
        BY <1>8, <3>1 DEF Return, StartInv
      <4>4. QED
        BY <4>1, <4>2, <4>3 DEF Entry
    <3>2. CASE p # Main
      BY <2>1, <2>2, <3>2
    <3>3. QED
      BY <3>1, <3>2
  <2>4. /\ reload'[p].pc = "done"
        /\ \A q \in Processes \ {p} : reload'[q] = reload[q]
    BY <1>1, <2>1 DEF TypeOK, Done
  <2>5. Created'
    <3>1. \A f \in runner' : table[f.schedule].state # "new"
      BY <2>2 DEF MatchInv, Created
    <3>2. QED
      BY <2>1, <2>4, <3>1 DEF MatchInv, Created
  <2>6. WritesNext'
    <3>1. ASSUME NEW s \in Schedules, firing[s].pc = "write",
                 NEW f \in runner', f.schedule = s
          PROVE  firing[s].next = Next_(f)
      <4>1. running
        BY <3>1 DEF StartInv
      <4>2. f \in runner
        BY <2>2, <4>1
      <4>3. QED
        BY <3>1, <4>2 DEF MatchInv, WritesNext
    <3>2. QED
      BY <2>1, <3>1 DEF WritesNext
  <2>7. NextRunCurrent'
    <3>1. ASSUME NEW f \in runner', table[f.schedule].state = "live"
          PROVE  TimeOfNext(table[f.schedule].nextRun, f, Reached(f.schedule))
      <4>1. PICK e \in runner : /\ f.id = e.id /\ f.schedule = e.schedule
                                /\ f = e \/ (e.turn = 0 /\ f.turn = 1 /\ ~running)
        BY <2>2
      <4>2. TimeOfNext(table[e.schedule].nextRun, e, Reached(e.schedule))
        BY <3>1, <4>1 DEF MatchInv, NextRunCurrent
      <4>3. CASE f = e
        BY <4>2, <4>3
      <4>4. CASE e.turn = 0 /\ f.turn = 1 /\ ~running
        <5>1. Reached(e.schedule) = "none"
          BY <1>2, <4>4 DEF StartInv, Reached
        <5>2. table[e.schedule].nextRun.turn \in Nat
          BY <4>2, MaxTurnsAssumption DEF TimeOfNext, Times
        <5>3. table[e.schedule].nextRun.turn = 0
          BY <4>2, <4>4, <5>1, <5>2 DEF TimeOfNext
        <5>4. QED
          BY <4>1, <4>2, <4>4, <5>3 DEF TimeOfNext
      <4>5. QED
        BY <4>1, <4>3, <4>4
    <3>2. QED
      BY <2>1, <3>1 DEF NextRunCurrent, Reached
  <2>8. QED
    BY <2>5, <2>6, <2>7 DEF MatchInv
<1>9. QED
  BY <1>4, <1>5, <1>6, <1>7, <1>8 DEF ReloadStep

LEMMA FiringMatches ==
    ASSUME TypeInv, RegisterInv, MatchInv, "next" \notin FaultKinds, NEW s \in Schedules
    PROVE  /\ \A e \in runner : Fire(e) => MatchInv'
           /\ FiringStep(s) => MatchInv'
<1>1. TypeOK /\ LiveHasCron /\ \A e \in runner : e.schedule \in Schedules
  BY DEF TypeInv, TypeOK, Entry
(* Steps that write nothing and do not get ready to. *)
<1>2. ASSUME UNCHANGED <<table, runner, reload>>, NEW t \in Schedules, NEW new,
             new.pc # "write", firing' = [firing EXCEPT ![t] = new],
             \/ new.pc \notin {"none", "unlock"}
             \/ firing[t].pc \in {"none", "unlock"}
             \/ \A e \in runner : e.schedule # t
      PROVE  MatchInv'
  <2>1. \A i \in Schedules : firing'[i] = IF i = t THEN new ELSE firing[i]
    BY <1>1, <1>2 DEF TypeOK
  <2>2. WritesNext'
    BY <1>2, <2>1 DEF MatchInv, WritesNext
  <2>3. NextRunCurrent'
    <3>1. ASSUME NEW e \in runner, table[e.schedule].state = "live"
          PROVE  TimeOfNext(table[e.schedule].nextRun, e, Reached(e.schedule)')
      <4>1. TimeOfNext(table[e.schedule].nextRun, e, Reached(e.schedule))
        BY <3>1 DEF MatchInv, NextRunCurrent
      <4>2. Reached(e.schedule)' = "none" => Reached(e.schedule) = "none"
        BY <1>1, <1>2, <2>1 DEF Reached
      <4>3. QED
        BY <4>1, <4>2 DEF TimeOfNext
    <3>2. QED
      BY <1>2, <3>1 DEF NextRunCurrent
  <2>4. QED
    BY <1>2, <2>2, <2>3 DEF MatchInv, Created
<1>3. ASSUME NEW e \in runner, Fire(e) PROVE MatchInv'
  <2>1. PICK later \in Entry : /\ later.id = e.id /\ later.schedule = e.schedule
                               /\ later.turn = e.turn + 1
                               /\ runner' = (runner \ {e}) \cup {later}
    BY <1>1, <1>3, Advanced
  <2>2. /\ UNCHANGED <<table, reload>>
        /\ \A t \in Schedules : /\ t # e.schedule => firing'[t] = firing[t]
                                /\ t = e.schedule => firing'[t].pc = "submit"
    BY <1>1, <1>3 DEF Fire, Move, TypeOK, FiringState
  <2>3. ASSUME NEW f \in runner \ {e} PROVE f.schedule # e.schedule
    BY DEF RegisterInv, RegisteredOnce, IdsFresh
  <2>4. Created'
    BY <2>1, <2>2 DEF MatchInv, Created
  <2>5. WritesNext'
    BY <2>1, <2>2 DEF MatchInv, WritesNext
  <2>6. NextRunCurrent'
    <3>1. ASSUME table[e.schedule].state = "live"
          PROVE  TimeOfNext(table[e.schedule].nextRun, later, "submit")
      <4>1. PICK time : time = table[e.schedule].nextRun
        OBVIOUS
      <4>2. TimeOfNext(time, e, Reached(e.schedule))
        BY <3>1, <4>1 DEF MatchInv, NextRunCurrent
      <4>3. time.turn \in Nat /\ e.turn \in Nat
        BY <1>1, <4>2, MaxTurnsAssumption DEF TimeOfNext, Times, TypeOK, Entry
      <4>4. time.turn < e.turn + 1
        BY <4>2, <4>3 DEF TimeOfNext
      <4>5. QED
        BY <2>1, <4>1, <4>2, <4>4 DEF TimeOfNext
    <3>2. Reached(e.schedule)' = "submit"
      BY <1>1, <2>2 DEF Reached
    <3>3. ASSUME NEW f \in runner \ {e}, table[f.schedule].state = "live"
          PROVE  TimeOfNext(table[f.schedule].nextRun, f, Reached(f.schedule)')
      <4>1. Reached(f.schedule)' = Reached(f.schedule)
        BY <1>1, <2>2, <2>3 DEF Reached
      <4>2. QED
        BY <3>3, <4>1 DEF MatchInv, NextRunCurrent
    <3>4. ASSUME NEW f \in runner', table'[f.schedule].state = "live"
          PROVE  TimeOfNext(table'[f.schedule].nextRun, f, Reached(f.schedule)')
      <4>1. CASE f = later
        BY <2>1, <2>2, <3>1, <3>2, <3>4, <4>1
      <4>2. CASE f \in runner \ {e}
        BY <2>2, <3>3, <3>4, <4>2
      <4>3. QED
        BY <2>1, <4>1, <4>2
    <3>5. QED
      BY <3>4 DEF NextRunCurrent
  <2>7. QED
    BY <2>4, <2>5, <2>6 DEF MatchInv
<1>4. ASSUME Submit(s) PROVE MatchInv'
  <2> DEFINE next == [firing[s] EXCEPT !.pc = "next"]
  <2>1. next.pc = "next" /\ Dropped.pc = "dropped"
    BY <1>1 DEF TypeOK, FiringState, Dropped
  <2>2. PICK new \in {next, Dropped} : firing' = [firing EXCEPT ![s] = new]
    BY <1>4 DEF Submit
  <2>3. UNCHANGED <<table, runner, reload>>
    BY <1>4 DEF Submit
  <2>4. QED
    BY <1>2, <2>1, <2>2, <2>3
<1>5. ASSUME ReadNext(s) PROVE MatchInv'
  <2> DEFINE read == CHOOSE e \in runner : e.id = entries[s]
             new == IF entries[s] = None THEN [pc |-> "unlock", next |-> None]
                    ELSE [pc |-> "write", next |-> Next_(read)]
  <2>1. firing' = [firing EXCEPT ![s] = new] /\ UNCHANGED <<table, runner, reload>>
    BY <1>5 DEF ReadNext, ReadNextUnlocked
  <2>2. CASE entries[s] = None
    <3>1. new.pc = "unlock"
      BY <2>2
    <3>2. \A e \in runner : e.schedule # s
      <4>1. \A e \in runner : e.id # None
        BY <1>1, Kinds DEF TypeOK, Entry
      <4>2. QED
        BY <2>2, <4>1 DEF RegisterInv, RegisteredOnce
    <3>3. QED
      BY <1>2, <2>1, <3>1, <3>2
  <2>3. CASE entries[s] # None
    <3>1. read \in runner /\ read.id = entries[s]
      BY <2>3 DEF RegisterInv, RegisteredOnce
    <3>2. ASSUME NEW e \in runner, e.schedule = s PROVE e = read
      BY <3>1, <3>2 DEF RegisterInv, RegisteredOnce, IdsFresh
    <3>3. new.next = Next_(read) /\ new.pc = "write"
      BY <2>3
    <3>4. firing[s].pc = "next"
      BY <1>5 DEF ReadNext, ReadNextUnlocked
    <3> HIDE DEF new, read
    <3>5. \A t \in Schedules : firing'[t] = IF t = s THEN new ELSE firing[t]
      BY <1>1, <2>1 DEF TypeOK
    <3>6. WritesNext'
      <4>1. ASSUME NEW t \in Schedules, firing'[t].pc = "write",
                   NEW e \in runner, e.schedule = t
            PROVE  firing'[t].next = Next_(e)
        <5>1. CASE t = s
          BY <3>2, <3>3, <3>5, <4>1, <5>1
        <5>2. CASE t # s
          BY <3>5, <4>1, <5>2 DEF MatchInv, WritesNext
        <5>3. QED
          BY <5>1, <5>2
      <4>2. QED
        BY <2>1, <4>1 DEF WritesNext, Next_
    <3>7. NextRunCurrent'
      <4>1. ASSUME NEW e \in runner, table[e.schedule].state = "live"
            PROVE  TimeOfNext(table[e.schedule].nextRun, e, Reached(e.schedule)')
        <5>1. TimeOfNext(table[e.schedule].nextRun, e, Reached(e.schedule))
          BY <4>1 DEF MatchInv, NextRunCurrent
        <5>2. Reached(e.schedule)' = "none" => Reached(e.schedule) = "none"
          BY <1>1, <3>3, <3>5 DEF Reached
        <5>3. QED
          BY <5>1, <5>2 DEF TimeOfNext
      <4>2. QED
        BY <2>1, <4>1 DEF NextRunCurrent
    <3>8. QED
      BY <2>1, <3>6, <3>7 DEF MatchInv, Created
  <2>4. QED
    BY <2>2, <2>3
<1>6. ASSUME WriteNext(s) PROVE MatchInv'
  <2>1. PICK ok \in Results("next") : UpdateNextRun(s, firing[s].next, ok)
    BY <1>6 DEF WriteNext
  <2>2. /\ firing[s].pc = "write" /\ UNCHANGED <<runner, reload>>
        /\ firing' = [firing EXCEPT ![s].pc = "unlock"]
    BY <1>6 DEF WriteNext, Move
  <2>3. firing[s].next \in Times \cup {None} /\ ok = TRUE
    BY <1>1 DEF TypeOK, FiringState, Results, May
  <2>4. /\ \A t \in Schedules : /\ table'[t].state = table[t].state
                                /\ t # s => table'[t] = table[t]
        /\ ok /\ table[s].state = "live" => table'[s].nextRun = firing[s].next
        /\ ~(ok /\ table[s].state = "live") => table' = table
    BY <1>1, <2>1, <2>3, NextRunTypes
  <2>5. Created'
    <3>1. \A p \in Processes : \A item \in reload[p].todo : item[1] \in Schedules
      BY <1>1 DEF TypeOK, ReloadState
    <3>2. /\ \A e \in runner : table'[e.schedule].state # "new"
          /\ \A p \in Processes : reload[p].pc \in {"lock", "register"} =>
               \A item \in reload[p].todo : table'[item[1]].state # "new"
      BY <1>1, <2>4, <3>1 DEF MatchInv, Created
    <3>3. QED
      BY <2>2, <3>2 DEF Created
  <2>6. /\ \A t \in Schedules \ {s} : firing'[t] = firing[t]
        /\ firing'[s].pc = "unlock"
    BY <1>1, <2>2 DEF TypeOK, FiringState
  <2>7. WritesNext'
    BY <2>2, <2>6 DEF MatchInv, WritesNext
  <2>8. NextRunCurrent'
    <3>1. ASSUME NEW e \in runner, table'[e.schedule].state = "live"
          PROVE  TimeOfNext(table'[e.schedule].nextRun, e, Reached(e.schedule)')
      <4>1. e.schedule \in Schedules /\ table[e.schedule].state = "live"
        BY <1>1, <2>4, <3>1
      <4>2. CASE e.schedule = s
        <5>1. table'[e.schedule].nextRun = Next_(e)
          BY <2>2, <2>3, <2>4, <4>1, <4>2 DEF MatchInv, WritesNext
        <5>2. e \in Entry
          BY <1>1 DEF TypeOK
        <5>3. QED
          BY <5>1, <5>2 DEF TimeOfNext, Next_, Entry, Times
      <4>3. CASE e.schedule # s
        <5>1. /\ table'[e.schedule] = table[e.schedule]
              /\ Reached(e.schedule)' = Reached(e.schedule)
          BY <2>4, <2>6, <4>1, <4>3 DEF Reached
        <5>2. QED
          BY <4>1, <5>1 DEF MatchInv, NextRunCurrent
      <4>4. QED
        BY <4>2, <4>3
    <3>2. QED
      BY <2>2, <3>1 DEF NextRunCurrent
  <2>9. QED
    BY <2>5, <2>7, <2>8 DEF MatchInv
<1>7. ASSUME EndFiring(s) PROVE MatchInv'
  <2>1. /\ firing' = [firing EXCEPT ![s] = NoFiring] /\ NoFiring.pc = "none"
        /\ UNCHANGED <<table, runner, reload>> /\ firing[s].pc = "unlock"
    BY <1>7 DEF EndFiring, NoFiring
  <2>2. QED
    BY <1>2, <2>1
<1>8. QED
  BY <1>3, <1>4, <1>5, <1>6, <1>7 DEF FiringStep

(* Where the database takes every UpdateNextRun, the next_run_at of each   *)
(* registered schedule is the time of the firing its present entry waits   *)
(* for, whatever reloads overlap and whichever entry a firing began with:  *)
(* neither a time of an entry that was replaced nor one that has passed,   *)
(* except while a firing is under way or has been dropped, and the zero    *)
(* time of Start until the first firing.                                   *)
THEOREM NextRunKept ==
    ASSUME "next" \notin FaultKinds
    PROVE  Spec => []NextRunMatches
<1>1. TypeInv /\ RegisterInv /\ StartInv /\ MatchInv /\ [Next]_vars => MatchInv'
  <2> SUFFICES ASSUME TypeInv, RegisterInv, StartInv, MatchInv, [Next]_vars PROVE MatchInv'
    OBVIOUS
  <2>1. ASSUME NEW r \in Requests, NEW s \in Schedules,
               \/ \E enabled \in BOOLEAN, cron \in Crons :
                    CreateSchedule(r, s, enabled, cron) \/ UpdateSchedule(r, s, enabled, cron)
               \/ DeleteSchedule(r, s)
        PROVE  MatchInv'
    <3>1. TypeOK /\ table[s] \in ScheduleRow
      BY DEF TypeInv, TypeOK
    <3>2. CASE DeleteSchedule(r, s)
      <4>1. [NoRow EXCEPT !.state = "deleted"].state = "deleted"
        BY DEF NoRow
      <4>2. QED
        BY <3>1, <3>2, <4>1, RequestMatches DEF DeleteSchedule
    <3>3. ASSUME NEW enabled \in BOOLEAN, NEW cron \in Crons,
                 CreateSchedule(r, s, enabled, cron)
          PROVE  MatchInv'
      BY <3>1, <3>3, RequestMatches DEF CreateSchedule
    <3>4. ASSUME NEW enabled \in BOOLEAN, NEW cron \in Crons,
                 UpdateSchedule(r, s, enabled, cron)
          PROVE  MatchInv'
      <4> DEFINE row == [table[s] EXCEPT !.enabled = enabled, !.cron = cron]
      <4>1. row.state = table[s].state /\ row.nextRun = table[s].nextRun
        BY <3>1 DEF ScheduleRow
      <4>2. QED
        BY <3>1, <3>4, <4>1, RequestMatches DEF UpdateSchedule
    <3>5. QED
      BY <2>1, <3>2, <3>3, <3>4
  <2>2. ASSUME NEW p \in Processes, ReloadStep(p) PROVE MatchInv'
    BY <2>2, ReloadMatches
  <2>3. ASSUME NEW e \in runner, Fire(e) PROVE MatchInv'
    <3>1. e.schedule \in Schedules
      BY DEF TypeInv, TypeOK, Entry
    <3>2. QED
      BY <2>3, <3>1, FiringMatches
  <2>4. ASSUME NEW s \in Schedules, FiringStep(s) PROVE MatchInv'
    BY <2>4, FiringMatches
  <2>5. ASSUME UNCHANGED vars PROVE MatchInv'
    BY <2>5 DEF vars, MatchInv, Created, WritesNext, NextRunCurrent, Reached
  <2>6. QED
    BY <2>1, <2>2, <2>3, <2>4, <2>5 DEF Next
<1>2. TypeInv /\ StartInv /\ [Next]_vars => StartInv'
  BY StartKept DEF TypeInv
<1>3. TypeInv /\ MatchInv => NextRunMatches
  <2> SUFFICES ASSUME TypeInv, MatchInv, mutex = None,
                      NEW e \in runner, table[e.schedule].state = "live"
               PROVE  TimeOfNext(table[e.schedule].nextRun, e, firing[e.schedule].pc)
    BY DEF NextRunMatches
  <2>1. e.schedule \in Schedules /\ firing[e.schedule].pc # "unlock"
    BY Kinds DEF TypeInv, TypeOK, Entry
  <2>2. QED
    BY <2>1 DEF MatchInv, NextRunCurrent, Reached
<1>4. QED
  BY Registration, InitMatch, InitStart, <1>1, <1>2, <1>3, PTL DEF Spec

=============================================================================
