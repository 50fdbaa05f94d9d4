--------------------------- MODULE LogStream_proofs ---------------------------
(***************************************************************************)
(* Proofs about LogStream: its types, that a stream sends every log of one *)
(* writer once and in order, and what its last sweep may lose.             *)
(***************************************************************************)
EXTENDS LogStream, FiniteSetTheorems, SequenceTheorems, TLAPS

-----------------------------------------------------------------------------
(* ORDER BY id.  Sorted(ids) is the only increasing sequence of the ids.   *)

Increasing(s) == \A i, j \in DOMAIN s : i < j => s[i] < s[j]

LEMMA RankOf ==
    ASSUME NEW ids \in SUBSET Nat, IsFiniteSet(ids), NEW l \in ids, NEW k \in ids
    PROVE  /\ Rank(ids, l) \in 1..Cardinality(ids)
           /\ l < k => Rank(ids, l) < Rank(ids, k)
           /\ Rank(ids, l) = Rank(ids, k) => l = k
<1> DEFINE upTo(id) == {m \in ids : m <= id}
<1>1. ASSUME NEW id \in ids
      PROVE  /\ IsFiniteSet(upTo(id)) /\ Cardinality(upTo(id)) \in Nat \ {0}
             /\ Cardinality(upTo(id)) <= Cardinality(ids)
  <2>1. upTo(id) \in SUBSET ids /\ id \in upTo(id)
    OBVIOUS
  <2>2. IsFiniteSet(upTo(id)) /\ Cardinality(upTo(id)) <= Cardinality(ids)
    BY <2>1, FS_Subset
  <2>3. Cardinality(upTo(id)) \in Nat /\ Cardinality(upTo(id)) # 0
    BY <2>1, <2>2, FS_CardinalityType, FS_EmptySet
  <2>4. QED
    BY <2>2, <2>3
<1>2. Cardinality(ids) \in Nat
  BY FS_CardinalityType
<1>3. ASSUME NEW a \in ids, NEW b \in ids, a < b PROVE Rank(ids, a) < Rank(ids, b)
  <2>a. a \in Nat /\ b \in Nat /\ (\A m \in ids : m \in Nat)
    OBVIOUS
  <2>1. upTo(a) \in SUBSET upTo(b) /\ b \in upTo(b) /\ b \notin upTo(a)
    <3>1. \A m \in ids : m <= a => m <= b
      BY <1>3, <2>a
    <3>2. b <= b /\ ~(b <= a)
      BY <1>3, <2>a
    <3>3. QED
      BY <3>1, <3>2
  <2>2. Cardinality(upTo(a)) <= Cardinality(upTo(b)) /\ Cardinality(upTo(a)) # Cardinality(upTo(b))
    BY <1>1, <2>1, FS_Subset
  <2>3. QED
    BY <1>1, <2>2 DEF Rank
<1>4. Rank(ids, l) \in 1..Cardinality(ids)
  BY <1>1, <1>2 DEF Rank
<1>5. Rank(ids, l) \in Nat /\ Rank(ids, k) \in Nat
  BY <1>1 DEF Rank
<1>6. QED
  BY <1>3, <1>4, <1>5

LEMMA SortedFacts ==
    ASSUME NEW ids \in SUBSET Nat, IsFiniteSet(ids)
    PROVE  /\ Sorted(ids) \in Seq(ids)
           /\ Len(Sorted(ids)) = Cardinality(ids)
           /\ Cardinality(ids) \in Nat
           /\ Increasing(Sorted(ids))
           /\ \A i \in 1..Cardinality(ids) : Rank(ids, Sorted(ids)[i]) = i
           /\ \A id \in ids : \E i \in 1..Cardinality(ids) : Sorted(ids)[i] = id
<1> DEFINE n == Cardinality(ids)
           s == Sorted(ids)
           rank == [id \in ids |-> Rank(ids, id)]
<1>1. n \in Nat
  BY FS_CardinalityType
<1>2. IsFiniteSet(1..n) /\ Cardinality(1..n) = n
  BY <1>1, FS_Interval
<1>3. rank \in Injection(ids, 1..n)
  BY RankOf DEF Injection, IsInjective
<1>4. rank \in Surjection(ids, 1..n)
  BY <1>2, <1>3, FS_Injection
<1>5. \A i \in 1..n : \E id \in ids : Rank(ids, id) = i
  BY <1>4 DEF Surjection
<1>6. \A i \in 1..n : s[i] \in ids /\ Rank(ids, s[i]) = i
  BY <1>5 DEF Sorted
<1>7. s \in [1..n -> ids]
  BY <1>6 DEF Sorted
<1>8. s \in Seq(ids) /\ Len(s) = n
  BY <1>1, <1>7
<1>9. Increasing(s)
  <2> SUFFICES ASSUME NEW i \in 1..n, NEW j \in 1..n, i < j PROVE s[i] < s[j]
    BY <1>7 DEF Increasing
  <2>1. s[i] \in ids /\ s[j] \in ids /\ Rank(ids, s[i]) = i /\ Rank(ids, s[j]) = j
    BY <1>6
  <2>2. ASSUME s[j] < s[i] PROVE j < i
    <3>1. Rank(ids, s[j]) < Rank(ids, s[i])
      BY <2>1, <2>2, RankOf
    <3>2. QED
      BY <2>1, <3>1
  <2>3. s[i] # s[j]
    BY <2>1
  <2>4. s[i] \in Nat /\ s[j] \in Nat
    BY <2>1
  <2>5. QED
    BY <1>1, <2>2, <2>3, <2>4
<1>10. ASSUME NEW id \in ids PROVE \E i \in 1..n : s[i] = id
  <2>1. Rank(ids, id) \in 1..n
    BY RankOf
  <2>2. s[Rank(ids, id)] \in ids /\ Rank(ids, s[Rank(ids, id)]) = Rank(ids, id)
    BY <1>6, <2>1
  <2>3. s[Rank(ids, id)] = id
    BY <2>2, RankOf
  <2>4. QED
    BY <2>1, <2>3
<1>11. QED
  BY <1>1, <1>6, <1>8, <1>9, <1>10

LEMMA SortedUnique ==
    ASSUME NEW ids \in SUBSET Nat, NEW s \in Seq(ids), Increasing(s), ids \subseteq ToSet(s)
    PROVE  IsFiniteSet(ids) /\ s = Sorted(ids)
<1> DEFINE n == Len(s)
<1>1. n \in Nat /\ s \in [1..n -> ids] /\ DOMAIN s = 1..n
  OBVIOUS
<1> /\ \A i \in 1..n : s[i] \in Nat
    /\ \A i, j \in 1..n : i < j => s[i] < s[j]
  BY <1>1 DEF Increasing
<1>2. s \in Bijection(1..n, ids)
  <2>1. \A id \in ids : \E i \in 1..n : s[i] = id
    BY <1>1 DEF ToSet
  <2>2. \A i, j \in 1..n : s[i] = s[j] => i = j
    BY <1>1
  <2>3. QED
    BY <1>1, <2>1, <2>2 DEF Bijection, Injection, Surjection, IsInjective
<1>3. IsFiniteSet(ids) /\ Cardinality(ids) = n
  <2>1. ExistsBijection(1..n, ids)
    BY <1>2 DEF ExistsBijection
  <2>2. QED
    BY <1>1, <2>1, FS_NatBijection, FS_CountingElements
<1>4. ASSUME NEW i \in 1..n PROVE Rank(ids, s[i]) = i
  <2> DEFINE low == {m \in ids : m <= s[i]}
             f == [j \in 1..i |-> s[j]]
  <2>1. \A j \in 1..i : s[j] \in low
    BY <1>1
  <2>2. f \in [1..i -> low] /\ (\A j, k \in 1..i : f[j] = f[k] => j = k)
    <3>1. \A j, k \in 1..i : s[j] = s[k] => j = k
      BY <1>1
    <3>2. QED
      BY <2>1, <3>1
  <2>3. ASSUME NEW m \in low PROVE \E j \in 1..i : f[j] = m
    <3>1. PICK j \in 1..n : s[j] = m
      BY <1>1 DEF ToSet
    <3>2. ~(i < j)
      BY <1>1, <3>1
    <3>3. QED
      BY <1>1, <3>1, <3>2
  <2>4. f \in Bijection(1..i, low)
    BY <2>2, <2>3 DEF Bijection, Injection, Surjection, IsInjective
  <2>5. Cardinality(low) = i
    BY <1>1, <2>4, FS_CountingElements DEF ExistsBijection
  <2>6. QED
    BY <2>5 DEF Rank
<1>5. ASSUME NEW i \in 1..n PROVE s[i] = Sorted(ids)[i]
  <2>1. /\ s[i] \in ids /\ Sorted(ids)[i] \in ids
        /\ Rank(ids, s[i]) = i /\ Rank(ids, Sorted(ids)[i]) = i
    BY <1>1, <1>3, <1>4, SortedFacts
  <2>2. QED
    BY <1>3, <2>1, RankOf
<1>6. s = Sorted(ids)
  <2>1. Sorted(ids) \in [1..n -> ids]
    BY <1>1, <1>3, SortedFacts
  <2>2. QED
    BY <1>1, <1>5, <2>1
<1>7. QED
  BY <1>3, <1>6

(* The first k elements of an increasing sequence of the ids.              *)
LEMMA Prefix ==
    ASSUME NEW ids \in SUBSET Nat, NEW s \in Seq(ids), Increasing(s),
           \A l \in ids : \E i \in 1..Len(s) : s[i] = l,
           NEW k \in 0..Len(s)
    PROVE  /\ SubSeq(s, 1, k) \in Seq(ids) /\ Len(SubSeq(s, 1, k)) = k
           /\ Increasing(SubSeq(s, 1, k))
           /\ \A i \in 1..k : \A l \in ids :
                 l <= SubSeq(s, 1, k)[i] => \E j \in 1..i : SubSeq(s, 1, k)[j] = l
           /\ k = Len(s) => \A l \in ids : \E j \in 1..k : SubSeq(s, 1, k)[j] = l
<1>1. Len(s) \in Nat /\ k \in Nat /\ k <= Len(s)
  OBVIOUS
<1>2. DOMAIN s = 1..Len(s) /\ s \in [1..Len(s) -> ids]
  OBVIOUS
<1>3. /\ \A i \in 1..Len(s) : s[i] \in Nat /\ s[i] \in ids
      /\ \A i, j \in 1..Len(s) : i < j => s[i] < s[j]
  BY <1>2 DEF Increasing
<1> PICK b : b = SubSeq(s, 1, k)
  OBVIOUS
<1>4. b \in Seq(ids) /\ Len(b) = k /\ DOMAIN b = 1..k /\ \A i \in 1..k : b[i] = s[i]
  BY <1>1, <1>2
<1>5. Increasing(b)
  BY <1>1, <1>3, <1>4 DEF Increasing
<1>6. ASSUME NEW i \in 1..k, NEW l \in ids, l <= b[i] PROVE \E j \in 1..i : b[j] = l
  <2>1. PICK j \in 1..Len(s) : s[j] = l
    OBVIOUS
  <2>2. l \in Nat /\ s[i] \in Nat /\ b[i] = s[i] /\ i \in 1..Len(s)
    BY <1>1, <1>3, <1>4
  <2>3. ~(i < j)
    BY <1>3, <1>6, <2>1, <2>2
  <2>4. j \in 1..i /\ j \in 1..k
    BY <1>1, <2>2, <2>3
  <2>5. QED
    BY <1>4, <2>1, <2>4
<1>7. k = Len(s) => \A l \in ids : \E j \in 1..k : b[j] = l
  BY <1>4
<1>8. QED
  BY <1>4, <1>5, <1>6, <1>7

-----------------------------------------------------------------------------
(* Types.  A worker holds an id the sequence has given out.                *)

TypeInv == /\ TypeOK
           /\ \A w \in Writers : writing[w] <= lastId

(* A stream may also be broken, and its job be finished, from outside this  *)
(* module: the panel that follows the stream does both.                    *)
Broken == /\ stream' = Closed
          /\ faults' \in {faults, faults + 1} /\ faults' <= MaxFaults
          /\ UNCHANGED <<lastId, writing, logs, finished, sent, streams, before>>

Finished == /\ finished' = TRUE
            /\ before' = logs
            /\ UNCHANGED <<lastId, writing, logs, stream, sent, streams, faults>>

AnyNext == Next \/ Broken \/ Finished

LEMMA InitTypes == Init => TypeInv
<1> SUFFICES ASSUME Init PROVE TypeInv
  OBVIOUS
<1>1. /\ lastId = 0 /\ writing = [w \in Writers |-> 0] /\ logs = {} /\ finished = FALSE
      /\ sent = <<>> /\ streams = 0 /\ faults = 0 /\ before = {}
      /\ stream = [pc |-> "closed", lastLogID |-> 0, terminal |-> FALSE]
  BY DEF Init, Closed
<1>2. /\ writing \in [Writers -> 0..MaxLogs]
      /\ \A w \in Writers : writing[w] <= lastId
  BY <1>1, BoundsAssumption
<1>3. /\ stream \in [pc: Open \cup {"closed", "ended", "expired"},
                     lastLogID: 0..MaxLogs, terminal: BOOLEAN]
      /\ ~stream.terminal
  BY <1>1, BoundsAssumption
<1>4. lastId \in 0..MaxLogs /\ streams \in 0..MaxStreams /\ faults \in 0..MaxFaults
  BY <1>1, BoundsAssumption
<1>5. sent \in Seq(1..MaxLogs)
  BY <1>1
<1>6. logs \in SUBSET (1..lastId) /\ before \in SUBSET logs /\ finished \in BOOLEAN
  BY <1>1
<1>7. QED
  BY <1>2, <1>3, <1>4, <1>5, <1>6 DEF TypeInv, TypeOK

LEMMA LogsFinite ==
    ASSUME TypeOK
    PROVE  /\ logs \in SUBSET Nat /\ logs \in SUBSET (1..MaxLogs)
           /\ \A P \in SUBSET logs : P \in SUBSET Nat /\ IsFiniteSet(P)
<1>1. lastId \in Nat /\ lastId <= MaxLogs /\ MaxLogs \in Nat /\ logs \in SUBSET (1..lastId)
  BY BoundsAssumption DEF TypeOK
<1>2. logs \in SUBSET (1..MaxLogs) /\ logs \in SUBSET Nat
  BY <1>1
<1>3. IsFiniteSet(1..MaxLogs)
  BY <1>1, FS_Interval
<1>4. \A P \in SUBSET logs : IsFiniteSet(P)
  BY <1>2, <1>3, FS_Subset
<1>5. QED
  BY <1>2, <1>4

(* A batch is the oldest part of the logs after id, and all of it unless   *)
(* it is full.                                                             *)
LEMMA BatchOfLogs ==
    ASSUME TypeOK, NEW id \in Nat
    PROVE  LET b == ListSince(id)
           IN /\ b \in Seq({l \in logs : l > id})
              /\ Increasing(b)
              /\ \A i \in 1..Len(b) : \A l \in logs :
                    l > id /\ l <= b[i] => \E j \in 1..i : b[j] = l
              /\ Len(b) \in Nat /\ Len(b) <= Batch
              /\ Len(b) # Batch => \A l \in logs : l > id => \E j \in 1..Len(b) : b[j] = l
<1>a. PICK later : later = {l \in logs : l > id}
  OBVIOUS
<1>b. PICK s : s = Sorted(later)
  OBVIOUS
<1>1. /\ later \in SUBSET Nat
      /\ s \in Seq(later) /\ Increasing(s)
      /\ \A l \in later : \E i \in 1..Len(s) : s[i] = l
  <2>1. later \in SUBSET Nat /\ IsFiniteSet(later)
    BY <1>a, LogsFinite
  <2>2. QED
    BY <1>b, <2>1, SortedFacts
<1>2. Len(s) \in Nat /\ Batch \in Nat
  BY <1>1, BatchAssumption
<1>c. PICK k : k = IF Len(s) < Batch THEN Len(s) ELSE Batch
  OBVIOUS
<1>3. k \in 0..Len(s) /\ k <= Batch /\ (k # Batch => k = Len(s))
  BY <1>2, <1>c
<1>d. PICK b : b = SubSeq(s, 1, k)
  OBVIOUS
<1>4. ListSince(id) = b
  BY <1>a, <1>b, <1>c, <1>d DEF ListSince
<1>5. /\ b \in Seq(later) /\ Len(b) = k /\ Increasing(b)
      /\ \A i \in 1..k : \A l \in later : l <= b[i] => \E j \in 1..i : b[j] = l
      /\ k = Len(s) => \A l \in later : \E j \in 1..k : b[j] = l
  <2>1. /\ SubSeq(s, 1, k) \in Seq(later) /\ Len(SubSeq(s, 1, k)) = k
        /\ Increasing(SubSeq(s, 1, k))
        /\ \A i \in 1..k : \A l \in later :
              l <= SubSeq(s, 1, k)[i] => \E j \in 1..i : SubSeq(s, 1, k)[j] = l
        /\ k = Len(s) => \A l \in later : \E j \in 1..k : SubSeq(s, 1, k)[j] = l
    BY <1>1, <1>3, Prefix, Zenon
  <2>2. QED
    BY <1>d, <2>1
<1>6. /\ \A i \in 1..k : \A l \in logs :
            l > id /\ l <= b[i] => \E j \in 1..i : b[j] = l
      /\ k # Batch => \A l \in logs : l > id => \E j \in 1..k : b[j] = l
  BY <1>3, <1>5, <1>a
<1>7. QED
  BY <1>2, <1>3, <1>4, <1>5, <1>6, <1>a

LEMMA SeqOfSubset ==
    ASSUME NEW T, NEW S \in SUBSET T, NEW b \in Seq(S)
    PROVE  b \in Seq(T) /\ (b # <<>> => Len(b) \in 1..Len(b) /\ Last(b) \in S)
<1>1. Len(b) \in Nat /\ b \in [1..Len(b) -> S] /\ (b # <<>> => Len(b) # 0)
  OBVIOUS
<1>2. b \in [1..Len(b) -> T]
  BY <1>1
<1>3. b \in Seq(T)
  BY <1>1, <1>2
<1>4. b # <<>> => Len(b) \in 1..Len(b)
  BY <1>1
<1>5. QED
  BY <1>1, <1>3, <1>4 DEF Last

(* What a read of the logs sends, as the stream and its client see it.     *)
LEMMA SendTypes ==
    ASSUME TypeInv, NEW b \in Seq({l \in logs : l > stream.lastLogID}),
           NEW pc \in {"status", "ended"}, Send(b, pc)
    PROVE  /\ stream' \in [pc: {"drain", "status", "late", "closed", "ended", "expired"},
                            lastLogID: 0..MaxLogs, terminal: BOOLEAN]
           /\ sent' \in Seq(1..MaxLogs)
           /\ sent' = sent \o b
           /\ stream'.pc = pc /\ stream'.terminal = stream.terminal
           /\ stream'.lastLogID = IF b = <<>> THEN stream.lastLogID ELSE Last(b)
           /\ stream'.lastLogID \in 0..MaxLogs
<1>1. /\ stream \in [pc: {"drain", "status", "late", "closed", "ended", "expired"},
                     lastLogID: 0..MaxLogs, terminal: BOOLEAN]
      /\ sent \in Seq(1..MaxLogs)
  BY DEF TypeInv, TypeOK, Open
<1>2. /\ sent' = sent \o b
      /\ stream' = [stream EXCEPT !.pc = pc,
                       !.lastLogID = IF b = <<>> THEN stream.lastLogID ELSE Last(b)]
  BY DEF Send
<1>3. {l \in logs : l > stream.lastLogID} \in SUBSET (1..MaxLogs)
  BY LogsFinite DEF TypeInv
<1>4. b \in Seq(1..MaxLogs)
  BY <1>3, SeqOfSubset
<1>5. b # <<>> => Last(b) \in 1..MaxLogs
  BY <1>3, SeqOfSubset
<1>6. sent' \in Seq(1..MaxLogs)
  BY <1>1, <1>2, <1>4
<1>7. /\ stream'.pc = pc /\ stream'.terminal = stream.terminal
      /\ stream'.lastLogID = IF b = <<>> THEN stream.lastLogID ELSE Last(b)
  BY <1>1, <1>2
<1>8. stream'.lastLogID \in 0..MaxLogs
  BY <1>1, <1>5, <1>7, BoundsAssumption
<1>9. stream' = [stream EXCEPT !.pc = pc, !.lastLogID = stream'.lastLogID]
  BY <1>2, <1>7
<1>10. stream' \in [pc: {"drain", "status", "late", "closed", "ended", "expired"},
                   lastLogID: 0..MaxLogs, terminal: BOOLEAN]
  BY <1>1, <1>8, <1>9
<1>11. QED
  BY <1>2, <1>6, <1>7, <1>8, <1>10

LEMMA ChargeTypes ==
    ASSUME TypeInv, NEW kind, NEW ok \in ReadResults(kind), Charge(~ok)
    PROVE  faults' \in 0..MaxFaults /\ ok \in BOOLEAN
<1>1. faults \in 0..MaxFaults
  BY DEF TypeInv, TypeOK
<1>2. CASE ok = TRUE
  BY <1>1, <1>2 DEF Charge
<1>3. CASE ok = FALSE /\ May(kind)
  <2>1. faults' = faults + 1
    BY <1>3 DEF Charge
  <2>2. faults < MaxFaults
    BY <1>3 DEF May
  <2>3. faults' \in 0..MaxFaults
    BY <1>1, <2>1, <2>2, BoundsAssumption
  <2>4. QED
    BY <1>3, <2>3
<1>4. QED
  BY <1>2, <1>3 DEF ReadResults

(* Drain and DrainLate send nothing or a batch.                            *)
LEMMA NothingOrBatch ==
    ASSUME TypeInv, NEW b, b = <<>> \/ b = ListSince(stream.lastLogID)
    PROVE  b \in Seq({l \in logs : l > stream.lastLogID})
<1>1. stream.lastLogID \in Nat
  BY BoundsAssumption DEF TypeInv, TypeOK
<1>2. ListSince(stream.lastLogID) \in Seq({l \in logs : l > stream.lastLogID})
  BY <1>1, BatchOfLogs DEF TypeInv
<1>3. <<>> \in Seq({l \in logs : l > stream.lastLogID})
  OBVIOUS
<1>4. QED
  BY <1>2, <1>3

LEMMA StepTypes ==
    ASSUME TypeInv, [AnyNext]_vars
    PROVE  TypeInv'
<1> USE BoundsAssumption
<1>1. /\ lastId \in Nat /\ lastId <= MaxLogs
      /\ writing \in [Writers -> 0..MaxLogs]
      /\ \A w \in Writers : writing[w] <= lastId
      /\ logs \in SUBSET (1..lastId) /\ before \in SUBSET logs
      /\ finished \in BOOLEAN
      /\ streams \in 0..MaxStreams /\ faults \in 0..MaxFaults
      /\ stream.terminal => finished
  BY DEF TypeInv, TypeOK
<1>2. /\ stream \in [pc: {"drain", "status", "late", "closed", "ended", "expired"},
                     lastLogID: 0..MaxLogs, terminal: BOOLEAN]
      /\ sent \in Seq(1..MaxLogs)
  BY DEF TypeInv, TypeOK, Open
<1> DEFINE Rows == /\ lastId' \in 0..MaxLogs
                   /\ writing' \in [Writers -> 0..MaxLogs]
                   /\ \A w \in Writers : writing'[w] <= lastId'
                   /\ logs' \in SUBSET (1..lastId') /\ before' \in SUBSET logs'
                   /\ finished' \in BOOLEAN
           Client == /\ stream' \in [pc: {"drain", "status", "late", "closed", "ended", "expired"},
                                     lastLogID: 0..MaxLogs, terminal: BOOLEAN]
                     /\ sent' \in Seq(1..MaxLogs)
                     /\ streams' \in 0..MaxStreams /\ faults' \in 0..MaxFaults
                     /\ stream'.terminal => finished'
<1> SUFFICES Rows /\ Client
  BY DEF TypeInv, TypeOK, Open
<1>3. ASSUME NEW w \in Writers, BeginLog(w) PROVE Rows /\ Client
  <2>1. lastId' = lastId + 1 /\ lastId + 1 \in 1..MaxLogs
    BY <1>1, <1>3 DEF BeginLog
  <2>2. writing' = [writing EXCEPT ![w] = lastId + 1]
    BY <1>3, <2>1 DEF BeginLog
  <2>3. \A v \in Writers : writing'[v] = IF v = w THEN lastId + 1 ELSE writing[v]
    BY <1>1, <2>2
  <2>4. \A v \in Writers : writing'[v] \in 0..MaxLogs /\ writing'[v] <= lastId'
    BY <1>1, <2>1, <2>3
  <2>5. writing' \in [Writers -> 0..MaxLogs]
    BY <1>1, <2>1, <2>2
  <2>6. logs' \in SUBSET (1..lastId')
    BY <1>1, <1>3, <2>1 DEF BeginLog
  <2>7. QED
    BY <1>1, <1>2, <1>3, <2>1, <2>4, <2>5, <2>6 DEF BeginLog
<1>4. ASSUME NEW w \in Writers, CommitLog(w) PROVE Rows /\ Client
  <2>1. writing' = [writing EXCEPT ![w] = 0] /\ lastId' = lastId
    BY <1>4 DEF CommitLog
  <2>2. \A v \in Writers : writing'[v] = IF v = w THEN 0 ELSE writing[v]
    BY <1>1, <2>1
  <2>3. \A v \in Writers : writing'[v] \in 0..MaxLogs /\ writing'[v] <= lastId'
    BY <1>1, <2>1, <2>2
  <2>4. writing' \in [Writers -> 0..MaxLogs]
    BY <1>1, <2>1
  <2>5. writing[w] \in 1..lastId
    BY <1>1, <1>4 DEF CommitLog
  <2>6. logs' \in SUBSET (1..lastId') /\ before' \in SUBSET logs'
    BY <1>1, <1>4, <2>1, <2>5 DEF CommitLog
  <2>7. QED
    BY <1>1, <1>2, <1>4, <2>1, <2>3, <2>4, <2>6 DEF CommitLog
<1>5. CASE Finished
  BY <1>1, <1>2, <1>5 DEF Finished
<1>6. ASSUME NEW w \in Writers, FinishJob(w) PROVE Rows /\ Client
  BY <1>1, <1>2, <1>6 DEF FinishJob
<1>7. CASE OpenStream \/ RefuseStream
  <2>1. CASE OpenStream
    BY <1>1, <1>2, <2>1 DEF OpenStream
  <2>2. CASE RefuseStream
    <3>1. faults' \in 0..MaxFaults
      BY <1>1, <2>2 DEF RefuseStream, May, Charge
    <3>2. UNCHANGED <<lastId, writing, logs, finished, stream, sent, streams, before>>
      BY <2>2 DEF RefuseStream
    <3>3. QED
      BY <1>1, <1>2, <3>1, <3>2
  <2>3. QED
    BY <1>7, <2>1, <2>2
<1>8. CASE Drain
  <2>1. PICK ok \in ReadResults("logs") :
               /\ IF ok THEN Send(ListSince(stream.lastLogID), "status")
                        ELSE stream' = Closed /\ UNCHANGED sent
               /\ Charge(~ok)
    BY <1>8 DEF Drain
  <2>2. UNCHANGED <<lastId, writing, logs, finished, streams, before>>
    BY <1>8 DEF Drain
  <2>3. faults' \in 0..MaxFaults /\ ok \in BOOLEAN
    BY <2>1, ChargeTypes
  <2>4. CASE ok = TRUE
    <3>1. PICK b : b = ListSince(stream.lastLogID)
      OBVIOUS
    <3>2. b \in Seq({l \in logs : l > stream.lastLogID}) /\ Send(b, "status")
      BY <2>1, <2>4, <3>1, NothingOrBatch
    <3>3. /\ sent' \in Seq(1..MaxLogs) /\ stream'.terminal = stream.terminal
          /\ stream'.lastLogID \in 0..MaxLogs /\ stream'.pc = "status"
          /\ stream' \in [pc: {"drain", "status", "late", "closed", "ended", "expired"},
                           lastLogID: 0..MaxLogs, terminal: BOOLEAN]
      BY <3>2, SendTypes
    <3>4. QED
      BY <1>1, <1>2, <2>2, <2>3, <3>3
  <2>5. CASE ok = FALSE
    <3>1. stream' = [pc |-> "closed", lastLogID |-> 0, terminal |-> FALSE] /\ sent' = sent
      BY <2>1, <2>5 DEF Closed
    <3>2. QED
      BY <1>1, <1>2, <2>2, <2>3, <3>1
  <2>6. QED
    BY <2>3, <2>4, <2>5
<1>9. CASE ReadStatus
  <2>0. PICK ok \in ReadResults("status") :
               LET terminal == IF ok THEN finished ELSE stream.terminal
               IN /\ stream' = [stream EXCEPT !.terminal = terminal,
                                              !.pc = IF terminal THEN "late" ELSE "drain"]
                  /\ Charge(~ok)
    BY <1>9 DEF ReadStatus
  <2>1. PICK terminal :
               /\ terminal = IF ok THEN finished ELSE stream.terminal
               /\ stream' = [stream EXCEPT !.terminal = terminal,
                                           !.pc = IF terminal THEN "late" ELSE "drain"]
               /\ Charge(~ok)
    BY <2>0
  <2>2. UNCHANGED <<lastId, writing, logs, finished, sent, streams, before>>
    BY <1>9 DEF ReadStatus
  <2>3. faults' \in 0..MaxFaults /\ ok \in BOOLEAN
    BY <2>1, ChargeTypes
  <2>4. terminal \in BOOLEAN /\ (terminal => finished)
    BY <1>1, <1>2, <2>1
  <2>5. stream'.terminal = terminal
    BY <1>2, <2>1
  <2>6. stream' \in [pc: {"drain", "status", "late", "closed", "ended", "expired"},
                     lastLogID: 0..MaxLogs, terminal: BOOLEAN]
    BY <1>2, <2>1, <2>4
  <2>7. QED
    BY <1>1, <1>2, <2>2, <2>3, <2>4, <2>5, <2>6
<1>10. CASE DrainLate
  <2>1. PICK ok, b :
               /\ ok \in ReadResults("late")
               /\ b = IF ok THEN ListSince(stream.lastLogID) ELSE <<>>
               /\ Send(b, "ended")
               /\ Charge(~ok)
    BY <1>10 DEF DrainLate
  <2>2. UNCHANGED <<lastId, writing, logs, finished, streams, before>>
    BY <1>10 DEF DrainLate
  <2>3. faults' \in 0..MaxFaults
    BY <2>1, ChargeTypes
  <2>4. b \in Seq({l \in logs : l > stream.lastLogID})
    BY <2>1, NothingOrBatch
  <2>5. /\ sent' \in Seq(1..MaxLogs) /\ stream'.terminal = stream.terminal
        /\ stream'.lastLogID \in 0..MaxLogs /\ stream'.pc = "ended"
        /\ stream' \in [pc: {"drain", "status", "late", "closed", "ended", "expired"},
                         lastLogID: 0..MaxLogs, terminal: BOOLEAN]
    BY <2>1, <2>4, SendTypes
  <2>6. QED
    BY <1>1, <1>2, <2>2, <2>3, <2>5
<1>11. CASE Broken
  <2>1. /\ stream' = [pc |-> "closed", lastLogID |-> 0, terminal |-> FALSE]
        /\ faults' \in 0..MaxFaults
    BY <1>1, <1>11 DEF Broken, Closed
  <2>2. UNCHANGED <<lastId, writing, logs, finished, sent, streams, before>>
    BY <1>11 DEF Broken
  <2>3. QED
    BY <1>1, <1>2, <2>1, <2>2
<1>12. CASE Disconnect
  <2>1. /\ stream' = [pc |-> "closed", lastLogID |-> 0, terminal |-> FALSE]
        /\ faults' \in 0..MaxFaults
    BY <1>1, <1>12 DEF Disconnect, Closed, May, Charge
  <2>2. UNCHANGED <<lastId, writing, logs, finished, sent, streams, before>>
    BY <1>12 DEF Disconnect
  <2>3. QED
    BY <1>1, <1>2, <2>1, <2>2
<1>13. CASE Expire
  <2>1. stream' = [stream EXCEPT !.pc = "expired"] /\ faults' = faults + 1 /\ faults < MaxFaults
    BY <1>13 DEF Expire, May, Charge
  <2>2. UNCHANGED <<lastId, writing, logs, finished, sent, streams, before>>
    BY <1>13 DEF Expire
  <2>3. faults' \in 0..MaxFaults
    BY <1>1, <2>1
  <2>4. /\ stream' \in [pc: {"drain", "status", "late", "closed", "ended", "expired"},
                         lastLogID: 0..MaxLogs, terminal: BOOLEAN]
        /\ stream'.terminal = stream.terminal
    BY <1>2, <2>1
  <2>5. QED
    BY <1>1, <1>2, <2>2, <2>3, <2>4
<1>14. CASE UNCHANGED vars
  BY <1>1, <1>2, <1>14 DEF vars
<1>15. QED
  BY <1>3, <1>4, <1>5, <1>6, <1>7, <1>8, <1>9, <1>10, <1>11, <1>12, <1>13, <1>14
     DEF AnyNext, Next, StreamStep

(* The variables of the stream keep their types.                           *)
THEOREM TypeCorrect == Spec => []TypeOK
<1>1. TypeInv /\ [Next]_vars => TypeInv'
  BY StepTypes DEF AnyNext
<1>2. TypeInv => TypeOK
  BY DEF TypeInv
<1>3. QED
  BY <1>1, <1>2, InitTypes, PTL DEF Spec

-----------------------------------------------------------------------------
(* What was sent.  It grows by batches of later logs, so it stays in order; *)
(* with one writer, whose ids become visible in order, nothing appears     *)
(* behind the last one sent.                                               *)

OneWriter == \A v, w \in Writers : v = w

Highest(s) == IF s = <<>> THEN 0 ELSE Last(s)

Ordered == /\ Increasing(sent)
           /\ \A i \in 1..Len(sent) : sent[i] \in logs
           /\ stream.pc \in Open => stream.lastLogID = Highest(sent)

(* A log being written is the newest. *)
Latest == \A w \in Writers : writing[w] # 0 => writing[w] = lastId /\ lastId \notin logs

Complete == \A i \in 1..Len(sent) : \A l \in logs :
               l <= sent[i] => \E j \in 1..i : sent[j] = l

LEMMA HighestIs ==
    ASSUME NEW s \in Seq(Nat), Increasing(s)
    PROVE  /\ Highest(s) \in Nat
           /\ \A i \in 1..Len(s) : s[i] <= Highest(s)
           /\ s # <<>> => Len(s) \in 1..Len(s) /\ Highest(s) = s[Len(s)]
<1>1. Len(s) \in Nat /\ DOMAIN s = 1..Len(s) /\ s \in [1..Len(s) -> Nat]
  OBVIOUS
<1>2. \A i \in 1..Len(s) : s[i] \in Nat
  BY <1>1
<1>3. \A i, j \in 1..Len(s) : i < j => s[i] < s[j]
  BY <1>1 DEF Increasing
<1>4. CASE s = <<>>
  BY <1>4 DEF Highest
<1>5. CASE s # <<>>
  <2>1. Len(s) \in 1..Len(s)
    BY <1>5, SeqOfSubset
  <2>2. Highest(s) = s[Len(s)]
    BY <1>5 DEF Highest, Last
  <2>3. ASSUME NEW i \in 1..Len(s) PROVE s[i] <= s[Len(s)]
    <3> DEFINE n == Len(s)
    <3>1. n \in Nat /\ i \in 1..n
      BY <1>1
    <3> HIDE DEF n
    <3>2. i < n \/ i = n
      BY <3>1
    <3>3. QED
      BY <1>2, <1>3, <2>1, <3>2 DEF n
  <2>4. QED
    BY <1>2, <2>1, <2>2, <2>3
<1>6. QED
  BY <1>4, <1>5

(* Later elements are appended. *)
LEMMA Extended ==
    ASSUME NEW s \in Seq(Nat), Increasing(s), NEW b \in Seq(Nat), Increasing(b),
           \A j \in 1..Len(b) : Highest(s) < b[j]
    PROVE  /\ Len(s \o b) = Len(s) + Len(b)
           /\ \A i \in 1..Len(s) : (s \o b)[i] = s[i]
           /\ \A i \in 1..Len(s \o b) :
                 i \notin 1..Len(s) => i - Len(s) \in 1..Len(b) /\ (s \o b)[i] = b[i - Len(s)]
           /\ Increasing(s \o b)
           /\ Highest(s \o b) = IF b = <<>> THEN Highest(s) ELSE Last(b)
<1>1. PICK c : c = s \o b
  OBVIOUS
<1>2. /\ Len(s) \in Nat /\ Len(b) \in Nat
      /\ DOMAIN s = 1..Len(s) /\ DOMAIN b = 1..Len(b)
      /\ c \in Seq(Nat) /\ Len(c) = Len(s) + Len(b) /\ DOMAIN c = 1..Len(c)
  BY <1>1
<1>3. /\ \A i \in 1..Len(s) : c[i] = s[i]
      /\ \A i \in 1..Len(c) :
            i \notin 1..Len(s) => i - Len(s) \in 1..Len(b) /\ c[i] = b[i - Len(s)]
  BY <1>1, <1>2
<1>4. /\ \A i \in 1..Len(s) : s[i] \in Nat
      /\ \A i \in 1..Len(b) : b[i] \in Nat
      /\ \A i, j \in 1..Len(s) : i < j => s[i] < s[j]
      /\ \A i, j \in 1..Len(b) : i < j => b[i] < b[j]
  <2>1. s \in [1..Len(s) -> Nat] /\ b \in [1..Len(b) -> Nat]
    OBVIOUS
  <2>2. QED
    BY <1>2, <2>1 DEF Increasing
<1>5. Highest(s) \in Nat /\ \A i \in 1..Len(s) : s[i] <= Highest(s)
  BY HighestIs
<1>6. ASSUME NEW i \in 1..Len(c), NEW j \in 1..Len(c), i < j PROVE c[i] < c[j]
  <2>1. CASE j \in 1..Len(s)
    <3>1. i \in 1..Len(s)
      BY <1>2, <1>6, <2>1
    <3>2. QED
      BY <1>3, <1>4, <1>6, <2>1, <3>1
  <2>2. CASE i \in 1..Len(s) /\ j \notin 1..Len(s)
    <3>1. /\ c[i] = s[i] /\ c[j] = b[j - Len(s)] /\ j - Len(s) \in 1..Len(b)
          /\ s[i] <= Highest(s) /\ Highest(s) < b[j - Len(s)]
      BY <1>3, <1>5, <2>2
    <3>2. s[i] \in Nat /\ b[j - Len(s)] \in Nat /\ Highest(s) \in Nat
      BY <1>4, <1>5, <2>2, <3>1
    <3>3. QED
      BY <3>1, <3>2
  <2>3. CASE i \notin 1..Len(s) /\ j \notin 1..Len(s)
    <3>1. i - Len(s) < j - Len(s)
      BY <1>2, <1>6
    <3>2. QED
      BY <1>3, <1>4, <2>3, <3>1
  <2>4. QED
    BY <2>1, <2>2, <2>3, <1>2, <1>6
<1>7. Increasing(c)
  BY <1>2, <1>6 DEF Increasing
<1>8. Highest(c) = IF b = <<>> THEN Highest(s) ELSE Last(b)
  <2>1. CASE b = <<>>
    BY <1>1, <2>1
  <2>2. CASE b # <<>>
    <3>1. Len(b) \in 1..Len(b)
      BY <2>2, HighestIs
    <3>2. Len(c) \notin 1..Len(s) /\ Len(c) \in 1..Len(c) /\ Len(c) - Len(s) = Len(b)
      BY <1>2, <3>1
    <3>3. c[Len(c)] = b[Len(b)]
      BY <1>3, <3>2
    <3>4. c # <<>>
      BY <3>2
    <3>5. QED
      BY <2>2, <3>3, <3>4 DEF Highest, Last
  <2>3. QED
    BY <2>1, <2>2
<1>9. QED
  BY <1>1, <1>2, <1>3, <1>7, <1>8

(* How a step changes what was sent. *)
Sends(b) == /\ stream.pc \in Open
            /\ b = <<>> \/ b = ListSince(stream.lastLogID)
            /\ sent' = sent \o b
            /\ stream'.lastLogID = IF b = <<>> THEN stream.lastLogID ELSE Last(b)
            /\ UNCHANGED <<lastId, writing, logs>>

Keeps == /\ stream'.pc \in Open => stream.pc \in Open /\ stream'.lastLogID = stream.lastLogID
         /\ UNCHANGED <<lastId, writing, logs, sent>>

LEMMA Moves ==
    ASSUME TypeInv, [AnyNext]_vars
    PROVE  \/ \E b : Sends(b)
           \/ Keeps
           \/ OpenStream
           \/ \E w \in Writers : BeginLog(w) \/ CommitLog(w)
<1>1. stream \in [pc: {"drain", "status", "late", "closed", "ended", "expired"},
                  lastLogID: 0..MaxLogs, terminal: BOOLEAN]
  BY DEF TypeInv, TypeOK, Open
<1>2. CASE Drain
  <2>1. PICK ok \in ReadResults("logs") :
               /\ IF ok THEN Send(ListSince(stream.lastLogID), "status")
                        ELSE stream' = Closed /\ UNCHANGED sent
               /\ Charge(~ok)
    BY <1>2 DEF Drain
  <2>2. ok \in BOOLEAN
    BY <2>1, ChargeTypes
  <2>3. UNCHANGED <<lastId, writing, logs>> /\ stream.pc \in Open
    BY <1>2 DEF Drain, Open
  <2>4. CASE ok = TRUE
    <3>1. PICK b : b = ListSince(stream.lastLogID)
      OBVIOUS
    <3>2. b \in Seq({l \in logs : l > stream.lastLogID}) /\ Send(b, "status")
      BY <2>1, <2>4, <3>1, NothingOrBatch
    <3>3. /\ sent' = sent \o b
          /\ stream'.lastLogID = IF b = <<>> THEN stream.lastLogID ELSE Last(b)
      BY <3>2, SendTypes
    <3>4. Sends(b)
      BY <2>3, <3>1, <3>3 DEF Sends
    <3>5. QED
      BY <3>4
  <2>5. CASE ok = FALSE
    <3>1. stream'.pc = "closed" /\ UNCHANGED sent
      BY <2>1, <2>5 DEF Closed
    <3>2. Keeps
      BY <2>3, <3>1 DEF Keeps, Open
    <3>3. QED
      BY <3>2
  <2>6. QED
    BY <2>2, <2>4, <2>5
<1>3. CASE DrainLate
  <2>1. PICK ok, b :
               /\ ok \in ReadResults("late")
               /\ b = IF ok THEN ListSince(stream.lastLogID) ELSE <<>>
               /\ Send(b, "ended")
    BY <1>3 DEF DrainLate
  <2>2. b = <<>> \/ b = ListSince(stream.lastLogID)
    BY <2>1
  <2>3. /\ sent' = sent \o b
        /\ stream'.lastLogID = IF b = <<>> THEN stream.lastLogID ELSE Last(b)
    BY <2>1, <2>2, NothingOrBatch, SendTypes
  <2>4. UNCHANGED <<lastId, writing, logs>> /\ stream.pc \in Open
    BY <1>3 DEF DrainLate, Open
  <2>5. Sends(b)
    BY <2>2, <2>3, <2>4 DEF Sends
  <2>6. QED
    BY <2>5
<1>4. CASE ReadStatus
  <2>1. PICK terminal :
               stream' = [stream EXCEPT !.terminal = terminal,
                                        !.pc = IF terminal THEN "late" ELSE "drain"]
    BY <1>4 DEF ReadStatus
  <2>2. stream'.lastLogID = stream.lastLogID
    BY <1>1, <2>1
  <2>3. Keeps
    BY <1>4, <2>2 DEF ReadStatus, Keeps, Open
  <2>4. QED
    BY <2>3
<1>5. CASE Expire
  BY <1>1, <1>5 DEF Expire, Keeps, Open
<1>6. CASE Disconnect
  BY <1>6 DEF Disconnect, Closed, Keeps, Open
<1>7. CASE Broken
  BY <1>7 DEF Broken, Closed, Keeps, Open
<1>8. CASE Finished
  BY <1>8 DEF Finished, Keeps
<1>9. ASSUME NEW w \in Writers, FinishJob(w) PROVE Keeps
  BY <1>9 DEF FinishJob, Keeps
<1>10. CASE RefuseStream
  BY <1>10 DEF RefuseStream, Keeps
<1>11. CASE UNCHANGED vars
  BY <1>11 DEF vars, Keeps
<1>12. QED
  BY <1>2, <1>3, <1>4, <1>5, <1>6, <1>7, <1>8, <1>9, <1>10, <1>11
     DEF AnyNext, Next, StreamStep

LEMMA SentNumbers ==
    ASSUME TypeInv, Ordered
    PROVE  /\ sent \in Seq(Nat) /\ Len(sent) \in Nat /\ DOMAIN sent = 1..Len(sent)
           /\ \A i \in 1..Len(sent) : sent[i] \in Nat
           /\ Highest(sent) \in Nat
           /\ \A i \in 1..Len(sent) : sent[i] <= Highest(sent)
           /\ sent # <<>> => Len(sent) \in 1..Len(sent) /\ Highest(sent) = sent[Len(sent)]
<1>1. sent \in Seq(1..MaxLogs) /\ MaxLogs \in Nat
  BY BoundsAssumption DEF TypeInv, TypeOK
<1>2. sent \in Seq(Nat)
  BY <1>1, SeqOfSubset
<1>3. Len(sent) \in Nat /\ DOMAIN sent = 1..Len(sent) /\ sent \in [1..Len(sent) -> Nat]
  BY <1>2
<1>4. \A i \in 1..Len(sent) : sent[i] \in Nat
  BY <1>3
<1>5. QED
  BY <1>2, <1>3, <1>4, HighestIs DEF Ordered

(* What a batch adds lies after all that was sent before it. *)
LEMMA SendsLater ==
    ASSUME TypeInv, Ordered, NEW b, Sends(b)
    PROVE  /\ b \in Seq({l \in logs : l > Highest(sent)})
           /\ b \in Seq(Nat) /\ Len(b) \in Nat /\ Increasing(b)
           /\ \A j \in 1..Len(b) : b[j] \in logs /\ Highest(sent) < b[j]
           /\ \A i \in 1..Len(b) : \A l \in logs :
                 l > Highest(sent) /\ l <= b[i] => \E j \in 1..i : b[j] = l
           /\ b = <<>> \/ b = ListSince(Highest(sent))
<1>1. stream.lastLogID = Highest(sent) /\ Highest(sent) \in Nat
  BY SentNumbers DEF Ordered, Sends
<1>2. b = <<>> \/ b = ListSince(Highest(sent))
  BY <1>1 DEF Sends
<1>3. PICK c : c = ListSince(Highest(sent))
  OBVIOUS
<1>4. /\ c \in Seq({l \in logs : l > Highest(sent)})
      /\ Increasing(c)
      /\ \A i \in 1..Len(c) : \A l \in logs :
            l > Highest(sent) /\ l <= c[i] => \E j \in 1..i : c[j] = l
  BY <1>1, <1>3, BatchOfLogs DEF TypeInv
<1>5. b = <<>> \/ b = c
  BY <1>2, <1>3
<1>6. /\ b \in Seq({l \in logs : l > Highest(sent)})
      /\ \A i \in 1..Len(b) : \A l \in logs :
            l > Highest(sent) /\ l <= b[i] => \E j \in 1..i : b[j] = l
  <2>1. CASE b = <<>>
    <3>1. b \in Seq({l \in logs : l > Highest(sent)}) /\ Len(b) = 0
      BY <2>1
    <3>2. QED
      BY <3>1
  <2>2. QED
    BY <1>4, <1>5, <2>1
<1>7. Increasing(b)
  BY <1>4, <1>5 DEF Increasing
<1>8. {l \in logs : l > Highest(sent)} \in SUBSET Nat
  BY LogsFinite DEF TypeInv
<1>9. b \in Seq(Nat)
  BY <1>6, <1>8, SeqOfSubset
<1>10. Len(b) \in Nat /\ \A j \in 1..Len(b) : b[j] \in {l \in logs : l > Highest(sent)}
  BY <1>6
<1>11. \A j \in 1..Len(b) : b[j] \in logs /\ Highest(sent) < b[j]
  BY <1>1, <1>8, <1>10
<1>12. QED
  BY <1>2, <1>6, <1>7, <1>9, <1>10, <1>11

LEMMA OrderedStep ==
    ASSUME TypeInv, Ordered, [AnyNext]_vars
    PROVE  Ordered'
<1>1. ASSUME NEW b, Sends(b) PROVE Ordered'
  <2>1. sent' = sent \o b /\ logs' = logs
    BY <1>1 DEF Sends
  <2>2. /\ b \in Seq(Nat) /\ Len(b) \in Nat /\ Increasing(b)
        /\ \A j \in 1..Len(b) : b[j] \in logs /\ Highest(sent) < b[j]
    BY <1>1, SendsLater
  <2>3. sent \in Seq(Nat) /\ Increasing(sent) /\ \A i \in 1..Len(sent) : sent[i] \in logs
    BY SentNumbers DEF Ordered
  <2>4. /\ \A i \in 1..Len(sent) : (sent \o b)[i] = sent[i]
        /\ \A i \in 1..Len(sent \o b) : i \notin 1..Len(sent) =>
              i - Len(sent) \in 1..Len(b) /\ (sent \o b)[i] = b[i - Len(sent)]
        /\ Increasing(sent \o b)
        /\ Highest(sent \o b) = IF b = <<>> THEN Highest(sent) ELSE Last(b)
    BY <2>2, <2>3, Extended
  <2>5. \A i \in 1..Len(sent \o b) : (sent \o b)[i] \in logs
    BY <2>2, <2>3, <2>4
  <2>6. stream'.lastLogID = Highest(sent \o b)
    BY <1>1, <2>4 DEF Sends, Ordered
  <2>7. QED
    BY <2>1, <2>4, <2>5, <2>6 DEF Ordered, Increasing, Highest
<1>2. CASE Keeps
  BY <1>2 DEF Keeps, Ordered, Increasing, Highest
<1>3. CASE OpenStream
  BY <1>3 DEF OpenStream, Ordered, Increasing, Highest
<1>4. ASSUME NEW w \in Writers, BeginLog(w) PROVE Ordered'
  BY <1>4 DEF BeginLog, Ordered, Increasing, Highest
<1>5. ASSUME NEW w \in Writers, CommitLog(w) PROVE Ordered'
  BY <1>5 DEF CommitLog, Ordered, Increasing, Highest
<1>6. QED
  BY <1>1, <1>2, <1>3, <1>4, <1>5, Moves

LEMMA LatestStep ==
    ASSUME OneWriter, TypeInv, Ordered, Latest, [AnyNext]_vars
    PROVE  Latest'
<1>1. /\ lastId \in Nat /\ logs \in SUBSET (1..lastId)
      /\ writing \in [Writers -> 0..MaxLogs]
  BY BoundsAssumption DEF TypeInv, TypeOK
<1>2. ASSUME UNCHANGED <<lastId, writing, logs>> PROVE Latest'
  BY <1>2 DEF Latest
<1>3. ASSUME NEW w \in Writers, BeginLog(w) PROVE Latest'
  <2>1. /\ lastId' = lastId + 1 /\ logs' = logs
        /\ writing' = [writing EXCEPT ![w] = lastId']
    BY <1>3 DEF BeginLog
  <2>2. \A v \in Writers : v = w /\ writing'[v] = lastId'
    BY <1>1, <2>1 DEF OneWriter
  <2>3. lastId' \notin logs'
    BY <1>1, <2>1
  <2>4. QED
    BY <2>2, <2>3 DEF Latest
<1>4. ASSUME NEW w \in Writers, CommitLog(w) PROVE Latest'
  <2>1. \A v \in Writers : v = w /\ writing'[v] = 0
    BY <1>1, <1>4 DEF CommitLog, OneWriter
  <2>2. QED
    BY <2>1 DEF Latest
<1>5. QED
  BY <1>2, <1>3, <1>4, Moves DEF Sends, Keeps, OpenStream

LEMMA CompleteStep ==
    ASSUME OneWriter, TypeInv, Ordered, Latest, Complete, [AnyNext]_vars
    PROVE  Complete'
<1>1. lastId \in Nat /\ logs \in SUBSET (1..lastId)
  BY BoundsAssumption DEF TypeInv, TypeOK
<1>2. /\ \A i \in 1..Len(sent) : sent[i] \in Nat /\ sent[i] <= Highest(sent) /\ sent[i] \in logs
      /\ Len(sent) \in Nat /\ Highest(sent) \in Nat /\ sent \in Seq(Nat) /\ Increasing(sent)
  BY SentNumbers DEF Ordered
<1>3. ASSUME UNCHANGED <<logs, sent>> PROVE Complete'
  BY <1>3 DEF Complete
<1>4. CASE OpenStream
  BY <1>4 DEF OpenStream, Complete
<1>5. ASSUME NEW w \in Writers, CommitLog(w) PROVE Complete'
  <2>1. logs' = logs \cup {lastId} /\ lastId \notin logs /\ sent' = sent
    BY <1>5 DEF CommitLog, Latest
  <2>2. \A i \in 1..Len(sent) : ~(lastId <= sent[i])
    BY <1>1, <1>2, <2>1
  <2>3. QED
    BY <2>1, <2>2 DEF Complete
<1>6. ASSUME NEW b, Sends(b) PROVE Complete'
  <2>1. sent' = sent \o b /\ logs' = logs
    BY <1>6 DEF Sends
  <2>2. /\ b \in Seq(Nat) /\ Len(b) \in Nat /\ Increasing(b)
        /\ \A j \in 1..Len(b) : b[j] \in logs /\ Highest(sent) < b[j]
        /\ \A i \in 1..Len(b) : \A l \in logs :
              l > Highest(sent) /\ l <= b[i] => \E j \in 1..i : b[j] = l
    BY <1>6, SendsLater
  <2>3. PICK c : c = sent \o b
    OBVIOUS
  <2>4. /\ Len(c) = Len(sent) + Len(b)
        /\ \A i \in 1..Len(sent) : c[i] = sent[i]
        /\ \A i \in 1..Len(c) : i \notin 1..Len(sent) =>
              i - Len(sent) \in 1..Len(b) /\ c[i] = b[i - Len(sent)]
    BY <1>2, <2>2, <2>3, Extended
  <2>5. ASSUME NEW i \in 1..Len(c), NEW l \in logs, l <= c[i]
        PROVE  \E j \in 1..i : c[j] = l
    <3>1. l \in Nat
      BY <1>1
    <3>2. CASE i \in 1..Len(sent)
      <4>1. PICK j \in 1..i : sent[j] = l
        BY <2>4, <2>5, <3>2 DEF Complete
      <4>2. j \in 1..Len(sent)
        BY <1>2, <3>2
      <4>3. QED
        BY <2>4, <4>1, <4>2
    <3>3. CASE i \notin 1..Len(sent) /\ l <= Highest(sent)
      <4>1. Len(sent) \in 1..Len(sent) /\ Highest(sent) = sent[Len(sent)]
        <5>1. l # 0
          BY <1>1
        <5>2. sent # <<>>
          BY <3>1, <3>3, <5>1 DEF Highest
        <5>3. QED
          BY <5>2, SentNumbers
      <4>2. PICK j \in 1..Len(sent) : sent[j] = l
        BY <3>3, <4>1 DEF Complete
      <4>3. j \in 1..i
        BY <1>2, <2>2, <2>4, <3>3
      <4>4. QED
        BY <2>4, <4>2, <4>3
    <3>4. CASE i \notin 1..Len(sent) /\ ~(l <= Highest(sent))
      <4>1. i - Len(sent) \in 1..Len(b) /\ c[i] = b[i - Len(sent)]
        BY <2>4, <3>4
      <4>2. PICK j \in 1..(i - Len(sent)) : b[j] = l
        <5>1. l > Highest(sent)
          BY <1>2, <3>1, <3>4
        <5>2. PICK d \in 1..Len(b) : d = i - Len(sent) /\ c[i] = b[d]
          BY <4>1
        <5>3. l <= b[d]
          BY <2>5, <5>2
        <5>4. \E j \in 1..d : b[j] = l
          BY <2>2, <5>1, <5>3
        <5>5. QED
          BY <5>2, <5>4
      <4>3. Len(sent) + j \in 1..i /\ Len(sent) + j \in 1..Len(c) /\ Len(sent) + j \notin 1..Len(sent)
        BY <1>2, <2>2, <2>4, <4>1
      <4>4. c[Len(sent) + j] = b[j]
        <5>1. (Len(sent) + j) - Len(sent) = j
          BY <1>2, <2>2, <4>1
        <5>2. QED
          BY <2>4, <4>3, <5>1
      <4>5. QED
        BY <4>2, <4>3, <4>4
    <3>5. QED
      BY <3>2, <3>3, <3>4
  <2>6. QED
    BY <2>1, <2>3, <2>5 DEF Complete
<1>7. QED
  BY <1>3, <1>4, <1>5, <1>6, Moves DEF Keeps, BeginLog

OrderInv == TypeInv /\ Ordered

(* The inductive invariant of a stream with one writer. *)
StreamInv == TypeInv /\ Ordered /\ Latest /\ Complete

LEMMA InitOrder == Init => OrderInv
BY InitTypes DEF Init, OrderInv, Ordered, Increasing, Closed, Open

LEMMA InitStream == Init => StreamInv
BY InitOrder DEF Init, OrderInv, StreamInv, Latest, Complete

LEMMA StepOrder == OrderInv /\ [AnyNext]_vars => OrderInv'
BY StepTypes, OrderedStep DEF OrderInv

LEMMA StepStream == OneWriter /\ StreamInv /\ [AnyNext]_vars => StreamInv'
BY StepTypes, OrderedStep, LatestStep, CompleteStep DEF StreamInv

LEMMA SeenUpToCursor == StreamInv => NothingSkipped
<1> SUFFICES ASSUME StreamInv, stream.pc \in Open
             PROVE  sent = Sorted({l \in logs : l <= stream.lastLogID})
  BY DEF NothingSkipped
<1> USE DEF StreamInv
<1>1. PICK ids : ids = {l \in logs : l <= stream.lastLogID}
  OBVIOUS
<1>2. stream.lastLogID = Highest(sent)
  BY DEF Ordered
<1>3. ids \in SUBSET Nat
  BY <1>1, LogsFinite DEF TypeInv
<1>4. \A i \in 1..Len(sent) : sent[i] \in ids
  BY <1>1, <1>2, SentNumbers DEF Ordered
<1>5. sent \in Seq(ids)
  <2>1. Len(sent) \in Nat /\ sent \in [1..Len(sent) -> Nat]
    BY SentNumbers
  <2>2. sent \in [1..Len(sent) -> ids]
    BY <1>4, <2>1
  <2>3. QED
    BY <2>1, <2>2
<1>6. ids \subseteq ToSet(sent)
  <2> SUFFICES ASSUME NEW l \in ids PROVE \E j \in 1..Len(sent) : sent[j] = l
    BY SentNumbers DEF ToSet
  <2>1. l \in logs /\ l <= Highest(sent) /\ l \in Nat /\ l # 0
    <3>1. logs \in SUBSET (1..MaxLogs)
      BY LogsFinite DEF TypeInv
    <3>2. QED
      BY <1>1, <1>2, <3>1
  <2>2. sent # <<>>
    BY <2>1 DEF Highest
  <2>3. QED
    BY <2>1, <2>2, SentNumbers DEF Complete
<1>7. sent = Sorted(ids)
  BY <1>3, <1>5, <1>6, SortedUnique DEF Ordered
<1>8. QED
  BY <1>1, <1>7

(* Polling by id skips and repeats nothing, for a job that one worker logs  *)
(* for: whatever the batches, the faults and the reconnections.            *)
THEOREM PollingIsComplete == ASSUME OneWriter PROVE Spec => []NothingSkipped
<1>1. StreamInv /\ [Next]_vars => StreamInv'
  BY StepStream DEF AnyNext
<1>2. QED
  BY <1>1, InitStream, SeenUpToCursor, PTL DEF Spec

(* The sweep takes all the logs there are after the last one sent, unless   *)
(* it is full: by Complete the rest of before was sent already.            *)
LEMMA SweepStep ==
    ASSUME "late" \notin FaultKinds, StreamInv, [AnyNext]_vars,
           stream.pc = "late", stream'.pc = "ended"
    PROVE  \/ before \subseteq ToSet(sent')
           \/ Len(sent') = Len(sent) + Batch
<1> USE DEF StreamInv
<1>1. stream \in [pc: {"drain", "status", "late", "closed", "ended", "expired"},
                  lastLogID: 0..MaxLogs, terminal: BOOLEAN]
  BY DEF TypeInv, TypeOK, Open
<1>2. DrainLate
  <2>1. CASE UNCHANGED stream
    BY <2>1
  <2>2. CASE OpenStream \/ Broken \/ Disconnect
    <3>1. stream'.pc \in {"drain", "closed"}
      <4>1. CASE OpenStream
        BY <4>1 DEF OpenStream
      <4>2. CASE Broken
        BY <4>2 DEF Broken, Closed
      <4>3. CASE Disconnect
        BY <4>3 DEF Disconnect, Closed
      <4>4. QED
        BY <2>2, <4>1, <4>2, <4>3
    <3>2. QED
      BY <3>1
  <2>3. CASE Drain \/ ReadStatus \/ Expire
    BY <2>3 DEF Drain, ReadStatus, Expire
  <2>4. QED
    BY <2>1, <2>2, <2>3
       DEF AnyNext, Next, StreamStep, vars, BeginLog, CommitLog, FinishJob, Finished,
           RefuseStream
<1>3. PICK ok \in ReadResults("late") :
             Send(IF ok THEN ListSince(stream.lastLogID) ELSE <<>>, "ended")
  BY <1>2 DEF DrainLate
<1>4. ok = TRUE
  BY DEF ReadResults, May
<1>5. PICK b : b = ListSince(stream.lastLogID)
  OBVIOUS
<1>6. sent' = sent \o b
  BY <1>3, <1>4, <1>5 DEF Send
<1>7. stream.lastLogID = Highest(sent) /\ Highest(sent) \in Nat
  BY SentNumbers DEF Ordered, Open
<1>8. /\ b \in Seq({l \in logs : l > Highest(sent)}) /\ Len(b) \in Nat
      /\ Len(b) # Batch => \A l \in logs : l > Highest(sent) => \E j \in 1..Len(b) : b[j] = l
  BY <1>5, <1>7, BatchOfLogs DEF TypeInv
<1>9. sent \in Seq(Nat) /\ Len(sent) \in Nat /\ b \in Seq(Nat)
  <2>1. {l \in logs : l > Highest(sent)} \in SUBSET Nat
    BY LogsFinite DEF TypeInv
  <2>2. QED
    BY <1>8, <2>1, SeqOfSubset, SentNumbers
<1>10. /\ Len(sent') = Len(sent) + Len(b) /\ DOMAIN sent' = 1..Len(sent')
       /\ \A j \in 1..Len(sent) : sent'[j] = sent[j]
       /\ \A j \in 1..Len(b) : sent'[Len(sent) + j] = b[j]
  BY <1>6, <1>8, <1>9
<1>11. ASSUME Len(b) # Batch, NEW l \in before PROVE l \in ToSet(sent')
  <2>1. l \in logs /\ l \in Nat /\ l # 0
    <3>1. before \in SUBSET logs /\ logs \in SUBSET (1..MaxLogs)
      BY LogsFinite DEF TypeInv, TypeOK
    <3>2. QED
      BY <3>1
  <2>2. CASE l <= Highest(sent)
    <3>1. sent # <<>>
      BY <2>1, <2>2 DEF Highest
    <3>2. PICK j \in 1..Len(sent) : sent[j] = l
      BY <2>1, <2>2, <3>1, SentNumbers DEF Complete
    <3>3. j \in DOMAIN sent' /\ sent'[j] = l
      BY <1>8, <1>9, <1>10, <3>2
    <3>4. QED
      BY <3>3 DEF ToSet
  <2>3. CASE ~(l <= Highest(sent))
    <3>1. PICK j \in 1..Len(b) : b[j] = l
      BY <1>7, <1>8, <1>11, <2>1, <2>3
    <3>2. Len(sent) + j \in 1..(Len(sent) + Len(b)) /\ sent'[Len(sent) + j] = l
      <4>1. sent'[Len(sent) + j] = b[j]
        BY <1>10
      <4>2. Len(sent) \in Nat /\ Len(b) \in Nat
        BY <1>8, <1>9
      <4>3. Len(sent) + j \in 1..(Len(sent) + Len(b))
        BY <4>2
      <4>4. QED
        BY <3>1, <4>1, <4>3
    <3>3. Len(sent) + j \in DOMAIN sent'
      BY <1>10, <3>2
    <3>4. QED
      BY <3>2, <3>3 DEF ToSet
  <2>4. QED
    BY <2>2, <2>3
<1>12. QED
  BY <1>8, <1>9, <1>10, <1>11

(* The end event loses logs of the worker only when the last sweep was     *)
(* full, and could be read.                                                *)
THEOREM SweepLosesOnlyExcess ==
    ASSUME OneWriter, "late" \notin FaultKinds
    PROVE  Spec => EndLosesOnlyExcess
<1>1. StreamInv /\ [Next]_vars => StreamInv'
  BY StepStream DEF AnyNext
<1>2. StreamInv /\ [Next]_vars =>
         [stream.pc = "late" /\ stream'.pc = "ended" =>
            \/ before \subseteq ToSet(sent')
            \/ Len(sent') = Len(sent) + Batch]_vars
  BY SweepStep DEF AnyNext
<1>3. QED
  BY <1>1, <1>2, InitStream, PTL DEF Spec, EndLosesOnlyExcess

=============================================================================
