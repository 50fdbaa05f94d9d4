---------------------------- MODULE JobPanel_proofs ----------------------------
(***************************************************************************)
(* Proofs about JobPanel: under the panel the stream keeps what it         *)
(* promises, the panel leaves no line out, and it shows a line again only  *)
(* for a connection that broke.                                            *)
(***************************************************************************)
EXTENDS JobPanel, LogStream_proofs

-----------------------------------------------------------------------------
(* The stream under the panel.                                             *)

(* Whatever the panel does is, for the stream, a step of its own, a break  *)
(* or the end of the job.                                                  *)
LEMMA StreamUnderPanel ==
    ASSUME TypeInv, [PanelNext]_panelVars
    PROVE  [AnyNext]_vars
<1>1. faults \in Nat /\ faults <= MaxFaults /\ MaxFaults \in Nat
  BY BoundsAssumption DEF TypeInv, TypeOK
<1>2. CASE Connect \/ Refused
  BY <1>2 DEF Connect, Refused, AnyNext, Next
<1>3. CASE OnLog \/ OnStatus \/ OnEnd
  BY <1>3 DEF OnLog, OnStatus, OnEnd
<1>4. CASE EndLost
  <2>1. faults' = faults + 1 /\ faults < MaxFaults
    BY <1>4 DEF EndLost, May, Charge
  <2>2. Broken
    BY <1>1, <1>4, <2>1 DEF EndLost, Broken
  <2>3. QED
    BY <2>2 DEF AnyNext
<1>5. CASE CancelFromPanel
  BY <1>5 DEF CancelFromPanel, AnyNext, Finished
<1>6. CASE ClosePanel
  <2>1. CASE stream.pc \in Open
    BY <1>1, <1>6, <2>1 DEF ClosePanel, AnyNext, Broken
  <2>2. CASE stream.pc \notin Open
    BY <1>6, <2>2 DEF ClosePanel, vars
  <2>3. QED
    BY <2>1, <2>2
<1>7. CASE \E w \in Writers : BeginLog(w) \/ CommitLog(w) \/ FinishJob(w)
  BY <1>7 DEF AnyNext, Next
<1>8. CASE StreamStep \/ Disconnect \/ Expire
  BY <1>8 DEF AnyNext, Next
<1>9. CASE UNCHANGED panelVars
  BY <1>9 DEF panelVars
<1>10. QED
  BY <1>2, <1>3, <1>4, <1>5, <1>6, <1>7, <1>8, <1>9 DEF PanelNext, PanelStep

(* The variables of the stream keep their types. *)
THEOREM PanelTypeCorrect == PanelSpec => []TypeOK
<1>1. TypeInv /\ [PanelNext]_panelVars => TypeInv'
  BY StreamUnderPanel, StepTypes
<1>2. PanelInit => TypeInv
  BY InitTypes DEF PanelInit
<1>3. TypeInv => TypeOK
  BY DEF TypeInv
<1>4. QED
  BY <1>1, <1>2, <1>3, PTL DEF PanelSpec

(* The panel's reconnections and its closing do not disturb the stream: it  *)
(* skips and repeats nothing.                                              *)
THEOREM PanelPollingIsComplete == ASSUME OneWriter PROVE PanelSpec => []NothingSkipped
<1>1. StreamInv /\ [PanelNext]_panelVars => StreamInv'
  BY StreamUnderPanel, StepStream DEF StreamInv
<1>2. PanelInit => StreamInv
  BY InitStream DEF PanelInit
<1>3. QED
  BY <1>1, <1>2, SeenUpToCursor, PTL DEF PanelSpec

(* Nor does a cancellation from the panel make the last sweep lose more.   *)
THEOREM PanelSweepLosesOnlyExcess ==
    ASSUME OneWriter, "late" \notin FaultKinds
    PROVE  PanelSpec => EndLosesOnlyExcess
<1>1. StreamInv /\ [PanelNext]_panelVars => StreamInv'
  BY StreamUnderPanel, StepStream DEF StreamInv
<1>2. PanelInit => StreamInv
  BY InitStream DEF PanelInit
<1>3. StreamInv /\ [PanelNext]_panelVars =>
         [stream.pc = "late" /\ stream'.pc = "ended" =>
            \/ before \subseteq ToSet(sent')
            \/ Len(sent') = Len(sent) + Batch]_vars
  BY StreamUnderPanel, SweepStep DEF StreamInv
<1>4. QED
  BY <1>1, <1>2, <1>3, PTL DEF PanelSpec, EndLosesOnlyExcess

-----------------------------------------------------------------------------
(* What the panel shows.                                                   *)

(* The part of the stream that has arrived is shown.                       *)
PanelShows ==
    /\ panel \in [logs: Seq(Nat), read: Nat, status: {"none", "active", "terminal"},
                  closed: BOOLEAN, refused: BOOLEAN]
    /\ panel.read <= Len(sent)
    /\ \A i \in 1..Len(panel.logs) : panel.logs[i] \in logs
    /\ \A i \in 1..panel.read : \E j \in 1..Len(panel.logs) : panel.logs[j] = sent[i]

NoGaps == \A i \in 1..Len(panel.logs) : \A m \in logs :
             m <= panel.logs[i] => \E j \in 1..Len(panel.logs) : panel.logs[j] = m

(* How a step changes the panel, and the part of what was sent that the     *)
(* panel has read.                                                         *)
Reads == /\ ~panel.closed /\ panel.read < Len(sent)
         /\ panel' = [panel EXCEPT !.read = panel.read + 1,
                                   !.logs = Append(panel.logs, sent[panel.read + 1])]
         /\ UNCHANGED vars

Restarts == /\ ~panel.closed
            /\ panel' \in [logs: {panel.logs}, read: {0},
                           status: {"none", "active", "terminal"}, closed: {panel.closed},
                    refused: BOOLEAN]
            /\ sent' = <<>> /\ streams' = streams + 1 /\ UNCHANGED logs

Stays == /\ panel' \in [logs: {panel.logs}, read: {panel.read},
                        status: {"none", "active", "terminal"},
                        closed: BOOLEAN, refused: BOOLEAN]
         /\ UNCHANGED streams
         /\ Len(sent') \in Nat /\ Len(sent) <= Len(sent')
         /\ \A i \in 1..Len(sent) : sent'[i] = sent[i]

LEMMA StaysWith ==
    ASSUME TypeInv, NEW b, b \in Seq(Nat), sent' = sent \o b
    PROVE  /\ Len(sent') \in Nat /\ Len(sent) <= Len(sent')
           /\ \A i \in 1..Len(sent) : sent'[i] = sent[i]
<1>1. sent \in Seq(1..MaxLogs) /\ MaxLogs \in Nat
  BY BoundsAssumption DEF TypeInv, TypeOK
<1>2. sent \in Seq(Nat)
  BY <1>1, SeqOfSubset
<1>3. QED
  BY <1>2

LEMMA PanelMoves ==
    ASSUME TypeInv, Ordered, PanelShows, [PanelNext]_panelVars
    PROVE  Reads \/ Restarts \/ Stays
<1>1. /\ panel \in [logs: Seq(Nat), read: Nat, status: {"none", "active", "terminal"},
                    closed: BOOLEAN, refused: BOOLEAN]
      /\ \A terminal : Status(terminal) \in {"none", "active", "terminal"}
  BY DEF PanelShows, Status
<1>2. CASE UNCHANGED <<sent, panel, streams>>
  BY <1>1, <1>2, SentNumbers DEF Stays
<1>3. CASE Connect
  <2>1. PICK status : status = Status(finished)
    OBVIOUS
  <2>2. ~panel.closed /\ panel' = [panel EXCEPT !.read = 0, !.status = status]
    BY <1>3, <2>1 DEF Connect, Listening
  <2>3. sent' = <<>> /\ streams' = streams + 1 /\ UNCHANGED logs
    BY <1>3 DEF Connect, OpenStream, Listening
  <2>4. panel' \in [logs: {panel.logs}, read: {0},
                    status: {"none", "active", "terminal"}, closed: {panel.closed},
                    refused: BOOLEAN]
    BY <1>1, <2>1, <2>2
  <2>5. QED
    BY <2>2, <2>3, <2>4 DEF Restarts
<1>4. CASE OnLog
  BY <1>4 DEF OnLog, Reads, Listening
<1>5. CASE OnStatus \/ OnEnd
  <2>1. PICK status : status = Status(stream.terminal)
    OBVIOUS
  <2>2. panel' \in [logs: {panel.logs}, read: {panel.read},
                    status: {"none", "active", "terminal"},
                    closed: BOOLEAN, refused: BOOLEAN]
    <3>1. CASE OnStatus
      <4>1. panel' = [panel EXCEPT !.status = status]
        BY <2>1, <3>1 DEF OnStatus
      <4>2. QED
        BY <1>1, <2>1, <4>1
    <3>2. CASE OnEnd
      <4>1. panel' = [panel EXCEPT !.status = status, !.closed = TRUE]
        BY <2>1, <3>2 DEF OnEnd
      <4>2. QED
        BY <1>1, <2>1, <4>1
    <3>3. QED
      BY <1>5, <3>1, <3>2
  <2>3. UNCHANGED <<sent, streams>>
    BY <1>5 DEF OnStatus, OnEnd, vars
  <2>4. QED
    BY <2>2, <2>3, SentNumbers DEF Stays
<1>6. CASE ClosePanel \/ Refused
  <2>1. /\ \/ panel' = [panel EXCEPT !.closed = TRUE]
           \/ panel' = [panel EXCEPT !.refused = TRUE]
        /\ UNCHANGED <<sent, streams>>
    BY <1>6 DEF ClosePanel, Refused, RefuseStream
  <2>2. panel' \in [logs: {panel.logs}, read: {panel.read},
                    status: {"none", "active", "terminal"},
                    closed: BOOLEAN, refused: BOOLEAN]
    BY <1>1, <2>1
  <2>3. QED
    BY <2>1, <2>2, SentNumbers DEF Stays
<1>7. CASE StreamStep /\ UNCHANGED panel
  <2>0. UNCHANGED streams
    BY <1>7 DEF StreamStep, Drain, ReadStatus, DrainLate
  <2>1. (\E b : Sends(b)) \/ UNCHANGED sent
    <3>1. CASE ReadStatus
      BY <3>1 DEF ReadStatus
    <3>2. CASE UNCHANGED sent
      BY <3>2
    <3>3. CASE (Drain \/ DrainLate) /\ ~UNCHANGED sent
      <4>1. [AnyNext]_vars
        BY <1>7 DEF AnyNext, Next
      <4>2. stream.pc \in {"drain", "late"} /\ UNCHANGED logs /\ UNCHANGED lastId
        BY <3>3 DEF Drain, DrainLate
      <4>3. \/ \E b : Sends(b)
            \/ Keeps
            \/ OpenStream
            \/ \E w \in Writers : BeginLog(w) \/ CommitLog(w)
        BY <4>1, Moves
      <4>4. QED
        BY <3>3, <4>2, <4>3 DEF Keeps, OpenStream, BeginLog, CommitLog
    <3>4. QED
      BY <1>7, <3>1, <3>2, <3>3 DEF StreamStep
  <2>2. ASSUME NEW b, Sends(b) PROVE Stays
    <3>1. b \in Seq(Nat) /\ sent' = sent \o b
      BY <2>2, SendsLater DEF Sends
    <3>2. QED
      BY <1>1, <1>7, <2>0, <3>1, StaysWith DEF Stays
  <2>3. QED
    BY <1>2, <1>7, <2>0, <2>1, <2>2
<1>8. QED
  BY <1>2, <1>3, <1>4, <1>5, <1>6, <1>7
     DEF PanelNext, PanelStep, panelVars, vars, EndLost, CancelFromPanel, BeginLog, CommitLog,
         FinishJob, Disconnect, Expire

LEMMA LogsGrow ==
    ASSUME TypeInv, [AnyNext]_vars
    PROVE  /\ logs \subseteq logs'
           /\ OneWriter /\ Latest => \A m \in logs' \ logs, l \in logs : l < m
<1>1. lastId \in Nat /\ logs \in SUBSET (1..lastId)
  BY BoundsAssumption DEF TypeInv, TypeOK
<1>2. ASSUME NEW w \in Writers, CommitLog(w)
      PROVE  /\ logs \subseteq logs'
             /\ OneWriter /\ Latest => \A m \in logs' \ logs, l \in logs : l < m
  <2>1. logs' = logs \cup {writing[w]} /\ writing[w] # 0
    BY <1>2 DEF CommitLog
  <2>2. Latest => writing[w] = lastId /\ lastId \notin logs
    BY <2>1 DEF Latest
  <2>3. lastId \notin logs => \A l \in logs : l < lastId
    BY <1>1
  <2>4. QED
    BY <2>1, <2>2, <2>3
<1>3. (\E w \in Writers : CommitLog(w)) \/ UNCHANGED logs
  BY Moves DEF Sends, Keeps, OpenStream, BeginLog
<1>4. QED
  BY <1>2, <1>3

(* The line a Reads appends. *)
LEMMA ReadsLine ==
    ASSUME TypeInv, Ordered, PanelShows, Reads
    PROVE  /\ panel.read \in Nat /\ panel.read + 1 \in 1..Len(sent)
           /\ sent[panel.read + 1] \in Nat /\ sent[panel.read + 1] \in logs
           /\ Len(panel.logs) \in Nat /\ panel.logs \in Seq(Nat)
           /\ panel'.logs = Append(panel.logs, sent[panel.read + 1])
           /\ panel'.read = panel.read + 1
           /\ Len(panel'.logs) = Len(panel.logs) + 1
           /\ \A i \in 1..Len(panel.logs) : panel'.logs[i] = panel.logs[i]
           /\ panel'.logs[Len(panel.logs) + 1] = sent[panel.read + 1]
           /\ panel' \in [logs: Seq(Nat), read: Nat, status: {"none", "active", "terminal"},
                          closed: BOOLEAN, refused: BOOLEAN]
           /\ sent' = sent /\ logs' = logs /\ faults' = faults /\ streams' = streams
           /\ stream' = stream /\ panel'.closed = panel.closed
<1>1. panel \in [logs: Seq(Nat), read: Nat, status: {"none", "active", "terminal"},
                 closed: BOOLEAN, refused: BOOLEAN]
  BY DEF PanelShows
<1>2. PICK l : l = sent[panel.read + 1]
  OBVIOUS
<1>3. panel.read \in Nat /\ panel.read + 1 \in 1..Len(sent)
  BY <1>1, SentNumbers DEF Reads
<1>4. l \in Nat /\ l \in logs
  BY <1>2, <1>3, SentNumbers DEF Ordered
<1>5. PICK lines : lines = Append(panel.logs, l)
  OBVIOUS
<1>6. panel.logs \in Seq(Nat) /\ Len(panel.logs) \in Nat
  BY <1>1
<1>7. /\ lines \in Seq(Nat) /\ Len(lines) = Len(panel.logs) + 1
      /\ \A i \in 1..Len(panel.logs) : lines[i] = panel.logs[i]
      /\ lines[Len(panel.logs) + 1] = l
  BY <1>4, <1>5, <1>6
<1>8. panel' = [panel EXCEPT !.read = panel.read + 1, !.logs = lines]
  BY <1>2, <1>5 DEF Reads
<1>9. /\ panel'.logs = lines /\ panel'.read = panel.read + 1 /\ panel'.closed = panel.closed
      /\ panel' \in [logs: Seq(Nat), read: Nat, status: {"none", "active", "terminal"},
                     closed: BOOLEAN, refused: BOOLEAN]
  <2>1. PICK r : r = panel.read + 1
    OBVIOUS
  <2>2. r \in Nat /\ lines \in Seq(Nat)
    BY <1>3, <1>7, <2>1
  <2>3. panel' = [panel EXCEPT !.read = r, !.logs = lines]
    BY <1>8, <2>1
  <2>4. QED
    BY <1>1, <2>1, <2>2, <2>3
<1>10. QED
  BY <1>2, <1>3, <1>4, <1>5, <1>6, <1>7, <1>9 DEF Reads, vars

LEMMA ShowsStep ==
    ASSUME TypeInv, Ordered, PanelShows, [PanelNext]_panelVars
    PROVE  PanelShows'
<1>1. /\ panel \in [logs: Seq(Nat), read: Nat, status: {"none", "active", "terminal"},
                    closed: BOOLEAN, refused: BOOLEAN]
      /\ panel.read <= Len(sent)
      /\ \A i \in 1..Len(panel.logs) : panel.logs[i] \in logs
      /\ \A i \in 1..panel.read : \E j \in 1..Len(panel.logs) : panel.logs[j] = sent[i]
  BY DEF PanelShows
<1>2. logs \subseteq logs'
  BY StreamUnderPanel, LogsGrow
<1>3. CASE Stays
  <2>1. /\ panel'.logs = panel.logs /\ panel'.read = panel.read
        /\ panel' \in [logs: Seq(Nat), read: Nat, status: {"none", "active", "terminal"},
                       closed: BOOLEAN, refused: BOOLEAN]
    BY <1>1, <1>3 DEF Stays
  <2>2. /\ Len(sent) \in Nat /\ Len(sent') \in Nat /\ Len(sent) <= Len(sent')
        /\ \A i \in 1..Len(sent) : sent'[i] = sent[i]
    BY <1>3, SentNumbers DEF Stays
  <2>3. \A i \in 1..panel.read : sent'[i] = sent[i]
    <3>1. panel.read \in Nat /\ panel.read <= Len(sent) /\ Len(sent) \in Nat
      BY <1>1, <2>2
    <3>2. \A i \in 1..panel.read : i \in 1..Len(sent)
      BY <3>1
    <3>3. QED
      BY <2>2, <3>2
  <2>4. panel.read <= Len(sent')
    BY <1>1, <2>2
  <2>5. QED
    BY <1>1, <1>2, <2>1, <2>3, <2>4 DEF PanelShows
<1>4. CASE Restarts
  <2>1. /\ panel'.logs = panel.logs /\ panel'.read = 0 /\ Len(sent') = 0
        /\ panel' \in [logs: Seq(Nat), read: Nat, status: {"none", "active", "terminal"},
                       closed: BOOLEAN, refused: BOOLEAN]
    BY <1>1, <1>4 DEF Restarts
  <2>2. QED
    BY <1>1, <1>2, <2>1 DEF PanelShows
<1>5. CASE Reads
  <2>1. PICK n : n = Len(panel.logs)
    OBVIOUS
  <2>2. PICK r : r = panel.read
    OBVIOUS
  <2>3. /\ r \in Nat /\ n \in Nat /\ Len(panel'.logs) = n + 1 /\ panel'.read = r + 1
        /\ \A i \in 1..n : panel'.logs[i] = panel.logs[i]
        /\ panel'.logs[n + 1] = sent[r + 1] /\ sent[r + 1] \in logs
        /\ sent' = sent /\ logs' = logs /\ r + 1 <= Len(sent)
    BY <1>5, <2>1, <2>2, ReadsLine
  <2>4. ASSUME NEW i \in 1..(n + 1) PROVE panel'.logs[i] \in logs
    <3>1. CASE i = n + 1
      BY <2>3, <3>1
    <3>2. CASE i \in 1..n
      BY <1>1, <2>1, <2>3, <3>2
    <3>3. QED
      BY <2>3, <3>1, <3>2
  <2>5. ASSUME NEW i \in 1..(r + 1) PROVE \E j \in 1..(n + 1) : panel'.logs[j] = sent[i]
    <3>1. CASE i = r + 1
      BY <2>3, <3>1
    <3>2. CASE i \in 1..r
      <4>1. PICK j \in 1..n : panel.logs[j] = sent[i]
        BY <1>1, <2>1, <2>2, <3>2
      <4>2. j \in 1..(n + 1) /\ panel'.logs[j] = sent[i]
        BY <2>3, <4>1
      <4>3. QED
        BY <4>2
    <3>3. QED
      BY <2>3, <3>1, <3>2
  <2>6. panel' \in [logs: Seq(Nat), read: Nat, status: {"none", "active", "terminal"},
                    closed: BOOLEAN, refused: BOOLEAN]
    BY <1>5, ReadsLine
  <2>7. QED
    BY <2>3, <2>4, <2>5, <2>6 DEF PanelShows
<1>6. QED
  BY <1>3, <1>4, <1>5, PanelMoves

(* A line arrives after all the logs before it: the ones before it on this  *)
(* stream have arrived, and by Complete there are no others.               *)
LEMMA NoGapsStep ==
    ASSUME OneWriter, StreamInv, PanelShows, NoGaps, [PanelNext]_panelVars
    PROVE  NoGaps'
<1> USE DEF StreamInv
<1>1. /\ panel \in [logs: Seq(Nat), read: Nat, status: {"none", "active", "terminal"},
                    closed: BOOLEAN, refused: BOOLEAN]
      /\ \A i \in 1..Len(panel.logs) : panel.logs[i] \in logs
      /\ \A i \in 1..panel.read : \E j \in 1..Len(panel.logs) : panel.logs[j] = sent[i]
  BY DEF PanelShows
<1>2. /\ logs \subseteq logs'
      /\ \A m \in logs' \ logs, l \in logs : l < m
  BY StreamUnderPanel, LogsGrow
<1>3. TypeInv'
  BY StreamUnderPanel, StepTypes
<1>4. \A m \in logs' : m \in Nat
  <2>1. lastId' \in Nat /\ logs' \in SUBSET (1..lastId')
    BY <1>3, BoundsAssumption DEF TypeInv, TypeOK
  <2>2. QED
    BY <2>1
<1>5. CASE panel'.logs = panel.logs
  <2> SUFFICES ASSUME NEW i \in 1..Len(panel.logs), NEW m \in logs', m <= panel.logs[i]
               PROVE  \E j \in 1..Len(panel.logs) : panel.logs[j] = m
    BY <1>5 DEF NoGaps
  <2>1. m \in Nat /\ panel.logs[i] \in logs /\ panel.logs[i] \in Nat
    BY <1>1, <1>2, <1>4
  <2>2. m \in logs
    BY <1>2, <2>1
  <2>3. QED
    BY <2>2 DEF NoGaps
<1>6. CASE Reads
  <2>1. PICK n : n = Len(panel.logs)
    OBVIOUS
  <2>2. PICK r : r = panel.read
    OBVIOUS
  <2>3. /\ r \in Nat /\ n \in Nat /\ Len(panel'.logs) = n + 1
        /\ \A i \in 1..n : panel'.logs[i] = panel.logs[i]
        /\ panel'.logs[n + 1] = sent[r + 1]
        /\ logs' = logs /\ r + 1 \in 1..Len(sent)
    BY <1>6, <2>1, <2>2, ReadsLine
  <2>4. ASSUME NEW m \in logs, m <= sent[r + 1]
        PROVE  \E j \in 1..(n + 1) : panel'.logs[j] = m
    <3>1. PICK k \in 1..(r + 1) : sent[k] = m
      BY <2>3, <2>4 DEF Complete
    <3>2. CASE k = r + 1
      BY <2>3, <3>1, <3>2
    <3>3. CASE k \in 1..r
      <4>1. PICK j \in 1..n : panel.logs[j] = sent[k]
        BY <1>1, <2>1, <2>2, <3>3
      <4>2. j \in 1..(n + 1) /\ panel'.logs[j] = m
        BY <2>3, <3>1, <4>1
      <4>3. QED
        BY <4>2
    <3>4. QED
      BY <2>3, <3>1, <3>2, <3>3
  <2>5. ASSUME NEW i \in 1..n, NEW m \in logs, m <= panel.logs[i]
        PROVE  \E j \in 1..(n + 1) : panel'.logs[j] = m
    <3>1. PICK j \in 1..n : panel.logs[j] = m
      BY <2>1, <2>5 DEF NoGaps
    <3>2. j \in 1..(n + 1) /\ panel'.logs[j] = m
      BY <2>3, <3>1
    <3>3. QED
      BY <3>2
  <2>6. ASSUME NEW i \in 1..(n + 1), NEW m \in logs, m <= panel'.logs[i]
        PROVE  \E j \in 1..(n + 1) : panel'.logs[j] = m
    <3>1. CASE i \in 1..n
      BY <2>3, <2>5, <2>6, <3>1
    <3>2. CASE i = n + 1
      BY <2>3, <2>4, <2>6, <3>2
    <3>3. QED
      BY <2>3, <3>1, <3>2
  <2>7. QED
    BY <2>3, <2>6 DEF NoGaps
<1>7. QED
  BY <1>1, <1>5, <1>6, PanelMoves DEF Stays, Restarts

PanelInv == StreamInv /\ PanelShows /\ NoGaps

LEMMA InitPanel == PanelInit => PanelShows /\ NoGaps
<1> SUFFICES ASSUME PanelInit PROVE PanelShows /\ NoGaps
  OBVIOUS
<1>1. /\ panel = [logs |-> <<>>, read |-> 0, status |-> "none", closed |-> FALSE,
                refused |-> FALSE]
      /\ sent = <<>>
  BY DEF PanelInit, Init
<1>2. panel \in [logs: Seq(Nat), read: Nat, status: {"none", "active", "terminal"},
                 closed: BOOLEAN, refused: BOOLEAN]
  BY <1>1
<1>3. panel.logs = <<>> /\ panel.read = 0 /\ Len(sent) = 0 /\ Len(panel.logs) = 0
  BY <1>1
<1>4. QED
  BY <1>2, <1>3 DEF PanelShows, NoGaps

(* After any number of broken streams the panel shows every log up to the  *)
(* latest it shows.                                                        *)
THEOREM PanelLeavesNothingOut == ASSUME OneWriter PROVE PanelSpec => []PanelHasNoGaps
<1>1. PanelInit => PanelInv
  BY InitPanel, InitStream DEF PanelInit, PanelInv
<1>2. PanelInv /\ [PanelNext]_panelVars => PanelInv'
  <2>1. StreamInv /\ [PanelNext]_panelVars => StreamInv'
    BY StreamUnderPanel, StepStream DEF StreamInv
  <2>2. QED
    BY <2>1, ShowsStep, NoGapsStep DEF PanelInv, StreamInv
<1>3. PanelInv => PanelHasNoGaps
  <2> SUFFICES ASSUME PanelInv, NEW l \in ToSet(panel.logs), NEW m \in logs \cap 1..l
               PROVE  m \in ToSet(panel.logs)
    BY DEF PanelHasNoGaps
  <2>1. DOMAIN panel.logs = 1..Len(panel.logs)
    BY DEF PanelInv, PanelShows
  <2>2. PICK i \in 1..Len(panel.logs) : panel.logs[i] = l
    BY <2>1 DEF ToSet
  <2>3. m <= panel.logs[i]
    BY <2>2
  <2>4. QED
    BY <2>1, <2>3 DEF PanelInv, NoGaps, ToSet
<1>4. QED
  BY <1>1, <1>2, <1>3, PTL DEF PanelSpec

-----------------------------------------------------------------------------
(* Lines shown again.  Every stream but the present one was ended by a     *)
(* fault, and a stream shows a line at most once.                          *)

Paid == /\ streams <= faults + 1
        /\ ~panel.closed /\ stream.pc = "closed" => streams <= faults
        /\ stream.pc # "closed" \/ sent # <<>> => streams # 0

Occurrences(s, l) == Cardinality({i \in DOMAIN s : s[i] = l})

Copies(l) == Occurrences(panel.logs, l)

Arrived(l) == \E i \in 1..panel.read : sent[i] = l

LinesPaid == \A l \in Nat : /\ Copies(l) <= streams
                            /\ Copies(l) = streams /\ streams # 0 => Arrived(l)

LEMMA PaidStep ==
    ASSUME TypeInv, PanelShows, Paid, [PanelNext]_panelVars
    PROVE  Paid'
<1>1. /\ faults \in Nat /\ streams \in Nat
      /\ stream \in [pc: {"drain", "status", "late", "closed", "ended", "expired"},
                     lastLogID: 0..MaxLogs, terminal: BOOLEAN]
      /\ panel.closed \in BOOLEAN
  BY BoundsAssumption DEF TypeInv, TypeOK, PanelShows, Open
<1> DEFINE Quiet == /\ UNCHANGED streams
                    /\ faults' \in {faults, faults + 1}
                    /\ stream'.pc # "closed" => stream.pc # "closed"
                    /\ sent' # <<>> => stream.pc # "closed" \/ sent # <<>>
                    /\ stream'.pc = "closed" /\ ~panel'.closed =>
                          faults' = faults + 1 \/ (stream.pc = "closed" /\ ~panel.closed)
<1>2. Quiet => Paid'
  <2> SUFFICES ASSUME Quiet PROVE Paid'
    OBVIOUS
  <2>1. streams <= faults' + 1
    <3>1. CASE faults' = faults
      BY <1>1, <3>1 DEF Paid
    <3>2. CASE faults' = faults + 1
      BY <1>1, <3>2 DEF Paid
    <3>3. QED
      BY <3>1, <3>2
  <2>2. stream'.pc # "closed" \/ sent' # <<>> => streams # 0
    BY DEF Paid
  <2>3. ~panel'.closed /\ stream'.pc = "closed" => streams <= faults'
    BY <1>1 DEF Paid
  <2>4. QED
    BY <2>1, <2>2, <2>3 DEF Paid
<1>3. CASE Connect
  <2>1. /\ ~panel.closed /\ stream.pc = "closed"
        /\ streams' = streams + 1 /\ faults' = faults
        /\ stream'.pc = "drain" /\ sent' = <<>>
    BY <1>3 DEF Connect, OpenStream, Listening
  <2>2. streams <= faults
    BY <2>1 DEF Paid
  <2>3. streams' <= faults' + 1 /\ streams' # 0
    BY <1>1, <2>1, <2>2
  <2>4. QED
    BY <2>1, <2>3 DEF Paid
<1>4. CASE OnLog \/ OnStatus
  <2>1. UNCHANGED vars /\ panel'.closed = panel.closed
    <3>1. CASE OnLog
      <4>1. PICK r, lines : panel' = [panel EXCEPT !.read = r, !.logs = lines]
        BY <3>1 DEF OnLog
      <4>2. QED
        BY <3>1, <4>1 DEF OnLog, PanelShows
    <3>2. CASE OnStatus
      <4>1. PICK status : panel' = [panel EXCEPT !.status = status]
        BY <3>2 DEF OnStatus
      <4>2. QED
        BY <3>2, <4>1 DEF OnStatus, PanelShows
    <3>3. QED
      BY <1>4, <3>1, <3>2
  <2>2. QED
    BY <1>2, <2>1 DEF vars
<1>5. CASE OnEnd
  <2>1. stream.pc \in {"ended", "expired"} /\ UNCHANGED vars
    BY <1>5 DEF OnEnd, EndArrived
  <2>2. QED
    BY <1>2, <2>1 DEF vars
<1>6. CASE EndLost
  <2>1. stream.pc # "closed" /\ faults' = faults + 1 /\ stream'.pc = "closed"
    BY <1>6 DEF EndLost, Charge, Closed
  <2>2. UNCHANGED <<streams, sent>>
    BY <1>6 DEF EndLost
  <2>3. Quiet
    BY <2>1, <2>2
  <2>4. QED
    BY <1>2, <2>3
<1>7. CASE CancelFromPanel
  BY <1>2, <1>7 DEF CancelFromPanel
<1>8. CASE ClosePanel
  <2>1. panel'.closed = TRUE
    BY <1>8 DEF ClosePanel, PanelShows
  <2>2. UNCHANGED <<sent, streams, faults>>
    BY <1>8 DEF ClosePanel
  <2>3. stream' = Closed \/ stream' = stream
    BY <1>8 DEF ClosePanel
  <2>4. QED
    BY <1>2, <2>1, <2>2, <2>3 DEF Closed
<1>9. ASSUME NEW w \in Writers, BeginLog(w) \/ CommitLog(w) \/ FinishJob(w), UNCHANGED panel
      PROVE  Paid'
  BY <1>2, <1>9 DEF BeginLog, CommitLog, FinishJob
<1>10. CASE Drain /\ UNCHANGED panel
  <2>1. PICK ok \in ReadResults("logs") :
               /\ IF ok THEN Send(ListSince(stream.lastLogID), "status")
                        ELSE stream' = Closed /\ UNCHANGED sent
               /\ Charge(~ok)
    BY <1>10 DEF Drain
  <2>2. ok \in BOOLEAN
    BY <2>1, ChargeTypes
  <2>3. stream.pc = "drain" /\ UNCHANGED streams
    BY <1>10 DEF Drain
  <2>4. CASE ok = TRUE
    <3>1. PICK id : stream' = [stream EXCEPT !.pc = "status", !.lastLogID = id]
      BY <2>1, <2>4 DEF Send
    <3>2. stream'.pc = "status"
      BY <1>1, <3>1
    <3>3. faults' = faults
      BY <2>1, <2>4 DEF Charge
    <3>4. QED
      BY <1>2, <2>3, <3>2, <3>3
  <2>5. CASE ok = FALSE
    <3>1. stream'.pc = "closed" /\ faults' = faults + 1
      BY <2>1, <2>5 DEF Charge, Closed
    <3>2. Quiet
      BY <2>3, <3>1
    <3>3. QED
      BY <1>2, <3>2
  <2>6. QED
    BY <2>2, <2>4, <2>5
<1>11. ASSUME ReadStatus \/ DrainLate, UNCHANGED panel PROVE Paid'
  <2>1. faults' \in {faults, faults + 1}
    BY <1>11 DEF ReadStatus, DrainLate, Charge
  <2>2. stream'.pc # "closed"
    <3>1. CASE ReadStatus
      <4>1. PICK terminal :
                   stream' = [stream EXCEPT !.terminal = terminal,
                                            !.pc = IF terminal THEN "late" ELSE "drain"]
        BY <3>1 DEF ReadStatus
      <4>2. QED
        BY <1>1, <4>1
    <3>2. CASE DrainLate
      <4>1. PICK id : stream' = [stream EXCEPT !.pc = "ended", !.lastLogID = id]
        BY <3>2 DEF DrainLate, Send
      <4>2. QED
        BY <1>1, <4>1
    <3>3. QED
      BY <1>11, <3>1, <3>2
  <2>3. stream.pc # "closed" /\ UNCHANGED streams
    BY <1>11 DEF ReadStatus, DrainLate
  <2>4. QED
    BY <1>2, <2>1, <2>2, <2>3
<1>12. CASE Disconnect /\ UNCHANGED panel
  <2>1. stream.pc # "closed" /\ faults' = faults + 1 /\ UNCHANGED <<streams, sent>>
    BY <1>12 DEF Disconnect, Charge, Open
  <2>2. stream'.pc = "closed"
    BY <1>12 DEF Disconnect, Closed
  <2>3. Quiet
    BY <2>1, <2>2
  <2>4. QED
    BY <1>2, <2>3
<1>13. CASE Expire /\ UNCHANGED panel
  <2>1. /\ stream.pc # "closed" /\ faults' = faults + 1 /\ UNCHANGED <<streams, sent>>
        /\ stream'.pc = "expired"
    BY <1>1, <1>13 DEF Expire, Charge
  <2>2. QED
    BY <1>2, <2>1
<1>14. CASE Refused
  <2>1. faults' = faults + 1 /\ UNCHANGED <<stream, sent, streams>>
    BY <1>14 DEF Refused, RefuseStream, Charge
  <2>2. stream.pc = "closed" /\ ~panel.closed
    BY <1>14 DEF Refused, Listening
  <2>3. QED
    BY <1>2, <2>1, <2>2
<1>15. CASE UNCHANGED panelVars
  BY <1>2, <1>15 DEF panelVars, vars
<1>16. QED
  BY <1>3, <1>4, <1>5, <1>6, <1>7, <1>8, <1>9, <1>10, <1>11, <1>12, <1>13, <1>14, <1>15
     DEF PanelNext, PanelStep, StreamStep

LEMMA CopiesOf ==
    ASSUME NEW s \in Seq(Nat), NEW l
    PROVE  /\ Occurrences(s, l) \in Nat
           /\ IsFiniteSet({i \in DOMAIN s : s[i] = l})
<1>1. Len(s) \in Nat /\ DOMAIN s = 1..Len(s)
  OBVIOUS
<1>2. IsFiniteSet(1..Len(s))
  BY <1>1, FS_Interval
<1>3. {i \in DOMAIN s : s[i] = l} \in SUBSET (1..Len(s))
  BY <1>1
<1>4. IsFiniteSet({i \in DOMAIN s : s[i] = l})
  BY <1>2, <1>3, FS_Subset
<1>5. QED
  BY <1>4, FS_CardinalityType DEF Occurrences

LEMMA CopiesAppended ==
    ASSUME NEW s \in Seq(Nat), NEW e \in Nat, NEW l,
           NEW c \in Seq(Nat), Len(c) = Len(s) + 1,
           \A i \in 1..Len(s) : c[i] = s[i], c[Len(s) + 1] = e
    PROVE  Occurrences(c, l) = Occurrences(s, l) + (IF e = l THEN 1 ELSE 0)
<1> DEFINE old == {i \in DOMAIN s : s[i] = l}
           new == {i \in DOMAIN c : c[i] = l}
<1>1. /\ Len(s) \in Nat /\ DOMAIN s = 1..Len(s)
      /\ DOMAIN c = 1..(Len(s) + 1) /\ Len(s) + 1 \notin 1..Len(s)
  OBVIOUS
<1>2. IsFiniteSet(old) /\ Cardinality(old) \in Nat
  BY CopiesOf DEF Occurrences
<1>3. CASE e = l
  <2>1. new = old \cup {Len(s) + 1}
    <3>1. \A i \in 1..Len(s) : c[i] = s[i]
      OBVIOUS
    <3>2. c[Len(s) + 1] = l
      BY <1>3
    <3>3. DOMAIN c = DOMAIN s \cup {Len(s) + 1}
      BY <1>1
    <3>4. QED
      BY <1>1, <3>1, <3>2, <3>3
  <2>2. Len(s) + 1 \notin old
    BY <1>1
  <2>3. Cardinality(new) = Cardinality(old) + 1
    <3>1. PICK o, k : o = old /\ k = Len(s) + 1
      OBVIOUS
    <3>2. IsFiniteSet(o) /\ k \notin o
      BY <1>2, <2>2, <3>1
    <3>3. Cardinality(o \cup {k}) = Cardinality(o) + 1
      BY <3>2, FS_AddElement
    <3>4. QED
      BY <2>1, <3>1, <3>3
  <2>4. QED
    BY <1>3, <2>3 DEF Occurrences
<1>4. CASE e # l
  <2>1. new = old
    BY <1>1, <1>4
  <2>2. PICK n \in Nat : n = Cardinality(old) /\ n = Cardinality(new)
    BY <1>2, <2>1
  <2>3. QED
    BY <1>4, <2>2 DEF Occurrences
<1>5. QED
  BY <1>3, <1>4

LEMMA LinesStep ==
    ASSUME TypeInv, Ordered, PanelShows, Paid, LinesPaid, [PanelNext]_panelVars
    PROVE  LinesPaid'
<1>1. /\ streams \in Nat
      /\ panel.logs \in Seq(Nat) /\ panel.read \in Nat /\ panel.read <= Len(sent)
  BY DEF TypeInv, TypeOK, PanelShows
<1>2. \A l \in Nat : Copies(l) \in Nat
  BY <1>1, CopiesOf DEF Copies
<1>3. CASE Stays
  <2>1. /\ panel'.logs = panel.logs /\ panel'.read = panel.read /\ streams' = streams
        /\ \A i \in 1..Len(sent) : sent'[i] = sent[i]
    BY <1>3 DEF Stays
  <2>2. \A i \in 1..panel.read : sent'[i] = sent[i]
    BY <1>1, <2>1, SentNumbers
  <2>3. \A l \in Nat : Copies(l)' = Copies(l) /\ (Arrived(l) => Arrived(l)')
    BY <2>1, <2>2 DEF Copies, Arrived
  <2>4. QED
    BY <2>1, <2>3 DEF LinesPaid
<1>4. CASE Restarts
  <2>1. panel'.logs = panel.logs /\ streams' = streams + 1
    BY <1>4 DEF Restarts
  <2>2. ASSUME NEW l \in Nat PROVE Copies(l)' = Copies(l) /\ Copies(l) <= streams
    BY <2>1 DEF Copies, LinesPaid
  <2>3. ASSUME NEW l \in Nat PROVE Copies(l)' <= streams' /\ Copies(l)' # streams'
    <3>1. PICK n \in Nat : n = Copies(l) /\ n = Copies(l)'
      BY <1>2, <2>2
    <3>2. n <= streams
      BY <2>2, <3>1
    <3>3. QED
      BY <1>1, <2>1, <3>1, <3>2
  <2>4. QED
    BY <2>3 DEF LinesPaid
<1>5. CASE Reads
  <2>1. PICK r : r = panel.read
    OBVIOUS
  <2>2. PICK e : e = sent[r + 1]
    OBVIOUS
  <2>3. /\ r \in Nat /\ r + 1 \in 1..Len(sent) /\ panel'.read = r + 1
        /\ e \in Nat /\ sent' = sent /\ streams' = streams
        /\ Len(panel'.logs) = Len(panel.logs) + 1
        /\ \A i \in 1..Len(panel.logs) : panel'.logs[i] = panel.logs[i]
        /\ panel'.logs[Len(panel.logs) + 1] = e
        /\ panel'.logs \in Seq(Nat)
    BY <1>5, <2>1, <2>2, ReadsLine
  <2>4. \A l \in Nat : Copies(l)' = Copies(l) + (IF e = l THEN 1 ELSE 0)
    <3> SUFFICES ASSUME NEW l \in Nat
                 PROVE  Copies(l)' = Copies(l) + (IF e = l THEN 1 ELSE 0)
      OBVIOUS
    <3>1. PICK s \in Seq(Nat), c \in Seq(Nat) : s = panel.logs /\ c = panel'.logs
      BY <1>1, <2>3
    <3>2. Len(c) = Len(s) + 1 /\ (\A i \in 1..Len(s) : c[i] = s[i]) /\ c[Len(s) + 1] = e
      BY <2>3, <3>1
    <3>3. Occurrences(c, l) = Occurrences(s, l) + (IF e = l THEN 1 ELSE 0)
      <4>1. e \in Nat
        BY <2>3
      <4>2. QED
        BY <3>2, <4>1, CopiesAppended
    <3>4. QED
      BY <3>1, <3>3 DEF Copies
  <2>5. \A l \in Nat : Arrived(l) => Arrived(l)'
    BY <2>1, <2>3 DEF Arrived
  <2>6. Arrived(e)'
    BY <2>2, <2>3 DEF Arrived
  <2>7. ~Arrived(e)
    <3>1. ASSUME NEW i \in 1..r PROVE sent[i] # e
      <4>1. sent[i] \in Nat /\ i < r + 1 /\ i \in DOMAIN sent /\ r + 1 \in DOMAIN sent
        BY <2>3, SentNumbers
      <4>2. sent[i] < sent[r + 1]
        BY <4>1 DEF Ordered, Increasing
      <4>3. QED
        BY <2>2, <2>3, <4>1, <4>2
    <3>2. QED
      BY <2>1, <3>1 DEF Arrived
  <2>8. streams # 0
    <3>1. sent # <<>>
      BY <2>3
    <3>2. QED
      BY <3>1 DEF Paid
  <2>9. Copies(e) < streams
    BY <1>1, <1>2, <2>3, <2>7, <2>8 DEF LinesPaid
  <2>10. ASSUME NEW l \in Nat
         PROVE  /\ Copies(l)' <= streams'
                /\ Copies(l)' = streams' /\ streams' # 0 => Arrived(l)'
    <3>1. CASE l = e
      <4>1. Copies(l)' = Copies(e) + 1 /\ Copies(e) \in Nat
        BY <1>2, <2>3, <2>4, <3>1
      <4>2. Copies(l)' <= streams'
        BY <1>1, <2>3, <2>9, <4>1
      <4>3. QED
        BY <2>6, <3>1, <4>2
    <3>2. CASE l # e
      <4>1. Copies(l)' = Copies(l)
        BY <1>2, <2>4, <3>2
      <4>2. QED
        BY <2>3, <2>5, <4>1 DEF LinesPaid
    <3>3. QED
      BY <3>1, <3>2
  <2>11. QED
    BY <2>10 DEF LinesPaid
<1>6. QED
  BY <1>3, <1>4, <1>5, PanelMoves

PaidInv == OrderInv /\ PanelShows /\ Paid /\ LinesPaid

LEMMA InitPaid == PanelInit => PaidInv
<1> SUFFICES ASSUME PanelInit PROVE PaidInv
  OBVIOUS
<1>1. OrderInv /\ PanelShows
  BY InitPanel, InitOrder DEF PanelInit
<1>2. /\ panel = [logs |-> <<>>, read |-> 0, status |-> "none", closed |-> FALSE,
                refused |-> FALSE]
      /\ sent = <<>> /\ streams = 0 /\ faults = 0
      /\ stream = [pc |-> "closed", lastLogID |-> 0, terminal |-> FALSE]
  BY DEF PanelInit, Init, Closed
<1>3. Paid
  BY <1>2 DEF Paid
<1>4. ASSUME NEW l \in Nat PROVE Copies(l) = 0
  <2>1. {i \in DOMAIN panel.logs : panel.logs[i] = l} = {}
    BY <1>2
  <2>2. QED
    BY <2>1, FS_EmptySet DEF Copies, Occurrences
<1>5. LinesPaid
  BY <1>2, <1>4 DEF LinesPaid
<1>6. QED
  BY <1>1, <1>3, <1>5 DEF PaidInv

(* No line is shown more often than there were faults, and once: whatever   *)
(* the number of workers that log.                                         *)
THEOREM RepeatsArePaid == PanelSpec => []RepeatsOnlyAfterFaults
<1>1. PaidInv /\ [PanelNext]_panelVars => PaidInv'
  <2> SUFFICES ASSUME PaidInv, [PanelNext]_panelVars PROVE PaidInv'
    OBVIOUS
  <2> USE DEF PaidInv, OrderInv
  <2>1. [AnyNext]_vars
    BY StreamUnderPanel
  <2>2. TypeInv' /\ Ordered'
    BY <2>1, StepTypes, OrderedStep
  <2>3. PanelShows' /\ Paid' /\ LinesPaid'
    BY ShowsStep, PaidStep, LinesStep
  <2>4. QED
    BY <2>2, <2>3
<1>2. PaidInv => RepeatsOnlyAfterFaults
  <2> SUFFICES ASSUME PaidInv, NEW l \in ToSet(panel.logs)
               PROVE  Copies(l) <= faults + 1
    BY DEF RepeatsOnlyAfterFaults, Copies, Occurrences
  <2>1. panel.logs \in Seq(Nat) /\ faults \in Nat /\ streams \in Nat
    BY BoundsAssumption DEF PaidInv, OrderInv, PanelShows, TypeInv, TypeOK
  <2>2. l \in Nat
    BY <2>1 DEF ToSet
  <2>3. Copies(l) \in Nat
    BY <2>1, CopiesOf DEF Copies
  <2>4. Copies(l) <= streams /\ streams <= faults + 1
    BY <2>2 DEF PaidInv, LinesPaid, Paid
  <2>5. QED
    BY <2>1, <2>3, <2>4
<1>3. QED
  BY <1>1, <1>2, InitPaid, PTL DEF PanelSpec

=============================================================================
