------------------------------ MODULE LogStream ------------------------------
(***************************************************************************)
(* GET /jobs/:id/logs/stream: one client following the logs of one job.    *)
(* Workers insert log rows through HandleJobLog and finish the job; the    *)
(* handler StreamJobLogs polls both tables in rounds of three reads, and   *)
(* the browser's EventSource opens a new stream when one breaks.           *)
(*                                                                         *)
(* A log is its id.  The database takes ids from a sequence when an INSERT *)
(* begins and shows the row when it commits, so two inserts that overlap   *)
(* may become visible in the other order.                                  *)
(***************************************************************************)
EXTENDS Naturals, SequencesExt

CONSTANTS
    Writers,      \* workers that may be posting a log of the job
    Batch,        \* sseLogBatchSize
    MaxLogs,      \* bounds the model: logs of the job
    MaxStreams,   \* bounds the model: streams the client opens
    FaultKinds,   \* "open": the request is refused; "logs", "status",
                  \* "late": that read of a round fails;
                  \* "client": the client goes away;
                  \* "deadline": sseMaxStreamDuration passes
    MaxFaults     \* how often, over a whole behaviour

ASSUME BatchAssumption == Batch \in Nat \ {0}
ASSUME BoundsAssumption == MaxLogs \in Nat /\ MaxStreams \in Nat /\ MaxFaults \in Nat

VARIABLES
    lastId,    \* the sequence of job_logs.id
    writing,   \* the id each worker is inserting, 0 for none
    logs,      \* the rows of job_logs that are visible
    finished,  \* the job is in a terminal status
    stream,    \* the handler's local state
    sent,      \* the logs the client got on this stream, in order
    streams,   \* streams opened so far
    faults,    \* faults so far
    before     \* history: the logs that were visible when the job finished

vars == <<lastId, writing, logs, finished, stream, sent, streams, faults, before>>

Closed == [pc |-> "closed", lastLogID |-> 0, terminal |-> FALSE]

Init == /\ lastId = 0
        /\ writing = [w \in Writers |-> 0]
        /\ logs = {}
        /\ finished = FALSE
        /\ stream = Closed
        /\ sent = <<>>
        /\ streams = 0
        /\ faults = 0
        /\ before = {}

May(kind) == kind \in FaultKinds /\ faults < MaxFaults

Charge(fault) == faults' = IF fault THEN faults + 1 ELSE faults

ReadResults(kind) == {TRUE} \cup {ok \in {FALSE} : May(kind)}

-----------------------------------------------------------------------------
(* The workers.  HandleJobLog looks at no status: a worker may log after   *)
(* the job was finished.                                                   *)

BeginLog(w) ==
    /\ writing[w] = 0
    /\ lastId < MaxLogs
    /\ lastId' = lastId + 1
    /\ writing' = [writing EXCEPT ![w] = lastId']
    /\ UNCHANGED <<logs, finished, stream, sent, streams, faults, before>>

CommitLog(w) ==
    /\ writing[w] # 0
    /\ logs' = logs \cup {writing[w]}
    /\ writing' = [writing EXCEPT ![w] = 0]
    /\ UNCHANGED <<lastId, finished, stream, sent, streams, faults, before>>

(* /finish of a worker that has the answers to all its logs. *)
FinishJob(w) ==
    /\ ~finished
    /\ writing[w] = 0
    /\ finished' = TRUE
    /\ before' = logs
    /\ UNCHANGED <<lastId, writing, logs, stream, sent, streams, faults>>

-----------------------------------------------------------------------------
(* The stream. *)

(* The ids in ascending order: the i-th is the one that i ids do not exceed. *)
Rank(ids, id) == Cardinality({l \in ids : l <= id})

Sorted(ids) == [i \in 1..Cardinality(ids) |-> CHOOSE id \in ids : Rank(ids, id) = i]

(* Mutant: the newest rows instead of the oldest. *)
ListSinceNewest(id) ==
    LET later == Sorted({l \in logs : l > id})
    IN SubSeq(later, IF Len(later) > Batch THEN Len(later) - Batch + 1 ELSE 1, Len(later))

(* The oldest Batch rows after the one given. *)
ListSince(id) ==
    LET later == Sorted({l \in logs : l > id})
    IN SubSeq(later, 1, IF Len(later) < Batch THEN Len(later) ELSE Batch)

(* Send a batch and go on at pc. *)
Send(batch, pc) ==
    /\ sent' = sent \o batch
    /\ stream' = [stream EXCEPT
                    !.pc = pc,
                    !.lastLogID = IF batch = <<>> THEN @ ELSE Last(batch)]

(* Mutant: a stream goes on where the one before had sent. *)
OpenStreamResumed ==
    /\ stream.pc \in {"closed", "ended", "expired"}
    /\ streams < MaxStreams
    /\ streams' = streams + 1
    /\ stream' = [pc |-> "drain", terminal |-> finished,
                  lastLogID |-> IF sent = <<>> THEN 0 ELSE Last(sent)]
    /\ sent' = <<>>
    /\ UNCHANGED <<lastId, writing, logs, finished, faults, before>>

OpenStream ==
    /\ stream.pc \in {"closed", "ended", "expired"}
    /\ streams < MaxStreams
    /\ streams' = streams + 1
    /\ stream' = [pc |-> "drain", lastLogID |-> 0, terminal |-> finished]
    /\ sent' = <<>>
    /\ UNCHANGED <<lastId, writing, logs, finished, faults, before>>

(* GetByID fails before the headers are written: the answer is a 404, and  *)
(* no stream, whatever the error was.  The check of the token, or a proxy, *)
(* may refuse the request just as well.                                    *)
RefuseStream ==
    /\ May("open")
    /\ stream.pc \in {"closed", "ended", "expired"}
    /\ Charge(TRUE)
    /\ UNCHANGED <<lastId, writing, logs, finished, stream, sent, streams, before>>

(* An error of this read is sent to the client and closes the stream. *)
Drain ==
    /\ stream.pc = "drain"
    /\ \E ok \in ReadResults("logs") :
         /\ IF ok THEN Send(ListSince(stream.lastLogID), "status")
                  ELSE stream' = Closed /\ UNCHANGED sent
         /\ Charge(~ok)
    /\ UNCHANGED <<lastId, writing, logs, finished, streams, before>>

(* Mutant: the status is the one the stream was opened with. *)
ReadStatusStale ==
    /\ stream.pc = "status"
    /\ stream' = [stream EXCEPT !.pc = IF stream.terminal THEN "late" ELSE "drain"]
    /\ UNCHANGED <<lastId, writing, logs, finished, sent, streams, faults, before>>

(* Mutant: a job that cannot be read is taken for a finished one. *)
ReadStatusErrorEnds ==
    /\ stream.pc = "status"
    /\ \E ok \in ReadResults("status") :
         LET terminal == ~ok \/ finished
         IN /\ stream' = [stream EXCEPT !.terminal = terminal,
                                        !.pc = IF terminal THEN "late" ELSE "drain"]
            /\ Charge(~ok)
    /\ UNCHANGED <<lastId, writing, logs, finished, sent, streams, before>>

(* An error of this read is ignored: the status stays the one last seen. *)
ReadStatus ==
    /\ stream.pc = "status"
    /\ \E ok \in ReadResults("status") :
         LET terminal == IF ok THEN finished ELSE stream.terminal
         IN /\ stream' = [stream EXCEPT !.terminal = terminal,
                                        !.pc = IF terminal THEN "late" ELSE "drain"]
            /\ Charge(~ok)
    /\ UNCHANGED <<lastId, writing, logs, finished, sent, streams, before>>

(* Mutant: the stream ends without looking for late logs. *)
DrainLateForgotten ==
    /\ stream.pc = "late"
    /\ stream' = [stream EXCEPT !.pc = "ended"]
    /\ UNCHANGED <<lastId, writing, logs, finished, sent, streams, faults, before>>

(* The last sweep, and the end event; an error of the read is ignored. *)
DrainLate ==
    /\ stream.pc = "late"
    /\ \E ok \in ReadResults("late") :
         /\ Send(IF ok THEN ListSince(stream.lastLogID) ELSE <<>>, "ended")
         /\ Charge(~ok)
    /\ UNCHANGED <<lastId, writing, logs, finished, streams, before>>

StreamStep == Drain \/ ReadStatus \/ DrainLate

Open == {"drain", "status", "late"}

(* The client goes away, or a write to it fails. *)
Disconnect ==
    /\ May("client")
    /\ stream.pc \in Open
    /\ stream' = Closed
    /\ Charge(TRUE)
    /\ UNCHANGED <<lastId, writing, logs, finished, sent, streams, before>>

(* The stream has lasted sseMaxStreamDuration when a round begins. *)
Expire ==
    /\ May("deadline")
    /\ stream.pc = "drain"
    /\ stream' = [stream EXCEPT !.pc = "expired"]
    /\ Charge(TRUE)
    /\ UNCHANGED <<lastId, writing, logs, finished, sent, streams, before>>

-----------------------------------------------------------------------------
Next == \/ \E w \in Writers : BeginLog(w) \/ CommitLog(w) \/ FinishJob(w)
        \/ OpenStream \/ RefuseStream
        \/ StreamStep
        \/ Disconnect
        \/ Expire

Spec == Init /\ [][Next]_vars

(* The handler goes round its loop. *)
FairSpec == Spec /\ WF_vars(StreamStep)

-----------------------------------------------------------------------------
(* Properties *)

(* The variables have their types, and the stream never believes a job     *)
(* finished that is not.                                                   *)
TypeOK ==
    /\ lastId \in 0..MaxLogs
    /\ writing \in [Writers -> 0..MaxLogs]
    /\ logs \in SUBSET (1..lastId)
    /\ finished \in BOOLEAN
    /\ stream \in [pc: Open \cup {"closed", "ended", "expired"},
                   lastLogID: 0..MaxLogs, terminal: BOOLEAN]
    /\ sent \in Seq(1..MaxLogs)
    /\ streams \in 0..MaxStreams
    /\ faults \in 0..MaxFaults
    /\ before \in SUBSET logs
    /\ stream.terminal => finished

(* While a stream is open its client has seen exactly the logs up to the   *)
(* last one sent, each once and in order: polling by id, in batches, skips *)
(* and repeats nothing.                                                    *)
NothingSkipped ==
    stream.pc \in Open => sent = Sorted({l \in logs : l <= stream.lastLogID})

(* The end event comes after every log the worker wrote before it finished *)
(* the job, as the handler's protocol promises ("drena uma ultima vez e    *)
(* envia event: end", "faz dump inicial de todo o historico").             *)
EndIsComplete ==
    stream.pc = "ended" => before \subseteq ToSet(sent)

(* What the last sweep does guarantee, also when the job finishes between  *)
(* the reads of a round or the status could not be read: logs written      *)
(* before /finish are only missing when the sweep returned a full batch.   *)
EndLosesOnlyExcess ==
    [][stream.pc = "late" /\ stream'.pc = "ended" =>
          \/ before \subseteq ToSet(sent')
          \/ Len(sent') = Len(sent) + Batch]_vars

(* A stream does not outlive its job: it ends once the job has finished,   *)
(* unless the client left or the stream broke first.                       *)
StreamEnds ==
    [](finished /\ stream.pc \in Open => <>(stream.pc \notin Open))

=============================================================================
