------------------------------ MODULE JobPanel ------------------------------
(***************************************************************************)
(* The side panel of a job in the web client, on top of the stream it      *)
(* follows: streamLogs opens an EventSource, which opens another stream by *)
(* itself whenever a connection breaks, until the panel closes it or an    *)
(* answer is no stream.  What the handler has sent arrives in order, and   *)
(* is lost when the connection is.                                         *)
(***************************************************************************)
EXTENDS LogStream, FiniteSets

VARIABLE panel   \* logs: the lines shown; read: how much of the present
                 \* stream has arrived; status: liveStatus; closed: es.close;
                 \* refused: the EventSource has failed for good

panelVars == <<vars, panel>>

PanelInit ==
    /\ Init
    /\ panel = [logs |-> <<>>, read |-> 0, status |-> "none",
              closed |-> FALSE, refused |-> FALSE]

Listening == ~panel.closed /\ ~panel.refused

Status(terminal) == IF terminal THEN "terminal" ELSE "active"

(* Mutant: an error closes the EventSource. *)
ConnectOnce ==
    /\ Listening /\ stream.pc = "closed" /\ streams = 0
    /\ OpenStream
    /\ panel' = [panel EXCEPT !.read = 0, !.status = Status(finished)]

(* The first event of a stream is the status; its logs begin again with    *)
(* the first one, and are appended to what is shown.                       *)
Connect ==
    /\ Listening /\ stream.pc = "closed"
    /\ OpenStream
    /\ panel' = [panel EXCEPT !.read = 0, !.status = Status(finished)]

(* An EventSource gives up when the answer is no stream: it does not try   *)
(* again, and the panel ignores the event that says so.                    *)
Refused ==
    /\ Listening /\ stream.pc = "closed"
    /\ RefuseStream
    /\ panel' = [panel EXCEPT !.refused = TRUE]

OnLog ==
    /\ Listening /\ panel.read < Len(sent)
    /\ panel' = [panel EXCEPT !.read = @ + 1, !.logs = Append(@, sent[panel.read + 1])]
    /\ UNCHANGED vars

(* The handler reports a change of the status it has seen; the model does  *)
(* not order that event among the logs.                                    *)
OnStatus ==
    /\ Listening /\ stream.pc # "closed" /\ panel.status # Status(stream.terminal)
    /\ panel' = [panel EXCEPT !.status = Status(stream.terminal)]
    /\ UNCHANGED vars

EndArrived == /\ Listening /\ stream.pc \in {"ended", "expired"}
              /\ panel.read = Len(sent)

(* Mutant: the EventSource is left open. *)
OnEndLeftOpen ==
    /\ EndArrived
    /\ panel' = [panel EXCEPT !.status = Status(stream.terminal)]
    /\ stream' = Closed
    /\ UNCHANGED <<lastId, writing, logs, finished, sent, streams, faults, before>>

(* The end event, of a finished job or of a stream that lasted too long.   *)
OnEnd ==
    /\ EndArrived
    /\ panel' = [panel EXCEPT !.status = Status(stream.terminal), !.closed = TRUE]
    /\ UNCHANGED vars

(* The connection breaks with the end event on its way. *)
EndLost ==
    /\ May("client")
    /\ Listening /\ stream.pc \in {"ended", "expired"}
    /\ stream' = Closed
    /\ Charge(TRUE)
    /\ UNCHANGED <<lastId, writing, logs, finished, sent, streams, before, panel>>

(* Cancelar, offered while the status shown is active; until the stream has *)
(* told one, that is the status of the row the panel has fetched.  A        *)
(* pending job ends at once; a running one is only told to stop, which      *)
(* changes nothing here, and the server refuses (409) when the job has      *)
(* ended meanwhile.  Reexecutar makes another job and changes nothing here  *)
(* either.                                                                  *)
CancelFromPanel ==
    /\ ~panel.closed /\ panel.status # "terminal"
    /\ ~finished
    /\ finished' = TRUE
    /\ before' = logs
    /\ UNCHANGED <<lastId, writing, logs, stream, sent, streams, faults, panel>>

(* Another job or none is shown: cleanup closes the EventSource. *)
ClosePanel ==
    /\ ~panel.closed
    /\ panel' = [panel EXCEPT !.closed = TRUE]
    /\ stream' = IF stream.pc \in Open THEN Closed ELSE stream
    /\ UNCHANGED <<lastId, writing, logs, finished, sent, streams, faults, before>>

PanelStep == Connect \/ OnLog \/ OnStatus \/ OnEnd

PanelNext ==
    \/ PanelStep \/ Refused \/ EndLost \/ CancelFromPanel \/ ClosePanel
    \/ (\E w \in Writers : BeginLog(w) \/ CommitLog(w) \/ FinishJob(w)) /\ UNCHANGED panel
    \/ (StreamStep \/ Disconnect \/ Expire) /\ UNCHANGED panel

(* The handler goes round its loop; the browser reconnects after a break   *)
(* and hands over what arrives.                                            *)
PanelSpec == PanelInit /\ [][PanelNext]_panelVars /\ WF_vars(StreamStep /\ UNCHANGED panel)
                       /\ WF_panelVars(PanelStep)

-----------------------------------------------------------------------------
(* Properties *)

(* Lines may come twice, when a stream broke, but none is left out: after  *)
(* any number of reconnections the panel shows every log of the job up to  *)
(* the latest it shows.                                                    *)
PanelHasNoGaps ==
    \A l \in ToSet(panel.logs) : logs \cap 1..l \subseteq ToSet(panel.logs)

(* A line is shown again only for a connection that broke: the end of the  *)
(* stream, which is no break, is not followed by another stream that       *)
(* repeats it.                                                             *)
RepeatsOnlyAfterFaults ==
    \A l \in ToSet(panel.logs) :
        Cardinality({i \in DOMAIN panel.logs : panel.logs[i] = l}) <= faults + 1

(* A panel that stays open comes to show that its job has ended, through   *)
(* broken streams and lost events, unless the stream was ended for its     *)
(* length or the request for another was refused.                          *)
PanelSettles ==
    finished ~> (panel.status = "terminal" \/ panel.closed \/ panel.refused)

(* The panel shows the data of its job and the logs in real time ("mostra  *)
(* dados do job + logs em tempo real via SSE"): while it is open it comes  *)
(* to show that the job has ended.                                         *)
PanelFollows ==
    finished ~> (panel.status = "terminal" \/ panel.closed)

=============================================================================
