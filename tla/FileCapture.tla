---------------------------- MODULE FileCapture ----------------------------
(***************************************************************************)
(* start_pcap_file, stop_pcap_file and the background run of               *)
(* wlanpi_mcp/tools/capture_file.py: a capture that outlives the call that *)
(* started it, owned by the task _run_file_capture, stopped by its         *)
(* duration, by stop_pcap_file, by tasks/cancel, or by a cancel.           *)
(*                                                                         *)
(* A request that awaits the run forwards its own cancellation to it       *)
(* (Abandons): the CancelledError is raised at the run's current await,    *)
(* also when that await is part of the run's clean-up.                     *)
(***************************************************************************)
EXTENDS Integers

CONSTANTS
    Capture,    \* captures that may be started
    Tasked,     \* captures started by a client of the tasks extension
    Request,    \* concurrent stop_pcap_file and tasks/cancel requests
    Idle        \* a request that is not waiting

ASSUME CapturesAssumption == Tasked \subseteq Capture /\ Idle \notin Capture

VARIABLES
    pc,              \* where the start call or the run is
    spawned,         \* the run task owns the socket and the file
    status,          \* FileCapture.status ("none" before there is an entry)
    stopEvent,       \* FileCapture.stop_event is set
    endedAt,         \* FileCapture.ended_at is not None
    fileOpen,        \* the pcapng file is open for writing
    sockOpen,        \* the capture WebSocket is open
    started,         \* core handled the start command
    session,         \* core runs the capture of this socket
    cancelPending,   \* a CancelledError will be raised at the current await
    record,          \* status of the task record
    report,          \* the task record carries the capture's report
    cancelRequested, \* TaskRecord.cancel_requested
    waiting,         \* the capture whose run each request awaits
    method           \* the tool or method that request came through

entryVars  == <<spawned, status, stopEvent, endedAt, fileOpen>>
coreVars   == <<sockOpen, started, session>>
recordVars == <<record, report, cancelRequested>>
reqVars    == <<waiting, method>>
vars       == <<pc, entryVars, coreVars, cancelPending, recordVars, reqVars>>

Gone == {"done", "killed"}

Init ==
    /\ pc = [c \in Capture |-> "unborn"]
    /\ spawned = [c \in Capture |-> FALSE]
    /\ status = [c \in Capture |-> "none"]
    /\ stopEvent = [c \in Capture |-> FALSE]
    /\ endedAt = [c \in Capture |-> FALSE]
    /\ fileOpen = [c \in Capture |-> FALSE]
    /\ sockOpen = [c \in Capture |-> FALSE]
    /\ started = [c \in Capture |-> FALSE]
    /\ session = [c \in Capture |-> FALSE]
    /\ cancelPending = [c \in Capture |-> FALSE]
    /\ record = [c \in Capture |-> "none"]
    /\ report = [c \in Capture |-> FALSE]
    /\ cancelRequested = [c \in Capture |-> FALSE]
    /\ waiting = [r \in Request |-> Idle]
    /\ method = [r \in Request |-> "none"]

Terminal(c) == record[c] \in {"completed", "failed", "cancelled"}

\* TaskStore._finish on the capture's record.
Finish(c, s, withReport) ==
    IF Terminal(c)
    THEN UNCHANGED <<record, report>>
    ELSE /\ record' = [record EXCEPT ![c] = s]
         /\ report' = [report EXCEPT ![c] = @ \/ withReport]

-----------------------------------------------------------------------------
(* start_pcap_file.                                                        *)

\* The socket is connected and authenticated, and the start command sent.
Start(c) ==
    /\ pc[c] = "unborn"
    /\ pc' = [pc EXCEPT ![c] = "starting"]
    /\ sockOpen' = [sockOpen EXCEPT ![c] = TRUE]
    /\ UNCHANGED <<entryVars, started, session, cancelPending, recordVars, reqVars>>

\* Core starts the capture, perhaps after the daemon stopped waiting.
CoreStarts(c) ==
    /\ sockOpen[c] /\ ~started[c]
    /\ started' = [started EXCEPT ![c] = TRUE]
    /\ session' = [session EXCEPT ![c] = TRUE]
    /\ UNCHANGED <<pc, entryVars, sockOpen, cancelPending, recordVars, reqVars>>

\* Core ends the capture on its own: the interface vanished, dumpcap exited.
CoreEnds(c) ==
    /\ session[c]
    /\ session' = [session EXCEPT ![c] = FALSE]
    /\ UNCHANGED <<pc, entryVars, sockOpen, started, cancelPending, recordVars, reqVars>>

\* CAPTURE_STARTED arrives: open the file, register the entry and its task
\* record, and hand socket and file to the run.
Spawn(c) ==
    /\ pc[c] = "starting"
    /\ started[c]
    /\ pc' = [pc EXCEPT ![c] = "consuming"]
    /\ spawned' = [spawned EXCEPT ![c] = TRUE]
    /\ status' = [status EXCEPT ![c] = "running"]
    /\ fileOpen' = [fileOpen EXCEPT ![c] = TRUE]
    /\ record' = [record EXCEPT ![c] = IF c \in Tasked THEN "working" ELSE @]
    /\ UNCHANGED <<stopEvent, endedAt, coreVars, cancelPending, report,
                   cancelRequested, reqVars>>

\* Mutant: the socket is closed only by a call that owns a session.
StartFailsOpen(c) ==
    /\ pc[c] = "starting"
    /\ pc' = [pc EXCEPT ![c] = "done"]
    /\ UNCHANGED <<entryVars, coreVars, cancelPending, recordVars, reqVars>>

\* The start command fails, times out or is cancelled: nothing is owned and
\* the call's finally only closes the socket.
StartFails(c) ==
    /\ pc[c] = "starting"
    /\ pc' = [pc EXCEPT ![c] = "closing"]
    /\ UNCHANGED <<entryVars, coreVars, cancelPending, recordVars, reqVars>>

\* The capture file cannot be opened: the call owns a session to stop.
OpenFails(c) ==
    /\ pc[c] = "starting"
    /\ started[c]
    /\ pc' = [pc EXCEPT ![c] = "stopping"]
    /\ UNCHANGED <<entryVars, coreVars, cancelPending, recordVars, reqVars>>

\* The start call is cancelled again inside its finally.
AbandonStart(c) ==
    /\ pc[c] \in {"stopping", "closing"}
    /\ ~spawned[c]
    /\ cancelPending' = [cancelPending EXCEPT ![c] = TRUE]
    /\ UNCHANGED <<pc, entryVars, coreVars, recordVars, reqVars>>

-----------------------------------------------------------------------------
(* _run_file_capture, and the finally of a start that never spawned it.    *)

\* The capture loop is left: the status is set and the file closed before
\* the next await.
LeaveConsume(c, s) ==
    /\ pc' = [pc EXCEPT ![c] = "stopping"]
    /\ status' = [status EXCEPT ![c] = s]
    /\ fileOpen' = [fileOpen EXCEPT ![c] = FALSE]
    /\ UNCHANGED <<spawned, stopEvent, endedAt, coreVars, recordVars, reqVars>>

\* Mutant: consume_raw looks at the stop event only when a frame arrives.
StopUnseen(c) == FALSE /\ UNCHANGED vars

\* consume_raw wakes at least once a second and sees the stop event.
StopSeen(c) ==
    /\ pc[c] = "consuming"
    /\ ~cancelPending[c]
    /\ stopEvent[c]
    /\ LeaveConsume(c, "stopped")
    /\ UNCHANGED cancelPending

\* The duration elapsed, the stream closed or core ended the capture; the
\* status still says whether a stop had been asked for.
ConsumeEnds(c) ==
    /\ pc[c] = "consuming"
    /\ ~cancelPending[c]
    /\ LeaveConsume(c, IF stopEvent[c] THEN "stopped" ELSE "completed")
    /\ UNCHANGED cancelPending

\* The sink raises: the disk is full or gone.
ConsumeFails(c) ==
    /\ pc[c] = "consuming"
    /\ ~cancelPending[c]
    /\ LeaveConsume(c, "error")
    /\ UNCHANGED cancelPending

\* A cancel lands in the capture loop.
ConsumeCancelled(c) ==
    /\ pc[c] = "consuming"
    /\ cancelPending[c]
    /\ cancelPending' = [cancelPending EXCEPT ![c] = FALSE]
    /\ LeaveConsume(c, "cancelled")

\* CaptureSocket.stop: best effort, a failing send is swallowed.
StopSent(c) ==
    /\ pc[c] = "stopping"
    /\ ~cancelPending[c]
    /\ pc' = [pc EXCEPT ![c] = "closing"]
    /\ session' \in {session, [session EXCEPT ![c] = FALSE]}
    /\ UNCHANGED <<entryVars, sockOpen, started, cancelPending, recordVars, reqVars>>

\* Mutant: the outcome ignores that the run was cancelled or failed.
OutcomeStopped(c) ==
    IF cancelRequested[c] THEN "cancelled" ELSE "completed"

\* _publish_task_outcome: the record's status for the way the run ended.
Outcome(c) ==
    IF cancelRequested[c] \/ status[c] = "cancelled" THEN "cancelled"
    ELSE IF status[c] = "error" THEN "failed" ELSE "completed"

\* CaptureSocket.close, which ends the session of the socket; a run then
\* publishes its outcome.
Closed(c) ==
    /\ pc[c] = "closing"
    /\ ~cancelPending[c]
    /\ pc' = [pc EXCEPT ![c] = "done"]
    /\ sockOpen' = [sockOpen EXCEPT ![c] = FALSE]
    /\ session' = [session EXCEPT ![c] = FALSE]
    /\ endedAt' = [endedAt EXCEPT ![c] = spawned[c]]
    /\ IF spawned[c] /\ c \in Tasked
       THEN Finish(c, Outcome(c), TRUE)
       ELSE UNCHANGED <<record, report>>
    /\ UNCHANGED <<spawned, status, stopEvent, fileOpen, started, cancelPending,
                   cancelRequested, reqVars>>

\* A cancel lands in the clean-up: only Exception is caught there, so what
\* is left of it is skipped.  The call it cut short may have taken effect.
CleanupKilled(c) ==
    /\ pc[c] \in {"stopping", "closing"}
    /\ cancelPending[c]
    /\ pc' = [pc EXCEPT ![c] = "killed"]
    /\ cancelPending' = [cancelPending EXCEPT ![c] = FALSE]
    /\ session' \in {session, [session EXCEPT ![c] = FALSE]}
    /\ IF pc[c] = "closing" /\ ~session'[c]
       THEN sockOpen' \in {sockOpen, [sockOpen EXCEPT ![c] = FALSE]}
       ELSE UNCHANGED sockOpen
    /\ UNCHANGED <<entryVars, started, recordVars, reqVars>>

-----------------------------------------------------------------------------
(* stop_pcap_file and tasks/cancel.                                        *)

\* Mutant: the request marks the capture itself.
RequestStopMarks(r, c) ==
    /\ waiting[r] = Idle
    /\ status[c] = "running"
    /\ stopEvent' = [stopEvent EXCEPT ![c] = TRUE]
    /\ status' = [status EXCEPT ![c] = "stopping"]
    /\ waiting' = [waiting EXCEPT ![r] = c]
    /\ method' = [method EXCEPT ![r] = "stop"]
    /\ UNCHANGED <<pc, spawned, endedAt, fileOpen, coreVars, cancelPending,
                   recordVars>>

\* stop_pcap_file up to its await; an ended capture is returned as it is.
RequestStop(r, c) ==
    /\ waiting[r] = Idle
    /\ status[c] = "running"
    /\ stopEvent' = [stopEvent EXCEPT ![c] = TRUE]
    /\ waiting' = [waiting EXCEPT ![r] = c]
    /\ method' = [method EXCEPT ![r] = "stop"]
    /\ UNCHANGED <<pc, spawned, status, endedAt, fileOpen, coreVars,
                   cancelPending, recordVars>>

\* tasks/cancel up to its await: TaskStore.cancel, then _stop_for_cancel.
RequestCancel(r, c) ==
    /\ waiting[r] = Idle
    /\ record[c] = "working"
    /\ cancelRequested' = [cancelRequested EXCEPT ![c] = TRUE]
    /\ stopEvent' = [stopEvent EXCEPT ![c] = TRUE]
    /\ waiting' = [waiting EXCEPT ![r] = c]
    /\ method' = [method EXCEPT ![r] = "cancel"]
    /\ UNCHANGED <<pc, spawned, status, endedAt, fileOpen, coreVars,
                   cancelPending, record, report>>

\* The request is cancelled while it awaits the run.
Abandon(r) ==
    LET c == waiting[r]
    IN  /\ c # Idle
        /\ pc[c] \notin Gone
        /\ cancelPending' = [cancelPending EXCEPT ![c] = TRUE]
        /\ UNCHANGED <<pc, entryVars, coreVars, recordVars, reqVars>>

\* Mutant: the hook only signals the run.
AnsweredEarly(r) ==
    LET c == waiting[r]
    IN  /\ c # Idle
        /\ waiting' = [waiting EXCEPT ![r] = Idle]
        /\ IF method[r] = "cancel"
           THEN Finish(c, "cancelled", FALSE)
           ELSE UNCHANGED <<record, report>>
        /\ UNCHANGED <<pc, entryVars, coreVars, cancelPending, cancelRequested,
                       method>>

\* The run has ended: the request is answered, and a tasks/cancel ends a
\* record that the run left open.
Answered(r) ==
    LET c == waiting[r]
    IN  /\ c # Idle
        /\ pc[c] \in Gone
        /\ waiting' = [waiting EXCEPT ![r] = Idle]
        /\ IF method[r] = "cancel"
           THEN Finish(c, "cancelled", FALSE)
           ELSE UNCHANGED <<record, report>>
        /\ UNCHANGED <<pc, entryVars, coreVars, cancelPending, cancelRequested,
                       method>>

-----------------------------------------------------------------------------

RunNext(c) ==
    \/ Start(c)
    \/ CoreStarts(c)
    \/ CoreEnds(c)
    \/ Spawn(c)
    \/ StartFails(c)
    \/ OpenFails(c)
    \/ AbandonStart(c)
    \/ StopSeen(c)
    \/ ConsumeEnds(c)
    \/ ConsumeFails(c)
    \/ ConsumeCancelled(c)
    \/ StopSent(c)
    \/ Closed(c)
    \/ CleanupKilled(c)

RequestNext(r) ==
    \/ \E c \in Capture : RequestStop(r, c) \/ RequestCancel(r, c)
    \/ Abandon(r)
    \/ Answered(r)

Next == (\E c \in Capture : RunNext(c)) \/ (\E r \in Request : RequestNext(r))

Spec == Init /\ [][Next]_vars

\* The loop runs what is ready and the socket's calls return.  The duration
\* may be an hour away, so ConsumeEnds is not assumed.
Fairness ==
    /\ \A c \in Capture :
         /\ WF_vars(StopSeen(c))
         /\ WF_vars(ConsumeCancelled(c))
         /\ WF_vars(StopSent(c))
         /\ WF_vars(Closed(c))
         /\ WF_vars(CleanupKilled(c))
    /\ \A r \in Request : WF_vars(Answered(r))

FairSpec == Spec /\ Fairness

-----------------------------------------------------------------------------
(* Properties.                                                             *)

Statuses == {"running", "completed", "stopped", "error", "cancelled"}

TypeOK ==
    /\ pc \in [Capture -> {"unborn", "starting", "consuming", "stopping",
                           "closing"} \cup Gone]
    /\ spawned \in [Capture -> BOOLEAN]
    /\ status \in [Capture -> Statuses \cup {"none"}]
    /\ stopEvent \in [Capture -> BOOLEAN]
    /\ endedAt \in [Capture -> BOOLEAN]
    /\ fileOpen \in [Capture -> BOOLEAN]
    /\ sockOpen \in [Capture -> BOOLEAN]
    /\ started \in [Capture -> BOOLEAN]
    /\ session \in [Capture -> BOOLEAN]
    /\ cancelPending \in [Capture -> BOOLEAN]
    /\ record \in [Capture -> {"none", "working", "completed", "failed",
                               "cancelled"}]
    /\ report \in [Capture -> BOOLEAN]
    /\ cancelRequested \in [Capture -> BOOLEAN]
    /\ waiting \in [Request -> Capture \cup {Idle}]
    /\ method \in [Request -> {"none", "stop", "cancel"}]

\* A clean-up that runs to its end leaves nothing behind: no session, no
\* socket, no file, and a record a poll sees finished.
CleanEnd ==
    \A c \in Capture : pc[c] = "done" =>
        /\ ~session[c] /\ ~sockOpen[c] /\ ~fileOpen[c]
        /\ spawned[c] => endedAt[c]
        /\ spawned[c] /\ c \in Tasked => Terminal(c)

\* What the capture is to its client, and what it holds.
stage == [c \in Capture |->
            CASE pc[c] = "unborn"    -> "idle"
              [] pc[c] = "starting"  -> "asking"
              [] pc[c] = "consuming" -> "running"
              [] pc[c] = "done"      -> "released"
              [] pc[c] = "killed"    -> "abandoned"
              [] OTHER -> IF spawned[c] THEN "ending" ELSE "failing"]

holds == [c \in Capture |-> {h \in {"socket", "file"} :
                               IF h = "socket" THEN sockOpen[c] ELSE fileOpen[c]}]

told == [c \in Capture |-> endedAt[c] /\ (c \in Tasked => Terminal(c))]

Life == INSTANCE CaptureLifecycle WITH taken <- session

\* The run and the calls around it keep to the life of a capture: core holds
\* a session of theirs only as long as their socket is open and they are not
\* released, and a clean-up that runs to its end leaves no session, socket or
\* file, and an outcome in the listing and in the task record.
ImplementsCapture == Life!LifeSpec

\* The record of a capture, where a client of the tasks extension looks.
records  == [c \in Tasked |-> IF record[c] = "none" THEN "fresh" ELSE record[c]]
outcomes == [c \in Tasked |-> IF report[c] THEN "report" ELSE "none"]

TaskLife == INSTANCE TaskLifecycle
               WITH Task <- Tasked, Result <- {"report"}, NoResult <- "none",
                    phase <- records, outcome <- outcomes

\* The record of a capture keeps to the life of a task, although the run and
\* the requests write it without the store's own body: the first writer ends
\* it, with the report unless it is a cancel, and no one reopens it.
ImplementsTaskLifecycle == TaskLife!LifeSpec

\* The record of a run that ended cleanly tells the run's own end, with its
\* report: the store's blanket "cancelled" never replaces it.
RecordTellsTheRun ==
    \A c \in Tasked : pc[c] = "done" /\ Terminal(c) =>
        /\ report[c]
        /\ record[c] = "failed" => status[c] = "error"
        /\ record[c] = "completed" => status[c] \in {"completed", "stopped"}
        /\ record[c] = "cancelled" => cancelRequested[c] \/ status[c] = "cancelled"

\* stop_pcap_file and tasks/cancel answer only after the run has ended, with
\* its file closed: what they report of the capture is final.
AnswerMeansEnded ==
    [][\A r \in Request, c \in Capture :
          waiting[r] = c /\ waiting'[r] = Idle =>
              /\ pc[c] \in Gone
              /\ ~fileOpen[c]]_vars

\* stop_pcap_file and tasks/cancel are answered even if no frame arrives.
StopIsAnswered == \A r \in Request : waiting[r] # Idle ~> waiting[r] = Idle

\* Claimed by _stop_for_cancel ("the store's cancel returns only once the
\* finally block above has stopped the core session and published the
\* outcome").
CancelReturnsReleased ==
    [][\A r \in Request, c \in Capture :
          waiting[r] = c /\ waiting'[r] = Idle /\ method[r] = "cancel" =>
              endedAt[c] /\ report'[c]]_vars

=============================================================================
