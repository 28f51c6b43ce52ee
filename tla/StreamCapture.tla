--------------------------- MODULE StreamCapture ---------------------------
(***************************************************************************)
(* capture_scan and capture_observe of wlanpi_mcp/tools/capture.py over    *)
(* the socket driver of wlanpi_mcp/capture/ws_client.py: calls compete     *)
(* with each other and with other applications for one capture interface.  *)
(* A call owns the capture it starts, or joins a running one read-only.    *)
(*                                                                         *)
(* Core is external: it runs one session per interface, ends the session   *)
(* of a socket that closes, and tells every socket attached to a session   *)
(* that it ended.  A stop ends the session its socket is attached to.      *)
(* Each command is one step, the moment core handles it; the call acts on  *)
(* the answer later.                                                       *)
(***************************************************************************)

CONSTANTS
    Call,    \* tool calls, each of capture_scan or capture_observe
    Other,   \* a session of another application
    None     \* no session

ASSUME CallsAssumption == Other \notin Call /\ None \notin Call /\ Other # None

VARIABLES
    holder,   \* the session core runs on the interface, named by its owner
    pc,       \* where the call is
    seen,     \* the session the call last listed on its interface
    owns,     \* the call heard CAPTURE_STARTED
    joined,   \* the session it subscribed to
    spawned,  \* the window runs as the body of a task
    tee,      \* the pcapng file of the window is open
    stopped,  \* _StreamRun.stopped
    sockOpen, \* its socket is open
    queued,   \* an END event waits in its stream
    early,    \* capture_ended_early of its result; "cut" when a cancel cut
              \* the window short, "error" when storage did
    lost      \* history: its capture ended by no doing of its own

callVars == <<pc, seen, owns, joined, spawned, tee, stopped, early>>
sockVars == <<sockOpen, queued, lost>>
vars     == <<holder, callVars, sockVars>>

Init ==
    /\ holder \in {None, Other}
    /\ pc = [k \in Call |-> "idle"]
    /\ seen = [k \in Call |-> None]
    /\ owns = [k \in Call |-> FALSE]
    /\ joined = [k \in Call |-> None]
    /\ spawned = [k \in Call |-> FALSE]
    /\ tee = [k \in Call |-> FALSE]
    /\ stopped = [k \in Call |-> FALSE]
    /\ sockOpen = [k \in Call |-> FALSE]
    /\ queued = [k \in Call |-> FALSE]
    /\ early = [k \in Call |-> "none"]
    /\ lost = [k \in Call |-> FALSE]

Goto(k, where) == pc' = [pc EXCEPT ![k] = where]

-----------------------------------------------------------------------------
(* Core (external).                                                        *)

\* The sockets that core tells when session s ends.
Attached(s) == {k \in Call : sockOpen[k] /\ (s = k \/ joined[k] = s)}

\* Session s ends, asked for by the call asker or by none of the calls.
EndSession(s, asker) ==
    /\ holder' = None
    /\ queued' = [k \in Call |-> queued[k] \/ k \in Attached(s)]
    /\ lost' = [k \in Call |-> lost[k] \/ k \in Attached(s) \ {asker}]

\* What a stop sent on k's socket does: it ends the session k is attached to.
CoreStop(k) ==
    IF holder # None /\ k \in Attached(holder)
    THEN EndSession(holder, k)
    ELSE UNCHANGED <<holder, queued, lost>>

\* What closing k's socket does: it ends the session k owns.
CoreClose(k) ==
    /\ sockOpen' = [sockOpen EXCEPT ![k] = FALSE]
    /\ IF holder = k
       THEN EndSession(k, k)
       ELSE UNCHANGED <<holder, queued, lost>>

\* Another application starts or stops its capture.
OtherMoves ==
    /\ \/ holder = None /\ holder' = Other /\ UNCHANGED <<queued, lost>>
       \/ holder = Other /\ EndSession(Other, None)
    /\ UNCHANGED <<callVars, sockOpen>>

\* The capture of a call dies: dumpcap exits, the interface goes away.
Dies(k) ==
    /\ holder = k
    /\ EndSession(k, None)
    /\ UNCHANGED <<callVars, sockOpen>>

-----------------------------------------------------------------------------
(* Own or subscribe.                                                       *)

\* connect_capture and authenticate.
Connect(k) ==
    /\ pc[k] = "idle"
    /\ Goto(k, "listing")
    /\ sockOpen' = [sockOpen EXCEPT ![k] = TRUE]
    /\ UNCHANGED <<holder, seen, owns, joined, spawned, tee, stopped, early, queued,
                   lost>>

\* list_sessions: capture_scan goes on to start its own capture on a free
\* interface, where capture_observe has nothing to join and is over; both
\* join the session they saw.
List(k) ==
    /\ pc[k] = "listing"
    /\ seen' = [seen EXCEPT ![k] = holder]
    /\ \/ holder # None /\ Goto(k, "subscribing")
       \/ holder = None /\ \E next \in {"starting", "closing"} : Goto(k, next)
    /\ UNCHANGED <<holder, owns, joined, spawned, tee, stopped, early, sockVars>>

\* capture_observe with a session_id: no listing, whatever the id names.
Name(k) ==
    /\ pc[k] = "listing"
    /\ \E s \in Call \cup {Other} : seen' = [seen EXCEPT ![k] = s]
    /\ Goto(k, "subscribing")
    /\ UNCHANGED <<holder, owns, joined, spawned, tee, stopped, early, sockVars>>

\* Where a call goes with its capture: the window runs inline or, for a
\* client that declares tasks, as a task, with a tee file if one can be opened.
Window(k) == /\ Goto(k, "streaming")
             /\ spawned' \in {spawned, [spawned EXCEPT ![k] = TRUE]}
             /\ tee' \in {tee, [tee EXCEPT ![k] = TRUE]}

\* configure and start: core refuses an interface in use.
Start(k) ==
    /\ pc[k] = "starting"
    /\ IF holder = None
       THEN /\ holder' = k
            /\ owns' = [owns EXCEPT ![k] = TRUE]
            /\ Window(k)
       ELSE /\ Goto(k, "relisting")
            /\ UNCHANGED <<holder, owns, spawned, tee>>
    /\ UNCHANGED <<seen, joined, stopped, early, sockVars>>

\* INTERFACE_IN_USE: raced with another owner, so list again and join it.
Relist(k) ==
    /\ pc[k] = "relisting"
    /\ seen' = [seen EXCEPT ![k] = holder]
    /\ Goto(k, IF holder # None THEN "subscribing" ELSE "closing")
    /\ UNCHANGED <<holder, owns, joined, spawned, tee, stopped, early, sockVars>>

\* subscribe: the session may have ended since it was listed.
Subscribe(k) ==
    /\ pc[k] = "subscribing"
    /\ IF holder = seen[k]
       THEN /\ joined' = [joined EXCEPT ![k] = holder]
            /\ Window(k)
       ELSE /\ Goto(k, "closing")
            /\ UNCHANGED <<joined, spawned, tee>>
    /\ UNCHANGED <<holder, seen, owns, stopped, early, sockVars>>

\* A command fails, times out or is cancelled, whatever core made of it;
\* the finally only closes the socket, as nothing is known to be owned.
CommandFails(k) ==
    /\ pc[k] \in {"listing", "starting", "relisting", "subscribing"}
    /\ Goto(k, "closing")
    /\ \/ UNCHANGED holder
       \/ pc[k] = "starting" /\ holder = None /\ holder' = k
    /\ UNCHANGED <<seen, owns, joined, spawned, tee, stopped, early, sockVars>>

-----------------------------------------------------------------------------
(* The window.                                                             *)

\* The result is known: the task publishes it after the teardown, the
\* blocking call returns it after its finally.
Result(k, flag) ==
    /\ early' = [early EXCEPT ![k] = flag]
    /\ stopped' = [stopped EXCEPT ![k] = owns[k]]
    /\ tee' = [tee EXCEPT ![k] = FALSE]
    /\ Goto(k, "closing")

\* Mutant: the window never runs out.
NoDeadline(k) == FALSE /\ UNCHANGED vars

\* duration_s has elapsed: a subscriber is done, an owner asks core to stop
\* and drains the flush.
WindowElapses(k) ==
    /\ pc[k] = "streaming"
    /\ IF owns[k]
       THEN /\ Goto(k, "draining")
            /\ CoreStop(k)
            /\ UNCHANGED <<early, stopped, tee>>
       ELSE /\ Result(k, "no")
            /\ UNCHANGED <<holder, queued, lost>>
    /\ UNCHANGED <<seen, owns, joined, spawned, sockOpen>>

\* consume reads the END event: the capture ended on its own.
EndSeen(k) ==
    /\ pc[k] = "streaming"
    /\ queued[k]
    /\ Result(k, "yes")
    /\ UNCHANGED <<holder, seen, owns, joined, spawned, sockVars>>

\* The stream breaks; core ends what the socket owned.  An owner's stop and
\* drain then find a dead socket.
StreamBreaks(k) ==
    /\ pc[k] = "streaming"
    /\ sockOpen' = [sockOpen EXCEPT ![k] = FALSE]
    /\ IF holder = k
       THEN EndSession(k, None)
       ELSE /\ lost' = [lost EXCEPT ![k] = TRUE]
            /\ UNCHANGED <<holder, queued>>
    /\ Result(k, "yes")
    /\ UNCHANGED <<seen, owns, joined, spawned>>

\* Mutant: the drain's own end flags replace those of the window.
DrainEndsFlags(k) ==
    /\ pc[k] = "draining"
    /\ Result(k, IF queued[k] THEN "yes" ELSE "no")
    /\ UNCHANGED <<holder, seen, owns, joined, spawned, sockVars>>

\* The drain ends with CAPTURE_STOPPED or after STOP_DRAIN_S; the flags are
\* those of the window.
DrainEnds(k) ==
    /\ pc[k] = "draining"
    /\ Result(k, "no")
    /\ UNCHANGED <<holder, seen, owns, joined, spawned, sockVars>>

\* Mutant: the teardown stops whatever its socket is attached to.
CutStops(k, flag) ==
    /\ pc[k] \in {"streaming", "draining"}
    /\ Goto(k, "stopping")
    /\ tee' = [tee EXCEPT ![k] = FALSE]
    /\ early' = [early EXCEPT ![k] = flag]

\* Mutant: a partial result is marked with a flag clients do not know.
CutPartial(k, flag) ==
    /\ pc[k] \in {"streaming", "draining"}
    /\ Goto(k, IF owns[k] /\ ~stopped[k] THEN "stopping" ELSE "closing")
    /\ tee' = [tee EXCEPT ![k] = FALSE]
    /\ early' = [early EXCEPT ![k] = "partial"]

\* The window is cut short: its file is closed, and the teardown or finally
\* stops the capture only of an owner.
Cut(k, flag) ==
    /\ pc[k] \in {"streaming", "draining"}
    /\ Goto(k, IF owns[k] /\ ~stopped[k] THEN "stopping" ELSE "closing")
    /\ tee' = [tee EXCEPT ![k] = FALSE]
    /\ early' = [early EXCEPT ![k] = flag]

Cancelled(k) ==
    /\ Cut(k, "cut")
    /\ UNCHANGED <<holder, seen, owns, joined, spawned, stopped, sockVars>>

\* The tee's write raises: the error passes through consume and ends the call.
StorageFails(k) ==
    /\ tee[k]
    /\ Cut(k, "error")
    /\ UNCHANGED <<holder, seen, owns, joined, spawned, stopped, sockVars>>

-----------------------------------------------------------------------------
(* teardown() of a task, or the finally of the call.                       *)

\* An owner that did not reach the graceful stop stops now, best effort.
StopSent(k) ==
    /\ pc[k] = "stopping"
    /\ Goto(k, "closing")
    /\ CoreStop(k) \/ UNCHANGED <<holder, queued, lost>>
    /\ UNCHANGED <<seen, owns, joined, spawned, tee, stopped, early, sockOpen>>

\* Mutant: a call that owns nothing leaves its socket open.
CloseOwned(k) ==
    /\ pc[k] = "closing"
    /\ Goto(k, "closed")
    /\ IF owns[k] THEN CoreClose(k) ELSE UNCHANGED <<holder, sockVars>>
    /\ UNCHANGED <<seen, owns, joined, spawned, tee, stopped, early>>

Close(k) ==
    /\ pc[k] = "closing"
    /\ Goto(k, "closed")
    /\ CoreClose(k)
    /\ UNCHANGED <<seen, owns, joined, spawned, tee, stopped, early>>

\* The request is cancelled inside its finally: the rest of it is skipped.
\* A task's teardown is shielded from this.
Killed(k) ==
    /\ pc[k] \in {"stopping", "closing"}
    /\ ~spawned[k]
    /\ Goto(k, "killed")
    /\ UNCHANGED <<holder, seen, owns, joined, spawned, tee, stopped, early, sockVars>>

-----------------------------------------------------------------------------

CallNext(k) ==
    \/ Connect(k)
    \/ List(k)
    \/ Name(k)
    \/ Start(k)
    \/ Relist(k)
    \/ Subscribe(k)
    \/ CommandFails(k)
    \/ WindowElapses(k)
    \/ EndSeen(k)
    \/ StreamBreaks(k)
    \/ DrainEnds(k)
    \/ Cancelled(k)
    \/ StorageFails(k)
    \/ StopSent(k)
    \/ Close(k)
    \/ Killed(k)

Next == OtherMoves \/ \E k \in Call : Dies(k) \/ CallNext(k)

Spec == Init /\ [][Next]_vars

\* Windows and drains have deadlines, and the socket's calls return.
Fairness ==
    \A k \in Call :
        /\ WF_vars(WindowElapses(k))
        /\ WF_vars(DrainEnds(k))
        /\ WF_vars(StopSent(k))
        /\ WF_vars(Close(k))

FairSpec == Spec /\ Fairness

-----------------------------------------------------------------------------
(* Properties.                                                             *)

Session == Call \cup {Other, None}

TypeOK ==
    /\ holder \in Session
    /\ pc \in [Call -> {"idle", "listing", "starting", "relisting",
                        "subscribing", "streaming", "draining", "stopping",
                        "closing", "closed", "killed"}]
    /\ seen \in [Call -> Session]
    /\ owns \in [Call -> BOOLEAN]
    /\ joined \in [Call -> Session]
    /\ spawned \in [Call -> BOOLEAN]
    /\ tee \in [Call -> BOOLEAN]
    /\ stopped \in [Call -> BOOLEAN]
    /\ sockOpen \in [Call -> BOOLEAN]
    /\ queued \in [Call -> BOOLEAN]
    /\ early \in [Call -> {"none", "yes", "no", "cut", "error"}]
    /\ lost \in [Call -> BOOLEAN]

\* A call never ends a capture it does not own, however it leaves: the
\* steps of one call never free an interface that another session holds.
NeverStopsOthers ==
    [][\A k \in Call : CallNext(k) /\ holder \notin {None, k} =>
          holder' = holder]_vars

\* A call that is over holds no interface, socket or file, also when
\* it failed before it knew that core had started its capture.
ReleasedWhenClosed ==
    \A k \in Call : pc[k] = "closed" => holder # k /\ ~sockOpen[k] /\ ~tee[k]

\* What the call's capture is to its client, and what it holds.
stage == [k \in Call |->
            CASE pc[k] = "idle"   -> "idle"
              [] pc[k] \in {"listing", "starting", "relisting", "subscribing"} -> "asking"
              [] pc[k] \in {"streaming", "draining"} -> "running"
              [] pc[k] = "closed" -> "released"
              [] pc[k] = "killed" -> "abandoned"
              [] OTHER -> IF early[k] = "none" THEN "failing" ELSE "ending"]

taken == [k \in Call |-> holder = k]

holds == [k \in Call |-> {h \in {"socket", "file"} :
                            IF h = "socket" THEN sockOpen[k] ELSE tee[k]}]

told == [k \in Call |-> early[k] # "none"]

Life == INSTANCE CaptureLifecycle WITH Capture <- Call

\* The calls keep to the life of a capture: core runs one of theirs only
\* once they asked, and while their socket is open; the tee file is closed
\* with the window; and a call that is over holds nothing, also when it failed before
\* it knew that core had started its capture.
ImplementsCapture == Life!LifeSpec

\* "capture_ended_early" tells of a capture that died, never of the call's
\* own stop at the end of its window.
EarlyMeansLost ==
    \A k \in Call : early[k] = "yes" => lost[k]

\* The interface is never held for ever by a call, unless its request was
\* cancelled once more in the middle of its clean-up.
InterfaceFreed ==
    \A k \in Call : holder = k ~> holder # k \/ pc[k] = "killed"

=============================================================================
