--------------------------- MODULE ProfileClients ---------------------------
(***************************************************************************)
(* profile_clients of wlanpi_mcp/tools/profiler.py: each run is the body   *)
(* of one MCP task (Tasks.tla) that starts the profiler through core,      *)
(* polls the client count, and stops it.  Core holds one profiler for the  *)
(* whole device; other clients start and stop it with start_profiler and   *)
(* stop_profiler.                                                          *)
(*                                                                         *)
(* Every POST is split into sending, core handling it and the run hearing  *)
(* the answer, because a tasks/cancel or a core error may land between.    *)
(* Core is external: it takes one profiler at a time and handles the start *)
(* of a run before its stops.                                              *)
(***************************************************************************)
EXTENDS Integers

CONSTANTS
    Run,        \* profile_clients tasks
    CanAsk,     \* runs whose client supports form elicitation
    Other,      \* a profiler started by start_profiler
    Nobody,     \* core runs no profiler
    Until,      \* until_clients
    MaxWindows, \* bound on the windows a client may grant
    CoreFails   \* whether a call to core may raise (error status, timeout)

ASSUME RunsAssumption ==
    /\ CanAsk \subseteq Run
    /\ Other \notin Run /\ Nobody \notin Run /\ Other # Nobody
    /\ Until \in Nat \ {0}
    /\ MaxWindows \in Nat \ {0}
    /\ CoreFails \in BOOLEAN

VARIABLES
    running,    \* whose profiler core runs
    startReq,   \* the start POST: none, sent, lost or what core answered
    stopReq,    \* the stop POST of the work and of the teardown
    ousted,     \* history: somebody else's stop ended the run's profiler
    pc,         \* where the run is
    owned,      \* _ProfileRun.owned
    stopped,    \* _ProfileRun.stopped
    count,      \* _ProfileRun.count
    windowOver, \* time.monotonic() has reached _ProfileRun.deadline
    windows,    \* windows granted so far
    outcome     \* how session() ended

coreVars == <<running, startReq, stopReq, ousted>>
runVars  == <<pc, owned, stopped, count, windowOver, windows, outcome>>
vars     == <<coreVars, runVars>>

Refusals == {"already_running", "exited"}
Looping  == {"counting", "sleeping", "recounting"}
Phases   == {"work", "teardown"}

Init ==
    /\ running \in {Nobody, Other}
    /\ startReq = [r \in Run |-> "none"]
    /\ stopReq = [r \in Run |-> [p \in Phases |-> "none"]]
    /\ ousted = [r \in Run |-> FALSE]
    /\ pc = [r \in Run |-> "idle"]
    /\ owned = [r \in Run |-> FALSE]
    /\ stopped = [r \in Run |-> FALSE]
    /\ count = [r \in Run |-> 0]
    /\ windowOver = [r \in Run |-> FALSE]
    /\ windows = [r \in Run |-> 0]
    /\ outcome = [r \in Run |-> "none"]

-----------------------------------------------------------------------------
(* Core and the other clients (external).                                  *)

\* Core handles a start: one profiler at a time, and the spawn may fail.
CoreStart(r) ==
    /\ startReq[r] = "sent"
    /\ \/ /\ running = Nobody
          /\ running' = r
          /\ startReq' = [startReq EXCEPT ![r] = "success"]
       \/ /\ running = Nobody
          /\ startReq' = [startReq EXCEPT ![r] = "exited"]
          /\ UNCHANGED running
       \/ /\ running # Nobody
          /\ startReq' = [startReq EXCEPT ![r] = "already_running"]
          /\ UNCHANGED running
    /\ UNCHANGED <<stopReq, ousted, runVars>>

\* The running profiler is ended by a stop of c's, whoever started it.
TakenDown(c) ==
    /\ running' = Nobody
    /\ ousted' = [q \in Run |-> ousted[q] \/ (q = running /\ q # c)]

\* Core handles a stop: it stops the profiler it runs, whoever started it.
CoreStop(r, p) ==
    /\ stopReq[r][p] = "sent"
    /\ startReq[r] # "sent"
    /\ stopReq' = [stopReq EXCEPT ![r][p] = "handled"]
    /\ TakenDown(r)
    /\ UNCHANGED <<startReq, runVars>>

\* A request that core never sees.
Lost(r) ==
    /\ CoreFails
    /\ \/ /\ startReq[r] = "sent"
          /\ startReq' = [startReq EXCEPT ![r] = "lost"]
          /\ UNCHANGED stopReq
       \/ /\ \E p \in Phases : /\ stopReq[r][p] = "sent"
                               /\ stopReq' = [stopReq EXCEPT ![r][p] = "lost"]
          /\ UNCHANGED startReq
    /\ UNCHANGED <<running, ousted, runVars>>

OtherStarts ==
    /\ running = Nobody
    /\ running' = Other
    /\ UNCHANGED <<startReq, stopReq, ousted, runVars>>

OtherStops ==
    /\ running # Nobody
    /\ TakenDown(Other)
    /\ UNCHANGED <<startReq, stopReq, runVars>>

-----------------------------------------------------------------------------
(* The run: session() and its teardown.                                    *)

\* session() or a cancel ends the work; spawn goes on to the teardown.
Ends(r, how) ==
    /\ pc' = [pc EXCEPT ![r] = "teardown"]
    /\ outcome' = [outcome EXCEPT ![r] = how]

\* Mutant: the run claims the profiler only once core has answered.
BeginsUnowned(r) ==
    /\ pc[r] = "idle"
    /\ pc' = [pc EXCEPT ![r] = "starting"]
    /\ startReq' = [startReq EXCEPT ![r] = "sent"]
    /\ UNCHANGED <<running, stopReq, ousted, owned, stopped, count, windowOver,
                   windows, outcome>>

\* profile_clients spawns the run; session() claims it and POSTs the start.
Begins(r) ==
    /\ pc[r] = "idle"
    /\ pc' = [pc EXCEPT ![r] = "starting"]
    /\ owned' = [owned EXCEPT ![r] = TRUE]
    /\ startReq' = [startReq EXCEPT ![r] = "sent"]
    /\ UNCHANGED <<running, stopReq, ousted, stopped, count, windowOver,
                   windows, outcome>>

\* Mutant: a refused run still believes it owns a profiler.
StartReturnsOwned(r) ==
    /\ pc[r] = "starting"
    /\ \/ /\ startReq[r] \in Refusals
          /\ Ends(r, "completed")
          /\ UNCHANGED windows
       \/ /\ startReq[r] = "success"
          /\ pc' = [pc EXCEPT ![r] = "counting"]
          /\ windows' = [windows EXCEPT ![r] = 1]
          /\ UNCHANGED outcome
    /\ UNCHANGED <<coreVars, owned, stopped, count, windowOver>>

\* The start is answered: a refusal disowns the run and ends it, a success
\* opens the first window.
StartReturns(r) ==
    /\ pc[r] = "starting"
    /\ \/ /\ startReq[r] \in Refusals
          /\ owned' = [owned EXCEPT ![r] = FALSE]
          /\ Ends(r, "completed")
          /\ UNCHANGED windows
       \/ /\ startReq[r] = "success"
          /\ pc' = [pc EXCEPT ![r] = "counting"]
          /\ windows' = [windows EXCEPT ![r] = 1]
          /\ UNCHANGED <<owned, outcome>>
    /\ UNCHANGED <<coreVars, stopped, count, windowOver>>

\* The window's deadline passes.
DeadlinePasses(r) ==
    /\ pc[r] \in Looping
    /\ ~windowOver[r]
    /\ windowOver' = [windowOver EXCEPT ![r] = TRUE]
    /\ UNCHANGED <<coreVars, pc, owned, stopped, count, windows, outcome>>

\* Mutant: a failed poll counts as unknown instead of keeping the last count.
PolledUnknown(r, c) ==
    \/ count' = [count EXCEPT ![r] = c]
    \/ CoreFails /\ c = 0 /\ count' = [count EXCEPT ![r] = -1]

\* _count: the manifest's count, or the last one when the poll fails.
Polled(r, c) ==
    \/ count' = [count EXCEPT ![r] = c]
    \/ CoreFails /\ c = count[r] /\ UNCHANGED count

\* The top of the loop: done, wait for the next poll, give up, or take a
\* fresh count for the question.
Counts(r) ==
    /\ pc[r] = "counting"
    /\ \E c \in 0..Until :
         /\ Polled(r, c)
         /\ pc' = [pc EXCEPT ![r] =
                IF c >= Until THEN "stopping"
                ELSE IF ~windowOver[r] THEN "sleeping"
                ELSE IF r \in CanAsk THEN "recounting" ELSE "stopping"]
    /\ UNCHANGED <<coreVars, owned, stopped, windowOver, windows, outcome>>

Wakes(r) ==
    /\ pc[r] = "sleeping"
    /\ pc' = [pc EXCEPT ![r] = "counting"]
    /\ UNCHANGED <<coreVars, owned, stopped, count, windowOver, windows, outcome>>

Recounts(r) ==
    /\ pc[r] = "recounting"
    /\ \E c \in 0..Until :
         /\ Polled(r, c)
         /\ pc' = [pc EXCEPT ![r] = IF c >= Until THEN "stopping" ELSE "asking"]
    /\ UNCHANGED <<coreVars, owned, stopped, windowOver, windows, outcome>>

\* "Keep going?" is answered with a confirm: another window.
Confirmed(r) ==
    /\ pc[r] = "asking"
    /\ windows[r] < MaxWindows
    /\ windows' = [windows EXCEPT ![r] = @ + 1]
    /\ windowOver' = [windowOver EXCEPT ![r] = FALSE]
    /\ pc' = [pc EXCEPT ![r] = "counting"]
    /\ UNCHANGED <<coreVars, owned, stopped, count, outcome>>

\* Any other answer, or none within ANSWER_TIMEOUT_S.
Declined(r) ==
    /\ pc[r] = "asking"
    /\ pc' = [pc EXCEPT ![r] = "stopping"]
    /\ UNCHANGED <<coreVars, owned, stopped, count, windowOver, windows, outcome>>

\* Who runs _stop: session() through _finish, or spawn's teardown.
Stopper(r) == IF pc[r] = "stopping" THEN "work" ELSE "teardown"

\* Mutant: _stop forgets that the stop was already answered.
StopsAgain(r) ==
    /\ pc[r] \in {"stopping", "teardown"}
    /\ stopReq[r][Stopper(r)] = "none"
    /\ owned[r]
    /\ stopReq' = [stopReq EXCEPT ![r][Stopper(r)] = "sent"]
    /\ UNCHANGED <<running, startReq, ousted, runVars>>

\* _stop POSTs only what it owns, and only until one stop was answered.
Stops(r) ==
    /\ pc[r] \in {"stopping", "teardown"}
    /\ stopReq[r][Stopper(r)] = "none"
    /\ owned[r] /\ ~stopped[r]
    /\ stopReq' = [stopReq EXCEPT ![r][Stopper(r)] = "sent"]
    /\ UNCHANGED <<running, startReq, ousted, runVars>>

\* Mutant: _finish does not wait for the stop.
StopReturnsEarly(r) ==
    /\ pc[r] \in {"stopping", "teardown"}
    /\ stopReq[r][Stopper(r)] # "none"
    /\ stopped' = [stopped EXCEPT ![r] = TRUE]
    /\ pc' = [pc EXCEPT ![r] = IF @ = "stopping" THEN "reports" ELSE "down"]
    /\ UNCHANGED <<coreVars, owned, count, windowOver, windows, outcome>>

\* The stop is answered: the session fetches its reports, or the teardown
\* is over.
StopReturns(r) ==
    /\ pc[r] \in {"stopping", "teardown"}
    /\ stopReq[r][Stopper(r)] = "handled"
    /\ stopped' = [stopped EXCEPT ![r] = TRUE]
    /\ pc' = [pc EXCEPT ![r] = IF @ = "stopping" THEN "reports" ELSE "down"]
    /\ UNCHANGED <<coreVars, owned, count, windowOver, windows, outcome>>

\* get_reports returns: the session completes.
Reports(r) ==
    /\ pc[r] = "reports"
    /\ Ends(r, "completed")
    /\ UNCHANGED <<coreVars, owned, stopped, count, windowOver, windows>>

\* A call to core raises: session() fails, whatever core did or will do
\* with the request; a failing count is not one of them.
CallFails(r) ==
    /\ CoreFails
    /\ \/ pc[r] \in {"starting", "reports"}
       \/ pc[r] = "stopping" /\ stopReq[r]["work"] # "none"
    /\ Ends(r, "failed")
    /\ UNCHANGED <<coreVars, owned, stopped, count, windowOver, windows>>

\* tasks/cancel lands at whatever the session awaits.
Cancelled(r) ==
    /\ \/ pc[r] \in {"starting", "asking", "reports"} \cup Looping
       \/ pc[r] = "stopping" /\ stopReq[r]["work"] # "none"
    /\ Ends(r, "cancelled")
    /\ UNCHANGED <<coreVars, owned, stopped, count, windowOver, windows>>

\* The teardown has nothing to stop, or its stop raises (spawn logs it).
TeardownDone(r) ==
    /\ pc[r] = "teardown"
    /\ \/ ~owned[r] \/ stopped[r]
       \/ CoreFails /\ stopReq[r]["teardown"] # "none"
    /\ pc' = [pc EXCEPT ![r] = "down"]
    /\ UNCHANGED <<coreVars, owned, stopped, count, windowOver, windows, outcome>>

-----------------------------------------------------------------------------

RunNext(r) ==
    \/ Begins(r)
    \/ StartReturns(r)
    \/ DeadlinePasses(r)
    \/ Counts(r)
    \/ Wakes(r)
    \/ Recounts(r)
    \/ Confirmed(r)
    \/ Declined(r)
    \/ Stops(r)
    \/ StopReturns(r)
    \/ Reports(r)
    \/ CallFails(r)
    \/ Cancelled(r)
    \/ TeardownDone(r)

CoreNext ==
    \/ \E r \in Run : \/ CoreStart(r)
                      \/ \E p \in Phases : CoreStop(r, p)
                      \/ Lost(r)
    \/ OtherStarts
    \/ OtherStops

Next == CoreNext \/ \E r \in Run : RunNext(r)

Spec == Init /\ [][Next]_vars

-----------------------------------------------------------------------------
(* Properties.                                                             *)

TypeOK ==
    /\ running \in Run \cup {Nobody, Other}
    /\ startReq \in [Run -> {"none", "sent", "lost", "success"} \cup Refusals]
    /\ stopReq \in [Run -> [Phases -> {"none", "sent", "lost", "handled"}]]
    /\ ousted \in [Run -> BOOLEAN]
    /\ pc \in [Run -> {"idle", "starting", "asking", "stopping", "reports",
                       "teardown", "down"} \cup Looping]
    /\ owned \in [Run -> BOOLEAN]
    /\ stopped \in [Run -> BOOLEAN]
    /\ count \in [Run -> 0..Until]
    /\ windowOver \in [Run -> BOOLEAN]
    /\ windows \in [Run -> 0..MaxWindows]
    /\ outcome \in [Run -> {"none", "completed", "failed", "cancelled"}]

\* A run that heard a refusal has no profiler to stop and never POSTs a
\* stop, so whoever holds the radio keeps it.
RefusedNeverStops ==
    \A r \in Run : startReq[r] \in Refusals /\ outcome[r] = "completed" =>
        \A p \in Phases : stopReq[r][p] = "none"

\* Reports are read, and a run that started completes, only with its own
\* profiler off the radio.
ReleasedBeforeReports ==
    \A r \in Run :
        \/ pc[r] = "reports"
        \/ pc[r] \in {"teardown", "down"} /\ outcome[r] = "completed"
        => running # r

\* Once its teardown is over a run leaves a profiler behind only if a stop
\* of its own failed: a cancel or an error mid-start never leaks one.
LeakNeedsFailedStop ==
    \A r \in Run : pc[r] = "down" /\ running = r =>
        CoreFails /\ stopReq[r]["teardown"] \in {"sent", "lost"}

\* What a run does not know when its stop reaches core: how its start went,
\* because the session ended before the answer; that its session's stop was
\* handled, because that answer was lost; that its teardown's stop came first.
Unheard(r, p) ==
    \/ windows[r] = 0 /\ outcome[r] # "completed"
    \/ p = "teardown" /\ stopReq[r]["work"] = "handled" /\ ~stopped[r]
    \/ p = "work" /\ stopReq[r]["teardown"] = "handled"

\* A stop of a run that has heard its answers ends nobody else's profiler,
\* also when another client starts one the moment the radio is free, unless
\* the run's own profiler had been taken from it by somebody else's stop.
StopsItsOwn ==
    [][\A r \in Run, p \in Phases :
          /\ stopReq[r][p] = "sent" /\ stopReq'[r][p] = "handled"
          /\ running \notin {r, Nobody}
          => ousted[r] \/ Unheard(r, p)]_vars

\* Claimed by profile_clients ("A profiler started by core that is already
\* running is not interrupted: this task's start fails with already_running
\* instead"): no stop of a run that core refused for it ends a profiler.
AlreadyRunningNotInterrupted ==
    [][\A r \in Run, p \in Phases :
          stopReq[r][p] = "sent" /\ stopReq'[r][p] = "handled" /\ running # Nobody
          => startReq[r] # "already_running"]_vars

=============================================================================
