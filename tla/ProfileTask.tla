---------------------------- MODULE ProfileTask ----------------------------
(***************************************************************************)
(* The composition of the task store (Tasks) and the profile_clients run   *)
(* (ProfileClients): the session of a run is the work of its task.  A      *)
(* question parks both, a tasks/update resumes both, a tasks/cancel is     *)
(* raised at whatever call to core or sleep the session is in, and the     *)
(* run's stop is the shielded teardown of the task.  Both modules record   *)
(* how the session ended in one variable, outcome.                         *)
(*                                                                         *)
(* Expiry touches ended records only, which Tasks has; the clock stands    *)
(* still here.                                                             *)
(***************************************************************************)
EXTENDS Tasks

CONSTANTS CanAsk, Other, Nobody, Until, MaxWindows, CoreFails

VARIABLES running, startReq, stopReq, ousted, pc, owned, stopped, count,
          windowOver, windows

sessionVars == <<running, startReq, stopReq, ousted, pc, owned, stopped, count,
                 windowOver, windows>>
allVars     == <<vars, sessionVars>>

Profile == INSTANCE ProfileClients WITH Run <- Task

ASSUME EveryTaskOwns == Owning = Task /\ "confirm" \in Answers

\* ProfileClients' own assumption, of its runs.
ASSUME SessionsAssumption ==
    /\ CanAsk \subseteq Task
    /\ Other \notin Task /\ Nobody \notin Task /\ Other # Nobody
    /\ Until \in Nat \ {0}
    /\ MaxWindows \in Nat \ {0}
    /\ CoreFails \in BOOLEAN

ProfileInit == Init /\ Profile!Init

-----------------------------------------------------------------------------
(* The session as the work of its task.                                    *)

\* The tool call: create, spawn, and the body's run to its first await.
Creates(t) == Create(t) /\ Profile!Begins(t)

\* The session goes on from an await with no cancel to raise there.
Works(t) ==
    /\ body[t] = "work"
    /\ ~cancelPending[t]
    /\ \/ Profile!StartReturns(t)
       \/ Profile!Counts(t)
       \/ Profile!Wakes(t)
       \/ Profile!Recounts(t)
       \/ Profile!StopReturns(t)
    /\ pc'[t] \notin {"asking", "teardown"}
    /\ UNCHANGED vars

\* The stop POST leaves in the step that decided it, so before any cancel.
SendsStop(t) == Profile!Stops(t) /\ UNCHANGED vars

\* The window ended short of the target: the fresh count is the question.
Asks(t) ==
    /\ Profile!Recounts(t)
    /\ pc'[t] = "asking"
    /\ Park(t)

\* Mutant: what a timed-out question says is not looked at.
AnyAnswerConfirms(t) ==
    /\ Resume(t)
    /\ IF windows[t] < MaxWindows
       THEN Profile!Confirmed(t)
       ELSE Profile!Declined(t)

\* _ask returns to the session, which goes on only with a confirm.
Resumes(t) ==
    /\ Resume(t)
    /\ IF got'[t] = "confirm"
       THEN Profile!Confirmed(t)
       ELSE Profile!Declined(t)

Completes(t) ==
    /\ Profile!StartReturns(t) \/ Profile!Reports(t)
    /\ pc'[t] = "teardown"
    /\ WorkEnds(t, "completed")

\* A call to core raises; with a cancel to raise at it the cancel comes first.
Fails(t) ==
    /\ ~cancelPending[t]
    /\ Profile!CallFails(t)
    /\ WorkEnds(t, "failed")

\* The cancel is raised in the session.
CutShort(t) == Profile!Cancelled(t) /\ WorkEnds(t, "cancelled")

-----------------------------------------------------------------------------
(* The teardown, and what only one of the two sides sees.                  *)

\* Mutant: the teardown is over once its stop was sent.
TearsDownSent(t) ==
    /\ pc[t] = "teardown"
    /\ TeardownEnds(t)
    /\ stopReq[t]["teardown"] # "none" \/ ~owned[t] \/ stopped[t]
    /\ teardown'[t] = "ok"
    /\ pc' = [pc EXCEPT ![t] = "down"]
    /\ UNCHANGED <<running, startReq, stopReq, ousted, owned, stopped, count,
                   windowOver, windows>>

\* Mutant: the stop of the teardown waits for core without a timeout.
TearsDownAnswered(t) ==
    /\ pc[t] = "teardown"
    /\ TeardownEnds(t)
    /\ teardown'[t] = "ok"
    /\ \/ Profile!StopReturns(t)
       \/ (~owned[t] \/ stopped[t]) /\ Profile!TeardownDone(t)

\* The teardown ends with its stop answered, with nothing to stop, or with
\* the error of its stop.
TearsDown(t) ==
    /\ pc[t] = "teardown"
    /\ TeardownEnds(t)
    /\ \/ Profile!StopReturns(t) /\ teardown'[t] = "ok"
       \/ /\ Profile!TeardownDone(t)
          /\ teardown'[t] = IF owned[t] /\ ~stopped[t] THEN "raised" ELSE "ok"

\* Clients: the windows a client grants are bounded by MaxWindows.
Clients ==
    /\ \/ \E t \in Task, a \in Answers \cup {"null"} :
            (a = "confirm" => windows[t] < MaxWindows) /\ Update(t, a)
       \/ \E r \in Request, t \in Task : Cancel(r, t)
       \/ \E r \in Request : Abandon(r) \/ CancelReturns(r)
    /\ UNCHANGED sessionVars

Store(t) == (TimerFires(t) \/ Publish(t)) /\ UNCHANGED sessionVars

Radio ==
    /\ Profile!CoreNext \/ \E t \in Task : Profile!DeadlinePasses(t)
    /\ UNCHANGED vars

-----------------------------------------------------------------------------

SessionNext(t) ==
    \/ Creates(t)
    \/ Works(t)
    \/ SendsStop(t)
    \/ Asks(t)
    \/ Resumes(t)
    \/ Completes(t)
    \/ Fails(t)
    \/ CutShort(t)
    \/ TearsDown(t)
    \/ Store(t)

ProfileNext == Clients \/ Radio \/ \E t \in Task : SessionNext(t)

ProfileSpec == ProfileInit /\ [][ProfileNext]_allVars

\* The loop runs what is ready, timers fire, core answers what it got, and a
\* call it never answers raises at its timeout.  Clients may do nothing.
ProfileFairness ==
    /\ \A t \in Task :
         /\ WF_allVars(Works(t))
         /\ WF_allVars(SendsStop(t))
         /\ WF_allVars(Asks(t))
         /\ WF_allVars(Resumes(t))
         /\ WF_allVars(Completes(t))
         /\ WF_allVars(Fails(t))
         /\ WF_allVars(CutShort(t))
         /\ WF_allVars(TearsDown(t))
         /\ WF_allVars(TimerFires(t) /\ UNCHANGED sessionVars)
         /\ WF_allVars(Publish(t) /\ UNCHANGED sessionVars)
         /\ WF_allVars(Profile!DeadlinePasses(t) /\ UNCHANGED vars)
         /\ WF_allVars(Profile!CoreStart(t) /\ UNCHANGED vars)
         /\ \A p \in Profile!Phases :
              WF_allVars(Profile!CoreStop(t, p) /\ UNCHANGED vars)
    /\ \A r \in Request : WF_allVars(CancelReturns(r) /\ UNCHANGED sessionVars)

FairProfileSpec == ProfileSpec /\ ProfileFairness

-----------------------------------------------------------------------------
(* Properties.                                                             *)

\* A client that reads an outcome finds the radio free of that task, unless
\* the stop of its teardown failed, or a cancel cut the wait for
\* the teardown short, which then runs on.
OutcomeMeansReleased ==
    \A t \in Task : Terminal(t) /\ running = t =>
        \/ teardown[t] = "raised"
        \/ teardown[t] = "running" /\ cancelRequested[t]

\* A further window is opened only by a client's confirm of the very
\* question the session asked, and never once the task was asked to cancel.
WindowNeedsConfirm ==
    [][\A t \in Task : windows[t] > 0 /\ windows'[t] > windows[t] =>
          /\ accepted[t] = "confirm" /\ ~timedOut[t]
          /\ ~cancelRequested[t]]_allVars

\* Every tasks/cancel is answered, wherever in its session, its question or
\* its teardown the run is, although calls to core may fail or be lost.
CancelAnswered == \A r \in Request : waiting[r] # Idle ~> waiting[r] = Idle

\* A run never holds the radio for ever, whether or not its client answers,
\* cancels or goes away: it comes to its teardown's end (what a failed stop
\* leaves behind there is OutcomeMeansReleased's first case).
RadioReleased ==
    \A t \in Task : running = t ~> running # t \/ pc[t] = "down"

=============================================================================
