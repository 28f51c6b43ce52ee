------------------------- MODULE ProfileClientsProofs -------------------------
(***************************************************************************)
(* Proofs about ProfileClients for any number of runs and windows, whether *)
(* or not calls to core may fail.                                          *)
(*                                                                         *)
(* The invariant follows a run's two requests: what core has done with     *)
(* them says what the run can own, and where the run is says which of them *)
(* it can have sent.                                                       *)
(***************************************************************************)
EXTENDS ProfileClients, TLAPS

\* A run past its start owns what core started for it, until it heard a
\* refusal; core runs the profiler of a run only on its start.
StartAt(r) ==
    /\ pc[r] = "idle" <=> startReq[r] = "none"
    /\ running = r => startReq[r] = "success"
    /\ pc[r] \in Looping \cup {"asking", "stopping", "reports"} =>
         startReq[r] = "success" /\ owned[r]
    /\ pc[r] = "starting" => owned[r]
    /\ ~owned[r] => pc[r] = "idle" \/ startReq[r] \in Refusals

\* A stop that core handled came after the start, and ended its profiler.
StopAt(r) ==
    /\ stopReq[r]["work"] # "none" => pc[r] \in {"stopping", "reports", "teardown", "down"}
    /\ stopReq[r]["teardown"] # "none" => pc[r] \in {"teardown", "down"}
    /\ \A p \in Phases : stopReq[r][p] = "handled" =>
         startReq[r] \notin {"none", "sent"} /\ running # r
    /\ stopped[r] => \E p \in Phases : stopReq[r][p] = "handled"
    /\ pc[r] = "reports" => stopped[r]
    /\ pc[r] = "down" => \/ ~owned[r] \/ stopped[r]
                         \/ CoreFails /\ stopReq[r]["teardown"] # "none"

\* A session completes over a refusal, with nothing to stop, or stopped.
OutcomeAt(r) ==
    /\ outcome[r] # "none" => pc[r] \in {"teardown", "down"}
    /\ outcome[r] = "completed" =>
         \/ /\ startReq[r] \in Refusals /\ ~owned[r]
            /\ \A p \in Phases : stopReq[r][p] = "none"
         \/ startReq[r] = "success" /\ stopped[r]

\* What core started stays until it is stopped, by the run or by another; a
\* teardown whose stop is under way has heard of no earlier one.
HoldsAt(r) ==
    /\ startReq[r] = "success" /\ ~ousted[r] =>
         running = r \/ \E p \in Phases : stopReq[r][p] = "handled"
    /\ windows[r] # 0 => startReq[r] = "success"
    /\ stopReq[r]["teardown"] \in {"sent", "lost"} => ~stopped[r]

Requests == \A r \in Run : StartAt(r) /\ StopAt(r) /\ OutcomeAt(r)

Holds == \A r \in Run : HoldsAt(r)

IInv == TypeOK /\ Requests /\ Holds

-----------------------------------------------------------------------------
(* Type correctness.                                                       *)

LEMMA TypeInit == Init => TypeOK
  BY RunsAssumption DEF Init, TypeOK, Phases

LEMMA PolledType ==
    ASSUME TypeOK, NEW r \in Run, NEW c \in 0..Until, Polled(r, c)
    PROVE  count' \in [Run -> 0..Until]
  BY DEF Polled, TypeOK

LEMMA TypeStep == TypeOK /\ [Next]_vars => TypeOK'
  <1> SUFFICES ASSUME TypeOK, [Next]_vars PROVE TypeOK'
    OBVIOUS
  <1> USE RunsAssumption DEF TypeOK, Refusals, Looping, Phases, coreVars, runVars
  <1>1. ASSUME OtherStarts PROVE TypeOK'
    BY <1>1 DEF OtherStarts
  <1>2. ASSUME OtherStops PROVE TypeOK'
    BY <1>2 DEF OtherStops, TakenDown
  <1>3. ASSUME NEW r \in Run, CoreStart(r) PROVE TypeOK'
    BY <1>3 DEF CoreStart
  <1>4. ASSUME NEW r \in Run, NEW p \in Phases, CoreStop(r, p) PROVE TypeOK'
    BY <1>4 DEF CoreStop, TakenDown
  <1>5. ASSUME NEW r \in Run, Lost(r) PROVE TypeOK'
    <2>1. startReq' \in [Run -> {"none", "sent", "lost", "success"} \cup Refusals]
      BY <1>5 DEF Lost
    <2>2. stopReq' \in [Run -> [Phases -> {"none", "sent", "lost", "handled"}]]
      <3>1. CASE UNCHANGED stopReq
        BY <3>1
      <3>2. ASSUME NEW p \in Phases, stopReq' = [stopReq EXCEPT ![r][p] = "lost"]
            PROVE  stopReq' \in [Run -> [Phases -> {"none", "sent", "lost", "handled"}]]
        BY <3>2
      <3> QED
        BY <1>5, <3>1, <3>2 DEF Lost
    <2>3. UNCHANGED <<running, ousted, runVars>>
      BY <1>5 DEF Lost
    <2> QED
      BY <2>1, <2>2, <2>3
  <1>6. ASSUME NEW r \in Run, Begins(r) PROVE TypeOK'
    BY <1>6 DEF Begins
  <1>7. ASSUME NEW r \in Run, StartReturns(r) PROVE TypeOK'
    <2>1. 1 \in 0..MaxWindows
      OBVIOUS
    <2>2. CASE startReq[r] \in Refusals
      BY <1>7, <2>2 DEF StartReturns, Ends
    <2>3. CASE startReq[r] = "success"
      BY <1>7, <2>1, <2>3 DEF StartReturns
    <2> QED
      BY <1>7, <2>2, <2>3 DEF StartReturns
  <1>8. ASSUME NEW r \in Run, DeadlinePasses(r) PROVE TypeOK'
    BY <1>8 DEF DeadlinePasses
  <1>9. ASSUME NEW r \in Run, Counts(r) PROVE TypeOK'
    BY <1>9, PolledType DEF Counts
  <1>10. ASSUME NEW r \in Run, Wakes(r) PROVE TypeOK'
    BY <1>10 DEF Wakes
  <1>11. ASSUME NEW r \in Run, Recounts(r) PROVE TypeOK'
    BY <1>11, PolledType DEF Recounts
  <1>12. ASSUME NEW r \in Run, Confirmed(r) PROVE TypeOK'
    BY <1>12 DEF Confirmed
  <1>13. ASSUME NEW r \in Run, Declined(r) PROVE TypeOK'
    BY <1>13 DEF Declined
  <1>14. ASSUME NEW r \in Run, Stops(r) PROVE TypeOK'
    BY <1>14 DEF Stops, Stopper
  <1>15. ASSUME NEW r \in Run, StopReturns(r) PROVE TypeOK'
    BY <1>15 DEF StopReturns, Stopper
  <1>16. ASSUME NEW r \in Run, Reports(r) PROVE TypeOK'
    BY <1>16 DEF Reports, Ends
  <1>17. ASSUME NEW r \in Run, CallFails(r) PROVE TypeOK'
    BY <1>17 DEF CallFails, Ends
  <1>18. ASSUME NEW r \in Run, Cancelled(r) PROVE TypeOK'
    BY <1>18 DEF Cancelled, Ends
  <1>19. ASSUME NEW r \in Run, TeardownDone(r) PROVE TypeOK'
    BY <1>19 DEF TeardownDone
  <1> QED
    BY <1>1, <1>2, <1>3, <1>4, <1>5, <1>6, <1>7, <1>8, <1>9, <1>10, <1>11, <1>12, <1>13, <1>14, <1>15, <1>16, <1>17, <1>18, <1>19
    DEF Next, CoreNext, RunNext, vars

-----------------------------------------------------------------------------
(* The invariant.                                                          *)

LEMMA RequestsInit == Init => Requests
  <1> SUFFICES ASSUME Init, NEW r \in Run
               PROVE  StartAt(r) /\ StopAt(r) /\ OutcomeAt(r)
    BY DEF Requests
  <1>1. /\ running # r /\ pc[r] = "idle" /\ startReq[r] = "none"
        /\ ~owned[r] /\ ~stopped[r] /\ outcome[r] = "none"
        /\ stopReq[r]["work"] = "none" /\ stopReq[r]["teardown"] = "none"
    BY RunsAssumption DEF Init, Phases
  <1> QED
    BY <1>1 DEF StartAt, StopAt, OutcomeAt, Looping, Phases

\* One step per action: what it does to the run it is of, and to any other.
LEMMA RequestsStep == IInv /\ [Next]_vars => Requests'
  <1> SUFFICES ASSUME IInv, [Next]_vars, NEW s \in Run
               PROVE  StartAt(s)' /\ StopAt(s)' /\ OutcomeAt(s)'
    BY DEF Requests
  <1> USE RunsAssumption
      DEF IInv, Requests, TypeOK, StartAt, StopAt, OutcomeAt, Refusals, Looping,
          Phases, coreVars, runVars
  <1>1. ASSUME OtherStarts
       PROVE  StartAt(s)' /\ StopAt(s)' /\ OutcomeAt(s)'
    BY <1>1 DEF OtherStarts
  <1>2. ASSUME OtherStops
       PROVE  StartAt(s)' /\ StopAt(s)' /\ OutcomeAt(s)'
    BY <1>2 DEF OtherStops, TakenDown
  <1>3. ASSUME NEW r \in Run, CoreStart(r)
       PROVE  StartAt(s)' /\ StopAt(s)' /\ OutcomeAt(s)'
    BY <1>3 DEF CoreStart
  <1>4. ASSUME NEW r \in Run, NEW p \in Phases, CoreStop(r, p)
       PROVE  StartAt(s)' /\ StopAt(s)' /\ OutcomeAt(s)'
    BY <1>4 DEF CoreStop, TakenDown
  <1>5. ASSUME NEW r \in Run, Lost(r)
       PROVE  StartAt(s)' /\ StopAt(s)' /\ OutcomeAt(s)'
    <2>1. CASE startReq[r] = "sent" /\ startReq' = [startReq EXCEPT ![r] = "lost"]
               /\ UNCHANGED stopReq
      BY <1>5, <2>1 DEF Lost
    <2>2. ASSUME NEW p \in Phases, stopReq[r][p] = "sent",
                 stopReq' = [stopReq EXCEPT ![r][p] = "lost"], UNCHANGED startReq
          PROVE  StartAt(s)' /\ StopAt(s)' /\ OutcomeAt(s)'
      BY <1>5, <2>2 DEF Lost
    <2> HIDE DEF StartAt, StopAt, OutcomeAt, IInv, Requests, TypeOK
    <2> QED
      BY <1>5, <2>1, <2>2 DEF Lost
  <1>6. ASSUME NEW r \in Run, Begins(r)
       PROVE  StartAt(s)' /\ StopAt(s)' /\ OutcomeAt(s)'
    BY <1>6 DEF Begins
  <1>7. ASSUME NEW r \in Run, StartReturns(r)
       PROVE  StartAt(s)' /\ StopAt(s)' /\ OutcomeAt(s)'
    BY <1>7 DEF StartReturns, Ends
  <1>8. ASSUME NEW r \in Run, DeadlinePasses(r)
       PROVE  StartAt(s)' /\ StopAt(s)' /\ OutcomeAt(s)'
    BY <1>8 DEF DeadlinePasses
  <1>9. ASSUME NEW r \in Run, Counts(r)
       PROVE  StartAt(s)' /\ StopAt(s)' /\ OutcomeAt(s)'
    BY <1>9 DEF Counts, Polled
  <1>10. ASSUME NEW r \in Run, Wakes(r)
       PROVE  StartAt(s)' /\ StopAt(s)' /\ OutcomeAt(s)'
    BY <1>10 DEF Wakes
  <1>11. ASSUME NEW r \in Run, Recounts(r)
       PROVE  StartAt(s)' /\ StopAt(s)' /\ OutcomeAt(s)'
    BY <1>11 DEF Recounts, Polled
  <1>12. ASSUME NEW r \in Run, Confirmed(r)
       PROVE  StartAt(s)' /\ StopAt(s)' /\ OutcomeAt(s)'
    BY <1>12 DEF Confirmed
  <1>13. ASSUME NEW r \in Run, Declined(r)
       PROVE  StartAt(s)' /\ StopAt(s)' /\ OutcomeAt(s)'
    BY <1>13 DEF Declined
  <1>14. ASSUME NEW r \in Run, Stops(r)
       PROVE  StartAt(s)' /\ StopAt(s)' /\ OutcomeAt(s)'
    BY <1>14 DEF Stops, Stopper
  <1>15. ASSUME NEW r \in Run, StopReturns(r)
       PROVE  StartAt(s)' /\ StopAt(s)' /\ OutcomeAt(s)'
    BY <1>15 DEF StopReturns, Stopper
  <1>16. ASSUME NEW r \in Run, Reports(r)
       PROVE  StartAt(s)' /\ StopAt(s)' /\ OutcomeAt(s)'
    BY <1>16 DEF Reports, Ends
  <1>17. ASSUME NEW r \in Run, CallFails(r)
       PROVE  StartAt(s)' /\ StopAt(s)' /\ OutcomeAt(s)'
    BY <1>17 DEF CallFails, Ends
  <1>18. ASSUME NEW r \in Run, Cancelled(r)
       PROVE  StartAt(s)' /\ StopAt(s)' /\ OutcomeAt(s)'
    BY <1>18 DEF Cancelled, Ends
  <1>19. ASSUME NEW r \in Run, TeardownDone(r)
       PROVE  StartAt(s)' /\ StopAt(s)' /\ OutcomeAt(s)'
    BY <1>19 DEF TeardownDone
  <1>20. ASSUME UNCHANGED vars
       PROVE  StartAt(s)' /\ StopAt(s)' /\ OutcomeAt(s)'
    BY <1>20 DEF vars
  <1> HIDE DEF IInv, Requests, TypeOK, StartAt, StopAt, OutcomeAt, Refusals, Looping,
               Phases, coreVars, runVars
  <1> QED
    BY <1>1, <1>2, <1>3, <1>4, <1>5, <1>6, <1>7, <1>8, <1>9, <1>10, <1>11, <1>12, <1>13,
       <1>14, <1>15, <1>16, <1>17, <1>18, <1>19, <1>20
    DEF Next, CoreNext, RunNext

LEMMA HoldsInit == Init => Holds
  BY RunsAssumption DEF Init, Holds, HoldsAt, Phases

\* The same for who holds the radio.
LEMMA HoldsStep == IInv /\ [Next]_vars => Holds'
  <1> SUFFICES ASSUME IInv, [Next]_vars, NEW s \in Run
               PROVE  HoldsAt(s)'
    BY DEF Holds
  <1>0. TypeOK /\ HoldsAt(s) /\ StartAt(s) /\ StopAt(s)
    BY DEF IInv, Requests, Holds
  <1> USE RunsAssumption, <1>0
      DEF TypeOK, HoldsAt, StartAt, StopAt, Refusals, Looping, Phases, coreVars, runVars
  <1>1. ASSUME OtherStarts PROVE HoldsAt(s)'
    BY <1>1 DEF OtherStarts
  <1>2. ASSUME OtherStops PROVE HoldsAt(s)'
    BY <1>2 DEF OtherStops, TakenDown
  <1>3. ASSUME NEW r \in Run, CoreStart(r) PROVE HoldsAt(s)'
    BY <1>3 DEF CoreStart
  <1>4. ASSUME NEW r \in Run, NEW p \in Phases, CoreStop(r, p) PROVE HoldsAt(s)'
    BY <1>4 DEF CoreStop, TakenDown
  <1>5. ASSUME NEW r \in Run, Lost(r) PROVE HoldsAt(s)'
    BY <1>5 DEF Lost
  <1>6. ASSUME NEW r \in Run, Begins(r) PROVE HoldsAt(s)'
    BY <1>6 DEF Begins
  <1>7. ASSUME NEW r \in Run, StartReturns(r) PROVE HoldsAt(s)'
    BY <1>7 DEF StartReturns, Ends
  <1>8. ASSUME NEW r \in Run, DeadlinePasses(r) PROVE HoldsAt(s)'
    BY <1>8 DEF DeadlinePasses
  <1>9. ASSUME NEW r \in Run, Counts(r) PROVE HoldsAt(s)'
    BY <1>9 DEF Counts
  <1>10. ASSUME NEW r \in Run, Wakes(r) PROVE HoldsAt(s)'
    BY <1>10 DEF Wakes
  <1>11. ASSUME NEW r \in Run, Recounts(r) PROVE HoldsAt(s)'
    BY <1>11 DEF Recounts
  <1>12. ASSUME NEW r \in Run, Confirmed(r) PROVE HoldsAt(s)'
    BY <1>12 DEF Confirmed
  <1>13. ASSUME NEW r \in Run, Declined(r) PROVE HoldsAt(s)'
    BY <1>13 DEF Declined
  <1>14. ASSUME NEW r \in Run, Stops(r) PROVE HoldsAt(s)'
    BY <1>14 DEF Stops, Stopper
  <1>15. ASSUME NEW r \in Run, StopReturns(r) PROVE HoldsAt(s)'
    BY <1>15 DEF StopReturns, Stopper
  <1>16. ASSUME NEW r \in Run, Reports(r) PROVE HoldsAt(s)'
    BY <1>16 DEF Reports, Ends
  <1>17. ASSUME NEW r \in Run, CallFails(r) PROVE HoldsAt(s)'
    BY <1>17 DEF CallFails, Ends
  <1>18. ASSUME NEW r \in Run, Cancelled(r) PROVE HoldsAt(s)'
    BY <1>18 DEF Cancelled, Ends
  <1>19. ASSUME NEW r \in Run, TeardownDone(r) PROVE HoldsAt(s)'
    BY <1>19 DEF TeardownDone
  <1>20. ASSUME UNCHANGED vars PROVE HoldsAt(s)'
    BY <1>20 DEF vars
  <1> HIDE <1>0 DEF TypeOK, HoldsAt, StartAt, StopAt, Refusals, Looping, Phases, coreVars, runVars
  <1> QED
    BY <1>1, <1>2, <1>3, <1>4, <1>5, <1>6, <1>7, <1>8, <1>9, <1>10, <1>11, <1>12, <1>13,
       <1>14, <1>15, <1>16, <1>17, <1>18, <1>19, <1>20
    DEF Next, CoreNext, RunNext

\* The inductive invariant holds in every reachable state.
THEOREM Invariance == Spec => []IInv
  <1>1. Init => IInv
    BY TypeInit, RequestsInit, HoldsInit DEF IInv
  <1>2. IInv /\ [Next]_vars => IInv'
    BY TypeStep, RequestsStep, HoldsStep DEF IInv
  <1> QED
    BY <1>1, <1>2, PTL DEF Spec

-----------------------------------------------------------------------------
(* What it is for.                                                         *)

\* Every state of the runs and of core is well typed.
THEOREM TypeCorrect == Spec => []TypeOK
  BY Invariance, PTL DEF IInv

\* A run that heard a refusal sends no stop: it has nothing of its own.
THEOREM RefusedCorrect == Spec => []RefusedNeverStops
  <1>1. IInv => RefusedNeverStops
    BY DEF IInv, Requests, OutcomeAt, RefusedNeverStops, Refusals
  <1> QED
    BY <1>1, Invariance, PTL

\* Reports are read, and a session completes, over a radio the run has left:
\* its stop was answered, so core had handled it after the start.
THEOREM ReleaseCorrect == Spec => []ReleasedBeforeReports
  <1>1. IInv => ReleasedBeforeReports
    BY DEF IInv, Requests, StartAt, StopAt, OutcomeAt, ReleasedBeforeReports, Refusals,
       Phases
  <1> QED
    BY <1>1, Invariance, PTL

\* Only a failed stop of the teardown leaves the profiler of a run behind.
THEOREM LeakCorrect == Spec => []LeakNeedsFailedStop
  <1>1. IInv => LeakNeedsFailedStop
    BY DEF IInv, Requests, TypeOK, StartAt, StopAt, LeakNeedsFailedStop, Refusals, Phases
  <1> QED
    BY <1>1, Invariance, PTL

\* A stop that ends another's profiler is one of a run that was ousted, or
\* that misses an answer: with its answers heard, its first stop finds its own
\* profiler still running and no second one is sent.
THEOREM StopCorrect == Spec => StopsItsOwn
  <1>1. ASSUME IInv, [Next]_vars, NEW r \in Run, NEW p \in Phases,
               stopReq[r][p] = "sent", stopReq'[r][p] = "handled",
               running \notin {r, Nobody}
        PROVE  ousted[r] \/ Unheard(r, p)
    <2> SUFFICES ASSUME ~ousted[r], ~Unheard(r, p) PROVE FALSE
      OBVIOUS
    <2>0. TypeOK /\ StartAt(r) /\ StopAt(r) /\ OutcomeAt(r) /\ HoldsAt(r)
      BY <1>1 DEF IInv, Requests, Holds
    <2>1. startReq[r] = "success"
      BY <1>1, <2>0 DEF Unheard, HoldsAt, OutcomeAt
    <2>2. PICK o \in Phases : stopReq[r][o] = "handled"
      BY <1>1, <2>0, <2>1 DEF HoldsAt
    <2>3. CASE p = "work"
      BY <1>1, <2>2, <2>3 DEF Phases, Unheard
    <2>4. CASE p = "teardown"
      BY <1>1, <2>0, <2>2, <2>4 DEF Phases, Unheard, HoldsAt
    <2> QED
      BY <2>3, <2>4 DEF Phases
  <1>2. IInv /\ [Next]_vars =>
          [\A r \in Run, p \in Phases :
             /\ stopReq[r][p] = "sent" /\ stopReq'[r][p] = "handled"
             /\ running \notin {r, Nobody}
             => ousted[r] \/ Unheard(r, p)]_vars
    BY <1>1
  <1> QED
    BY <1>2, Invariance, PTL DEF Spec, StopsItsOwn

=============================================================================
