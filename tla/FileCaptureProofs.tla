-------------------------- MODULE FileCaptureProofs --------------------------
(***************************************************************************)
(* Proofs about FileCapture for any captures and requests.                 *)
(*                                                                         *)
(* Where a run is says what it has released and what it has published; a   *)
(* request waits only for a run that was spawned.  With this every step is *)
(* one of the life of a capture, and of the life of a task.                *)
(***************************************************************************)
EXTENDS FileCapture, TLAPS

\* What the run holds at each place.
HoldsAt(c) ==
    /\ spawned[c] <=> status[c] # "none"
    /\ pc[c] \in {"unborn", "starting"} => ~spawned[c]
    /\ pc[c] = "consuming" => status[c] = "running"
    /\ status[c] = "running" => pc[c] = "consuming"
    /\ fileOpen[c] => pc[c] = "consuming"
    /\ pc[c] = "unborn" => ~sockOpen[c] /\ ~started[c]
    /\ pc[c] \notin {"unborn"} \cup Gone => sockOpen[c]
    /\ spawned[c] \/ session[c] => started[c]
    /\ endedAt[c] => pc[c] = "done"
    /\ pc[c] = "done" => /\ ~session[c] /\ ~sockOpen[c]
                         /\ spawned[c] => endedAt[c]

\* The record ends with the run: by the run itself if it comes to its end.
RecordAt(c) ==
    /\ record[c] # "none" => spawned[c]
    /\ Terminal(c) => pc[c] \in Gone
    /\ report[c] => Terminal(c)
    /\ spawned[c] /\ c \in Tasked => record[c] # "none"
    /\ pc[c] = "done" /\ spawned[c] /\ c \in Tasked =>
         report[c] /\ record[c] = Outcome(c)

Released == \A c \in Capture : HoldsAt(c) /\ RecordAt(c)

WaitsForRun == \A r \in Request : waiting[r] # Idle => spawned[waiting[r]]

IInv == TypeOK /\ Released /\ WaitsForRun

-----------------------------------------------------------------------------
(* Type correctness.                                                       *)

LEMMA TypeInit == Init => TypeOK
  BY DEF Init, TypeOK

\* A waiting request waits for a capture, whose record may be written.
LEMMA TypeStep == TypeOK /\ [Next]_vars => TypeOK'
  <1> SUFFICES ASSUME TypeOK, [Next]_vars PROVE TypeOK'
    OBVIOUS
  <1> USE CapturesAssumption
      DEF TypeOK, Statuses, Gone, entryVars, coreVars, recordVars, reqVars
  <1>1. ASSUME NEW d \in Capture, Start(d) PROVE TypeOK'
    BY <1>1 DEF Start
  <1>2. ASSUME NEW d \in Capture, CoreStarts(d) PROVE TypeOK'
    BY <1>2 DEF CoreStarts
  <1>3. ASSUME NEW d \in Capture, CoreEnds(d) PROVE TypeOK'
    BY <1>3 DEF CoreEnds
  <1>4. ASSUME NEW d \in Capture, Spawn(d) PROVE TypeOK'
    BY <1>4 DEF Spawn
  <1>5. ASSUME NEW d \in Capture, StartFails(d) PROVE TypeOK'
    BY <1>5 DEF StartFails
  <1>6. ASSUME NEW d \in Capture, OpenFails(d) PROVE TypeOK'
    BY <1>6 DEF OpenFails
  <1>7. ASSUME NEW d \in Capture, AbandonStart(d) PROVE TypeOK'
    BY <1>7 DEF AbandonStart
  <1>8. ASSUME NEW d \in Capture, StopSeen(d) PROVE TypeOK'
    BY <1>8 DEF StopSeen, LeaveConsume
  <1>9. ASSUME NEW d \in Capture, ConsumeEnds(d) PROVE TypeOK'
    BY <1>9 DEF ConsumeEnds, LeaveConsume
  <1>10. ASSUME NEW d \in Capture, ConsumeFails(d) PROVE TypeOK'
    BY <1>10 DEF ConsumeFails, LeaveConsume
  <1>11. ASSUME NEW d \in Capture, ConsumeCancelled(d) PROVE TypeOK'
    BY <1>11 DEF ConsumeCancelled, LeaveConsume
  <1>12. ASSUME NEW d \in Capture, StopSent(d) PROVE TypeOK'
    BY <1>12 DEF StopSent
  <1>13. ASSUME NEW d \in Capture, Closed(d) PROVE TypeOK'
    BY <1>13 DEF Closed, Finish, Outcome, Terminal
  <1>14. ASSUME NEW d \in Capture, CleanupKilled(d) PROVE TypeOK'
    <2>1. session' \in [Capture -> BOOLEAN]
      BY <1>14 DEF CleanupKilled
    <2>2. sockOpen' \in [Capture -> BOOLEAN]
      <3>1. CASE sockOpen' = sockOpen
        BY <3>1
      <3>2. CASE sockOpen' = [sockOpen EXCEPT ![d] = FALSE]
        BY <3>2
      <3> QED
        BY <1>14, <3>1, <3>2 DEF CleanupKilled
    <2> QED
      BY <1>14, <2>1, <2>2 DEF CleanupKilled
  <1>15. ASSUME NEW r \in Request, NEW d \in Capture, RequestStop(r, d)
        PROVE  TypeOK'
    BY <1>15 DEF RequestStop
  <1>16. ASSUME NEW r \in Request, NEW d \in Capture, RequestCancel(r, d)
        PROVE  TypeOK'
    BY <1>16 DEF RequestCancel
  <1>17. ASSUME NEW r \in Request, Abandon(r)
        PROVE  TypeOK'
    BY <1>17 DEF Abandon
  <1>18. ASSUME NEW r \in Request, Answered(r)
        PROVE  TypeOK'
    BY <1>18 DEF Answered, Finish, Terminal
  <1>19. ASSUME UNCHANGED vars PROVE TypeOK'
    BY <1>19 DEF vars
  <1> HIDE DEF TypeOK
  <1> QED
    BY <1>1, <1>2, <1>3, <1>4, <1>5, <1>6, <1>7, <1>8, <1>9, <1>10, <1>11, <1>12,
       <1>13, <1>14, <1>15, <1>16, <1>17, <1>18, <1>19
    DEF Next, RunNext, RequestNext

-----------------------------------------------------------------------------
(* The invariant.                                                          *)

LEMMA ReleasedStep == IInv /\ [Next]_vars => Released'
  <1> SUFFICES ASSUME IInv, [Next]_vars, NEW c \in Capture
               PROVE  HoldsAt(c)' /\ RecordAt(c)'
    BY DEF Released
  <1> USE CapturesAssumption
      DEF IInv, TypeOK, Released, WaitsForRun, HoldsAt, RecordAt, Terminal, Outcome,
          Gone, Statuses, entryVars, coreVars, recordVars, reqVars
  <1>1. ASSUME NEW d \in Capture, Start(d) PROVE HoldsAt(c)' /\ RecordAt(c)'
    BY <1>1 DEF Start
  <1>2. ASSUME NEW d \in Capture, CoreStarts(d) PROVE HoldsAt(c)' /\ RecordAt(c)'
    BY <1>2 DEF CoreStarts
  <1>3. ASSUME NEW d \in Capture, CoreEnds(d) PROVE HoldsAt(c)' /\ RecordAt(c)'
    BY <1>3 DEF CoreEnds
  <1>4. ASSUME NEW d \in Capture, Spawn(d) PROVE HoldsAt(c)' /\ RecordAt(c)'
    BY <1>4 DEF Spawn
  <1>5. ASSUME NEW d \in Capture, StartFails(d) PROVE HoldsAt(c)' /\ RecordAt(c)'
    BY <1>5 DEF StartFails
  <1>6. ASSUME NEW d \in Capture, OpenFails(d) PROVE HoldsAt(c)' /\ RecordAt(c)'
    BY <1>6 DEF OpenFails
  <1>7. ASSUME NEW d \in Capture, AbandonStart(d) PROVE HoldsAt(c)' /\ RecordAt(c)'
    BY <1>7 DEF AbandonStart
  <1>8. ASSUME NEW d \in Capture, StopSeen(d) PROVE HoldsAt(c)' /\ RecordAt(c)'
    BY <1>8 DEF StopSeen, LeaveConsume
  <1>9. ASSUME NEW d \in Capture, ConsumeEnds(d) PROVE HoldsAt(c)' /\ RecordAt(c)'
    BY <1>9 DEF ConsumeEnds, LeaveConsume
  <1>10. ASSUME NEW d \in Capture, ConsumeFails(d) PROVE HoldsAt(c)' /\ RecordAt(c)'
    BY <1>10 DEF ConsumeFails, LeaveConsume
  <1>11. ASSUME NEW d \in Capture, ConsumeCancelled(d) PROVE HoldsAt(c)' /\ RecordAt(c)'
    BY <1>11 DEF ConsumeCancelled, LeaveConsume
  <1>12. ASSUME NEW d \in Capture, StopSent(d) PROVE HoldsAt(c)' /\ RecordAt(c)'
    BY <1>12 DEF StopSent
  <1>13. ASSUME NEW d \in Capture, Closed(d) PROVE HoldsAt(c)' /\ RecordAt(c)'
    BY <1>13 DEF Closed, Finish, Outcome, Terminal
  <1>14. ASSUME NEW d \in Capture, CleanupKilled(d) PROVE HoldsAt(c)' /\ RecordAt(c)'
    BY <1>14 DEF CleanupKilled
  <1>15. ASSUME NEW r \in Request, NEW d \in Capture, RequestStop(r, d)
        PROVE  HoldsAt(c)' /\ RecordAt(c)'
    BY <1>15 DEF RequestStop
  <1>16. ASSUME NEW r \in Request, NEW d \in Capture, RequestCancel(r, d)
        PROVE  HoldsAt(c)' /\ RecordAt(c)'
    BY <1>16 DEF RequestCancel
  <1>17. ASSUME NEW r \in Request, Abandon(r)
        PROVE  HoldsAt(c)' /\ RecordAt(c)'
    BY <1>17 DEF Abandon
  <1>18. ASSUME NEW r \in Request, Answered(r)
        PROVE  HoldsAt(c)' /\ RecordAt(c)'
    BY <1>18 DEF Answered, Finish, Terminal
  <1>19. ASSUME UNCHANGED vars PROVE HoldsAt(c)' /\ RecordAt(c)'
    BY <1>19 DEF vars
  <1> HIDE DEF IInv, HoldsAt, RecordAt
  <1> QED
    BY <1>1, <1>2, <1>3, <1>4, <1>5, <1>6, <1>7, <1>8, <1>9, <1>10, <1>11, <1>12,
       <1>13, <1>14, <1>15, <1>16, <1>17, <1>18, <1>19
    DEF Next, RunNext, RequestNext

LEMMA WaitsStep == IInv /\ [Next]_vars => WaitsForRun'
  <1> SUFFICES ASSUME IInv, [Next]_vars, NEW s \in Request, waiting'[s] # Idle
               PROVE  spawned'[waiting'[s]]
    BY DEF WaitsForRun
  <1> USE CapturesAssumption DEF IInv, TypeOK, WaitsForRun
  <1>1. \A c \in Capture : spawned[c] => spawned'[c]
    <2>1. ASSUME NEW d \in Capture, Spawn(d)
          PROVE  \A c \in Capture : spawned[c] => spawned'[c]
      BY <2>1 DEF Spawn
    <2>2. ASSUME ~\E d \in Capture : Spawn(d) PROVE UNCHANGED spawned
      BY <2>2
      DEF Next, RunNext, RequestNext, vars, entryVars, coreVars, recordVars, reqVars,
          Start, CoreStarts, CoreEnds, StartFails, OpenFails, AbandonStart, StopSeen,
          ConsumeEnds, ConsumeFails, ConsumeCancelled, LeaveConsume, StopSent, Closed,
          CleanupKilled, RequestStop, RequestCancel, Abandon, Answered
    <2> QED
      BY <2>1, <2>2
  <1>2. CASE waiting'[s] = waiting[s]
    BY <1>1, <1>2
  <1>3. CASE waiting'[s] # waiting[s]
    <2>1. PICK r \in Request : \/ \E c \in Capture : RequestStop(r, c) \/ RequestCancel(r, c)
                              \/ Answered(r)
      BY <1>3 DEF Next, RunNext, RequestNext, vars, entryVars, coreVars, recordVars,
           reqVars, Start, CoreStarts, CoreEnds, Spawn, StartFails, OpenFails,
           AbandonStart, StopSeen, ConsumeEnds, ConsumeFails, ConsumeCancelled,
           LeaveConsume, StopSent, Closed, CleanupKilled, Abandon
    <2>2. ASSUME NEW c \in Capture, RequestStop(r, c) PROVE spawned'[waiting'[s]]
      BY <1>1, <1>3, <2>2 DEF RequestStop, Released, HoldsAt
    <2>3. ASSUME NEW c \in Capture, RequestCancel(r, c) PROVE spawned'[waiting'[s]]
      BY <1>1, <1>3, <2>3 DEF RequestCancel, Released, RecordAt
    <2>4. ~Answered(r)
      BY <1>3 DEF Answered
    <2> QED
      BY <2>1, <2>2, <2>3, <2>4
  <1> QED
    BY <1>2, <1>3

\* The inductive invariant holds in every reachable state.
THEOREM Invariance == Spec => []IInv
  <1>1. Init => IInv
    <2>1. ASSUME Init, NEW c \in Capture PROVE HoldsAt(c) /\ RecordAt(c)
      <3>1. pc[c] = "unborn" /\ ~spawned[c] /\ status[c] = "none" /\ ~endedAt[c]
        BY <2>1 DEF Init
      <3>2. ~fileOpen[c] /\ ~sockOpen[c] /\ ~started[c] /\ ~session[c]
        BY <2>1 DEF Init
      <3>3. record[c] = "none" /\ ~report[c]
        BY <2>1 DEF Init
      <3> QED
        BY <3>1, <3>2, <3>3 DEF HoldsAt, RecordAt, Terminal
    <2>2. Init => WaitsForRun
      BY DEF Init, WaitsForRun
    <2> QED
      BY <2>1, <2>2, TypeInit DEF IInv, Released
  <1>2. IInv /\ [Next]_vars => IInv'
    BY TypeStep, ReleasedStep, WaitsStep DEF IInv
  <1> QED
    BY <1>1, <1>2, PTL DEF Spec

-----------------------------------------------------------------------------
(* What it is for.                                                         *)

\* Every state of the captures, their records and requests is well typed.
THEOREM TypeCorrect == Spec => []TypeOK
  BY Invariance, PTL DEF IInv

\* A clean-up that runs to its end has released and published everything.
THEOREM CleanCorrect == Spec => []CleanEnd
  <1>1. IInv => CleanEnd
    BY CapturesAssumption
    DEF IInv, Released, HoldsAt, RecordAt, CleanEnd, Outcome, Terminal
  <1> QED
    BY <1>1, Invariance, PTL

\* The record of a run that ended cleanly tells the run's own end.
THEOREM RecordCorrect == Spec => []RecordTellsTheRun
  <1>1. ASSUME IInv, NEW c \in Tasked, pc[c] = "done", Terminal(c)
        PROVE  /\ report[c]
               /\ record[c] = Outcome(c)
               /\ status[c] \in Statuses \ {"running"}
    BY <1>1, CapturesAssumption
    DEF IInv, TypeOK, Released, HoldsAt, RecordAt, Terminal
  <1>2. IInv => RecordTellsTheRun
    BY <1>1 DEF RecordTellsTheRun, Outcome, Statuses
  <1> QED
    BY <1>2, Invariance, PTL

\* A request is answered only after the run has ended and closed its file.
THEOREM AnswerCorrect == Spec => AnswerMeansEnded
  <1>1. ASSUME IInv, [Next]_vars, NEW r \in Request, NEW c \in Capture,
               waiting[r] = c, waiting'[r] = Idle
        PROVE  pc[c] \in Gone /\ ~fileOpen[c]
    <2> USE <1>1, CapturesAssumption DEF IInv, TypeOK
    <2>1. PICK s \in Request : \/ \E d \in Capture : RequestStop(s, d) \/ RequestCancel(s, d)
                              \/ Answered(s)
      BY DEF Next, RunNext, RequestNext, vars, entryVars, coreVars, recordVars,
           reqVars, Start, CoreStarts, CoreEnds, Spawn, StartFails, OpenFails,
           AbandonStart, StopSeen, ConsumeEnds, ConsumeFails, ConsumeCancelled,
           LeaveConsume, StopSent, Closed, CleanupKilled, Abandon
    <2>2. ~\E d \in Capture : RequestStop(s, d) \/ RequestCancel(s, d)
      BY DEF RequestStop, RequestCancel
    <2>3. s = r /\ pc[c] \in Gone
      BY <2>1, <2>2 DEF Answered
    <2> QED
      BY <2>3 DEF Released, HoldsAt, Gone
  <1>2. IInv /\ [Next]_vars =>
          [\A r \in Request, c \in Capture :
             waiting[r] = c /\ waiting'[r] = Idle =>
                 /\ pc[c] \in Gone
                 /\ ~fileOpen[c]]_vars
    BY <1>1
  <1> QED
    BY <1>2, Invariance, PTL DEF Spec, AnswerMeansEnded

-----------------------------------------------------------------------------
(* Every step is one of the life of a capture.                             *)

Moves(c) ==
    \/ Life!Stays(c) \/ Life!Asks(c) \/ Life!CoreTakes(c) \/ Life!CoreDrops(c)
    \/ Life!Runs(c) \/ Life!Fails(c) \/ Life!Leaves(c) \/ Life!Releases(c)
    \/ Life!Abandons(c)

StageAt(c) ==
    CASE pc[c] = "unborn"    -> "idle"
      [] pc[c] = "starting"  -> "asking"
      [] pc[c] = "consuming" -> "running"
      [] pc[c] = "done"      -> "released"
      [] pc[c] = "killed"    -> "abandoned"
      [] OTHER -> IF spawned[c] THEN "ending" ELSE "failing"

ToldAt(c) == endedAt[c] /\ (c \in Tasked => Terminal(c))

\* The same moves, said of the state of the run.
RunStays(c) ==
    /\ StageAt(c)' = StageAt(c)
    /\ sockOpen'[c] = sockOpen[c] /\ fileOpen'[c] = fileOpen[c]
    /\ ToldAt(c)' = ToldAt(c)

TakenByCore(c) ==
    /\ session'[c] /\ sockOpen[c]
    /\ StageAt(c) \in {"asking", "failing", "abandoned"}

RunAsks(c) ==
    /\ StageAt(c) = "idle" /\ StageAt(c)' = "asking"
    /\ sockOpen'[c] /\ ~fileOpen'[c]
    /\ session'[c] = session[c] /\ ToldAt(c)' = ToldAt(c)

RunRuns(c) ==
    /\ StageAt(c) = "asking" /\ StageAt(c)' = "running"
    /\ sockOpen'[c]
    /\ session'[c] = session[c] /\ ToldAt(c)' = ToldAt(c)

RunFails(c) ==
    /\ StageAt(c) = "asking" /\ StageAt(c)' = "failing"
    /\ sockOpen'[c] = sockOpen[c] /\ fileOpen'[c] = fileOpen[c]
    /\ session'[c] = session[c] /\ ToldAt(c)' = ToldAt(c)

RunLeaves(c) ==
    /\ StageAt(c) = "running" /\ StageAt(c)' = "ending"
    /\ sockOpen'[c] = sockOpen[c] /\ ~fileOpen'[c]
    /\ session'[c] = session[c] /\ ToldAt(c)' = ToldAt(c)

RunReleases(c) ==
    /\ StageAt(c) \in {"failing", "ending"} /\ StageAt(c)' = "released"
    /\ ~sockOpen'[c] /\ ~fileOpen'[c] /\ ~session'[c]
    /\ StageAt(c) = "ending" => ToldAt(c)'

RunAbandons(c) ==
    /\ StageAt(c) \in {"failing", "ending"} /\ StageAt(c)' = "abandoned"
    /\ sockOpen'[c] => sockOpen[c]
    /\ fileOpen'[c] = fileOpen[c]
    /\ session'[c] => session[c]
    /\ ToldAt(c)' = ToldAt(c)

RunMoves(c) ==
    \/ RunStays(c) /\ (session'[c] = session[c] \/ ~session'[c] \/ TakenByCore(c))
    \/ RunAsks(c) \/ RunRuns(c) \/ RunFails(c) \/ RunLeaves(c) \/ RunReleases(c)
    \/ RunAbandons(c)

\* The abstract variables at one capture.
LEMMA LifeAt ==
    ASSUME NEW c \in Capture
    PROVE  /\ stage[c] = StageAt(c) /\ stage'[c] = StageAt(c)'
           /\ told[c] = ToldAt(c) /\ told'[c] = ToldAt(c)'
           /\ holds[c] \subseteq {"socket", "file"} /\ holds'[c] \subseteq {"socket", "file"}
           /\ "socket" \in holds[c] <=> sockOpen[c]
           /\ "socket" \in holds'[c] <=> sockOpen'[c]
           /\ "file" \in holds[c] <=> fileOpen[c]
           /\ "file" \in holds'[c] <=> fileOpen'[c]
  <1>1. stage[c] = StageAt(c) /\ stage'[c] = StageAt(c)'
    BY DEF stage, StageAt
  <1>2. told[c] = ToldAt(c) /\ told'[c] = ToldAt(c)'
    BY DEF told, ToldAt, Terminal
  <1> QED
    BY <1>1, <1>2 DEF holds

\* A move said of the run is a move of the abstract capture.
LEMMA MovesFromRun ==
    ASSUME IInv, IInv', NEW c \in Capture, RunMoves(c)
    PROVE  Moves(c)
  <1>1. /\ session[c] \in BOOLEAN /\ session'[c] \in BOOLEAN
        /\ sockOpen[c] \in BOOLEAN /\ sockOpen'[c] \in BOOLEAN
        /\ fileOpen[c] \in BOOLEAN /\ fileOpen'[c] \in BOOLEAN
    BY DEF IInv, TypeOK
  <1>2. /\ stage[c] = StageAt(c) /\ stage'[c] = StageAt(c)'
        /\ told[c] = ToldAt(c) /\ told'[c] = ToldAt(c)'
    BY LifeAt
  <1>3. sockOpen'[c] = sockOpen[c] /\ fileOpen'[c] = fileOpen[c] => holds'[c] = holds[c]
    BY DEF holds
  <1>4. (sockOpen'[c] => sockOpen[c]) /\ fileOpen'[c] = fileOpen[c] =>
          holds'[c] \subseteq holds[c]
    BY LifeAt
  <1>5. ~sockOpen'[c] /\ ~fileOpen'[c] => holds'[c] = {}
    BY DEF holds
  <1>6. sockOpen'[c] /\ ~fileOpen'[c] => holds'[c] = {"socket"}
    BY DEF holds
  <1>7. sockOpen'[c] = sockOpen[c] /\ ~fileOpen'[c] => holds'[c] \subseteq holds[c] \ {"file"}
    BY LifeAt
  <1>8. sockOpen'[c] => "socket" \in holds'[c] /\ holds'[c] \subseteq {"socket", "file"}
    BY LifeAt
  <1>9. sockOpen[c] => "socket" \in holds[c]
    BY LifeAt
  <1> HIDE DEF StageAt, ToldAt, stage, told, holds, IInv
  <1> USE <1>1, <1>2 DEF RunStays, Moves, Life!Moves
  <1>10. CASE RunStays(c) /\ session'[c] = session[c]
    BY <1>3, <1>10 DEF Life!Stays
  <1>11. CASE RunStays(c) /\ ~session'[c]
    BY <1>3, <1>11 DEF Life!CoreDrops
  <1>12. CASE RunStays(c) /\ TakenByCore(c)
    BY <1>3, <1>9, <1>12 DEF Life!CoreTakes, TakenByCore
  <1>13. CASE RunAsks(c)
    BY <1>6, <1>13 DEF Life!Asks, RunAsks
  <1>14. CASE RunRuns(c)
    BY <1>8, <1>14 DEF Life!Runs, RunRuns, Life!Holding
  <1>15. CASE RunFails(c)
    BY <1>3, <1>15 DEF Life!Fails, RunFails
  <1>16. CASE RunLeaves(c)
    BY <1>7, <1>16 DEF Life!Leaves, RunLeaves
  <1>17. CASE RunReleases(c)
    BY <1>5, <1>17 DEF Life!Releases, RunReleases
  <1>18. CASE RunAbandons(c)
    BY <1>4, <1>18 DEF Life!Abandons, RunAbandons
  <1> QED
    BY <1>10, <1>11, <1>12, <1>13, <1>14, <1>15, <1>16, <1>17, <1>18 DEF RunMoves

\* Every step moves every capture along the life of a capture.
LEMMA RunStep ==
    ASSUME IInv, [Next]_vars, NEW c \in Capture
    PROVE  RunMoves(c)
  <1> USE CapturesAssumption
      DEF IInv, TypeOK, Released, WaitsForRun, HoldsAt, RecordAt, Terminal, Gone, Statuses,
          entryVars, coreVars, recordVars, reqVars, RunMoves, StageAt, ToldAt
  <1>1. ASSUME NEW d \in Capture, Start(d) PROVE RunMoves(c)
    <2>1. CASE c = d
      BY <1>1, <2>1 DEF Start, RunAsks
    <2>2. CASE c # d
      BY <1>1, <2>2 DEF Start, RunStays
    <2> QED
      BY <2>1, <2>2
  <1>2. ASSUME NEW d \in Capture, CoreStarts(d) PROVE RunMoves(c)
    <2>1. CASE c = d
      BY <1>2, <2>1 DEF CoreStarts, TakenByCore, RunStays
    <2>2. CASE c # d
      BY <1>2, <2>2 DEF CoreStarts, RunStays
    <2> QED
      BY <2>1, <2>2
  <1>3. ASSUME NEW d \in Capture, CoreEnds(d) PROVE RunMoves(c)
    <2>1. CASE c = d
      BY <1>3, <2>1 DEF CoreEnds, RunStays
    <2>2. CASE c # d
      BY <1>3, <2>2 DEF CoreEnds, RunStays
    <2> QED
      BY <2>1, <2>2
  <1>4. ASSUME NEW d \in Capture, Spawn(d) PROVE RunMoves(c)
    <2>1. CASE c = d
      BY <1>4, <2>1 DEF Spawn, RunRuns
    <2>2. CASE c # d
      BY <1>4, <2>2 DEF Spawn, RunStays
    <2> QED
      BY <2>1, <2>2
  <1>5. ASSUME NEW d \in Capture, StartFails(d) PROVE RunMoves(c)
    <2>1. CASE c = d
      BY <1>5, <2>1 DEF StartFails, RunFails
    <2>2. CASE c # d
      BY <1>5, <2>2 DEF StartFails, RunStays
    <2> QED
      BY <2>1, <2>2
  <1>6. ASSUME NEW d \in Capture, OpenFails(d) PROVE RunMoves(c)
    <2>1. CASE c = d
      BY <1>6, <2>1 DEF OpenFails, RunFails
    <2>2. CASE c # d
      BY <1>6, <2>2 DEF OpenFails, RunStays
    <2> QED
      BY <2>1, <2>2
  <1>7. ASSUME NEW d \in Capture, AbandonStart(d) PROVE RunMoves(c)
    <2>1. CASE c = d
      BY <1>7, <2>1 DEF AbandonStart, RunStays
    <2>2. CASE c # d
      BY <1>7, <2>2 DEF AbandonStart, RunStays
    <2> QED
      BY <2>1, <2>2
  <1>8. ASSUME NEW d \in Capture, StopSeen(d) PROVE RunMoves(c)
    <2>1. CASE c = d
      BY <1>8, <2>1 DEF StopSeen, LeaveConsume, RunLeaves
    <2>2. CASE c # d
      BY <1>8, <2>2 DEF StopSeen, LeaveConsume, RunStays
    <2> QED
      BY <2>1, <2>2
  <1>9. ASSUME NEW d \in Capture, ConsumeEnds(d) PROVE RunMoves(c)
    <2>1. CASE c = d
      BY <1>9, <2>1 DEF ConsumeEnds, LeaveConsume, RunLeaves
    <2>2. CASE c # d
      BY <1>9, <2>2 DEF ConsumeEnds, LeaveConsume, RunStays
    <2> QED
      BY <2>1, <2>2
  <1>10. ASSUME NEW d \in Capture, ConsumeFails(d) PROVE RunMoves(c)
    <2>1. CASE c = d
      BY <1>10, <2>1 DEF ConsumeFails, LeaveConsume, RunLeaves
    <2>2. CASE c # d
      BY <1>10, <2>2 DEF ConsumeFails, LeaveConsume, RunStays
    <2> QED
      BY <2>1, <2>2
  <1>11. ASSUME NEW d \in Capture, ConsumeCancelled(d) PROVE RunMoves(c)
    <2>1. CASE c = d
      BY <1>11, <2>1 DEF ConsumeCancelled, LeaveConsume, RunLeaves
    <2>2. CASE c # d
      BY <1>11, <2>2 DEF ConsumeCancelled, LeaveConsume, RunStays
    <2> QED
      BY <2>1, <2>2
  <1>12. ASSUME NEW d \in Capture, StopSent(d) PROVE RunMoves(c)
    <2>1. CASE c = d
      BY <1>12, <2>1 DEF StopSent, RunStays
    <2>2. CASE c # d
      BY <1>12, <2>2 DEF StopSent, RunStays
    <2> QED
      BY <2>1, <2>2
  <1>13. ASSUME NEW d \in Capture, Closed(d) PROVE RunMoves(c)
    <2>1. CASE c = d
      <3>1. /\ StageAt(c) \in {"failing", "ending"} /\ StageAt(c)' = "released"
            /\ ~sockOpen'[c] /\ ~fileOpen'[c] /\ ~session'[c]
            /\ StageAt(c) = "ending" => spawned[c]
        BY <1>13, <2>1 DEF Closed
      <3>2. ASSUME spawned[c], c \in Tasked PROVE Terminal(c)'
        <4>1. Outcome(c) \in {"completed", "failed", "cancelled"}
          BY DEF Outcome
        <4> QED
          BY <1>13, <2>1, <3>2, <4>1 DEF Closed, Finish
      <3>3. spawned[c] => endedAt'[c]
        BY <1>13, <2>1 DEF Closed
      <3> QED
        BY <3>1, <3>2, <3>3 DEF RunReleases
    <2>2. CASE c # d
      BY <1>13, <2>2 DEF Closed, Finish, RunStays
    <2> QED
      BY <2>1, <2>2
  <1>14. ASSUME NEW d \in Capture, CleanupKilled(d) PROVE RunMoves(c)
    <2>1. CASE c = d
      BY <1>14, <2>1 DEF CleanupKilled, RunAbandons
    <2>2. CASE c # d
      BY <1>14, <2>2 DEF CleanupKilled, RunStays
    <2> QED
      BY <2>1, <2>2
  <1>15. ASSUME NEW r \in Request, NEW d \in Capture, RequestStop(r, d) PROVE RunMoves(c)
    BY <1>15 DEF RequestStop, RunStays
  <1>16. ASSUME NEW r \in Request, NEW d \in Capture, RequestCancel(r, d) PROVE RunMoves(c)
    BY <1>16 DEF RequestCancel, RunStays
  <1>17. ASSUME NEW r \in Request, Abandon(r) PROVE RunMoves(c)
    BY <1>17 DEF Abandon, RunStays
  <1>18. ASSUME NEW r \in Request, Answered(r) PROVE RunMoves(c)
    BY <1>18 DEF Answered, Finish, RunStays
  <1>19. ASSUME UNCHANGED vars PROVE RunMoves(c)
    BY <1>19 DEF vars, RunStays
  <1> HIDE DEF IInv, RunMoves
  <1> QED
    BY <1>1, <1>2, <1>3, <1>4, <1>5, <1>6, <1>7, <1>8, <1>9, <1>10, <1>11, <1>12, <1>13, <1>14, <1>15, <1>16, <1>17, <1>18, <1>19
    DEF Next, RunNext, RequestNext

\* After a step the abstract variables are well typed.
LEMMA LifeType ==
    ASSUME TypeOK'
    PROVE  /\ stage' \in [Capture -> Life!Stage]
           /\ session' \in [Capture -> BOOLEAN]
           /\ holds' \in [Capture -> SUBSET Life!Holding]
           /\ told' \in [Capture -> BOOLEAN]
  <1>1. stage' \in [Capture -> Life!Stage]
    BY DEF stage, Life!Stage, TypeOK, Gone
  <1>2. session' \in [Capture -> BOOLEAN]
    BY DEF TypeOK
  <1>3. holds' \in [Capture -> SUBSET Life!Holding]
    BY DEF holds, Life!Holding
  <1>4. told' \in [Capture -> BOOLEAN]
    BY DEF told, TypeOK, Terminal
  <1> QED
    BY <1>1, <1>2, <1>3, <1>4

\* The background captures keep to the life of a capture.
THEOREM CaptureRefinement == Spec => ImplementsCapture
  <1>1. Init => Life!LifeInit
    BY DEF Init, Life!LifeInit, stage, holds, told
  <1>2. ASSUME IInv, IInv', [Next]_vars PROVE Life!LifeNext
    <2>1. \A c \in Capture : Moves(c)
      BY <1>2, RunStep, MovesFromRun
    <2> QED
      BY <1>2, <2>1, LifeType DEF Life!LifeNext, Moves, IInv
  <1> QED
    BY <1>1, <1>2, Invariance, PTL DEF Spec, ImplementsCapture, Life!LifeSpec

-----------------------------------------------------------------------------
(* Every step is one of the life of a task.                                *)

RecordMoves(t) == TaskLife!Stays(t) \/ TaskLife!Advances(t) \/ TaskLife!Finishes(t)

\* What a step does to the record of a tasked capture: it leaves it alone,
\* opens it, ends it with the report, or cancels it without one.
RecordStep(t) ==
    \/ record'[t] = record[t] /\ report'[t] = report[t]
    \/ record[t] = "none" /\ record'[t] = "working" /\ report'[t] = report[t]
    \/ /\ record[t] = "working" /\ record'[t] \in {"completed", "failed", "cancelled"}
       /\ record'[t] = "cancelled" \/ report'[t]

LEMMA RecordStepHolds ==
    ASSUME IInv, [Next]_vars, NEW t \in Tasked
    PROVE  RecordStep(t)
  <1> t \in Capture
    BY CapturesAssumption
  <1> USE DEF IInv, TypeOK
  <1>1. ASSUME NEW d \in Capture, Spawn(d) PROVE RecordStep(t)
    <2> record[d] = "none"
      BY <1>1 DEF Released, HoldsAt, RecordAt, Spawn
    <2> QED
      BY <1>1 DEF RecordStep, Spawn
  <1>2. ASSUME NEW d \in Capture, Closed(d) PROVE RecordStep(t)
    <2>1. CASE t = d /\ spawned[d]
      <3>1. record[t] = "working"
        BY <1>2, <2>1 DEF Closed, Released, RecordAt, Terminal, Gone
      <3>2. Outcome(t) \in {"completed", "failed", "cancelled"}
        BY DEF Outcome
      <3> QED
        BY <1>2, <2>1, <3>1, <3>2 DEF RecordStep, Closed, Finish, Terminal
    <2>2. CASE ~(t = d /\ spawned[d])
      BY <1>2, <2>2 DEF RecordStep, Closed, Finish
    <2> QED
      BY <2>1, <2>2
  <1>3. ASSUME NEW r \in Request, Answered(r) PROVE RecordStep(t)
    <2>1. waiting[r] \in Capture /\ spawned[waiting[r]]
      BY <1>3 DEF Answered, WaitsForRun
    <2>2. t = waiting[r] => record[t] # "none"
      BY <2>1 DEF Released, RecordAt
    <2>3. UNCHANGED <<record, report>> => RecordStep(t)
      BY DEF RecordStep
    <2>4. CASE method[r] = "cancel" /\ ~Terminal(waiting[r])
      BY <1>3, <2>1, <2>2, <2>4 DEF RecordStep, Answered, Finish, Terminal
    <2>5. CASE ~(method[r] = "cancel" /\ ~Terminal(waiting[r]))
      BY <1>3, <2>3, <2>5 DEF Answered, Finish
    <2> QED
      BY <2>4, <2>5
  <1>4. CASE UNCHANGED <<record, report>>
    BY <1>4 DEF RecordStep
  <1> QED
    BY <1>1, <1>2, <1>3, <1>4
    DEF Next, RunNext, RequestNext, vars, recordVars, LeaveConsume,
        Start, CoreStarts, CoreEnds, StartFails, OpenFails, AbandonStart, StopSeen,
        ConsumeEnds, ConsumeFails, ConsumeCancelled, StopSent, CleanupKilled,
        RequestStop, RequestCancel, Abandon

\* The record of a capture keeps to the life of a task.
THEOREM RecordRefinement == Spec => ImplementsTaskLifecycle
  <1>1. Init => TaskLife!LifeInit
    BY CapturesAssumption DEF Init, TaskLife!LifeInit, records, outcomes
  <1>2. ASSUME TypeOK'
        PROVE  /\ records' \in [Tasked -> TaskLife!Phase]
               /\ outcomes' \in [Tasked -> {"report"} \cup {"none"}]
    <2>1. ASSUME NEW t \in Tasked
          PROVE  record'[t] \in {"none", "working", "completed", "failed", "cancelled"}
      BY <1>2, CapturesAssumption DEF TypeOK
    <2>2. records' \in [Tasked -> TaskLife!Phase]
      BY <2>1 DEF records, TaskLife!Phase, TaskLife!Live, TaskLife!Ends
    <2>3. outcomes' \in [Tasked -> {"report"} \cup {"none"}]
      BY DEF outcomes
    <2> QED
      BY <2>2, <2>3
  <1>3. ASSUME IInv, [Next]_vars, NEW t \in Tasked PROVE RecordMoves(t)
    <2>1. RecordStep(t)
      BY <1>3, RecordStepHolds
    <2>2. /\ records[t] = IF record[t] = "none" THEN "fresh" ELSE record[t]
          /\ records'[t] = IF record'[t] = "none" THEN "fresh" ELSE record'[t]
          /\ outcomes[t] = IF report[t] THEN "report" ELSE "none"
          /\ outcomes'[t] = IF report'[t] THEN "report" ELSE "none"
      BY DEF records, outcomes
    <2> HIDE DEF records, outcomes
    <2>3. CASE record'[t] = record[t] /\ report'[t] = report[t]
      BY <2>2, <2>3 DEF RecordMoves, TaskLife!Stays
    <2>4. CASE record[t] = "none" /\ record'[t] = "working" /\ report'[t] = report[t]
      BY <2>2, <2>4 DEF RecordMoves, TaskLife!Advances
    <2>5. CASE /\ record[t] = "working" /\ record'[t] \in {"completed", "failed", "cancelled"}
               /\ record'[t] = "cancelled" \/ report'[t]
      BY <2>2, <2>5 DEF RecordMoves, TaskLife!Finishes, TaskLife!Live, TaskLife!Ends
    <2> QED
      BY <2>1, <2>3, <2>4, <2>5 DEF RecordStep
  <1>4. ASSUME IInv, IInv', [Next]_vars PROVE TaskLife!LifeNext
    BY <1>2, <1>3, <1>4 DEF TaskLife!LifeNext, RecordMoves, IInv
  <1> QED
    BY <1>1, <1>4, Invariance, PTL DEF Spec, ImplementsTaskLifecycle, TaskLife!LifeSpec

=============================================================================
