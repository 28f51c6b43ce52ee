------------------------- MODULE StreamCaptureProofs -------------------------
(***************************************************************************)
(* Proofs about StreamCapture for any number of calls.                     *)
(*                                                                         *)
(* A socket is attached to one session only: a call that owns a capture    *)
(* joined none, so its stop can end no other.  With this every step is one *)
(* of the life of a capture.                                               *)
(***************************************************************************)
EXTENDS StreamCapture, TLAPS

Early == {"idle", "listing", "starting", "relisting", "subscribing"}

\* What the call has at each place.
HoldsAt(k) ==
    /\ pc[k] \in Early => ~owns[k] /\ joined[k] = None /\ ~stopped[k] /\ early[k] = "none"
    /\ pc[k] \in Early /\ pc[k] # "idle" => sockOpen[k]
    /\ pc[k] \in {"streaming", "draining", "stopping"} => sockOpen[k]
    /\ pc[k] \in {"draining", "stopping"} => owns[k]
    /\ owns[k] => joined[k] = None
    /\ tee[k] => pc[k] \in {"streaming", "draining"}
    /\ holder = k => pc[k] \notin Early
    /\ pc[k] = "closed" => holder # k /\ ~sockOpen[k]

\* Until its window is over an END event is none of the call's own doing.
LossAt(k) ==
    /\ pc[k] \in Early \cup {"streaming"} /\ queued[k] => lost[k]
    /\ early[k] = "yes" => lost[k]

Attachment == \A k \in Call : HoldsAt(k) /\ LossAt(k)

IInv == TypeOK /\ Attachment

-----------------------------------------------------------------------------
(* Type correctness.                                                       *)

LEMMA TypeInit == Init => TypeOK
  BY DEF Init, TypeOK, Session

\* The type of what a step that ends in Window, Result or CoreStop changes.
PcType == pc' \in [Call -> {"idle", "listing", "starting", "relisting",
                            "subscribing", "streaming", "draining", "stopping",
                            "closing", "closed", "killed"}]

LEMMA WindowType ==
    ASSUME TypeOK, NEW j \in Call, Window(j)
    PROVE  PcType /\ spawned' \in [Call -> BOOLEAN] /\ tee' \in [Call -> BOOLEAN]
  <1>1. PcType
    BY DEF Window, Goto, TypeOK, PcType
  <1>2. spawned' \in [Call -> BOOLEAN]
    BY DEF Window, TypeOK
  <1>3. tee' \in [Call -> BOOLEAN]
    BY DEF Window, TypeOK
  <1> QED
    BY <1>1, <1>2, <1>3

LEMMA ResultType ==
    ASSUME TypeOK, NEW j \in Call, NEW flag \in {"yes", "no"}, Result(j, flag)
    PROVE  /\ PcType
           /\ early' \in [Call -> {"none", "yes", "no", "cut", "error"}]
           /\ stopped' \in [Call -> BOOLEAN] /\ tee' \in [Call -> BOOLEAN]
  BY DEF Result, Goto, TypeOK, PcType

LEMMA StopType ==
    ASSUME TypeOK, NEW j \in Call, CoreStop(j)
    PROVE  /\ holder' \in Session
           /\ queued' \in [Call -> BOOLEAN] /\ lost' \in [Call -> BOOLEAN]
  BY DEF CoreStop, EndSession, Attached, TypeOK, Session

LEMMA TypeStep == TypeOK /\ [Next]_vars => TypeOK'
  <1> SUFFICES ASSUME TypeOK, [Next]_vars PROVE TypeOK'
    OBVIOUS
  <1> USE CallsAssumption DEF TypeOK, Session, callVars, sockVars
  <1>1. ASSUME OtherMoves PROVE TypeOK'
    BY <1>1 DEF OtherMoves, EndSession, Attached
  <1>2. ASSUME NEW j \in Call, Dies(j) PROVE TypeOK'
    BY <1>2 DEF Dies, EndSession, Attached
  <1>3. ASSUME NEW j \in Call, Connect(j) PROVE TypeOK'
    BY <1>3 DEF Connect, Goto
  <1>4. ASSUME NEW j \in Call, List(j) PROVE TypeOK'
    BY <1>4 DEF List, Goto
  <1>5. ASSUME NEW j \in Call, Name(j) PROVE TypeOK'
    BY <1>5 DEF Name, Goto
  <1>6. ASSUME NEW j \in Call, Start(j) PROVE TypeOK'
    <2>1. CASE holder = None
      BY <1>6, <2>1, WindowType DEF Start, PcType
    <2>2. CASE holder # None
      BY <1>6, <2>2 DEF Start, Goto
    <2> QED
      BY <2>1, <2>2
  <1>7. ASSUME NEW j \in Call, Relist(j) PROVE TypeOK'
    BY <1>7 DEF Relist, Goto
  <1>8. ASSUME NEW j \in Call, Subscribe(j) PROVE TypeOK'
    <2>1. CASE holder = seen[j]
      BY <1>8, <2>1, WindowType DEF Subscribe, PcType
    <2>2. CASE holder # seen[j]
      BY <1>8, <2>2 DEF Subscribe, Goto
    <2> QED
      BY <2>1, <2>2
  <1>9. ASSUME NEW j \in Call, CommandFails(j) PROVE TypeOK'
    BY <1>9 DEF CommandFails, Goto
  <1>10. ASSUME NEW j \in Call, WindowElapses(j) PROVE TypeOK'
    <2>1. CASE owns[j]
      BY <1>10, <2>1, StopType DEF WindowElapses, Goto
    <2>2. CASE ~owns[j]
      BY <1>10, <2>2, ResultType DEF WindowElapses, PcType
    <2> QED
      BY <2>1, <2>2
  <1>11. ASSUME NEW j \in Call, EndSeen(j) PROVE TypeOK'
    BY <1>11, ResultType DEF EndSeen, PcType
  <1>12. ASSUME NEW j \in Call, StreamBreaks(j) PROVE TypeOK'
    <2>1. CASE holder = j
      BY <1>12, <2>1, ResultType DEF StreamBreaks, EndSession, Attached, PcType
    <2>2. CASE holder # j
      BY <1>12, <2>2, ResultType DEF StreamBreaks, PcType
    <2> QED
      BY <2>1, <2>2
  <1>13. ASSUME NEW j \in Call, DrainEnds(j) PROVE TypeOK'
    BY <1>13, ResultType DEF DrainEnds, PcType
  <1>14. ASSUME NEW j \in Call, Cancelled(j) PROVE TypeOK'
    BY <1>14 DEF Cancelled, Cut, Goto
  <1>15. ASSUME NEW j \in Call, StorageFails(j) PROVE TypeOK'
    BY <1>15 DEF StorageFails, Cut, Goto
  <1>16. ASSUME NEW j \in Call, StopSent(j) PROVE TypeOK'
    BY <1>16, StopType DEF StopSent, Goto
  <1>17. ASSUME NEW j \in Call, Close(j) PROVE TypeOK'
    BY <1>17 DEF Close, Goto, CoreClose, EndSession, Attached
  <1>18. ASSUME NEW j \in Call, Killed(j) PROVE TypeOK'
    BY <1>18 DEF Killed, Goto
  <1>19. ASSUME UNCHANGED vars PROVE TypeOK'
    BY <1>19 DEF vars
  <1> HIDE DEF TypeOK
  <1> QED
    BY <1>1, <1>2, <1>3, <1>4, <1>5, <1>6, <1>7, <1>8, <1>9, <1>10, <1>11, <1>12,
       <1>13, <1>14, <1>15, <1>16, <1>17, <1>18, <1>19
    DEF Next, CallNext

-----------------------------------------------------------------------------
(* The invariant.                                                          *)

LEMMA AttachmentStep == IInv /\ [Next]_vars => Attachment'
  <1> SUFFICES ASSUME IInv, [Next]_vars, NEW k \in Call
               PROVE  HoldsAt(k)' /\ LossAt(k)'
    BY DEF Attachment
  <1> USE CallsAssumption
      DEF IInv, TypeOK, Session, Attachment, HoldsAt, LossAt, Early, callVars, sockVars
  <1>1. ASSUME OtherMoves PROVE HoldsAt(k)' /\ LossAt(k)'
    BY <1>1 DEF OtherMoves, EndSession, Attached
  <1>2. ASSUME NEW j \in Call, Dies(j) PROVE HoldsAt(k)' /\ LossAt(k)'
    BY <1>2 DEF Dies, EndSession, Attached
  <1>3. ASSUME NEW j \in Call, Connect(j) PROVE HoldsAt(k)' /\ LossAt(k)'
    BY <1>3 DEF Connect, Goto
  <1>4. ASSUME NEW j \in Call, List(j) PROVE HoldsAt(k)' /\ LossAt(k)'
    BY <1>4 DEF List, Goto
  <1>5. ASSUME NEW j \in Call, Name(j) PROVE HoldsAt(k)' /\ LossAt(k)'
    BY <1>5 DEF Name, Goto
  <1>6. ASSUME NEW j \in Call, Start(j) PROVE HoldsAt(k)' /\ LossAt(k)'
    BY <1>6 DEF Start, Goto, Window
  <1>7. ASSUME NEW j \in Call, Relist(j) PROVE HoldsAt(k)' /\ LossAt(k)'
    BY <1>7 DEF Relist, Goto
  <1>8. ASSUME NEW j \in Call, Subscribe(j) PROVE HoldsAt(k)' /\ LossAt(k)'
    BY <1>8 DEF Subscribe, Goto, Window
  <1>9. ASSUME NEW j \in Call, CommandFails(j) PROVE HoldsAt(k)' /\ LossAt(k)'
    BY <1>9 DEF CommandFails, Goto
  <1>10. ASSUME NEW j \in Call, WindowElapses(j) PROVE HoldsAt(k)' /\ LossAt(k)'
    BY <1>10 DEF WindowElapses, Goto, Result, CoreStop, EndSession, Attached
  <1>11. ASSUME NEW j \in Call, EndSeen(j) PROVE HoldsAt(k)' /\ LossAt(k)'
    BY <1>11 DEF EndSeen, Goto, Result
  <1>12. ASSUME NEW j \in Call, StreamBreaks(j) PROVE HoldsAt(k)' /\ LossAt(k)'
    BY <1>12 DEF StreamBreaks, Goto, Result, EndSession, Attached
  <1>13. ASSUME NEW j \in Call, DrainEnds(j) PROVE HoldsAt(k)' /\ LossAt(k)'
    BY <1>13 DEF DrainEnds, Goto, Result
  <1>14. ASSUME NEW j \in Call, Cancelled(j) PROVE HoldsAt(k)' /\ LossAt(k)'
    BY <1>14 DEF Cancelled, Cut, Goto
  <1>15. ASSUME NEW j \in Call, StorageFails(j) PROVE HoldsAt(k)' /\ LossAt(k)'
    BY <1>15 DEF StorageFails, Cut, Goto
  <1>16. ASSUME NEW j \in Call, StopSent(j) PROVE HoldsAt(k)' /\ LossAt(k)'
    BY <1>16 DEF StopSent, Goto, CoreStop, EndSession, Attached
  <1>17. ASSUME NEW j \in Call, Close(j) PROVE HoldsAt(k)' /\ LossAt(k)'
    BY <1>17 DEF Close, Goto, CoreClose, EndSession, Attached
  <1>18. ASSUME NEW j \in Call, Killed(j) PROVE HoldsAt(k)' /\ LossAt(k)'
    BY <1>18 DEF Killed, Goto
  <1>19. ASSUME UNCHANGED vars PROVE HoldsAt(k)' /\ LossAt(k)'
    BY <1>19 DEF vars
  <1> HIDE DEF IInv, HoldsAt, LossAt
  <1> QED
    BY <1>1, <1>2, <1>3, <1>4, <1>5, <1>6, <1>7, <1>8, <1>9, <1>10, <1>11, <1>12,
       <1>13, <1>14, <1>15, <1>16, <1>17, <1>18, <1>19
    DEF Next, CallNext

\* The inductive invariant holds in every reachable state.
THEOREM Invariance == Spec => []IInv
  <1>1. Init => IInv
    <2>1. ASSUME Init, NEW k \in Call PROVE HoldsAt(k) /\ LossAt(k)
      <3>1. pc[k] = "idle" /\ ~owns[k] /\ joined[k] = None /\ ~stopped[k]
        BY <2>1 DEF Init
      <3>2. ~sockOpen[k] /\ ~tee[k] /\ ~queued[k] /\ early[k] = "none"
        BY <2>1 DEF Init
      <3>3. holder # k
        BY <2>1, CallsAssumption DEF Init
      <3> QED
        BY <3>1, <3>2, <3>3 DEF HoldsAt, LossAt, Early
    <2> QED
      BY <2>1, TypeInit DEF IInv, Attachment
  <1>2. IInv /\ [Next]_vars => IInv'
    BY TypeStep, AttachmentStep DEF IInv
  <1> QED
    BY <1>1, <1>2, PTL DEF Spec

-----------------------------------------------------------------------------
(* What it is for.                                                         *)

\* Every state of the calls, their sockets and the interface is well typed.
THEOREM TypeCorrect == Spec => []TypeOK
  BY Invariance, PTL DEF IInv

\* A call that is over holds no interface, socket or file.
THEOREM ReleaseCorrect == Spec => []ReleasedWhenClosed
  <1>1. IInv => ReleasedWhenClosed
    BY DEF IInv, Attachment, HoldsAt, ReleasedWhenClosed
  <1> QED
    BY <1>1, Invariance, PTL

\* A result is early only for a capture that ended by no doing of the call.
THEOREM EarlyCorrect == Spec => []EarlyMeansLost
  <1>1. IInv => EarlyMeansLost
    BY DEF IInv, Attachment, LossAt, EarlyMeansLost
  <1> QED
    BY <1>1, Invariance, PTL

\* No step of a call frees an interface that another session holds: what it
\* stops or closes is attached to its own capture, or to none.
THEOREM OthersCorrect == Spec => NeverStopsOthers
  <1>1. ASSUME IInv, NEW k \in Call, CallNext(k), holder \notin {None, k}
        PROVE  holder' = holder
    <2>1. owns[k] => k \notin Attached(holder)
      BY <1>1 DEF IInv, Attachment, HoldsAt, Attached
    <2>2. CASE WindowElapses(k)
      BY <1>1, <2>1, <2>2 DEF WindowElapses, CoreStop
    <2>3. CASE StopSent(k)
      <3>1. owns[k]
        BY <1>1, <2>3 DEF IInv, Attachment, HoldsAt, StopSent
      <3> QED
        BY <1>1, <2>1, <2>3, <3>1 DEF StopSent, CoreStop
    <2>4. CASE StreamBreaks(k) \/ Close(k)
      BY <1>1, <2>4 DEF StreamBreaks, Close, CoreClose
    <2>5. CASE Start(k) \/ CommandFails(k)
      BY <1>1, <2>5 DEF Start, CommandFails
    <2> QED
      BY <1>1, <2>2, <2>3, <2>4, <2>5
      DEF CallNext, Connect, List, Name, Relist, Subscribe, EndSeen, DrainEnds,
          Cancelled, StorageFails, Killed
  <1>2. IInv => [\A k \in Call : CallNext(k) /\ holder \notin {None, k} =>
                    holder' = holder]_vars
    BY <1>1
  <1> QED
    BY <1>2, Invariance, PTL DEF NeverStopsOthers

-----------------------------------------------------------------------------
(* Every step is one of the life of a capture.                             *)

Moves(k) ==
    \/ Life!Stays(k) \/ Life!Asks(k) \/ Life!CoreTakes(k) \/ Life!CoreDrops(k)
    \/ Life!Runs(k) \/ Life!Fails(k) \/ Life!Leaves(k) \/ Life!Releases(k)
    \/ Life!Abandons(k)

StageAt(k) ==
    CASE pc[k] = "idle"   -> "idle"
      [] pc[k] \in {"listing", "starting", "relisting", "subscribing"} -> "asking"
      [] pc[k] \in {"streaming", "draining"} -> "running"
      [] pc[k] = "closed" -> "released"
      [] pc[k] = "killed" -> "abandoned"
      [] OTHER -> IF early[k] = "none" THEN "failing" ELSE "ending"

\* The same moves, said of the state of the call.
RunStays(k) ==
    /\ StageAt(k)' = StageAt(k)
    /\ sockOpen'[k] = sockOpen[k] /\ tee'[k] = tee[k]
    /\ early'[k] = early[k]
    /\ holder' = k => holder = k

RunAsks(k) ==
    /\ StageAt(k) = "idle" /\ StageAt(k)' = "asking"
    /\ sockOpen'[k] /\ ~tee'[k]
    /\ holder' = holder /\ early'[k] = early[k]

RunRuns(k) ==
    /\ StageAt(k) = "asking" /\ StageAt(k)' = "running"
    /\ sockOpen'[k]
    /\ holder = k => holder' = k
    /\ early'[k] = early[k]

RunFails(k) ==
    /\ StageAt(k) = "asking" /\ StageAt(k)' = "failing"
    /\ sockOpen'[k] = sockOpen[k] /\ tee'[k] = tee[k]
    /\ holder = k => holder' = k
    /\ early'[k] = early[k]

RunLeaves(k) ==
    /\ StageAt(k) = "running" /\ StageAt(k)' = "ending"
    /\ sockOpen'[k] => sockOpen[k]
    /\ ~tee'[k]
    /\ holder' = k => holder = k
    /\ early'[k] # "none"

RunReleases(k) ==
    /\ StageAt(k) \in {"failing", "ending"} /\ StageAt(k)' = "released"
    /\ ~sockOpen'[k] /\ ~tee'[k] /\ holder' # k
    /\ StageAt(k) = "ending" => early'[k] # "none"

RunAbandons(k) ==
    /\ StageAt(k) \in {"failing", "ending"} /\ StageAt(k)' = "abandoned"
    /\ sockOpen'[k] = sockOpen[k] /\ tee'[k] = tee[k]
    /\ holder' = holder /\ early'[k] = early[k]

RunMoves(k) ==
    \/ RunStays(k) \/ RunAsks(k) \/ RunRuns(k) \/ RunFails(k) \/ RunLeaves(k)
    \/ RunReleases(k) \/ RunAbandons(k)

\* A move said of the call is a move of the abstract capture.
LEMMA MovesFromRun ==
    ASSUME IInv, IInv', NEW k \in Call, RunMoves(k)
    PROVE  Moves(k)
  <1>1. /\ sockOpen[k] \in BOOLEAN /\ sockOpen'[k] \in BOOLEAN
        /\ tee[k] \in BOOLEAN /\ tee'[k] \in BOOLEAN
    BY DEF IInv, TypeOK
  <1>2. /\ stage[k] = StageAt(k) /\ stage'[k] = StageAt(k)'
        /\ told[k] = (early[k] # "none") /\ told'[k] = (early'[k] # "none")
        /\ taken[k] = (holder = k) /\ taken'[k] = (holder' = k)
    BY DEF stage, StageAt, told, taken
  <1>3. sockOpen'[k] = sockOpen[k] /\ tee'[k] = tee[k] => holds'[k] = holds[k]
    BY DEF holds
  <1>4. ~sockOpen'[k] /\ ~tee'[k] => holds'[k] = {}
    BY DEF holds
  <1>5. sockOpen'[k] /\ ~tee'[k] => holds'[k] = {"socket"}
    BY DEF holds
  <1>6. (sockOpen'[k] => sockOpen[k]) /\ ~tee'[k] => holds'[k] \subseteq holds[k] \ {"file"}
    BY <1>1 DEF holds
  <1>7. sockOpen'[k] => "socket" \in holds'[k] /\ holds'[k] \subseteq {"socket", "file"}
    BY DEF holds
  <1> HIDE DEF StageAt, stage, told, taken, holds, IInv
  <1> USE <1>1, <1>2 DEF Moves, Life!Moves
  <1>8. CASE RunStays(k)
    BY <1>3, <1>8 DEF RunStays, Life!Stays, Life!CoreDrops
  <1>9. CASE RunAsks(k)
    BY <1>5, <1>9 DEF RunAsks, Life!Asks
  <1>10. CASE RunRuns(k)
    BY <1>7, <1>10 DEF RunRuns, Life!Runs, Life!Holding
  <1>11. CASE RunFails(k)
    BY <1>3, <1>11 DEF RunFails, Life!Fails
  <1>12. CASE RunLeaves(k)
    BY <1>6, <1>12 DEF RunLeaves, Life!Leaves
  <1>13. CASE RunReleases(k)
    BY <1>4, <1>13 DEF RunReleases, Life!Releases
  <1>14. CASE RunAbandons(k)
    BY <1>3, <1>14 DEF RunAbandons, Life!Abandons
  <1> QED
    BY <1>8, <1>9, <1>10, <1>11, <1>12, <1>13, <1>14 DEF RunMoves

\* Every step moves every call along the life of a capture.
LEMMA RunStep ==
    ASSUME IInv, [Next]_vars, NEW k \in Call
    PROVE  RunMoves(k)
  <1> USE CallsAssumption
      DEF IInv, TypeOK, Session, Attachment, HoldsAt, Early, callVars, sockVars,
          RunMoves, StageAt
  <1>1. ASSUME OtherMoves PROVE RunMoves(k)
    BY <1>1 DEF OtherMoves, EndSession, RunStays
  <1>2. ASSUME NEW j \in Call, Dies(j) PROVE RunMoves(k)
    <2>1. CASE k = j
      BY <1>2, <2>1 DEF Dies, EndSession, RunStays
    <2>2. CASE k # j
      BY <1>2, <2>2 DEF Dies, EndSession, RunStays
    <2> QED
      BY <2>1, <2>2
  <1>3. ASSUME NEW j \in Call, Connect(j) PROVE RunMoves(k)
    <2>1. CASE k = j
      BY <1>3, <2>1 DEF Connect, Goto, RunAsks
    <2>2. CASE k # j
      BY <1>3, <2>2 DEF Connect, Goto, RunStays
    <2> QED
      BY <2>1, <2>2
  <1>4. ASSUME NEW j \in Call, List(j) PROVE RunMoves(k)
    <2>1. CASE k = j
      BY <1>4, <2>1 DEF List, Goto, RunStays, RunFails
    <2>2. CASE k # j
      BY <1>4, <2>2 DEF List, Goto, RunStays
    <2> QED
      BY <2>1, <2>2
  <1>5. ASSUME NEW j \in Call, Name(j) PROVE RunMoves(k)
    <2>1. CASE k = j
      BY <1>5, <2>1 DEF Name, Goto, RunStays
    <2>2. CASE k # j
      BY <1>5, <2>2 DEF Name, Goto, RunStays
    <2> QED
      BY <2>1, <2>2
  <1>6. ASSUME NEW j \in Call, Start(j) PROVE RunMoves(k)
    <2>1. CASE k = j
      BY <1>6, <2>1 DEF Start, Goto, Window, RunStays, RunRuns
    <2>2. CASE k # j
      BY <1>6, <2>2 DEF Start, Goto, Window, RunStays
    <2> QED
      BY <2>1, <2>2
  <1>7. ASSUME NEW j \in Call, Relist(j) PROVE RunMoves(k)
    <2>1. CASE k = j
      BY <1>7, <2>1 DEF Relist, Goto, RunStays, RunFails
    <2>2. CASE k # j
      BY <1>7, <2>2 DEF Relist, Goto, RunStays
    <2> QED
      BY <2>1, <2>2
  <1>8. ASSUME NEW j \in Call, Subscribe(j) PROVE RunMoves(k)
    <2>1. CASE k = j
      BY <1>8, <2>1 DEF Subscribe, Goto, Window, RunRuns, RunFails
    <2>2. CASE k # j
      BY <1>8, <2>2 DEF Subscribe, Goto, Window, RunStays
    <2> QED
      BY <2>1, <2>2
  <1>9. ASSUME NEW j \in Call, CommandFails(j) PROVE RunMoves(k)
    <2>1. CASE k = j
      BY <1>9, <2>1 DEF CommandFails, Goto, RunFails
    <2>2. CASE k # j
      BY <1>9, <2>2 DEF CommandFails, Goto, RunStays
    <2> QED
      BY <2>1, <2>2
  <1>10. ASSUME NEW j \in Call, WindowElapses(j) PROVE RunMoves(k)
    <2>1. CASE k = j
      BY <1>10, <2>1 DEF WindowElapses, Goto, Result, CoreStop, EndSession, RunStays, RunLeaves
    <2>2. CASE k # j
      BY <1>10, <2>2 DEF WindowElapses, Goto, Result, CoreStop, EndSession, RunStays
    <2> QED
      BY <2>1, <2>2
  <1>11. ASSUME NEW j \in Call, EndSeen(j) PROVE RunMoves(k)
    <2>1. CASE k = j
      BY <1>11, <2>1 DEF EndSeen, Goto, Result, RunLeaves
    <2>2. CASE k # j
      BY <1>11, <2>2 DEF EndSeen, Goto, Result, RunStays
    <2> QED
      BY <2>1, <2>2
  <1>12. ASSUME NEW j \in Call, StreamBreaks(j) PROVE RunMoves(k)
    <2>1. CASE k = j
      BY <1>12, <2>1 DEF StreamBreaks, Goto, Result, EndSession, RunLeaves
    <2>2. CASE k # j
      BY <1>12, <2>2 DEF StreamBreaks, Goto, Result, EndSession, RunStays
    <2> QED
      BY <2>1, <2>2
  <1>13. ASSUME NEW j \in Call, DrainEnds(j) PROVE RunMoves(k)
    <2>1. CASE k = j
      BY <1>13, <2>1 DEF DrainEnds, Goto, Result, RunLeaves
    <2>2. CASE k # j
      BY <1>13, <2>2 DEF DrainEnds, Goto, Result, RunStays
    <2> QED
      BY <2>1, <2>2
  <1>14. ASSUME NEW j \in Call, Cancelled(j) PROVE RunMoves(k)
    <2>1. CASE k = j
      BY <1>14, <2>1 DEF Cancelled, Cut, Goto, RunLeaves
    <2>2. CASE k # j
      BY <1>14, <2>2 DEF Cancelled, Cut, Goto, RunStays
    <2> QED
      BY <2>1, <2>2
  <1>15. ASSUME NEW j \in Call, StorageFails(j) PROVE RunMoves(k)
    <2>1. CASE k = j
      BY <1>15, <2>1 DEF StorageFails, Cut, Goto, RunLeaves
    <2>2. CASE k # j
      BY <1>15, <2>2 DEF StorageFails, Cut, Goto, RunStays
    <2> QED
      BY <2>1, <2>2
  <1>16. ASSUME NEW j \in Call, StopSent(j) PROVE RunMoves(k)
    <2>1. CASE k = j
      BY <1>16, <2>1 DEF StopSent, Goto, CoreStop, EndSession, RunStays
    <2>2. CASE k # j
      BY <1>16, <2>2 DEF StopSent, Goto, CoreStop, EndSession, RunStays
    <2> QED
      BY <2>1, <2>2
  <1>17. ASSUME NEW j \in Call, Close(j) PROVE RunMoves(k)
    <2>1. CASE k = j
      BY <1>17, <2>1 DEF Close, Goto, CoreClose, EndSession, RunReleases
    <2>2. CASE k # j
      BY <1>17, <2>2 DEF Close, Goto, CoreClose, EndSession, RunStays
    <2> QED
      BY <2>1, <2>2
  <1>18. ASSUME NEW j \in Call, Killed(j) PROVE RunMoves(k)
    <2>1. CASE k = j
      BY <1>18, <2>1 DEF Killed, Goto, RunAbandons
    <2>2. CASE k # j
      BY <1>18, <2>2 DEF Killed, Goto, RunStays
    <2> QED
      BY <2>1, <2>2
  <1>19. ASSUME UNCHANGED vars PROVE RunMoves(k)
    BY <1>19 DEF vars, RunStays
  <1> HIDE DEF IInv, RunMoves
  <1> QED
    BY <1>1, <1>2, <1>3, <1>4, <1>5, <1>6, <1>7, <1>8, <1>9, <1>10, <1>11, <1>12,
       <1>13, <1>14, <1>15, <1>16, <1>17, <1>18, <1>19
    DEF Next, CallNext

\* After a step the abstract variables are well typed.
LEMMA LifeType ==
    ASSUME TypeOK'
    PROVE  /\ stage' \in [Call -> Life!Stage]
           /\ taken' \in [Call -> BOOLEAN]
           /\ holds' \in [Call -> SUBSET Life!Holding]
           /\ told' \in [Call -> BOOLEAN]
  <1>1. stage' \in [Call -> Life!Stage]
    BY DEF stage, Life!Stage, TypeOK
  <1>2. taken' \in [Call -> BOOLEAN]
    BY DEF taken
  <1>3. holds' \in [Call -> SUBSET Life!Holding]
    BY DEF holds, Life!Holding
  <1>4. told' \in [Call -> BOOLEAN]
    BY DEF told
  <1> QED
    BY <1>1, <1>2, <1>3, <1>4

\* The captures of the calls keep to the life of a capture.
THEOREM CaptureRefinement == Spec => ImplementsCapture
  <1>1. ASSUME Init PROVE Life!LifeInit
    <2>1. /\ \A k \in Call : holder # k
          /\ \A k \in Call : pc[k] = "idle" /\ early[k] = "none"
          /\ \A k \in Call : ~sockOpen[k] /\ ~tee[k]
      BY <1>1, CallsAssumption DEF Init
    <2>2. stage = [k \in Call |-> "idle"]
      BY <2>1 DEF stage
    <2>3. taken = [k \in Call |-> FALSE]
      BY <2>1 DEF taken
    <2>4. told = [k \in Call |-> FALSE]
      BY <2>1 DEF told
    <2>5. holds = [k \in Call |-> {}]
      BY <2>1 DEF holds
    <2> QED
      BY <2>2, <2>3, <2>4, <2>5 DEF Life!LifeInit
  <1>2. ASSUME IInv, IInv', [Next]_vars PROVE Life!LifeNext
    <2>1. \A k \in Call : Moves(k)
      BY <1>2, RunStep, MovesFromRun
    <2> QED
      BY <1>2, <2>1, LifeType DEF Life!LifeNext, Moves, IInv
  <1> QED
    BY <1>1, <1>2, Invariance, PTL DEF Spec, ImplementsCapture, Life!LifeSpec

=============================================================================
