---------------------------- MODULE TasksProofs ----------------------------
(***************************************************************************)
(* Proofs about Tasks, and about ProfileTask, which composes it with the   *)
(* runs of ProfileClients, for any number of tasks, requests and answers.  *)
(*                                                                         *)
(* The inductive invariant ties the record to the body task: where the     *)
(* body is says which fields of the record it has written.                 *)
(*                                                                         *)
(* The facts about Tasks use its own assumption only; EveryTaskOwns, which *)
(* ProfileTask makes of its tasks, is cited in the last section alone.     *)
(***************************************************************************)
EXTENDS ProfileTask, TLAPS

\* Where the body is determines the record's status, outcome and teardown.
CoupledAt(t) ==
    /\ body[t] = "unborn" <=> status[t] = "fresh"
    /\ body[t] = "done" <=> Terminal(t)
    /\ body[t] = "unborn" => t \notin held
    /\ body[t] \notin {"unborn", "done"} => t \in held
    /\ body[t] = "work" => status[t] = "working"
    /\ body[t] \in {"unborn", "work", "parked"} =>
         outcome[t] = "none" /\ teardown[t] = "none"
    /\ body[t] \in {"teardown", "done"} => outcome[t] \in Ends
    /\ body[t] = "teardown" => t \in Owning
    /\ body[t] \in {"teardown", "done"} /\ t \in Owning => teardown[t] # "none"
    /\ body[t] # "done" => result[t] = NoResult
    /\ body[t] = "done" =>
         status[t] = outcome[t] /\ result[t] = ResultOf(t, outcome[t])

\* A cancel request reaches the body and stays until the body takes it.
CancelAt(t) ==
    /\ workCancelled[t] = cancelRequested[t]
    /\ cancelPending[t] => cancelRequested[t]
    /\ cancelRequested[t] => body[t] # "unborn"
    /\ cancelRequested[t] /\ body[t] \in {"work", "parked"} => cancelPending[t]
    /\ outcome[t] = "cancelled" => cancelRequested[t]
    /\ body[t] = "done" /\ teardown[t] = "running" => cancelRequested[t]

\* The question on the record is the one the body is parked on.
QuestionAt(t) ==
    /\ body[t] = "unborn" => got[t] = "none" /\ accepted[t] = "none"
    /\ future[t] = "cancelled" => timedOut[t]
    /\ status[t] = "input_required" => future[t] \notin Answers
    /\ status[t] = "input_required" /\ ~cancelRequested[t] =>
         /\ body[t] = "parked"
         /\ answer[t] /\ inputRequests[t]
         /\ future[t] = "pending" \/ timedOut[t]
    /\ body[t] = "parked" =>
         /\ future[t] \in Answers => accepted[t] = future[t]
         /\ accepted[t] \in Answers =>
              future[t] = accepted[t] \/ timedOut[t] \/ cancelPending[t]
    /\ body[t] = "work" =>
         /\ got[t] \in Answers => got[t] = accepted[t]
         /\ accepted[t] \in Answers => got[t] = accepted[t] \/ timedOut[t]

Coupled == \A t \in Task : CoupledAt(t)

CancelTracked ==
    /\ \A t \in Task : CancelAt(t)
    /\ \A r \in Request : \A t \in Task : waiting[r] = t => cancelRequested[t]

QuestionTracked == \A t \in Task : QuestionAt(t)

IInv == TypeOK /\ Coupled /\ CancelTracked /\ QuestionTracked

-----------------------------------------------------------------------------
(* Type correctness.                                                       *)

LEMMA ResultOfType ==
    ASSUME NEW t \in Task, NEW e \in Ends
    PROVE  ResultOf(t, e) \in Results \cup {NoResult}
  BY DEF ResultOf, Ends, Results

LEMMA TypeInit == Init => TypeOK
  BY DEF Init, TypeOK, Ends, Live, Results

LEMMA FinishType ==
    ASSUME TypeOK, NEW t \in Task, NEW s \in Ends,
           NEW r \in Results \cup {NoResult}, Finish(t, s, r)
    PROVE  /\ status' \in [Task -> {"fresh"} \cup Live \cup Ends]
           /\ result' \in [Task -> Results \cup {NoResult}]
  BY DEF Finish, TypeOK

LEMMA TakeAnswerType ==
    ASSUME TypeOK, NEW t \in Task, NEW a \in Answers \cup {"null"}, TakeAnswer(t, a)
    PROVE  /\ status' \in [Task -> {"fresh"} \cup Live \cup Ends]
           /\ answer' \in [Task -> BOOLEAN]
           /\ inputRequests' \in [Task -> BOOLEAN]
           /\ future' \in [Task -> Answers \cup {"none", "pending", "null", "cancelled"}]
  <1>1. CASE status[t] = "input_required"
    <2> DEFINE F == IF answer[t] /\ future[t] = "pending" THEN a ELSE future[t]
    <2>1. future' = [future EXCEPT ![t] = F]
      BY <1>1 DEF TakeAnswer
    <2>2. F \in Answers \cup {"none", "pending", "null", "cancelled"}
      BY DEF TypeOK
    <2> HIDE DEF F
    <2>3. future' \in [Task -> Answers \cup {"none", "pending", "null", "cancelled"}]
      BY <2>1, <2>2 DEF TypeOK
    <2>4. status' \in [Task -> {"fresh"} \cup Live \cup Ends]
      BY <1>1 DEF TakeAnswer, TypeOK, Live
    <2>5. answer' \in [Task -> BOOLEAN]
      <3>1. answer' = [answer EXCEPT ![t] = FALSE] /\ answer \in [Task -> BOOLEAN]
        BY <1>1 DEF TakeAnswer, TypeOK
      <3> QED
        BY <3>1
    <2>6. inputRequests' \in [Task -> BOOLEAN]
      BY <1>1 DEF TakeAnswer, TypeOK
    <2> QED
      BY <2>3, <2>4, <2>5, <2>6
  <1>2. CASE status[t] # "input_required"
    BY <1>2 DEF TakeAnswer, TypeOK
  <1> QED
    BY <1>1, <1>2

\* outcome of a body in teardown is an end, so what Publish writes has a type;
\* a future the timer cancelled is never read, so what _ask returns has one.
LEMMA TypeStep == TypeOK /\ Coupled /\ QuestionTracked /\ [Next]_vars => TypeOK'
  <1> SUFFICES ASSUME TypeOK, Coupled, QuestionTracked, [Next]_vars PROVE TypeOK'
    OBVIOUS
  <1> USE DEF TypeOK, Ends, Live, Results, storeVars, askVars, bodyVars
  <1>1. ASSUME Tick PROVE TypeOK'
    BY <1>1 DEF Tick
  <1>2. ASSUME Get PROVE TypeOK'
    BY <1>2 DEF Get, Kept
  <1>3. ASSUME NEW t \in Task, Create(t)
        PROVE  TypeOK'
    BY <1>3 DEF Create, Kept
  <1>4. ASSUME NEW t \in Task, NEW a \in Answers \cup {"null"}, Update(t, a)
        PROVE  TypeOK'
    BY <1>4, TakeAnswerType DEF Update, Kept
  <1>5. ASSUME NEW r \in Request, NEW t \in Task, Cancel(r, t)
        PROVE  TypeOK'
    BY <1>5 DEF Cancel, Kept
  <1>6. ASSUME NEW r \in Request, Abandon(r)
        PROVE  TypeOK'
    BY <1>6 DEF Abandon
  <1>7. ASSUME NEW r \in Request, CancelReturns(r)
        PROVE  TypeOK'
    BY <1>7 DEF CancelReturns, Finish
  <1>8. ASSUME NEW t \in Task, Park(t)
        PROVE  TypeOK'
    BY <1>8 DEF Park
  <1>9. ASSUME NEW t \in Task, TimerFires(t)
        PROVE  TypeOK'
    BY <1>9 DEF TimerFires
  <1>10. ASSUME NEW t \in Task, Resume(t)
        PROVE  TypeOK'
    <2>1. /\ status' \in [Task -> {"fresh"} \cup Live \cup Ends]
          /\ answer' \in [Task -> BOOLEAN]
          /\ inputRequests' \in [Task -> BOOLEAN]
          /\ future' \in [Task -> Answers \cup {"none", "pending", "null", "cancelled"}]
      <3>1. CASE timedOut[t]
        BY <1>10, <3>1, TakeAnswerType DEF Resume
      <3>2. CASE ~timedOut[t]
        BY <1>10, <3>2 DEF Resume
      <3> QED
        BY <3>1, <3>2
    <2>2. got' \in [Task -> Answers \cup {"none", "null"}]
      <3>1. CASE timedOut[t]
        BY <1>10, <3>1 DEF Resume
      <3>2. CASE ~timedOut[t]
        <4>1. future[t] \in Answers \cup {"none", "null"}
          BY <1>10, <3>2 DEF Resume, QuestionTracked, QuestionAt
        <4>2. got' = [got EXCEPT ![t] = future[t]]
          BY <1>10, <3>2 DEF Resume
        <4> QED
          BY <4>1, <4>2
      <3> QED
        BY <3>1, <3>2
    <2>3. /\ body' \in [Task -> {"unborn", "work", "parked", "teardown", "done"}]
          /\ UNCHANGED <<now, held, result, created, cancelRequested,
                         workCancelled, accepted, timedOut, cancelPending,
                         outcome, teardown, waiting>>
      BY <1>10 DEF Resume
    <2> QED
      BY <2>1, <2>2, <2>3
  <1>11. ASSUME NEW t \in Task, NEW e \in Ends, WorkEnds(t, e)
        PROVE  TypeOK'
    <2>1. /\ status' \in [Task -> {"fresh"} \cup Live \cup Ends]
          /\ result' \in [Task -> Results \cup {NoResult}]
          /\ body' \in [Task -> {"unborn", "work", "parked", "teardown", "done"}]
          /\ teardown' \in [Task -> {"none", "running", "ok", "raised"}]
      <3>1. CASE t \in Owning
        BY <1>11, <3>1 DEF WorkEnds
      <3>2. CASE t \notin Owning
        BY <1>11, <3>2, FinishType, ResultOfType DEF WorkEnds
      <3> QED
        BY <3>1, <3>2
    <2>2. /\ outcome' \in [Task -> Ends \cup {"none"}]
          /\ cancelPending' \in [Task -> BOOLEAN]
          /\ UNCHANGED <<now, held, created, cancelRequested, workCancelled,
                         inputRequests, answer, askVars, waiting>>
      BY <1>11 DEF WorkEnds
    <2> QED
      BY <2>1, <2>2
  <1>12. ASSUME NEW t \in Task, TeardownEnds(t)
        PROVE  TypeOK'
    BY <1>12 DEF TeardownEnds
  <1>13. ASSUME NEW t \in Task, Publish(t)
        PROVE  TypeOK'
    BY <1>13, ResultOfType DEF Publish, Finish, Coupled, CoupledAt
  <1>14. ASSUME UNCHANGED vars PROVE TypeOK'
    BY <1>14 DEF vars
  <1> QED
    BY <1>1, <1>2, <1>3, <1>4, <1>5, <1>6, <1>7, <1>8, <1>9, <1>10, <1>11, <1>12, <1>13, <1>14 DEF Next, RequestNext, BodyNext

-----------------------------------------------------------------------------
(* Each part of the invariant is kept by every action.                     *)

LEMMA CoupledStep ==
    ASSUME IInv, [Next]_vars, NEW u \in Task
    PROVE  CoupledAt(u)'
  <1>0. TypeOK /\ CoupledAt(u) /\ CancelAt(u) /\ QuestionAt(u)
    BY DEF IInv, Coupled, CancelTracked, QuestionTracked
  <1> USE <1>0 DEF TypeOK, CoupledAt, CancelAt, QuestionAt, Terminal, Ends, Live,
                   Results, storeVars, askVars, bodyVars
  <1>1. ASSUME Tick PROVE CoupledAt(u)'
    BY <1>1 DEF Tick
  <1>2. ASSUME Get PROVE CoupledAt(u)'
    BY <1>2 DEF Get, Kept, Expired
  <1>3. ASSUME NEW t \in Task, Create(t)
        PROVE  CoupledAt(u)'
    BY <1>3 DEF Create, Kept, Expired
  <1>4. ASSUME NEW t \in Task, NEW a \in Answers \cup {"null"}, Update(t, a)
        PROVE  CoupledAt(u)'
    BY <1>4 DEF Update, TakeAnswer, Kept, Expired
  <1>5. ASSUME NEW r \in Request, NEW t \in Task, Cancel(r, t)
        PROVE  CoupledAt(u)'
    BY <1>5 DEF Cancel, Kept, Expired
  <1>6. ASSUME NEW r \in Request, Abandon(r)
        PROVE  CoupledAt(u)'
    BY <1>6 DEF Abandon
  <1>7. ASSUME NEW r \in Request, CancelReturns(r)
        PROVE  CoupledAt(u)'
    BY <1>7 DEF CancelReturns, Finish
  <1>8. ASSUME NEW t \in Task, Park(t)
        PROVE  CoupledAt(u)'
    BY <1>8 DEF Park
  <1>9. ASSUME NEW t \in Task, TimerFires(t)
        PROVE  CoupledAt(u)'
    BY <1>9 DEF TimerFires
  <1>10. ASSUME NEW t \in Task, Resume(t)
        PROVE  CoupledAt(u)'
    <2>1. CASE timedOut[t]
      BY <1>10, <2>1 DEF Resume, TakeAnswer
    <2>2. CASE ~(timedOut[t])
      BY <1>10, <2>2 DEF Resume, TakeAnswer
    <2> QED
      BY <2>1, <2>2
  <1>11. ASSUME NEW t \in Task, NEW e \in Ends, WorkEnds(t, e)
        PROVE  CoupledAt(u)'
    <2>1. CASE t \in Owning
      BY <1>11, <2>1 DEF WorkEnds, Finish
    <2>2. CASE ~(t \in Owning)
      BY <1>11, <2>2 DEF WorkEnds, Finish
    <2> QED
      BY <2>1, <2>2
  <1>12. ASSUME NEW t \in Task, TeardownEnds(t)
        PROVE  CoupledAt(u)'
    BY <1>12 DEF TeardownEnds
  <1>13. ASSUME NEW t \in Task, Publish(t)
        PROVE  CoupledAt(u)'
    BY <1>13 DEF Publish, Finish
  <1>14. ASSUME UNCHANGED vars PROVE CoupledAt(u)'
    BY <1>14 DEF vars
  <1> QED
    BY <1>1, <1>2, <1>3, <1>4, <1>5, <1>6, <1>7,
       <1>8, <1>9, <1>10, <1>11, <1>12, <1>13, <1>14 DEF Next, RequestNext, BodyNext

LEMMA CancelStep ==
    ASSUME IInv, [Next]_vars, NEW u \in Task
    PROVE  CancelAt(u)'
  <1>0. TypeOK /\ CoupledAt(u) /\ CancelAt(u) /\ QuestionAt(u)
    BY DEF IInv, Coupled, CancelTracked, QuestionTracked
  <1> USE <1>0 DEF TypeOK, CoupledAt, CancelAt, QuestionAt, Terminal, Ends, Live,
                   Results, storeVars, askVars, bodyVars
  <1>1. ASSUME Tick PROVE CancelAt(u)'
    BY <1>1 DEF Tick
  <1>2. ASSUME Get PROVE CancelAt(u)'
    BY <1>2 DEF Get, Kept, Expired
  <1>3. ASSUME NEW t \in Task, Create(t)
        PROVE  CancelAt(u)'
    BY <1>3 DEF Create, Kept, Expired
  <1>4. ASSUME NEW t \in Task, NEW a \in Answers \cup {"null"}, Update(t, a)
        PROVE  CancelAt(u)'
    BY <1>4 DEF Update, TakeAnswer, Kept, Expired
  <1>5. ASSUME NEW r \in Request, NEW t \in Task, Cancel(r, t)
        PROVE  CancelAt(u)'
    <2>1. CASE t # u
      <3>1. UNCHANGED <<cancelRequested[u], workCancelled[u], cancelPending[u],
                        body[u], outcome[u], teardown[u]>>
        BY <1>5, <2>1 DEF Cancel
      <3> QED
        BY <3>1
    <2>2. CASE t = u
      <3>1. /\ cancelRequested'[u] /\ workCancelled'[u]
            /\ body[u] # "unborn"
            /\ UNCHANGED <<body[u], outcome[u], teardown[u]>>
        BY <1>5, <2>2 DEF Cancel, Kept, Expired
      <3>2. body[u] \in {"work", "parked"} => cancelPending'[u]
        BY <1>5, <2>2 DEF Cancel
      <3> QED
        BY <3>1, <3>2
    <2> QED
      BY <2>1, <2>2
  <1>6. ASSUME NEW r \in Request, Abandon(r)
        PROVE  CancelAt(u)'
    <2>1. waiting[r] = u => cancelRequested[u]
      BY DEF IInv, CancelTracked
    <2> QED
      BY <1>6, <2>1 DEF Abandon
  <1>7. ASSUME NEW r \in Request, CancelReturns(r)
        PROVE  CancelAt(u)'
    BY <1>7 DEF CancelReturns, Finish
  <1>8. ASSUME NEW t \in Task, Park(t)
        PROVE  CancelAt(u)'
    BY <1>8 DEF Park
  <1>9. ASSUME NEW t \in Task, TimerFires(t)
        PROVE  CancelAt(u)'
    BY <1>9 DEF TimerFires
  <1>10. ASSUME NEW t \in Task, Resume(t)
        PROVE  CancelAt(u)'
    <2>1. CASE timedOut[t]
      BY <1>10, <2>1 DEF Resume, TakeAnswer
    <2>2. CASE ~(timedOut[t])
      BY <1>10, <2>2 DEF Resume, TakeAnswer
    <2> QED
      BY <2>1, <2>2
  <1>11. ASSUME NEW t \in Task, NEW e \in Ends, WorkEnds(t, e)
        PROVE  CancelAt(u)'
    <2>1. CASE t \in Owning
      BY <1>11, <2>1 DEF WorkEnds, Finish
    <2>2. CASE ~(t \in Owning)
      BY <1>11, <2>2 DEF WorkEnds, Finish
    <2> QED
      BY <2>1, <2>2
  <1>12. ASSUME NEW t \in Task, TeardownEnds(t)
        PROVE  CancelAt(u)'
    BY <1>12 DEF TeardownEnds
  <1>13. ASSUME NEW t \in Task, Publish(t)
        PROVE  CancelAt(u)'
    BY <1>13 DEF Publish, Finish
  <1>14. ASSUME UNCHANGED vars PROVE CancelAt(u)'
    BY <1>14 DEF vars
  <1> QED
    BY <1>1, <1>2, <1>3, <1>4, <1>5, <1>6, <1>7,
       <1>8, <1>9, <1>10, <1>11, <1>12, <1>13, <1>14 DEF Next, RequestNext, BodyNext

LEMMA QuestionStep ==
    ASSUME IInv, [Next]_vars, NEW u \in Task
    PROVE  QuestionAt(u)'
  <1>0. TypeOK /\ CoupledAt(u) /\ CancelAt(u) /\ QuestionAt(u)
    BY DEF IInv, Coupled, CancelTracked, QuestionTracked
  <1> USE TasksAssumption, <1>0 DEF TypeOK, CoupledAt, CancelAt, QuestionAt, Terminal, Ends, Live,
                   Results, storeVars, askVars, bodyVars
  <1>1. ASSUME Tick PROVE QuestionAt(u)'
    BY <1>1 DEF Tick
  <1>2. ASSUME Get PROVE QuestionAt(u)'
    BY <1>2 DEF Get, Kept, Expired
  <1>3. ASSUME NEW t \in Task, Create(t)
        PROVE  QuestionAt(u)'
    BY <1>3 DEF Create, Kept, Expired
  <1>4. ASSUME NEW t \in Task, NEW a \in Answers \cup {"null"}, Update(t, a)
        PROVE  QuestionAt(u)'
    BY <1>4 DEF Update, TakeAnswer, Kept, Expired
  <1>5. ASSUME NEW r \in Request, NEW t \in Task, Cancel(r, t)
        PROVE  QuestionAt(u)'
    BY <1>5 DEF Cancel, Kept, Expired
  <1>6. ASSUME NEW r \in Request, Abandon(r)
        PROVE  QuestionAt(u)'
    BY <1>6 DEF Abandon
  <1>7. ASSUME NEW r \in Request, CancelReturns(r)
        PROVE  QuestionAt(u)'
    BY <1>7 DEF CancelReturns, Finish
  <1>8. ASSUME NEW t \in Task, Park(t)
        PROVE  QuestionAt(u)'
    BY <1>8 DEF Park
  <1>9. ASSUME NEW t \in Task, TimerFires(t)
        PROVE  QuestionAt(u)'
    BY <1>9 DEF TimerFires
  <1>10. ASSUME NEW t \in Task, Resume(t)
        PROVE  QuestionAt(u)'
    <2>1. CASE timedOut[t]
      BY <1>10, <2>1 DEF Resume, TakeAnswer
    <2>2. CASE ~(timedOut[t])
      BY <1>10, <2>2 DEF Resume, TakeAnswer
    <2> QED
      BY <2>1, <2>2
  <1>11. ASSUME NEW t \in Task, NEW e \in Ends, WorkEnds(t, e)
        PROVE  QuestionAt(u)'
    <2>1. CASE t \in Owning
      BY <1>11, <2>1 DEF WorkEnds, Finish
    <2>2. CASE ~(t \in Owning)
      BY <1>11, <2>2 DEF WorkEnds, Finish
    <2> QED
      BY <2>1, <2>2
  <1>12. ASSUME NEW t \in Task, TeardownEnds(t)
        PROVE  QuestionAt(u)'
    BY <1>12 DEF TeardownEnds
  <1>13. ASSUME NEW t \in Task, Publish(t)
        PROVE  QuestionAt(u)'
    BY <1>13 DEF Publish, Finish
  <1>14. ASSUME UNCHANGED vars PROVE QuestionAt(u)'
    BY <1>14 DEF vars
  <1> HIDE <1>0 DEF TypeOK, CoupledAt, CancelAt, QuestionAt, storeVars, askVars, bodyVars
  <1> QED
    BY <1>1, <1>2, <1>3, <1>4, <1>5, <1>6, <1>7,
       <1>8, <1>9, <1>10, <1>11, <1>12, <1>13, <1>14 DEF Next, RequestNext, BodyNext

\* A waiting request has asked for the cancel of the task it waits for.
LEMMA WaitingStep ==
    ASSUME IInv, [Next]_vars, NEW q \in Request, NEW u \in Task, waiting'[q] = u
    PROVE  cancelRequested'[u]
  <1>0. TypeOK /\ (waiting[q] = u => cancelRequested[u])
    BY DEF IInv, CancelTracked
  <1> USE <1>0 DEF TypeOK, storeVars, askVars, bodyVars
  <1>1. ASSUME NEW r \in Request, NEW t \in Task, Cancel(r, t)
        PROVE  cancelRequested'[u]
    BY <1>1 DEF Cancel
  <1>2. ASSUME NEW r \in Request, CancelReturns(r)
        PROVE  cancelRequested'[u]
    BY <1>2, TasksAssumption DEF CancelReturns
  <1>3. ASSUME UNCHANGED <<waiting, cancelRequested>>
        PROVE  cancelRequested'[u]
    BY <1>3
  <1> QED
    BY <1>1, <1>2, <1>3
    DEF Next, RequestNext, BodyNext, vars, Tick, Get, Create, Update, Abandon,
        Park, TimerFires, Resume, WorkEnds, TeardownEnds, Publish

LEMMA InvInit == Init => IInv
  <1> SUFFICES ASSUME Init PROVE IInv
    OBVIOUS
  <1>1. TypeOK
    BY TypeInit
  <1>2. Coupled
    BY DEF Init, Coupled, CoupledAt, Terminal, Ends
  <1>3. CancelTracked
    BY TasksAssumption DEF Init, CancelTracked, CancelAt
  <1>4. QuestionTracked
    BY TasksAssumption DEF Init, QuestionTracked, QuestionAt
  <1> QED
    BY <1>1, <1>2, <1>3, <1>4 DEF IInv

LEMMA InvStep == IInv /\ [Next]_vars => IInv'
  <1> SUFFICES ASSUME IInv, [Next]_vars PROVE IInv'
    OBVIOUS
  <1>1. TypeOK'
    BY TypeStep DEF IInv
  <1>2. Coupled'
    BY CoupledStep DEF Coupled
  <1>3. CancelTracked'
    BY CancelStep, WaitingStep DEF CancelTracked
  <1>4. QuestionTracked'
    BY QuestionStep DEF QuestionTracked
  <1> QED
    BY <1>1, <1>2, <1>3, <1>4 DEF IInv

\* The inductive invariant holds in every reachable state.
THEOREM Invariance == Spec => []IInv
  BY InvInit, InvStep, PTL DEF Spec

-----------------------------------------------------------------------------
(* What it implies.                                                        *)

\* Every variable of the store, the futures and the bodies keeps its type.
THEOREM TypeCorrect == Spec => []TypeOK
  <1>1. IInv => TypeOK
    BY DEF IInv
  <1> QED
    BY <1>1, Invariance, PTL

\* The published outcome is the one the work ended with, whoever raced it.
THEOREM OutcomeCorrect == Spec => []OutcomeIsTheWorks
  <1>1. IInv => OutcomeIsTheWorks
    BY DEF IInv, Coupled, CoupledAt, CancelTracked, CancelAt, OutcomeIsTheWorks
  <1> QED
    BY <1>1, Invariance, PTL

\* A pending question always has a work waiting for its answer.
THEOREM QuestionCorrect == Spec => []QuestionHasWaiter
  <1>1. IInv => QuestionHasWaiter
    BY DEF IInv, QuestionTracked, QuestionAt, QuestionHasWaiter
  <1> QED
    BY <1>1, Invariance, PTL

\* The work hears no answer that was not given to its question.
THEOREM AnswerCorrect == Spec => []AnswerFidelity
  <1>1. IInv => AnswerFidelity
    BY DEF IInv, QuestionTracked, QuestionAt, AnswerFidelity
  <1> QED
    BY <1>1, Invariance, PTL

\* No outcome is published before the teardown has started.
THEOREM TeardownCorrect == Spec => []TeardownNeverSkipped
  <1>1. IInv => TeardownNeverSkipped
    BY TasksAssumption
    DEF IInv, Coupled, CoupledAt, CancelTracked, CancelAt, TeardownNeverSkipped
  <1> QED
    BY <1>1, Invariance, PTL

\* No action takes a cancelled work on: with the cancel pending it can only be
\* cut short.
LEMMA CutStep ==
    ASSUME IInv, [Next]_vars, NEW u \in Task,
           cancelRequested[u], outcome[u] = "none"
    PROVE  /\ outcome'[u] # "completed"
           /\ status'[u] = "input_required" => status[u] = "input_required"
  <1>0. TypeOK /\ CoupledAt(u) /\ CancelAt(u)
    BY DEF IInv, Coupled, CancelTracked
  <1>1. body[u] \in {"work", "parked"} /\ cancelPending[u]
    BY <1>0 DEF TypeOK, CoupledAt, CancelAt, Ends
  <1> DEFINE Goal == /\ outcome'[u] # "completed"
                     /\ status'[u] = "input_required" => status[u] = "input_required"
  <1>2. ASSUME UNCHANGED <<outcome, status>> PROVE Goal
    BY <1>2
  <1>3. ASSUME NEW t \in Task, Create(t) PROVE Goal
    BY <1>0, <1>3 DEF Create, TypeOK, bodyVars
  <1>4. ASSUME NEW t \in Task, NEW a \in Answers \cup {"null"}, Update(t, a)
        PROVE  Goal
    BY <1>0, <1>4 DEF Update, TakeAnswer, TypeOK, bodyVars
  <1>5. ASSUME NEW r \in Request, CancelReturns(r) PROVE Goal
    BY <1>0, <1>5 DEF CancelReturns, Finish, TypeOK, Ends, bodyVars
  <1>6. ASSUME NEW t \in Task, Park(t) PROVE Goal
    BY <1>0, <1>1, <1>6 DEF Park, TypeOK
  <1>7. ASSUME NEW t \in Task, Resume(t) PROVE Goal
    BY <1>0, <1>1, <1>7 DEF Resume, TakeAnswer, TypeOK
  <1>8. ASSUME NEW t \in Task, NEW e \in Ends, WorkEnds(t, e) PROVE Goal
    <2>1. outcome'[u] # "completed"
      BY <1>0, <1>1, <1>8 DEF WorkEnds, TypeOK
    <2>2. CASE t \in Owning
      BY <1>8, <2>1, <2>2 DEF WorkEnds
    <2>3. CASE t \notin Owning
      BY <1>0, <1>8, <2>1, <2>3 DEF WorkEnds, Finish, TypeOK, Ends
    <2> QED
      BY <2>2, <2>3
  <1>9. ASSUME NEW t \in Task, Publish(t) PROVE Goal
    BY <1>0, <1>1, <1>9 DEF Publish, Finish, TypeOK, CoupledAt, Ends
  <1> HIDE DEF Goal
  <1>10. Goal
    BY <1>2, <1>3, <1>4, <1>5, <1>6, <1>7, <1>8, <1>9
    DEF Next, RequestNext, BodyNext, vars, Tick, Get, Cancel, Abandon,
        TimerFires, TeardownEnds, storeVars, askVars, bodyVars
  <1> QED
    BY <1>10 DEF Goal

\* A cancel that finds the work unfinished cuts it short.
THEOREM CancelCorrect == Spec => CancelCutsTheWork
  <1>1. ASSUME IInv, [Next]_vars
        PROVE  [\A t \in Task : cancelRequested[t] /\ outcome[t] = "none" =>
                  /\ outcome'[t] # "completed"
                  /\ status'[t] = "input_required" => status[t] = "input_required"]_vars
    BY <1>1, CutStep
  <1> QED
    BY <1>1, Invariance, PTL DEF Spec, CancelCutsTheWork

-----------------------------------------------------------------------------
(* Refinement: per task, every step is a lifecycle move or none.           *)

Moves(u) == \/ Lifecycle!Stays(u)
            \/ Lifecycle!Advances(u)
            \/ Lifecycle!Finishes(u)
            \/ Lifecycle!Expires(u)

LEMMA PhaseAt ==
    ASSUME TypeOK, TypeOK', NEW u \in Task
    PROVE  /\ phase[u] = IF status[u] # "fresh" /\ u \notin held
                         THEN "expired" ELSE status[u]
           /\ phase'[u] = IF status'[u] # "fresh" /\ u \notin held'
                          THEN "expired" ELSE status'[u]
  BY DEF phase

\* What a step may do to one record: leave it, advance it, or finish it.
RecordMoves(u) ==
    \/ status'[u] = status[u] /\ result'[u] = result[u]
    \/ /\ <<status[u], status'[u]>> \in {<<"fresh", "working">>,
                                         <<"working", "input_required">>,
                                         <<"input_required", "working">>}
       /\ result'[u] = result[u]
    \/ /\ status[u] \in Live
       /\ status'[u] \in Ends
       /\ status'[u] # "cancelled" => result'[u] # NoResult

\* What a step may do to the store: keep it, or drop expired records.
StoreMoves(u) ==
    /\ u \in held /\ u \notin held' => Terminal(u) /\ UNCHANGED <<status[u], result[u]>>
    /\ u \notin held /\ u \in held' => status[u] = "fresh" /\ status'[u] = "working"
    /\ status[u] = "fresh" /\ status'[u] # "fresh" => u \in held'

LEMMA MovesFromRecord ==
    ASSUME IInv, IInv', NEW u \in Task, RecordMoves(u), StoreMoves(u)
    PROVE  Moves(u)
  <1>0. TypeOK /\ TypeOK' /\ CoupledAt(u) /\ CoupledAt(u)'
    BY DEF IInv, Coupled
  <1>1. /\ phase[u] = IF status[u] # "fresh" /\ u \notin held
                      THEN "expired" ELSE status[u]
        /\ phase'[u] = IF status'[u] # "fresh" /\ u \notin held'
                       THEN "expired" ELSE status'[u]
    BY <1>0, PhaseAt
  <1> USE DEF Moves, Lifecycle!Stays, Lifecycle!Advances, Lifecycle!Finishes,
              Lifecycle!Expires, Lifecycle!Ends, Lifecycle!Live, Ends, Live
  <1>2. CASE u \in held /\ u \notin held'
    BY <1>0, <1>1, <1>2 DEF StoreMoves, CoupledAt, Terminal
  <1>3. CASE u \notin held /\ u \in held'
    BY <1>0, <1>1, <1>3 DEF StoreMoves, RecordMoves
  <1>4. CASE u \notin held /\ u \notin held'
    <2>1. CASE status[u] = "fresh"
      BY <1>0, <1>1, <1>4, <2>1 DEF StoreMoves, RecordMoves, CoupledAt
    <2>2. CASE status[u] # "fresh"
      BY <1>0, <1>1, <1>4, <2>2 DEF StoreMoves, RecordMoves, CoupledAt, Terminal
    <2> QED
      BY <2>1, <2>2
  <1>5. CASE u \in held /\ u \in held'
    BY <1>0, <1>1, <1>5 DEF StoreMoves, RecordMoves, TypeOK, CoupledAt
  <1> QED
    BY <1>2, <1>3, <1>4, <1>5

LEMMA RecordStep ==
    ASSUME IInv, [Next]_vars, NEW u \in Task
    PROVE  RecordMoves(u)
  <1>0. TypeOK /\ CoupledAt(u) /\ CancelAt(u)
    BY DEF IInv, Coupled, CancelTracked
  <1> USE TasksAssumption, <1>0 DEF TypeOK, CoupledAt, CancelAt, RecordMoves, Terminal, Ends, Live,
                   Results, storeVars, askVars, bodyVars
  <1>1. ASSUME Tick PROVE RecordMoves(u)
    BY <1>1 DEF Tick
  <1>2. ASSUME Get PROVE RecordMoves(u)
    BY <1>2 DEF Get, Kept, Expired
  <1>3. ASSUME NEW t \in Task, Create(t)
        PROVE  RecordMoves(u)
    BY <1>3 DEF Create, Kept, Expired
  <1>4. ASSUME NEW t \in Task, NEW a \in Answers \cup {"null"}, Update(t, a)
        PROVE  RecordMoves(u)
    BY <1>4 DEF Update, TakeAnswer, Kept, Expired
  <1>5. ASSUME NEW r \in Request, NEW t \in Task, Cancel(r, t)
        PROVE  RecordMoves(u)
    BY <1>5 DEF Cancel, Kept, Expired
  <1>6. ASSUME NEW r \in Request, Abandon(r)
        PROVE  RecordMoves(u)
    BY <1>6 DEF Abandon
  <1>7. ASSUME NEW r \in Request, CancelReturns(r)
        PROVE  RecordMoves(u)
    BY <1>7 DEF CancelReturns, Finish, ResultOf
  <1>8. ASSUME NEW t \in Task, Park(t)
        PROVE  RecordMoves(u)
    BY <1>8 DEF Park
  <1>9. ASSUME NEW t \in Task, TimerFires(t)
        PROVE  RecordMoves(u)
    BY <1>9 DEF TimerFires
  <1>10. ASSUME NEW t \in Task, Resume(t)
        PROVE  RecordMoves(u)
    <2>1. CASE timedOut[t]
      BY <1>10, <2>1 DEF Resume, TakeAnswer
    <2>2. CASE ~(timedOut[t])
      BY <1>10, <2>2 DEF Resume, TakeAnswer
    <2> QED
      BY <2>1, <2>2
  <1>11. ASSUME NEW t \in Task, NEW e \in Ends, WorkEnds(t, e)
        PROVE  RecordMoves(u)
    <2>1. CASE t \in Owning
      BY <1>11, <2>1 DEF WorkEnds, Finish, ResultOf
    <2>2. CASE ~(t \in Owning)
      BY <1>11, <2>2 DEF WorkEnds, Finish, ResultOf
    <2> QED
      BY <2>1, <2>2
  <1>12. ASSUME NEW t \in Task, TeardownEnds(t)
        PROVE  RecordMoves(u)
    BY <1>12 DEF TeardownEnds
  <1>13. ASSUME NEW t \in Task, Publish(t)
        PROVE  RecordMoves(u)
    BY <1>13 DEF Publish, Finish, ResultOf
  <1>14. ASSUME UNCHANGED vars PROVE RecordMoves(u)
    BY <1>14 DEF vars
  <1> QED
    BY <1>1, <1>2, <1>3, <1>4, <1>5, <1>6, <1>7,
       <1>8, <1>9, <1>10, <1>11, <1>12, <1>13, <1>14 DEF Next, RequestNext, BodyNext

LEMMA StoreStep ==
    ASSUME IInv, [Next]_vars, NEW u \in Task
    PROVE  StoreMoves(u)
  <1>0. TypeOK /\ CoupledAt(u) /\ CancelAt(u)
    BY DEF IInv, Coupled, CancelTracked
  <1> USE TasksAssumption, <1>0 DEF TypeOK, CoupledAt, CancelAt, StoreMoves, Terminal, Ends, Live,
                   Results, storeVars, askVars, bodyVars
  <1>1. ASSUME Tick PROVE StoreMoves(u)
    BY <1>1 DEF Tick
  <1>2. ASSUME Get PROVE StoreMoves(u)
    BY <1>2 DEF Get, Kept, Expired
  <1>3. ASSUME NEW t \in Task, Create(t)
        PROVE  StoreMoves(u)
    BY <1>3 DEF Create, Kept, Expired
  <1>4. ASSUME NEW t \in Task, NEW a \in Answers \cup {"null"}, Update(t, a)
        PROVE  StoreMoves(u)
    BY <1>4 DEF Update, TakeAnswer, Kept, Expired
  <1>5. ASSUME NEW r \in Request, NEW t \in Task, Cancel(r, t)
        PROVE  StoreMoves(u)
    BY <1>5 DEF Cancel, Kept, Expired
  <1>6. ASSUME NEW r \in Request, Abandon(r)
        PROVE  StoreMoves(u)
    BY <1>6 DEF Abandon
  <1>7. ASSUME NEW r \in Request, CancelReturns(r)
        PROVE  StoreMoves(u)
    BY <1>7 DEF CancelReturns, Finish, ResultOf
  <1>8. ASSUME NEW t \in Task, Park(t)
        PROVE  StoreMoves(u)
    BY <1>8 DEF Park
  <1>9. ASSUME NEW t \in Task, TimerFires(t)
        PROVE  StoreMoves(u)
    BY <1>9 DEF TimerFires
  <1>10. ASSUME NEW t \in Task, Resume(t)
        PROVE  StoreMoves(u)
    <2>1. CASE timedOut[t]
      BY <1>10, <2>1 DEF Resume, TakeAnswer
    <2>2. CASE ~(timedOut[t])
      BY <1>10, <2>2 DEF Resume, TakeAnswer
    <2> QED
      BY <2>1, <2>2
  <1>11. ASSUME NEW t \in Task, NEW e \in Ends, WorkEnds(t, e)
        PROVE  StoreMoves(u)
    <2>1. CASE t \in Owning
      BY <1>11, <2>1 DEF WorkEnds, Finish, ResultOf
    <2>2. CASE ~(t \in Owning)
      BY <1>11, <2>2 DEF WorkEnds, Finish, ResultOf
    <2> QED
      BY <2>1, <2>2
  <1>12. ASSUME NEW t \in Task, TeardownEnds(t)
        PROVE  StoreMoves(u)
    BY <1>12 DEF TeardownEnds
  <1>13. ASSUME NEW t \in Task, Publish(t)
        PROVE  StoreMoves(u)
    BY <1>13 DEF Publish, Finish, ResultOf
  <1>14. ASSUME UNCHANGED vars PROVE StoreMoves(u)
    BY <1>14 DEF vars
  <1> QED
    BY <1>1, <1>2, <1>3, <1>4, <1>5, <1>6, <1>7,
       <1>8, <1>9, <1>10, <1>11, <1>12, <1>13, <1>14 DEF Next, RequestNext, BodyNext

\* The store and its bodies implement the lifecycle a client relies on.
THEOREM Refinement == Spec => ImplementsLifecycle
  <1>1. Init => Lifecycle!LifeInit
    BY DEF Init, Lifecycle!LifeInit, phase
  <1>2. ASSUME IInv, IInv', [Next]_vars
        PROVE  [Lifecycle!LifeNext]_(Lifecycle!lifeVars)
    <2>1. \A u \in Task : Moves(u)
      BY <1>2, RecordStep, StoreStep, MovesFromRecord
    <2>2. phase' \in [Task -> Lifecycle!Phase]
      BY <1>2 DEF IInv, TypeOK, phase, Lifecycle!Phase, Lifecycle!Live,
                  Lifecycle!Ends, Live, Ends
    <2>3. result' \in [Task -> Results \cup {NoResult}]
      BY <1>2 DEF IInv, TypeOK
    <2> QED
      BY <2>1, <2>2, <2>3 DEF Moves, Lifecycle!LifeNext
  <1> QED
    BY <1>1, <1>2, Invariance, PTL DEF Spec, ImplementsLifecycle, Lifecycle!LifeSpec

-----------------------------------------------------------------------------
(* The composition implements both of its parts, so what was shown here of *)
(* the task store and in ProfileClientsProofs of a run holds of it.        *)

Session == INSTANCE ProfileClientsProofs WITH Run <- Task

\* A step of the composition is a step of the task store, or none.
LEMMA StoreSteps == [ProfileNext]_allVars => [Next]_vars
  <1> SUFFICES ASSUME [ProfileNext]_allVars PROVE [Next]_vars
    OBVIOUS
  <1>1. ASSUME Clients PROVE [Next]_vars
    BY <1>1 DEF Clients, Next, RequestNext
  <1>2. ASSUME Radio \/ UNCHANGED allVars PROVE [Next]_vars
    BY <1>2 DEF Radio, allVars
  <1>3. ASSUME NEW t \in Task, SessionNext(t) PROVE [Next]_vars
    <2>1. \/ Create(t) \/ Park(t) \/ Resume(t) \/ TimerFires(t) \/ TeardownEnds(t) \/ Publish(t)
          \/ (\E e \in Ends : WorkEnds(t, e)) \/ UNCHANGED vars
      BY <1>3 DEF SessionNext, Creates, Works, SendsStop, Asks, Resumes, Completes, Fails,
                  CutShort, TearsDown, Store, Ends
    <2> QED
      BY <2>1 DEF Next, RequestNext, BodyNext
  <1> QED
    BY <1>1, <1>2, <1>3 DEF ProfileNext

\* A step of the composition is a step of the profile_clients runs, or none.
LEMMA SessionSteps == [ProfileNext]_allVars => [Profile!Next]_(Profile!vars)
  <1> SUFFICES ASSUME [ProfileNext]_allVars PROVE [Profile!Next]_(Profile!vars)
    OBVIOUS
  <1> USE DEF Profile!vars, Profile!coreVars, Profile!runVars
  <1>1. ASSUME Clients \/ UNCHANGED allVars PROVE UNCHANGED Profile!vars
    BY <1>1 DEF Clients, Update, Cancel, Abandon, CancelReturns, sessionVars, allVars, vars,
                bodyVars
  <1>2. ASSUME Radio PROVE Profile!Next
    BY <1>2 DEF Radio, Profile!Next, Profile!RunNext
  <1>3. ASSUME NEW t \in Task, Store(t) PROVE UNCHANGED Profile!vars
    BY <1>3 DEF Store, TimerFires, Publish, bodyVars, sessionVars
  <1>4. ASSUME NEW t \in Task, SessionNext(t) PROVE Store(t) \/ Profile!RunNext(t)
    BY <1>4 DEF SessionNext, Creates, Works, SendsStop, Asks, Resumes, Completes, Fails,
                CutShort, TearsDown, Profile!RunNext
  <1> QED
    BY <1>1, <1>2, <1>3, <1>4 DEF ProfileNext, Profile!Next

\* The composition implements the task store.
THEOREM ImplementsTasks == ProfileSpec => Spec
  <1>1. ProfileInit => Init
    BY DEF ProfileInit
  <1> QED
    BY <1>1, StoreSteps, PTL DEF ProfileSpec, Spec

\* The composition implements the profile_clients runs.
THEOREM ImplementsProfileClients == ProfileSpec => Profile!Spec
  <1>1. ProfileInit => Profile!Init
    BY DEF ProfileInit
  <1> QED
    BY <1>1, SessionSteps, PTL DEF ProfileSpec, Profile!Spec

\* The proofs about ProfileClients are about its very steps.
LEMMA SameSteps == [Profile!Next]_(Profile!vars) <=> [Session!Next]_(Session!vars)
  BY
    DEF Profile!Next, Profile!vars, Profile!coreVars, Profile!runVars, Profile!CoreNext,
        Profile!RunNext, Profile!CoreStart, Profile!CoreStop, Profile!Lost,
        Profile!OtherStarts, Profile!OtherStops, Profile!Begins, Profile!StartReturns,
        Profile!DeadlinePasses, Profile!Polled, Profile!Counts, Profile!Wakes,
        Profile!Recounts, Profile!Confirmed, Profile!Declined, Profile!Stopper,
        Profile!Stops, Profile!StopReturns, Profile!Reports, Profile!CallFails,
        Profile!Cancelled, Profile!TeardownDone, Profile!Ends, Profile!Refusals,
        Profile!Looping, Profile!Phases, Session!Next, Session!vars, Session!coreVars,
        Session!runVars, Session!CoreNext, Session!RunNext, Session!CoreStart,
        Session!CoreStop, Session!Lost, Session!OtherStarts, Session!OtherStops,
        Session!Begins, Session!StartReturns, Session!DeadlinePasses, Session!Polled,
        Session!Counts, Session!Wakes, Session!Recounts, Session!Confirmed,
        Session!Declined, Session!Stopper, Session!Stops, Session!StopReturns,
        Session!Reports, Session!CallFails, Session!Cancelled, Session!TeardownDone,
        Session!Ends, Session!Refusals, Session!Looping, Session!Phases,
        Profile!TakenDown, Session!TakenDown

LEMMA SameInit == Profile!Init <=> Session!Init
  BY DEF Profile!Init, Session!Init, Profile!Phases, Session!Phases

LEMMA SessionInvariant == ProfileSpec => []Session!IInv
  <1>2. Session!Spec => []Session!IInv
    <2>1. Session!RunsAssumption
      BY SessionsAssumption DEF Session!RunsAssumption
    <2> QED
      BY <2>1, Session!Invariance
  <1> QED
    BY SameInit, SameSteps, <1>2, ImplementsProfileClients, PTL DEF Profile!Spec, Session!Spec

-----------------------------------------------------------------------------
(* What only the two together keep.                                        *)

\* A teardown that ended well left nothing to stop; a window is granted only
\* past the start.
LinkedAt(t) ==
    /\ teardown[t] = "ok" => pc[t] = "down" /\ (~owned[t] \/ stopped[t])
    /\ pc[t] \in {"idle", "starting"} => windows[t] = 0

Linked == \A t \in Task : LinkedAt(t)

LEMMA LinkedInit == ProfileInit => Linked
  BY DEF ProfileInit, Init, Profile!Init, Linked, LinkedAt

LEMMA LinkedStep ==
    ASSUME IInv, Session!IInv, Linked, [ProfileNext]_allVars, NEW u \in Task
    PROVE  LinkedAt(u)'
  <1>0. TypeOK /\ Session!TypeOK /\ LinkedAt(u)
    BY DEF IInv, Session!IInv, Linked
  <1> USE <1>0, EveryTaskOwns
      DEF TypeOK, Session!TypeOK, LinkedAt, storeVars, askVars, bodyVars, vars, sessionVars,
          Profile!coreVars, Profile!runVars
  <1>1. ASSUME Clients PROVE LinkedAt(u)'
    BY <1>1 DEF Clients, Update, Cancel, Abandon, CancelReturns
  <1>2. ASSUME Radio PROVE LinkedAt(u)'
    BY <1>2 DEF Radio, Profile!CoreNext, Profile!CoreStart, Profile!CoreStop, Profile!Lost,
                Profile!OtherStarts, Profile!OtherStops, Profile!DeadlinePasses
  <1>3. ASSUME NEW t \in Task, Creates(t) PROVE LinkedAt(u)'
    BY <1>3 DEF Creates, Create, Profile!Begins
  <1>4. ASSUME NEW t \in Task, Works(t) PROVE LinkedAt(u)'
    <2>1. CASE Profile!StartReturns(t)
      BY <1>4, <2>1 DEF Works, Profile!StartReturns, Profile!Ends
    <2>2. CASE Profile!Counts(t)
      BY <1>4, <2>2 DEF Works, Profile!Counts
    <2>3. CASE Profile!Wakes(t)
      BY <1>4, <2>3 DEF Works, Profile!Wakes
    <2>4. CASE Profile!Recounts(t)
      BY <1>4, <2>4 DEF Works, Profile!Recounts
    <2>5. CASE Profile!StopReturns(t)
      BY <1>4, <2>5 DEF Works, Profile!StopReturns
    <2> QED
      BY <1>4, <2>1, <2>2, <2>3, <2>4, <2>5 DEF Works
  <1>5. ASSUME NEW t \in Task, SendsStop(t) PROVE LinkedAt(u)'
    BY <1>5 DEF SendsStop, Profile!Stops
  <1>6. ASSUME NEW t \in Task, Asks(t) PROVE LinkedAt(u)'
    BY <1>6 DEF Asks, Profile!Recounts, Park
  <1>7. ASSUME NEW t \in Task, Resumes(t) PROVE LinkedAt(u)'
    <2>1. teardown' = teardown
      BY <1>7 DEF Resumes, Resume
    <2>2. CASE Profile!Confirmed(t)
      BY <2>1, <2>2 DEF Profile!Confirmed
    <2>3. CASE Profile!Declined(t)
      BY <2>1, <2>3 DEF Profile!Declined
    <2> QED
      BY <1>7, <2>2, <2>3 DEF Resumes
  <1>8. ASSUME NEW t \in Task, NEW e, WorkEnds(t, e),
               Profile!StartReturns(t) \/ Profile!Reports(t) \/ Profile!CallFails(t) \/
                 Profile!Cancelled(t),
               pc'[t] = "teardown"
        PROVE  LinkedAt(u)'
    <2>1. /\ teardown' = [teardown EXCEPT ![t] = "running"]
          /\ UNCHANGED stopped
          /\ u # t => pc'[u] = pc[u] /\ owned'[u] = owned[u] /\ windows'[u] = windows[u]
      BY <1>8 DEF WorkEnds, Profile!StartReturns, Profile!Reports, Profile!CallFails,
                  Profile!Cancelled, Profile!Ends
    <2> QED
      BY <1>8, <2>1
  <1>9. ASSUME NEW t \in Task, Completes(t) PROVE LinkedAt(u)'
    BY <1>8, <1>9 DEF Completes
  <1>10. ASSUME NEW t \in Task, Fails(t) PROVE LinkedAt(u)'
    <2>1. pc'[t] = "teardown"
      BY <1>10 DEF Fails, Profile!CallFails, Profile!Ends
    <2> QED
      BY <1>8, <1>10, <2>1 DEF Fails
  <1>11. ASSUME NEW t \in Task, CutShort(t) PROVE LinkedAt(u)'
    <2>1. pc'[t] = "teardown"
      BY <1>11 DEF CutShort, Profile!Cancelled, Profile!Ends
    <2> QED
      BY <1>8, <1>11, <2>1 DEF CutShort
  <1>12. ASSUME NEW t \in Task, TearsDown(t) PROVE LinkedAt(u)'
    <2>1. /\ u # t => teardown'[u] = teardown[u] /\ pc'[u] = pc[u] /\ stopped'[u] = stopped[u]
          /\ UNCHANGED <<owned, windows>>
          /\ pc' = [pc EXCEPT ![t] = "down"]
      BY <1>12 DEF TearsDown, TeardownEnds, Profile!StopReturns, Profile!TeardownDone
    <2>2. teardown'[t] = "ok" => ~owned'[t] \/ stopped'[t]
      BY <1>12 DEF TearsDown, Profile!StopReturns, Profile!TeardownDone
    <2> QED
      BY <2>1, <2>2
  <1>13. ASSUME NEW t \in Task, Store(t) PROVE LinkedAt(u)'
    BY <1>13 DEF Store, TimerFires, Publish
  <1>14. ASSUME UNCHANGED allVars PROVE LinkedAt(u)'
    BY <1>14 DEF allVars
  <1> HIDE DEF LinkedAt, vars
  <1> QED
    BY <1>1, <1>2, <1>3, <1>4, <1>5, <1>6, <1>7, <1>9, <1>10, <1>11, <1>12, <1>13, <1>14
    DEF ProfileNext, SessionNext

\* The task store's invariant, the session's and the link between the two
\* hold in every reachable state of the composition.
THEOREM ComposedInvariance == ProfileSpec => [](IInv /\ Session!IInv /\ Linked)
  <1>1. ProfileSpec => []IInv
    BY ImplementsTasks, Invariance, PTL
  <1>2. IInv /\ Session!IInv /\ Linked /\ [ProfileNext]_allVars => Linked'
    BY LinkedStep DEF Linked
  <1> QED
    BY <1>1, <1>2, LinkedInit, SessionInvariant, PTL DEF ProfileSpec

\* A client that reads an outcome finds the radio free of that task: a
\* teardown that ended well had its stop handled, or nothing to stop.
THEOREM ReleasedCorrect == ProfileSpec => []OutcomeMeansReleased
  <1>1. ASSUME IInv, Session!IInv, Linked, NEW t \in Task, Terminal(t), running = t
        PROVE  teardown[t] = "raised" \/ (teardown[t] = "running" /\ cancelRequested[t])
    <2>1. /\ teardown[t] # "none" /\ teardown[t] \in {"none", "running", "ok", "raised"}
          /\ teardown[t] = "running" => cancelRequested[t]
      BY <1>1, EveryTaskOwns
      DEF IInv, TypeOK, Coupled, CoupledAt, CancelTracked, CancelAt
    <2>2. teardown[t] # "ok"
      <3>1. startReq[t] = "success"
        BY <1>1 DEF Session!IInv, Session!Requests, Session!StartAt
      <3>2. /\ ~owned[t] => pc[t] = "idle" \/ startReq[t] \in Session!Refusals
            /\ ~stopped[t]
        BY <1>1 DEF Session!IInv, Session!Requests, Session!StartAt, Session!StopAt
      <3> QED
        BY <1>1, <3>1, <3>2 DEF Linked, LinkedAt, Session!Refusals
    <2> QED
      BY <2>1, <2>2
  <1>2. IInv /\ Session!IInv /\ Linked => OutcomeMeansReleased
    BY <1>1 DEF OutcomeMeansReleased
  <1> QED
    BY <1>2, ComposedInvariance, PTL

\* Only a confirm the client gave to the question at hand opens a further
\* window, and none does once the task was asked to cancel.
THEOREM WindowCorrect == ProfileSpec => WindowNeedsConfirm
  <1> DEFINE Granted(t) ==
        /\ accepted[t] = "confirm" /\ ~timedOut[t]
        /\ ~cancelRequested[t]
  <1>1. ASSUME IInv, Session!IInv, Linked, [ProfileNext]_allVars, NEW t \in Task,
               windows[t] > 0, windows'[t] > windows[t]
        PROVE  Granted(t)
    <2>0. TypeOK /\ Session!TypeOK /\ CancelAt(t) /\ QuestionAt(t) /\ LinkedAt(t)
      BY <1>1 DEF IInv, Session!IInv, CancelTracked, QuestionTracked, Linked
    <2>1. windows[t] \in Int /\ windows' # windows
      BY <1>1, <2>0 DEF Session!TypeOK
    <2>2. ASSUME NEW u \in Task, Profile!StartReturns(u) PROVE FALSE
      <3>1. windows' = [windows EXCEPT ![u] = 1] /\ pc[u] = "starting"
        BY <2>1, <2>2 DEF Profile!StartReturns
      <3>2. u = t
        BY <1>1, <2>0, <2>1, <3>1 DEF Session!TypeOK
      <3> QED
        BY <1>1, <2>0, <3>1, <3>2 DEF LinkedAt
    <2>3. ASSUME NEW u \in Task, Resumes(u) PROVE Granted(t)
      <3>1. Profile!Confirmed(u) /\ got'[u] = "confirm"
        BY <2>1, <2>3 DEF Resumes, Profile!Declined
      <3>2. u = t
        BY <1>1, <2>0, <2>1, <3>1 DEF Profile!Confirmed, Session!TypeOK
      <3>3. /\ body[t] = "parked" /\ ~cancelPending[t]
            /\ got'[t] = IF timedOut[t] THEN "null" ELSE future[t]
        BY <2>0, <2>3, <3>2 DEF Resumes, Resume, TypeOK
      <3>4. future[t] = "confirm" /\ ~timedOut[t]
        BY <3>1, <3>2, <3>3
      <3> QED
        BY <2>0, <3>3, <3>4, EveryTaskOwns DEF CancelAt, QuestionAt, TypeOK
    <2> HIDE DEF Granted
    <2> QED
      BY <1>1, <2>1, <2>2, <2>3
      DEF ProfileNext, Clients, Radio, SessionNext, Creates, Works, SendsStop, Asks,
          Completes, Fails, CutShort, TearsDown, Store, sessionVars, allVars,
          Profile!CoreNext, Profile!CoreStart, Profile!CoreStop, Profile!Lost,
          Profile!OtherStarts, Profile!OtherStops, Profile!DeadlinePasses, Profile!Begins,
          Profile!Counts, Profile!Wakes, Profile!Recounts, Profile!Stops,
          Profile!StopReturns, Profile!Reports, Profile!CallFails, Profile!Cancelled,
          Profile!TeardownDone, Profile!runVars
  <1>2. IInv /\ Session!IInv /\ Linked /\ [ProfileNext]_allVars =>
          [\A t \in Task : windows[t] > 0 /\ windows'[t] > windows[t] => Granted(t)]_allVars
    <2> HIDE DEF Granted
    <2> QED
      BY <1>1
  <1> QED
    BY <1>2, ComposedInvariance, PTL DEF ProfileSpec, WindowNeedsConfirm

=============================================================================
