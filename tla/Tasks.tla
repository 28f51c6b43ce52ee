------------------------------- MODULE Tasks -------------------------------
(***************************************************************************)
(* The task store of wlanpi_mcp/tasks.py and the body task that spawn()    *)
(* starts for each record: requests (tasks/get, tasks/update,              *)
(* tasks/cancel) and bodies interleave on one asyncio loop, so everything  *)
(* between two awaits is one action.                                       *)
(*                                                                         *)
(* The body awaits the tool's work, which may park on a question           *)
(* (_ProfileRun._ask is the work that does), then runs a shielded teardown *)
(* and publishes the outcome.  A CancelledError that has been delivered    *)
(* and not yet raised is the flag cancelPending.                           *)
(***************************************************************************)
EXTENDS Integers

CONSTANTS
    Task,       \* task ids that may be minted
    Owning,     \* tasks whose tool passes teardown and on_cancel hooks
                \* (capture_*, profile_clients); run_speedtest passes neither
    Request,    \* concurrent tasks/cancel requests
    Answers,    \* answers a client may give with tasks/update
    Idle,       \* a request that is not waiting
    NoResult,   \* TaskRecord.result is None
    TTL,        \* TASK_TTL_MS, in ticks
    MaxNow      \* bound of the clock

ASSUME TasksAssumption ==
    /\ Owning \subseteq Task
    /\ Idle \notin Task
    /\ NoResult \notin {"value", "error", "partial"}
    /\ Answers \cap {"none", "pending", "null", "cancelled"} = {}
    /\ TTL \in Nat
    /\ MaxNow \in Nat

VARIABLES
    now,             \* the clock
    held,            \* ids the store still maps to a record
    status,          \* TaskRecord.status ("fresh" before create)
    result,          \* TaskRecord.result
    created,         \* TaskRecord.created
    cancelRequested, \* TaskRecord.cancel_requested
    workCancelled,   \* TaskRecord.work_cancelled
    inputRequests,   \* TaskRecord.input_requests is not None
    answer,          \* TaskRecord.answer is not None
    future,          \* state of the future the work awaits in _ask
    accepted,        \* history: the answer tasks/update took for the question
    body,            \* where the body task is
    cancelPending,   \* a CancelledError will be raised at the body's await
    timedOut,        \* the wait_for timer of _ask has fired
    got,             \* what _ask returned to the work
    outcome,         \* local variable outcome of _run_as_task
    teardown,        \* the shielded teardown coroutine
    waiting          \* task whose end each tasks/cancel request awaits

storeVars == <<held, status, result, created, cancelRequested, workCancelled,
               inputRequests, answer>>
askVars   == <<future, accepted, timedOut, got>>
bodyVars  == <<body, cancelPending, outcome, teardown>>
vars      == <<now, storeVars, askVars, bodyVars, waiting>>

Ends    == {"completed", "failed", "cancelled"}
Live    == {"working", "input_required"}
Results == {"value", "error", "partial"}

Terminal(t) == status[t] \in Ends

Init ==
    /\ now = 0
    /\ held = {}
    /\ status = [t \in Task |-> "fresh"]
    /\ result = [t \in Task |-> NoResult]
    /\ created = [t \in Task |-> 0]
    /\ cancelRequested = [t \in Task |-> FALSE]
    /\ workCancelled = [t \in Task |-> FALSE]
    /\ inputRequests = [t \in Task |-> FALSE]
    /\ answer = [t \in Task |-> FALSE]
    /\ future = [t \in Task |-> "none"]
    /\ accepted = [t \in Task |-> "none"]
    /\ timedOut = [t \in Task |-> FALSE]
    /\ got = [t \in Task |-> "none"]
    /\ body = [t \in Task |-> "unborn"]
    /\ cancelPending = [t \in Task |-> FALSE]
    /\ outcome = [t \in Task |-> "none"]
    /\ teardown = [t \in Task |-> "none"]
    /\ waiting = [r \in Request |-> Idle]

-----------------------------------------------------------------------------
(* The store.                                                              *)

\* Mutant: prune forgets a record whose work still runs.
ExpiredAnyStatus == {t \in held : now > created[t] + TTL}

\* TaskStore.prune: the records it drops.
Expired == {t \in held : Terminal(t) /\ now > created[t] + TTL}

Kept == held \ Expired

\* Mutant: the last writer wins.
FinishUnguarded(t, s, r) ==
    /\ status' = [status EXCEPT ![t] = s]
    /\ result' = [result EXCEPT ![t] = IF r = NoResult THEN @ ELSE r]

\* TaskStore._finish: the first writer wins.
Finish(t, s, r) ==
    IF Terminal(t)
    THEN UNCHANGED <<status, result>>
    ELSE /\ status' = [status EXCEPT ![t] = s]
         /\ result' = [result EXCEPT ![t] = IF r = NoResult THEN @ ELSE r]

\* Mutant: the question is answered but the answer is not handed over.
AnswerDropped(t, a) ==
    IF status[t] = "input_required"
    THEN /\ status' = [status EXCEPT ![t] = "working"]
         /\ answer' = [answer EXCEPT ![t] = FALSE]
         /\ inputRequests' = [inputRequests EXCEPT ![t] = FALSE]
         /\ future' = [future EXCEPT ![t] = IF @ = "pending" THEN "null" ELSE @]
    ELSE UNCHANGED <<status, answer, inputRequests, future>>

\* TaskStore.answer: a no-op unless a question is pending.
TakeAnswer(t, a) ==
    IF status[t] = "input_required"
    THEN /\ status' = [status EXCEPT ![t] = "working"]
         /\ answer' = [answer EXCEPT ![t] = FALSE]
         /\ inputRequests' = [inputRequests EXCEPT ![t] = FALSE]
         /\ future' = [future EXCEPT ![t] =
                IF answer[t] /\ @ = "pending" THEN a ELSE @]
    ELSE UNCHANGED <<status, answer, inputRequests, future>>

-----------------------------------------------------------------------------
(* Requests.                                                               *)

\* A tool call: TaskStore.create, then spawn in the same step.
Create(t) ==
    /\ status[t] = "fresh"
    /\ held' = Kept \cup {t}
    /\ status' = [status EXCEPT ![t] = "working"]
    /\ created' = [created EXCEPT ![t] = now]
    /\ body' = [body EXCEPT ![t] = "work"]
    /\ UNCHANGED <<now, result, cancelRequested, workCancelled, inputRequests,
                   answer, askVars, cancelPending, outcome, teardown, waiting>>

\* tasks/get: prunes, then reports; an expired or unknown id is an error.
Get ==
    /\ held' = Kept
    /\ UNCHANGED <<now, status, result, created, cancelRequested, workCancelled,
                   inputRequests, answer, askVars, bodyVars, waiting>>

\* tasks/update: the client answers the question it saw, or any other task.
Update(t, a) ==
    /\ t \in Kept
    /\ held' = Kept
    /\ TakeAnswer(t, a)
    /\ accepted' = [accepted EXCEPT ![t] =
            IF status[t] = "input_required" THEN a ELSE @]
    /\ UNCHANGED <<now, result, created, cancelRequested, workCancelled,
                   timedOut, got, bodyVars, waiting>>

\* Mutant: a parked work is only woken with None; the CancelledError is kept
\* for work that is not waiting for the client.
CancelWakesOnly(r, t) ==
    /\ waiting[r] = Idle
    /\ t \in Kept
    /\ held' = Kept
    /\ ~Terminal(t)
    /\ cancelRequested' = [cancelRequested EXCEPT ![t] = TRUE]
    /\ future' = [future EXCEPT ![t] =
            IF answer[t] /\ @ = "pending" THEN "null" ELSE @]
    /\ answer' = [answer EXCEPT ![t] = FALSE]
    /\ inputRequests' = [inputRequests EXCEPT ![t] = FALSE]
    /\ workCancelled' = [workCancelled EXCEPT ![t] = TRUE]
    /\ cancelPending' = IF workCancelled[t] \/ answer[t]
                        THEN cancelPending
                        ELSE [cancelPending EXCEPT ![t] = TRUE]
    /\ waiting' = [waiting EXCEPT ![r] = t]
    /\ UNCHANGED <<now, status, result, created, accepted, timedOut, got,
                   body, outcome, teardown>>

\* tasks/cancel up to its await: TaskStore.cancel wakes a parked work with
\* None, then _cancel_work delivers the CancelledError at most once.  A
\* terminal task is answered at once.
Cancel(r, t) ==
    /\ waiting[r] = Idle
    /\ t \in Kept
    /\ held' = Kept
    /\ ~Terminal(t)
    /\ cancelRequested' = [cancelRequested EXCEPT ![t] = TRUE]
    /\ future' = [future EXCEPT ![t] =
            IF answer[t] /\ @ = "pending" THEN "null" ELSE @]
    /\ answer' = [answer EXCEPT ![t] = FALSE]
    /\ inputRequests' = [inputRequests EXCEPT ![t] = FALSE]
    /\ workCancelled' = [workCancelled EXCEPT ![t] = TRUE]
    /\ cancelPending' = IF workCancelled[t]
                        THEN cancelPending
                        ELSE [cancelPending EXCEPT ![t] = TRUE]
    /\ waiting' = [waiting EXCEPT ![r] = t]
    /\ UNCHANGED <<now, status, result, created, accepted, timedOut, got,
                   body, outcome, teardown>>

\* The client goes away: cancelling a request that awaits the body task
\* cancels the body task; the request itself resumes when the body ends.
Abandon(r) ==
    LET t == waiting[r]
    IN  /\ t # Idle
        /\ body[t] # "done"
        /\ cancelPending' = [cancelPending EXCEPT ![t] = TRUE]
        /\ UNCHANGED <<now, storeVars, askVars, body, outcome, teardown, waiting>>

\* The body has ended: TaskStore.cancel's own _finish, and the answer.
CancelReturns(r) ==
    LET t == waiting[r]
    IN  /\ t # Idle
        /\ body[t] = "done"
        /\ Finish(t, "cancelled", NoResult)
        /\ waiting' = [waiting EXCEPT ![r] = Idle]
        /\ UNCHANGED <<now, held, created, cancelRequested, workCancelled,
                       inputRequests, answer, askVars, bodyVars>>

-----------------------------------------------------------------------------
(* The body task.                                                          *)

\* The work asks: TaskStore.request_input, then wait_for(future, timeout).
Park(t) ==
    /\ body[t] = "work"
    /\ ~cancelPending[t]
    /\ ~Terminal(t)
    /\ inputRequests' = [inputRequests EXCEPT ![t] = TRUE]
    /\ answer' = [answer EXCEPT ![t] = TRUE]
    /\ future' = [future EXCEPT ![t] = "pending"]
    /\ accepted' = [accepted EXCEPT ![t] = "none"]
    /\ timedOut' = [timedOut EXCEPT ![t] = FALSE]
    /\ got' = [got EXCEPT ![t] = "none"]
    /\ status' = [status EXCEPT ![t] = "input_required"]
    /\ body' = [body EXCEPT ![t] = "parked"]
    /\ UNCHANGED <<now, held, result, created, cancelRequested, workCancelled,
                   cancelPending, outcome, teardown, waiting>>

\* Mutant: the work awaits the future with no timeout.
NoTimer(t) == FALSE /\ UNCHANGED vars

\* wait_for's timer fires while the work has not resumed: it cancels the
\* future if that is still pending, else it only marks the wait as expired.
TimerFires(t) ==
    /\ body[t] = "parked"
    /\ ~timedOut[t]
    /\ timedOut' = [timedOut EXCEPT ![t] = TRUE]
    /\ future' = [future EXCEPT ![t] = IF @ = "pending" THEN "cancelled" ELSE @]
    /\ UNCHANGED <<now, storeVars, accepted, got, bodyVars, waiting>>

\* Mutant: a timed-out _ask leaves its question on the record.
ResumeKeepsQuestion(t) ==
    /\ body[t] = "parked"
    /\ future[t] # "pending"
    /\ ~cancelPending[t]
    /\ got' = [got EXCEPT ![t] = IF timedOut[t] THEN "null" ELSE future[t]]
    /\ body' = [body EXCEPT ![t] = "work"]
    /\ UNCHANGED <<status, answer, inputRequests, future>>
    /\ UNCHANGED <<now, held, result, created, cancelRequested, workCancelled,
                   accepted, timedOut, cancelPending, outcome, teardown, waiting>>

\* Mutant: _ask returns what the future holds, also the cancelled one its
\* timer left behind.
ResumeBlind(t) ==
    /\ body[t] = "parked"
    /\ future[t] # "pending"
    /\ ~cancelPending[t]
    /\ IF timedOut[t]
       THEN TakeAnswer(t, "null")
       ELSE UNCHANGED <<status, answer, inputRequests, future>>
    /\ got' = [got EXCEPT ![t] = future[t]]
    /\ body' = [body EXCEPT ![t] = "work"]
    /\ UNCHANGED <<now, held, result, created, cancelRequested, workCancelled,
                   accepted, timedOut, cancelPending, outcome, teardown, waiting>>

\* _ask resumes: the future's value, or None after a TimeoutError, in which
\* case it also clears the question it had parked on.
Resume(t) ==
    /\ body[t] = "parked"
    /\ future[t] # "pending"
    /\ ~cancelPending[t]
    /\ IF timedOut[t]
       THEN TakeAnswer(t, "null")
       ELSE UNCHANGED <<status, answer, inputRequests, future>>
    /\ got' = [got EXCEPT ![t] = IF timedOut[t] THEN "null" ELSE future[t]]
    /\ body' = [body EXCEPT ![t] = "work"]
    /\ UNCHANGED <<now, held, result, created, cancelRequested, workCancelled,
                   accepted, timedOut, cancelPending, outcome, teardown, waiting>>

\* The result _run_as_task publishes for each way the work can end.
ResultOf(t, e) ==
    CASE e = "completed" -> "value"
      [] e = "failed"    -> "error"
      [] e = "cancelled" -> IF t \in Owning THEN "partial" ELSE NoResult

\* Mutant: a cancelled work skips the teardown.
WorkEndsNoTeardown(t, e) ==
    /\ body[t] \in {"work", "parked"}
    /\ IF cancelPending[t]
       THEN e \in {"cancelled", "failed"}
       ELSE body[t] = "work" /\ e \in {"completed", "failed"}
    /\ outcome' = [outcome EXCEPT ![t] = e]
    /\ cancelPending' = [cancelPending EXCEPT ![t] = FALSE]
    /\ IF t \in Owning /\ e # "cancelled"
       THEN /\ body' = [body EXCEPT ![t] = "teardown"]
            /\ teardown' = [teardown EXCEPT ![t] = "running"]
            /\ UNCHANGED <<status, result>>
       ELSE /\ body' = [body EXCEPT ![t] = "done"]
            /\ Finish(t, e, ResultOf(t, e))
            /\ UNCHANGED teardown
    /\ UNCHANGED <<now, held, created, cancelRequested, workCancelled,
                   inputRequests, answer, askVars, waiting>>

\* The work returns or raises; with a cancel delivered it raises that, or
\* the exception of a clean-up that replaces it.  With no teardown hook the
\* outcome is published in the same step.
WorkEnds(t, e) ==
    /\ body[t] \in {"work", "parked"}
    /\ IF cancelPending[t]
       THEN e \in {"cancelled", "failed"}
       ELSE body[t] = "work" /\ e \in {"completed", "failed"}
    /\ outcome' = [outcome EXCEPT ![t] = e]
    /\ cancelPending' = [cancelPending EXCEPT ![t] = FALSE]
    /\ IF t \in Owning
       THEN /\ body' = [body EXCEPT ![t] = "teardown"]
            /\ teardown' = [teardown EXCEPT ![t] = "running"]
            /\ UNCHANGED <<status, result>>
       ELSE /\ body' = [body EXCEPT ![t] = "done"]
            /\ Finish(t, e, ResultOf(t, e))
            /\ UNCHANGED teardown
    /\ UNCHANGED <<now, held, created, cancelRequested, workCancelled,
                   inputRequests, answer, askVars, waiting>>

\* The shielded teardown ends; an exception it raises is swallowed.
TeardownEnds(t) ==
    /\ teardown[t] = "running"
    /\ \E e \in {"ok", "raised"} : teardown' = [teardown EXCEPT ![t] = e]
    /\ UNCHANGED <<now, storeVars, askVars, body, cancelPending, outcome, waiting>>

\* The body's wait ends, with the teardown or by a cancel that lands on the
\* wait alone (the teardown runs on, detached): publish the outcome.
Publish(t) ==
    /\ body[t] = "teardown"
    /\ teardown[t] # "running" \/ cancelPending[t]
    /\ Finish(t, outcome[t], ResultOf(t, outcome[t]))
    /\ body' = [body EXCEPT ![t] = "done"]
    /\ cancelPending' = [cancelPending EXCEPT ![t] = FALSE]
    /\ UNCHANGED <<now, held, created, cancelRequested, workCancelled,
                   inputRequests, answer, askVars, outcome, teardown, waiting>>

Tick == now < MaxNow /\ now' = now + 1 /\ UNCHANGED <<storeVars, askVars, bodyVars, waiting>>

-----------------------------------------------------------------------------

BodyNext(t) ==
    \/ Park(t)
    \/ TimerFires(t)
    \/ Resume(t)
    \/ \E e \in Ends : WorkEnds(t, e)
    \/ TeardownEnds(t)
    \/ Publish(t)

RequestNext ==
    \/ Get
    \/ \E t \in Task : Create(t) \/ \E a \in Answers \cup {"null"} : Update(t, a)
    \/ \E r \in Request :
         \/ \E t \in Task : Cancel(r, t)
         \/ Abandon(r)
         \/ CancelReturns(r)

Next == Tick \/ RequestNext \/ \E t \in Task : BodyNext(t)

Spec == Init /\ [][Next]_vars

-----------------------------------------------------------------------------
(* Properties.                                                             *)

TypeOK ==
    /\ now \in Nat
    /\ held \subseteq Task
    /\ status \in [Task -> {"fresh"} \cup Live \cup Ends]
    /\ result \in [Task -> Results \cup {NoResult}]
    /\ created \in [Task -> Nat]
    /\ cancelRequested \in [Task -> BOOLEAN]
    /\ workCancelled \in [Task -> BOOLEAN]
    /\ inputRequests \in [Task -> BOOLEAN]
    /\ answer \in [Task -> BOOLEAN]
    /\ future \in [Task -> Answers \cup {"none", "pending", "null", "cancelled"}]
    /\ accepted \in [Task -> Answers \cup {"none", "null"}]
    /\ timedOut \in [Task -> BOOLEAN]
    /\ got \in [Task -> Answers \cup {"none", "null"}]
    /\ body \in [Task -> {"unborn", "work", "parked", "teardown", "done"}]
    /\ cancelPending \in [Task -> BOOLEAN]
    /\ outcome \in [Task -> Ends \cup {"none"}]
    /\ teardown \in [Task -> {"none", "running", "ok", "raised"}]
    /\ waiting \in [Request -> Task \cup {Idle}]

\* What tasks/get reports of a task is how its own work ended: neither the
\* canceller's blanket "cancelled" nor a second cancel overwrites it, and a
\* task is cancelled only if a tasks/cancel asked for it.
OutcomeIsTheWorks ==
    \A t \in Task : Terminal(t) =>
        /\ body[t] = "done"
        /\ status[t] = outcome[t]
        /\ result[t] = ResultOf(t, outcome[t])
        /\ status[t] = "cancelled" => cancelRequested[t]

\* A question on the record has a work that waits for its answer: a client
\* that sees input_required (and no cancel under way) can still answer it.
QuestionHasWaiter ==
    \A t \in Task : status[t] = "input_required" /\ ~cancelRequested[t] =>
        /\ body[t] = "parked"
        /\ answer[t] /\ inputRequests[t]
        /\ future[t] = "pending" \/ timedOut[t]

\* The work never hears an answer no client gave to this question, and loses
\* one only to the timer.
AnswerFidelity ==
    \A t \in Task : body[t] = "work" =>
        /\ got[t] \in Answers => got[t] = accepted[t]
        /\ accepted[t] \in Answers => got[t] = accepted[t] \/ timedOut[t]

\* A finished task has started its teardown, and unless a cancel cut the
\* wait short the teardown has ended: no outcome over a resource still held.
TeardownNeverSkipped ==
    \A t \in Owning : Terminal(t) =>
        /\ teardown[t] # "none"
        /\ teardown[t] = "running" => cancelRequested[t]

\* A tasks/cancel that finds the work unfinished cuts it short, wherever the
\* work waits and whoever else wakes it (the answer timer, a tasks/update):
\* it asks no further question and does not complete.
CancelCutsTheWork ==
    [][\A t \in Task : cancelRequested[t] /\ outcome[t] = "none" =>
          /\ outcome'[t] # "completed"
          /\ status'[t] = "input_required" => status[t] = "input_required"]_vars

\* The records refine the lifecycle a client relies on.
phase == [t \in Task |->
            IF status[t] # "fresh" /\ t \notin held THEN "expired" ELSE status[t]]

Lifecycle == INSTANCE TaskLifecycle
                WITH Result <- Results, outcome <- result

ImplementsLifecycle == Lifecycle!LifeSpec

=============================================================================
