--------------------------- MODULE TaskLifecycle ---------------------------
(***************************************************************************)
(* What a client of the tasks/* methods may rely on: the lifecycle of one  *)
(* task, independent of how the daemon runs it.  Every task moves on its   *)
(* own, so the next-state relation is a conjunction over tasks; a step of  *)
(* the daemon (a poll that prunes several records) may move several.       *)
(***************************************************************************)

CONSTANTS
    Task,       \* task ids
    Result,     \* outcomes a task may carry
    NoResult    \* TaskRecord.result is None

VARIABLES
    phase,      \* where each task is in its life
    outcome     \* the outcome tasks/get would report

lifeVars == <<phase, outcome>>

Ends == {"completed", "failed", "cancelled"}

Live == {"working", "input_required"}

Phase == {"fresh", "expired"} \cup Live \cup Ends

LifeInit ==
    /\ phase = [t \in Task |-> "fresh"]
    /\ outcome = [t \in Task |-> NoResult]

\* The task is born, or a question is asked or answered: no outcome yet.
Advances(t) ==
    /\ <<phase[t], phase'[t]>> \in {<<"fresh", "working">>,
                                    <<"working", "input_required">>,
                                    <<"input_required", "working">>}
    /\ outcome'[t] = outcome[t]

\* The first writer ends the task; only a cancelled one may have no outcome.
Finishes(t) ==
    /\ phase[t] \in Live
    /\ phase'[t] \in Ends
    /\ outcome'[t] \in Result \cup {NoResult}
    /\ phase'[t] # "cancelled" => outcome'[t] \in Result

\* Only a finished task is ever forgotten.
Expires(t) ==
    /\ phase[t] \in Ends
    /\ phase'[t] = "expired"
    /\ outcome'[t] = outcome[t]

Stays(t) == phase'[t] = phase[t] /\ outcome'[t] = outcome[t]

LifeNext ==
    /\ phase' \in [Task -> Phase]
    /\ outcome' \in [Task -> Result \cup {NoResult}]
    /\ \A t \in Task : Stays(t) \/ Advances(t) \/ Finishes(t) \/ Expires(t)

LifeSpec == LifeInit /\ [][LifeNext]_lifeVars

=============================================================================
