-------------------------- MODULE CaptureLifecycle --------------------------
(***************************************************************************)
(* What every capture of the daemon keeps to, in the background into a     *)
(* file or in the window of a call: it asks core for the interface, runs,  *)
(* and is cleaned up, and a clean-up that runs to its end leaves nothing   *)
(* held and the outcome told.  A clean-up that is cut off leaves only what *)
(* it had not yet released.                                                *)
(*                                                                         *)
(* Captures move on their own, and core may end any of them at any time.   *)
(***************************************************************************)

CONSTANTS Capture

VARIABLES
    stage,   \* where each capture is in its life
    taken,   \* core runs a session for it
    holds,   \* what the daemon has open for it: a socket, a file
    told     \* its outcome is where its client reads it

captureVars == <<stage, taken, holds, told>>

Holding == {"socket", "file"}

\* A capture that fails never ran; one that ends did.
Stage == {"idle", "asking", "failing", "running", "ending", "released", "abandoned"}

LifeInit ==
    /\ stage = [c \in Capture |-> "idle"]
    /\ taken = [c \in Capture |-> FALSE]
    /\ holds = [c \in Capture |-> {}]
    /\ told = [c \in Capture |-> FALSE]

Moves(c, from, to) == stage[c] \in from /\ stage'[c] = to

\* The socket is connected.
Asks(c) ==
    /\ Moves(c, {"idle"}, "asking")
    /\ holds'[c] = {"socket"}
    /\ taken'[c] = taken[c] /\ told'[c] = told[c]

\* Core starts a capture for it, perhaps when nobody waits for that any more.
CoreTakes(c) ==
    /\ stage[c] \in {"asking", "failing", "abandoned"} /\ stage'[c] = stage[c]
    /\ "socket" \in holds[c]
    /\ taken'[c]
    /\ holds'[c] = holds[c] /\ told'[c] = told[c]

\* Core ends it, on its own or when it is asked to.
CoreDrops(c) ==
    /\ stage'[c] = stage[c]
    /\ ~taken'[c]
    /\ holds'[c] = holds[c] /\ told'[c] = told[c]

\* Core runs it, or lets it join another: a file may be opened for it.
Runs(c) ==
    /\ Moves(c, {"asking"}, "running")
    /\ "socket" \in holds'[c] /\ holds'[c] \subseteq Holding
    /\ taken[c] => taken'[c]
    /\ told'[c] = told[c]

\* It never runs, and core may only now hear that it was asked.
Fails(c) ==
    /\ Moves(c, {"asking"}, "failing")
    /\ taken[c] => taken'[c]
    /\ holds'[c] = holds[c] /\ told'[c] = told[c]

\* Its time is up, it is stopped, cancelled or broken: its file is closed.
Leaves(c) ==
    /\ Moves(c, {"running"}, "ending")
    /\ holds'[c] \subseteq holds[c] \ {"file"}
    /\ taken'[c] => taken[c]
    /\ told[c] => told'[c]

\* The clean-up is over.
Releases(c) ==
    /\ Moves(c, {"failing", "ending"}, "released")
    /\ holds'[c] = {} /\ ~taken'[c]
    /\ stage[c] = "ending" => told'[c]

\* The clean-up is cut off.
Abandons(c) ==
    /\ Moves(c, {"failing", "ending"}, "abandoned")
    /\ holds'[c] \subseteq holds[c]
    /\ taken'[c] => taken[c]
    /\ told'[c] = told[c]

Stays(c) ==
    /\ stage'[c] = stage[c]
    /\ taken'[c] = taken[c]
    /\ holds'[c] = holds[c]
    /\ told'[c] = told[c]

LifeNext ==
    /\ stage' \in [Capture -> Stage]
    /\ taken' \in [Capture -> BOOLEAN]
    /\ holds' \in [Capture -> SUBSET Holding]
    /\ told' \in [Capture -> BOOLEAN]
    /\ \A c \in Capture :
          \/ Stays(c) \/ Asks(c) \/ CoreTakes(c) \/ CoreDrops(c) \/ Runs(c)
          \/ Fails(c) \/ Leaves(c) \/ Releases(c) \/ Abandons(c)

LifeSpec == LifeInit /\ [][LifeNext]_captureVars

=============================================================================
