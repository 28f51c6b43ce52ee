----------------------------- MODULE NetConfig -----------------------------
(***************************************************************************)
(* activate, deactivate and delete of wlanpi_mcp/tools/netconfig.py under  *)
(* the confirms of wlanpi_mcp/tools/confirms.py.  A confirm takes two      *)
(* requests: the first hands the client a sealed requestState with the     *)
(* question, the retry echoes it with the user's answer.  Nothing is kept  *)
(* in between, and other clients and the WebUI change the active profile   *)
(* at any time.                                                            *)
(*                                                                         *)
(* External: core, which keeps one active profile and refuses with a 409   *)
(* what the override flag would force; the SDK's boundary, which admits a  *)
(* sealed state only for the call it was minted for, and not after it      *)
(* expired or the daemon restarted.  delete stands for the tools that use  *)
(* confirm_gate (they ask first and call core after the accept).           *)
(***************************************************************************)
EXTENDS Naturals, FiniteSets

CONSTANTS
    Profile,    \* saved profiles
    Default,    \* core's 'default' configuration
    Client,     \* MCP clients
    Forms,      \* clients that can answer form elicitations
    Unknown,    \* no active profile could be named
    NoRequest,  \* a client with no request being served
    NoConsent,  \* no accepted question
    MaxAsks     \* bound: sealed states a client may still echo

ASSUME ConfigAssumption ==
    /\ Forms \subseteq Client
    /\ Default \notin Profile /\ Unknown \notin Profile /\ Default # Unknown
    /\ MaxAsks \in Nat

VARIABLES
    active,     \* the configuration core has active
    asks,       \* sealed states a client may echo, with what the user is shown
    request,    \* the request of each client that is being served
    consent     \* history: the question each client's user accepted for the
                \* request being served

vars == <<active, asks, request, consent>>

Op   == {"activate", "deactivate", "delete"}
Ask  == [client : Client, op : Op, id : Profile,
         named : Profile \cup {Default, Unknown}]
Request == [op : Op, id : Profile, force : BOOLEAN,
            named : Profile \cup {Default, Unknown}, at : {"core", "naming"}]

ASSUME MarkersAssumption == NoRequest \notin Request /\ NoConsent \notin Ask

Init ==
    /\ active \in Profile \cup {Default}
    /\ asks = {}
    /\ request = [k \in Client |-> NoRequest]
    /\ consent = [k \in Client |-> NoConsent]

-----------------------------------------------------------------------------
(* Core and its other users (external).                                    *)

\* The WebUI, or a client of another daemon, changes the configuration.
OtherMoves ==
    /\ active' \in (Profile \cup {Default}) \ {active}
    /\ UNCHANGED <<asks, request, consent>>

\* What core refuses with a 409 that the override would force.
Refused(r) ==
    ~r.force /\ CASE r.op = "activate"   -> active # Default
                  [] r.op = "deactivate" -> active # r.id
                  [] r.op = "delete"     -> active = r.id

\* What an admitted request leaves active; an activation may be rolled back.
Outcomes(r) ==
    CASE r.op = "activate"   -> {r.id, Default}
      [] r.op = "deactivate" -> {Default}
      [] r.op = "delete"     -> {IF active = r.id THEN Default ELSE active}

\* Sealed states expire, one by one or all with the daemon's key.
Expire ==
    /\ asks # {}
    /\ \/ asks' = {}
       \/ \E a \in asks : asks' = asks \ {a}
    /\ UNCHANGED <<active, request, consent>>

-----------------------------------------------------------------------------
(* The tools.                                                              *)

Serve(k, r) == request' = [request EXCEPT ![k] = r]

Return(k) ==
    /\ Serve(k, NoRequest)
    /\ consent' = [consent EXCEPT ![k] = NoConsent]

\* The client is handed a question with its sealed state.
Hand(q) == Cardinality(asks) < MaxAsks /\ asks' = asks \cup {q}

\* confirm_gate: a force delete of a client that can answer asks first.
Gated(k, op, flag) == k \in Forms /\ op = "delete" /\ flag

\* The override a first round sends: dropped where the server confirms.
FirstForce(k, op, flag) ==
    IF op = "delete" THEN flag ELSE flag /\ k \notin Forms

\* A first round: the flag is whatever the model set.
First(k, op, id, flag) ==
    /\ request[k] = NoRequest
    /\ ~Gated(k, op, flag)
    /\ Serve(k, [op |-> op, id |-> id, force |-> FirstForce(k, op, flag),
                 named |-> Unknown, at |-> "core"])
    /\ UNCHANGED <<active, asks, consent>>

\* A first round of a gated tool: the ask, before core is called.
Gate(k, op, id, flag) ==
    /\ request[k] = NoRequest
    /\ Gated(k, op, flag)
    /\ Hand([client |-> k, op |-> op, id |-> id, named |-> Unknown])
    /\ UNCHANGED <<active, request, consent>>

\* Mutant: any answer to the question counts as a confirmation.
RetryAnyAnswer(k, a, accepted) ==
    /\ request[k] = NoRequest
    /\ a \in asks /\ a.client = k
    /\ Serve(k, [op |-> a.op, id |-> a.id, force |-> TRUE,
                 named |-> a.named, at |-> "core"])
    /\ consent' = [consent EXCEPT ![k] = IF accepted THEN a ELSE NoConsent]
    /\ UNCHANGED <<active, asks>>

\* A retry that echoes a sealed state: an accept calls core with the
\* override, a decline ends the call without core.
Retry(k, a, accepted) ==
    /\ request[k] = NoRequest
    /\ a \in asks /\ a.client = k
    /\ accepted
    /\ Serve(k, [op |-> a.op, id |-> a.id, force |-> TRUE,
                 named |-> a.named, at |-> "core"])
    /\ consent' = [consent EXCEPT ![k] = a]
    /\ UNCHANGED <<active, asks>>

\* Core admits the request.
Admitted(k) ==
    LET r == request[k]
    IN  /\ r # NoRequest /\ r.at = "core"
        /\ ~Refused(r)
        /\ active' \in Outcomes(r)
        /\ Return(k)
        /\ UNCHANGED asks

\* Core refuses with a confirmable 409: activate asks with the profile the
\* 409 names, deactivate first looks the active one up.  A delete, and a
\* client that cannot answer, get the error.
Refuses(k) ==
    LET r == request[k]
    IN  /\ r # NoRequest /\ r.at = "core"
        /\ Refused(r)
        /\ \/ /\ k \in Forms /\ r.op = "activate"
              /\ Hand([client |-> k, op |-> r.op, id |-> r.id, named |-> active])
              /\ Return(k)
           \/ /\ k \in Forms /\ r.op = "deactivate"
              /\ Serve(k, [r EXCEPT !.at = "naming"])
              /\ UNCHANGED <<asks, consent>>
           \/ /\ k \notin Forms \/ r.op = "delete"
              /\ Return(k)
              /\ UNCHANGED asks
        /\ UNCHANGED active

\* Mutant: a lookup that fails leaves its error in the question.
NamesError(k) ==
    LET r == request[k]
    IN  /\ r # NoRequest /\ r.at = "naming"
        /\ Hand([client |-> k, op |-> r.op, id |-> r.id, named |-> NoRequest])
        /\ Return(k)
        /\ UNCHANGED active

\* _active_profile answers, or fails and the name is left out.
Names(k) ==
    LET r == request[k]
    IN  /\ r # NoRequest /\ r.at = "naming"
        /\ \E n \in {active, Unknown} :
             Hand([client |-> k, op |-> r.op, id |-> r.id, named |-> n])
        /\ Return(k)
        /\ UNCHANGED active

\* The call raises before core changed anything: busy, manual mode, core down.
Fails(k) ==
    /\ request[k] # NoRequest
    /\ request[k].at = "core"
    /\ Return(k)
    /\ UNCHANGED <<active, asks>>

-----------------------------------------------------------------------------

ClientNext(k) ==
    \/ \E op \in Op, id \in Profile, flag \in BOOLEAN :
         First(k, op, id, flag) \/ Gate(k, op, id, flag)
    \/ \E a \in asks, accepted \in BOOLEAN : Retry(k, a, accepted)
    \/ Admitted(k)
    \/ Refuses(k)
    \/ Names(k)
    \/ Fails(k)

Next == OtherMoves \/ Expire \/ \E k \in Client : ClientNext(k)

Spec == Init /\ [][Next]_vars

-----------------------------------------------------------------------------
(* Properties.                                                             *)

TypeOK ==
    /\ active \in Profile \cup {Default}
    /\ asks \subseteq Ask
    /\ request \in [Client -> Request \cup {NoRequest}]
    /\ consent \in [Client -> Ask \cup {NoConsent}]

\* Client k's request takes the active profile down.
TakesDown(k) ==
    /\ request[k] # NoRequest /\ Admitted(k)
    /\ active # Default /\ active' # active

\* Whatever flags the model sets, and in whatever order clients, expiries
\* and other users move, a call of a client that can answer takes down the
\* active profile only if its user accepted that very call, or asked for
\* the deactivation of exactly that profile.
TeardownConsented ==
    [][\A k \in Forms : TakesDown(k) =>
          LET r == request[k]
              a == consent[k]
          IN  \/ a # NoConsent /\ a.client = k /\ a.op = r.op /\ a.id = r.id
              \/ r.op = "deactivate" /\ r.id = active]_vars

=============================================================================
