--------------------------- MODULE NetConfigProofs ---------------------------
(***************************************************************************)
(* Proofs about NetConfig for any profiles, clients and sealed states.     *)
(*                                                                         *)
(* What makes TeardownConsented hold step by step is that the override is  *)
(* only ever sent, for a client that can answer, with the accepted ask of  *)
(* the same call.                                                          *)
(***************************************************************************)
EXTENDS NetConfig, TLAPS

\* A forced request of a client that can answer has its user's consent.
ForceConsented ==
    \A k \in Forms :
        request[k] # NoRequest /\ request[k].force =>
            /\ consent[k] \in Ask
            /\ consent[k].client = k
            /\ consent[k].op = request[k].op
            /\ consent[k].id = request[k].id

IInv == TypeOK /\ ForceConsented

-----------------------------------------------------------------------------
(* Type correctness.                                                       *)

LEMMA TypeInit == Init => TypeOK
  BY DEF Init, TypeOK

\* What a step does to one client's request and consent.
LEMMA ServeType ==
    ASSUME TypeOK, NEW k \in Client, NEW r \in Request \cup {NoRequest}, Serve(k, r)
    PROVE  request' \in [Client -> Request \cup {NoRequest}]
  BY DEF Serve, TypeOK

LEMMA ReturnType ==
    ASSUME TypeOK, NEW k \in Client, Return(k)
    PROVE  /\ request' \in [Client -> Request \cup {NoRequest}]
           /\ consent' \in [Client -> Ask \cup {NoConsent}]
  BY DEF Return, Serve, TypeOK

LEMMA TypeStep == TypeOK /\ [Next]_vars => TypeOK'
  <1> SUFFICES ASSUME TypeOK, [Next]_vars PROVE TypeOK'
    OBVIOUS
  <1> USE DEF TypeOK
  <1>1. ASSUME OtherMoves PROVE TypeOK'
    BY <1>1 DEF OtherMoves
  <1>2. ASSUME Expire PROVE TypeOK'
    BY <1>2 DEF Expire
  <1>3. ASSUME NEW k \in Client, NEW op \in Op, NEW id \in Profile, NEW flag \in BOOLEAN,
               First(k, op, id, flag)
        PROVE  TypeOK'
    <2> DEFINE r == [op |-> op, id |-> id, force |-> FirstForce(k, op, flag),
                     named |-> Unknown, at |-> "core"]
    <2>1. r \in Request
      BY DEF Request, FirstForce
    <2>2. Serve(k, r)
      BY <1>3 DEF First
    <2> HIDE DEF r
    <2>3. request' \in [Client -> Request \cup {NoRequest}]
      BY <2>1, <2>2, ServeType
    <2> QED
      BY <1>3, <2>3 DEF First
  <1>4. ASSUME NEW k \in Client, NEW op \in Op, NEW id \in Profile, NEW flag \in BOOLEAN,
               Gate(k, op, id, flag)
        PROVE  TypeOK'
    <2>1. [client |-> k, op |-> op, id |-> id, named |-> Unknown] \in Ask
      BY DEF Ask
    <2> QED
      BY <1>4, <2>1 DEF Gate, Hand
  <1>5. ASSUME NEW k \in Client, NEW a \in asks, NEW accepted \in BOOLEAN,
               Retry(k, a, accepted)
        PROVE  TypeOK'
    <2> DEFINE r == [op |-> a.op, id |-> a.id, force |-> TRUE,
                     named |-> a.named, at |-> "core"]
    <2>1. a \in Ask /\ r \in Request
      BY DEF Ask, Request
    <2>2. Serve(k, r)
      BY <1>5 DEF Retry
    <2> HIDE DEF r
    <2>3. request' \in [Client -> Request \cup {NoRequest}]
      BY <2>1, <2>2, ServeType
    <2> QED
      BY <1>5, <2>1, <2>3 DEF Retry
  <1>6. ASSUME NEW k \in Client, Admitted(k) PROVE TypeOK'
    <2>1. request[k] \in Request
      BY <1>6 DEF Admitted
    <2>2. active' \in Profile \cup {Default}
      BY <1>6, <2>1 DEF Admitted, Outcomes, Request, Op
    <2> QED
      BY <1>6, <2>2, ReturnType DEF Admitted
  <1>7. ASSUME NEW k \in Client, Refuses(k) PROVE TypeOK'
    <2> DEFINE r == request[k]
    <2>1. r \in Request
      BY <1>7 DEF Refuses
    <2>2. CASE /\ Hand([client |-> k, op |-> r.op, id |-> r.id, named |-> active])
               /\ Return(k)
      <3>1. [client |-> k, op |-> r.op, id |-> r.id, named |-> active] \in Ask
        BY <2>1 DEF Ask, Request
      <3> QED
        BY <1>7, <2>2, <3>1, ReturnType DEF Refuses, Hand
    <2>3. CASE Serve(k, [r EXCEPT !.at = "naming"]) /\ UNCHANGED <<asks, consent>>
      <3>1. [r EXCEPT !.at = "naming"] \in Request
        BY <2>1 DEF Request
      <3> QED
        BY <1>7, <2>3, <3>1, ServeType DEF Refuses
    <2>4. CASE Return(k) /\ UNCHANGED asks
      BY <1>7, <2>4, ReturnType DEF Refuses
    <2> QED
      BY <1>7, <2>2, <2>3, <2>4 DEF Refuses
  <1>8. ASSUME NEW k \in Client, Names(k) PROVE TypeOK'
    <2>1. request[k] \in Request
      BY <1>8 DEF Names
    <2>2. PICK n \in {active, Unknown} :
            Hand([client |-> k, op |-> request[k].op, id |-> request[k].id, named |-> n])
      BY <1>8 DEF Names
    <2>3. [client |-> k, op |-> request[k].op, id |-> request[k].id, named |-> n] \in Ask
      BY <2>1 DEF Ask, Request
    <2> QED
      BY <1>8, <2>2, <2>3, ReturnType DEF Names, Hand
  <1>9. ASSUME NEW k \in Client, Fails(k) PROVE TypeOK'
    BY <1>9, ReturnType DEF Fails
  <1>10. ASSUME UNCHANGED vars PROVE TypeOK'
    BY <1>10 DEF vars
  <1> QED
    BY <1>1, <1>2, <1>3, <1>4, <1>5, <1>6, <1>7, <1>8, <1>9, <1>10
    DEF Next, ClientNext

-----------------------------------------------------------------------------
(* The override needs consent.                                             *)

LEMMA ReturnConsented ==
    ASSUME IInv, NEW k \in Client, Return(k)
    PROVE  ForceConsented'
  BY ConfigAssumption DEF IInv, TypeOK, ForceConsented, Return, Serve

LEMMA ConsentStep == IInv /\ [Next]_vars => ForceConsented'
  <1> SUFFICES ASSUME IInv, [Next]_vars PROVE ForceConsented'
    OBVIOUS
  <1> USE ConfigAssumption DEF IInv, TypeOK, ForceConsented
  <1>1. ASSUME UNCHANGED <<request, consent>> PROVE ForceConsented'
    BY <1>1
  <1>2. ASSUME NEW k \in Client, NEW op \in Op, NEW id \in Profile, NEW flag \in BOOLEAN,
               First(k, op, id, flag)
        PROVE  ForceConsented'
    <2>1. k \in Forms => ~FirstForce(k, op, flag)
      BY <1>2 DEF First, Gated, FirstForce
    <2> QED
      BY <1>2, <2>1 DEF First, Serve
  <1>3. ASSUME NEW k \in Client, NEW a \in asks, NEW accepted \in BOOLEAN,
               Retry(k, a, accepted)
        PROVE  ForceConsented'
    BY <1>3 DEF Retry, Serve
  <1>4. ASSUME NEW k \in Client, Refuses(k) PROVE ForceConsented'
    <2> DEFINE r == request[k]
    <2>1. CASE Serve(k, [r EXCEPT !.at = "naming"]) /\ UNCHANGED <<asks, consent>>
      <3>1. r \in Request /\ ~r.force
        BY <1>4 DEF Refuses, Refused
      <3>2. /\ [r EXCEPT !.at = "naming"].force = r.force
            /\ [r EXCEPT !.at = "naming"].op = r.op
            /\ [r EXCEPT !.at = "naming"].id = r.id
        BY <3>1 DEF Request
      <3> HIDE DEF r
      <3> QED
        BY <2>1, <3>1, <3>2 DEF Serve
    <2>2. CASE Return(k)
      BY <2>2, ReturnConsented
    <2> QED
      BY <1>4, <2>1, <2>2 DEF Refuses
  <1>5. ASSUME NEW k \in Client, Admitted(k) \/ Names(k) \/ Fails(k)
        PROVE  ForceConsented'
    BY <1>5, ReturnConsented DEF Admitted, Names, Fails
  <1> HIDE DEF TypeOK, ForceConsented
  <1>6. CASE OtherMoves \/ Expire \/ UNCHANGED vars
    BY <1>1, <1>6 DEF OtherMoves, Expire, vars
  <1>7. ASSUME NEW k \in Client, ClientNext(k) PROVE ForceConsented'
    <2>1. CASE \E op \in Op, id \in Profile, flag \in BOOLEAN : Gate(k, op, id, flag)
      BY <1>1, <2>1 DEF Gate
    <2> QED
      BY <1>2, <1>3, <1>4, <1>5, <1>7, <2>1 DEF ClientNext
  <1> QED
    BY <1>6, <1>7 DEF Next

\* The inductive invariant holds in every reachable state.
THEOREM Invariance == Spec => []IInv
  <1>1. Init => IInv
    BY TypeInit, ConfigAssumption DEF IInv, ForceConsented, Init
  <1>2. IInv /\ [Next]_vars => IInv'
    BY TypeStep, ConsentStep DEF IInv
  <1> QED
    BY <1>1, <1>2, PTL DEF Spec

-----------------------------------------------------------------------------
(* What it is for.                                                         *)

\* Every question, request and consent is well typed.
THEOREM TypeCorrect == Spec => []TypeOK
  BY Invariance, PTL DEF IInv

\* A call of a client that can answer takes the active profile down only with
\* its user's consent: unforced, core admits an activation only over the
\* default, a delete only of another profile.
THEOREM ConsentCorrect == Spec => TeardownConsented
  <1> DEFINE Consented(k) ==
         LET r == request[k]
             a == consent[k]
         IN  \/ a # NoConsent /\ a.client = k /\ a.op = r.op /\ a.id = r.id
             \/ r.op = "deactivate" /\ r.id = active
  <1>1. ASSUME IInv, NEW k \in Forms, TakesDown(k) PROVE Consented(k)
    <2> DEFINE r == request[k]
    <2>1. r \in Request /\ r # NoRequest /\ ~Refused(r) /\ active' \in Outcomes(r)
      BY <1>1, ConfigAssumption DEF IInv, TypeOK, TakesDown, Admitted
    <2>2. active # Default /\ active' # active
      BY <1>1 DEF TakesDown
    <2>3. CASE r.force
      <3>1. consent[k] \in Ask /\ consent[k].client = k
            /\ consent[k].op = r.op /\ consent[k].id = r.id
        BY <1>1, <2>1, <2>3 DEF IInv, ForceConsented
      <3> QED
        BY <3>1, MarkersAssumption
    <2>4. CASE ~r.force
      <3> HIDE DEF r
      <3>1. r.op \in Op
        BY <2>1 DEF Request
      <3>2. r.op # "activate"
        BY <2>1, <2>2, <2>4 DEF Refused
      <3>3. r.op # "delete"
        BY <2>1, <2>2, <2>4 DEF Refused, Outcomes
      <3>4. r.op = "deactivate" /\ r.id = active
        BY <2>1, <2>4, <3>1, <3>2, <3>3 DEF Refused, Op
      <3> QED
        BY <3>4 DEF r
    <2> QED
      BY <2>3, <2>4
  <1>2. IInv => [\A k \in Forms : TakesDown(k) => Consented(k)]_vars
    BY <1>1
  <1> QED
    BY <1>2, Invariance, PTL DEF TeardownConsented

=============================================================================
