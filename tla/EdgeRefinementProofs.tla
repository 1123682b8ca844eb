------------------------ MODULE EdgeRefinementProofs ------------------------
(***************************************************************************)
(* Worker, facilitator and chain implement module PaidService: initial     *)
(* states map to initial states, and under the invariant of EdgeProofs     *)
(* every step maps to a step of the promise or leaves it unchanged.        *)
(***************************************************************************)
EXTENDS EdgeProofs

(* The promise sees of a task its payment, its body and its outcome.       *)
LEMMA SameTask ==
  ASSUME NEW q \in Requests,
         pc'[q] = pc[q], body'[q] = body[q], envelope'[q] = envelope[q], resp'[q] = resp[q]
  PROVE  CallOf(q)' = CallOf(q) /\ OutcomeOf(q)' = OutcomeOf(q)
BY DEF CallOf, OutcomeOf, Served, Unsettled

(* A step that leaves every task alone, and the ledger, is none.           *)
LEMMA StutterStep ==
  ASSUME UNCHANGED ledger,
         \A q \in Requests : CallOf(q)' = CallOf(q) /\ OutcomeOf(q)' = OutcomeOf(q)
  PROVE  UNCHANGED Promise!vars
BY DEF Promise!vars

(* A step in which one call ends without a result.                         *)
LEMMA EndStep ==
  ASSUME NEW r \in Requests, UNCHANGED ledger,
         \A q \in Requests : CallOf(q)' = CallOf(q),
         \A q \in Requests \ {r} : OutcomeOf(q)' = OutcomeOf(q),
         OutcomeOf(r) = "open",
         OutcomeOf(r)' \in {"closed", "unsettled"}
  PROVE  Promise!Next
<1>1. Promise!End(r)
  BY DEF Promise!End, Promise!Become
<1> QED
  BY <1>1 DEF Promise!Next

(* A step in which a call comes in.                                        *)
LEMMA ArriveStep ==
  ASSUME NEW r \in Requests, NEW c \in Promise!Calls, UNCHANGED ledger,
         \A q \in Requests \ {r} : CallOf(q)' = CallOf(q) /\ OutcomeOf(q)' = OutcomeOf(q),
         CallOf(r) = None, CallOf(r)' = c,
         OutcomeOf(r) = "open",
         OutcomeOf(r)' \in {"open", "closed", "unsettled"}
  PROVE  Promise!Next
<1>1. Promise!Arrive(r)
  BY DEF Promise!Arrive, Promise!Become
<1> QED
  BY <1>1 DEF Promise!Next

(* The call that a header and a body make.                                 *)
LEMMA CallTypes ==
  ASSUME NEW e \in Envelopes, NEW b \in Bodies
  PROVE  /\ [envelope |-> e, computable |-> Computable(b)] \in Promise!Calls
         /\ [envelope |-> e, computable |-> Computable(b)] # None
<1>1. Computable(b) \in BOOLEAN
  BY DEF Computable
<1>2. [envelope |-> e, computable |-> Computable(b)] \in Promise!Calls
  BY <1>1 DEF Promise!Calls
<1> QED
  BY <1>2, CallAssumption

(* The promise starts with no call, no outcome and no charge.              *)
LEMMA RefinementInit == Init => Promise!Init
BY DEF Init, Promise!Init, CallOf, OutcomeOf

(* Every step is one of the promise, or none.                              *)
LEMMA RefinementStep == IInv /\ IInv' /\ [Next]_vars => [Promise!Next]_Promise!vars
<1> SUFFICES ASSUME IInv, IInv', [Next]_vars PROVE Promise!Next \/ UNCHANGED Promise!vars
  OBVIOUS
<1> USE DEF TypeOK
<1>0. TypeOK /\ TaskInv /\ PostInv /\ AnswerInv /\ WinnerInv /\ TypeOK' /\ WinnerInv'
  BY DEF IInv
<1>1. ASSUME NEW r \in Requests, Dispatch(r) \/ RespondPaymentRequired(r)
      PROVE  Promise!Next
  <2>1. \E x \in {Response(200, "Ok", None, None),
                  Response(200, "Ok", BuildRequirements(env), None),
                  Response(404, "NotFound", None, None),
                  Response(402, "PaymentRequired", BuildRequirements(env), None)} :
          Respond(r, "idle", x)
    BY <1>1 DEF Dispatch, RespondPaymentRequired, StaticResponses
  <2>2. UNCHANGED <<task, wire, world>>
    BY <1>1 DEF Dispatch, RespondPaymentRequired
  <2>3. \A q \in Requests \ {r} : CallOf(q)' = CallOf(q) /\ OutcomeOf(q)' = OutcomeOf(q)
    BY <1>0, <2>1, <2>2, SameTask DEF Respond, Move, task
  <2>4. CallOf(r)' = CallOf(r)
    BY <2>2 DEF CallOf, task
  <2>5. body'[r] = None
    BY <1>0, <2>1, <2>2 DEF TaskInv, Respond, Move, task
  <2>6. OutcomeOf(r) = "open" /\ OutcomeOf(r)' = "closed"
    BY <1>0, <2>1, <2>5 DEF OutcomeOf, Served, Unsettled, Response, Respond, Move
  <2> QED
    BY <2>2, <2>3, <2>4, <2>6, EndStep DEF world
<1>2. ASSUME NEW r \in Requests, NEW e \in Envelopes, NEW b \in Bodies,
             SettleAndServe(r, e, b)
      PROVE  Promise!Next
  <2>1. Present(r, e, b) /\ UNCHANGED ledger
    BY <1>2 DEF SettleAndServe, ConfigMissing, EnvelopeUndecodable, SendVerify, world
  <2>2. /\ pc[r] = "idle"
        /\ \/ pc' = [pc EXCEPT ![r] = "verify"] /\ resp' = resp
           \/ /\ pc' = [pc EXCEPT ![r] = "done"]
              /\ \E x \in {"Transport", "VerifyRejected"} :
                   resp' = [resp EXCEPT ![r] = DomainErrorResponse(x)]
    BY <1>2 DEF SettleAndServe, ConfigMissing, EnvelopeUndecodable, SendVerify, Respond, Move
  <2>3. \A q \in Requests \ {r} : CallOf(q)' = CallOf(q) /\ OutcomeOf(q)' = OutcomeOf(q)
    BY <1>0, <2>1, <2>2, SameTask DEF Present, Receive
  <2>4. CallOf(r) = None /\ OutcomeOf(r) = "open"
    BY <1>0, <2>2 DEF TaskInv, CallOf, OutcomeOf
  <2>5. CallOf(r)' = [envelope |-> e, computable |-> Computable(b)]
    <3>1. body'[r] = b /\ envelope'[r] = e /\ b # None
      BY <1>0, <2>1, NoneAssumption DEF Present, Receive
    <3> QED
      BY <3>1 DEF CallOf
  <2>6. OutcomeOf(r)' \in {"open", "closed", "unsettled"}
    BY <1>0, <2>2, ErrorResponses, ErrorTypes DEF OutcomeOf, Served
  <2> QED
    BY <2>1, <2>3, <2>4, <2>5, <2>6, CallTypes, ArriveStep
<1>3. ASSUME NEW r \in Requests, NEW from \in {"verify", "body", "settle"},
             UNCHANGED <<task, ledger>>,
             \/ Move(r, from, "gone") /\ resp' = resp
             \/ \E x \in DomainErrors : Respond(r, from, DomainErrorResponse(x))
             \/ Respond(r, from, WorkerError)
      PROVE  Promise!Next
  <2>1. \A q \in Requests \ {r} : CallOf(q)' = CallOf(q) /\ OutcomeOf(q)' = OutcomeOf(q)
    BY <1>0, <1>3, SameTask DEF Respond, Move, task
  <2>2. CallOf(r)' = CallOf(r)
    BY <1>3 DEF CallOf, task
  <2>3. OutcomeOf(r) = "open"
    BY <1>3 DEF OutcomeOf, Respond, Move
  <2>4. OutcomeOf(r)' \in {"closed", "unsettled"}
    BY <1>0, <1>3, ErrorResponses
       DEF OutcomeOf, Served, WorkerError, Response, Respond, Move
  <2> QED
    BY <1>3, <2>1, <2>2, <2>3, <2>4, EndStep
<1>4. ASSUME NEW r \in Requests, NEW from \in {"verify", "body"},
             NEW to \in {"body", "settle"},
             Move(r, from, to), UNCHANGED <<task, resp, ledger>>
      PROVE  UNCHANGED Promise!vars
  <2>1. \A q \in Requests \ {r} : CallOf(q)' = CallOf(q) /\ OutcomeOf(q)' = OutcomeOf(q)
    BY <1>0, <1>4, SameTask DEF Move, task
  <2>2. CallOf(r)' = CallOf(r)
    BY <1>4 DEF CallOf, task
  <2>3. OutcomeOf(r)' = OutcomeOf(r)
    BY <1>0, <1>4 DEF OutcomeOf, Move
  <2> QED
    BY <1>4, <2>1, <2>2, <2>3, StutterStep
<1>5. ASSUME UNCHANGED <<pc, task, resp>>
      PROVE  \A q \in Requests : CallOf(q)' = CallOf(q) /\ OutcomeOf(q)' = OutcomeOf(q)
  BY <1>5, SameTask DEF task

<1>6. ASSUME NEW r \in Requests, SettleAccepted(r) PROVE Promise!Next
  <2>1. PICK a \in answers :
          /\ a.request = r /\ a.path = "settle" /\ a.text.transaction # None
          /\ Respond(r, "settle", Response(200, "Ok", None, a.text.transaction))
    BY <1>6 DEF SettleAccepted, Awaited, ParseSettleResponse, AndThen, Check
  <2>2. Winner(r) /\ AtSettle(r) /\ envelope[r] \in ledger
    BY <1>0, <2>1 DEF Winner, AnswerInv
  <2>3. UNCHANGED <<task, ledger>>
    BY <1>6 DEF SettleAccepted, world
  <2>4. \A q \in Requests \ {r} : OutcomeOf(q)' = OutcomeOf(q)
    BY <1>0, <2>1, <2>3, SameTask DEF Respond, Move, task
  <2>5. \A q \in Requests : CallOf(q)' = CallOf(q)
    BY <2>3 DEF CallOf, task
  <2>6. OutcomeOf(r) = "open" /\ OutcomeOf(r)' = "served"
    BY <1>0, <2>1, <2>2, <2>3 DEF OutcomeOf, Served, AtSettle, Response, Respond, Move, task
  <2>7. /\ CallOf(r) # None
        /\ CallOf(r).computable
        /\ CallOf(r).envelope \in ledger
    <3>1. envelope[r] \in Envelopes /\ body[r] \in Bodies /\ Computable(body[r])
      BY <1>0, <2>2, ServeOkIffComputable, EdgeAssumption DEF AtSettle
    <3> QED
      BY <2>2, <3>1, CallTypes, NoneAssumption DEF CallOf
  <2>8. ASSUME ~ReplayAccepted, NEW s \in Requests, OutcomeOf(s) = "served"
        PROVE  CallOf(s).envelope # CallOf(r).envelope
    <3>1. Served(s) /\ body[s] # None
      BY <2>8 DEF OutcomeOf, Served
    <3>2. s # r /\ Winner(s)
      BY <2>6, <2>8, <3>1 DEF Winner
    <3>3. envelope[s] # envelope[r]
      BY <1>0, <2>2, <2>8, <3>2 DEF WinnerInv
    <3> QED
      BY <2>2, <3>1, <3>3 DEF CallOf, AtSettle
  <2>9. Promise!Serve(r)
    BY <2>3, <2>4, <2>5, <2>6, <2>7, <2>8 DEF Promise!Serve, Promise!Become
  <2> QED
    BY <2>9 DEF Promise!Next
<1>7. ASSUME NEW r \in Requests, FacilitatorSettles(r) PROVE Promise!Next
  <2>1. PICK m \in posts : m.request = r /\ m.path = "settle" /\ ledger' = ledger \cup {m.envelope}
    BY <1>7 DEF FacilitatorSettles
  <2>2. AtSettle(r) /\ (pc[r] = "settle" \/ Unsettled(r)) /\ m.envelope = envelope[r]
    BY <1>0, <2>1 DEF PostInv
  <2>3. /\ CallOf(r) # None
        /\ CallOf(r).computable
        /\ CallOf(r).envelope = m.envelope
    <3>1. envelope[r] \in Envelopes /\ body[r] \in Bodies /\ Computable(body[r])
      BY <1>0, <2>2, ServeOkIffComputable, EdgeAssumption DEF AtSettle
    <3> QED
      BY <2>2, <3>1, CallTypes, NoneAssumption DEF CallOf
  <2>4. OutcomeOf(r) \in {"open", "unsettled"}
    BY <2>2 DEF OutcomeOf, Served, Unsettled
  <2>5. \A q \in Requests : CallOf(q)' = CallOf(q) /\ OutcomeOf(q)' = OutcomeOf(q)
    BY <1>5, <1>7 DEF FacilitatorSettles
  <2>6. Promise!Charge(r)
    BY <2>1, <2>3, <2>4, <2>5 DEF Promise!Charge
  <2> QED
    BY <2>6 DEF Promise!Next
<1>8. ASSUME NEW r \in Requests, Resume(r) PROVE Promise!Next \/ UNCHANGED Promise!vars
  <2>1. CASE VerifyAccepted(r)
    BY <1>4, <2>1 DEF VerifyAccepted, world
  <2>2. CASE VerifyRejected(r)
    BY <1>3, <2>2, ErrorTypes DEF VerifyRejected, world
  <2>3. CASE ServeAndSettle(r)
    BY <1>4, <2>3 DEF ServeAndSettle, world
  <2>4. CASE ServeFails(r)
    BY <1>3, <2>4, ErrorTypes DEF ServeFails, world
  <2>5. CASE SettleAccepted(r)
    BY <1>6, <2>5
  <2>6. CASE SettleRejected(r)
    BY <1>3, <2>6, ErrorTypes DEF SettleRejected, world
  <2> QED
    BY <1>8, <2>1, <2>2, <2>3, <2>4, <2>5, <2>6 DEF Resume
<1>9. ASSUME NEW r \in Requests, PostFails(r) \/ ReadBodyFails(r) \/ Drop(r)
      PROVE  Promise!Next
  <2>1. CASE PostFails(r)
    BY <1>3, <2>1, ErrorTypes DEF PostFails, world
  <2>2. CASE ReadBodyFails(r)
    BY <1>3, <2>2 DEF ReadBodyFails, world
  <2>3. CASE Drop(r)
    BY <1>3, <2>3 DEF Drop, world
  <2> QED
    BY <1>9, <2>1, <2>2, <2>3
<1>10. ASSUME UNCHANGED <<pc, task, resp, ledger>> PROVE UNCHANGED Promise!vars
  BY <1>5, <1>10, StutterStep
<1>11. ASSUME NEW r \in Requests, Facilitator(r)
       PROVE  Promise!Next \/ UNCHANGED Promise!vars
  BY <1>7, <1>10, <1>11 DEF Facilitator, FacilitatorVerifies, FacilitatorRefuses, world
<1>12. ASSUME NEW e \in Envelopes, Sign(e) PROVE UNCHANGED Promise!vars
  BY <1>10, <1>12 DEF Sign
<1>13. ASSUME NEW e \in Environments, Deploy(e) PROVE UNCHANGED Promise!vars
  BY <1>10, <1>13 DEF Deploy
<1>14. CASE UNCHANGED vars
  BY <1>10, <1>14 DEF vars, task
<1> QED
  BY <1>1, <1>2, <1>8, <1>9, <1>11, <1>12, <1>13, <1>14 DEF Next

(* The worker keeps the promise of module PaidService, whatever fails.     *)
THEOREM PromiseKept == Spec => ImplementsPromise
<1> QED
  BY RefinementInit, RefinementStep, Invariance, PTL DEF Spec, ImplementsPromise, Promise!Spec

=============================================================================
