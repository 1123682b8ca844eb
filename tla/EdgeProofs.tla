----------------------------- MODULE EdgeProofs -----------------------------
(***************************************************************************)
(* Proofs about the paid call, for every number of requests and envelopes, *)
(* every set of bodies and environments and every combination of faults.   *)
(***************************************************************************)
EXTENDS EdgeProperties, TLAPS

-----------------------------------------------------------------------------
(***************************************************************************)
(* The pure pipeline.                                                      *)
(***************************************************************************)
(* serve() succeeds on exactly the bodies the service promises to          *)
(* transform.                                                              *)
LEMMA ServeOkIffComputable ==
  ASSUME NEW b \in BodyType
  PROVE  Serve(b) = "Ok" <=> Computable(b)
<1>1. Serve(b) = "Ok" <=> ParseRequest(b) = "Ok"
                          /\ QuoteFor(b.degree, FREE_TIER_MAX_LOG2) = "Ok"
                          /\ ComputeWasm(b) = "Ok"
  BY DEF Serve, ParseAndQuote, AndThen
<1>2. ParseRequest(b) = "Ok" <=> WellFormed(b)
  BY DEF ParseRequest, ParseDegree, PolyDegreeLog2, AndThen, Check, WellFormed,
         U8_MAX, BodyType
<1>3. QuoteFor(b.degree, FREE_TIER_MAX_LOG2) = "Ok" <=> b.degree <= 12
  BY DEF QuoteFor, Check, FREE_TIER_MAX_LOG2
<1>4. ComputeWasm(b) = "Ok" <=> b.coefficients = 2^b.degree /\ b.field = "Goldilocks"
  BY DEF ComputeWasm, AndThen, Check
<1>5. WellFormed(b) /\ b.degree <= 12 /\ b.coefficients = 2^b.degree
        /\ b.field = "Goldilocks" => Computable(b)
  BY DEF WellFormed, Computable, BodyType
<1>6. Computable(b) =>
        WellFormed(b) /\ b.degree <= 12 /\ b.coefficients = 2^b.degree
        /\ b.field = "Goldilocks"
  BY DEF WellFormed, Computable, Fields, BodyType
<1> QED
  BY <1>1, <1>2, <1>3, <1>4, <1>5, <1>6

(* serve() answers with Ok or an error of its own.                         *)
LEMMA ServeOutcome ==
  ASSUME NEW b
  PROVE  Serve(b) \in {"Ok"} \cup ServeErrors
BY DEF Serve, ParseAndQuote, ParseRequest, ParseDegree, PolyDegreeLog2, QuoteFor,
       ComputeWasm, AndThen, Check, ServeErrors, ParseErrors

-----------------------------------------------------------------------------
(***************************************************************************)
(* Types.                                                                  *)
(***************************************************************************)
(* A deployment's requirements and settlement configuration are those of   *)
(* an environment.                                                         *)
LEMMA EnvironmentTypes ==
  ASSUME NEW e \in Environments
  PROVE  /\ BuildRequirements(e) \in Requirements
         /\ SettlementConfig(e) \in Configs
BY DEF Requirements, Configs

(* The responses of the code are responses.                                *)
LEMMA ResponseTypes ==
  /\ \A error \in DomainErrors : DomainErrorResponse(error) \in Responses
  /\ \A o \in Requirements \cup {None} :
       /\ Response(200, "Ok", o, None) \in Responses
       /\ Response(402, "PaymentRequired", o, None) \in Responses
  /\ \A t \in Envelopes \cup {None} : Response(200, "Ok", None, t) \in Responses
  /\ Response(404, "NotFound", None, None) \in Responses
  /\ WorkerError \in Responses
<1>1. \A error \in DomainErrors : ErrorStatus(error) \in {400, 402, 413, 500}
  BY DEF DomainErrors, ServeErrors, ParseErrors, SettlementErrors, ErrorStatus,
     BackendErrors, RegistryErrors,
       FaucetErrors
<1> QED
  BY <1>1 DEF DomainErrorResponse, Response, Responses, WorkerError

(* The two parsers and serve() answer with Ok or a domain error.           *)
LEMMA ErrorTypes ==
  /\ \A b : Serve(b) # "Ok" => Serve(b) \in DomainErrors
  /\ \A t : ParseVerifyResponse(t) # "Ok" => ParseVerifyResponse(t) = "VerifyRejected"
  /\ \A t : ParseSettleResponse(t) # "Ok" => ParseSettleResponse(t) = "SettleRejected"
  /\ {"Transport", "VerifyRejected", "SettleRejected"} \subseteq DomainErrors
BY ServeOutcome
   DEF ParseVerifyResponse, ParseSettleResponse, Check, AndThen, DomainErrors,
       SettlementErrors

(* Every answer of the facilitator after a settlement is a text.           *)
LEMMA SettledTextTypes == \A e \in Envelopes : SettledTexts(e) \subseteq Texts
<1>1. \A e \in Envelopes : \A flag \in BOOLEAN :
        /\ [flag |-> flag, transaction |-> e] \in Texts
        /\ [flag |-> flag, transaction |-> None] \in Texts
  BY DEF Texts
<1> QED
  BY <1>1 DEF SettledTexts, Negative

(* The response to an error says which one; 200 is never among them.       *)
LEMMA ErrorResponses ==
  \A error \in DomainErrors :
    /\ DomainErrorResponse(error).status # 200
    /\ DomainErrorResponse(error).error = error
    /\ error \in SettlementErrors => DomainErrorResponse(error).status = 402
BY DEF DomainErrorResponse, Response, ErrorStatus, DomainErrors, ServeErrors,
       ParseErrors, SettlementErrors, BackendErrors, RegistryErrors,
       FaucetErrors

(* Before the first request everything has its type.                       *)
LEMMA TypeInit == Init => TypeOK
BY DEF Init, TypeOK

(* Every step keeps the types.                                             *)
LEMMA TypeStep == TypeOK /\ TaskInv /\ [Next]_vars => TypeOK'
<1> SUFFICES ASSUME TypeOK, TaskInv, [Next]_vars PROVE TypeOK'
  OBVIOUS
<1> USE DEF TypeOK
<1>1. ASSUME NEW r \in Requests, Dispatch(r) PROVE TypeOK'
  <2>1. StaticResponses \subseteq Responses
    BY EnvironmentTypes, ResponseTypes DEF StaticResponses
  <2> QED
    BY <1>1, <2>1 DEF Dispatch, Respond, Move, task, wire, world
<1>2. ASSUME NEW r \in Requests, RespondPaymentRequired(r) PROVE TypeOK'
  BY <1>2, EnvironmentTypes, ResponseTypes
     DEF RespondPaymentRequired, Respond, Move, task, wire, world
<1>3. ASSUME NEW r \in Requests, NEW e \in Envelopes, NEW b \in Bodies,
             SettleAndServe(r, e, b)
      PROVE  TypeOK'
  <2>1. CASE ConfigMissing(r, e, b)
    BY <2>1, ErrorTypes, ResponseTypes
       DEF ConfigMissing, Present, Receive, Respond, Move, wire, world
  <2>2. CASE EnvelopeUndecodable(r, e, b)
    BY <2>2, ErrorTypes, ResponseTypes, EnvironmentTypes
       DEF EnvelopeUndecodable, Present, Receive, Respond, Move, wire, world
  <2>3. CASE SendVerify(r, e, b)
    BY <2>3, EnvironmentTypes
       DEF SendVerify, Present, Receive, Move, world, Posts
  <2> QED
    BY <1>3, <2>1, <2>2, <2>3 DEF SettleAndServe
<1>4. ASSUME NEW r \in Requests, Resume(r) PROVE TypeOK'
  <2>1. CASE VerifyAccepted(r)
    BY <2>1 DEF VerifyAccepted, Move, task, world
  <2>2. CASE VerifyRejected(r)
    BY <2>2, ErrorTypes, ResponseTypes DEF VerifyRejected, Respond, Move, task, world
  <2>3. CASE ServeAndSettle(r)
    <3>1. pc[r] = "body" /\ envelope[r] \in Envelopes /\ config[r] \in Configs
      BY <2>3 DEF ServeAndSettle, Move, TaskInv
    <3> QED
      BY <2>3, <3>1 DEF ServeAndSettle, SettlePost, Move, task, world, Posts
  <2>4. CASE ServeFails(r)
    BY <2>4, ErrorTypes, ResponseTypes DEF ServeFails, Respond, Move, task, wire, world
  <2>5. CASE SettleAccepted(r)
    BY <2>5, ResponseTypes
       DEF SettleAccepted, Awaited, Answers, Texts, Respond, Move, task, world
  <2>6. CASE SettleRejected(r)
    BY <2>6, ErrorTypes, ResponseTypes DEF SettleRejected, Respond, Move, task, world
  <2> QED
    BY <1>4, <2>1, <2>2, <2>3, <2>4, <2>5, <2>6 DEF Resume
<1>5. ASSUME NEW r \in Requests, PostFails(r) \/ ReadBodyFails(r) \/ Drop(r)
      PROVE  TypeOK'
  BY <1>5, ErrorTypes, ResponseTypes
     DEF PostFails, ReadBodyFails, Drop, Respond, Move, task, wire, world
<1>6. ASSUME NEW r \in Requests, Facilitator(r) PROVE TypeOK'
  <2>1. ASSUME NEW m \in posts, NEW text \in Texts, Handled(m, text)
        PROVE  posts' \subseteq Posts /\ answers' \subseteq Answers
    BY <2>1 DEF Handled, Posts, Answers
  <2>2. CASE FacilitatorVerifies(r)
    <3>1. \A valid \in BOOLEAN : [flag |-> valid, transaction |-> None] \in Texts
      BY DEF Texts
    <3>2. posts' \subseteq Posts /\ answers' \subseteq Answers
      BY <2>1, <2>2, <3>1 DEF FacilitatorVerifies
    <3> QED
      BY <2>2, <3>2 DEF FacilitatorVerifies, task, world
  <2>3. CASE FacilitatorSettles(r)
    <3>1. \A m \in posts : m.envelope \in Envelopes /\ SettledTexts(m.envelope) \subseteq Texts
      BY SettledTextTypes DEF Posts
    <3>2. posts' \subseteq Posts /\ answers' \subseteq Answers
      BY <2>1, <2>3, <3>1 DEF FacilitatorSettles
    <3> QED
      BY <2>3, <3>1, <3>2 DEF FacilitatorSettles, task
  <2>4. CASE FacilitatorRefuses(r)
    BY <2>1, <2>4 DEF FacilitatorRefuses, Negative, Texts, task, world
  <2> QED
    BY <1>6, <2>2, <2>3, <2>4 DEF Facilitator
<1>7. ASSUME NEW e \in Envelopes, Sign(e) PROVE TypeOK'
  BY <1>7 DEF Sign, Responses, task, wire
<1>8. ASSUME NEW e \in Environments, Deploy(e) PROVE TypeOK'
  BY <1>8 DEF Deploy, task, wire
<1>9. CASE UNCHANGED vars
  BY <1>9 DEF vars
<1> HIDE DEF TypeOK
<1> QED
  BY <1>1, <1>2, <1>3, <1>4, <1>5, <1>6, <1>7, <1>8, <1>9 DEF Next

-----------------------------------------------------------------------------
(***************************************************************************)
(* The inductive invariant, one conjunct at a time.                        *)
(***************************************************************************)
(* A captured configuration carries requirements.                          *)
LEMMA ConfigTypes ==
  \A c \in Configs : c.requirements \in Requirements /\ c.requirements # None
BY NoneAssumption DEF Configs, SettlementConfig, Requirements

(* A task holds its header, body and configuration from its arrival on,    *)
(* and only what is verified and computed goes further.                    *)
LEMMA TaskStep == TypeOK /\ TaskInv /\ AnswerInv /\ [Next]_vars => TaskInv'
<1> SUFFICES ASSUME TypeOK, TaskInv, AnswerInv, [Next]_vars PROVE TaskInv'
  OBVIOUS
<1>1. ASSUME NEW r \in Requests, Dispatch(r) PROVE TaskInv'
  <2>1. \A x \in StaticResponses : x # None
    BY EnvironmentTypes, ResponseTypes, NoneAssumption DEF StaticResponses, TypeOK
  <2> QED
    BY <1>1, <2>1 DEF Dispatch, Respond, Move, task, wire, world, TypeOK, TaskInv
<1>2. ASSUME NEW r \in Requests, RespondPaymentRequired(r) PROVE TaskInv'
  <2>1. Response(402, "PaymentRequired", BuildRequirements(env), None) # None
    BY EnvironmentTypes, ResponseTypes, NoneAssumption DEF TypeOK
  <2> QED
    BY <1>2, <2>1
       DEF RespondPaymentRequired, Respond, Move, task, wire, world, TypeOK, TaskInv
<1>3. \A x \in DomainErrors : DomainErrorResponse(x) # None
  BY ResponseTypes, NoneAssumption
<1>4. ASSUME NEW r \in Requests, NEW e \in Envelopes, NEW b \in Bodies,
             SettleAndServe(r, e, b)
      PROVE  TaskInv'
  <2>1. e # None /\ b # None /\ SettlementConfig(env) # None
    BY NoneAssumption, EnvironmentTypes DEF TypeOK
  <2>2. CASE ConfigMissing(r, e, b)
    BY <2>1, <2>2, <1>3, ErrorTypes
       DEF ConfigMissing, Present, Receive, Respond, Move, wire, world, TypeOK, TaskInv
  <2>3. CASE EnvelopeUndecodable(r, e, b)
    BY <2>1, <2>3, <1>3, ErrorTypes
       DEF EnvelopeUndecodable, Present, Receive, Respond, Move, wire, world, TypeOK, TaskInv
  <2>4. CASE SendVerify(r, e, b)
    BY <2>1, <2>4
       DEF SendVerify, Present, Receive, Move, world, TypeOK, TaskInv
  <2> QED
    BY <1>4, <2>2, <2>3, <2>4 DEF SettleAndServe
<1>5. ASSUME NEW r \in Requests, Resume(r) PROVE TaskInv'
  <2>1. CASE VerifyAccepted(r)
    <3>1. signed[envelope[r]] = config[r].requirements
      BY <2>1 DEF VerifyAccepted, Awaited, ParseVerifyResponse, Check, AnswerInv
    <3> QED
      BY <2>1, <3>1 DEF VerifyAccepted, Move, task, world, TypeOK, TaskInv
  <2>2. CASE VerifyRejected(r)
    BY <2>2, <1>3, ErrorTypes DEF VerifyRejected, Respond, Move, task, world, TypeOK, TaskInv
  <2>3. CASE ServeAndSettle(r)
    BY <2>3 DEF ServeAndSettle, Move, task, world, TypeOK, TaskInv
  <2>4. CASE ServeFails(r)
    BY <2>4, <1>3, ErrorTypes DEF ServeFails, Respond, Move, task, wire, world, TypeOK, TaskInv
  <2>5. CASE SettleAccepted(r)
    <3>1. PICK a \in Awaited(r, "settle") :
            Respond(r, "settle", Response(200, "Ok", None, a.text.transaction))
      BY <2>5 DEF SettleAccepted
    <3>2. Response(200, "Ok", None, a.text.transaction) # None
      BY ResponseTypes, NoneAssumption DEF Awaited, Answers, Texts, TypeOK
    <3> QED
      BY <2>5, <3>1, <3>2 DEF SettleAccepted, Respond, Move, task, world, TypeOK, TaskInv
  <2>6. CASE SettleRejected(r)
    BY <2>6, <1>3, ErrorTypes DEF SettleRejected, Respond, Move, task, world, TypeOK, TaskInv
  <2> QED
    BY <1>5, <2>1, <2>2, <2>3, <2>4, <2>5, <2>6 DEF Resume
<1>6. ASSUME NEW r \in Requests, PostFails(r) \/ ReadBodyFails(r) \/ Drop(r)
      PROVE  TaskInv'
  <2>1. WorkerError # None
    BY ResponseTypes, NoneAssumption
  <2>2. CASE PostFails(r)
    BY <2>2, <1>3, ErrorTypes DEF PostFails, Respond, Move, task, wire, world, TypeOK, TaskInv
  <2>3. CASE ReadBodyFails(r)
    BY <2>3, <2>1 DEF ReadBodyFails, Respond, Move, task, wire, world, TypeOK, TaskInv
  <2>4. CASE Drop(r)
    BY <2>4 DEF Drop, Move, task, wire, world, TypeOK, TaskInv
  <2> QED
    BY <1>6, <2>2, <2>3, <2>4
<1>7. ASSUME NEW r \in Requests, Facilitator(r) PROVE TaskInv'
  BY <1>7
     DEF Facilitator, FacilitatorVerifies, FacilitatorSettles, FacilitatorRefuses,
         task, world, TaskInv
<1>8. ASSUME NEW e \in Envelopes, Sign(e) PROVE TaskInv'
  BY <1>8, ConfigTypes DEF Sign, task, wire, TypeOK, TaskInv
<1>9. ASSUME NEW e \in Environments, Deploy(e) PROVE TaskInv'
  BY <1>9 DEF Deploy, task, wire, TaskInv
<1>10. CASE UNCHANGED vars
  BY <1>10 DEF vars, TaskInv
<1> QED
  BY <1>1, <1>2, <1>4, <1>5, <1>6, <1>7, <1>8, <1>9, <1>10 DEF Next

(* A POST stays true to its task, and one to /settle to a task that waits  *)
(* for it or gave up on it.                                                *)
LEMMA PostStep == TypeOK /\ TaskInv /\ PostInv /\ AnswerInv /\ [Next]_vars => PostInv'
<1> SUFFICES ASSUME TypeOK, TaskInv, PostInv, AnswerInv, [Next]_vars PROVE PostInv'
  OBVIOUS
<1> USE DEF TypeOK, PostInv, AtSettle, Unsettled
<1>1. ASSUME NEW r \in Requests, Dispatch(r) \/ RespondPaymentRequired(r)
      PROVE  PostInv'
  BY <1>1 DEF Dispatch, RespondPaymentRequired, Respond, Move, task, wire, world, Posts
<1>2. ASSUME NEW r \in Requests, NEW e \in Envelopes, NEW b \in Bodies,
             SettleAndServe(r, e, b)
      PROVE  PostInv'
  <2>1. CASE ConfigMissing(r, e, b)
    BY <2>1 DEF ConfigMissing, Present, Receive, Respond, Move, wire, world, Posts
  <2>2. CASE EnvelopeUndecodable(r, e, b)
    BY <2>2 DEF EnvelopeUndecodable, Present, Receive, Respond, Move, wire, world, Posts
  <2>3. CASE SendVerify(r, e, b)
    BY <2>3, EnvironmentTypes DEF SendVerify, Present, Receive, Move, world, Posts
  <2> QED
    BY <1>2, <2>1, <2>2, <2>3 DEF SettleAndServe
<1>3. ASSUME NEW r \in Requests, Resume(r) PROVE PostInv'
  <2>1. CASE VerifyAccepted(r)
    BY <2>1 DEF VerifyAccepted, Move, task, world, Posts
  <2>2. CASE VerifyRejected(r)
    BY <2>2 DEF VerifyRejected, Respond, Move, task, world, Posts
  <2>3. CASE ServeAndSettle(r)
    BY <2>3 DEF ServeAndSettle, SettlePost, Move, task, world, Posts, TaskInv
  <2>4. CASE ServeFails(r)
    BY <2>4 DEF ServeFails, Respond, Move, task, wire, world, Posts
  <2>5. CASE SettleAccepted(r)
    BY <2>5 DEF SettleAccepted, Awaited, AnswerInv, Respond, Move, task, world, Posts
  <2>6. CASE SettleRejected(r)
    BY <2>6 DEF SettleRejected, Awaited, AnswerInv, Respond, Move, task, world, Posts
  <2> QED
    BY <1>3, <2>1, <2>2, <2>3, <2>4, <2>5, <2>6 DEF Resume
<1>4. ASSUME NEW r \in Requests, PostFails(r) \/ ReadBodyFails(r) \/ Drop(r)
      PROVE  PostInv'
  <2>1. CASE PostFails(r)
    BY <2>1, ErrorResponses, ErrorTypes
       DEF PostFails, SettlementErrors, Respond, Move, task, wire, world, Posts
  <2>2. CASE ReadBodyFails(r)
    BY <2>2 DEF ReadBodyFails, Respond, Move, task, wire, world, Posts
  <2>3. CASE Drop(r)
    BY <2>3 DEF Drop, Move, task, wire, world, Posts
  <2> QED
    BY <1>4, <2>1, <2>2, <2>3
<1>5. ASSUME NEW r \in Requests, Facilitator(r) PROVE PostInv'
  BY <1>5
     DEF Facilitator, FacilitatorVerifies, FacilitatorSettles, FacilitatorRefuses,
         Handled, task, world
<1>6. ASSUME NEW e \in Envelopes, Sign(e) PROVE PostInv'
  BY <1>6, ConfigTypes DEF Sign, task, wire, Posts
<1>7. ASSUME NEW e \in Environments, Deploy(e) PROVE PostInv'
  BY <1>7 DEF Deploy, task, wire
<1>8. CASE UNCHANGED vars
  BY <1>8 DEF vars
<1> HIDE DEF PostInv
<1> QED
  BY <1>1, <1>2, <1>3, <1>4, <1>5, <1>6, <1>7, <1>8 DEF Next

(* A positive answer stays true: the ledger only grows, an envelope is     *)
(* signed once, and the answer to a settlement is the only trace of it.    *)
LEMMA AnswerStep == TypeOK /\ TaskInv /\ PostInv /\ AnswerInv /\ [Next]_vars => AnswerInv'
<1> SUFFICES ASSUME TypeOK, TaskInv, PostInv, AnswerInv, [Next]_vars PROVE AnswerInv'
  OBVIOUS
<1> USE DEF TypeOK, AnswerInv, AtSettle
<1>1. ASSUME NEW r \in Requests, Dispatch(r) \/ RespondPaymentRequired(r)
      PROVE  AnswerInv'
  BY <1>1 DEF Dispatch, RespondPaymentRequired, Respond, Move, task, wire, world, Answers
<1>2. ASSUME NEW r \in Requests, NEW e \in Envelopes, NEW b \in Bodies,
             SettleAndServe(r, e, b)
      PROVE  AnswerInv'
  <2>1. CASE ConfigMissing(r, e, b)
    BY <2>1 DEF ConfigMissing, Present, Receive, Respond, Move, wire, world, Answers
  <2>2. CASE EnvelopeUndecodable(r, e, b)
    BY <2>2 DEF EnvelopeUndecodable, Present, Receive, Respond, Move, wire, world, Answers
  <2>3. CASE SendVerify(r, e, b)
    BY <2>3 DEF SendVerify, Present, Receive, Move, world, Answers
  <2> QED
    BY <1>2, <2>1, <2>2, <2>3 DEF SettleAndServe
<1>3. ASSUME NEW r \in Requests, Resume(r) PROVE AnswerInv'
  <2>1. CASE VerifyAccepted(r)
    BY <2>1 DEF VerifyAccepted, Move, task, world, Answers
  <2>2. CASE VerifyRejected(r)
    BY <2>2 DEF VerifyRejected, Respond, Move, task, world, Answers
  <2>3. CASE ServeAndSettle(r)
    BY <2>3 DEF ServeAndSettle, SettlePost, Move, task, world, Answers
  <2>4. CASE ServeFails(r)
    BY <2>4 DEF ServeFails, Respond, Move, task, wire, world, Answers
  <2>5. CASE SettleAccepted(r)
    BY <2>5 DEF SettleAccepted, Respond, Move, task, world, Answers
  <2>6. CASE SettleRejected(r)
    BY <2>6 DEF SettleRejected, Respond, Move, task, world, Answers
  <2> QED
    BY <1>3, <2>1, <2>2, <2>3, <2>4, <2>5, <2>6 DEF Resume
<1>4. ASSUME NEW r \in Requests, PostFails(r) \/ ReadBodyFails(r) \/ Drop(r)
      PROVE  AnswerInv'
  <2>1. CASE PostFails(r)
    BY <2>1 DEF PostFails, Respond, Move, task, wire, world, Answers
  <2>2. CASE ReadBodyFails(r)
    BY <2>2 DEF ReadBodyFails, Respond, Move, task, wire, world, Answers
  <2>3. CASE Drop(r)
    BY <2>3 DEF Drop, Move, task, wire, world, Answers
  <2> QED
    BY <1>4, <2>1, <2>2, <2>3
<1>5. ASSUME NEW r \in Requests, Facilitator(r) PROVE AnswerInv'
  <2>1. \A m \in posts :
          /\ m.request \in Requests /\ pc[m.request] # "idle"
          /\ m.envelope = envelope[m.request] /\ m.envelope # None
          /\ m.config = config[m.request] /\ m.config # None
          /\ m.path = "settle" => AtSettle(m.request)
    BY NoneAssumption DEF PostInv, Posts
  <2>2. \A m, n \in posts : m.request = n.request /\ m.path = n.path => m = n
    BY DEF PostInv, Posts
  <2>3. CASE FacilitatorVerifies(r)
    BY <2>1, <2>3 DEF FacilitatorVerifies, Handled, Acceptable, task, world
  <2>4. CASE FacilitatorSettles(r)
    <3>1. PICK m \in posts :
            /\ m.request = r /\ m.path = "settle"
            /\ \E text \in SettledTexts(m.envelope) : Handled(m, text)
            /\ ledger' = ledger \cup {m.envelope}
      BY <2>4 DEF FacilitatorSettles
    <3>2. \A text \in SettledTexts(m.envelope) :
            text.transaction # None => text.transaction = m.envelope
      BY DEF SettledTexts, Negative
    <3> QED
      BY <2>1, <2>2, <2>4, <3>1, <3>2 DEF FacilitatorSettles, Handled, task
  <2>5. CASE FacilitatorRefuses(r)
    BY <2>1, <2>2, <2>5 DEF FacilitatorRefuses, Handled, Negative, task, world
  <2> QED
    BY <1>5, <2>3, <2>4, <2>5 DEF Facilitator
<1>6. ASSUME NEW e \in Envelopes, Sign(e) PROVE AnswerInv'
  BY <1>6, ConfigTypes DEF Sign, task, wire, Answers
<1>7. ASSUME NEW e \in Environments, Deploy(e) PROVE AnswerInv'
  BY <1>7 DEF Deploy, task, wire
<1>8. CASE UNCHANGED vars
  BY <1>8 DEF vars
<1> HIDE DEF AnswerInv
<1> QED
  BY <1>1, <1>2, <1>3, <1>4, <1>5, <1>6, <1>7, <1>8 DEF Next

(* Whoever is served has paid.                                             *)
LEMMA ServedStep ==
  TypeOK /\ TaskInv /\ AnswerInv /\ ServedOnlyIfPaid /\ [Next]_vars => ServedOnlyIfPaid'
<1> SUFFICES ASSUME TypeOK, TaskInv, AnswerInv, ServedOnlyIfPaid, [Next]_vars
             PROVE  ServedOnlyIfPaid'
  OBVIOUS
<1> USE DEF TypeOK, ServedOnlyIfPaid, Served
<1>1. ASSUME NEW r \in Requests, Dispatch(r) \/ RespondPaymentRequired(r)
      PROVE  ServedOnlyIfPaid'
  BY <1>1 DEF Dispatch, RespondPaymentRequired, Respond, Move, task, wire, world, TaskInv
<1>2. \A x \in DomainErrors : DomainErrorResponse(x).status # 200
  BY ErrorResponses
<1>3. ASSUME NEW r \in Requests, NEW e \in Envelopes, NEW b \in Bodies,
             SettleAndServe(r, e, b)
      PROVE  ServedOnlyIfPaid'
  <2>1. CASE ConfigMissing(r, e, b)
    BY <2>1, <1>2, ErrorTypes DEF ConfigMissing, Present, Receive, Respond, Move, wire, world
  <2>2. CASE EnvelopeUndecodable(r, e, b)
    BY <2>2, <1>2, ErrorTypes
       DEF EnvelopeUndecodable, Present, Receive, Respond, Move, wire, world
  <2>3. CASE SendVerify(r, e, b)
    BY <2>3 DEF SendVerify, Present, Receive, Move, world
  <2> QED
    BY <1>3, <2>1, <2>2, <2>3 DEF SettleAndServe
<1>4. ASSUME NEW r \in Requests, Resume(r) PROVE ServedOnlyIfPaid'
  <2>1. CASE VerifyAccepted(r)
    BY <2>1 DEF VerifyAccepted, Move, task, world
  <2>2. CASE VerifyRejected(r)
    BY <2>2, <1>2, ErrorTypes DEF VerifyRejected, Respond, Move, task, world
  <2>3. CASE ServeAndSettle(r)
    BY <2>3 DEF ServeAndSettle, Move, task, world
  <2>4. CASE ServeFails(r)
    BY <2>4, <1>2, ErrorTypes DEF ServeFails, Respond, Move, task, wire, world
  <2>5. CASE SettleAccepted(r)
    <3>1. PICK a \in Awaited(r, "settle") :
            /\ ParseSettleResponse(a.text) = "Ok"
            /\ Respond(r, "settle", Response(200, "Ok", None, a.text.transaction))
      BY <2>5 DEF SettleAccepted
    <3>2. /\ a.text.transaction = envelope[r]
          /\ envelope[r] \in ledger
          /\ signed[envelope[r]] # None
          /\ signed[envelope[r]] = config[r].requirements
      BY <3>1, ConfigTypes DEF Awaited, ParseSettleResponse, AndThen, Check, AnswerInv, AtSettle
    <3> QED
      BY <2>5, <3>1, <3>2 DEF SettleAccepted, Response, Respond, Move, task, world
  <2>6. CASE SettleRejected(r)
    BY <2>6, <1>2, ErrorTypes DEF SettleRejected, Respond, Move, task, world
  <2> QED
    BY <1>4, <2>1, <2>2, <2>3, <2>4, <2>5, <2>6 DEF Resume
<1>5. ASSUME NEW r \in Requests, PostFails(r) \/ ReadBodyFails(r) \/ Drop(r)
      PROVE  ServedOnlyIfPaid'
  <2>1. CASE PostFails(r)
    BY <2>1, <1>2, ErrorTypes DEF PostFails, Respond, Move, task, wire, world
  <2>2. CASE ReadBodyFails(r)
    BY <2>2 DEF ReadBodyFails, WorkerError, Response, Respond, Move, task, wire, world
  <2>3. CASE Drop(r)
    BY <2>3 DEF Drop, Move, task, wire, world
  <2> QED
    BY <1>5, <2>1, <2>2, <2>3
<1>6. ASSUME NEW r \in Requests, Facilitator(r) PROVE ServedOnlyIfPaid'
  BY <1>6
     DEF Facilitator, FacilitatorVerifies, FacilitatorSettles, FacilitatorRefuses,
         task, world
<1>7. ASSUME NEW e \in Envelopes, Sign(e) PROVE ServedOnlyIfPaid'
  BY <1>7 DEF Sign, task, wire
<1>8. ASSUME NEW e \in Environments, Deploy(e) PROVE ServedOnlyIfPaid'
  BY <1>8 DEF Deploy, task, wire
<1>9. CASE UNCHANGED vars
  BY <1>9 DEF vars
<1> HIDE DEF ServedOnlyIfPaid
<1> QED
  BY <1>1, <1>3, <1>4, <1>5, <1>6, <1>7, <1>8, <1>9 DEF Next

(* A call that accounts for a charge keeps doing so: from /settle it can   *)
(* only be served, left unsettled or dropped.                              *)
LEMMA ChargedByStep ==
  ASSUME TypeOK, TaskInv, [Next]_vars,
         NEW q \in Requests, NEW c \in Envelopes, ChargedBy(q, c)
  PROVE  ChargedBy(q, c)'
<1> USE DEF TypeOK, ChargedBy, Served, Unsettled
<1>1. pc[q] \in {"settle", "done", "gone"} /\ body[q] # None
  BY NoneAssumption DEF TaskInv
<1>2. ASSUME NEW r \in Requests, Dispatch(r) \/ RespondPaymentRequired(r)
      PROVE  ChargedBy(q, c)'
  BY <1>1, <1>2 DEF Dispatch, RespondPaymentRequired, Respond, Move, task, wire, world
<1>3. ASSUME NEW r \in Requests, NEW e \in Envelopes, NEW b \in Bodies,
             SettleAndServe(r, e, b)
      PROVE  ChargedBy(q, c)'
  <2>1. CASE ConfigMissing(r, e, b)
    BY <1>1, <2>1 DEF ConfigMissing, Present, Receive, Respond, Move, wire, world
  <2>2. CASE EnvelopeUndecodable(r, e, b)
    BY <1>1, <2>2 DEF EnvelopeUndecodable, Present, Receive, Respond, Move, wire, world
  <2>3. CASE SendVerify(r, e, b)
    BY <1>1, <2>3 DEF SendVerify, Present, Receive, Move, world
  <2> QED
    BY <1>3, <2>1, <2>2, <2>3 DEF SettleAndServe
<1>4. ASSUME NEW r \in Requests, Resume(r) PROVE ChargedBy(q, c)'
  <2>1. CASE VerifyAccepted(r)
    BY <1>1, <2>1 DEF VerifyAccepted, Move, task, world
  <2>2. CASE VerifyRejected(r)
    BY <1>1, <2>2 DEF VerifyRejected, Respond, Move, task, world
  <2>3. CASE ServeAndSettle(r)
    BY <1>1, <2>3 DEF ServeAndSettle, Move, task, world
  <2>4. CASE ServeFails(r)
    BY <1>1, <2>4 DEF ServeFails, Respond, Move, task, wire, world
  <2>5. CASE SettleAccepted(r)
    BY <1>1, <2>5 DEF SettleAccepted, Response, Respond, Move, task, world
  <2>6. CASE SettleRejected(r)
    BY <1>1, <2>6, ErrorTypes, ErrorResponses
       DEF SettleRejected, SettlementErrors, Respond, Move, task, world
  <2> QED
    BY <1>4, <2>1, <2>2, <2>3, <2>4, <2>5, <2>6 DEF Resume
<1>5. ASSUME NEW r \in Requests, PostFails(r) \/ ReadBodyFails(r) \/ Drop(r)
      PROVE  ChargedBy(q, c)'
  <2>1. CASE PostFails(r)
    BY <1>1, <2>1, ErrorResponses, ErrorTypes
       DEF PostFails, SettlementErrors, Respond, Move, task, wire, world
  <2>2. CASE ReadBodyFails(r)
    BY <1>1, <2>2 DEF ReadBodyFails, Respond, Move, task, wire, world
  <2>3. CASE Drop(r)
    BY <1>1, <2>3 DEF Drop, Move, task, wire, world
  <2> QED
    BY <1>5, <2>1, <2>2, <2>3
<1>6. ASSUME NEW r \in Requests, Facilitator(r) PROVE ChargedBy(q, c)'
  BY <1>6
     DEF Facilitator, FacilitatorVerifies, FacilitatorSettles, FacilitatorRefuses,
         task, world
<1>7. ASSUME NEW e \in Envelopes, Sign(e) PROVE ChargedBy(q, c)'
  BY <1>7 DEF Sign, task, wire
<1>8. ASSUME NEW e \in Environments, Deploy(e) PROVE ChargedBy(q, c)'
  BY <1>8 DEF Deploy, task, wire
<1>9. CASE UNCHANGED vars
  BY <1>9 DEF vars
<1> HIDE DEF ChargedBy
<1> QED
  BY <1>2, <1>3, <1>4, <1>5, <1>6, <1>7, <1>8, <1>9 DEF Next

(* The ledger grows by settlements only.                                   *)
LEMMA LedgerGrowsBySettling ==
  [Next]_vars => ledger' = ledger \/ \E r \in Requests : FacilitatorSettles(r)
BY DEF Next, vars, world, Dispatch, RespondPaymentRequired, SettleAndServe,
       ConfigMissing, EnvelopeUndecodable, SendVerify, Resume, VerifyAccepted,
       VerifyRejected, ServeAndSettle, ServeFails, SettleAccepted, SettleRejected,
       PostFails, ReadBodyFails, Drop, Facilitator, FacilitatorVerifies,
       FacilitatorRefuses, Sign, Deploy

(* The ledger grows only by the envelope of a call at /settle, whose body  *)
(* has been computed.                                                      *)
LEMMA LedgerStep ==
  ASSUME TypeOK, PostInv, [Next]_vars, NEW c \in ledger' \ ledger
  PROVE  \E q \in Requests : ChargedBy(q, c)'
<1>1. PICK r \in Requests : FacilitatorSettles(r)
  BY LedgerGrowsBySettling
<1>2. PICK m \in posts : m.path = "settle" /\ ledger' = ledger \cup {m.envelope}
  BY <1>1 DEF FacilitatorSettles
<1>3. m.request \in Requests /\ m.envelope = c /\ envelope[m.request] = c
  BY <1>2 DEF TypeOK, Posts, PostInv
<1>4. AtSettle(m.request) /\ (pc[m.request] = "settle" \/ Unsettled(m.request))
  BY <1>2 DEF PostInv
<1>5. Computable(body[m.request])
  BY <1>3, <1>4, ServeOkIffComputable, EdgeAssumption DEF AtSettle, TypeOK
<1> QED
  BY <1>1, <1>3, <1>4, <1>5 DEF FacilitatorSettles, ChargedBy, Served, Unsettled, task

(* Every charge is accounted for.                                          *)
LEMMA ChargeStep ==
  TypeOK /\ TaskInv /\ PostInv /\ ChargeAccounted /\ [Next]_vars => ChargeAccounted'
<1> SUFFICES ASSUME TypeOK, TaskInv, PostInv, ChargeAccounted, [Next]_vars,
                    NEW c \in ledger'
             PROVE  \E q \in Requests : ChargedBy(q, c)'
  BY DEF ChargeAccounted
<1>1. CASE c \in ledger
  <2>1. PICK q \in Requests : ChargedBy(q, c)
    BY <1>1 DEF ChargeAccounted
  <2>2. c \in Envelopes
    BY <1>1 DEF TypeOK
  <2> QED
    BY <2>1, <2>2, ChargedByStep
<1>2. CASE c \notin ledger
  BY <1>2, LedgerStep
<1> QED
  BY <1>1, <1>2

(* Who becomes a winner: nobody, but by a settlement of the facilitator.   *)
LEMMA NewWinner ==
  ASSUME TypeOK, TaskInv, PostInv, AnswerInv, [Next]_vars,
         NEW q \in Requests, Winner(q)', ~Winner(q)
  PROVE  \E m \in posts :
           /\ m.request = q /\ m.path = "settle"
           /\ Acceptable(m)
           /\ FacilitatorSettles(q)
<1> USE DEF TypeOK, Winner, Served
<1>1. ASSUME NEW r \in Requests, Dispatch(r) \/ RespondPaymentRequired(r)
      PROVE  FALSE
  BY <1>1 DEF Dispatch, RespondPaymentRequired, Respond, Move, task, wire, world, TaskInv
<1>2. \A x \in DomainErrors : DomainErrorResponse(x).status # 200
  BY ErrorResponses
<1>3. ASSUME NEW r \in Requests, NEW e \in Envelopes, NEW b \in Bodies,
             SettleAndServe(r, e, b)
      PROVE  FALSE
  <2>1. CASE ConfigMissing(r, e, b)
    BY <2>1, <1>2, ErrorTypes DEF ConfigMissing, Present, Receive, Respond, Move, wire, world
  <2>2. CASE EnvelopeUndecodable(r, e, b)
    BY <2>2, <1>2, ErrorTypes
       DEF EnvelopeUndecodable, Present, Receive, Respond, Move, wire, world
  <2>3. CASE SendVerify(r, e, b)
    BY <2>3 DEF SendVerify, Present, Receive, Move, world
  <2> QED
    BY <1>3, <2>1, <2>2, <2>3 DEF SettleAndServe
<1>4. ASSUME NEW r \in Requests, Resume(r) PROVE FALSE
  <2>1. CASE VerifyAccepted(r)
    BY <2>1 DEF VerifyAccepted, Move, task, world
  <2>2. CASE VerifyRejected(r)
    BY <2>2, <1>2, ErrorTypes DEF VerifyRejected, Respond, Move, task, world
  <2>3. CASE ServeAndSettle(r)
    BY <2>3 DEF ServeAndSettle, Move, task, world
  <2>4. CASE ServeFails(r)
    BY <2>4, <1>2, ErrorTypes DEF ServeFails, Respond, Move, task, wire, world
  <2>5. CASE SettleAccepted(r)
    BY <2>5
       DEF SettleAccepted, Awaited, ParseSettleResponse, AndThen, Check, Respond, Move,
           task, world
  <2>6. CASE SettleRejected(r)
    BY <2>6, <1>2, ErrorTypes DEF SettleRejected, Respond, Move, task, world
  <2> QED
    BY <1>4, <2>1, <2>2, <2>3, <2>4, <2>5, <2>6 DEF Resume
<1>5. ASSUME NEW r \in Requests, PostFails(r) \/ ReadBodyFails(r) \/ Drop(r)
      PROVE  FALSE
  <2>1. CASE PostFails(r)
    BY <2>1, <1>2, ErrorTypes DEF PostFails, Respond, Move, task, wire, world
  <2>2. CASE ReadBodyFails(r)
    BY <2>2 DEF ReadBodyFails, WorkerError, Response, Respond, Move, task, wire, world
  <2>3. CASE Drop(r)
    BY <2>3 DEF Drop, Move, task, wire, world
  <2> QED
    BY <1>5, <2>1, <2>2, <2>3
<1>6. ASSUME NEW r \in Requests, FacilitatorVerifies(r) PROVE FALSE
  BY <1>6 DEF FacilitatorVerifies, Handled, task, world
<1>7. ASSUME NEW r \in Requests, FacilitatorRefuses(r) PROVE FALSE
  BY <1>7 DEF FacilitatorRefuses, Handled, Negative, task, world
<1>8. ASSUME NEW r \in Requests, FacilitatorSettles(r)
      PROVE  r = q /\ \E m \in posts : m.request = q /\ m.path = "settle" /\ Acceptable(m)
  BY <1>8 DEF FacilitatorSettles, Handled, task
<1>9. ASSUME NEW e \in Envelopes, Sign(e) PROVE FALSE
  BY <1>9 DEF Sign, task, wire
<1>10. ASSUME NEW e \in Environments, Deploy(e) PROVE FALSE
  BY <1>10 DEF Deploy, task, wire
<1>11. ~UNCHANGED vars
  BY DEF vars
<1> HIDE DEF TypeOK, Winner
<1> QED
  BY <1>1, <1>3, <1>4, <1>5, <1>6, <1>7, <1>8, <1>9, <1>10, <1>11 DEF Next, Facilitator

(* A winner has been through /settle, where its envelope is fixed.         *)
LEMMA WinnerEnvelope ==
  ASSUME TypeOK, TaskInv, AnswerInv, [Next]_vars, NEW q \in Requests, pc[q] # "idle"
  PROVE  envelope'[q] = envelope[q]
BY DEF Next, vars, world, task, wire, Dispatch, RespondPaymentRequired, SettleAndServe,
       ConfigMissing, EnvelopeUndecodable, SendVerify, Present, Receive, Resume,
       VerifyAccepted, VerifyRejected, ServeAndSettle, ServeFails, SettleAccepted,
       SettleRejected, PostFails, ReadBodyFails, Drop, Facilitator, FacilitatorVerifies,
       FacilitatorSettles, FacilitatorRefuses, Sign, Deploy, TypeOK

(* A landed payment stays on the chain.                                    *)
LEMMA LedgerGrows == [Next]_vars => ledger \subseteq ledger'
BY DEF Next, vars, world, task, wire, Dispatch, RespondPaymentRequired, SettleAndServe,
       ConfigMissing, EnvelopeUndecodable, SendVerify, Resume,
       VerifyAccepted, VerifyRejected, ServeAndSettle, ServeFails, SettleAccepted,
       SettleRejected, PostFails, ReadBodyFails, Drop, Facilitator, FacilitatorVerifies,
       FacilitatorSettles, FacilitatorRefuses, Sign, Deploy

(* An envelope has one winner.                                             *)
LEMMA WinnerStep ==
  TypeOK /\ TaskInv /\ PostInv /\ AnswerInv /\ WinnerInv /\ [Next]_vars => WinnerInv'
<1> SUFFICES ASSUME TypeOK, TaskInv, PostInv, AnswerInv, WinnerInv, [Next]_vars
             PROVE  WinnerInv'
  OBVIOUS
<1>1. ASSUME NEW q \in Requests, Winner(q) PROVE envelope'[q] = envelope[q]
  <2>1. pc[q] # "idle"
    BY <1>1 DEF Winner, Served, AnswerInv
  <2> QED
    BY <2>1, WinnerEnvelope
<1>2. ASSUME NEW q \in Requests, Winner(q)', ~Winner(q)
      PROVE  /\ envelope'[q] = envelope[q]
             /\ envelope[q] \in ledger'
             /\ ~ReplayAccepted => envelope[q] \notin ledger
  <2>1. PICK m \in posts :
          m.request = q /\ m.path = "settle" /\ Acceptable(m) /\ FacilitatorSettles(q)
    BY <1>2, NewWinner
  <2>2. m.envelope = envelope[q]
    BY <2>1 DEF PostInv
  <2>3. \A n \in posts : n.request = q => n.envelope = envelope[q]
    BY DEF PostInv
  <2> QED
    BY <2>1, <2>2, <2>3 DEF Acceptable, FacilitatorSettles, task
<1>3. \A q \in Requests : Winner(q)' => envelope'[q] \in ledger'
  BY <1>1, <1>2, LedgerGrows DEF WinnerInv
<1>4. ASSUME ~ReplayAccepted, NEW q \in Requests, NEW p \in Requests,
             Winner(q)', Winner(p)', envelope'[q] = envelope'[p]
      PROVE  q = p
  <2>1. CASE Winner(q) /\ Winner(p)
    BY <1>1, <1>4, <2>1 DEF WinnerInv
  <2>2. CASE Winner(q) /\ ~Winner(p)
    BY <1>1, <1>2, <1>4, <2>2 DEF WinnerInv
  <2>3. CASE ~Winner(q) /\ Winner(p)
    BY <1>1, <1>2, <1>4, <2>3 DEF WinnerInv
  <2>4. CASE ~Winner(q) /\ ~Winner(p)
    <3>1. FacilitatorSettles(q) /\ FacilitatorSettles(p)
      BY <1>4, <2>4, NewWinner
    <3>2. PICK m \in posts : m.request = q /\ posts' = posts \ {m}
      BY <3>1 DEF FacilitatorSettles, Handled
    <3>3. PICK n \in posts : n.request = p /\ posts' = posts \ {n}
      BY <3>1 DEF FacilitatorSettles, Handled
    <3> QED
      BY <3>2, <3>3
  <2> QED
    BY <2>1, <2>2, <2>3, <2>4
<1> QED
  BY <1>3, <1>4 DEF WinnerInv

-----------------------------------------------------------------------------
(***************************************************************************)
(* What a parked task waits for.                                           *)
(***************************************************************************)
(* Whoever starts to wait has just posted, and only its own answer or the  *)
(* end of its wait takes a POST away.                                      *)
LEMMA WakeupStep == TypeOK /\ NoLostWakeup /\ [Next]_vars => NoLostWakeup'
<1> SUFFICES ASSUME TypeOK, NoLostWakeup, [Next]_vars PROVE NoLostWakeup'
  OBVIOUS
<1> USE DEF TypeOK, NoLostWakeup
<1>1. ASSUME NEW r \in Requests, Dispatch(r) \/ RespondPaymentRequired(r)
      PROVE  NoLostWakeup'
  BY <1>1 DEF Dispatch, RespondPaymentRequired, Respond, Move, task, wire, world
<1>2. ASSUME NEW r \in Requests, NEW e \in Envelopes, NEW b \in Bodies,
             SettleAndServe(r, e, b)
      PROVE  NoLostWakeup'
  <2>1. CASE ConfigMissing(r, e, b)
    BY <2>1 DEF ConfigMissing, Present, Receive, Respond, Move, wire, world
  <2>2. CASE EnvelopeUndecodable(r, e, b)
    BY <2>2 DEF EnvelopeUndecodable, Present, Receive, Respond, Move, wire, world
  <2>3. CASE SendVerify(r, e, b)
    <3> DEFINE post == [request |-> r, path |-> "verify",
                        envelope |-> e, config |-> SettlementConfig(env)]
    <3>1. post \in posts' /\ post.request = r /\ post.path = "verify"
      BY <2>3 DEF SendVerify
    <3>2. \A q \in Requests : q # r => pc'[q] = pc[q]
      BY <2>3 DEF SendVerify, Move
    <3>3. pc'[r] = "verify" /\ posts \subseteq posts' /\ answers' = answers
      BY <2>3 DEF SendVerify, Move
    <3> HIDE DEF post
    <3> QED
      BY <3>1, <3>2, <3>3
  <2> QED
    BY <1>2, <2>1, <2>2, <2>3 DEF SettleAndServe
<1>3. ASSUME NEW r \in Requests, Resume(r) PROVE NoLostWakeup'
  <2>1. CASE VerifyAccepted(r)
    BY <2>1 DEF VerifyAccepted, Awaited, Move, task, world
  <2>2. CASE VerifyRejected(r)
    BY <2>2 DEF VerifyRejected, Awaited, Respond, Move, task, world
  <2>3. CASE ServeAndSettle(r)
    <3>1. /\ SettlePost(r) \in posts'
          /\ SettlePost(r).request = r /\ SettlePost(r).path = "settle"
      BY <2>3 DEF ServeAndSettle, SettlePost
    <3>2. \A q \in Requests : q # r => pc'[q] = pc[q]
      BY <2>3 DEF ServeAndSettle, Move
    <3>3. pc'[r] = "settle" /\ posts \subseteq posts' /\ answers' = answers
      BY <2>3 DEF ServeAndSettle, Move
    <3> QED
      BY <3>1, <3>2, <3>3
  <2>4. CASE ServeFails(r)
    BY <2>4 DEF ServeFails, Respond, Move, task, wire, world
  <2>5. CASE SettleAccepted(r)
    BY <2>5 DEF SettleAccepted, Awaited, Respond, Move, task, world
  <2>6. CASE SettleRejected(r)
    BY <2>6 DEF SettleRejected, Awaited, Respond, Move, task, world
  <2> QED
    BY <1>3, <2>1, <2>2, <2>3, <2>4, <2>5, <2>6 DEF Resume
<1>4. ASSUME NEW r \in Requests, PostFails(r) \/ ReadBodyFails(r) \/ Drop(r)
      PROVE  NoLostWakeup'
  <2>1. CASE PostFails(r)
    BY <2>1 DEF PostFails, Respond, Move, task, wire, world
  <2>2. CASE ReadBodyFails(r)
    BY <2>2 DEF ReadBodyFails, Respond, Move, task, wire, world
  <2>3. CASE Drop(r)
    BY <2>3 DEF Drop, Move, task, wire, world
  <2> QED
    BY <1>4, <2>1, <2>2, <2>3
<1>5. ASSUME NEW r \in Requests, Facilitator(r) PROVE NoLostWakeup'
  <2>1. ASSUME NEW m \in posts, NEW text, Handled(m, text), pc' = pc
        PROVE  NoLostWakeup'
    <3>1. posts \subseteq posts' \cup {m} /\ answers \subseteq answers'
      BY <2>1 DEF Handled
    <3> DEFINE answer == [request |-> m.request, path |-> m.path, text |-> text]
    <3>2. answer \in answers' /\ answer.request = m.request /\ answer.path = m.path
      BY <2>1 DEF Handled
    <3> HIDE DEF answer
    <3> QED
      BY <2>1, <3>1, <3>2
  <2> QED
    BY <1>5, <2>1
       DEF Facilitator, FacilitatorVerifies, FacilitatorSettles, FacilitatorRefuses
<1>6. ASSUME NEW e \in Envelopes, Sign(e) PROVE NoLostWakeup'
  BY <1>6 DEF Sign, task, wire
<1>7. ASSUME NEW e \in Environments, Deploy(e) PROVE NoLostWakeup'
  BY <1>7 DEF Deploy, task, wire
<1>8. CASE UNCHANGED vars
  BY <1>8 DEF vars
<1> HIDE DEF NoLostWakeup
<1> QED
  BY <1>1, <1>2, <1>3, <1>4, <1>5, <1>6, <1>7, <1>8 DEF Next

(* If nothing is lost, a task leaves an await only with the answer to its  *)
(* POST, so that neither outlives the await.                               *)
LEMMA FlightStep == TypeOK /\ PostInv /\ FlightInv /\ [Next]_vars => FlightInv'
<1> SUFFICES ASSUME TypeOK, PostInv, FlightInv, [Next]_vars, Lossless PROVE FlightInv'
  BY DEF FlightInv
<1> USE DEF TypeOK, FlightInv
<1>1. ASSUME NEW r \in Requests, Dispatch(r) \/ RespondPaymentRequired(r)
      PROVE  FlightInv'
  BY <1>1
     DEF Dispatch, RespondPaymentRequired, Respond, Move, task, wire, world, Posts, Answers
<1>2. ASSUME NEW r \in Requests, NEW e \in Envelopes, NEW b \in Bodies,
             SettleAndServe(r, e, b)
      PROVE  FlightInv'
  <2>1. CASE ConfigMissing(r, e, b)
    BY <2>1
       DEF ConfigMissing, Present, Receive, Respond, Move, wire, world, Posts, Answers
  <2>2. CASE EnvelopeUndecodable(r, e, b)
    BY <2>2
       DEF EnvelopeUndecodable, Present, Receive, Respond, Move, wire, world, Posts, Answers
  <2>3. CASE SendVerify(r, e, b)
    BY <2>3 DEF SendVerify, Present, Receive, Move, world, Posts, Answers
  <2> QED
    BY <1>2, <2>1, <2>2, <2>3 DEF SettleAndServe
<1>3. ASSUME NEW r \in Requests, Resume(r) PROVE FlightInv'
  <2>1. CASE VerifyAccepted(r)
    BY <2>1 DEF VerifyAccepted, Awaited, Move, task, world, Posts, Answers
  <2>2. CASE VerifyRejected(r)
    BY <2>2 DEF VerifyRejected, Awaited, Respond, Move, task, world, Posts, Answers
  <2>3. CASE ServeAndSettle(r)
    BY <2>3 DEF ServeAndSettle, SettlePost, Move, task, world, Posts, Answers
  <2>4. CASE ServeFails(r)
    BY <2>4 DEF ServeFails, Respond, Move, task, wire, world, Posts, Answers
  <2>5. CASE SettleAccepted(r)
    BY <2>5 DEF SettleAccepted, Awaited, Respond, Move, task, world, Posts, Answers
  <2>6. CASE SettleRejected(r)
    BY <2>6 DEF SettleRejected, Awaited, Respond, Move, task, world, Posts, Answers
  <2> QED
    BY <1>3, <2>1, <2>2, <2>3, <2>4, <2>5, <2>6 DEF Resume
<1>4. ASSUME NEW r \in Requests, PostFails(r) \/ ReadBodyFails(r) \/ Drop(r)
      PROVE  FlightInv'
  <2>1. ReadBodyFails(r)
    BY <1>4 DEF Lossless, PostFails, Drop
  <2> QED
    BY <2>1 DEF ReadBodyFails, Respond, Move, task, wire, world, Posts, Answers
<1>5. ASSUME NEW r \in Requests, Facilitator(r) PROVE FlightInv'
  <2>1. ASSUME NEW m \in posts, NEW text, Handled(m, text), pc' = pc
        PROVE  FlightInv'
    BY <2>1 DEF Handled
  <2> QED
    BY <1>5, <2>1
       DEF Facilitator, FacilitatorVerifies, FacilitatorSettles, FacilitatorRefuses
<1>6. ASSUME NEW e \in Envelopes, Sign(e) PROVE FlightInv'
  BY <1>6 DEF Sign, task, wire
<1>7. ASSUME NEW e \in Environments, Deploy(e) PROVE FlightInv'
  BY <1>7 DEF Deploy, task, wire
<1>8. CASE UNCHANGED vars
  BY <1>8 DEF vars
<1> HIDE DEF FlightInv
<1> QED
  BY <1>1, <1>2, <1>3, <1>4, <1>5, <1>6, <1>7, <1>8 DEF Next

(* If nothing is lost, a call that has been or will be served on its       *)
(* charge keeps doing so: no other answer of /settle comes before its own. *)
LEMMA AnsweredByStep ==
  ASSUME TypeOK, TaskInv, FlightInv, Lossless, [Next]_vars, NEW q \in Requests,
         NEW c \in Envelopes, AnsweredBy(q, c)
  PROVE  AnsweredBy(q, c)'
<1> USE DEF TypeOK, AnsweredBy, Served, ToBeServed
<1>1. pc[q] \in {"settle", "done"} /\ body[q] # None
  BY DEF TaskInv
<1>2. ASSUME NEW r \in Requests, Dispatch(r) \/ RespondPaymentRequired(r)
      PROVE  AnsweredBy(q, c)'
  BY <1>1, <1>2
     DEF Dispatch, RespondPaymentRequired, Respond, Move, task, wire, world, Awaited
<1>3. ASSUME NEW r \in Requests, NEW e \in Envelopes, NEW b \in Bodies,
             SettleAndServe(r, e, b)
      PROVE  AnsweredBy(q, c)'
  <2>1. CASE ConfigMissing(r, e, b)
    BY <1>1, <2>1
       DEF ConfigMissing, Present, Receive, Respond, Move, wire, world, Awaited
  <2>2. CASE EnvelopeUndecodable(r, e, b)
    BY <1>1, <2>2
       DEF EnvelopeUndecodable, Present, Receive, Respond, Move, wire, world, Awaited
  <2>3. CASE SendVerify(r, e, b)
    BY <1>1, <2>3 DEF SendVerify, Present, Receive, Move, world, Awaited
  <2> QED
    BY <1>3, <2>1, <2>2, <2>3 DEF SettleAndServe
<1>4. ASSUME NEW r \in Requests, Resume(r) PROVE AnsweredBy(q, c)'
  <2>1. CASE VerifyAccepted(r)
    BY <1>1, <2>1 DEF VerifyAccepted, Awaited, Move, task, world
  <2>2. CASE VerifyRejected(r)
    BY <1>1, <2>2 DEF VerifyRejected, Awaited, Respond, Move, task, world
  <2>3. CASE ServeAndSettle(r)
    BY <1>1, <2>3 DEF ServeAndSettle, Awaited, Move, task, world
  <2>4. CASE ServeFails(r)
    BY <1>1, <2>4 DEF ServeFails, Respond, Awaited, Move, task, wire, world
  <2>5. CASE SettleAccepted(r)
    BY <1>1, <2>5
       DEF SettleAccepted, Response, Respond, Awaited, Move, task, world
  <2>6. CASE SettleRejected(r)
    <3>1. q # r
      BY <2>6 DEF SettleRejected, Respond, Move, Awaited, FlightInv
    <3> QED
      BY <1>1, <2>6, <3>1 DEF SettleRejected, Awaited, Respond, Move, task, world
  <2> QED
    BY <1>4, <2>1, <2>2, <2>3, <2>4, <2>5, <2>6 DEF Resume
<1>5. ASSUME NEW r \in Requests, PostFails(r) \/ ReadBodyFails(r) \/ Drop(r)
      PROVE  AnsweredBy(q, c)'
  <2>1. ReadBodyFails(r)
    BY <1>5 DEF Lossless, PostFails, Drop
  <2> QED
    BY <1>1, <2>1 DEF ReadBodyFails, Respond, Awaited, Move, task, wire, world
<1>6. ASSUME NEW r \in Requests, Facilitator(r) PROVE AnsweredBy(q, c)'
  BY <1>6
     DEF Facilitator, FacilitatorVerifies, FacilitatorSettles, FacilitatorRefuses,
         Handled, Awaited, task, world
<1>7. ASSUME NEW e \in Envelopes, Sign(e) PROVE AnsweredBy(q, c)'
  BY <1>7 DEF Sign, Awaited, task, wire
<1>8. ASSUME NEW e \in Environments, Deploy(e) PROVE AnsweredBy(q, c)'
  BY <1>8 DEF Deploy, Awaited, task, wire
<1>9. CASE UNCHANGED vars
  BY <1>9 DEF vars, Awaited
<1> HIDE DEF AnsweredBy
<1> QED
  BY <1>2, <1>3, <1>4, <1>5, <1>6, <1>7, <1>8, <1>9 DEF Next

(* If nothing is lost, the facilitator charges the envelope of a call that *)
(* still waits at /settle, and answers it with a success.                  *)
LEMMA ChargeAnswered ==
  ASSUME TypeOK, PostInv, FlightInv, Lossless, NEW r \in Requests,
         FacilitatorSettles(r), NEW c \in ledger' \ ledger
  PROVE  \E q \in Requests : AnsweredBy(q, c)'
<1>1. PICK m \in posts :
        /\ m.request = r /\ m.path = "settle"
        /\ \E text \in SettledTexts(m.envelope) : Handled(m, text)
        /\ ledger' = ledger \cup {m.envelope}
        /\ UNCHANGED <<env, pc, task, resp, signed>>
  BY DEF FacilitatorSettles
<1>2. c = m.envelope /\ c \in Envelopes /\ envelope'[r] = c
  BY <1>1 DEF TypeOK, Posts, PostInv, task
<1>3. pc'[r] = "settle"
  BY <1>1 DEF FlightInv
<1>4. SettledTexts(c) = {[flag |-> TRUE, transaction |-> c]}
  BY DEF SettledTexts, Lossless
<1> DEFINE text == [flag |-> TRUE, transaction |-> c]
           answer == [request |-> r, path |-> "settle", text |-> text]
<1>5. answer \in answers' /\ answer.request = r /\ answer.path = "settle"
  BY <1>1, <1>2, <1>4 DEF Handled
<1>6. c # None
  BY <1>2, NoneAssumption
<1>7. ParseSettleResponse(answer.text) = "Ok"
  BY <1>6 DEF ParseSettleResponse, AndThen, Check
<1> HIDE DEF answer
<1>8. ToBeServed(r)'
  BY <1>3, <1>5, <1>7 DEF ToBeServed, Awaited
<1> QED
  BY <1>2, <1>8 DEF AnsweredBy

(* Every charge has its answer, if nothing is lost.                        *)
LEMMA ChargedIsAnsweredStep ==
  TypeOK /\ TaskInv /\ PostInv /\ FlightInv /\ ChargedIsAnswered /\ [Next]_vars
    => ChargedIsAnswered'
<1> SUFFICES ASSUME TypeOK, TaskInv, PostInv, FlightInv, ChargedIsAnswered, [Next]_vars,
                    Lossless, NEW c \in ledger'
             PROVE  \E q \in Requests : AnsweredBy(q, c)'
  BY DEF ChargedIsAnswered
<1>1. CASE c \in ledger
  <2>1. PICK q \in Requests : AnsweredBy(q, c)
    BY <1>1 DEF ChargedIsAnswered
  <2>2. c \in Envelopes
    BY <1>1 DEF TypeOK
  <2> QED
    BY <2>1, <2>2, AnsweredByStep
<1>2. CASE c \notin ledger
  <2>1. PICK r \in Requests : FacilitatorSettles(r)
    BY <1>2, LedgerGrowsBySettling
  <2> QED
    BY <1>2, <2>1, ChargeAnswered
<1> QED
  BY <1>1, <1>2

-----------------------------------------------------------------------------
(***************************************************************************)
(* The theorems.                                                           *)
(***************************************************************************)
(* The invariant holds before the first request.                           *)
LEMMA InvInit == Init => IInv
<1> SUFFICES ASSUME Init PROVE IInv
  OBVIOUS
<1>1. TypeOK
  BY TypeInit
<1> QED
  BY <1>1
     DEF Init, IInv, TaskInv, PostInv, AnswerInv, WinnerInv, Winner, Served,
         ServedOnlyIfPaid, ChargeAccounted

(* Each of its parts is preserved with the help of the others.             *)
LEMMA InvStep == IInv /\ [Next]_vars => IInv'
BY TypeStep, TaskStep, PostStep, AnswerStep, WinnerStep, ServedStep, ChargeStep DEF IInv

(* The invariant holds in every reachable state.                           *)
THEOREM Invariance == Spec => []IInv
BY InvInit, InvStep, PTL DEF Spec

(* Every reachable state is well-typed: the code answers with the statuses *)
(* and errors of Responses only, and what it posts is complete.            *)
THEOREM TypeCorrect == Spec => []TypeOK
<1>1. IInv => TypeOK
  BY DEF IInv
<1> QED
  BY <1>1, Invariance, PTL

(* No unpaid work.                                                         *)
THEOREM NoUnpaidWork == Spec => []ServedOnlyIfPaid
<1>1. IInv => ServedOnlyIfPaid
  BY DEF IInv
<1> QED
  BY <1>1, Invariance, PTL

(* No charge without work.                                                 *)
THEOREM NoChargeWithoutWork == Spec => []ChargeAccounted
<1>1. IInv => ChargeAccounted
  BY DEF IInv
<1> QED
  BY <1>1, Invariance, PTL

(* What is settled is what was verified.                                   *)
THEOREM SettlementMatches == Spec => []SettlesWhatWasVerified
<1>1. IInv => SettlesWhatWasVerified
  BY DEF IInv, PostInv, AtSettle, SettlesWhatWasVerified
<1> QED
  BY <1>1, Invariance, PTL

(* One payment buys one result, if a settled envelope is refused.          *)
THEOREM OneServiceEach == Spec => []OneServicePerPayment
<1>1. IInv => OneServicePerPayment
  BY DEF IInv, WinnerInv, Winner, OneServicePerPayment
<1> QED
  BY <1>1, Invariance, PTL

(* No wait for nothing: whoever waits has a POST or an answer of its own   *)
(* to wait for, whatever fails.                                            *)
THEOREM NobodyWaitsForNothing == Spec => []NoLostWakeup
<1>1. Init => NoLostWakeup
  BY DEF Init, NoLostWakeup
<1>2. IInv => TypeOK
  BY DEF IInv
<1> QED
  BY <1>1, <1>2, WakeupStep, Invariance, PTL DEF Spec

(* If nothing is lost, a call has one POST or answer in flight, and only   *)
(* while it waits for it.                                                  *)
THEOREM OneFlightPerCall == Spec => []FlightInv
<1>1. Init => FlightInv
  BY DEF Init, FlightInv
<1>2. IInv => TypeOK /\ PostInv
  BY DEF IInv
<1> QED
  BY <1>1, <1>2, FlightStep, Invariance, PTL DEF Spec

(* If nothing is lost, every payment on the chain has served the call that *)
(* carried it, or its answer is there and no other can come before it.     *)
THEOREM ChargesAreAnswered == Spec => []ChargedIsAnswered
<1>1. Init => ChargedIsAnswered
  BY DEF Init, ChargedIsAnswered
<1>2. IInv => TypeOK /\ TaskInv /\ PostInv
  BY DEF IInv
<1> QED
  BY <1>1, <1>2, ChargedIsAnsweredStep, OneFlightPerCall, Invariance, PTL DEF Spec

=============================================================================
