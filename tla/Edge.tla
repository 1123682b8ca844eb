-------------------------------- MODULE Edge --------------------------------
(***************************************************************************)
(* The paid call: worker/src/edge.rs and worker/src/x402.rs, the buyer     *)
(* that calls POST /ntt, and, as far as the code depends on them, the x402 *)
(* facilitator and the chain it settles on.                                *)
(*                                                                         *)
(* Every request is a task of the Workers runtime.  A task runs without    *)
(* interruption up to an await (the POST to /verify, the read of the body, *)
(* the POST to /settle) and the tasks interleave there; pc says which      *)
(* await a task is parked at.  Nothing is shared between tasks but what is *)
(* outside the worker: the variables of the deployment, the facilitator    *)
(* and the chain.                                                          *)
(***************************************************************************)
EXTENDS Handler

CONSTANTS
  Requests,       \* one per HTTP request the worker ever receives
  Envelopes,      \* values of the X-Payment header
  Undecodable,    \* those that are not base64 of UTF-8
  Forged,         \* those no buyer signed, the undecodable ones among them
  Bodies,         \* request bodies, as in Handler
  Environments,   \* the [vars] of the deployments
  Faults,         \* what may go wrong outside the code
  ReplayAccepted, \* whether the facilitator says yes to a settled envelope
  None            \* an absent value

FaultKinds == {"drop", "transport", "garbled", "bodyread"}

ASSUME EdgeAssumption ==
  /\ Undecodable \subseteq Forged
  /\ Forged \subseteq Envelopes
  /\ Bodies \subseteq BodyType
  /\ Faults \subseteq FaultKinds
  /\ ReplayAccepted \in BOOLEAN

-----------------------------------------------------------------------------
(***************************************************************************)
(* paymentRequirements.  The fields build_requirements_json does not take  *)
(* from the environment (scheme, resource, description, timeout) are the   *)
(* same in every object and left out.                                      *)
(***************************************************************************)
FREE_TIER_MAX_MICROS_USDC == 10000

VarOr(value, default) == IF value = None THEN default ELSE value

BuildRequirements(e) ==
  [payTo    |-> VarOr(e.SELLER_PUBKEY, "11111111111111111111111111111111"),
   asset    |-> VarOr(e.USDC_MINT, "4zMMC9srt5Ri5X14GAgXhaHii3GnPAEERYPJgZJDncDU"),
   feePayer |-> VarOr(e.FACILITATOR_FEE_PAYER,
                      "CKPKJWNdJEqa81x7CkZ14BVPiY6y16Sxs7owznqtWYp5"),
   network  |-> IF e.SOLANA_CLUSTER = "devnet" THEN "solana-devnet" ELSE "solana",
   maxAmountRequired |-> FREE_TIER_MAX_MICROS_USDC]

Requirements == {BuildRequirements(e) : e \in Environments}

\* What read_settlement_config captures, once, for the whole task.
SettlementConfig(e) ==
  [facilitator |-> e.FACILITATOR_URL, requirements |-> BuildRequirements(e)]

Configs == {SettlementConfig(e) : e \in Environments}

(***************************************************************************)
(* The facilitator's answer, as the two parsers see it once whitespace is  *)
(* stripped: whether the positive flag ("isValid":true, "success":true)    *)
(* occurs, and the settlement signature if there is one that decodes to 64 *)
(* bytes.  The signature of an envelope's transaction is the envelope      *)
(* itself.  The HTTP status is no part of it: post_json ignores it.        *)
(***************************************************************************)
Texts == [flag : BOOLEAN, transaction : Envelopes \cup {None}]

Negative == [flag |-> FALSE, transaction |-> None]

\* Mutant: whatever /verify answers is taken for a yes.
ParseVerifyAnyResponse(text) == "Ok"

ParseVerifyResponse(text) == Check(text.flag, "VerifyRejected")

\* Mutant: any answer of /settle counts as success.
ParseSettleAnyResponse(text) == "Ok"

\* Mutant: the signature is looked for under a key /settle never sends.
ParseSettleNoSignature(text) == "SettleRejected"

ParseSettleResponse(text) ==
  AndThen(Check(text.flag, "SettleRejected"),
          Check(text.transaction # None, "SettleRejected"))

-----------------------------------------------------------------------------
(***************************************************************************)
(* Responses.  offer is the paymentRequirements object a 402 challenge or  *)
(* the discovery manifest carries, tx the signature in X-Payment-Response. *)
(***************************************************************************)
SettlementErrors == {"VerifyRejected", "SettleRejected", "Transport"}

\* The Error enum.  Of its variants the fetch path can produce DomainErrors; the
\* registry, the faucet and the other backends are stubs no request reaches, and
\* the missing header has a response of its own.
BackendErrors == {"SimulatorFailed", "DonorFailed", "CloudFpgaFailed"}
RegistryErrors == {"RpcTransport", "AccountDeserialize", "ReceiptEmitFailed"}
FaucetErrors == {"FaucetTransport", "RateLimited"}
DomainErrors == ServeErrors \cup SettlementErrors

\* Mutant: backend errors fall into the arm of NotYetImplemented.
ErrorStatusNotImplemented(error) ==
  CASE error \in ParseErrors                             -> 400
    [] error = "OutOfTier"                               -> 413
    [] error \in SettlementErrors \cup {"MissingPayment"} -> 402
    [] error \in RegistryErrors \cup FaucetErrors         -> 502
    [] error \in BackendErrors \cup {"NotYetImplemented"} -> 501

ErrorStatus(error) ==
  CASE error \in ParseErrors                             -> 400
    [] error = "OutOfTier"                               -> 413
    [] error \in SettlementErrors \cup {"MissingPayment"} -> 402
    [] error \in RegistryErrors \cup FaucetErrors         -> 502
    [] error \in BackendErrors                           -> 500
    [] error = "NotYetImplemented"                       -> 501

Response(status, error, offer, tx) ==
  [status |-> status, error |-> error, offer |-> offer, tx |-> tx]

DomainErrorResponse(error) == Response(ErrorStatus(error), error, None, None)

\* An Err out of the handler; the runtime, not error_status_and_body, answers.
WorkerError == Response(500, "worker::Error", None, None)

Responses ==
  [status : {200, 400, 402, 404, 413, 500},
   error  : DomainErrors \cup {"Ok", "NotFound", "PaymentRequired", "worker::Error"},
   offer  : Requirements \cup {None},
   tx     : Envelopes \cup {None}]

\* A POST to the facilitator and its answer.
Posts == [request : Requests, path : {"verify", "settle"},
          envelope : Envelopes, config : Configs]
Answers == [request : Requests, path : {"verify", "settle"}, text : Texts]

ASSUME NoneAssumption ==
  None \notin Envelopes \cup Bodies \cup Configs \cup Requirements \cup Responses

-----------------------------------------------------------------------------
VARIABLES
  env,       \* the variables of the deployment that takes new requests
  pc,        \* the await each task is parked at
  envelope,  \* its X-Payment header
  body,      \* its request body
  config,    \* the settlement configuration it captured
  resp,      \* its response
  posts,     \* POSTs the facilitator has not handled yet
  answers,   \* answers that have not reached the worker
  signed,    \* the requirements the buyer signed in each envelope
  ledger     \* envelopes whose transaction is on the chain

task  == <<envelope, body, config>>
wire  == <<posts, answers>>
world == <<env, signed, ledger>>
vars  == <<env, pc, envelope, body, config, resp, posts, answers, signed, ledger>>

TypeOK ==
  /\ env \in Environments
  /\ pc \in [Requests -> {"idle", "verify", "body", "settle", "done", "gone"}]
  /\ envelope \in [Requests -> Envelopes \cup {None}]
  /\ body \in [Requests -> Bodies \cup {None}]
  /\ config \in [Requests -> Configs \cup {None}]
  /\ resp \in [Requests -> Responses \cup {None}]
  /\ posts \subseteq Posts
  /\ answers \subseteq Answers
  /\ signed \in [Envelopes -> Requirements \cup {None}]
  /\ ledger \subseteq Envelopes

Init ==
  /\ env \in Environments
  /\ pc = [r \in Requests |-> "idle"]
  /\ envelope = [r \in Requests |-> None]
  /\ body = [r \in Requests |-> None]
  /\ config = [r \in Requests |-> None]
  /\ resp = [r \in Requests |-> None]
  /\ posts = {}
  /\ answers = {}
  /\ signed = [e \in Envelopes |-> None]
  /\ ledger = {}

Move(r, from, to) == pc[r] = from /\ pc' = [pc EXCEPT ![r] = to]

Respond(r, from, response) ==
  /\ Move(r, from, "done")
  /\ resp' = [resp EXCEPT ![r] = response]

\* A request arrives with a header and a body.
Receive(r, e, b) ==
  /\ envelope' = [envelope EXCEPT ![r] = e]
  /\ body' = [body EXCEPT ![r] = b]

-----------------------------------------------------------------------------
(***************************************************************************)
(* Requests that need no facilitator.                                      *)
(***************************************************************************)
StaticResponses ==
  {Response(200, "Ok", None, None),                     \* GET /
   Response(200, "Ok", BuildRequirements(env), None),   \* GET /.well-known/x402
   Response(404, "NotFound", None, None)}               \* anything else

Dispatch(r) ==
  /\ \E response \in StaticResponses : Respond(r, "idle", response)
  /\ UNCHANGED <<task, wire, world>>

\* POST /ntt without X-Payment.
RespondPaymentRequired(r) ==
  /\ Respond(r, "idle", Response(402, "PaymentRequired", BuildRequirements(env), None))
  /\ UNCHANGED <<task, wire, world>>

(***************************************************************************)
(* POST /ntt with X-Payment: read_settlement_config, build_verify_body and *)
(* the POST to /verify, up to the first await.  Any header will do: the    *)
(* payload is put into the POST as it is decoded, and whether somebody     *)
(* signed it is for the facilitator to say.                                *)
(***************************************************************************)
Present(r, e, b) ==
  /\ pc[r] = "idle"
  /\ e \in Forged \/ signed[e] # None
  /\ Receive(r, e, b)

ConfigMissing(r, e, b) ==
  /\ Present(r, e, b)
  /\ env.FACILITATOR_URL = None
  /\ Respond(r, "idle", DomainErrorResponse("Transport"))
  /\ UNCHANGED <<config, wire, world>>

EnvelopeUndecodable(r, e, b) ==
  /\ Present(r, e, b)
  /\ env.FACILITATOR_URL # None
  /\ e \in Undecodable
  /\ config' = [config EXCEPT ![r] = SettlementConfig(env)]
  /\ Respond(r, "idle", DomainErrorResponse("VerifyRejected"))
  /\ UNCHANGED <<wire, world>>

SendVerify(r, e, b) ==
  /\ Present(r, e, b)
  /\ env.FACILITATOR_URL # None
  /\ e \notin Undecodable
  /\ config' = [config EXCEPT ![r] = SettlementConfig(env)]
  /\ posts' = posts \cup {[request |-> r, path |-> "verify",
                           envelope |-> e, config |-> SettlementConfig(env)]}
  /\ Move(r, "idle", "verify")
  /\ UNCHANGED <<resp, answers, world>>

SettleAndServe(r, e, b) ==
  ConfigMissing(r, e, b) \/ EnvelopeUndecodable(r, e, b) \/ SendVerify(r, e, b)

-----------------------------------------------------------------------------
(***************************************************************************)
(* The worker resumes.  a is the answer to the POST the task is parked at. *)
(***************************************************************************)
Awaited(r, path) == {a \in answers : a.request = r /\ a.path = path}

VerifyAccepted(r) ==
  \E a \in Awaited(r, "verify") :
    /\ ParseVerifyResponse(a.text) = "Ok"
    /\ Move(r, "verify", "body")
    /\ answers' = answers \ {a}
    /\ UNCHANGED <<task, resp, posts, world>>

VerifyRejected(r) ==
  \E a \in Awaited(r, "verify") :
    /\ ParseVerifyResponse(a.text) # "Ok"
    /\ Respond(r, "verify", DomainErrorResponse(ParseVerifyResponse(a.text)))
    /\ answers' = answers \ {a}
    /\ UNCHANGED <<task, posts, world>>

\* Mutant: the settlement asks for the quote, which is known once the body is read.
SettlePostAtQuote(r) ==
  [request |-> r, path |-> "settle", envelope |-> envelope[r],
   config |-> [config[r] EXCEPT !.requirements.maxAmountRequired =
                                  PriceMicrosFor(body[r].degree)]]

\* Mutant: the settlement is posted to the URL of /verify.
SettlePostToVerify(r) ==
  [request |-> r, path |-> "verify", envelope |-> envelope[r], config |-> config[r]]

SettlePost(r) ==
  [request |-> r, path |-> "settle", envelope |-> envelope[r], config |-> config[r]]

(***************************************************************************)
(* after_verify: the body arrives, serve() runs to its end, and only a     *)
(* served body is settled, all before the next await.                      *)
(***************************************************************************)
ServeAndSettle(r) ==
  /\ Move(r, "body", "settle")
  /\ Serve(body[r]) = "Ok"
  /\ posts' = posts \cup {SettlePost(r)}
  /\ UNCHANGED <<task, resp, answers, world>>

ServeFails(r) ==
  /\ pc[r] = "body"
  /\ Serve(body[r]) # "Ok"
  /\ Respond(r, "body", DomainErrorResponse(Serve(body[r])))
  /\ UNCHANGED <<task, wire, world>>

SettleAccepted(r) ==
  \E a \in Awaited(r, "settle") :
    /\ ParseSettleResponse(a.text) = "Ok"
    /\ Respond(r, "settle", Response(200, "Ok", None, a.text.transaction))
    /\ answers' = answers \ {a}
    /\ UNCHANGED <<task, posts, world>>

\* Mutant: a rejected settlement is posted again, without bound.
SettleRetried(r) ==
  \E a \in Awaited(r, "settle") :
    /\ ParseSettleResponse(a.text) # "Ok"
    /\ pc[r] = "settle"
    /\ answers' = answers \ {a}
    /\ posts' = posts \cup {SettlePost(r)}
    /\ UNCHANGED <<pc, task, resp, world>>

SettleRejected(r) ==
  \E a \in Awaited(r, "settle") :
    /\ ParseSettleResponse(a.text) # "Ok"
    /\ Respond(r, "settle", DomainErrorResponse(ParseSettleResponse(a.text)))
    /\ answers' = answers \ {a}
    /\ UNCHANGED <<task, posts, world>>

Resume(r) ==
  \/ VerifyAccepted(r) \/ VerifyRejected(r)
  \/ ServeAndSettle(r) \/ ServeFails(r)
  \/ SettleAccepted(r) \/ SettleRejected(r)

-----------------------------------------------------------------------------
(***************************************************************************)
(* What may fail around the code.                                          *)
(***************************************************************************)
\* post_json: the fetch or the read of its text fails.  The POST may have
\* been handled, be handled later, or never be handled.
PostFails(r) ==
  /\ "transport" \in Faults
  /\ \E at \in {"verify", "settle"} : Respond(r, at, DomainErrorResponse("Transport"))
  /\ UNCHANGED <<task, wire, world>>

\* read_request_body(req).await? : the error leaves the handler.
ReadBodyFails(r) ==
  /\ "bodyread" \in Faults
  /\ Respond(r, "body", WorkerError)
  /\ UNCHANGED <<task, wire, world>>

\* The client disconnects or the isolate is evicted: fetch ignores its
\* Context, so nothing keeps a parked task alive.
Drop(r) ==
  /\ "drop" \in Faults
  /\ \E at \in {"verify", "body", "settle"} : Move(r, at, "gone")
  /\ UNCHANGED <<task, resp, wire, world>>

-----------------------------------------------------------------------------
(***************************************************************************)
(* External: the facilitator and the chain.  It may refuse for reasons of  *)
(* its own (funds, expiry of the signed transaction); it says yes only to  *)
(* an envelope signed for the very requirements of the POST, and to one    *)
(* that is already settled only if ReplayAccepted.  A transaction lands on *)
(* the chain once.                                                         *)
(***************************************************************************)
Acceptable(m) ==
  /\ signed[m.envelope] = m.config.requirements
  /\ m.envelope \in ledger => ReplayAccepted

Handled(m, text) ==
  /\ posts' = posts \ {m}
  /\ answers' = answers \cup {[request |-> m.request, path |-> m.path, text |-> text]}

FacilitatorVerifies(r) ==
  \E m \in posts :
    /\ m.request = r /\ m.path = "verify"
    /\ \E valid \in BOOLEAN :
         /\ valid => Acceptable(m)
         /\ Handled(m, [flag |-> valid, transaction |-> None])
    /\ UNCHANGED <<pc, task, resp, world>>

\* The answer after a settlement; "garbled" makes it a success without a
\* 64-byte signature or the error page of a gateway.
SettledTexts(e) ==
  {[flag |-> TRUE, transaction |-> e]} \cup
  (IF "garbled" \in Faults
   THEN {[flag |-> TRUE, transaction |-> None], Negative} ELSE {})

FacilitatorSettles(r) ==
  \E m \in posts :
    /\ m.request = r /\ m.path = "settle"
    /\ Acceptable(m)
    /\ \E text \in SettledTexts(m.envelope) : Handled(m, text)
    /\ ledger' = ledger \cup {m.envelope}
    /\ UNCHANGED <<env, pc, task, resp, signed>>

FacilitatorRefuses(r) ==
  \E m \in posts :
    /\ m.request = r /\ m.path = "settle"
    /\ Handled(m, Negative)
    /\ UNCHANGED <<pc, task, resp, world>>

Facilitator(r) ==
  FacilitatorVerifies(r) \/ FacilitatorSettles(r) \/ FacilitatorRefuses(r)

(***************************************************************************)
(* The buyer signs a fresh envelope for requirements it was offered.       *)
(***************************************************************************)
Sign(e) ==
  /\ e \notin Forged
  /\ signed[e] = None
  /\ \E r \in Requests :
       /\ resp[r] # None
       /\ resp[r].offer # None
       /\ signed' = [signed EXCEPT ![e] = resp[r].offer]
  /\ UNCHANGED <<env, pc, task, resp, wire, ledger>>

\* wrangler deploy: new requests see new variables, parked tasks keep theirs.
Deploy(e) ==
  /\ env' = e
  /\ UNCHANGED <<pc, task, resp, wire, signed, ledger>>

-----------------------------------------------------------------------------
Next ==
  \/ \E r \in Requests :
       \/ Dispatch(r) \/ RespondPaymentRequired(r)
       \/ \E e \in Envelopes, b \in Bodies : SettleAndServe(r, e, b)
       \/ Resume(r) \/ PostFails(r) \/ ReadBodyFails(r) \/ Drop(r)
       \/ Facilitator(r)
  \/ \E e \in Envelopes : Sign(e)
  \/ \E e \in Environments : Deploy(e)

(***************************************************************************)
(* The runtime polls a task whose await is over; a fetch resolves: it is   *)
(* answered or it fails; and the body is read to its end or to an error    *)
(* (a client that stalls for ever is dropped by the runtime).  Nothing is  *)
(* assumed of buyers and deployments, nor of a POST nobody waits for.      *)
(***************************************************************************)
FetchResolves(r) ==
  /\ pc[r] \in {"verify", "settle"}
  /\ Facilitator(r) \/ PostFails(r)

Fairness == \A r \in Requests : WF_vars(Resume(r)) /\ WF_vars(FetchResolves(r))

Spec == Init /\ [][Next]_vars
FairSpec == Spec /\ Fairness

=============================================================================
