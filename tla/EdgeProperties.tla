--------------------------- MODULE EdgeProperties ---------------------------
(***************************************************************************)
(* What the paid call of module Edge must guarantee, and the invariant the *)
(* proofs of module EdgeProofs rest on.                                    *)
(***************************************************************************)
EXTENDS Edge

-----------------------------------------------------------------------------
(***************************************************************************)
(* What became of a call to POST /ntt, read off its response.              *)
(***************************************************************************)
\* It got the result of the transform: after_verify's Response::from_bytes.
Served(r) == pc[r] = "done" /\ body[r] # None /\ resp[r].status = 200

\* It ended, and neither its caller nor the code can say whether its payment
\* landed: its task was dropped, /settle was not confirmed, or a POST failed, which
\* the response does not name (a missing FACILITATOR_URL is reported the same way).
Unsettled(r) ==
  \/ pc[r] = "gone"
  \/ /\ pc[r] = "done"
     /\ resp[r].status = 402
     /\ resp[r].error \in {"SettleRejected", "Transport"}

\* It accounts for the charge of payment e.
ChargedBy(r, e) ==
  /\ envelope[r] = e
  /\ Computable(body[r])
  /\ Served(r) \/ pc[r] = "settle" \/ Unsettled(r)

-----------------------------------------------------------------------------
(***************************************************************************)
(* Safety.                                                                 *)
(***************************************************************************)
(* No unpaid work: whoever gets a result has paid for it.  The signature   *)
(* in X-Payment-Response is that of the caller's own payment, it is on the *)
(* chain, and it was signed for the very requirements this call was        *)
(* verified and settled against (edge.rs after_verify, x402.rs             *)
(* parse_settle_response).                                                 *)
ServedOnlyIfPaid ==
  \A r \in Requests : Served(r) =>
    /\ resp[r].tx = envelope[r]
    /\ envelope[r] \in ledger
    /\ signed[envelope[r]] # None
    /\ signed[envelope[r]] = config[r].requirements

(* No charge without work: a payment is on the chain only if some call     *)
(* carried it with a body the service can compute, and that call was not   *)
(* told that the parse, the tier, the transform or the verification        *)
(* failed: it got its result, is still at /settle, or ended in one of the  *)
(* ways (Unsettled) that leave open whether its payment landed.  This is   *)
(* why edge.rs computes before it settles.                                 *)
ChargeAccounted == \A e \in ledger : \E r \in Requests : ChargedBy(r, e)

(* The facilitator never meets a settlement whose requirements differ from *)
(* those it verified and the buyer signed.  What a call is to cost by its  *)
(* quote is known only when the body has been read, between /verify and    *)
(* /settle; the requirements are built before that, once per call, and     *)
(* both POSTs carry them (edge.rs read_settlement_config, after_verify).   *)
SettlesWhatWasVerified ==
  \A m \in posts : m.path = "settle" =>
    /\ m.config = config[m.request]
    /\ signed[m.envelope] = m.config.requirements

(* If the facilitator refuses a settled envelope, one payment buys one     *)
(* result, however many calls carry it at once: all of them may pass       *)
(* /verify, but a result is released only on the answer of /settle.        *)
OneServicePerPayment ==
  ~ReplayAccepted =>
    \A r, s \in Requests :
      Served(r) /\ Served(s) /\ envelope[r] = envelope[s] => r = s

-----------------------------------------------------------------------------
(***************************************************************************)
(* The worker, the facilitator and the chain together implement the        *)
(* promise of module PaidService.                                          *)
(***************************************************************************)
CallOf(r) ==
  IF body[r] = None THEN None
  ELSE [envelope |-> envelope[r], computable |-> Computable(body[r])]

OutcomeOf(r) ==
  IF pc[r] \notin {"done", "gone"} THEN "open"
  ELSE IF Served(r) THEN "served"
  ELSE IF Unsettled(r) THEN "unsettled"
  ELSE "closed"

Promise == INSTANCE PaidService
  WITH call <- [r \in Requests |-> CallOf(r)],
       outcome <- [r \in Requests |-> OutcomeOf(r)],
       charged <- ledger,
       Exclusive <- ~ReplayAccepted

ASSUME CallAssumption == None \notin Promise!Calls

(* Whatever is dropped, lost, late or garbled, a call takes one of the     *)
(* courses of module PaidService: charged only while its work can be done  *)
(* and it is not closed, served only against a charge, and ended once.     *)
ImplementsPromise == Promise!Spec

-----------------------------------------------------------------------------
(***************************************************************************)
(* Liveness, under the fairness of Edge.                                   *)
(***************************************************************************)
(* Every call is answered, or its task is dropped: no await is repeated    *)
(* and nothing waits on another call (edge.rs has no retry and no lock).   *)
EveryCallAnswered ==
  \A r \in Requests : pc[r] \in {"verify", "body", "settle"} ~> pc[r] \in {"done", "gone"}

(* While nothing fails outside the code, a charged buyer gets the result.  *)
ChargedLeadsToServed ==
  \A e \in Envelopes :
    e \in ledger ~> \E r \in Requests : Served(r) /\ envelope[r] = e

-----------------------------------------------------------------------------
(***************************************************************************)
(* The safety half of the two liveness properties: nothing they need can   *)
(* be missing.                                                             *)
(***************************************************************************)
(* No wait for nothing: a task parked at /verify or /settle has its own    *)
(* POST of that path under way or the answer to it at hand, so that no     *)
(* call waits for another one, for a POST that was never sent or for an    *)
(* answer somebody else took (edge.rs settle_and_serve, after_verify).     *)
NoLostWakeup ==
  \A r \in Requests : pc[r] \in {"verify", "settle"} =>
    \E m \in posts \cup answers : m.request = r /\ m.path = pc[r]

\* Nothing outside the code loses a call that has been charged; only the read of
\* a request's body, which comes before its settlement, may fail.
Lossless == Faults \subseteq {"bodyread"}

\* The answer r waits for at /settle is there, and r will be served on it.
ToBeServed(r) ==
  /\ pc[r] = "settle"
  /\ \E a \in Awaited(r, "settle") : ParseSettleResponse(a.text) = "Ok"

\* Payment e is for the result of r.
AnsweredBy(r, e) == envelope[r] = e /\ (Served(r) \/ ToBeServed(r))

(* If nothing is lost outside the code, a payment is on the chain only if  *)
(* the call that carried it has been served or is about to be, on an       *)
(* answer that no other answer can come before (edge.rs after_verify).     *)
ChargedIsAnswered ==
  Lossless => \A e \in ledger : \E r \in Requests : AnsweredBy(r, e)

-----------------------------------------------------------------------------
(***************************************************************************)
(* The inductive invariant, in parts.                                      *)
(***************************************************************************)
\* What a task holds at each await.
TaskInv ==
  \A r \in Requests :
    /\ pc[r] = "idle" =>
         envelope[r] = None /\ body[r] = None /\ config[r] = None /\ resp[r] = None
    /\ pc[r] \in {"verify", "body", "settle", "gone"} =>
         envelope[r] # None /\ body[r] # None /\ config[r] # None /\ resp[r] = None
    /\ pc[r] = "done" => resp[r] # None
    /\ envelope[r] # None <=> body[r] # None
    /\ pc[r] \in {"body", "settle"} => signed[envelope[r]] = config[r].requirements
    /\ pc[r] = "settle" => Serve(body[r]) = "Ok"

\* Past the first await, r has been to /settle.
AtSettle(r) ==
  /\ envelope[r] # None /\ body[r] # None /\ config[r] # None
  /\ Serve(body[r]) = "Ok"
  /\ signed[envelope[r]] = config[r].requirements
  /\ pc[r] \in {"settle", "done", "gone"}

\* A POST carries what its task holds; one to /settle is of a task that
\* waits for it or has given up on it.
PostInv ==
  \A m \in posts :
    /\ m.envelope = envelope[m.request]
    /\ m.config = config[m.request]
    /\ pc[m.request] # "idle"
    /\ m.path = "settle" =>
         AtSettle(m.request) /\ (pc[m.request] = "settle" \/ Unsettled(m.request))

\* A positive answer is true, and an answer takes the place of its POST.
AnswerInv ==
  \A a \in answers :
    /\ pc[a.request] # "idle" /\ envelope[a.request] # None /\ config[a.request] # None
    /\ a.path = "verify" /\ a.text.flag =>
         signed[envelope[a.request]] = config[a.request].requirements
    /\ a.path = "settle" =>
         /\ AtSettle(a.request)
         /\ \A m \in posts : m.request = a.request => m.path # "settle"
         /\ a.text.transaction # None =>
              a.text.transaction = envelope[a.request] /\ envelope[a.request] \in ledger

\* r has been, or will be, served on an answer of its own.
Winner(r) ==
  \/ Served(r)
  \/ \E a \in answers : a.request = r /\ a.path = "settle" /\ a.text.transaction # None

WinnerInv ==
  /\ \A r \in Requests : Winner(r) => envelope[r] \in ledger
  /\ ~ReplayAccepted =>
       \A r, s \in Requests : Winner(r) /\ Winner(s) /\ envelope[r] = envelope[s] => r = s

IInv ==
  /\ TypeOK /\ TaskInv /\ PostInv /\ AnswerInv /\ WinnerInv
  /\ ServedOnlyIfPaid /\ ChargeAccounted

\* If nothing is lost, a POST and its answer are those of the one await their
\* task is parked at.
FlightInv ==
  Lossless =>
    /\ \A m \in posts \cup answers : pc[m.request] = m.path
    /\ \A m, n \in posts : m.request = n.request => m = n
    /\ \A a, b \in answers : a.request = b.request => a = b
    /\ \A m \in posts, a \in answers : m.request # a.request

=============================================================================
