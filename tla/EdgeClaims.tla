----------------------------- MODULE EdgeClaims -----------------------------
(***************************************************************************)
(* What the documentation and the comments of the repository say of a paid *)
(* call, and the code does not do.  Each is the one property of a run that *)
(* shows a call for which it fails.                                        *)
(***************************************************************************)
EXTENDS EdgeProperties

(* tools/test-client/README.md:89 - an unreachable facilitator is reported *)
(* as status 502 with "facilitator transport error".                       *)
TransportErrorIs502 ==
  \A r \in Requests :
    resp[r] # None /\ resp[r].error = "Transport" => resp[r].status = 502

(* tools/test-client/README.md:87 - a 402 without settlement header means  *)
(* the buyer's wallet is empty: nothing was paid on this call.             *)
PaymentRequiredMeansUnpaid ==
  \A r \in Requests :
    /\ pc[r] = "done" /\ body[r] # None /\ resp[r].status = 402
    /\ \A s \in Requests \ {r} : envelope[s] # envelope[r]
    => envelope[r] \notin ledger

(* quote.rs:11, edge.rs:47 - the price of a call is that of its tier.      *)
ChargedAtTierPrice ==
  \A r \in Requests :
    Served(r) => config[r].requirements.maxAmountRequired = PriceMicrosFor(body[r].degree)

(* x402.rs:17, edge.rs:169 - the facilitator is sent the requirements the  *)
(* seller advertised in the 402 envelope, which the buyer has signed.      *)
SendsWhatWasAdvertised ==
  \A m \in posts :
    m.envelope \notin Forged => m.config.requirements = signed[m.envelope]

=============================================================================
