------------------------- MODULE HandlerProperties -------------------------
(***************************************************************************)
(* One run of serve() on any body, and what its outcome has to say.        *)
(***************************************************************************)
EXTENDS Handler

CONSTANT Bodies

VARIABLES body, outcome

Init == body \in Bodies /\ outcome = "none"

Run ==
  /\ outcome = "none"
  /\ outcome' = Serve(body)
  /\ UNCHANGED body

Spec == Init /\ [][Run]_<<body, outcome>>

(* serve() succeeds on exactly the bodies of the published field and       *)
(* directions that hold 2^degree u64 coefficients, for degrees from the 1  *)
(* of types.rs to the 12 of the service descriptor (handler.rs, quote.rs   *)
(* and backend.rs together).                                               *)
ServesExactlyComputable == outcome # "none" => (outcome = "Ok" <=> Computable(body))

(* A refusal names its own reason, however many faults a body has: 400 is  *)
(* for bodies that break the schema and only for them, 413 for well-formed *)
(* ones beyond the tier cap, so a client that reads 413 has nothing else   *)
(* to repair but the size.                                                 *)
RefusedForItsReason ==
  outcome # "none" =>
    /\ outcome \in ParseErrors <=> ~WellFormed(body)
    /\ outcome = "OutOfTier" <=> WellFormed(body) /\ body.degree > FREE_TIER_MAX_LOG2

(* The price quote_for computes for a well-formed body is the one the      *)
(* tiers of the service descriptor publish, at both sides of every         *)
(* boundary.                                                               *)
QuotedAtPublishedTier ==
  outcome # "none" /\ body.degree \in 1..30 =>
    PriceMicrosFor(body.degree) = TierPrice(body.degree)

=============================================================================
