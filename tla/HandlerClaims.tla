--------------------------- MODULE HandlerClaims ---------------------------
(***************************************************************************)
(* What a comment of x402.rs says of the facilitator's answers and the     *)
(* code does not do: the property of a run that shows such an answer.      *)
(***************************************************************************)
EXTENDS HandlerProperties, FacilitatorProperties

(* x402.rs:180 - /settle is passed only with a base58 transaction, which a *)
(* string with white space inside is not.                                  *)
ReleasedOnlyWithBase58 ==
  reading = "Ok" /\ answer.path = "/settle" /\ Flat(answer.members) =>
    \A m \in ToSet(answer.members) :
      m.key = Text("transaction") => m.tokens[1].gaps = {}

=============================================================================
