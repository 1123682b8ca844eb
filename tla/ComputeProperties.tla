------------------------- MODULE ComputeProperties -------------------------
(***************************************************************************)
(* A buyer has a polynomial transformed, reads the response, and posts     *)
(* what it read for the inverse: as integers again, or the strings of the  *)
(* response as they are.                                                   *)
(***************************************************************************)
EXTENDS Compute

CONSTANTS
  Polynomials,  \* the coefficients a buyer may post
  Factors       \* those of the polynomials it multiplies with

\* Value::as_u64 takes whatever a word can hold.
ASSUME InputsAssumption == Polynomials \subseteq Seq(U64) /\ Factors \subseteq Seq(U64)

VARIABLES
  request,   \* the forward request
  spectrum,  \* the answer to it
  inverse,   \* the request made of that answer
  back       \* the answer to it

vars == <<request, spectrum, inverse, back>>

Pending == [error |-> "none"]

ForwardOf(k, a) == NttRequest("Forward", k, WriteBigInts(a))

\* Of the degree that PolyDegreeLog2 allows and compute_wasm expects.
Init ==
  /\ \E k \in 1..30 : \E a \in Polynomials : Len(a) = 2^k /\ request = ForwardOf(k, a)
  /\ spectrum = Pending
  /\ inverse = Pending
  /\ back = Pending

Forward ==
  /\ spectrum = Pending
  /\ spectrum' = ServeRequest(request)
  /\ UNCHANGED <<request, inverse, back>>

Back ==
  /\ spectrum.error = "Ok"
  /\ back = Pending
  /\ \E coefficients \in {WriteBigInts(ReadOutput(spectrum.response)),
                          spectrum.response.output} :
       inverse' = NttRequest("Inverse", request.degree_log2, coefficients)
  /\ back' = ServeRequest(inverse')
  /\ UNCHANGED <<request, spectrum>>

Next == Forward \/ Back

Spec == Init /\ [][Next]_vars

-----------------------------------------------------------------------------
logN == request.degree_log2
Values(q) == [i \in 1..Len(q.coefficients) |-> q.coefficients[i].value]
Canonical(q) == Reduce(Values(q))
OutputOf(answer) == ReadOutput(answer.response)
FactorsOf(k) == {b \in Factors : Len(b) = 2^k}

(* The recursion computes the transform: what a client reads of a forward  *)
(* response is the polynomial evaluated at the powers of the root of       *)
(* unity, in their natural order 1, w, w^2, ..., whatever coefficients at  *)
(* or beyond the order of the field a request holds; a degree is refused   *)
(* exactly beyond the free tier or the two-adicity (backend.rs             *)
(* goldilocks_ntt, ntt_recursive).  Of <<1, 2, 3, 4>> the third output is  *)
(* P - 2, which the example in test-client/README.md:63 puts second.       *)
ForwardIsDft ==
  spectrum # Pending =>
    IF logN > FREE_TIER_MAX_LOG2 THEN spectrum = Refused("OutOfTier")
    ELSE IF logN > TWO_ADICITY THEN spectrum = Refused("SimulatorFailed")
    ELSE /\ spectrum.error = "Ok"
         /\ OutputOf(spectrum) = Dft(Values(request), TwoAdicGenerator(logN))

(* A response can be read and posted back without loss: the inverse of     *)
(* what a client read is what it had transformed, in canonical form.  The  *)
(* strings of a response are refused as coefficients instead of being      *)
(* taken for something else (handler.rs build_response_bytes,              *)
(* parse_coefficients).                                                    *)
RoundTrip ==
  back # Pending =>
    IF inverse.coefficients[1].kind = "number"
    THEN back.error = "Ok" /\ OutputOf(back) = Canonical(request)
    ELSE back.error = "SchemaMismatch"

(* What buyers use the service for: the inverse of the product of two      *)
(* spectra is the cyclic convolution of the polynomials.                   *)
MultipliesPolynomials ==
  spectrum.error = "Ok" =>
    \A b \in FactorsOf(logN) :
      LET other == OutputOf(ServeRequest(ForwardOf(logN, b)))
          product == WriteBigInts(Product(OutputOf(spectrum), other))
      IN  OutputOf(ServeRequest(NttRequest("Inverse", logN, product)))
            = Convolution(Values(request), b)

(* The proof of execution can be checked by whoever holds the response: it *)
(* follows from the field, the direction, the degree and the output read   *)
(* off it (backend.rs compute_proof, handler.rs build_response_bytes).     *)
ProofVerifies ==
  \A answer \in {spectrum, back} : answer.error = "Ok" =>
    LET r == answer.response
    IN  r.proof_of_execution = ProofHex(r.field, r.direction, r.degree_log2, ReadOutput(r))

\* What was asked and answered in this exchange, and what others may have asked.
Own == {[request |-> request, answer |-> spectrum], [request |-> inverse, answer |-> back]}

Others ==
  {[request |-> q, answer |-> ServeRequest(q)] :
     q \in UNION {{NttRequest(d, k, WriteBigInts(b)) : d \in Directions, b \in FactorsOf(k)} :
                    k \in 1..30}}

(* One proof belongs to one piece of work: although the digest is taken    *)
(* over the output and never over the coefficients, two responses with the *)
(* same proof answer requests of the same direction, the same degree and   *)
(* the same coefficients up to their reduction, whichever two directions   *)
(* and degrees are compared (the transforms are one-to-one).               *)
ProofBindsWork ==
  \A v \in Own, w \in Own \cup Others :
    /\ v.answer.error = "Ok"
    /\ w.answer.error = "Ok"
    /\ v.answer.response.proof_of_execution = w.answer.response.proof_of_execution
    => /\ v.request.direction = w.request.direction
       /\ v.request.degree_log2 = w.request.degree_log2
       /\ Canonical(v.request) = Canonical(w.request)

=============================================================================
