------------------------------ MODULE Handler ------------------------------
(***************************************************************************)
(* The Io-pure core of the worker: serve() of worker/src/handler.rs, with  *)
(* the quote of worker/src/quote.rs and the checks of compute_wasm in      *)
(* worker/src/backend.rs that decide whether a body is served.             *)
(*                                                                         *)
(* A body is what the parser can tell apart: whether it is JSON at all,    *)
(* the strings under "field" and "direction" (a string no arm of the code  *)
(* matches stands for every wrong or missing one), the number under        *)
(* "degree_log2" and how many u64 coefficients the array holds.  A         *)
(* negative number stands for every JSON value Value::as_u64 refuses, in   *)
(* "coefficients" for a value that is no array or holds such an element.   *)
(* The transform itself is module Ntt.                                     *)
(***************************************************************************)
EXTENDS Integers

\* The free tier cap the handler quotes against, and the widest u8.
FREE_TIER_MAX_LOG2 == 12
U8_MAX == 255

Fields == {"Goldilocks", "BabyBear"}
Directions == {"Forward", "Inverse"}

\* Parse failures, grouped as in the Error enum.  No code constructs InvalidUtf8:
\* what is not JSON, or not UTF-8, is a SchemaMismatch as well.
ParseErrors == {"InvalidUtf8", "SchemaMismatch", "DegreeOutOfRange"}

\* What serve() fails with.
ServeErrors == {"SchemaMismatch", "DegreeOutOfRange", "OutOfTier", "SimulatorFailed"}

(***************************************************************************)
(* A Result is "Ok" or the error's name.  AndThen is the ? operator: the   *)
(* first failing stage decides the outcome.                                *)
(***************************************************************************)
Check(holds, error) == IF holds THEN "Ok" ELSE error
AndThen(first, second) == IF first = "Ok" THEN second ELSE first

-----------------------------------------------------------------------------
\* Mutant: the range test is off by one at its lower end.
PolyDegreeLog2FromZero(value) == Check(value \in 0..30, "DegreeOutOfRange")

\* PolyDegreeLog2::new: the validating constructor.
PolyDegreeLog2(value) == Check(value \in 1..30, "DegreeOutOfRange")

ParseDegree(b) ==
  AndThen(Check(b.degree \in 0..U8_MAX, "SchemaMismatch"),
          PolyDegreeLog2(b.degree))

\* The stages in the order of the source: field, direction, degree, coefficients.
ParseRequest(b) ==
  AndThen(Check(b.json, "SchemaMismatch"),
  AndThen(Check(b.field \in Fields, "SchemaMismatch"),
  AndThen(Check(b.direction \in Directions, "SchemaMismatch"),
  AndThen(ParseDegree(b),
          Check(b.coefficients >= 0, "SchemaMismatch")))))

\* The tiers SERVICE_DESCRIPTOR publishes.
Tiers ==
  {[max_log2 |-> 8,  micros_usdc |-> 1000],   [max_log2 |-> 12, micros_usdc |-> 10000],
   [max_log2 |-> 16, micros_usdc |-> 100000], [max_log2 |-> 30, micros_usdc |-> 1000000]}

\* Mutant: a degree at the top of a tier is charged as the next.
PriceMicrosForStrict(degree) ==
  IF degree < 8 THEN 1000
  ELSE IF degree < 12 THEN 10000
  ELSE IF degree < 16 THEN 100000
  ELSE 1000000

\* The hard-coded price of a degree, in micro-USDC: the first arm that fits.
PriceMicrosFor(degree) ==
  IF degree <= 8 THEN 1000
  ELSE IF degree <= 12 THEN 10000
  ELSE IF degree <= 16 THEN 100000
  ELSE 1000000

\* Mutant: the tier check refuses the cap itself.
QuoteForExclusive(degree, cap) == Check(degree < cap, "OutOfTier")

\* quote_for: the handler discards the price and keeps only the tier check.
QuoteFor(degree, cap) == Check(degree <= cap, "OutOfTier")

ParseAndQuote(b) ==
  AndThen(ParseRequest(b), QuoteFor(b.degree, FREE_TIER_MAX_LOG2))

\* Mutant: the length check is dropped.
ComputeAnyLength(b) == Check(b.field = "Goldilocks", "SimulatorFailed")

\* compute_wasm: exactly 2^degree coefficients, and Goldilocks only.
ComputeWasm(b) ==
  AndThen(Check(b.coefficients = 2^b.degree, "SimulatorFailed"),
          Check(b.field = "Goldilocks", "SimulatorFailed"))

Serve(b) == AndThen(ParseAndQuote(b), ComputeWasm(b))

-----------------------------------------------------------------------------
(***************************************************************************)
(* Reference definition: the bodies the service transforms.  Field,        *)
(* directions and the upper bound of the degree are those of the service   *)
(* descriptor (edge.rs:38); it names no lower bound, which is that of      *)
(* types.rs:17.  It names no stage of the pipeline.                        *)
(***************************************************************************)
Computable(b) ==
  /\ b.json
  /\ b.field = "Goldilocks"
  /\ b.direction \in Directions
  /\ b.degree \in 1..12
  /\ b.coefficients >= 0
  /\ b.coefficients = 2^b.degree

\* The bodies that obey the schema, whatever their tier and length.
WellFormed(b) ==
  /\ b.json
  /\ b.field \in Fields
  /\ b.direction \in Directions
  /\ b.degree \in 1..30
  /\ b.coefficients >= 0

\* The price of a degree according to the published tiers: that of the
\* smallest tier it fits.
TierPrice(degree) ==
  LET fits == {t \in Tiers : degree <= t.max_log2}
      tier == CHOOSE t \in fits : \A u \in fits : t.max_log2 <= u.max_log2
  IN  tier.micros_usdc

\* What a body is, as far as the pipeline can tell (STRING and Int are not
\* enumerated: the configurations give small sets of bodies).
BodyType == [json : BOOLEAN, field : STRING, direction : STRING,
             degree : Int, coefficients : Int]

=============================================================================
