------------------------------ MODULE Compute ------------------------------
(***************************************************************************)
(* serve() with its data: the request with its coefficients goes through   *)
(* the stages of Handler, the transform of Ntt and the digest of           *)
(* ProofOfExecution into the response build_response_bytes writes, and a   *)
(* client reads that response.  A JSON object is a record; of a JSON       *)
(* integer it is kept whether it is written as a number or as a string,    *)
(* because a JavaScript client reads the two differently.                  *)
(***************************************************************************)
EXTENDS Ntt, ProofOfExecution

CONSTANT SAFE_INTEGER  \* up to here a JavaScript Number is exact: 2^53 - 1

ASSUME SafeIntegerAssumption == SAFE_INTEGER \in Nat /\ (SAFE_INTEGER + 1) % 4 = 0

\* A field element is written out as a u64.
ASSUME WordAssumption == P \in U64

JsonNumber(x) == [kind |-> "number", value |-> x]
JsonString(x) == [kind |-> "string", value |-> x]

-----------------------------------------------------------------------------
\* The parts of a request body, as a buyer writes them.
NttRequest(direction, degree, coefficients) ==
  [field |-> "Goldilocks", direction |-> direction, degree_log2 |-> degree,
   coefficients |-> coefficients]

\* Value::as_u64 on every element: a string is no number.
ParseCoefficients(array) ==
  IF \A i \in 1..Len(array) : array[i].kind = "number" THEN Len(array) ELSE -1

AsBody(q) ==
  [json |-> TRUE, field |-> q.field, direction |-> q.direction,
   degree |-> q.degree_log2, coefficients |-> ParseCoefficients(q.coefficients)]

\* Mutant: the outputs are written as bare numbers.
BuildResponseNumbers(q, output) ==
  [output |-> [i \in 1..Len(output) |-> JsonNumber(output[i])],
   proof_of_execution |-> ProofHex(q.field, q.direction, q.degree_log2, output),
   backend |-> "Wasm", field |-> q.field, direction |-> q.direction,
   degree_log2 |-> q.degree_log2]

\* Mutant: the digest is taken over the coefficients.
BuildResponseOfInput(q, output) ==
  [output |-> [i \in 1..Len(output) |-> JsonString(output[i])],
   proof_of_execution |->
     ProofHex(q.field, q.direction, q.degree_log2,
              [i \in 1..Len(output) |-> q.coefficients[i].value]),
   backend |-> "Wasm", field |-> q.field, direction |-> q.direction,
   degree_log2 |-> q.degree_log2]

\* build_response_bytes, after compute_proof.
BuildResponse(q, output) ==
  [output |-> [i \in 1..Len(output) |-> JsonString(output[i])],
   proof_of_execution |-> ProofHex(q.field, q.direction, q.degree_log2, output),
   backend |-> "Wasm", field |-> q.field, direction |-> q.direction,
   degree_log2 |-> q.degree_log2]

Refused(error) == [error |-> error]

ServeRequest(q) ==
  LET transform == GoldilocksNtt([i \in 1..Len(q.coefficients) |-> q.coefficients[i].value],
                                 q.direction, q.degree_log2)
      error == AndThen(Serve(AsBody(q)), transform.error)
  IN  IF error # "Ok" THEN Refused(error)
      ELSE [error |-> "Ok", response |-> BuildResponse(q, transform.output)]

-----------------------------------------------------------------------------
(***************************************************************************)
(* External: a JavaScript client.  A bare number becomes a Number, which   *)
(* beyond SAFE_INTEGER is rounded to as many bits as SAFE_INTEGER has, a   *)
(* tie to even; a string is read with BigInt, as                           *)
(* tools/test-client/README.md advises.                                    *)
(***************************************************************************)
\* Eleven bits more make a u64 of the 53 of a Number.
Number(x) ==
  IF x <= SAFE_INTEGER THEN x
  ELSE LET ulp  == CHOOSE u \in {2^k : k \in 1..11} :
                     x \div u \in ((SAFE_INTEGER + 1) \div 2)..SAFE_INTEGER
           down == x \div ulp
           rest == 2 * (x % ulp)
       IN  ulp * (IF rest < ulp \/ (rest = ulp /\ down % 2 = 0) THEN down ELSE down + 1)

ReadInteger(json) == IF json.kind = "string" THEN json.value ELSE Number(json.value)

ReadOutput(response) ==
  [i \in 1..Len(response.output) |-> ReadInteger(response.output[i])]

\* A BigInt prints as a bare number, whatever its size.
WriteBigInts(x) == [i \in 1..Len(x) |-> JsonNumber(x[i])]

=============================================================================
