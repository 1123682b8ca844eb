------------------------------- MODULE MCNtt -------------------------------
(***************************************************************************)
(* Polynomials of every degree up to one more than the field allows.       *)
(***************************************************************************)
EXTENDS ComputeProperties

CONSTANTS
  Coefficients,  \* for polynomials of up to four coefficients
  Extremes       \* for longer ones

\* One polynomial beyond the two-adicity: only its refusal matters.
SamplePolynomials ==
  UNION {IF k > TWO_ADICITY THEN {[i \in 1..2^k |-> 0]}
         ELSE [1..2^k -> IF k <= 2 THEN Coefficients ELSE Extremes] :
         k \in 1..(TWO_ADICITY + 1)}

\* Of every degree a monomial, and a polynomial without a zero.
SampleFactors ==
  UNION {{[i \in 1..2^k |-> IF i = 2 THEN 1 ELSE 0], [i \in 1..2^k |-> i]} :
         k \in 1..TWO_ADICITY}

=============================================================================
