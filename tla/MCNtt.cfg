\* The field of 281 elements, 280 = 2^3 * 35; 280, 281 and 300 meet its edge,
\* 257 and 279 are neither bytes nor Numbers.
\* A polynomial is transformed once each way, after which the run stops.
SPECIFICATION Spec
CONSTANTS
  P = 281
  TWO_ADICITY = 3
  Generator = 3
  SAFE_INTEGER = 255
  Coefficients = {0, 1, 5, 257, 280, 281, 300}
  Extremes = {0, 280, 300}
  Polynomials <- SamplePolynomials
  Factors <- SampleFactors
CHECK_DEADLOCK FALSE
INVARIANTS
  ForwardIsDft
  RoundTrip
  MultipliesPolynomials
  ProofVerifies
  ProofBindsWork
