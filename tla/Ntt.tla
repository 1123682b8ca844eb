-------------------------------- MODULE Ntt --------------------------------
(***************************************************************************)
(* The number-theoretic transform of worker/src/backend.rs, goldilocks_ntt *)
(* and ntt_recursive, over a prime field given by the configuration: the   *)
(* code works in Goldilocks (2^64 - 2^32 + 1), the runs in a field small   *)
(* enough to be enumerated.  Polynomials are sequences; coefficients come  *)
(* as they do in a request, not yet reduced.                               *)
(***************************************************************************)
EXTENDS Integers, Sequences

CONSTANTS
  P,           \* the order of the field
  TWO_ADICITY, \* the largest k with 2^k dividing P - 1
  Generator    \* a generator of the multiplicative group of the field

Field == 0..(P - 1)

-----------------------------------------------------------------------------
(***************************************************************************)
(* External: the field of the p3_goldilocks crate.                         *)
(***************************************************************************)
FromU64(c) == c % P
Add(x, y) == (x + y) % P
Sub(x, y) == (x - y) % P
Mul(x, y) == (x * y) % P

\* By squaring.
Power(x, n) ==
  LET f[i \in 0..n] ==
        IF i = 0 THEN 1
        ELSE LET half == f[i \div 2]
             IN  Mul(Mul(half, half), IF i % 2 = 1 THEN x ELSE 1)
  IN  f[n]

\* That the generator reaches every element but 0 makes P a prime.
ASSUME FieldAssumption ==
  /\ P \in Nat /\ P > 1
  /\ Generator \in Field
  /\ {Power(Generator, n) : n \in 1..(P - 1)} = 1..(P - 1)
  /\ TWO_ADICITY \in Nat
  /\ (P - 1) % 2^TWO_ADICITY = 0
  /\ (P - 1) % 2^(TWO_ADICITY + 1) # 0

\* A primitive root of unity of order 2^logN.
TwoAdicGenerator(logN) == Power(Generator, (P - 1) \div 2^logN)

\* By Fermat's little theorem; x is never 0 here.
TryInverse(x) == Power(x, P - 2)

-----------------------------------------------------------------------------
Evens(c) == [i \in 1..((Len(c) + 1) \div 2) |-> c[2 * i - 1]]
Odds(c)  == [i \in 1..(Len(c) \div 2) |-> c[2 * i]]

\* Mutant: the powers start at omega.
TwiddlesFromOmega(omega, n) ==
  LET t[i \in 1..n] == IF i = 1 THEN omega ELSE Mul(t[i - 1], omega)
  IN  [i \in 1..n |-> t[i]]

\* The first n of the powers 1, omega, omega^2, ...
Twiddles(omega, n) ==
  LET t[i \in 1..n] == IF i = 1 THEN 1 ELSE Mul(t[i - 1], omega)
  IN  [i \in 1..n |-> t[i]]

\* The places zip pairs up: those all three have.
Zip(e, o, twiddles) == DOMAIN e \cap DOMAIN o \cap DOMAIN twiddles

\* Mutant: the upper half repeats the lower one.
ButterflyUnsigned(e, o, twiddles) ==
  [i \in Zip(e, o, twiddles) |-> Add(e[i], Mul(twiddles[i], o[i]))] \o
  [i \in Zip(e, o, twiddles) |-> Add(e[i], Mul(twiddles[i], o[i]))]

\* The halves of a transform from those of its even and odd coefficients.
Butterfly(e, o, twiddles) ==
  [i \in Zip(e, o, twiddles) |-> Add(e[i], Mul(twiddles[i], o[i]))] \o
  [i \in Zip(e, o, twiddles) |-> Sub(e[i], Mul(twiddles[i], o[i]))]

NttRecursive(coeffs, omega) ==
  LET ntt[a \in Seq(Field) \X Field] ==
        LET c == a[1]
            w == a[2]
        IN  IF Len(c) <= 1 THEN c
            ELSE Butterfly(ntt[<<Evens(c), Mul(w, w)>>], ntt[<<Odds(c), Mul(w, w)>>],
                           Twiddles(w, Len(c) \div 2))
  IN  ntt[<<coeffs, omega>>]

\* The root of unity of a direction.
Omega(direction, logN) ==
  IF direction = "Forward" THEN TwoAdicGenerator(logN)
                           ELSE TryInverse(TwoAdicGenerator(logN))

\* Mutant: the inverse forgets to divide by n.
ScaleNever(direction, logN, x) == x

Scale(direction, logN, x) ==
  IF direction = "Forward" THEN x
  ELSE [i \in 1..Len(x) |-> Mul(x[i], TryInverse(FromU64(2^logN)))]

Reduce(coefficients) == [i \in 1..Len(coefficients) |-> FromU64(coefficients[i])]

\* goldilocks_ntt; a field element is written out in its canonical form.
GoldilocksNtt(coefficients, direction, logN) ==
  IF logN > TWO_ADICITY THEN [error |-> "SimulatorFailed", output |-> <<>>]
  ELSE [error |-> "Ok",
        output |-> Scale(direction, logN,
                         NttRecursive(Reduce(coefficients), Omega(direction, logN)))]

-----------------------------------------------------------------------------
(***************************************************************************)
(* Reference definitions: the transform is evaluation at the powers of a   *)
(* root of unity, and products of transforms are transforms of cyclic      *)
(* convolutions.                                                           *)
(***************************************************************************)
SumModP(s) ==
  LET sum[i \in 0..Len(s)] == IF i = 0 THEN 0 ELSE Add(sum[i - 1], s[i])
  IN  sum[Len(s)]

Dft(c, omega) ==
  [k \in 1..Len(c) |->
     SumModP([j \in 1..Len(c) |-> Mul(FromU64(c[j]), Power(omega, (j - 1) * (k - 1)))])]

Convolution(a, b) ==
  LET n == Len(a) IN
  [k \in 1..n |->
     SumModP([j \in 1..n |-> Mul(FromU64(a[j]), FromU64(b[((k - j) % n) + 1]))])]

Product(x, y) == [i \in 1..Len(x) |-> Mul(x[i], y[i])]

=============================================================================
