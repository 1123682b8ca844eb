----------------------------- MODULE NttProofs -----------------------------
(***************************************************************************)
(* The transform of backend.rs is the discrete Fourier transform, its      *)
(* inverse undoes it, and it turns products into convolutions: for every   *)
(* prime field and every degree its two-adicity allows.                    *)
(***************************************************************************)
EXTENDS FieldProofs, SequenceTheorems

-----------------------------------------------------------------------------
(***************************************************************************)
(* Sequences of field elements.                                            *)
(***************************************************************************)
Polynomial == Seq(Field)

(* A function on 1..n into the field is a polynomial of n coefficients.    *)
LEMMA PolynomialOf ==
  ASSUME NEW n \in Nat, NEW f \in [1..n -> Field]
  PROVE  f \in Polynomial /\ Len(f) = n
BY SeqDef, LenProperties DEF Polynomial

(* And the other way round.                                                *)
LEMMA PolynomialIs ==
  ASSUME NEW c \in Polynomial
  PROVE  /\ Len(c) \in Nat
         /\ DOMAIN c = 1..Len(c)
         /\ c \in [1..Len(c) -> Field]
         /\ \A i \in 1..Len(c) : c[i] \in Field
BY LenProperties DEF Polynomial

(* Polynomials with the same coefficients are equal.                       *)
LEMMA PolynomialEqual ==
  ASSUME NEW c \in Polynomial, NEW d \in Polynomial, Len(c) = Len(d),
         \A i \in 1..Len(c) : c[i] = d[i]
  PROVE  c = d
BY SeqEqual DEF Polynomial

(* The halves of a polynomial, and a bound on their lengths that lets the  *)
(* recursion end.                                                          *)
LEMMA HalvesType ==
  ASSUME NEW c \in Polynomial
  PROVE  /\ Evens(c) \in Polynomial /\ Odds(c) \in Polynomial
         /\ Len(Evens(c)) = (Len(c) + 1) \div 2
         /\ Len(Odds(c)) = Len(c) \div 2
         /\ Len(c) > 1 => Len(Evens(c)) < Len(c) /\ Len(Odds(c)) < Len(c)
<1> DEFINE n == Len(c)
<1>1. n \in Nat /\ \A i \in 1..n : c[i] \in Field
  BY PolynomialIs
<1>2. (n + 1) \div 2 \in Nat /\ n \div 2 \in Nat
      /\ (n > 1 => (n + 1) \div 2 < n /\ n \div 2 < n)
  BY <1>1
<1>3. \A i \in 1..((n + 1) \div 2) : 2 * i - 1 \in 1..n
  BY <1>1
<1>4. \A i \in 1..(n \div 2) : 2 * i \in 1..n
  BY <1>1
<1>5. Evens(c) \in [1..((n + 1) \div 2) -> Field]
  BY <1>1, <1>3 DEF Evens
<1>6. Odds(c) \in [1..(n \div 2) -> Field]
  BY <1>1, <1>4 DEF Odds
<1> QED
  BY <1>2, <1>5, <1>6, PolynomialOf

(* The i-th twiddle factor is the i-1st power of the root.                 *)
LEMMA TwiddlesDef ==
  ASSUME NEW w \in Field, NEW n \in Nat
  PROVE  /\ Twiddles(w, n) \in Polynomial /\ Len(Twiddles(w, n)) = n
         /\ \A i \in 1..n : Twiddles(w, n)[i] = Power(w, i - 1)
<1> DEFINE IsTable(f) == f = [i \in 1..n |-> IF i = 1 THEN 1 ELSE Mul(f[i - 1], w)]
           p == [i \in 1..n |-> Power(w, i - 1)]
           t == CHOOSE f : IsTable(f)
<1>1. IsTable(p)
  <2>1. \A i \in 1..n : p[i] = IF i = 1 THEN 1 ELSE Mul(p[i - 1], w)
    <3> SUFFICES ASSUME NEW i \in 1..n
                 PROVE  p[i] = IF i = 1 THEN 1 ELSE Mul(p[i - 1], w)
      OBVIOUS
    <3>1. CASE i = 1
      <4>1. i - 1 = 0
        BY <3>1
      <4> QED
        BY <3>1, <4>1, PowerDef
    <3>2. CASE i # 1
      <4>1. i - 1 \in 1..n /\ (i - 1) - 1 \in Nat /\ ((i - 1) - 1) + 1 = i - 1
        BY <3>2
      <4>2. Power(w, ((i - 1) - 1) + 1) = Mul(Power(w, (i - 1) - 1), w)
        BY <4>1, PowerDef
      <4> QED
        BY <3>2, <4>1, <4>2
    <3> QED
      BY <3>1, <3>2
  <2> QED
    BY <2>1
<1>2. IsTable(t)
  BY <1>1, Zenon
<1>3. \A i \in 1..n : t[i] = IF i = 1 THEN 1 ELSE Mul(t[i - 1], w)
  <2> HIDE DEF t
  <2> QED
    BY <1>2
<1>4. Twiddles(w, n) = [i \in 1..n |-> t[i]]
  BY DEF Twiddles
<1> HIDE DEF t
<1> DEFINE S == {k \in Nat : k + 1 \in 1..n => t[k + 1] = Power(w, k)}
<1>5. Nat \subseteq S
  <2>1. 0 \in S
    BY <1>3, PowerDef
  <2>2. ASSUME NEW k \in Nat, k \in S
        PROVE  k + 1 \in S
    <3> SUFFICES ASSUME k + 2 \in 1..n
                 PROVE  t[k + 2] = Power(w, k + 1)
      OBVIOUS
    <3>1. t[k + 2] = Mul(t[k + 1], w)
      BY <1>3
    <3>2. t[k + 1] = Power(w, k)
      BY <2>2
    <3> QED
      BY <3>1, <3>2, PowerDef
  <2> HIDE DEF S
  <2> QED
    BY <2>1, <2>2, NatInduct
<1>6. ASSUME NEW i \in 1..n
      PROVE  t[i] = Power(w, i - 1) /\ t[i] \in Field
  <2>1. i - 1 \in Nat /\ (i - 1) + 1 = i
    OBVIOUS
  <2>2. i - 1 \in S
    BY <1>5, <2>1
  <2> QED
    BY <2>1, <2>2, PowerDef
<1>7. [i \in 1..n |-> t[i]] \in [1..n -> Field]
  BY <1>6
<1> QED
  BY <1>4, <1>6, <1>7, PolynomialOf

(* A butterfly of polynomials is one; of three of the same length it has   *)
(* twice as many coefficients.                                             *)
LEMMA ButterflyType ==
  ASSUME NEW e \in Polynomial, NEW o \in Polynomial, NEW t \in Polynomial
  PROVE  Butterfly(e, o, t) \in Polynomial
<1> DEFINE Z == Zip(e, o, t)
           lower == [i \in Z |-> Add(e[i], Mul(t[i], o[i]))]
           upper == [i \in Z |-> Sub(e[i], Mul(t[i], o[i]))]
<1>1. PICK n \in Nat : Z = 1..n
  <2>1. Len(e) \in Nat /\ Len(o) \in Nat /\ Len(t) \in Nat
        /\ Z = (1..Len(e)) \cap (1..Len(o)) \cap (1..Len(t))
    BY PolynomialIs DEF Zip
  <2>2. \A a, b \in Nat : \E k \in Nat : (1..a) \cap (1..b) = 1..k
    <3> SUFFICES ASSUME NEW a \in Nat, NEW b \in Nat
                 PROVE  \E k \in Nat : (1..a) \cap (1..b) = 1..k
      OBVIOUS
    <3>1. CASE a <= b
      <4>1. (1..a) \cap (1..b) = 1..a
        BY <3>1
      <4> QED
        BY <4>1
    <3>2. CASE b <= a
      <4>1. (1..a) \cap (1..b) = 1..b
        BY <3>2
      <4> QED
        BY <4>1
    <3> QED
      BY <3>1, <3>2
  <2>3. PICK j \in Nat : (1..Len(e)) \cap (1..Len(o)) = 1..j
    BY <2>1, <2>2
  <2>4. PICK k \in Nat : (1..j) \cap (1..Len(t)) = 1..k
    BY <2>1, <2>2
  <2> QED
    BY <2>1, <2>3, <2>4
<1>2. \A i \in 1..n : e[i] \in Field /\ o[i] \in Field /\ t[i] \in Field
  BY <1>1, PolynomialIs DEF Zip
<1>3. lower \in [1..n -> Field] /\ upper \in [1..n -> Field]
  <2> SUFFICES ASSUME NEW i \in 1..n
               PROVE  Add(e[i], Mul(t[i], o[i])) \in Field /\ Sub(e[i], Mul(t[i], o[i])) \in Field
    BY <1>1
  <2>1. Mul(t[i], o[i]) \in Field
    BY <1>2, Closed
  <2> QED
    BY <1>2, <2>1, Closed
<1>4. lower \in Polynomial /\ upper \in Polynomial
  <2> HIDE DEF lower, upper
  <2> QED
    BY <1>3, PolynomialOf
<1>5. Butterfly(e, o, t) = lower \o upper
  BY DEF Butterfly
<1> HIDE DEF lower, upper
<1> QED
  BY <1>4, <1>5, ConcatProperties DEF Polynomial

(* The coefficients of a butterfly of three polynomials of one length.     *)
LEMMA ButterflyDef ==
  ASSUME NEW m \in Nat, NEW e \in Polynomial, NEW o \in Polynomial, NEW t \in Polynomial,
         Len(e) = m, Len(o) = m, Len(t) = m
  PROVE  /\ Len(Butterfly(e, o, t)) = 2 * m
         /\ \A i \in 1..m : /\ Butterfly(e, o, t)[i] = Add(e[i], Mul(t[i], o[i]))
                            /\ Butterfly(e, o, t)[i + m] = Sub(e[i], Mul(t[i], o[i]))
<1> DEFINE lower == [i \in 1..m |-> Add(e[i], Mul(t[i], o[i]))]
           upper == [i \in 1..m |-> Sub(e[i], Mul(t[i], o[i]))]
<1>1. Zip(e, o, t) = 1..m
  BY PolynomialIs DEF Zip
<1>2. Butterfly(e, o, t) = lower \o upper
  BY <1>1 DEF Butterfly
<1>3. lower \in [1..m -> Field] /\ upper \in [1..m -> Field]
  <2> SUFFICES ASSUME NEW i \in 1..m
               PROVE  Add(e[i], Mul(t[i], o[i])) \in Field /\ Sub(e[i], Mul(t[i], o[i])) \in Field
    OBVIOUS
  <2>1. e[i] \in Field /\ o[i] \in Field /\ t[i] \in Field
    BY PolynomialIs
  <2>2. Mul(t[i], o[i]) \in Field
    BY <2>1, Closed
  <2> QED
    BY <2>1, <2>2, Closed
<1>4. \A i \in 1..m : lower[i] = Add(e[i], Mul(t[i], o[i])) /\ upper[i] = Sub(e[i], Mul(t[i], o[i]))
  OBVIOUS
<1> HIDE DEF lower, upper
<1>5. lower \in Polynomial /\ upper \in Polynomial /\ Len(lower) = m /\ Len(upper) = m
  BY <1>3, PolynomialOf
<1>6. /\ Len(lower \o upper) = m + m
      /\ \A i \in 1..(m + m) : (lower \o upper)[i] = IF i <= m THEN lower[i] ELSE upper[i - m]
  BY <1>5, ConcatProperties, SMTT(30) DEF Polynomial
<1>7. ASSUME NEW i \in 1..m
      PROVE  (lower \o upper)[i] = lower[i] /\ (lower \o upper)[i + m] = upper[i]
  <2>1. i \in 1..(m + m) /\ i <= m /\ i + m \in 1..(m + m) /\ ~ (i + m <= m) /\ (i + m) - m = i
    OBVIOUS
  <2> QED
    BY <1>6, <2>1
<1>8. Len(Butterfly(e, o, t)) = 2 * m
  BY <1>2, <1>6
<1>9. ASSUME NEW i \in 1..m
      PROVE  /\ Butterfly(e, o, t)[i] = Add(e[i], Mul(t[i], o[i]))
             /\ Butterfly(e, o, t)[i + m] = Sub(e[i], Mul(t[i], o[i]))
  BY <1>2, <1>4, <1>7
<1> QED
  BY <1>8, <1>9

-----------------------------------------------------------------------------
(***************************************************************************)
(* The recursion.  It ends because the halves are shorter, so that there   *)
(* is a function that satisfies it: the limit of the functions that go on  *)
(* for no more than a given number of levels.                              *)
(***************************************************************************)
Calls == Polynomial \X Field

\* One level of ntt_recursive, with f for the recursive calls.
Level(f) ==
  [a \in Calls |->
     IF Len(a[1]) <= 1 THEN a[1]
     ELSE Butterfly(f[<<Evens(a[1]), Mul(a[2], a[2])>>], f[<<Odds(a[1]), Mul(a[2], a[2])>>],
                    Twiddles(a[2], Len(a[1]) \div 2))]

(* A level makes a polynomial of polynomials.                              *)
LEMMA LevelType ==
  ASSUME NEW f, NEW a \in Calls,
         \A b \in Calls : Len(b[1]) < Len(a[1]) => f[b] \in Polynomial
  PROVE  Level(f)[a] \in Polynomial
<1> DEFINE e == <<Evens(a[1]), Mul(a[2], a[2])>>
           o == <<Odds(a[1]), Mul(a[2], a[2])>>
           t == Twiddles(a[2], Len(a[1]) \div 2)
<1>1. a[1] \in Polynomial /\ a[2] \in Field /\ Len(a[1]) \in Nat
  BY PolynomialIs DEF Calls
<1>2. CASE Len(a[1]) <= 1
  BY <1>1, <1>2 DEF Level
<1>3. CASE Len(a[1]) > 1
  <2>1. e \in Calls /\ o \in Calls /\ Len(e[1]) < Len(a[1]) /\ Len(o[1]) < Len(a[1])
    BY <1>1, <1>3, HalvesType, Closed DEF Calls
  <2>2. f[e] \in Polynomial /\ f[o] \in Polynomial
    BY <2>1
  <2>3. ~ (Len(a[1]) <= 1)
    BY <1>1, <1>3
  <2>4. Level(f)[a] = Butterfly(f[e], f[o], t)
    BY <2>3 DEF Level
  <2>5. t \in Polynomial
    <3>1. Len(a[1]) \div 2 \in Nat
      BY <1>1, HalvesType, PolynomialIs
    <3> QED
      BY <1>1, <3>1, TwiddlesDef
  <2> HIDE DEF e, o, t
  <2> QED
    BY <2>2, <2>4, <2>5, ButterflyType
<1> QED
  BY <1>1, <1>2, <1>3

(* So does a function that satisfies the recursion.                        *)
LEMMA RecursionTyped ==
  ASSUME NEW f, f = Level(f)
  PROVE  f \in [Calls -> Polynomial]
<1> DEFINE S == {n \in Nat : \A a \in Calls : Len(a[1]) < n => f[a] \in Polynomial}
<1>1. \A a \in Calls : Len(a[1]) \in Nat
  BY PolynomialIs DEF Calls
<1>2. 0 \in S
  BY <1>1
<1>3. ASSUME NEW n \in Nat, n \in S
      PROVE  n + 1 \in S
  <2> SUFFICES ASSUME NEW a \in Calls, Len(a[1]) < n + 1
               PROVE  f[a] \in Polynomial
    OBVIOUS
  <2>1. \A b \in Calls : Len(b[1]) < Len(a[1]) => f[b] \in Polynomial
    BY <1>1, <1>3
  <2>2. Level(f)[a] \in Polynomial
    BY <2>1, LevelType
  <2> QED
    BY <2>2
<1>4. Nat \subseteq S
  <2> HIDE DEF S
  <2> QED
    BY <1>2, <1>3, NatInduct
<1>5. \A a \in Calls : f[a] \in Polynomial
  <2> SUFFICES ASSUME NEW a \in Calls
               PROVE  f[a] \in Polynomial
    OBVIOUS
  <2>1. Len(a[1]) + 1 \in S
    BY <1>1, <1>4
  <2> QED
    BY <1>1, <2>1
<1>6. f = [a \in Calls |-> f[a]]
  <2>1. Level(f) = [a \in Calls |-> Level(f)[a]]
    BY DEF Level
  <2> QED
    BY <2>1
<1> QED
  BY <1>5, <1>6

(* A level depends on shorter polynomials only.                            *)
LEMMA LevelDepends ==
  ASSUME NEW f \in [Calls -> Polynomial], NEW g \in [Calls -> Polynomial], NEW a \in Calls,
         \A b \in Calls : Len(b[1]) < Len(a[1]) => f[b] = g[b]
  PROVE  Level(f)[a] = Level(g)[a]
<1>1. a[1] \in Polynomial /\ a[2] \in Field /\ Len(a[1]) \in Nat
  BY PolynomialIs DEF Calls
<1>2. CASE Len(a[1]) <= 1
  BY <1>2 DEF Level
<1>3. CASE Len(a[1]) > 1
  <2> DEFINE e == <<Evens(a[1]), Mul(a[2], a[2])>>
             o == <<Odds(a[1]), Mul(a[2], a[2])>>
  <2>1. e \in Calls /\ o \in Calls /\ Len(e[1]) < Len(a[1]) /\ Len(o[1]) < Len(a[1])
    BY <1>1, <1>3, HalvesType, Closed DEF Calls
  <2>2. f[e] = g[e] /\ f[o] = g[o]
    BY <2>1
  <2>3. ~ (Len(a[1]) <= 1)
    BY <1>1, <1>3
  <2> QED
    BY <2>2, <2>3 DEF Level
<1> QED
  BY <1>1, <1>2, <1>3

(* There is a function that satisfies the recursion.                       *)
LEMMA RecursionEnds == \E f : f = Level(f)
<1> DEFINE Functions == [Calls -> Polynomial]
           start == [a \in Calls |-> a[1]]
           G == [b \in Nat \X Functions |-> Level(b[2])]
<1>1. start \in Functions
  BY DEF Calls
<1>2. G \in [Nat \X Functions -> Functions]
  <2>1. \A f \in Functions : Level(f) \in Functions
    <3> SUFFICES ASSUME NEW f \in Functions
                 PROVE  Level(f) \in Functions
      OBVIOUS
    <3>1. \A a \in Calls : Level(f)[a] \in Polynomial
      BY LevelType
    <3>2. Level(f) = [a \in Calls |-> Level(f)[a]]
      BY DEF Level
    <3> QED
      BY <3>1, <3>2
  <2> QED
    BY <2>1
<1>3. \A n \in Nat, f \in Functions : G[<<n, f>>] = Level(f)
  OBVIOUS
<1> HIDE DEF start, G
<1>4. PICK F : Recurs(F, Functions, start, G)
  BY <1>1, <1>2, RecursionExists
<1>5. F \in [Nat -> Functions] /\ F[0] = start
      /\ \A n \in Nat : F[n + 1] = Level(F[n])
  BY <1>3, <1>4 DEF Recurs
<1> HIDE DEF Functions
<1>6. \A n \in Nat : F[n] \in [Calls -> Polynomial]
  BY <1>5 DEF Functions
<1>7. \A a \in Calls : a[1] \in Polynomial /\ Len(a[1]) \in Nat
  BY PolynomialIs DEF Calls
<1>8. \A n \in Nat : \A a \in Calls : Len(a[1]) <= n + 1 => F[n + 1][a] = F[n][a]
  <2> DEFINE S == {n \in Nat : \A a \in Calls : Len(a[1]) <= n + 1 => F[n + 1][a] = F[n][a]}
  <2>1. 0 \in S
    <3> SUFFICES ASSUME NEW a \in Calls, Len(a[1]) <= 1
                 PROVE  F[0 + 1][a] = F[0][a]
      OBVIOUS
    <3>1. F[0][a] = a[1]
      BY <1>5 DEF start
    <3>2. F[0 + 1] = Level(F[0])
      BY <1>5
    <3>3. Level(F[0])[a] = a[1]
      BY DEF Level
    <3> QED
      BY <3>1, <3>2, <3>3
  <2>2. ASSUME NEW n \in Nat, n \in S
        PROVE  n + 1 \in S
    <3> SUFFICES ASSUME NEW a \in Calls, Len(a[1]) <= (n + 1) + 1
                 PROVE  F[(n + 1) + 1][a] = F[n + 1][a]
      OBVIOUS
    <3>1. n + 1 \in Nat
      OBVIOUS
    <3>2. F[n] \in [Calls -> Polynomial] /\ F[n + 1] \in [Calls -> Polynomial]
      BY <1>6, <3>1
    <3>3. \A b \in Calls : Len(b[1]) < Len(a[1]) => F[n + 1][b] = F[n][b]
      BY <1>7, <2>2
    <3>4. Level(F[n + 1])[a] = Level(F[n])[a]
      BY <3>2, <3>3, LevelDepends
    <3>5. F[(n + 1) + 1] = Level(F[n + 1]) /\ F[n + 1] = Level(F[n])
      BY <1>5, <3>1
    <3> QED
      BY <3>4, <3>5
  <2>3. Nat \subseteq S
    <3> HIDE DEF S
    <3> QED
      BY <2>1, <2>2, NatInduct
  <2> QED
    BY <2>3
<1>9. \A m \in Nat : \A a \in Calls : Len(a[1]) <= m => F[m][a] = F[Len(a[1])][a]
  <2> DEFINE S == {m \in Nat : \A a \in Calls : Len(a[1]) <= m => F[m][a] = F[Len(a[1])][a]}
  <2>1. 0 \in S
    <3> SUFFICES ASSUME NEW a \in Calls, Len(a[1]) <= 0
                 PROVE  F[0][a] = F[Len(a[1])][a]
      OBVIOUS
    <3>1. Len(a[1]) = 0
      BY <1>7
    <3> QED
      BY <3>1
  <2>2. ASSUME NEW m \in Nat, m \in S
        PROVE  m + 1 \in S
    <3> SUFFICES ASSUME NEW a \in Calls, Len(a[1]) <= m + 1
                 PROVE  F[m + 1][a] = F[Len(a[1])][a]
      OBVIOUS
    <3>1. CASE Len(a[1]) = m + 1
      BY <3>1
    <3>2. CASE Len(a[1]) <= m
      <4>1. F[m][a] = F[Len(a[1])][a]
        BY <2>2, <3>2
      <4>2. F[m + 1][a] = F[m][a]
        BY <1>8
      <4> QED
        BY <4>1, <4>2
    <3> QED
      BY <1>7, <3>1, <3>2
  <2>3. Nat \subseteq S
    <3> HIDE DEF S
    <3> QED
      BY <2>1, <2>2, NatInduct
  <2> QED
    BY <2>3
<1> DEFINE h == [a \in Calls |-> F[Len(a[1])][a]]
<1>10. h \in [Calls -> Polynomial]
  BY <1>6, <1>7
<1>11. \A a \in Calls : h[a] = F[Len(a[1])][a]
  OBVIOUS
<1>12. Level(h) = [a \in Calls |-> Level(h)[a]]
  BY DEF Level
<1> HIDE DEF h
<1>13. ASSUME NEW a \in Calls
       PROVE  h[a] = Level(h)[a]
  <2>1. CASE Len(a[1]) = 0
    <3>1. h[a] = a[1]
      BY <1>5, <1>11, <2>1 DEF start
    <3>2. Len(a[1]) <= 1
      BY <2>1
    <3>3. Level(h)[a] = a[1]
      BY <3>2 DEF Level
    <3> QED
      BY <3>1, <3>3
  <2>2. CASE Len(a[1]) > 0
    <3> DEFINE n == Len(a[1]) - 1
    <3>1. n \in Nat /\ n + 1 = Len(a[1])
      BY <1>7, <2>2
    <3>2. h[a] = Level(F[n])[a]
      BY <1>5, <1>11, <3>1
    <3>3. \A b \in Calls : Len(b[1]) < Len(a[1]) => F[n][b] = h[b]
      BY <1>7, <1>9, <1>11, <3>1
    <3>4. Level(F[n])[a] = Level(h)[a]
      <4>1. F[n] \in [Calls -> Polynomial]
        BY <1>6, <3>1
      <4> QED
        BY <1>10, <3>3, <4>1, LevelDepends
    <3> QED
      BY <3>2, <3>4
  <2> QED
    BY <1>7, <2>1, <2>2
<1>14. h = [a \in Calls |-> h[a]]
  BY <1>10
<1>15. h = Level(h)
  BY <1>12, <1>13, <1>14
<1> QED
  BY <1>15

(* What ntt_recursive returns of a polynomial and a root.                  *)
LEMMA NttDef ==
  ASSUME NEW c \in Polynomial, NEW w \in Field
  PROVE  /\ NttRecursive(c, w) \in Polynomial
         /\ Len(c) <= 1 => NttRecursive(c, w) = c
         /\ Len(c) > 1 => NttRecursive(c, w)
                            = Butterfly(NttRecursive(Evens(c), Mul(w, w)),
                                        NttRecursive(Odds(c), Mul(w, w)),
                                        Twiddles(w, Len(c) \div 2))
<1> DEFINE ntt == CHOOSE f : f = Level(f)
<1>1. \A d, v : NttRecursive(d, v) = ntt[<<d, v>>]
  BY Zenon DEF NttRecursive, Level, Calls, Polynomial
<1>2. ntt = Level(ntt)
  BY RecursionEnds, Zenon
<1> HIDE DEF ntt
<1>3. ntt \in [Calls -> Polynomial]
  BY <1>2, RecursionTyped
<1> HIDE DEF ntt
<1>4. <<c, w>> \in Calls
  BY DEF Calls
<1>5. ntt[<<c, w>>] = IF Len(c) <= 1 THEN c
                      ELSE Butterfly(ntt[<<Evens(c), Mul(w, w)>>], ntt[<<Odds(c), Mul(w, w)>>],
                                     Twiddles(w, Len(c) \div 2))
  <2>1. Level(ntt)[<<c, w>>] = IF Len(c) <= 1 THEN c
                      ELSE Butterfly(ntt[<<Evens(c), Mul(w, w)>>], ntt[<<Odds(c), Mul(w, w)>>],
                                     Twiddles(w, Len(c) \div 2))
    BY <1>4 DEF Level
  <2> QED
    BY <1>2, <2>1
<1>6. ntt[<<c, w>>] \in Polynomial /\ Len(c) \in Nat
  BY <1>3, <1>4, PolynomialIs
<1>7. ~ (Len(c) > 1 /\ Len(c) <= 1)
  BY <1>6
<1> QED
  BY <1>1, <1>5, <1>6, <1>7, Zenon

-----------------------------------------------------------------------------
(***************************************************************************)
(* The discrete Fourier transform as a sum.                                *)
(***************************************************************************)

(* SumModP is a sum of terms counted from 0.                               *)
LEMMA SumModPIsSum ==
  ASSUME NEW s \in Polynomial, NEW F \in Terms, \A i \in 0..(Len(s) - 1) : F[i] = s[i + 1]
  PROVE  SumModP(s) = Sum(F, Len(s))
<1> DEFINE n == Len(s)
           IsSum(f) == f = [i \in 0..n |-> IF i = 0 THEN 0 ELSE Add(f[i - 1], s[i])]
           total == CHOOSE f : IsSum(f)
           p == [i \in 0..n |-> Sum(F, i)]
<1>1. n \in Nat
  BY PolynomialIs
<1>2. IsSum(p)
  <2>1. ASSUME NEW i \in 0..n
        PROVE  p[i] = IF i = 0 THEN 0 ELSE Add(p[i - 1], s[i])
    <3>1. CASE i = 0
      BY <3>1, SumDef, <1>1
    <3>2. CASE i # 0
      <4>1. i - 1 \in 0..(n - 1) /\ i - 1 \in 0..n /\ i - 1 \in Nat /\ (i - 1) + 1 = i
        BY <1>1, <3>2
      <4>2. Sum(F, (i - 1) + 1) = Add(Sum(F, i - 1), F[i - 1])
        BY <4>1, SumDef
      <4> QED
        BY <3>2, <4>1, <4>2
    <3> QED
      BY <3>1, <3>2
  <2> QED
    BY <2>1
<1>3. IsSum(total)
  BY <1>2, Zenon
<1>4. SumModP(s) = total[n]
  BY DEF SumModP
<1> HIDE DEF total
<1>5. \A i \in 0..n : total[i] = IF i = 0 THEN 0 ELSE Add(total[i - 1], s[i])
  BY <1>3
<1> DEFINE S == {i \in Nat : i <= n => total[i] = Sum(F, i)}
<1>6. Nat \subseteq S
  <2>1. 0 \in S
    BY <1>1, <1>5, SumDef
  <2>2. ASSUME NEW i \in Nat, i \in S
        PROVE  i + 1 \in S
    <3> SUFFICES ASSUME i + 1 <= n
                 PROVE  total[i + 1] = Sum(F, i + 1)
      OBVIOUS
    <3>1. i + 1 \in 0..n /\ i + 1 # 0 /\ (i + 1) - 1 = i /\ i \in 0..(n - 1) /\ i <= n
      BY <1>1
    <3>2. total[i + 1] = Add(total[i], s[i + 1])
      BY <1>5, <3>1
    <3>3. total[i] = Sum(F, i)
      BY <2>2, <3>1
    <3>4. F[i] = s[i + 1]
      BY <3>1
    <3> QED
      BY <3>2, <3>3, <3>4, SumDef
  <2> HIDE DEF S
  <2> QED
    BY <2>1, <2>2, NatInduct
<1>7. n \in S
  BY <1>1, <1>6
<1> QED
  BY <1>1, <1>4, <1>7

\* The coefficients counted from 0, and their terms at the k-th power of w.
Coefficient(c) == [i \in Nat |-> IF i < Len(c) THEN c[i + 1] ELSE 0]
At(c, w, k) == [i \in Nat |-> Mul(Coefficient(c)[i], Power(w, i * k))]

(* They are field elements.                                                *)
LEMMA CoefficientType ==
  ASSUME NEW c \in Polynomial
  PROVE  /\ Coefficient(c) \in Terms
         /\ \A i \in 1..Len(c) : c[i] = Coefficient(c)[i - 1]
<1>1. Len(c) \in Nat /\ \A i \in 1..Len(c) : c[i] \in Field
  BY PolynomialIs
<1>2. ASSUME NEW i \in Nat
      PROVE  (IF i < Len(c) THEN c[i + 1] ELSE 0) \in Field
  <2>1. i < Len(c) => i + 1 \in 1..Len(c)
    BY <1>1
  <2> QED
    BY <1>1, <2>1, Order
<1>3. \A i \in 1..Len(c) : i - 1 \in Nat /\ i - 1 < Len(c) /\ (i - 1) + 1 = i
  BY <1>1
<1> QED
  BY <1>2, <1>3 DEF Coefficient, Terms

(* So are the terms.                                                       *)
LEMMA AtType ==
  ASSUME NEW c \in Polynomial, NEW w \in Field, NEW k \in Nat
  PROVE  /\ At(c, w, k) \in Terms
         /\ \A i \in Nat : At(c, w, k)[i] = Mul(Coefficient(c)[i], Power(w, i * k))
<1>1. ASSUME NEW i \in Nat
      PROVE  Mul(Coefficient(c)[i], Power(w, i * k)) \in Field
  <2>1. i * k \in Nat
    OBVIOUS
  <2>2. Coefficient(c)[i] \in Field
    BY CoefficientType DEF Terms
  <2> QED
    BY <2>1, <2>2, PowerDef, Closed
<1> QED
  BY <1>1 DEF At, Terms

(* A transform is the polynomial evaluated at powers of the root.          *)
LEMMA DftDef ==
  ASSUME NEW c \in Polynomial, NEW w \in Field
  PROVE  /\ Dft(c, w) \in Polynomial
         /\ Len(Dft(c, w)) = Len(c)
         /\ \A k \in 1..Len(c) : Dft(c, w)[k] = Sum(At(c, w, k - 1), Len(c))
<1> DEFINE n == Len(c)
           s(k) == [j \in 1..n |-> Mul(FromU64(c[j]), Power(w, (j - 1) * (k - 1)))]
<1>1. n \in Nat /\ \A i \in 1..n : c[i] \in Field
  BY PolynomialIs
<1>2. ASSUME NEW k \in 1..n
      PROVE  /\ SumModP(s(k)) = Sum(At(c, w, k - 1), n)
             /\ SumModP(s(k)) \in Field
  <2>1. k - 1 \in Nat
    BY <1>1
  <2>2. ASSUME NEW j \in 1..n
        PROVE  /\ Mul(FromU64(c[j]), Power(w, (j - 1) * (k - 1))) \in Field
               /\ Mul(FromU64(c[j]), Power(w, (j - 1) * (k - 1))) = At(c, w, k - 1)[j - 1]
    <3>1. j - 1 \in Nat
      BY <1>1
    <3>2. FromU64(c[j]) = Coefficient(c)[j - 1]
      BY <1>1, CoefficientType, RemainderOfElement DEF FromU64
    <3>3. Mul(FromU64(c[j]), Power(w, (j - 1) * (k - 1))) = At(c, w, k - 1)[j - 1]
      BY <2>1, <3>1, <3>2, AtType
    <3>4. At(c, w, k - 1)[j - 1] \in Field
      BY <2>1, <3>1, AtType DEF Terms
    <3> QED
      BY <3>3, <3>4
  <2>3. s(k) \in [1..n -> Field]
    BY <2>2
  <2>4. \A i \in 0..(n - 1) : At(c, w, k - 1)[i] = s(k)[i + 1]
    <3> SUFFICES ASSUME NEW i \in 0..(n - 1)
                 PROVE  At(c, w, k - 1)[i] = s(k)[i + 1]
      OBVIOUS
    <3>1. i + 1 \in 1..n /\ (i + 1) - 1 = i
      BY <1>1
    <3> QED
      BY <2>2, <3>1
  <2> DEFINE t == s(k)
  <2>5. t \in [1..n -> Field] /\ \A i \in 0..(n - 1) : At(c, w, k - 1)[i] = t[i + 1]
    BY <2>3, <2>4
  <2> HIDE DEF t
  <2>6. t \in Polynomial /\ Len(t) = n
    BY <1>1, <2>5, PolynomialOf
  <2>7. At(c, w, k - 1) \in Terms
    BY <2>1, AtType
  <2>8. SumModP(t) = Sum(At(c, w, k - 1), n)
    BY <2>5, <2>6, <2>7, SumModPIsSum
  <2>9. Sum(At(c, w, k - 1), n) \in Field
    BY <1>1, <2>7, SumDef
  <2> QED
    BY <2>8, <2>9 DEF t
<1>3. Dft(c, w) = [k \in 1..n |-> SumModP(s(k))]
  BY DEF Dft
<1> HIDE DEF s
<1>4. Dft(c, w) \in [1..n -> Field]
  BY <1>2, <1>3
<1> QED
  BY <1>1, <1>2, <1>3, <1>4, PolynomialOf

-----------------------------------------------------------------------------
(***************************************************************************)
(* The recursion computes the transform.                                   *)
(***************************************************************************)

(* The even and odd terms of a polynomial at a power of w are those of its *)
(* halves at the same power of w^2, the odd ones times that power.         *)
LEMMA AtSplits ==
  ASSUME NEW m \in Nat, NEW c \in Polynomial, Len(c) = 2 * m, NEW w \in Field, NEW k \in Nat
  PROVE  /\ Len(Evens(c)) = m /\ Len(Odds(c)) = m
         /\ Sum(At(c, w, k), 2 * m)
              = Add(Sum(At(Evens(c), Mul(w, w), k), m),
                    Mul(Power(w, k), Sum(At(Odds(c), Mul(w, w), k), m)))
<1> DEFINE e == Evens(c)
           o == Odds(c)
           v == Mul(w, w)
           A == [i \in Nat |-> At(c, w, k)[2 * i]]
           B == [i \in Nat |-> At(c, w, k)[2 * i + 1]]
           D == [i \in Nat |-> Mul(Power(w, k), At(o, v, k)[i])]
<1>1. (2 * m + 1) \div 2 = m /\ (2 * m) \div 2 = m
  OBVIOUS
<1>2. e \in Polynomial /\ o \in Polynomial /\ Len(e) = m /\ Len(o) = m
  BY <1>1, HalvesType
<1>3. v \in Field /\ Power(w, k) \in Field
  BY Closed, PowerDef
<1>4. At(c, w, k) \in Terms /\ At(e, v, k) \in Terms /\ At(o, v, k) \in Terms
  BY <1>2, <1>3, AtType
<1>5. A \in Terms /\ B \in Terms /\ D \in Terms
  <2>1. \A i \in Nat : 2 * i \in Nat /\ 2 * i + 1 \in Nat
    OBVIOUS
  <2>2. \A i \in Nat : At(c, w, k)[i] \in Field /\ At(o, v, k)[i] \in Field
    BY <1>4 DEF Terms
  <2> HIDE DEF v, o
  <2>3. \A i \in Nat : Mul(Power(w, k), At(o, v, k)[i]) \in Field
    BY <1>3, <2>2, Closed
  <2> QED
    BY <2>1, <2>2, <2>3 DEF Terms
<1>6. \A i \in Nat : A[i] = At(c, w, k)[2 * i] /\ B[i] = At(c, w, k)[2 * i + 1]
                     /\ D[i] = Mul(Power(w, k), At(o, v, k)[i])
  OBVIOUS
<1> HIDE DEF A, B, D
<1>7. Sum(At(c, w, k), 2 * m) = Add(Sum(A, m), Sum(B, m))
  <2> DEFINE F == At(c, w, k)
  <2>1. F \in Terms /\ \A i \in Nat : A[i] = F[2 * i] /\ B[i] = F[2 * i + 1]
    BY <1>4, <1>6
  <2> HIDE DEF F
  <2>2. Sum(F, 2 * m) = Add(Sum(A, m), Sum(B, m))
    BY <1>5, <2>1, SumSplit, ZenonT(60)
  <2> QED
    BY <2>2 DEF F
<1>8. \A i \in Nat : Power(v, i) = Power(w, 2 * i)
  <2> SUFFICES ASSUME NEW i \in Nat
               PROVE  Power(v, i) = Power(w, 2 * i)
    OBVIOUS
  <2>1. Power(v, i) = Mul(Power(w, i), Power(w, i))
    BY PowerOfProduct
  <2>2. Power(w, i + i) = Mul(Power(w, i), Power(w, i))
    BY PowerAdd
  <2>3. i + i = 2 * i
    OBVIOUS
  <2> QED
    BY <2>1, <2>2, <2>3
<1>9. ASSUME NEW i \in 0..(m - 1)
      PROVE  A[i] = At(e, v, k)[i] /\ B[i] = D[i]
  <2>1. i \in Nat /\ i * k \in Nat /\ 2 * i \in Nat /\ 2 * i + 1 \in Nat
        /\ 2 * (i * k) = (2 * i) * k /\ 2 * (i * k) \in Nat
        /\ (2 * i + 1) * k = 2 * (i * k) + k
    BY m \in Nat, k \in Nat, i \in 0..(m - 1), SMT
  <2>2. Coefficient(c)[2 * i] = Coefficient(e)[i]
    <3>1. 2 * i < 2 * m /\ i < m /\ i + 1 \in 1..((2 * m + 1) \div 2)
          /\ 2 * (i + 1) - 1 = 2 * i + 1
      OBVIOUS
    <3>2. e[i + 1] = c[2 * i + 1]
      BY <3>1 DEF Evens
    <3> QED
      BY <1>2, <2>1, <3>1, <3>2 DEF Coefficient
  <2>3. Coefficient(c)[2 * i + 1] = Coefficient(o)[i]
    <3>1. 2 * i + 1 < 2 * m /\ i < m /\ i + 1 \in 1..((2 * m) \div 2)
          /\ 2 * (i + 1) = (2 * i + 1) + 1
      OBVIOUS
    <3>2. o[i + 1] = c[(2 * i + 1) + 1]
      BY <3>1 DEF Odds
    <3> QED
      BY <1>2, <2>1, <3>1, <3>2 DEF Coefficient
  <2>4. Power(w, (2 * i) * k) = Power(v, i * k)
    BY <1>8, <2>1
  <2>5. Power(w, (2 * i + 1) * k) = Mul(Power(v, i * k), Power(w, k))
    <3>1. Power(w, 2 * (i * k) + k) = Mul(Power(w, 2 * (i * k)), Power(w, k))
      BY <2>1, PowerAdd
    <3>2. Power(v, i * k) = Power(w, 2 * (i * k))
      BY <1>8, <2>1
    <3> QED
      BY <2>1, <3>1, <3>2
  <2>6. A[i] = Mul(Coefficient(c)[2 * i], Power(w, (2 * i) * k))
    BY <1>6, <2>1, AtType, ZenonT(60)
  <2>7. B[i] = Mul(Coefficient(c)[2 * i + 1], Power(w, (2 * i + 1) * k))
    BY <1>6, <2>1, AtType, ZenonT(60)
  <2>8. /\ At(e, v, k)[i] = Mul(Coefficient(e)[i], Power(v, i * k))
        /\ At(o, v, k)[i] = Mul(Coefficient(o)[i], Power(v, i * k))
    <3>1. i \in Nat
      BY <2>1
    <3> QED
      BY <1>2, <1>3, <3>1, AtType, ZenonT(60)
  <2>9. B[i] = D[i]
    <3> DEFINE x == Coefficient(o)[i]
               y == Power(v, i * k)
               z == Power(w, k)
    <3>1. x \in Field /\ y \in Field /\ z \in Field
      BY <1>2, <1>3, <2>1, CoefficientType, PowerDef DEF Terms
    <3>2. B[i] = Mul(x, Mul(y, z))
      BY <2>3, <2>5, <2>7
    <3>3. D[i] = Mul(z, Mul(x, y))
      BY <1>6, <2>1, <2>8
    <3> HIDE DEF x, y, z
    <3>4. Mul(x, y) \in Field
      BY <3>1, Closed
    <3>5. Mul(z, Mul(x, y)) = Mul(Mul(x, y), z)
      BY <3>1, <3>4, MulLaws
    <3>6. Mul(Mul(x, y), z) = Mul(x, Mul(y, z))
      BY <3>1, MulLaws
    <3> QED
      BY <3>2, <3>3, <3>5, <3>6
  <2> QED
    BY <2>2, <2>4, <2>6, <2>8, <2>9
<1>10. Sum(A, m) = Sum(At(e, v, k), m)
  BY <1>4, <1>5, <1>9, SumCong
<1>11. Sum(B, m) = Sum(D, m)
  BY <1>5, <1>9, SumCong
<1>12. Sum(D, m) = Mul(Power(w, k), Sum(At(o, v, k), m))
  BY <1>3, <1>4, <1>5, <1>6, SumMul, ZenonT(60)
<1> QED
  BY <1>2, <1>7, <1>10, <1>11, <1>12

(* A polynomial is the same at powers of a root that differ by its order.  *)
LEMMA AtPeriodic ==
  ASSUME NEW m \in Nat, NEW c \in Polynomial, NEW v \in Field, Power(v, m) = 1, NEW k \in Nat
  PROVE  At(c, v, k + m) = At(c, v, k)
<1>1. ASSUME NEW i \in Nat
      PROVE  Power(v, i * (k + m)) = Power(v, i * k)
  <2>1. i * k \in Nat /\ m * i \in Nat /\ i * (k + m) = i * k + m * i
    OBVIOUS
  <2>2. Power(v, i * k + m * i) = Mul(Power(v, i * k), Power(v, m * i))
    BY <2>1, PowerAdd
  <2>3. Power(v, m * i) = 1
    <3>1. Power(Power(v, m), i) = Power(v, m * i)
      BY PowerOfPower
    <3> QED
      BY <3>1, PowerTrivial
  <2>4. Mul(Power(v, i * k), 1) = Power(v, i * k)
    BY <2>1, PowerDef, MulLaws
  <2> QED
    BY <2>1, <2>2, <2>3, <2>4
<1> QED
  BY <1>1 DEF At

(* For every primitive root of order 2^k, ntt_recursive is the transform.  *)
THEOREM NttIsDft ==
  ASSUME NEW k \in Nat, NEW c \in Polynomial, Len(c) = 2^k, NEW w, PrimitiveRoot(w, 2^k)
  PROVE  NttRecursive(c, w) = Dft(c, w)
<1> DEFINE Computes(n) == \A d \in Polynomial, v \in Field :
                            Len(d) = n /\ PrimitiveRoot(v, n) => NttRecursive(d, v) = Dft(d, v)
           S == {j \in Nat : Computes(2^j)}
<1>1. Computes(1)
  <2> SUFFICES ASSUME NEW d \in Polynomial, NEW v \in Field, Len(d) = 1
               PROVE  d = Dft(d, v)
    <3>1. \A d \in Polynomial, v \in Field : Len(d) = 1 => NttRecursive(d, v) = d
      <4>1. 1 <= 1
        OBVIOUS
      <4> QED
        BY <4>1, NttDef
    <3> QED
      BY <3>1
  <2>1. Dft(d, v) \in Polynomial /\ Len(Dft(d, v)) = 1 /\ Dft(d, v)[1] = Sum(At(d, v, 0), 1)
    BY DftDef
  <2>2. At(d, v, 0) \in Terms
    BY AtType
  <2>3. Sum(At(d, v, 0), 0 + 1) = Add(Sum(At(d, v, 0), 0), At(d, v, 0)[0])
    BY <2>2, SumDef
  <2>4. Sum(At(d, v, 0), 0) = 0
    BY <2>2, SumDef
  <2>5. At(d, v, 0)[0] = d[1]
    <3>1. At(d, v, 0)[0] = Mul(Coefficient(d)[0], Power(v, 0 * 0))
      BY AtType
    <3>2. Coefficient(d)[0] = d[1] /\ d[1] \in Field
      <4>1. 1 \in 1..Len(d) /\ 1 - 1 = 0
        OBVIOUS
      <4> QED
        BY <4>1, CoefficientType, PolynomialIs
    <3>3. 0 * 0 = 0 /\ Power(v, 0) = 1
      BY PowerDef
    <3>4. Mul(d[1], 1) = d[1]
      BY <3>2, MulLaws
    <3> QED
      BY <3>1, <3>2, <3>3, <3>4
  <2>6. d[1] \in Field
    BY PolynomialIs
  <2>7. Dft(d, v)[1] = d[1]
    BY <2>1, <2>3, <2>4, <2>5, <2>6, AddLaws
  <2> QED
    BY <2>1, <2>7, PolynomialEqual
<1>2. ASSUME NEW m \in Nat, m > 0, Computes(m)
      PROVE  Computes(2 * m)
  <2> SUFFICES ASSUME NEW d \in Polynomial, NEW v \in Field,
                      Len(d) = 2 * m, PrimitiveRoot(v, 2 * m)
               PROVE  NttRecursive(d, v) = Dft(d, v)
    OBVIOUS
  <2> DEFINE e == Evens(d)
             o == Odds(d)
             u == Mul(v, v)
             t == Twiddles(v, m)
             r == Butterfly(Dft(e, u), Dft(o, u), t)
  <2>1. e \in Polynomial /\ o \in Polynomial /\ Len(e) = m /\ Len(o) = m
        /\ u \in Field /\ PrimitiveRoot(u, m)
    <3>1. (2 * m + 1) \div 2 = m /\ (2 * m) \div 2 = m
      OBVIOUS
    <3>2. e \in Polynomial /\ o \in Polynomial /\ Len(e) = m /\ Len(o) = m
      BY <3>1, HalvesType
    <3>3. u \in Field
      BY Closed
    <3>4. PrimitiveRoot(u, m)
      BY <1>2, SquareIsPrimitive
    <3> QED
      BY <3>2, <3>3, <3>4
  <2>2. NttRecursive(d, v) = r
    <3>1. NttRecursive(d, v) = Butterfly(NttRecursive(e, u), NttRecursive(o, u),
                                         Twiddles(v, Len(d) \div 2))
      <4>1. Len(d) > 1
        BY <1>2
      <4> QED
        BY <4>1, NttDef
    <3>2. Len(d) \div 2 = m
      OBVIOUS
    <3>3. NttRecursive(e, u) = Dft(e, u) /\ NttRecursive(o, u) = Dft(o, u)
      BY <1>2, <2>1
    <3> QED
      BY <3>1, <3>2, <3>3
  <2>3. /\ Dft(e, u) \in Polynomial /\ Dft(o, u) \in Polynomial
        /\ Len(Dft(e, u)) = m /\ Len(Dft(o, u)) = m
        /\ \A i \in 1..m : /\ Dft(e, u)[i] = Sum(At(e, u, i - 1), m)
                           /\ Dft(o, u)[i] = Sum(At(o, u, i - 1), m)
    BY <2>1, DftDef, SMTT(30)
  <2>4. t \in Polynomial /\ Len(t) = m /\ \A i \in 1..m : t[i] = Power(v, i - 1)
    BY TwiddlesDef
  <2>5. /\ r \in Polynomial /\ Len(r) = 2 * m
        /\ \A i \in 1..m : /\ r[i] = Add(Dft(e, u)[i], Mul(t[i], Dft(o, u)[i]))
                           /\ r[i + m] = Sub(Dft(e, u)[i], Mul(t[i], Dft(o, u)[i]))
    <3> DEFINE x == Dft(e, u)
               y == Dft(o, u)
    <3>1. x \in Polynomial /\ y \in Polynomial /\ Len(x) = m /\ Len(y) = m
      BY <2>3
    <3> HIDE DEF x, y, t
    <3>2. r \in Polynomial
      BY <2>4, <3>1, ButterflyType DEF x, y
    <3>3. /\ Len(Butterfly(x, y, t)) = 2 * m
          /\ \A i \in 1..m : /\ Butterfly(x, y, t)[i] = Add(x[i], Mul(t[i], y[i]))
                             /\ Butterfly(x, y, t)[i + m] = Sub(x[i], Mul(t[i], y[i]))
      BY <2>4, <3>1, ButterflyDef, ZenonT(60)
    <3> QED
      BY <3>2, <3>3 DEF x, y
  <2>6. /\ Dft(d, v) \in Polynomial /\ Len(Dft(d, v)) = 2 * m
        /\ \A i \in 1..(2 * m) : Dft(d, v)[i] = Sum(At(d, v, i - 1), 2 * m)
    BY DftDef
  <2>7. \A j \in Nat : Sum(At(d, v, j), 2 * m)
                         = Add(Sum(At(e, u, j), m), Mul(Power(v, j), Sum(At(o, u, j), m)))
    BY AtSplits
  <2>8. Power(v, m) = Neg(1) /\ Power(u, m) = 1
    BY <1>2, <2>1, HalfWay DEF PrimitiveRoot
  <2> HIDE DEF e, o, u, t, r
  <2>9. ASSUME NEW i \in 1..m
        PROVE  r[i] = Dft(d, v)[i] /\ r[i + m] = Dft(d, v)[i + m]
    <3>1. i - 1 \in Nat /\ i \in 1..(2 * m) /\ i + m \in 1..(2 * m) /\ (i + m) - 1 = (i - 1) + m
          /\ (i - 1) + m \in Nat
      OBVIOUS
    <3>2. r[i] = Dft(d, v)[i]
      BY <2>3, <2>4, <2>5, <2>6, <2>7, <3>1
    <3> DEFINE x == Sum(At(e, u, i - 1), m)
               y == Sum(At(o, u, i - 1), m)
               z == Power(v, i - 1)
    <3>3. x \in Field /\ y \in Field /\ z \in Field
      <4>1. At(e, u, i - 1) \in Terms /\ At(o, u, i - 1) \in Terms
        BY <2>1, <3>1, AtType
      <4> QED
        BY <3>1, <4>1, SumDef, PowerDef
    <3>4. r[i + m] = Sub(x, Mul(z, y))
      BY <2>3, <2>4, <2>5
    <3>5. Dft(d, v)[i + m] = Add(x, Mul(Power(v, (i - 1) + m), y))
      <4>1. At(e, u, (i - 1) + m) = At(e, u, i - 1) /\ At(o, u, (i - 1) + m) = At(o, u, i - 1)
        BY <2>1, <2>8, <3>1, AtPeriodic
      <4>2. Dft(d, v)[i + m] = Sum(At(d, v, (i - 1) + m), 2 * m)
        BY <2>6, <3>1
      <4> QED
        BY <2>7, <3>1, <4>1, <4>2
    <3>6. Power(v, (i - 1) + m) = Mul(z, Neg(1))
      BY <2>8, <3>1, PowerAdd
    <3> HIDE DEF x, y, z
    <3>7. Neg(1) \in Field /\ 1 \in Field
      BY Order, NegLaws
    <3>8. Mul(Mul(z, Neg(1)), y) = Neg(Mul(z, y))
      <4>1. Mul(z, Neg(1)) = Mul(Neg(1), z)
        BY <3>3, <3>7, MulLaws
      <4>2. Mul(Neg(1), z) = Neg(Mul(1, z)) /\ Mul(1, z) = z
        BY <3>3, <3>7, NegLaws, MulLaws
      <4>3. Mul(Neg(z), y) = Neg(Mul(z, y))
        BY <3>3, NegLaws
      <4> QED
        BY <4>1, <4>2, <4>3
    <3>9. Mul(z, y) \in Field
      BY <3>3, Closed
    <3>10. Sub(x, Mul(z, y)) = Add(x, Neg(Mul(z, y)))
      BY <3>3, <3>9, NegLaws
    <3> QED
      BY <3>2, <3>4, <3>5, <3>6, <3>8, <3>10
  <2>10. ASSUME NEW i \in 1..(2 * m)
         PROVE  r[i] = Dft(d, v)[i]
    <3>1. CASE i \in 1..m
      BY <2>9, <3>1
    <3>2. CASE i \notin 1..m
      <4>1. i - m \in 1..m /\ (i - m) + m = i
        BY <3>2
      <4> QED
        BY <2>9, <4>1
    <3> QED
      BY <3>1, <3>2
  <2> QED
    BY <2>2, <2>5, <2>6, <2>10, PolynomialEqual
<1> HIDE DEF Computes
<1>3. Nat \subseteq S
  <2>1. 0 \in S
    BY <1>1, TwoToThe
  <2>2. ASSUME NEW j \in Nat, j \in S
        PROVE  j + 1 \in S
    BY <1>2, <2>2, TwoToThe
  <2> HIDE DEF S
  <2> QED
    BY <2>1, <2>2, NatInduct
<1>4. Computes(2^k)
  BY <1>3
<1>5. w \in Field
  BY UnitsType DEF PrimitiveRoot
<1> QED
  BY <1>4, <1>5 DEF Computes

-----------------------------------------------------------------------------
(***************************************************************************)
(* The inverse transform.                                                  *)
(***************************************************************************)

\* v is w^-1, and both have order n.
InverseRoots(w, v, n) ==
  /\ PrimitiveRoot(w, n)
  /\ PrimitiveRoot(v, n)
  /\ Mul(w, v) = 1

(* Powers of a root and of its inverse only cancel when they are the same. *)
LEMMA CrossPowers ==
  ASSUME NEW n \in Nat, NEW w, NEW v, InverseRoots(w, v, n),
         NEW i \in 0..(n - 1), NEW k \in 0..(n - 1)
  PROVE  LET u == Mul(Power(w, i), Power(v, k))
         IN  /\ u \in Field
             /\ Power(u, n) = 1
             /\ i = k => u = 1
             /\ i # k => u # 1
<1> DEFINE u == Mul(Power(w, i), Power(v, k))
<1>1. w \in Field /\ v \in Field /\ Power(w, n) = 1 /\ Power(v, n) = 1
      /\ \A d \in 1..(n - 1) : Power(w, d) # 1 /\ Power(v, d) # 1
  BY UnitsType DEF InverseRoots, PrimitiveRoot
<1>2. i \in Nat /\ k \in Nat
  OBVIOUS
<1>3. Power(w, i) \in Field /\ Power(v, k) \in Field /\ u \in Field
  BY <1>1, <1>2, PowerDef, Closed
<1>4. Power(u, n) = 1
  <2>1. Power(u, n) = Mul(Power(Power(w, i), n), Power(Power(v, k), n))
    BY <1>3, PowerOfProduct
  <2>2. \A x \in Field, j \in Nat : Power(x, n) = 1 => Power(Power(x, j), n) = 1
    <3> SUFFICES ASSUME NEW x \in Field, NEW j \in Nat, Power(x, n) = 1
                 PROVE  Power(Power(x, j), n) = 1
      OBVIOUS
    <3>1. Power(Power(x, j), n) = Power(x, j * n) /\ Power(Power(x, n), j) = Power(x, n * j)
      BY PowerOfPower
    <3>2. j * n = n * j
      OBVIOUS
    <3>3. Power(1, j) = 1
      BY PowerTrivial
    <3> QED
      BY <3>1, <3>2, <3>3
  <2>3. Mul(1, 1) = 1
    BY MulLaws, Order
  <2> QED
    BY <1>1, <1>2, <2>1, <2>2, <2>3
<1>5. \A j \in Nat : Mul(Power(w, j), Power(v, j)) = 1
  BY <1>1, PowersOfInverses DEF InverseRoots
<1>6. CASE i = k
  BY <1>2, <1>3, <1>4, <1>5, <1>6
<1>7. CASE i > k
  <2> DEFINE d == i - k
  <2>1. d \in 1..(n - 1) /\ d \in Nat /\ i = d + k
    BY <1>2, <1>7
  <2> HIDE DEF d
  <2>2. Power(w, i) = Mul(Power(w, d), Power(w, k))
    BY <1>1, <1>2, <2>1, PowerAdd
  <2>3. Power(w, d) \in Field /\ Power(w, k) \in Field
    BY <1>1, <1>2, <2>1, PowerDef
  <2>4. u = Mul(Power(w, d), Mul(Power(w, k), Power(v, k)))
    BY <1>3, <2>2, <2>3, MulLaws
  <2>5. u = Power(w, d)
    BY <1>2, <1>5, <2>3, <2>4, MulLaws
  <2> QED
    BY <1>1, <1>3, <1>4, <1>7, <2>1, <2>5
<1>8. CASE i < k
  <2> DEFINE d == k - i
  <2>1. d \in 1..(n - 1) /\ d \in Nat /\ k = i + d
    BY <1>2, <1>8
  <2> HIDE DEF d
  <2>2. Power(v, k) = Mul(Power(v, i), Power(v, d))
    BY <1>1, <1>2, <2>1, PowerAdd
  <2>3. Power(v, d) \in Field /\ Power(v, i) \in Field
    BY <1>1, <1>2, <2>1, PowerDef
  <2>4. u = Mul(Mul(Power(w, i), Power(v, i)), Power(v, d))
    BY <1>3, <2>2, <2>3, MulLaws
  <2>5. u = Power(v, d)
    BY <1>2, <1>5, <2>3, <2>4, MulLaws
  <2> QED
    BY <1>1, <1>3, <1>4, <1>8, <2>1, <2>5
<1> QED
  BY <1>2, <1>6, <1>7, <1>8

(* A transform by a root and one by its inverse give back n times the      *)
(* polynomial.                                                             *)
THEOREM DftInverse ==
  ASSUME NEW a \in Polynomial, NEW w, NEW v, InverseRoots(w, v, Len(a)),
         NEW k \in 1..Len(a)
  PROVE  Dft(Dft(a, w), v)[k] = Mul(a[k], FromU64(Len(a)))
<1> DEFINE n == Len(a)
           c == Coefficient(a)
           d == Dft(a, w)
           x == k - 1
           u == [i \in Nat |-> Mul(Power(w, i), Power(v, x))]
           F == [j \in Nat |-> [i \in Nat |-> Mul(Power(v, j * x), At(a, w, j)[i])]]
           G == [i \in Nat |-> [j \in Nat |-> F[j][i]]]
           R == [j \in Nat |-> Sum(F[j], n)]
           C == [i \in Nat |-> Sum(G[i], n)]
<1>1. n \in Nat /\ x \in Nat /\ x \in 0..(n - 1) /\ w \in Field /\ v \in Field
  BY PolynomialIs, UnitsType DEF InverseRoots, PrimitiveRoot
<1>2. /\ d \in Polynomial /\ Len(d) = n
      /\ \A j \in 1..n : d[j] = Sum(At(a, w, j - 1), n)
  BY <1>1, DftDef
<1>3. Dft(d, v)[k] = Sum(At(d, v, x), n)
  <2> HIDE DEF d, x
  <2>1. Dft(d, v)[k] = Sum(At(d, v, k - 1), n)
    BY <1>1, <1>2, DftDef
  <2> QED
    BY <2>1 DEF x
<1>4. \A j \in Nat : j * x \in Nat /\ Power(v, j * x) \in Field /\ At(a, w, j) \in Terms
  <2>1. \A j \in Nat : j * x \in Nat
    BY <1>1
  <2> HIDE DEF x
  <2> QED
    BY <1>1, <2>1, PowerDef, AtType
<1> HIDE DEF x, n
<1>5. \A i, j \in Nat : F[j][i] \in Field /\ F[j][i] = Mul(Power(v, j * x), At(a, w, j)[i])
                        /\ G[i][j] = F[j][i]
  BY <1>4, Closed DEF Terms
<1>6. F \in [Nat -> Terms] /\ G \in [Nat -> Terms]
  <2>1. F = [j \in Nat |-> [i \in Nat |-> F[j][i]]] /\ G = [i \in Nat |-> [j \in Nat |-> G[i][j]]]
    OBVIOUS
  <2> HIDE DEF F, G
  <2> QED
    BY <1>5, <2>1 DEF Terms
<1> HIDE DEF F, G
<1>7. R \in Terms /\ C \in Terms /\ \A i \in Nat : R[i] = Sum(F[i], n) /\ C[i] = Sum(G[i], n)
  <2>1. \A i \in Nat : Sum(F[i], n) \in Field /\ Sum(G[i], n) \in Field
    BY <1>1, <1>6, SumDef
  <2> QED
    BY <2>1 DEF Terms
<1> HIDE DEF R, C
<1>8. Sum(R, n) = Sum(C, n)
  <2>1. Transposed(G, F)
    BY <1>5, Zenon DEF Transposed
  <2>2. SumsOf(R, F, n) /\ SumsOf(C, G, n)
    BY <1>7, Zenon DEF SumsOf
  <2>3. n \in Nat /\ R \in Terms /\ C \in Terms
    BY <1>1, <1>7, Zenon
  <2> QED
    BY <1>6, <2>1, <2>2, <2>3, SumExchange
<1>9. Sum(At(d, v, x), n) = Sum(R, n)
  <2>1. At(d, v, x) \in Terms
    BY <1>1, <1>2, AtType
  <2>2. ASSUME NEW j \in 0..(n - 1)
        PROVE  At(d, v, x)[j] = R[j]
    <3>1. j \in Nat /\ j < n /\ j + 1 \in 1..n /\ (j + 1) - 1 = j
      BY <1>1
    <3> DEFINE y == Sum(At(a, w, j), n)
    <3>2. Coefficient(d)[j] = y /\ y \in Field
      BY <1>1, <1>2, <1>4, <3>1, SumDef DEF Coefficient
    <3>3. At(d, v, x)[j] = Mul(y, Power(v, j * x))
      <4>1. At(d, v, x)[j] = Mul(Coefficient(d)[j], Power(v, j * x))
        BY <1>1, <1>2, <3>1, AtType, Zenon
      <4> QED
        BY <3>2, <4>1, Zenon
    <3>4. R[j] = Mul(Power(v, j * x), y)
      <4>1. \A i \in Nat : F[j][i] = Mul(Power(v, j * x), At(a, w, j)[i])
        BY <1>5, <3>1, Zenon
      <4>2. F[j] \in Terms /\ At(a, w, j) \in Terms /\ Power(v, j * x) \in Field
            /\ R[j] = Sum(F[j], n)
        BY <1>4, <1>6, <1>7, <3>1
      <4> QED
        BY <1>1, <4>1, <4>2, SumMul, Zenon
    <3> HIDE DEF y
    <3> QED
      BY <1>4, <3>1, <3>2, <3>3, <3>4, MulLaws
  <2> QED
    BY <1>1, <1>7, <2>1, <2>2, SumCong
<1>10. ASSUME NEW i \in 0..(n - 1)
       PROVE  /\ i = x => C[i] = Mul(c[i], FromU64(n))
              /\ i # x => C[i] = 0
  <2> DEFINE z == u[i]
             Z == [j \in Nat |-> Power(z, j)]
  <2>1. i \in Nat /\ c[i] \in Field
    BY <1>1, CoefficientType DEF Terms
  <2>2. z = Mul(Power(w, i), Power(v, x)) /\ z \in Field /\ Power(z, n) = 1
        /\ (i = x => z = 1) /\ (i # x => z # 1)
    BY <1>1, <2>1, CrossPowers DEF n
  <2> HIDE DEF z
  <2>3. Z \in Terms /\ \A j \in Nat : Z[j] = Power(z, j)
    BY <2>2, PowerDef DEF Terms
  <2> HIDE DEF Z
  <2>4. ASSUME NEW j \in Nat
        PROVE  G[i][j] = Mul(c[i], Z[j])
    <3> DEFINE p == Power(w, i * j)
               q == Power(v, j * x)
    <3>1. i * j \in Nat /\ x * j = j * x /\ j * x \in Nat
      BY <1>1, <2>1
    <3>2. p \in Field /\ q \in Field
      BY <1>1, <3>1, PowerDef
    <3>3. G[i][j] = Mul(q, Mul(c[i], p))
      <4>1. G[i][j] = Mul(q, At(a, w, j)[i])
        BY <1>5, <2>1, Zenon
      <4>2. At(a, w, j)[i] = Mul(c[i], p)
        BY <1>1, <2>1, AtType, Zenon
      <4> QED
        BY <4>1, <4>2
    <3>4. Power(z, j) = Mul(Power(Power(w, i), j), Power(Power(v, x), j))
      BY <1>1, <2>1, <2>2, PowerDef, PowerOfProduct, SMTT(30)
    <3>5. Power(Power(w, i), j) = p /\ Power(Power(v, x), j) = q
      <4>1. Power(Power(w, i), j) = p
        BY <1>1, <2>1, PowerOfPower, Zenon
      <4>2. Power(Power(v, x), j) = Power(v, x * j)
        BY <1>1, PowerOfPower, Zenon
      <4> QED
        BY <3>1, <4>1, <4>2, Zenon
    <3> HIDE DEF p, q
    <3>6. Mul(q, Mul(c[i], p)) = Mul(Mul(c[i], p), q)
      <4>1. Mul(c[i], p) \in Field
        BY <2>1, <3>2, Closed
      <4> QED
        BY <3>2, <4>1, MulLaws
    <3>7. Mul(Mul(c[i], p), q) = Mul(c[i], Mul(p, q))
      BY <2>1, <3>2, MulLaws
    <3> QED
      BY <2>3, <3>3, <3>4, <3>5, <3>6, <3>7
  <2>5. C[i] = Mul(c[i], Sum(Z, n))
    <3>1. G[i] \in Terms
      BY <1>6, <2>1
    <3> QED
      BY <1>1, <1>7, <2>1, <2>3, <2>4, <3>1, SumMul, ZenonT(60)
  <2>6. CASE i = x
    <3>1. \A j \in 0..(n - 1) : Z[j] = 1
      BY <1>1, <2>2, <2>3, <2>6, PowerTrivial
    <3>2. Sum(Z, n) = FromU64(n)
      BY <1>1, <2>3, <3>1, SumOnes
    <3> QED
      BY <2>5, <2>6, <3>2
  <2>7. CASE i # x
    <3>1. Sum(Z, n) = 0
      BY <1>1, <2>2, <2>3, <2>7, Geometric
    <3> QED
      BY <2>1, <2>5, <2>7, <3>1, MulLaws, Order
  <2> QED
    BY <2>6, <2>7
<1>11. Sum(C, n) = C[x]
  BY <1>1, <1>7, <1>10, SumSingle
<1>12. c[x] = a[k]
  BY <1>1, CoefficientType DEF n, x
<1> QED
  BY <1>1, <1>3, <1>8, <1>9, <1>10, <1>11, <1>12 DEF n

-----------------------------------------------------------------------------
(***************************************************************************)
(* Convolutions.                                                           *)
(***************************************************************************)

Congruent(x, y, n) == \E q \in Int : x = n * q + y

(* Powers of a root of unity depend on the exponent modulo its order.      *)
LEMMA PowersModulo ==
  ASSUME NEW w \in Field, NEW n \in Nat, Power(w, n) = 1,
         NEW x \in Nat, NEW y \in Nat, Congruent(x, y, n)
  PROVE  Power(w, x) = Power(w, y)
<1> PICK q \in Int : x = n * q + y
  BY DEF Congruent
<1>1. ASSUME NEW a \in Nat, NEW b \in Nat, NEW p \in Nat, a = n * p + b
      PROVE  Power(w, a) = Power(w, b)
  <2>1. Power(w, n * p) = 1
    <3>1. Power(Power(w, n), p) = Power(w, n * p)
      BY PowerOfPower, Zenon
    <3> QED
      BY <3>1, PowerTrivial
  <2>2. n * p \in Nat
    OBVIOUS
  <2>3. Power(w, n * p + b) = Mul(Power(w, n * p), Power(w, b))
    BY <2>2, PowerAdd, Zenon
  <2>4. Mul(1, Power(w, b)) = Power(w, b)
    BY PowerDef, MulLaws
  <2> QED
    BY <1>1, <2>1, <2>3, <2>4
<1>2. CASE q \in Nat
  BY <1>1, <1>2, Zenon
<1>3. CASE q \notin Nat
  <2> DEFINE p == 0 - q
  <2>1. p \in Nat /\ y = n * p + x
    BY <1>3
  <2> QED
    BY <1>1, <2>1, Zenon
<1> QED
  BY <1>2, <1>3

\* The terms of a coefficient of a convolution.
Pairs(a, b, x) ==
  [j \in Nat |-> Mul(Coefficient(a)[j], Coefficient(b)[(x - j) % Len(a)])]

(* They are field elements.                                                *)
LEMMA PairsType ==
  ASSUME NEW a \in Polynomial, NEW b \in Polynomial, Len(a) > 0, NEW x \in Nat
  PROVE  /\ Pairs(a, b, x) \in Terms
         /\ \A j \in Nat : /\ (x - j) % Len(a) \in Nat
                           /\ Pairs(a, b, x)[j]
                                = Mul(Coefficient(a)[j], Coefficient(b)[(x - j) % Len(a)])
<1>1. ASSUME NEW j \in Nat
      PROVE  (x - j) % Len(a) \in Nat
  BY Modulo, PolynomialIs
<1>2. ASSUME NEW j \in Nat
      PROVE  Mul(Coefficient(a)[j], Coefficient(b)[(x - j) % Len(a)]) \in Field
  <2>1. Coefficient(a)[j] \in Field /\ Coefficient(b)[(x - j) % Len(a)] \in Field
    BY <1>1, CoefficientType DEF Terms
  <2> QED
    BY <2>1, Closed
<1> QED
  BY <1>1, <1>2 DEF Pairs, Terms

(* A convolution as sums.                                                  *)
LEMMA ConvolutionDef ==
  ASSUME NEW a \in Polynomial, NEW b \in Polynomial, Len(a) = Len(b), Len(a) > 0
  PROVE  /\ Convolution(a, b) \in Polynomial
         /\ Len(Convolution(a, b)) = Len(a)
         /\ \A k \in 1..Len(a) : Convolution(a, b)[k] = Sum(Pairs(a, b, k - 1), Len(a))
<1> DEFINE n == Len(a)
           s(k) == [j \in 1..n |-> Mul(FromU64(a[j]), FromU64(b[((k - j) % n) + 1]))]
<1>1. n \in Nat /\ n > 0 /\ \A i \in 1..n : a[i] \in Field /\ b[i] \in Field
  BY PolynomialIs
<1>2. ASSUME NEW k \in 1..n
      PROVE  /\ SumModP(s(k)) = Sum(Pairs(a, b, k - 1), n)
             /\ SumModP(s(k)) \in Field
  <2>1. k - 1 \in Nat
    BY <1>1
  <2>2. ASSUME NEW j \in 1..n
        PROVE  Mul(FromU64(a[j]), FromU64(b[((k - j) % n) + 1])) = Pairs(a, b, k - 1)[j - 1]
    <3> DEFINE r == (k - j) % n
    <3>1. j - 1 \in Nat /\ (k - 1) - (j - 1) = k - j /\ k - j \in Int
      BY <1>1
    <3>2. r \in 0..(n - 1)
      BY <1>1, <3>1, Modulo
    <3>3. Pairs(a, b, k - 1)[j - 1] = Mul(Coefficient(a)[j - 1], Coefficient(b)[r])
      <4>1. Pairs(a, b, k - 1)[j - 1]
              = Mul(Coefficient(a)[j - 1], Coefficient(b)[((k - 1) - (j - 1)) % n])
        BY <2>1, <3>1, PairsType, Zenon
      <4> QED
        BY <3>1, <4>1
    <3> HIDE DEF r
    <3>4. r + 1 \in 1..n /\ (r + 1) - 1 = r
      BY <1>1, <3>2
    <3>5. Coefficient(a)[j - 1] = a[j] /\ Coefficient(b)[r] = b[r + 1]
      BY <3>4, CoefficientType
    <3>6. FromU64(a[j]) = a[j] /\ FromU64(b[r + 1]) = b[r + 1]
      BY <1>1, <3>4, RemainderOfElement DEF FromU64
    <3> QED
      BY <3>3, <3>5, <3>6 DEF r
  <2>3. \A i \in Nat : Pairs(a, b, k - 1)[i] \in Field
    <3>1. Pairs(a, b, k - 1) \in Terms
      BY <1>1, <2>1, PairsType, Zenon
    <3> QED
      BY <3>1 DEF Terms
  <2> DEFINE t == s(k)
  <2>4. t \in [1..n -> Field] /\ \A i \in 0..(n - 1) : Pairs(a, b, k - 1)[i] = t[i + 1]
    <3>1. \A i \in 0..(n - 1) : i + 1 \in 1..n /\ (i + 1) - 1 = i
      BY <1>1
    <3>2. \A j \in 1..n : j - 1 \in Nat
      BY <1>1
    <3> QED
      BY <2>2, <2>3, <3>1, <3>2
  <2> HIDE DEF t
  <2>5. t \in Polynomial /\ Len(t) = n
    BY <1>1, <2>4, PolynomialOf
  <2>6. Pairs(a, b, k - 1) \in Terms
    BY <1>1, <2>1, PairsType
  <2>7. SumModP(t) = Sum(Pairs(a, b, k - 1), n)
    BY <2>4, <2>5, <2>6, SumModPIsSum
  <2>8. Sum(Pairs(a, b, k - 1), n) \in Field
    BY <1>1, <2>6, SumDef
  <2> QED
    BY <2>7, <2>8 DEF t
<1>3. Convolution(a, b) = [k \in 1..n |-> SumModP(s(k))]
  BY DEF Convolution
<1> HIDE DEF s
<1>4. Convolution(a, b) \in [1..n -> Field]
  BY <1>2, <1>3
<1> QED
  BY <1>1, <1>2, <1>3, <1>4, PolynomialOf

(* The product of polynomials of one length, element by element.           *)
LEMMA ProductDef ==
  ASSUME NEW x \in Polynomial, NEW y \in Polynomial, Len(x) = Len(y)
  PROVE  /\ Product(x, y) \in Polynomial
         /\ Len(Product(x, y)) = Len(x)
         /\ \A i \in 1..Len(x) : Product(x, y)[i] = Mul(x[i], y[i])
<1>1. Len(x) \in Nat /\ \A i \in 1..Len(x) : x[i] \in Field /\ y[i] \in Field
  BY PolynomialIs
<1>2. Product(x, y) \in [1..Len(x) -> Field]
  BY <1>1, Closed DEF Product
<1> QED
  BY <1>1, <1>2, PolynomialOf DEF Product

(* The transform of a convolution is the product of the transforms.        *)
THEOREM ConvolutionTheorem ==
  ASSUME NEW a \in Polynomial, NEW b \in Polynomial, Len(a) = Len(b), Len(a) > 0,
         NEW w \in Field, Power(w, Len(a)) = 1
  PROVE  Dft(Convolution(a, b), w) = Product(Dft(a, w), Dft(b, w))
<1> DEFINE n == Len(a)
           c == Convolution(a, b)
<1>1. n \in Nat /\ n > 0 /\ Power(w, n) = 1
  BY PolynomialIs
<1>2. /\ c \in Polynomial /\ Len(c) = n
      /\ \A k \in 1..n : c[k] = Sum(Pairs(a, b, k - 1), n)
  BY ConvolutionDef
<1>3. /\ Dft(a, w) \in Polynomial /\ Dft(b, w) \in Polynomial
      /\ Len(Dft(a, w)) = n /\ Len(Dft(b, w)) = n
      /\ \A k \in 1..n : /\ Dft(a, w)[k] = Sum(At(a, w, k - 1), n)
                         /\ Dft(b, w)[k] = Sum(At(b, w, k - 1), n)
  BY DftDef
<1>4. /\ Dft(c, w) \in Polynomial /\ Len(Dft(c, w)) = n
      /\ \A k \in 1..n : Dft(c, w)[k] = Sum(At(c, w, k - 1), n)
  <2> HIDE DEF c
  <2> QED
    BY <1>2, DftDef
<1>5. ASSUME NEW t \in Nat
      PROVE  Sum(At(c, w, t), n) = Mul(Sum(At(a, w, t), n), Sum(At(b, w, t), n))
  <2> DEFINE F == [x \in Nat |-> [j \in Nat |-> Mul(Power(w, x * t), Pairs(a, b, x)[j])]]
             G == [j \in Nat |-> [x \in Nat |-> F[x][j]]]
             R == [x \in Nat |-> Sum(F[x], n)]
             C == [j \in Nat |-> Sum(G[j], n)]
             sb == Sum(At(b, w, t), n)
             M == [j \in Nat |-> Mul(sb, At(a, w, t)[j])]
  <2>1. \A x \in Nat : x * t \in Nat /\ Power(w, x * t) \in Field /\ Pairs(a, b, x) \in Terms
    <3>1. \A x \in Nat : x * t \in Nat
      OBVIOUS
    <3> QED
      BY <1>1, <3>1, PowerDef, PairsType, Zenon
  <2>2. \A x, j \in Nat : F[x][j] \in Field /\ F[x][j] = Mul(Power(w, x * t), Pairs(a, b, x)[j])
                          /\ G[j][x] = F[x][j]
    BY <2>1, Closed DEF Terms
  <2>3. F \in [Nat -> Terms] /\ G \in [Nat -> Terms]
    <3>1. F = [x \in Nat |-> [j \in Nat |-> F[x][j]]] /\ G = [j \in Nat |-> [x \in Nat |-> G[j][x]]]
      OBVIOUS
    <3> HIDE DEF F, G
    <3> QED
      BY <2>2, <3>1 DEF Terms
  <2> HIDE DEF F, G
  <2>4. R \in Terms /\ C \in Terms /\ \A i \in Nat : R[i] = Sum(F[i], n) /\ C[i] = Sum(G[i], n)
    <3>1. \A i \in Nat : Sum(F[i], n) \in Field /\ Sum(G[i], n) \in Field
      BY <1>1, <2>3, SumDef
    <3> QED
      BY <3>1 DEF Terms
  <2> HIDE DEF R, C, n, c
  <2>5. Sum(R, n) = Sum(C, n)
    <3>1. Transposed(G, F)
      BY <2>2, Zenon DEF Transposed
    <3>2. SumsOf(R, F, n) /\ SumsOf(C, G, n)
      BY <2>4, Zenon DEF SumsOf
    <3>3. n \in Nat /\ R \in Terms /\ C \in Terms
      BY <1>1, <2>4, Zenon
    <3> QED
      BY <2>3, <3>1, <3>2, <3>3, SumExchange
  <2>6. Sum(At(c, w, t), n) = Sum(R, n)
    <3>1. At(c, w, t) \in Terms
      BY <1>2, AtType, Zenon
    <3>2. ASSUME NEW x \in 0..(n - 1)
          PROVE  At(c, w, t)[x] = R[x]
      <4> DEFINE y == Sum(Pairs(a, b, x), n)
      <4>1. x \in Nat /\ x < n /\ x + 1 \in 1..n /\ (x + 1) - 1 = x
        BY <1>1
      <4>2. Coefficient(c)[x] = y /\ y \in Field
        BY <1>1, <1>2, <2>1, <4>1, SumDef DEF Coefficient
      <4>3. At(c, w, t)[x] = Mul(Coefficient(c)[x], Power(w, x * t))
        BY <1>2, <4>1, AtType, Zenon
      <4>4. R[x] = Mul(Power(w, x * t), y)
        <5>1. \A j \in Nat : F[x][j] = Mul(Power(w, x * t), Pairs(a, b, x)[j])
          BY <2>2, <4>1, Zenon
        <5>2. F[x] \in Terms /\ Pairs(a, b, x) \in Terms /\ Power(w, x * t) \in Field
              /\ R[x] = Sum(F[x], n)
          BY <2>1, <2>3, <2>4, <4>1
        <5> QED
          BY <1>1, <5>1, <5>2, SumMul, Zenon
      <4> HIDE DEF y
      <4>5. Power(w, x * t) \in Field
        BY <2>1, <4>1, Zenon
      <4>6. Mul(y, Power(w, x * t)) = Mul(Power(w, x * t), y)
        BY <4>2, <4>5, MulLaws, Zenon
      <4> QED
        BY <4>2, <4>3, <4>4, <4>6, Zenon
    <3> QED
      BY <1>1, <2>4, <3>1, <3>2, SumCong
  <2>7. sb \in Field /\ At(a, w, t) \in Terms /\ At(b, w, t) \in Terms
        /\ Sum(At(a, w, t), n) \in Field
    BY <1>1, AtType, SumDef
  <2> HIDE DEF sb
  <2>8. ASSUME NEW j \in 0..(n - 1)
        PROVE  C[j] = M[j]
    <3> DEFINE H == [x \in Nat |-> At(b, w, t)[(x + (n - j)) % n]]
    <3>1. j \in Nat /\ n - j \in Nat
      BY <1>1
    <3>2. \A x \in Nat : (x + (n - j)) % n \in Nat
      BY <1>1, <3>1, Modulo
    <3>3. H \in Terms
      BY <2>7, <3>2 DEF Terms
    <3>4. \A x \in Nat : H[x] = At(b, w, t)[(x + (n - j)) % n]
      OBVIOUS
    <3> HIDE DEF H
    <3>5. Sum(H, n) = sb
      BY <1>1, <2>7, <3>1, <3>3, <3>4, SumRotate, ZenonT(60) DEF sb
    <3>6. ASSUME NEW x \in Nat
          PROVE  G[j][x] = Mul(At(a, w, t)[j], H[x])
      <4> DEFINE r == (x + (n - j)) % n
      <4>1. (x - j) + n = x + (n - j) /\ x - j \in Int /\ x + (n - j) \in Int
        BY <1>1, <3>1
      <4>2. (x - j) % n = r
        BY <1>1, <4>1, Modulo
      <4>3. PICK q \in Int : x + (n - j) = n * q + r
        BY <1>1, <4>1, Modulo, Zenon
      <4>4. r \in Nat
        BY <3>2
      <4>5. H[x] = At(b, w, t)[r]
        BY <3>4
      <4> HIDE DEF r
      <4>6. x * t = n * ((q - 1) * t) + (j * t + r * t) /\ (q - 1) * t \in Int
        <5>1. x = n * (q - 1) + (j + r)
          BY <1>1, <3>1, <4>3, <4>4
        <5>2. x * t = (n * (q - 1) + (j + r)) * t
          BY <5>1
        <5>3. (n * (q - 1) + (j + r)) * t = n * ((q - 1) * t) + (j * t + r * t)
          BY <1>1, <3>1, <4>3, <4>4
        <5> QED
          BY <5>2, <5>3
      <4>7. j * t \in Nat /\ r * t \in Nat /\ x * t \in Nat /\ j * t + r * t \in Nat
        BY <3>1, <4>4
      <4>8. Power(w, x * t) = Power(w, j * t + r * t)
        <5>1. Congruent(x * t, j * t + r * t, n)
          BY <4>6, Zenon DEF Congruent
        <5> DEFINE p == x * t
                   s == j * t + r * t
        <5>2. p \in Nat /\ s \in Nat /\ Congruent(p, s, n)
          BY <4>7, <5>1
        <5> HIDE DEF p, s
        <5>3. Power(w, p) = Power(w, s)
          BY <1>1, <5>2, PowersModulo
        <5> QED
          BY <5>3 DEF p, s
      <4> DEFINE A == Coefficient(a)[j]
                 B == Coefficient(b)[r]
                 X == Power(w, j * t)
                 Y == Power(w, r * t)
      <4>9. Power(w, j * t + r * t) = Mul(X, Y) /\ X \in Field /\ Y \in Field
        BY <4>7, PowerAdd, PowerDef, Zenon
      <4>10. A \in Field /\ B \in Field
        BY <3>1, <4>4, CoefficientType DEF Terms
      <4>11. G[j][x] = Mul(Power(w, x * t), Mul(A, B))
        <5>1. Pairs(a, b, x)[j] = Mul(A, B)
          BY <1>1, <3>1, <4>2, PairsType, Zenon DEF n
        <5> QED
          BY <2>2, <3>1, <5>1, Zenon
      <4>12. At(a, w, t)[j] = Mul(A, X) /\ At(b, w, t)[r] = Mul(B, Y)
        BY <3>1, <4>4, AtType, Zenon
      <4> HIDE DEF A, B, X, Y
      <4>13. Mul(Mul(X, Y), Mul(A, B)) = Mul(Mul(A, B), Mul(X, Y))
        BY <4>9, <4>10, Closed, MulLaws
      <4>14. Mul(Mul(A, B), Mul(X, Y)) = Mul(Mul(A, X), Mul(B, Y))
        BY <4>9, <4>10, MulSwap
      <4> QED
        BY <4>5, <4>8, <4>9, <4>11, <4>12, <4>13, <4>14, Zenon
    <3>7. G[j] \in Terms /\ At(a, w, t)[j] \in Field /\ C[j] = Sum(G[j], n)
      BY <2>3, <2>4, <2>7, <3>1 DEF Terms
    <3>8. C[j] = Mul(At(a, w, t)[j], sb)
      BY <1>1, <3>3, <3>5, <3>6, <3>7, SumMul, Zenon
    <3>9. M[j] = Mul(sb, At(a, w, t)[j])
      BY <3>1
    <3> QED
      BY <2>7, <3>7, <3>8, <3>9, MulLaws, Zenon
  <2>9. M \in Terms /\ \A j \in Nat : M[j] = Mul(sb, At(a, w, t)[j])
    BY <2>7, Closed DEF Terms
  <2> HIDE DEF M
  <2>10. Sum(C, n) = Sum(M, n)
    BY <1>1, <2>4, <2>8, <2>9, SumCong
  <2>11. Sum(M, n) = Mul(sb, Sum(At(a, w, t), n))
    BY <1>1, <2>7, <2>9, SumMul, Zenon
  <2>12. Mul(sb, Sum(At(a, w, t), n)) = Mul(Sum(At(a, w, t), n), sb)
    BY <2>7, MulLaws, Zenon
  <2> QED
    BY <2>5, <2>6, <2>10, <2>11, <2>12, Zenon DEF sb
<1> DEFINE x == Dft(a, w)
           y == Dft(b, w)
<1>6. Product(x, y) \in Polynomial /\ Len(Product(x, y)) = n
      /\ \A i \in 1..n : Product(x, y)[i] = Mul(x[i], y[i])
  <2> HIDE DEF x, y
  <2> QED
    BY <1>3, ProductDef DEF x, y
<1> HIDE DEF c
<1>7. ASSUME NEW k \in 1..n
      PROVE  Dft(c, w)[k] = Product(x, y)[k]
  <2>1. k - 1 \in Nat
    BY <1>1
  <2> QED
    BY <1>3, <1>4, <1>5, <1>6, <2>1
<1> QED
  BY <1>4, <1>6, <1>7, PolynomialEqual DEF c

=============================================================================
