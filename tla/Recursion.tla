----------------------------- MODULE Recursion -----------------------------
(***************************************************************************)
(* Induction over the natural numbers and definition by recursion, stated  *)
(* with sets and functions in the place of the operators of the library's  *)
(* induction theorems.                                                     *)
(***************************************************************************)
EXTENDS Integers, WellFoundedInduction, TLAPS

(* A nonempty set of natural numbers has a least element.                  *)
LEMMA LeastElement ==
  ASSUME NEW T \in SUBSET Nat, T # {}
  PROVE  \E x \in T : \A y \in T : x <= y
<1> DEFINE R == {ss \in Nat \X Nat : ss[1] < ss[2]}
<1>1. OpToRel(<, Nat) = R
  BY DEF OpToRel
<1>2. IsWellFoundedOn(R, Nat)
  BY <1>1, NatLessThanWellFounded, Zenon
<1>3. \A a, b \in Nat : a < b => <<a, b>> \in R
  OBVIOUS
<1> HIDE DEF R
<1>4. PICK x \in T : \A y \in T : <<y, x>> \notin R
  BY <1>2, WFMin, Zenon
<1>5. ASSUME NEW y \in T PROVE x <= y
  <2>1. x \in Nat /\ y \in Nat
    OBVIOUS
  <2>2. ~ (y < x)
    BY <2>1, <1>3, <1>4
  <2> QED
    BY <2>1, <2>2
<1> QED
  BY <1>5

(* A set with 0 and with the successor of each of its natural numbers      *)
(* holds all of them.                                                      *)
LEMMA NatInduct ==
  ASSUME NEW S, 0 \in S, \A n \in Nat : n \in S => n + 1 \in S
  PROVE  Nat \subseteq S
<1> SUFFICES ASSUME Nat \ S # {} PROVE FALSE
  OBVIOUS
<1>1. PICK x \in Nat \ S : \A y \in Nat \ S : x <= y
  BY LeastElement
<1>2. x # 0 /\ x - 1 \in Nat
  BY <1>1
<1>3. x - 1 \in S
  BY <1>1, <1>2
<1> QED
  BY <1>1, <1>2, <1>3

\* A function into S that starts with a and goes on by G.
Recurs(f, S, a, G) ==
  /\ f \in [Nat -> S]
  /\ f[0] = a
  /\ \A n \in Nat : f[n + 1] = G[<<n, f[n]>>]

(* There is one for every start and step.                                  *)
LEMMA RecursionExists ==
  ASSUME NEW S, NEW a, a \in S, NEW G, G \in [Nat \X S -> S]
  PROVE  \E f : Recurs(f, S, a, G)
<1> DEFINE Start(n) == {g \in [0..n -> S] : g[0] = a /\ \A i \in 0..(n - 1) : g[i + 1] = G[<<i, g[i]>>]}
           Has == {n \in Nat : Start(n) # {}}
<1>1. Nat \subseteq Has
  <2>1. 0 \in Has
    <3>1. [i \in 0..0 |-> a] \in Start(0)
      OBVIOUS
    <3> QED
      BY <3>1
  <2>2. ASSUME NEW n \in Nat, n \in Has
        PROVE  n + 1 \in Has
    <3>1. PICK g \in Start(n) : TRUE
      BY <2>2
    <3> DEFINE h == [i \in 0..(n + 1) |-> IF i = n + 1 THEN G[<<n, g[n]>>] ELSE g[i]]
    <3>2. g[n] \in S
      OBVIOUS
    <3>3. G[<<n, g[n]>>] \in S
      BY <3>2
    <3>4. h \in [0..(n + 1) -> S]
      BY <3>3
    <3>5. h[0] = a /\ h[n + 1] = G[<<n, g[n]>>] /\ \A i \in 0..n : h[i] = g[i]
      OBVIOUS
    <3>6. \A i \in 0..(n - 1) : g[i + 1] = G[<<i, g[i]>>]
      OBVIOUS
    <3> HIDE DEF h
    <3>7. ASSUME NEW i \in 0..((n + 1) - 1)
          PROVE  h[i + 1] = G[<<i, h[i]>>]
      <4>1. CASE i = n
        BY <3>5, <4>1, SMTT(30)
      <4>2. CASE i \in 0..(n - 1)
        BY <3>5, <3>6, <4>2
      <4> QED
        BY <4>1, <4>2
    <3>8. h \in Start(n + 1)
      BY <3>4, <3>5, <3>7
    <3> QED
      BY <3>8
  <2> HIDE DEF Has
  <2> QED
    BY <2>1, <2>2, NatInduct
<1>2. ASSUME NEW m \in Nat, NEW n \in Nat, m <= n, NEW g \in Start(m), NEW h \in Start(n)
      PROVE  \A i \in 0..m : g[i] = h[i]
  <2> DEFINE Same == {i \in Nat : i <= m => g[i] = h[i]}
  <2>1. 0 \in Same
    OBVIOUS
  <2>2. ASSUME NEW i \in Nat, i \in Same
        PROVE  i + 1 \in Same
    <3> SUFFICES ASSUME i + 1 <= m PROVE g[i + 1] = h[i + 1]
      OBVIOUS
    <3>1. i \in 0..(m - 1) /\ i \in 0..(n - 1)
      BY <1>2
    <3>2. g[i] = h[i]
      BY <2>2, <3>1
    <3> QED
      BY <3>1, <3>2
  <2>3. Nat \subseteq Same
    <3> HIDE DEF Same
    <3> QED
      BY <2>1, <2>2, NatInduct
  <2> QED
    BY <2>3
<1> DEFINE s == [n \in Nat |-> CHOOSE g \in Start(n) : TRUE]
           f == [n \in Nat |-> s[n][n]]
<1>3. ASSUME NEW n \in Nat
      PROVE  s[n] \in Start(n)
  <2>1. Start(n) # {}
    BY <1>1
  <2> HIDE DEF Start
  <2> QED
    BY <2>1
<1> HIDE DEF s
<1>4. \A n \in Nat : s[n] \in [0..n -> S] /\ s[n][n] \in S
  BY <1>3
<1>5. f \in [Nat -> S]
  BY <1>4
<1>6. f[0] = a
  BY <1>3
<1>7. ASSUME NEW n \in Nat
      PROVE  f[n + 1] = G[<<n, f[n]>>]
  <2>1. s[n] \in Start(n) /\ s[n + 1] \in Start(n + 1)
    BY <1>3
  <2>2. s[n + 1][n + 1] = G[<<n, s[n + 1][n]>>]
    BY <2>1
  <2>3. s[n][n] = s[n + 1][n]
    <3> HIDE DEF Start
    <3>1. n <= n + 1 /\ n + 1 \in Nat /\ n \in 0..n
      OBVIOUS
    <3> QED
      BY <1>2, <2>1, <3>1
  <2> QED
    BY <2>2, <2>3
<1> HIDE DEF f
<1> QED
  BY <1>5, <1>6, <1>7 DEF Recurs
=============================================================================
