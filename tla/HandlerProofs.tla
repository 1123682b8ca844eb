--------------------------- MODULE HandlerProofs ---------------------------
(***************************************************************************)
(* Proofs that serve() does what HandlerProperties says of it on every     *)
(* body, whatever strings and numbers it holds, and that the parsers of    *)
(* x402.rs read every answer of a facilitator as FacilitatorProperties     *)
(* says.                                                                   *)
(***************************************************************************)
EXTENDS HandlerProperties, FacilitatorProperties, Recursion, SequenceTheorems

(* The outcome of the first request is the error of its first failing      *)
(* stage.                                                                  *)
LEMMA ServeOutcome ==
  ASSUME NEW b
  PROVE  /\ Serve(b) = "Ok" <=> Computable(b)
         /\ Serve(b) \in ParseErrors <=> ~WellFormed(b)
         /\ Serve(b) = "OutOfTier" <=> WellFormed(b) /\ b.degree > FREE_TIER_MAX_LOG2
<1> DEFINE parse == ParseRequest(b)
           quote == QuoteFor(b.degree, FREE_TIER_MAX_LOG2)
           compute == ComputeWasm(b)
<1>1. /\ parse = "Ok" <=> WellFormed(b)
      /\ parse \in {"Ok", "SchemaMismatch", "DegreeOutOfRange"}
  <2>1. b.degree \in 1..30 => b.degree \in 0..U8_MAX
    BY DEF U8_MAX
  <2> QED
    BY <2>1 DEF ParseRequest, ParseDegree, PolyDegreeLog2, AndThen, Check, WellFormed
<1>2. WellFormed(b) => b.degree \in 1..30
  BY DEF WellFormed
<1>3. /\ quote \in {"Ok", "OutOfTier"}
      /\ WellFormed(b) => (quote = "OutOfTier" <=> b.degree > FREE_TIER_MAX_LOG2)
  BY <1>2 DEF QuoteFor, Check, FREE_TIER_MAX_LOG2
<1>4. compute \in {"Ok", "SimulatorFailed"}
  BY DEF ComputeWasm, AndThen, Check
<1>5. Computable(b) <=> WellFormed(b) /\ quote = "Ok" /\ compute = "Ok"
  <2>1. WellFormed(b) => (quote = "Ok" <=> b.degree \in 1..12)
    BY <1>2 DEF QuoteFor, Check, FREE_TIER_MAX_LOG2
  <2>2. b.degree \in 1..12 => b.degree \in 1..30
    OBVIOUS
  <2>3. compute = "Ok" <=> b.coefficients = 2^b.degree /\ b.field = "Goldilocks"
    BY DEF ComputeWasm, AndThen, Check
  <2> QED
    BY <2>1, <2>2, <2>3 DEF Computable, WellFormed, Fields
<1>6. Serve(b) = IF parse # "Ok" THEN parse ELSE IF quote # "Ok" THEN quote ELSE compute
  BY DEF Serve, ParseAndQuote, AndThen
<1> HIDE DEF parse, quote, compute
<1> QED
  BY <1>1, <1>3, <1>4, <1>5, <1>6 DEF ParseErrors

(* What the outcome of serve() says of the body, as one formula.           *)
OutcomeInv == outcome = "none" \/ outcome = Serve(body)

(* An outcome is that of the body, in every reachable state.               *)
LEMMA OutcomeOfBody == Spec => []OutcomeInv
<1>1. Init => OutcomeInv
  BY DEF Init, OutcomeInv
<1>2. OutcomeInv /\ [Run]_<<body, outcome>> => OutcomeInv'
  BY DEF OutcomeInv, Run
<1> QED
  BY <1>1, <1>2, PTL DEF Spec

(* serve() succeeds on exactly the computable bodies.                      *)
THEOREM ServesComputable == Spec => []ServesExactlyComputable
<1>1. OutcomeInv => ServesExactlyComputable
  BY ServeOutcome DEF OutcomeInv, ServesExactlyComputable
<1> QED
  BY <1>1, OutcomeOfBody, PTL

(* A refusal names its own reason.                                         *)
THEOREM RefusesForTheReason == Spec => []RefusedForItsReason
<1>1. OutcomeInv => RefusedForItsReason
  BY ServeOutcome DEF OutcomeInv, RefusedForItsReason
<1> QED
  BY <1>1, OutcomeOfBody, PTL

(* A tier is known by its bound.                                           *)
LEMMA TierOfBound ==
  ASSUME NEW t \in Tiers
  PROVE  /\ t.max_log2 \in {8, 12, 16, 30}
         /\ t.max_log2 = 8 => t.micros_usdc = 1000
         /\ t.max_log2 = 12 => t.micros_usdc = 10000
         /\ t.max_log2 = 16 => t.micros_usdc = 100000
         /\ t.max_log2 = 30 => t.micros_usdc = 1000000
BY DEF Tiers

(* There is a tier for every bound.                                        *)
LEMMA BoundsArePublished ==
  ASSUME NEW bound \in {8, 12, 16, 30}
  PROVE  \E t \in Tiers : t.max_log2 = bound
BY DEF Tiers

(* The smallest published tier a degree fits is the one whose price        *)
(* quote_for has for it.                                                   *)
LEMMA PriceIsTierPrice ==
  ASSUME NEW degree \in 1..30
  PROVE  PriceMicrosFor(degree) = TierPrice(degree)
<1> DEFINE fits == {t \in Tiers : degree <= t.max_log2}
           Smallest(t) == \A u \in fits : t.max_log2 <= u.max_log2
           tier == CHOOSE t \in fits : Smallest(t)
           bound == IF degree <= 8 THEN 8 ELSE IF degree <= 12 THEN 12
                    ELSE IF degree <= 16 THEN 16 ELSE 30
<1>1. bound \in {8, 12, 16, 30} /\ degree <= bound
  OBVIOUS
<1>2. PICK t \in Tiers : t.max_log2 = bound
  BY <1>1, BoundsArePublished
<1>3. t \in fits
  BY <1>1, <1>2
<1>4. \A u \in Tiers : degree <= u.max_log2 => bound <= u.max_log2
  BY TierOfBound
<1>5. t \in fits /\ Smallest(t)
  BY <1>2, <1>3, <1>4
<1>6. tier \in fits /\ Smallest(tier)
  <2> HIDE DEF fits, Smallest
  <2> QED
    BY <1>5, Zenon
<1>7. TierPrice(degree) = tier.micros_usdc
  BY DEF TierPrice
<1> HIDE DEF tier
<1>8. tier \in Tiers /\ tier.max_log2 = bound
  <2>1. tier.max_log2 \in {8, 12, 16, 30}
    BY <1>6, TierOfBound
  <2>2. tier.max_log2 <= t.max_log2
    BY <1>5, <1>6
  <2>3. bound <= tier.max_log2
    BY <1>4, <1>6
  <2> HIDE DEF bound
  <2> QED
    BY <1>1, <1>2, <1>6, <2>1, <2>2, <2>3
<1> QED
  BY <1>7, <1>8, TierOfBound DEF PriceMicrosFor

(* Every quote is at the published tier.                                   *)
THEOREM QuotesAtPublishedTier == Spec => []QuotedAtPublishedTier
<1>1. QuotedAtPublishedTier
  BY PriceIsTierPrice DEF QuotedAtPublishedTier
<1> QED
  BY <1>1, PTL

-----------------------------------------------------------------------------
(***************************************************************************)
(* Sequences put together from others.                                     *)
(***************************************************************************)

(* Sequences of one element and of two.                                    *)
LEMMA ShortSeq ==
  ASSUME NEW T, NEW a \in T, NEW b \in T
  PROVE  <<a>> \in Seq(T) /\ <<a, b>> \in Seq(T)
OBVIOUS

\* f[i] is what the first i sequences of B come to.
FlattenUpTo(f, B) ==
  f[0] = <<>> /\ \A i \in 1..Len(B) : f[i] = f[i - 1] \o B[i]

(* FlattenSeq goes through its argument from the left.                     *)
LEMMA FlattenRead ==
  ASSUME NEW T, NEW B \in Seq(Seq(T))
  PROVE  \E f : /\ FlattenUpTo(f, B)
                /\ f[Len(B)] \in Seq(T)
                /\ FlattenSeq(B) = f[Len(B)]
<1> DEFINE n == Len(B)
           S == Seq(T)
           G == [a \in Nat \X S |-> IF a[1] + 1 \in 1..n THEN a[2] \o B[a[1] + 1] ELSE a[2]]
           IsFlat(f) == f = [i \in 1..n |-> IF i = 1 THEN B[i] ELSE f[i - 1] \o B[i]]
           flat == CHOOSE f : IsFlat(f)
<1>1. n \in Nat /\ \A i \in 1..n : B[i] \in S
  BY LenProperties
<1>2. \A s, t \in S : s \o t \in S
  BY ConcatProperties
<1>3. <<>> \in S /\ \A s \in S : <<>> \o s = s
  BY ConcatEmptySeq
<1>4. n = 0 => B = <<>>
  BY EmptySeq
<1> HIDE DEF S
<1>5. G \in [Nat \X S -> S]
  <2>1. ASSUME NEW m \in Nat, NEW s \in S
        PROVE  (IF m + 1 \in 1..n THEN s \o B[m + 1] ELSE s) \in S
    BY <1>1, <1>2
  <2> HIDE DEF n
  <2> QED
    BY <2>1
<1>6. \A m \in Nat, s \in S : G[<<m, s>>] = IF m + 1 \in 1..n THEN s \o B[m + 1] ELSE s
  OBVIOUS
<1> HIDE DEF G
<1>7. PICK f : Recurs(f, S, <<>>, G)
  BY <1>3, <1>5, RecursionExists
<1>8. f \in [Nat -> S] /\ f[0] = <<>> /\ \A m \in Nat : f[m + 1] = G[<<m, f[m]>>]
  BY <1>7 DEF Recurs
<1>9. ASSUME NEW i \in 1..n
      PROVE  f[i] = f[i - 1] \o B[i]
  <2> DEFINE m == i - 1
  <2>1. m \in Nat /\ m + 1 = i
    BY <1>1
  <2>2. f[m] \in S /\ f[m + 1] = G[<<m, f[m]>>]
    BY <1>8, <2>1
  <2> HIDE DEF m
  <2>3. f[i] = f[m] \o B[i]
    BY <1>6, <2>1, <2>2
  <2> QED
    BY <2>3 DEF m
<1> DEFINE p == [i \in 1..n |-> f[i]]
<1>10. IsFlat(p)
  <2>1. ASSUME NEW i \in 1..n
        PROVE  p[i] = IF i = 1 THEN B[i] ELSE p[i - 1] \o B[i]
    <3>1. CASE i = 1
      <4>1. f[i] = f[0] \o B[i]
        <5>1. i - 1 = 0
          BY <3>1
        <5> QED
          BY <1>9, <5>1, Zenon
      <4>2. B[i] \in S
        BY <1>1
      <4>3. f[i] = B[i]
        BY <1>3, <1>8, <4>1, <4>2
      <4> QED
        BY <3>1, <4>3
    <3>2. CASE i # 1
      <4>1. i - 1 \in 1..n
        BY <1>1, <3>2
      <4> QED
        BY <1>9, <3>2, <4>1
    <3> QED
      BY <3>1, <3>2
  <2> QED
    BY <2>1
<1>11. IsFlat(flat)
  BY <1>10, Zenon
<1>12. FlattenSeq(B) = IF n = 0 THEN B ELSE flat[n]
  BY DEF FlattenSeq
<1> HIDE DEF flat
<1>13. \A i \in 1..n : flat[i] = IF i = 1 THEN B[i] ELSE flat[i - 1] \o B[i]
  BY <1>11
<1> DEFINE Same == {i \in Nat : i + 1 <= n => flat[i + 1] = f[i + 1]}
<1>14. 0 \in Same
  <2> SUFFICES ASSUME 1 <= n
               PROVE  flat[1] = f[1]
    OBVIOUS
  <2>1. 1 \in 1..n /\ 1 - 1 = 0
    BY <1>1
  <2>2. f[1] = f[0] \o B[1]
    BY <1>9, <2>1
  <2>3. flat[1] = B[1] /\ B[1] \in S
    BY <1>1, <1>13, <2>1
  <2> QED
    BY <1>3, <1>8, <2>2, <2>3
<1>15. ASSUME NEW i \in Nat, i \in Same
       PROVE  i + 1 \in Same
  <2> SUFFICES ASSUME (i + 1) + 1 <= n
               PROVE  flat[(i + 1) + 1] = f[(i + 1) + 1]
    OBVIOUS
  <2> DEFINE k == (i + 1) + 1
  <2>1. k \in 1..n /\ k # 1 /\ k - 1 = i + 1 /\ i + 1 <= n
    BY <1>1
  <2>2. flat[i + 1] = f[i + 1]
    BY <1>15, <2>1
  <2> HIDE DEF k
  <2>3. flat[k] = flat[k - 1] \o B[k] /\ f[k] = f[k - 1] \o B[k]
    BY <1>9, <1>13, <2>1
  <2> QED
    BY <2>1, <2>2, <2>3 DEF k
<1> HIDE DEF Same
<1>16. Nat \subseteq Same
  BY <1>14, <1>15, NatInduct
<1>17. FlattenSeq(B) = f[n]
  <2>1. CASE n = 0
    BY <1>4, <1>8, <1>12, <2>1
  <2>2. CASE n # 0
    <3>1. n - 1 \in Nat /\ (n - 1) + 1 = n
      BY <1>1, <2>2
    <3>2. n - 1 \in Same
      BY <1>16, <3>1
    <3>3. flat[n] = f[n]
      BY <3>1, <3>2 DEF Same
    <3> QED
      BY <1>12, <2>2, <3>3
  <2> QED
    BY <2>1, <2>2
<1>18. f[n] \in S
  BY <1>1, <1>8
<1> QED
  BY <1>8, <1>9, <1>17, <1>18 DEF FlattenUpTo, S

(* One more sequence comes last.                                           *)
LEMMA FlattenAppend ==
  ASSUME NEW T, NEW B \in Seq(Seq(T)), NEW b \in Seq(T)
  PROVE  /\ FlattenSeq(B) \in Seq(T)
         /\ FlattenSeq(Append(B, b)) = FlattenSeq(B) \o b
<1> DEFINE n == Len(B)
           C == Append(B, b)
<1>1. /\ n \in Nat /\ C \in Seq(Seq(T)) /\ Len(C) = n + 1
      /\ \A i \in 1..n : C[i] = B[i]
      /\ C[n + 1] = b
  BY AppendProperties, LenProperties
<1> HIDE DEF n, C
<1>2. PICK f : FlattenUpTo(f, B) /\ f[n] \in Seq(T) /\ FlattenSeq(B) = f[n]
  BY FlattenRead DEF n
<1>3. PICK g : FlattenUpTo(g, C) /\ FlattenSeq(C) = g[n + 1]
  BY <1>1, FlattenRead
<1>4. f[0] = <<>> /\ \A i \in 1..n : f[i] = f[i - 1] \o B[i]
  BY <1>2 DEF FlattenUpTo, n
<1>5. g[0] = <<>> /\ \A i \in 1..(n + 1) : g[i] = g[i - 1] \o C[i]
  BY <1>1, <1>3 DEF FlattenUpTo
<1> DEFINE Same == {i \in Nat : i <= n => f[i] = g[i]}
<1>6. 0 \in Same
  BY <1>4, <1>5
<1>7. ASSUME NEW i \in Nat, i \in Same
      PROVE  i + 1 \in Same
  <2> SUFFICES ASSUME i + 1 <= n
               PROVE  f[i + 1] = g[i + 1]
    OBVIOUS
  <2> DEFINE k == i + 1
  <2>1. k \in 1..n /\ k \in 1..(n + 1) /\ k - 1 = i /\ i <= n
    BY <1>1
  <2>2. f[i] = g[i]
    BY <1>7, <2>1
  <2> HIDE DEF k
  <2>3. f[k] = f[k - 1] \o B[k] /\ g[k] = g[k - 1] \o B[k]
    BY <1>1, <1>4, <1>5, <2>1
  <2> QED
    BY <2>1, <2>2, <2>3 DEF k
<1> HIDE DEF Same
<1>8. n \in Same
  BY <1>1, <1>6, <1>7, NatInduct
<1>9. f[n] = g[n]
  BY <1>1, <1>8 DEF Same
<1>10. g[n + 1] = g[n] \o b
  <2>1. n + 1 \in 1..(n + 1) /\ (n + 1) - 1 = n
    BY <1>1
  <2> QED
    BY <1>1, <1>5, <2>1
<1> QED
  BY <1>2, <1>3, <1>9, <1>10 DEF C

(* Nothing comes to nothing.                                               *)
LEMMA FlattenEmpty == FlattenSeq(<<>>) = <<>>
BY DEF FlattenSeq


(* Each sequence stands in what they all come to.                          *)
LEMMA FlattenHolds ==
  ASSUME NEW T, NEW B \in Seq(Seq(T)), NEW i \in 1..Len(B)
  PROVE  \E o \in Nat : /\ o + Len(B[i]) <= Len(FlattenSeq(B))
                        /\ \A j \in 1..Len(B[i]) : FlattenSeq(B)[o + j] = B[i][j]
<1> DEFINE n == Len(B)
           In(o, s) == /\ o + Len(B[i]) <= Len(s)
                       /\ \A j \in 1..Len(B[i]) : s[o + j] = B[i][j]
<1>1. n \in Nat /\ i \in 1..n /\ \A k \in 1..n : B[k] \in Seq(T)
  BY LenProperties
<1>2. PICK f : FlattenUpTo(f, B) /\ FlattenSeq(B) = f[n]
  BY FlattenRead
<1>3. f[0] = <<>> /\ \A k \in 1..n : f[k] = f[k - 1] \o B[k]
  BY <1>2 DEF FlattenUpTo
<1> HIDE DEF n
<1>4. B[i] \in Seq(T) /\ Len(B[i]) \in Nat
  BY <1>1, LenProperties
<1> DEFINE S == {k \in Nat : k <= n =>
                   /\ f[k] \in Seq(T)
                   /\ i <= k => \E o \in Nat : In(o, f[k])}
<1>5. 0 \in S
  <2>1. f[0] \in Seq(T)
    BY <1>3, EmptySeq
  <2>2. ~(i <= 0)
    BY <1>1
  <2> HIDE DEF In
  <2> QED
    BY <2>1, <2>2
<1>6. ASSUME NEW k \in Nat, k \in S
      PROVE  k + 1 \in S
  <2> SUFFICES ASSUME k + 1 <= n
               PROVE  /\ f[k + 1] \in Seq(T)
                      /\ i <= k + 1 => \E o \in Nat : In(o, f[k + 1])
    OBVIOUS
  <2> DEFINE s == f[k]
             b == B[k + 1]
             t == f[k + 1]
  <2>1. s \in Seq(T) /\ b \in Seq(T) /\ (i <= k => \E o \in Nat : In(o, s))
    <3>1. k <= n /\ k + 1 \in 1..n
      BY <1>1
    <3> HIDE DEF In
    <3> QED
      BY <1>1, <1>6, <3>1
  <2>2. t = s \o b
    <3>1. k + 1 \in 1..n /\ (k + 1) - 1 = k
      BY <1>1
    <3> QED
      BY <1>3, <3>1
  <2>3. i = k + 1 => B[i] = b
    OBVIOUS
  <2> HIDE DEF s, b, t
  <2>4. /\ t \in Seq(T) /\ Len(t) = Len(s) + Len(b)
        /\ \A j \in 1..(Len(s) + Len(b)) : t[j] = IF j <= Len(s) THEN s[j] ELSE b[j - Len(s)]
        /\ Len(s) \in Nat /\ Len(b) \in Nat
    BY <2>1, <2>2, ConcatProperties, LenProperties
  <2>5. ASSUME i <= k PROVE \E o \in Nat : In(o, t)
    <3>1. PICK o \in Nat : In(o, s)
      BY <2>1, <2>5
    <3>2. ASSUME NEW j \in 1..Len(B[i])
          PROVE  t[o + j] = B[i][j]
      <4>1. o + j \in 1..(Len(s) + Len(b)) /\ o + j <= Len(s)
        BY <1>4, <2>4, <3>1, SMTT(30)
      <4> QED
        BY <2>4, <3>1, <4>1
    <3>3. In(o, t)
      BY <1>4, <2>4, <3>1, <3>2
    <3> QED
      BY <3>3
  <2>6. ASSUME i = k + 1 PROVE \E o \in Nat : In(o, t)
    <3>1. ASSUME NEW j \in 1..Len(B[i])
          PROVE  t[Len(s) + j] = B[i][j]
      <4>1. j \in 1..Len(b) /\ B[i] = b
        BY <2>3, <2>6
      <4>2. Len(s) + j \in 1..(Len(s) + Len(b)) /\ ~(Len(s) + j <= Len(s)) /\ (Len(s) + j) - Len(s) = j
        BY <2>4, <4>1
      <4> QED
        BY <2>4, <4>1, <4>2
    <3>2. In(Len(s), t)
      BY <2>3, <2>4, <2>6, <3>1
    <3> QED
      BY <2>4, <3>2
  <2>7. i <= k + 1 => i <= k \/ i = k + 1
    BY <1>1
  <2> HIDE DEF In
  <2> QED
    BY <2>4, <2>5, <2>6, <2>7 DEF t
<1> HIDE DEF S
<1>7. n \in S
  BY <1>1, <1>5, <1>6, NatInduct
<1>8. \E o \in Nat : In(o, f[n])
  BY <1>1, <1>7 DEF S
<1> QED
  BY <1>2, <1>8 DEF n

(* Sequences of four elements follow one another at every fourth place.    *)
LEMMA FlattenFours ==
  ASSUME NEW T, NEW B \in Seq(Seq(T)), \A i \in 1..Len(B) : Len(B[i]) = 4
  PROVE  /\ Len(FlattenSeq(B)) = 4 * Len(B)
         /\ \A i \in 1..Len(B), j \in 1..4 : FlattenSeq(B)[4 * (i - 1) + j] = B[i][j]
<1> DEFINE n == Len(B)
<1>1. n \in Nat /\ \A k \in 1..n : B[k] \in Seq(T) /\ Len(B[k]) = 4
  BY LenProperties
<1>2. PICK f : FlattenUpTo(f, B) /\ FlattenSeq(B) = f[n]
  BY FlattenRead
<1>3. f[0] = <<>> /\ \A k \in 1..n : f[k] = f[k - 1] \o B[k]
  BY <1>2 DEF FlattenUpTo
<1> HIDE DEF n
<1> DEFINE Placed(k) == \A i \in 1..k, j \in 1..4 : f[k][4 * (i - 1) + j] = B[i][j]
           S == {k \in Nat : k <= n => f[k] \in Seq(T) /\ Len(f[k]) = 4 * k /\ Placed(k)}
<1>4. 0 \in S
  <2>1. f[0] \in Seq(T) /\ Len(f[0]) = 4 * 0
    BY <1>3, EmptySeq
  <2>2. Placed(0)
    OBVIOUS
  <2> HIDE DEF Placed
  <2> QED
    BY <2>1, <2>2
<1>5. ASSUME NEW k \in Nat, k \in S
      PROVE  k + 1 \in S
  <2> SUFFICES ASSUME k + 1 <= n
               PROVE  /\ f[k + 1] \in Seq(T)
                      /\ Len(f[k + 1]) = 4 * (k + 1)
                      /\ Placed(k + 1)
    OBVIOUS
  <2> DEFINE s == f[k]
             b == B[k + 1]
             t == f[k + 1]
  <2>1. s \in Seq(T) /\ Len(s) = 4 * k /\ b \in Seq(T) /\ Len(b) = 4
    BY <1>1, <1>5
  <2>2. \A i \in 1..k, j \in 1..4 : s[4 * (i - 1) + j] = B[i][j]
    <3>1. k <= n
      BY <1>1
    <3> HIDE DEF Placed
    <3>2. Placed(k)
      BY <1>5, <3>1
    <3> QED
      BY <3>2 DEF Placed
  <2>3. t = s \o b
    <3>1. k + 1 \in 1..n /\ (k + 1) - 1 = k
      BY <1>1
    <3> QED
      BY <1>3, <3>1
  <2>4. \A i \in Int : i = k + 1 => B[i] = b
    OBVIOUS
  <2> HIDE DEF s, b, t
  <2>5. /\ t \in Seq(T) /\ Len(t) = 4 * k + 4
        /\ \A j \in 1..(4 * k + 4) : t[j] = IF j <= 4 * k THEN s[j] ELSE b[j - 4 * k]
    <3>1. /\ t \in Seq(T) /\ Len(t) = Len(s) + Len(b)
          /\ \A j \in 1..(Len(s) + Len(b)) :
                t[j] = IF j <= Len(s) THEN s[j] ELSE b[j - Len(s)]
      BY <2>1, <2>3, ConcatProperties
    <3> QED
      BY <2>1, <3>1
  <2>6. ASSUME NEW i \in 1..(k + 1), NEW j \in 1..4
        PROVE  t[4 * (i - 1) + j] = B[i][j]
    <3>1. CASE i \in 1..k
      <4>1. 4 * (i - 1) + j \in 1..(4 * k + 4) /\ 4 * (i - 1) + j <= 4 * k
        BY <3>1
      <4> QED
        BY <2>2, <2>5, <3>1, <4>1
    <3>2. CASE i = k + 1
      <4>1. /\ 4 * (i - 1) + j \in 1..(4 * k + 4) /\ ~(4 * (i - 1) + j <= 4 * k)
            /\ (4 * (i - 1) + j) - 4 * k = j
        BY <3>2
      <4> QED
        BY <2>4, <2>5, <3>2, <4>1
    <3> QED
      BY <3>1, <3>2
  <2> QED
    BY <2>5, <2>6 DEF t
<1> HIDE DEF S
<1>6. n \in S
  BY <1>1, <1>4, <1>5, NatInduct
<1>7. Len(f[n]) = 4 * n /\ Placed(n)
  BY <1>1, <1>6 DEF S
<1> QED
  BY <1>2, <1>7 DEF n

-----------------------------------------------------------------------------
(***************************************************************************)
(* The two readings of a facilitator's answer.                             *)
(***************************************************************************)

\* The tokens of a text that has been spaced out.
Spaceable == Tokens \cup {Space}

\* What the parsers may see of them.
Seen == {Bare(token) : token \in Tokens}

(* strip_whitespace keeps every token but a space, without the white space *)
(* inside it; what has none stays as it is.                                *)
LEMMA BareToken ==
  ASSUME NEW e \in Tokens
  PROVE  /\ e \in Spaceable /\ e # Space
         /\ Bare(e) \in Seen /\ Bare(e).kind = e.kind
         /\ Bare(e).value = e.value
         /\ e.gaps = {} => Bare(e) = e
         /\ e.kind # "string" => Bare(e) = e
         /\ Kept(e) = <<Bare(e)>>
<1>1. /\ e.kind \in {"punctuation", "literal", "string"}
      /\ e.kind # "string" => e.gaps = {}
      /\ e = [kind |-> e.kind, value |-> e.value, gaps |-> e.gaps]
  <2>1. CASE e \in Scalars
    BY <2>1 DEF Scalars, Literals, Strings
  <2>2. CASE \E c : e = Punctuation(c)
    BY <2>2 DEF Punctuation
  <2> QED
    BY <2>1, <2>2 DEF Tokens
<1>2. e # Space
  <2>1. Space.kind = "space"
    BY DEF Space
  <2> QED
    BY <1>1, <2>1
<1>3. Bare(e) = [kind |-> e.kind, value |-> e.value, gaps |-> {}]
  BY <1>1 DEF Bare
<1>4. Bare(e) \in Seen
  BY DEF Seen
<1>5. Kept(e) = <<Bare(e)>>
  BY <1>2 DEF Kept
<1>6. e.gaps = {} => Bare(e) = e
  BY <1>1, <1>3
<1> QED
  BY <1>1, <1>2, <1>3, <1>4, <1>5, <1>6 DEF Spaceable

(* A string without white space stays as it is.                            *)
LEMMA BareText ==
  ASSUME NEW s
  PROVE  Bare(Text(s)) = Text(s)
BY DEF Bare, Text, Broken

(* strip_whitespace goes token by token.                                   *)
LEMMA StripAppend ==
  ASSUME NEW t \in Seq(Spaceable), NEW e \in Spaceable
  PROVE  /\ StripWhitespace(t) \in Seq(Seen)
         /\ StripWhitespace(Append(t, e)) = StripWhitespace(t) \o Kept(e)
<1> DEFINE n == Len(t)
           B == [i \in 1..n |-> Kept(t[i])]
           u == Append(t, e)
           C == [i \in 1..(n + 1) |-> Kept(u[i])]
<1>1. ASSUME NEW x \in Spaceable
      PROVE  Kept(x) \in Seq(Seen)
  <2>1. CASE x = Space
    BY <2>1, EmptySeq DEF Kept
  <2>2. CASE x \in Tokens
    <3>1. Kept(x) = <<Bare(x)>> /\ Bare(x) \in Seen
      BY <2>2, BareToken
    <3> QED
      BY <3>1, ShortSeq
  <2> QED
    BY <2>1, <2>2 DEF Spaceable
<1>2. n \in Nat /\ \A i \in 1..n : t[i] \in Spaceable
  BY LenProperties
<1>3. /\ u \in Seq(Spaceable) /\ Len(u) = n + 1
      /\ \A i \in 1..n : u[i] = t[i]
      /\ u[n + 1] = e
  BY AppendProperties
<1>4. StripWhitespace(t) = FlattenSeq(B) /\ StripWhitespace(u) = FlattenSeq(C)
  BY <1>3 DEF StripWhitespace
<1> HIDE DEF n, u
<1>5. B \in [1..n -> Seq(Seen)]
  BY <1>1, <1>2
<1>6. B \in Seq(Seq(Seen)) /\ Len(B) = n
  BY <1>2, <1>5, SeqDef, LenProperties
<1>7. Append(B, Kept(e)) = C
  <2>1. C \in [1..(n + 1) -> Seq(Seen)]
    <3>1. \A i \in 1..(n + 1) : u[i] \in Spaceable
      BY <1>3, LenProperties
    <3> QED
      BY <1>1, <3>1
  <2>2. C \in Seq(Seq(Seen)) /\ Len(C) = n + 1
    BY <1>2, <2>1, SeqDef, LenProperties
  <2>3. \A i \in 1..n : C[i] = B[i]
    BY <1>2, <1>3
  <2>4. C[n + 1] = Kept(e)
    BY <1>2, <1>3
  <2> HIDE DEF B, C
  <2>5. Kept(e) \in Seq(Seen)
    BY <1>1
  <2>6. /\ Append(B, Kept(e)) \in Seq(Seq(Seen)) /\ Len(Append(B, Kept(e))) = n + 1
        /\ \A i \in 1..n : Append(B, Kept(e))[i] = B[i]
        /\ Append(B, Kept(e))[n + 1] = Kept(e)
    BY <1>6, <2>5, AppendProperties
  <2>7. \A i \in 1..(n + 1) : Append(B, Kept(e))[i] = C[i]
    BY <1>2, <2>3, <2>4, <2>6
  <2> QED
    BY <2>2, <2>6, <2>7, SeqEqual
<1> HIDE DEF B, C
<1>8. Kept(e) \in Seq(Seen)
  BY <1>1
<1> QED
  BY <1>4, <1>6, <1>7, <1>8, FlattenAppend DEF u

(* A facilitator spaces its answer token by token.                         *)
LEMMA SpreadAppend ==
  ASSUME NEW t \in Seq(Tokens), NEW e \in Tokens, NEW spaced
  PROVE  /\ Spread(t, spaced) \in Seq(Spaceable)
         /\ Spread(Append(t, e), spaced) = Spread(t, spaced) \o Spaced(e, spaced)
<1> DEFINE n == Len(t)
           B == [i \in 1..n |-> Spaced(t[i], spaced)]
           u == Append(t, e)
           C == [i \in 1..(n + 1) |-> Spaced(u[i], spaced)]
           w == Spaced(e, spaced)
<1>1. ASSUME NEW x \in Tokens
      PROVE  Spaced(x, spaced) \in Seq(Spaceable)
  <2>1. x \in Spaceable /\ Space \in Spaceable
    BY DEF Spaceable
  <2>2. <<x>> \in Seq(Spaceable) /\ <<x, Space>> \in Seq(Spaceable)
    BY <2>1, ShortSeq
  <2> QED
    BY <2>2 DEF Spaced
<1>2. n \in Nat /\ \A i \in 1..n : t[i] \in Tokens
  BY LenProperties
<1>3. /\ u \in Seq(Tokens) /\ Len(u) = n + 1
      /\ \A i \in 1..n : u[i] = t[i]
      /\ u[n + 1] = e
  BY AppendProperties
<1>4. Spread(t, spaced) = FlattenSeq(B) /\ Spread(u, spaced) = FlattenSeq(C)
  BY <1>3 DEF Spread
<1> HIDE DEF n, u
<1>5. B \in [1..n -> Seq(Spaceable)]
  BY <1>1, <1>2
<1>6. B \in Seq(Seq(Spaceable)) /\ Len(B) = n
  BY <1>2, <1>5, SeqDef, LenProperties
<1>7. Append(B, w) = C
  <2>1. C \in [1..(n + 1) -> Seq(Spaceable)]
    <3>1. \A i \in 1..(n + 1) : u[i] \in Tokens
      BY <1>3, LenProperties
    <3> QED
      BY <1>1, <3>1
  <2>2. C \in Seq(Seq(Spaceable)) /\ Len(C) = n + 1
    BY <1>2, <2>1, SeqDef, LenProperties
  <2>3. \A i \in 1..n : C[i] = B[i]
    BY <1>2, <1>3
  <2>4. C[n + 1] = w
    BY <1>2, <1>3
  <2>5. w \in Seq(Spaceable)
    BY <1>1
  <2> HIDE DEF B, C, w
  <2>6. /\ Append(B, w) \in Seq(Seq(Spaceable)) /\ Len(Append(B, w)) = n + 1
        /\ \A i \in 1..n : Append(B, w)[i] = B[i]
        /\ Append(B, w)[n + 1] = w
    BY <1>6, <2>5, AppendProperties
  <2>7. \A i \in 1..(n + 1) : Append(B, w)[i] = C[i]
    BY <1>2, <2>3, <2>4, <2>6
  <2> QED
    BY <2>2, <2>6, <2>7, SeqEqual
<1>8. w \in Seq(Spaceable)
  BY <1>1
<1> HIDE DEF B, C, w
<1>9. FlattenSeq(B) \in Seq(Spaceable) /\ FlattenSeq(Append(B, w)) = FlattenSeq(B) \o w
  BY <1>6, <1>8, FlattenAppend
<1> QED
  BY <1>4, <1>7, <1>9 DEF u, w

(* However a text is spaced out, the parsers see its tokens.               *)
LEMMA StripSpread ==
  ASSUME NEW spaced, NEW t \in Seq(Tokens)
  PROVE  StripWhitespace(Spread(t, spaced)) = [i \in 1..Len(t) |-> Bare(t[i])]
<1> DEFINE Bared(u) == [i \in 1..Len(u) |-> Bare(u[i])]
           S == {n \in Nat : \A u \in Seq(Tokens) :
                   Len(u) = n => StripWhitespace(Spread(u, spaced)) = Bared(u)}
<1>1. 0 \in S
  <2> SUFFICES ASSUME NEW u \in Seq(Tokens), Len(u) = 0
               PROVE  StripWhitespace(Spread(u, spaced)) = Bared(u)
    OBVIOUS
  <2>1. u = <<>>
    BY EmptySeq
  <2>2. Spread(<<>>, spaced) = <<>>
    BY FlattenEmpty DEF Spread
  <2>3. StripWhitespace(<<>>) = <<>>
    BY FlattenEmpty DEF StripWhitespace
  <2>4. Bared(<<>>) = <<>>
    OBVIOUS
  <2> QED
    BY <2>1, <2>2, <2>3, <2>4
<1>2. ASSUME NEW n \in Nat, n \in S
      PROVE  n + 1 \in S
  <2> SUFFICES ASSUME NEW u \in Seq(Tokens), Len(u) = n + 1
               PROVE  StripWhitespace(Spread(u, spaced)) = Bared(u)
    OBVIOUS
  <2>1. PICK v \in Seq(Tokens), e \in Tokens :
               Len(v) = n /\ u = Append(v, e)
    <3>1. u # <<>>
      BY EmptySeq
    <3>2. PICK v \in Seq(Tokens), e \in Tokens : u = Append(v, e)
      BY <3>1, SequenceEmptyOrAppend
    <3>3. Len(v) \in Nat /\ Len(u) = Len(v) + 1
      BY <3>2, AppendProperties, LenProperties
    <3> QED
      BY <3>2, <3>3
  <2> DEFINE text == Spread(v, spaced)
  <2>2. /\ text \in Seq(Spaceable)
        /\ Spread(u, spaced) = text \o Spaced(e, spaced)
    BY <2>1, SpreadAppend
  <2>3. StripWhitespace(text) = Bared(v)
    BY <1>2, <2>1
  <2> HIDE DEF text
  <2>4. e \in Spaceable /\ Space \in Spaceable /\ Kept(e) = <<Bare(e)>>
        /\ Bare(e) \in Seen /\ Kept(Space) = <<>>
    BY BareToken DEF Spaceable, Kept
  <2>5. /\ Append(text, e) \in Seq(Spaceable)
        /\ Append(text, e) = text \o <<e>>
        /\ Append(Append(text, e), Space) = text \o <<e, Space>>
    BY <2>2, <2>4
  <2>6. /\ StripWhitespace(Append(text, e)) = Bared(v) \o <<Bare(e)>>
        /\ StripWhitespace(Append(text, e)) \in Seq(Seen)
        /\ StripWhitespace(Append(Append(text, e), Space))
             = StripWhitespace(Append(text, e)) \o <<>>
    BY <2>2, <2>3, <2>4, <2>5, StripAppend
  <2>7. StripWhitespace(Spread(u, spaced)) = Bared(v) \o <<Bare(e)>>
    <3>1. StripWhitespace(Append(text, e)) \o <<>> = StripWhitespace(Append(text, e))
      BY <2>6, ConcatEmptySeq
    <3>2. Spaced(e, spaced) = <<e>> \/ Spaced(e, spaced) = <<e, Space>>
      BY DEF Spaced
    <3> HIDE DEF Bared
    <3> QED
      BY <2>2, <2>5, <2>6, <3>1, <3>2
  <2>8. Bared(v) \o <<Bare(e)>> = Bared(u)
    <3>1. \A i \in 1..n : v[i] \in Tokens
      BY <2>1, LenProperties
    <3>2. \A x \in Tokens : Bare(x) \in Seen
      BY BareToken
    <3>3. Bared(v) \in [1..n -> Seen]
      BY <2>1, <3>1, <3>2
    <3>4. Bared(v) \in Seq(Seen) /\ Len(Bared(v)) = n
      BY <3>3, SeqDef, LenProperties
    <3>5. /\ \A i \in 1..n : u[i] = v[i]
          /\ u[n + 1] = e
      BY <2>1, AppendProperties
    <3>6. Bared(u) \in [1..(n + 1) -> Seen]
      BY <3>1, <3>2, <3>5
    <3>7. Bared(u) \in Seq(Seen) /\ Len(Bared(u)) = n + 1
      BY <3>6, SeqDef, LenProperties
    <3>8. /\ \A i \in 1..n : Bared(u)[i] = Bared(v)[i]
          /\ Bared(u)[n + 1] = Bare(e)
      BY <2>1, <3>5
    <3> HIDE DEF Bared
    <3>9. /\ Append(Bared(v), Bare(e)) \in Seq(Seen)
          /\ Len(Append(Bared(v), Bare(e))) = n + 1
          /\ \A i \in 1..n : Append(Bared(v), Bare(e))[i] = Bared(v)[i]
          /\ Append(Bared(v), Bare(e))[n + 1] = Bare(e)
          /\ Append(Bared(v), Bare(e)) = Bared(v) \o <<Bare(e)>>
      BY <2>4, <3>4, AppendProperties, AppendIsConcat
    <3>10. \A i \in 1..(n + 1) : Append(Bared(v), Bare(e))[i] = Bared(u)[i]
      BY <3>8, <3>9
    <3> QED
      BY <3>7, <3>9, <3>10, SeqEqual
  <2> QED
    BY <2>7, <2>8
<1>3. Nat \subseteq S
  <2> HIDE DEF S
  <2> QED
    BY <1>1, <1>2, NatInduct
<1>4. Len(t) \in Nat
  BY LenProperties
<1>5. Len(t) \in S
  BY <1>3, <1>4
<1> HIDE DEF Bared
<1>6. StripWhitespace(Spread(t, spaced)) = Bared(t)
  BY <1>5
<1> QED
  BY <1>6 DEF Bared

(* A member of an answer, with what precedes it.                           *)
LEMMA BlockTokens ==
  ASSUME NEW i \in Nat, NEW m \in Members
  PROVE  LET b == Block(i, m)
         IN  /\ b \in Seq(Tokens)
             /\ Len(b) = 3 + Len(m.tokens)
             /\ b[1].kind = "punctuation" /\ b[1] # Punctuation(":")
             /\ b[2] = m.key
             /\ b[3] = Punctuation(":")
             /\ \A j \in 1..Len(m.tokens) : b[3 + j] = m.tokens[j]
<1> DEFINE first == Punctuation(IF i = 1 THEN "{" ELSE ",")
           head == <<first, m.key, Punctuation(":")>>
           b == head \o m.tokens
<1>1. first \in Tokens /\ first.kind = "punctuation" /\ first # Punctuation(":")
  BY DEF Tokens, Punctuation
<1>2. m.key \in Tokens
  BY DEF Members, Tokens, Scalars
<1>3. Punctuation(":") \in Tokens
  BY DEF Tokens
<1> HIDE DEF first
<1>4. /\ head \in Seq(Tokens) /\ Len(head) = 3
      /\ head[1] = first /\ head[2] = m.key /\ head[3] = Punctuation(":")
  BY <1>1, <1>2, <1>3
<1>5. m.tokens \in Seq(Tokens) /\ Len(m.tokens) \in Nat
  <2>1. m.tokens \in Seq(Tokens)
    BY DEF Members
  <2> QED
    BY <2>1, LenProperties
<1>6. Block(i, m) = b
  BY DEF Block, first
<1> HIDE DEF head
<1>7. /\ b \in Seq(Tokens) /\ Len(b) = Len(head) + Len(m.tokens)
      /\ \A j \in 1..(Len(head) + Len(m.tokens)) :
            b[j] = IF j <= Len(head) THEN head[j] ELSE m.tokens[j - Len(head)]
  BY <1>4, <1>5, ConcatProperties
<1> HIDE DEF b
<1>8. b[1] = first /\ b[2] = m.key /\ b[3] = Punctuation(":")
  BY <1>4, <1>5, <1>7
<1>9. ASSUME NEW j \in 1..Len(m.tokens)
      PROVE  b[3 + j] = m.tokens[j]
  <2>1. /\ 3 + j \in 1..(Len(head) + Len(m.tokens)) /\ ~(3 + j <= Len(head))
        /\ (3 + j) - Len(head) = j
    BY <1>4, <1>5
  <2> QED
    BY <1>7, <2>1
<1>10. Len(b) = 3 + Len(m.tokens)
  BY <1>4, <1>7
<1> QED
  BY <1>1, <1>6, <1>7, <1>8, <1>9, <1>10

\* The blocks of an answer.
Blocks(members) == [i \in 1..Len(members) |-> Block(i, members[i])]

(* They are texts.                                                         *)
LEMMA BlocksAreTexts ==
  ASSUME NEW members \in Seq(Members)
  PROVE  /\ Blocks(members) \in Seq(Seq(Tokens))
         /\ Len(Blocks(members)) = Len(members)
         /\ Joined(members) = FlattenSeq(Blocks(members))
         /\ Joined(members) \in Seq(Tokens)
<1>1. Len(members) \in Nat /\ \A i \in 1..Len(members) : members[i] \in Members
  BY LenProperties
<1>2. \A i \in 1..Len(members) : Block(i, members[i]) \in Seq(Tokens)
  <2> SUFFICES ASSUME NEW i \in 1..Len(members)
               PROVE  Block(i, members[i]) \in Seq(Tokens)
    OBVIOUS
  <2>1. i \in Nat /\ members[i] \in Members
    BY <1>1
  <2> QED
    BY <2>1, BlockTokens
<1>3. Blocks(members) \in [1..Len(members) -> Seq(Tokens)]
  BY <1>2 DEF Blocks
<1>4. Blocks(members) \in Seq(Seq(Tokens)) /\ Len(Blocks(members)) = Len(members)
  BY <1>1, <1>3, SeqDef, LenProperties
<1>5. Joined(members) = FlattenSeq(Blocks(members))
  BY DEF Joined, Blocks
<1>6. FlattenSeq(Blocks(members)) \in Seq(Tokens)
  BY <1>4, EmptySeq, FlattenAppend
<1> QED
  BY <1>4, <1>5, <1>6

\* The tokens of an answer that is not spaced out.
Plain(members) ==
  Append(IF members = <<>> THEN <<Punctuation("{")>> ELSE Joined(members), Punctuation("}"))

\* What the parsers search.
Searched(members) == [i \in 1..Len(Plain(members)) |-> Bare(Plain(members)[i])]

(* The parsers search the tokens of the answer.                            *)
LEMMA SearchedText ==
  ASSUME NEW members \in Seq(Members), NEW spaced
  PROVE  /\ Plain(members) \in Seq(Tokens)
         /\ StripWhitespace(Write(members, spaced)) = Searched(members)
         /\ Len(Searched(members)) = Len(Plain(members))
<1>1. Punctuation("{") \in Tokens /\ Punctuation("}") \in Tokens
  BY DEF Tokens
<1> DEFINE front == IF members = <<>> THEN <<Punctuation("{")>> ELSE Joined(members)
<1>2. front \in Seq(Tokens)
  <2>1. <<Punctuation("{")>> \in Seq(Tokens) /\ Joined(members) \in Seq(Tokens)
    BY <1>1, ShortSeq, BlocksAreTexts
  <2> QED
    BY <2>1
<1>3. Plain(members) = Append(front, Punctuation("}"))
  BY DEF Plain
<1>4. Write(members, spaced) = Spread(Plain(members), spaced)
  BY DEF Write, Plain
<1> HIDE DEF front
<1>5. Plain(members) \in Seq(Tokens)
  <2>1. Append(front, Punctuation("}")) \in Seq(Tokens)
    BY <1>1, <1>2, AppendProperties
  <2> QED
    BY <1>3, <2>1
<1>6. StripWhitespace(Write(members, spaced)) = Searched(members)
  BY <1>4, <1>5, StripSpread DEF Searched
<1>7. Len(Plain(members)) \in Nat
  BY <1>5, LenProperties
<1>8. Len(Searched(members)) = Len(Plain(members))
  BY <1>7 DEF Searched
<1> QED
  BY <1>5, <1>6, <1>8

(* A literal and a structural character are found where they stand.        *)
LEMMA BareMark ==
  ASSUME NEW e \in Tokens
  PROVE  /\ Bare(e) = Punctuation(":") <=> e = Punctuation(":")
         /\ Bare(e) = Literal("true") <=> e = Literal("true")
<1>1. /\ Punctuation(":").kind = "punctuation" /\ Punctuation(":").gaps = {}
      /\ Literal("true").kind = "literal" /\ Literal("true").gaps = {}
  BY DEF Punctuation, Literal
<1>2. Bare(e).kind = e.kind /\ (e.gaps = {} => Bare(e) = e) /\ (e.kind # "string" => Bare(e) = e)
  BY BareToken
<1> QED
  BY <1>1, <1>2

(* A key is found where it stands in the answer.                           *)
LEMMA OccurrencesRead ==
  ASSUME NEW members \in Seq(Members), NEW key
  PROVE  Occurrences(Searched(members), key)
           = {p \in 1..(Len(Plain(members)) - 2) :
                /\ Bare(Plain(members)[p]) = Text(key)
                /\ Plain(members)[p + 1] = Punctuation(":")}
<1> DEFINE w == Plain(members)
           n == Searched(members)
<1>1. w \in Seq(Tokens) /\ Len(n) = Len(w)
  BY SearchedText
<1>2. Len(w) \in Nat /\ \A p \in 1..Len(w) : w[p] \in Tokens
  BY <1>1, LenProperties
<1>3. \A p \in 1..Len(w) : n[p] = Bare(w[p])
  BY DEF Searched
<1> HIDE DEF w, n
<1>4. ASSUME NEW p \in 1..(Len(w) - 2)
      PROVE  /\ n[p] = Bare(w[p])
             /\ n[p + 1] = Punctuation(":") <=> w[p + 1] = Punctuation(":")
  <2>1. p \in 1..Len(w) /\ p + 1 \in 1..Len(w)
    BY <1>2
  <2>2. w[p + 1] \in Tokens
    BY <1>2, <2>1
  <2>3. n[p] = Bare(w[p]) /\ n[p + 1] = Bare(w[p + 1])
    BY <1>3, <2>1
  <2> QED
    BY <2>2, <2>3, BareMark
<1>5. Occurrences(n, key) = {p \in 1..(Len(w) - 2) : n[p] = Text(key) /\ n[p + 1] = Punctuation(":")}
  BY <1>1 DEF Occurrences
<1>6. Occurrences(n, key)
        = {p \in 1..(Len(w) - 2) : Bare(w[p]) = Text(key) /\ w[p + 1] = Punctuation(":")}
  BY <1>4, <1>5
<1> QED
  BY <1>6 DEF w, n

(* The parsers find every member whose key they look for.                  *)
LEMMA MemberFound ==
  ASSUME NEW members \in Seq(Members), NEW i \in 1..Len(members), NEW key,
         members[i].key = Text(key), Len(members[i].tokens) >= 1
  PROVE  \E p \in Occurrences(Searched(members), key) :
            Searched(members)[p + 2] = Bare(members[i].tokens[1])
<1> DEFINE m == members[i]
           b == Block(i, m)
           J == Joined(members)
           w == Plain(members)
<1>1. m \in Members /\ i \in Nat /\ members # <<>>
  BY LenProperties, EmptySeq
<1>2. /\ Blocks(members) \in Seq(Seq(Tokens)) /\ Len(Blocks(members)) = Len(members)
      /\ J = FlattenSeq(Blocks(members)) /\ J \in Seq(Tokens)
  BY BlocksAreTexts
<1>3. Blocks(members)[i] = b
  BY DEF Blocks
<1>4. m.tokens \in Seq(Tokens) /\ Len(m.tokens) \in Nat
  <2>1. m.tokens \in Seq(Tokens)
    BY <1>1 DEF Members
  <2> QED
    BY <2>1, LenProperties
<1>5. m.key = Text(key) /\ Len(m.tokens) >= 1
  OBVIOUS
<1> HIDE DEF m
<1>6. /\ b \in Seq(Tokens) /\ Len(b) = 3 + Len(m.tokens)
      /\ b[2] = m.key /\ b[3] = Punctuation(":")
      /\ \A j \in 1..Len(m.tokens) : b[3 + j] = m.tokens[j]
  BY <1>1, BlockTokens
<1> HIDE DEF b, J
<1>7. PICK o \in Nat : o + Len(b) <= Len(J) /\ \A j \in 1..Len(b) : J[o + j] = b[j]
  <2>1. i \in 1..Len(Blocks(members))
    BY <1>2
  <2>2. \E o \in Nat : /\ o + Len(Blocks(members)[i]) <= Len(FlattenSeq(Blocks(members)))
                       /\ \A j \in 1..Len(Blocks(members)[i]) :
                            FlattenSeq(Blocks(members))[o + j] = Blocks(members)[i][j]
    BY <1>2, <2>1, FlattenHolds
  <2> QED
    BY <1>2, <1>3, <2>2
<1>8. w = Append(J, Punctuation("}"))
  BY <1>1 DEF Plain, J
<1>9. Punctuation("}") \in Tokens
  BY DEF Tokens
<1> HIDE DEF w
<1>10. Len(J) \in Nat /\ Len(w) = Len(J) + 1 /\ \A q \in 1..Len(J) : w[q] = J[q]
  <2> DEFINE end == Punctuation("}")
             a == Append(J, end)
  <2>1. Len(a) = Len(J) + 1 /\ \A q \in 1..Len(J) : a[q] = J[q]
    <3>1. J \in Seq(Tokens) /\ end \in Tokens
      BY <1>2, <1>9
    <3> HIDE DEF end
    <3> QED
      BY <3>1, AppendProperties
  <2>2. Len(J) \in Nat
    BY <1>2, LenProperties
  <2> HIDE DEF a
  <2>3. w = a
    BY <1>8 DEF a
  <2> QED
    BY <2>1, <2>2, <2>3
<1>11. \A j \in 1..Len(b) : w[o + j] = b[j]
  <2> SUFFICES ASSUME NEW j \in 1..Len(b)
               PROVE  w[o + j] = b[j]
    OBVIOUS
  <2>1. o + j \in 1..Len(J)
    BY <1>4, <1>6, <1>7, <1>10
  <2> QED
    BY <1>7, <1>10, <2>1
<1> DEFINE p == o + 2
<1>12. /\ w[p] = m.key /\ w[p + 1] = Punctuation(":") /\ w[p + 2] = m.tokens[1]
       /\ p \in 1..(Len(w) - 2) /\ p + 2 \in 1..Len(w)
  <2>1. 2 \in 1..Len(b) /\ 3 \in 1..Len(b) /\ 3 + 1 \in 1..Len(b) /\ 1 \in 1..Len(m.tokens)
    BY <1>4, <1>5, <1>6
  <2>2. w[o + 2] = b[2] /\ w[o + 3] = b[3] /\ w[o + (3 + 1)] = b[3 + 1]
    BY <1>11, <2>1
  <2>3. b[3 + 1] = m.tokens[1]
    BY <1>6, <2>1
  <2>4. p = o + 2 /\ p + 1 = o + 3 /\ p + 2 = o + (3 + 1)
    OBVIOUS
  <2> HIDE DEF p
  <2>5. w[p] = m.key /\ w[p + 1] = Punctuation(":") /\ w[p + 2] = m.tokens[1]
    BY <1>6, <2>2, <2>3, <2>4
  <2>6. p \in 1..(Len(w) - 2) /\ p + 2 \in 1..Len(w)
    BY <1>4, <1>5, <1>6, <1>7, <1>10, <2>4
  <2> QED
    BY <2>5, <2>6
<1> HIDE DEF p
<1>13. p \in Occurrences(Searched(members), key)
  <2>1. Bare(Text(key)) = Text(key)
    BY BareText
  <2> QED
    BY <1>5, <1>12, <2>1, OccurrencesRead DEF w
<1>14. Searched(members)[p + 2] = Bare(m.tokens[1])
  BY <1>12 DEF Searched, w
<1> QED
  BY <1>13, <1>14 DEF m

(* In an answer without nested objects, and without white space inside its *)
(* keys and strings, a key is found only as that of its member, at the     *)
(* second of the member's four tokens.                                     *)
LEMMA FlatOccurrence ==
  ASSUME NEW members, IsObject(members), Flat(members), Whole(members), NEW key,
         NEW p \in Occurrences(Searched(members), key)
  PROVE  \E i \in 1..Len(members) :
            /\ members[i].key = Text(key)
            /\ Len(members[i].tokens) = 1 /\ members[i].tokens[1] \in Scalars
            /\ p = 4 * (i - 1) + 2
            /\ Searched(members)[p + 2] = members[i].tokens[1]
<1> DEFINE n == Len(members)
           B == Blocks(members)
           J == Joined(members)
           w == Plain(members)
<1>1. members \in Seq(Members) /\ \A i \in 1..n : IsValue(members[i].tokens)
  BY DEF IsObject
<1>2. n \in Nat /\ \A i \in 1..n : members[i] \in Members
  BY <1>1, LenProperties
<1>3. \A i \in 1..n : /\ Len(members[i].tokens) = 1
                      /\ members[i].tokens[1] \in Scalars
                      /\ members[i].key.gaps = {}
                      /\ members[i].tokens[1].gaps = {}
  <2> SUFFICES ASSUME NEW i \in 1..n
               PROVE  /\ Len(members[i].tokens) = 1
                      /\ members[i].tokens[1] \in Scalars
                      /\ members[i].key.gaps = {}
                      /\ members[i].tokens[1].gaps = {}
    OBVIOUS
  <2>1. members[i] \in ToSet(members)
    <3>1. DOMAIN members = 1..n
      BY <1>1, LenProperties
    <3> QED
      BY <3>1 DEF ToSet
  <2>2. Len(members[i].tokens) = 1
    BY <2>1 DEF Flat
  <2>3. members[i].key.gaps = {} /\ \A e \in ToSet(members[i].tokens) : e.gaps = {}
    BY <2>1 DEF Whole
  <2>4. members[i].tokens[1] \in ToSet(members[i].tokens)
    <3>1. members[i].tokens \in Seq(Tokens)
      BY <1>2 DEF Members
    <3>2. 1 \in DOMAIN members[i].tokens
      BY <2>2, <3>1, LenProperties
    <3> QED
      BY <3>2 DEF ToSet
  <2> QED
    BY <1>1, <2>2, <2>3, <2>4 DEF IsValue
<1>4. /\ p \in 1..(Len(w) - 2)
      /\ Bare(w[p]) = Text(key) /\ w[p + 1] = Punctuation(":")
  BY <1>1, OccurrencesRead
<1>5. w \in Seq(Tokens) /\ Len(Searched(members)) = Len(w)
  BY <1>1, SearchedText
<1>6. /\ B \in Seq(Seq(Tokens)) /\ Len(B) = n
      /\ J = FlattenSeq(B) /\ J \in Seq(Tokens)
  BY <1>1, BlocksAreTexts
<1>7. ASSUME NEW i \in 1..n
      PROVE  /\ Len(B[i]) = 4
             /\ B[i][1].kind = "punctuation" /\ B[i][1] # Punctuation(":")
             /\ B[i][2] = members[i].key
             /\ B[i][3] = Punctuation(":")
             /\ B[i][4] = members[i].tokens[1]
  <2> DEFINE b == Block(i, members[i])
  <2>1. B[i] = b
    BY DEF Blocks
  <2>2. i \in Nat /\ members[i] \in Members /\ Len(members[i].tokens) = 1
    BY <1>2, <1>3
  <2>3. /\ Len(b) = 3 + Len(members[i].tokens)
        /\ b[1].kind = "punctuation" /\ b[1] # Punctuation(":")
        /\ b[2] = members[i].key
        /\ b[3] = Punctuation(":")
        /\ \A j \in 1..Len(members[i].tokens) : b[3 + j] = members[i].tokens[j]
    BY <2>2, BlockTokens
  <2> HIDE DEF b, B
  <2>4. b[4] = members[i].tokens[1]
    <3>1. 1 \in 1..Len(members[i].tokens) /\ 3 + 1 = 4
      BY <2>2
    <3>2. b[3 + 1] = members[i].tokens[1]
      BY <2>3, <3>1
    <3> QED
      BY <3>1, <3>2
  <2> QED
    BY <2>1, <2>2, <2>3, <2>4
<1> HIDE DEF B
<1>8. /\ Len(J) = 4 * n
      /\ \A i \in 1..n, j \in 1..4 : J[4 * (i - 1) + j] = B[i][j]
  <2>1. \A i \in 1..Len(B) : Len(B[i]) = 4
    BY <1>6, <1>7
  <2>2. /\ Len(FlattenSeq(B)) = 4 * Len(B)
        /\ \A i \in 1..Len(B), j \in 1..4 : FlattenSeq(B)[4 * (i - 1) + j] = B[i][j]
    BY <1>6, <2>1, FlattenFours
  <2> HIDE DEF J
  <2>3. FlattenSeq(B) = J /\ Len(B) = n
    BY <1>6
  <2> HIDE DEF n
  <2> QED
    BY <2>2, <2>3
<1>9. CASE members = <<>>
  <2>1. Len(w) = 2
    BY <1>9 DEF Plain
  <2> HIDE DEF w
  <2> QED
    BY <1>4, <2>1
<1>10. CASE members # <<>>
  <2>1. Len(w) = 4 * n + 1 /\ \A q \in 1..(4 * n) : w[q] = J[q]
    <3> DEFINE end == Punctuation("}")
               a == Append(J, end)
    <3>1. end \in Tokens
      BY DEF Tokens
    <3>2. w = a
      BY <1>10 DEF Plain
    <3> HIDE DEF end, J
    <3>3. Len(a) = Len(J) + 1 /\ \A q \in 1..Len(J) : a[q] = J[q]
      BY <1>6, <3>1, AppendProperties
    <3> HIDE DEF a, w, n
    <3> QED
      BY <1>8, <3>2, <3>3
  <2> HIDE DEF w, J, n
  <2>2. PICK i \in 1..n, j \in 1..4 : p = 4 * (i - 1) + j
    <3> DEFINE k == (p - 1) \div 4
    <3>1. p \in Int /\ 1 <= p /\ p <= 4 * n - 1
      BY <1>2, <1>4, <2>1
    <3>2. k \in Int /\ 4 * k <= p - 1 /\ p - 1 < 4 * k + 4
      BY <3>1
    <3> HIDE DEF k
    <3>3. k + 1 \in 1..n /\ p - 4 * k \in 1..4 /\ p = 4 * ((k + 1) - 1) + (p - 4 * k)
      BY <1>2, <3>1, <3>2
    <3> QED
      BY <3>3
  <2>3. w[p] = B[i][j]
    <3>1. p \in 1..(4 * n)
      BY <1>2, <1>4, <2>1
    <3> QED
      BY <1>8, <2>1, <2>2, <3>1
  <2>4. j # 1 /\ j # 3
    <3>1. Text(key).kind = "string" /\ Punctuation(":").kind = "punctuation"
      BY DEF Text, Broken, Punctuation
    <3>2. w[p] \in Tokens
      BY <1>4, <1>5, ElementOfSeq
    <3>3. w[p].kind = "string"
      BY <1>4, <3>1, <3>2, BareToken
    <3> QED
      BY <1>7, <2>3, <3>1, <3>3
  <2>5. j # 4
    <3> SUFFICES ASSUME j = 4 PROVE FALSE
      OBVIOUS
    <3>1. p + 1 = 4 * ((i + 1) - 1) + 1 /\ i + 1 \in 1..n /\ p + 1 \in 1..(4 * n)
      BY <1>2, <1>4, <2>1, <2>2
    <3>2. w[p + 1] = B[i + 1][1]
      BY <1>8, <2>1, <3>1
    <3> QED
      BY <1>4, <1>7, <3>1, <3>2
  <2>6. j = 2
    BY <2>4, <2>5
  <2>7. members[i].key = Text(key)
    <3>1. w[p] = members[i].key
      BY <1>7, <2>3, <2>6
    <3>2. members[i].key \in Tokens /\ members[i].key.gaps = {}
      BY <1>2, <1>3 DEF n, Members, Tokens, Scalars
    <3>3. Bare(members[i].key) = members[i].key
      BY <3>2, BareToken
    <3> QED
      BY <1>4, <3>1, <3>3
  <2>8. p = 4 * (i - 1) + 2
    BY <2>2, <2>6
  <2>9. Searched(members)[p + 2] = members[i].tokens[1]
    <3>1. p + 2 = 4 * (i - 1) + 4 /\ p + 2 \in 1..(4 * n) /\ p + 2 \in 1..Len(w)
      BY <1>2, <1>4, <2>1, <2>8
    <3>2. w[p + 2] = B[i][4]
      BY <1>8, <2>1, <3>1
    <3>3. Searched(members)[p + 2] = Bare(w[p + 2])
      BY <3>1 DEF Searched, w
    <3>4. members[i].tokens[1] \in Tokens /\ members[i].tokens[1].gaps = {}
      BY <1>3 DEF n, Tokens
    <3>5. Bare(members[i].tokens[1]) = members[i].tokens[1]
      BY <3>4, BareToken
    <3> QED
      BY <1>7, <3>2, <3>3, <3>5
  <2> QED
    BY <1>3, <2>7, <2>8, <2>9 DEF n
<1> QED
  BY <1>9, <1>10

(* A member of the answer, by its key.                                     *)
LEMMA HasMember ==
  ASSUME NEW members \in Seq(Members), NEW key, NEW e, Has(members, key, <<e>>)
  PROVE  \E i \in 1..Len(members) :
            /\ members[i].key = key
            /\ Len(members[i].tokens) >= 1
            /\ members[i].tokens[1] = e
            /\ e \in Tokens
<1>1. DOMAIN members = 1..Len(members)
  BY LenProperties
<1>2. PICK i \in DOMAIN members : members[i] = Member(key, <<e>>)
  BY DEF Has, ToSet
<1>3. members[i].key = key /\ members[i].tokens = <<e>>
  BY <1>2 DEF Member
<1>4. members[i].tokens \in Seq(Tokens)
  <2>1. members[i] \in Members
    BY <1>1, ElementOfSeq
  <2> QED
    BY <2>1 DEF Members
<1>5. <<e>> \in Seq(Tokens)
  BY <1>3, <1>4
<1>6. Len(<<e>>) = 1 /\ <<e>>[1] = e
  OBVIOUS
<1>7. e \in Tokens
  BY <1>5, <1>6, ElementOfSeq
<1> QED
  BY <1>1, <1>3, <1>6, <1>7

(* A member with this key and value.                                       *)
LEMMA MemberHad ==
  ASSUME NEW members \in Seq(Members), NEW i \in 1..Len(members),
         NEW e, Len(members[i].tokens) = 1, members[i].tokens[1] = e
  PROVE  Has(members, members[i].key, <<e>>)
<1> DEFINE m == members[i]
<1>1. m \in Members /\ i \in DOMAIN members
  BY LenProperties
<1>2. Len(m.tokens) = 1 /\ m.tokens[1] = e
  OBVIOUS
<1>3. m = Member(m.key, m.tokens)
  BY <1>1 DEF Members, Member
<1>4. m.tokens = <<e>>
  <2>1. m.tokens \in Seq(Tokens)
    BY <1>1 DEF Members
  <2>2. m.tokens[1] \in Tokens
    BY <1>2, <2>1, ElementOfSeq
  <2>3. <<e>> \in Seq(Tokens) /\ Len(<<e>>) = 1 /\ <<e>>[1] = e
    BY <1>2, <2>2
  <2> HIDE DEF m
  <2> QED
    BY <1>2, <2>1, <2>3, SeqEqual
<1>5. m \in ToSet(members)
  BY <1>1 DEF ToSet
<1> QED
  BY <1>3, <1>4, <1>5 DEF Has

(* A flag that is true is found, and nothing else is taken for it, unless  *)
(* in a nested object or for white space inside a key.                     *)
LEMMA FlagRead ==
  ASSUME NEW members, IsObject(members), NEW spaced, NEW key
  PROVE  LET text == StripWhitespace(Write(members, spaced))
             held == Has(members, Text(key), <<Literal("true")>>)
         IN  /\ held => FlagIsTrue(text, key)
             /\ Flat(members) /\ Whole(members) => (FlagIsTrue(text, key) => held)
<1> DEFINE text == StripWhitespace(Write(members, spaced))
           held == Has(members, Text(key), <<Literal("true")>>)
<1>1. members \in Seq(Members)
  BY DEF IsObject
<1>2. text = Searched(members)
  BY <1>1, SearchedText
<1> HIDE DEF text
<1>3. ASSUME held
      PROVE  FlagIsTrue(text, key)
  <2>1. PICK i \in 1..Len(members) :
               /\ members[i].key = Text(key)
               /\ Len(members[i].tokens) >= 1
               /\ members[i].tokens[1] = Literal("true")
    BY <1>1, <1>3, HasMember
  <2>2. PICK p \in Occurrences(Searched(members), key) :
               Searched(members)[p + 2] = Bare(members[i].tokens[1])
    BY <1>1, <2>1, MemberFound
  <2>3. Bare(Literal("true")) = Literal("true")
    BY SMTT(30) DEF Bare, Literal
  <2>4. Searched(members)[p + 2] = Literal("true")
    BY <2>1, <2>2, <2>3
  <2> QED
    BY <1>2, <2>2, <2>4, Zenon DEF FlagIsTrue
<1>4. ASSUME Flat(members), Whole(members), FlagIsTrue(text, key)
      PROVE  held
  <2>1. PICK p \in Occurrences(Searched(members), key) :
               Searched(members)[p + 2] = Literal("true")
    BY <1>2, <1>4 DEF FlagIsTrue
  <2>2. PICK i \in 1..Len(members) :
               /\ members[i].key = Text(key)
               /\ Len(members[i].tokens) = 1
               /\ Searched(members)[p + 2] = members[i].tokens[1]
    BY <1>4, FlatOccurrence
  <2>3. members[i].tokens[1] = Literal("true")
    BY <2>1, <2>2
  <2> QED
    BY <1>1, <2>2, <2>3, MemberHad
<1> QED
  BY <1>3, <1>4 DEF text

(* parse_settle_response finds the transaction of an answer without nested *)
(* objects and white space in strings, if that is a string, and nothing    *)
(* else.                                                                   *)
LEMMA TransactionRead ==
  ASSUME NEW members, IsObject(members), Flat(members), Whole(members),
         NEW spaced, NEW s
  PROVE  LET text == StripWhitespace(Write(members, spaced))
             found == StringFields(text, "transaction")
         IN  Has(members, Text("transaction"), <<Text(s)>>)
               <=> found # {} /\ ExtractStringField(text, "transaction") = s
<1> DEFINE text == StripWhitespace(Write(members, spaced))
           found == StringFields(text, "transaction")
           landed == Has(members, Text("transaction"), <<Text(s)>>)
<1>1. members \in Seq(Members)
  BY DEF IsObject
<1>2. text = Searched(members)
  BY <1>1, SearchedText
<1> HIDE DEF text
<1>3. found = {p \in Occurrences(text, "transaction") : text[p + 2].kind = "string"}
  BY DEF StringFields
<1>4. ASSUME NEW p \in found
      PROVE  \E i \in 1..Len(members) :
               /\ members[i].key = Text("transaction")
               /\ Len(members[i].tokens) = 1 /\ members[i].tokens[1] \in Scalars
               /\ p = 4 * (i - 1) + 2
               /\ text[p + 2] = members[i].tokens[1]
  BY <1>1, <1>2, <1>3, FlatOccurrence
<1>5. \A p, q \in found : p = q
  <2> SUFFICES ASSUME NEW p \in found, NEW q \in found
               PROVE  p = q
    OBVIOUS
  <2>1. PICK i \in 1..Len(members) :
               members[i].key = Text("transaction") /\ p = 4 * (i - 1) + 2
    BY <1>4
  <2>2. PICK j \in 1..Len(members) :
               members[j].key = Text("transaction") /\ q = 4 * (j - 1) + 2
    BY <1>4
  <2>3. i = j
    BY <2>1, <2>2 DEF IsObject
  <2> QED
    BY <2>1, <2>2, <2>3
<1>6. ASSUME NEW p \in found
      PROVE  ExtractStringField(text, "transaction") = text[p + 2].value
  <2>1. Min(found) = p
    <3>1. p \in Int
      BY <1>4
    <3>2. p <= p /\ \A q \in found : q = p
      BY <1>5, <3>1
    <3> HIDE DEF found
    <3> QED
      BY <3>1, <3>2 DEF Min
  <2> QED
    BY <2>1 DEF ExtractStringField
<1>7. ASSUME landed
      PROVE  found # {} /\ ExtractStringField(text, "transaction") = s
  <2> DEFINE e == Text(s)
  <2>1. e.kind = "string" /\ e.value = s /\ Bare(e) = e
    BY BareText DEF Text, Broken
  <2>2. Has(members, Text("transaction"), <<e>>)
    BY <1>7
  <2> HIDE DEF e
  <2>3. PICK i \in 1..Len(members) :
               /\ members[i].key = Text("transaction")
               /\ Len(members[i].tokens) >= 1
               /\ members[i].tokens[1] = e
    BY <1>1, <2>2, HasMember
  <2>4. PICK p \in Occurrences(Searched(members), "transaction") :
               Searched(members)[p + 2] = Bare(members[i].tokens[1])
    BY <1>1, <2>3, MemberFound
  <2>5. text[p + 2] = e
    BY <1>2, <2>1, <2>3, <2>4
  <2>6. p \in found
    BY <1>2, <1>3, <2>1, <2>4, <2>5
  <2> QED
    BY <1>6, <2>1, <2>5, <2>6
<1>8. ASSUME found # {}, ExtractStringField(text, "transaction") = s
      PROVE  landed
  <2>1. PICK p \in found : TRUE
    BY <1>8
  <2>2. text[p + 2].value = s /\ text[p + 2].kind = "string"
    BY <1>3, <1>6, <1>8
  <2>3. PICK i \in 1..Len(members) :
               /\ members[i].key = Text("transaction")
               /\ Len(members[i].tokens) = 1 /\ members[i].tokens[1] \in Scalars
               /\ text[p + 2] = members[i].tokens[1]
    BY <1>4
  <2> DEFINE e == members[i].tokens[1]
  <2>4. e.gaps = {}
    <3>1. members[i] \in ToSet(members)
      BY <1>1, LenProperties DEF ToSet
    <3>2. members[i].tokens \in Seq(Tokens)
      <4>1. members[i] \in Members
        BY <1>1, ElementOfSeq
      <4> QED
        BY <4>1 DEF Members
    <3>3. e \in ToSet(members[i].tokens)
      BY <2>3, <3>2, LenProperties DEF ToSet
    <3> QED
      BY <3>1, <3>3 DEF Whole
  <2>5. e = Text(s)
    <3>1. e.kind = "string" /\ e.value = s /\ e \in Scalars
      BY <2>2, <2>3
    <3> HIDE DEF e
    <3>2. e = [kind |-> e.kind, value |-> e.value, gaps |-> e.gaps]
      BY <3>1 DEF Scalars, Literals, Strings
    <3> QED
      BY <2>4, <3>1, <3>2 DEF Text, Broken
  <2> QED
    BY <1>1, <2>3, <2>5, MemberHad
<1> QED
  BY <1>7, <1>8 DEF text

\* What the parser of its path makes of an answer.
Reading(a) ==
  LET text == Write(a.members, a.spaced)
  IN  IF a.path = "/verify" THEN ParseVerifyText(text) ELSE ParseSettleText(text)

\* A reading is that of an answer a facilitator may write.
ReadingInv == answer \in Answers /\ (reading = "none" \/ reading = Reading(answer))

(* In every reachable state.                                               *)
LEMMA ReadingOfAnswer == AnswerSpec => []ReadingInv
<1>1. InitAnswer => ReadingInv
  BY DEF InitAnswer, ReadingInv
<1>2. ReadingInv /\ [ReadAnswer]_<<answer, reading>> => ReadingInv'
  BY DEF ReadingInv, ReadAnswer, Reading
<1> QED
  BY <1>1, <1>2, PTL DEF AnswerSpec

(* An answer of /verify is taken if it says so to a JSON reader, and, when *)
(* it has no nested objects and no white space inside a key or a string,   *)
(* only then.                                                              *)
THEOREM VerifyAnswersRead == AnswerSpec => []VerifyReadAsJson
<1>1. ReadingInv => VerifyReadAsJson
  <2> SUFFICES ASSUME ReadingInv, reading # "none", answer.path = "/verify"
               PROVE  LET valid == Has(answer.members, Text("isValid"), <<Literal("true")>>)
                      IN  /\ valid => reading = "Ok"
                          /\ Flat(answer.members) /\ Whole(answer.members) =>
                               (reading = "Ok" => valid)
    BY DEF VerifyReadAsJson
  <2> DEFINE text == StripWhitespace(Write(answer.members, answer.spaced))
             held == Has(answer.members, Text("isValid"), <<Literal("true")>>)
  <2>1. IsObject(answer.members)
    BY AnswersAssumption DEF ReadingInv
  <2>2. /\ held => FlagIsTrue(text, "isValid")
        /\ Flat(answer.members) /\ Whole(answer.members) =>
             (FlagIsTrue(text, "isValid") => held)
    BY <2>1, FlagRead
  <2>3. reading = "Ok" <=> FlagIsTrue(text, "isValid")
    BY DEF ReadingInv, Reading, ParseVerifyText, Check
  <2> HIDE DEF text, held
  <2>4. /\ held => reading = "Ok"
        /\ Flat(answer.members) /\ Whole(answer.members) => (reading = "Ok" => held)
    BY <2>2, <2>3
  <2> QED
    BY <2>4 DEF held
<1> QED
  BY <1>1, ReadingOfAnswer, PTL

(* An answer of /settle without nested objects, and without white space    *)
(* inside a key or a string, releases a result exactly if it says to a     *)
(* JSON reader that the payment succeeded and names a signature of 64      *)
(* bytes.                                                                  *)
THEOREM SettleAnswersRead == AnswerSpec => []SettleReadAsJson
<1>1. ReadingInv => SettleReadAsJson
  <2> SUFFICES ASSUME ReadingInv, reading # "none", answer.path = "/settle",
                      Flat(answer.members), Whole(answer.members)
               PROVE  reading = "Ok" <=>
                        /\ Has(answer.members, Text("success"), <<Literal("true")>>)
                        /\ Has(answer.members, Text("transaction"), <<Text("sig64")>>)
    BY DEF SettleReadAsJson
  <2> DEFINE text == StripWhitespace(Write(answer.members, answer.spaced))
             held == Has(answer.members, Text("success"), <<Literal("true")>>)
             landed == Has(answer.members, Text("transaction"), <<Text("sig64")>>)
             found == StringFields(text, "transaction")
             s == ExtractStringField(text, "transaction")
  <2>1. IsObject(answer.members)
    BY AnswersAssumption DEF ReadingInv
  <2>2. held <=> FlagIsTrue(text, "success")
    BY <2>1, FlagRead
  <2>3. landed <=> found # {} /\ s = "sig64"
    BY <2>1, TransactionRead
  <2>4. reading = IF FlagIsTrue(text, "success") /\ found # {}
                  THEN DecodeSolanaSignature(s) ELSE "SettleRejected"
    BY DEF ReadingInv, Reading, ParseSettleText
  <2> HIDE DEF text, held, landed, found, s
  <2>5. DecodeSolanaSignature(s) = "Ok" <=> s = "sig64"
    BY DEF DecodeSolanaSignature, Check, SignatureBytes
  <2>6. reading = "Ok" <=> held /\ landed
    BY <2>2, <2>3, <2>4, <2>5
  <2> QED
    BY <2>6 DEF held, landed
<1> QED
  BY <1>1, ReadingOfAnswer, PTL

=============================================================================
