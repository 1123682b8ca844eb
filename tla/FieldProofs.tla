---------------------------- MODULE FieldProofs ----------------------------
(***************************************************************************)
(* The field of module Ntt is one: the laws of its operations, of powers,  *)
(* of the generator and of finite sums, for every order that satisfies     *)
(* FieldAssumption.                                                        *)
(***************************************************************************)
EXTENDS Ntt, Recursion, FiniteSetTheorems

(* The order of the field, and that its elements are integers.             *)
LEMMA Order == P \in Nat /\ P > 1 /\ Field \subseteq Int /\ 0 \in Field /\ 1 \in Field
BY FieldAssumption DEF Field

-----------------------------------------------------------------------------
(***************************************************************************)
(* Remainders.                                                             *)
(***************************************************************************)

(* A remainder is an element.                                              *)
LEMMA Remainder ==
  ASSUME NEW x \in Int
  PROVE  /\ x % P \in Field
         /\ \E q \in Int : x = P * q + (x % P)
<1>1. P \in Int /\ P > 0
  BY Order
<1> DEFINE r == x % P
           q == x \div P
<1>2. 0 <= r /\ r <= P - 1 /\ r \in Int
  BY <1>1
<1>3. q \in Int /\ x = P * q + r
  BY <1>1
<1> HIDE DEF r, q
<1>4. r \in Field
  BY <1>1, <1>2 DEF Field
<1>5. \E p \in Int : x = P * p + r
  BY <1>3
<1> QED
  BY <1>4, <1>5 DEF r

(* There is only one.                                                      *)
LEMMA RemainderUnique ==
  ASSUME NEW q \in Int, NEW r \in Field
  PROVE  (P * q + r) % P = r
<1>1. P \in Int /\ P > 0 /\ r \in Int /\ 0 <= r /\ r < P
  BY Order DEF Field
<1> QED
  BY <1>1

(* Multiples of P do not matter.                                           *)
LEMMA RemainderShift ==
  ASSUME NEW x \in Int, NEW q \in Int
  PROVE  (x + P * q) % P = x % P
<1>1. PICK p \in Int : x = P * p + (x % P)
  BY Remainder
<1> DEFINE r == x % P
<1>2. r \in Field
  BY Remainder
<1>3. x = P * p + r
  BY <1>1
<1> HIDE DEF r
<1>4. r \in Int /\ P \in Int
  BY <1>2, Order
<1>5. x + P * q = P * (p + q) + r /\ p + q \in Int
  BY <1>3, <1>4
<1>6. (P * (p + q) + r) % P = r
  BY <1>2, <1>5, RemainderUnique
<1> QED
  BY <1>5, <1>6 DEF r

(* An element is its own remainder.                                        *)
LEMMA RemainderOfElement ==
  ASSUME NEW x \in Field
  PROVE  x % P = x
<1>1. x = P * 0 + x
  BY Order
<1> QED
  BY <1>1, RemainderUnique

(* A summand may be reduced first.                                         *)
LEMMA RemainderOfSum ==
  ASSUME NEW x \in Int, NEW y \in Int
  PROVE  ((x % P) + y) % P = (x + y) % P
<1>1. PICK q \in Int : x = P * q + (x % P)
  BY Remainder
<1> DEFINE r == x % P
<1>2. r \in Int /\ P \in Int
  BY Remainder, Order
<1>3. x = P * q + r
  BY <1>1
<1> HIDE DEF r
<1>4. x + y = (r + y) + P * q /\ r + y \in Int
  BY <1>2, <1>3
<1> QED
  BY <1>4, RemainderShift DEF r

(* So may the operands of a difference.                                    *)
LEMMA RemainderOfDifference ==
  ASSUME NEW x \in Int, NEW y \in Int
  PROVE  (y - (x % P)) % P = (y - x) % P
<1>1. PICK q \in Int : x = P * q + (x % P)
  BY Remainder
<1> DEFINE r == x % P
<1>2. r \in Int /\ P \in Int
  BY Remainder, Order
<1>3. x = P * q + r
  BY <1>1
<1> HIDE DEF r
<1>4. y - r = (y - x) + P * q /\ y - x \in Int
  BY <1>2, <1>3
<1> QED
  BY <1>4, RemainderShift DEF r

(* So may a factor.                                                        *)
LEMMA RemainderOfProduct ==
  ASSUME NEW x \in Int, NEW y \in Int
  PROVE  ((x % P) * y) % P = (x * y) % P
<1>1. PICK q \in Int : x = P * q + (x % P)
  BY Remainder
<1>2. x % P \in Int /\ P \in Int
  BY Remainder, Order
<1> DEFINE r == x % P
<1>3. x = P * q + r /\ r \in Int
  BY <1>1, <1>2
<1> HIDE DEF r
<1>4. x * y = r * y + P * (q * y)
  BY <1>2, <1>3
<1>5. r * y \in Int /\ q * y \in Int
  BY <1>3
<1> QED
  BY <1>4, <1>5, RemainderShift DEF r

-----------------------------------------------------------------------------
(***************************************************************************)
(* The operations.                                                         *)
(***************************************************************************)

(* The field is closed under its operations.                               *)
LEMMA Closed ==
  ASSUME NEW x \in Field, NEW y \in Field
  PROVE  Add(x, y) \in Field /\ Sub(x, y) \in Field /\ Mul(x, y) \in Field
<1>1. x \in Int /\ y \in Int
  BY Order
<1>2. x + y \in Int /\ x - y \in Int /\ x * y \in Int
  BY <1>1
<1> QED
  BY <1>2, Remainder DEF Add, Sub, Mul

(* Sums commute and associate, and 0 is neutral.                           *)
LEMMA AddLaws ==
  ASSUME NEW x \in Field, NEW y \in Field, NEW z \in Field
  PROVE  /\ Add(x, y) = Add(y, x)
         /\ Add(Add(x, y), z) = Add(x, Add(y, z))
         /\ Add(0, x) = x /\ Add(x, 0) = x
<1>1. x \in Int /\ y \in Int /\ z \in Int
  BY Order
<1>2. Add(x, y) = Add(y, x)
  <2>1. x + y = y + x
    BY <1>1
  <2> QED
    BY <2>1 DEF Add
<1>3. Add(Add(x, y), z) = (x + y + z) % P
  BY <1>1, RemainderOfSum DEF Add
<1>4. Add(x, Add(y, z)) = (x + y + z) % P
  <2>1. ((y + z) % P) + x = x + ((y + z) % P)
    <3>1. (y + z) % P \in Int
      BY <1>1, Remainder, Order
    <3> QED
      BY <1>1, <3>1
  <2>2. (((y + z) % P) + x) % P = ((y + z) + x) % P
    BY <1>1, RemainderOfSum
  <2>3. (y + z) + x = x + y + z
    BY <1>1
  <2> QED
    BY <2>1, <2>2, <2>3 DEF Add
<1>5. Add(0, x) = x /\ Add(x, 0) = x
  <2>1. 0 + x = x /\ x + 0 = x
    BY <1>1
  <2> QED
    BY <2>1, RemainderOfElement DEF Add
<1> QED
  BY <1>2, <1>3, <1>4, <1>5

(* Products commute and associate, 1 is neutral and 0 absorbs.             *)
LEMMA MulLaws ==
  ASSUME NEW x \in Field, NEW y \in Field, NEW z \in Field
  PROVE  /\ Mul(x, y) = Mul(y, x)
         /\ Mul(Mul(x, y), z) = Mul(x, Mul(y, z))
         /\ Mul(1, x) = x /\ Mul(x, 1) = x
         /\ Mul(0, x) = 0 /\ Mul(x, 0) = 0
<1>1. x \in Int /\ y \in Int /\ z \in Int
  BY Order
<1>2. x * y \in Int /\ y * z \in Int
  BY <1>1
<1>3. Mul(x, y) = Mul(y, x)
  <2>1. x * y = y * x
    BY <1>1
  <2> QED
    BY <2>1 DEF Mul
<1>4. Mul(Mul(x, y), z) = ((x * y) * z) % P
  BY <1>1, <1>2, RemainderOfProduct DEF Mul
<1>5. Mul(x, Mul(y, z)) = ((y * z) * x) % P
  <2>1. ((y * z) % P) * x = x * ((y * z) % P)
    <3>1. (y * z) % P \in Int
      BY <1>2, Remainder, Order
    <3> QED
      BY <1>1, <3>1
  <2>2. (((y * z) % P) * x) % P = ((y * z) * x) % P
    BY <1>1, <1>2, RemainderOfProduct
  <2> QED
    BY <2>1, <2>2 DEF Mul
<1>6. (x * y) * z = (y * z) * x
  BY <1>1
<1>7. Mul(1, x) = x /\ Mul(x, 1) = x
  <2>1. 1 * x = x /\ x * 1 = x
    BY <1>1
  <2> QED
    BY <2>1, RemainderOfElement DEF Mul
<1>8. Mul(0, x) = 0 /\ Mul(x, 0) = 0
  <2>1. 0 * x = 0 /\ x * 0 = 0
    BY <1>1
  <2>2. 0 % P = 0
    BY RemainderOfElement, Order
  <2> QED
    BY <2>1, <2>2 DEF Mul
<1> QED
  BY <1>3, <1>4, <1>5, <1>6, <1>7, <1>8

(* Four factors can be paired up otherwise.                                *)
LEMMA MulSwap ==
  ASSUME NEW a \in Field, NEW b \in Field, NEW x \in Field, NEW y \in Field
  PROVE  Mul(Mul(a, b), Mul(x, y)) = Mul(Mul(a, x), Mul(b, y))
<1>1. Mul(b, x) \in Field /\ Mul(x, y) \in Field /\ Mul(b, y) \in Field
  BY Closed
<1>2. Mul(Mul(a, b), Mul(x, y)) = Mul(a, Mul(b, Mul(x, y)))
  BY <1>1, MulLaws
<1>3. Mul(b, Mul(x, y)) = Mul(Mul(b, x), y)
  BY MulLaws
<1>4. Mul(b, x) = Mul(x, b)
  BY MulLaws
<1>5. Mul(Mul(x, b), y) = Mul(x, Mul(b, y))
  BY MulLaws
<1>6. Mul(a, Mul(x, Mul(b, y))) = Mul(Mul(a, x), Mul(b, y))
  BY <1>1, MulLaws
<1> QED
  BY <1>2, <1>3, <1>4, <1>5, <1>6

(* The same for sums.                                                      *)
LEMMA AddSwap ==
  ASSUME NEW a \in Field, NEW b \in Field, NEW x \in Field, NEW y \in Field
  PROVE  Add(Add(a, b), Add(x, y)) = Add(Add(a, x), Add(b, y))
<1>1. Add(b, x) \in Field /\ Add(x, y) \in Field /\ Add(b, y) \in Field
  BY Closed
<1>2. Add(Add(a, b), Add(x, y)) = Add(a, Add(b, Add(x, y)))
  BY <1>1, AddLaws
<1>3. Add(b, Add(x, y)) = Add(Add(b, x), y)
  BY AddLaws
<1>4. Add(b, x) = Add(x, b)
  BY AddLaws
<1>5. Add(Add(x, b), y) = Add(x, Add(b, y))
  BY AddLaws
<1>6. Add(a, Add(x, Add(b, y))) = Add(Add(a, x), Add(b, y))
  BY <1>1, AddLaws
<1> QED
  BY <1>2, <1>3, <1>4, <1>5, <1>6

(* Products distribute over sums.                                          *)
LEMMA Distributes ==
  ASSUME NEW x \in Field, NEW y \in Field, NEW z \in Field
  PROVE  /\ Mul(x, Add(y, z)) = Add(Mul(x, y), Mul(x, z))
         /\ Mul(Add(y, z), x) = Add(Mul(y, x), Mul(z, x))
<1>1. x \in Int /\ y \in Int /\ z \in Int
  BY Order
<1>2. y + z \in Int /\ y * x \in Int /\ z * x \in Int
  BY <1>1
<1>3. Mul(Add(y, z), x) = ((y + z) * x) % P
  BY <1>1, <1>2, RemainderOfProduct DEF Mul, Add
<1>4. Add(Mul(y, x), Mul(z, x)) = (y * x + z * x) % P
  <2> DEFINE r == (z * x) % P
  <2>1. r \in Int
    BY <1>2, Remainder, Order
  <2>2. (((z * x) % P) + y * x) % P = (z * x + y * x) % P
    BY <1>2, RemainderOfSum
  <2>3. (((y * x) % P) + r) % P = (y * x + r) % P
    BY <1>2, <2>1, RemainderOfSum
  <2> HIDE DEF r
  <2>4. y * x + r = r + y * x /\ z * x + y * x = y * x + z * x
    BY <1>2, <2>1
  <2> QED
    BY <2>2, <2>3, <2>4 DEF r, Add, Mul
<1>5. (y + z) * x = y * x + z * x
  BY <1>1
<1>6. Mul(Add(y, z), x) = Add(Mul(y, x), Mul(z, x))
  BY <1>3, <1>4, <1>5
<1> QED
  BY <1>6, MulLaws, Closed

(* The element that is added to subtract.                                  *)
Neg(x) == Sub(0, x)

(* A difference is the sum with the negative, which is an inverse and      *)
(* which products pass on.                                                 *)
LEMMA NegLaws ==
  ASSUME NEW x \in Field, NEW y \in Field
  PROVE  /\ Neg(x) \in Field
         /\ Sub(x, y) = Add(x, Neg(y))
         /\ Add(x, Neg(x)) = 0
         /\ Mul(Neg(x), y) = Neg(Mul(x, y))
<1>1. x \in Int /\ y \in Int
  BY Order
<1>2. Neg(x) \in Field
  BY Order, Closed DEF Neg
<1>3. ASSUME NEW a \in Field, NEW b \in Field
      PROVE  Sub(a, b) = Add(a, Neg(b))
  <2>1. a \in Int /\ b \in Int
    BY Order
  <2>2. 0 - b \in Int
    BY <2>1
  <2>3. (((0 - b) % P) + a) % P = ((0 - b) + a) % P
    BY <2>1, <2>2, RemainderOfSum
  <2>4. (0 - b) + a = a - b
    BY <2>1
  <2>5. Add(Neg(b), a) = Sub(a, b)
    BY <2>3, <2>4 DEF Add, Sub, Neg
  <2>6. Neg(b) \in Field
    BY Order, Closed DEF Neg
  <2> QED
    BY <2>5, <2>6, AddLaws
<1>4. Add(x, Neg(x)) = 0
  <2>1. x - x = 0
    BY <1>1
  <2>2. Sub(x, x) = 0
    BY <2>1, RemainderOfElement, Order DEF Sub
  <2> QED
    BY <2>2, <1>3
<1>5. Mul(Neg(x), y) = Neg(Mul(x, y))
  <2>1. 0 - x \in Int /\ x * y \in Int
    BY <1>1
  <2>2. Mul(Neg(x), y) = ((0 - x) * y) % P
    BY <1>1, <2>1, RemainderOfProduct DEF Mul, Neg, Sub
  <2>3. Neg(Mul(x, y)) = (0 - x * y) % P
    BY <2>1, RemainderOfDifference DEF Mul, Neg, Sub
  <2>4. (0 - x) * y = 0 - x * y
    BY <1>1
  <2> QED
    BY <2>2, <2>3, <2>4
<1> QED
  BY <1>2, <1>3, <1>4, <1>5

-----------------------------------------------------------------------------
(***************************************************************************)
(* Powers.                                                                 *)
(***************************************************************************)
IsPowersOf(f, x) ==
  /\ f \in [Nat -> Field]
  /\ f[0] = 1
  /\ \A n \in Nat : f[n + 1] = Mul(f[n], x)

(* The powers of an element, one by one.                                   *)
LEMMA PowersExist ==
  ASSUME NEW x \in Field
  PROVE  \E f : IsPowersOf(f, x)
<1> DEFINE G == [a \in Nat \X Field |-> Mul(a[2], x)]
<1>1. G \in [Nat \X Field -> Field]
  BY Closed
<1>2. \A n \in Nat, v \in Field : G[<<n, v>>] = Mul(v, x)
  OBVIOUS
<1>3. 1 \in Field
  BY Order
<1> HIDE DEF G
<1>4. PICK f : Recurs(f, Field, 1, G)
  BY <1>1, <1>3, RecursionExists
<1> QED
  BY <1>2, <1>4 DEF Recurs, IsPowersOf

(* Exponents add up.                                                       *)
LEMMA PowersAdd ==
  ASSUME NEW x \in Field, NEW f, IsPowersOf(f, x), NEW m \in Nat, NEW n \in Nat
  PROVE  f[m + n] = Mul(f[m], f[n])
<1> DEFINE S == {k \in Nat : f[m + k] = Mul(f[m], f[k])}
<1>1. \A k \in Nat : f[k] \in Field /\ f[k + 1] = Mul(f[k], x)
  BY DEF IsPowersOf
<1>2. 0 \in S
  <2>1. f[0] = 1 /\ m + 0 = m
    BY DEF IsPowersOf
  <2> QED
    BY <1>1, <2>1, MulLaws
<1>3. ASSUME NEW k \in Nat, k \in S
      PROVE  k + 1 \in S
  <2>1. f[m + (k + 1)] = Mul(f[m + k], x)
    <3>1. m + (k + 1) = (m + k) + 1 /\ m + k \in Nat
      OBVIOUS
    <3> QED
      BY <1>1, <3>1
  <2>2. Mul(Mul(f[m], f[k]), x) = Mul(f[m], Mul(f[k], x))
    BY <1>1, MulLaws
  <2> QED
    BY <1>1, <1>3, <2>1, <2>2
<1> HIDE DEF S
<1>4. Nat \subseteq S
  BY <1>2, <1>3, NatInduct
<1> QED
  BY <1>4 DEF S

(* Squaring computes them.                                                 *)
LEMMA PowerIsPowers ==
  ASSUME NEW x \in Field, NEW f, IsPowersOf(f, x), NEW n \in Nat
  PROVE  Power(x, n) = f[n]
<1> DEFINE Half(g, i) == Mul(Mul(g[i \div 2], g[i \div 2]), IF i % 2 = 1 THEN x ELSE 1)
           Squaring(g) == g = [i \in 0..n |-> IF i = 0 THEN 1 ELSE Half(g, i)]
           h == [i \in 0..n |-> f[i]]
           g == CHOOSE g : Squaring(g)
<1>1. Power(x, n) = g[n]
  BY DEF Power
<1>2. \A k \in Nat : f[k] \in Field /\ f[k + 1] = Mul(f[k], x)
  BY DEF IsPowersOf
<1>3. f[0] = 1
  BY DEF IsPowersOf
<1>4. ASSUME NEW i \in Nat, i # 0
      PROVE  /\ i \div 2 \in Nat /\ i \div 2 < i
             /\ f[i] = Mul(Mul(f[i \div 2], f[i \div 2]), IF i % 2 = 1 THEN x ELSE 1)
  <2> DEFINE d == i \div 2
  <2>1. d \in Nat /\ d < i /\ (i = d + d \/ i = (d + d) + 1) /\ (i % 2 = 1 <=> i = (d + d) + 1)
    BY <1>4
  <2> HIDE DEF d
  <2>2. f[d + d] = Mul(f[d], f[d])
    BY <2>1, PowersAdd
  <2>3. CASE i = d + d
    <3>1. i % 2 # 1
      BY <2>1, <2>3
    <3>2. Mul(Mul(f[d], f[d]), 1) = Mul(f[d], f[d])
      BY <1>2, <2>1, Closed, MulLaws
    <3> QED
      BY <2>1, <2>2, <2>3, <3>1, <3>2 DEF d
  <2>4. CASE i = (d + d) + 1
    <3>1. i % 2 = 1
      BY <2>1, <2>4
    <3>2. f[i] = Mul(f[d + d], x)
      BY <1>2, <2>1, <2>4
    <3> QED
      BY <2>1, <2>2, <3>1, <3>2 DEF d
  <2> QED
    BY <2>1, <2>3, <2>4
<1>5. Squaring(h)
  <2>1. ASSUME NEW i \in 0..n
        PROVE  h[i] = IF i = 0 THEN 1 ELSE Half(h, i)
    <3>1. h[i] = f[i]
      OBVIOUS
    <3>2. CASE i = 0
      BY <1>3, <3>2
    <3>3. CASE i # 0
      <4>1. i \in Nat /\ i \div 2 \in 0..n
        BY <1>4, <3>3
      <4>2. h[i \div 2] = f[i \div 2]
        BY <4>1
      <4> HIDE DEF h
      <4> QED
        BY <1>4, <3>1, <3>3, <4>1, <4>2
    <3> QED
      BY <3>2, <3>3
  <2>2. h = [i \in 0..n |-> h[i]]
    OBVIOUS
  <2> HIDE DEF h, Half
  <2> QED
    BY <2>1, <2>2
<1>6. Squaring(g)
  <2> HIDE DEF Squaring, h
  <2> QED
    BY <1>5, Zenon
<1> HIDE DEF g, h
<1>7. ASSUME NEW i \in 0..n
      PROVE  g[i] = IF i = 0 THEN 1 ELSE Half(g, i)
  <2> HIDE DEF Half
  <2> QED
    BY <1>6
<1> HIDE DEF Squaring
<1> DEFINE Differ == {i \in 0..n : g[i] # f[i]}
<1>8. Differ = {}
  <2> SUFFICES ASSUME Differ # {}
               PROVE  FALSE
    OBVIOUS
  <2>1. Differ \in SUBSET Nat
    OBVIOUS
  <2>2. PICK i \in Differ : \A j \in Differ : i <= j
    <3> HIDE DEF Differ
    <3> QED
      BY <2>1, LeastElement
  <2>3. i \in 0..n /\ g[i] # f[i]
    OBVIOUS
  <2>4. i # 0
    BY <1>3, <1>7, <2>3
  <2>5. i \div 2 \in Nat /\ i \div 2 < i
    BY <1>4, <2>3, <2>4
  <2>6. i \div 2 \in 0..n /\ i \div 2 \notin Differ
    <3> HIDE DEF Differ
    <3> QED
      BY <2>2, <2>3, <2>5
  <2>7. g[i \div 2] = f[i \div 2]
    BY <2>6
  <2> HIDE DEF Differ
  <2>8. g[i] = Half(g, i)
    BY <1>7, <2>3, <2>4
  <2> QED
    BY <1>4, <2>3, <2>4, <2>7, <2>8
<1> QED
  BY <1>1, <1>8

(* The recursion of Power, as it is used from here on.                     *)
LEMMA PowerDef ==
  ASSUME NEW x \in Field, NEW n \in Nat
  PROVE  /\ Power(x, n) \in Field
         /\ Power(x, 0) = 1
         /\ Power(x, n + 1) = Mul(Power(x, n), x)
<1>1. PICK f : IsPowersOf(f, x)
  BY PowersExist
<1>2. Power(x, n) = f[n] /\ Power(x, 0) = f[0] /\ Power(x, n + 1) = f[n + 1]
  BY <1>1, PowerIsPowers
<1> QED
  BY <1>1, <1>2 DEF IsPowersOf

(* x^(m + n) = x^m x^n.                                                    *)
LEMMA PowerAdd ==
  ASSUME NEW x \in Field, NEW m \in Nat, NEW n \in Nat
  PROVE  Power(x, m + n) = Mul(Power(x, m), Power(x, n))
<1>1. PICK f : IsPowersOf(f, x)
  BY PowersExist
<1>2. Power(x, m) = f[m] /\ Power(x, n) = f[n] /\ Power(x, m + n) = f[m + n]
  BY <1>1, PowerIsPowers
<1> QED
  BY <1>1, <1>2, PowersAdd

(* The powers of 1, and the first power.                                   *)
LEMMA PowerTrivial ==
  ASSUME NEW x \in Field, NEW n \in Nat
  PROVE  Power(1, n) = 1 /\ Power(x, 1) = x
<1> DEFINE S == {k \in Nat : Power(1, k) = 1}
<1>1. 0 \in S
  BY Order, PowerDef
<1>2. ASSUME NEW k \in Nat, k \in S
      PROVE  k + 1 \in S
  BY <1>2, Order, PowerDef, MulLaws
<1> HIDE DEF S
<1>3. Nat \subseteq S
  BY <1>1, <1>2, NatInduct
<1>4. Power(x, 0 + 1) = Mul(Power(x, 0), x) /\ Power(x, 0) = 1
  BY PowerDef
<1> QED
  BY <1>3, <1>4, MulLaws DEF S

(* (x^m)^n = x^(mn).                                                       *)
LEMMA PowerOfPower ==
  ASSUME NEW x \in Field, NEW m \in Nat, NEW n \in Nat
  PROVE  Power(Power(x, m), n) = Power(x, m * n)
<1> DEFINE y == Power(x, m)
           S == {k \in Nat : Power(y, k) = Power(x, m * k)}
<1>1. y \in Field
  BY PowerDef
<1>2. 0 \in S
  <2>1. m * 0 = 0
    OBVIOUS
  <2> QED
    BY <1>1, <2>1, PowerDef
<1>3. ASSUME NEW k \in Nat, k \in S
      PROVE  k + 1 \in S
  <2>1. m * (k + 1) = m * k + m /\ m * k \in Nat
    OBVIOUS
  <2>2. Power(x, m * k + m) = Mul(Power(x, m * k), y)
    BY <2>1, PowerAdd
  <2>3. Power(y, k + 1) = Mul(Power(y, k), y)
    BY <1>1, PowerDef
  <2> QED
    BY <1>3, <2>1, <2>2, <2>3
<1> HIDE DEF S
<1>4. Nat \subseteq S
  BY <1>2, <1>3, NatInduct
<1> QED
  BY <1>4 DEF S

(* (xy)^n = x^n y^n.                                                       *)
LEMMA PowerOfProduct ==
  ASSUME NEW x \in Field, NEW y \in Field, NEW n \in Nat
  PROVE  Power(Mul(x, y), n) = Mul(Power(x, n), Power(y, n))
<1> DEFINE z == Mul(x, y)
           S == {k \in Nat : Power(z, k) = Mul(Power(x, k), Power(y, k))}
<1>1. z \in Field
  BY Closed
<1>2. 0 \in S
  BY <1>1, Order, PowerDef, MulLaws
<1>3. ASSUME NEW k \in Nat, k \in S
      PROVE  k + 1 \in S
  <2> DEFINE a == Power(x, k)
             b == Power(y, k)
  <2>1. a \in Field /\ b \in Field
    BY PowerDef
  <2>2. /\ Power(z, k + 1) = Mul(Mul(a, b), z)
        /\ Power(x, k + 1) = Mul(a, x)
        /\ Power(y, k + 1) = Mul(b, y)
    BY <1>1, <1>3, PowerDef
  <2> HIDE DEF a, b
  <2>3. Mul(Mul(a, b), Mul(x, y)) = Mul(Mul(a, x), Mul(b, y))
    BY <2>1, MulSwap
  <2> QED
    BY <2>2, <2>3
<1> HIDE DEF S
<1>4. Nat \subseteq S
  BY <1>2, <1>3, NatInduct
<1> QED
  BY <1>4 DEF S

-----------------------------------------------------------------------------
(***************************************************************************)
(* Powers of two, which the prover knows as sizes of powersets.            *)
(***************************************************************************)

(* 2^n counts the subsets of 1..n, which double with every element.        *)
LEMMA TwoToThe ==
  ASSUME NEW n \in Nat
  PROVE  /\ 2^0 = 1
         /\ 2^n \in Nat
         /\ 2^n > 0
         /\ 2^(n + 1) = 2 * 2^n
<1> DEFINE A == SUBSET (1..n)
           B == {X \cup {n + 1} : X \in A}
           C == SUBSET (1..(n + 1))
<1>1. /\ IsFiniteSet(1..n) /\ Cardinality(1..n) = n
      /\ IsFiniteSet(1..(n + 1)) /\ Cardinality(1..(n + 1)) = n + 1
  BY FS_Interval
<1>2. IsFiniteSet(A) /\ Cardinality(A) = 2^n
  BY <1>1, FS_SUBSET
<1>3. Cardinality(C) = 2^(n + 1)
  BY <1>1, FS_SUBSET
<1>4. C = A \cup B
  <2>1. ASSUME NEW X \in C
        PROVE  X \in A \cup B
    <3>1. CASE n + 1 \in X
      <4>1. X \ {n + 1} \in A /\ X = (X \ {n + 1}) \cup {n + 1}
        BY <3>1
      <4> QED
        BY <4>1
    <3>2. CASE n + 1 \notin X
      BY <3>2
    <3> QED
      BY <3>1, <3>2
  <2>2. A \subseteq C
    OBVIOUS
  <2>3. ASSUME NEW X \in A
        PROVE  X \cup {n + 1} \in C
    <3>1. X \subseteq 1..(n + 1)
      OBVIOUS
    <3> QED
      BY <3>1
  <2>4. \A Y \in B : \E X \in A : Y = X \cup {n + 1}
    OBVIOUS
  <2> HIDE DEF A, B, C
  <2>5. B \subseteq C
    BY <2>3, <2>4
  <2> QED
    BY <2>1, <2>2, <2>5
<1>5. A \cap B = {}
  OBVIOUS
<1>6. IsFiniteSet(B) /\ Cardinality(B) = Cardinality(A)
  <2> DEFINE f == [X \in A |-> X \cup {n + 1}]
  <2>1. f \in [A -> B]
    OBVIOUS
  <2>2. \A Y \in B : \E X \in A : f[X] = Y
    OBVIOUS
  <2>3. ASSUME NEW X \in A, NEW Y \in A, f[X] = f[Y]
        PROVE  X = Y
    <3>1. n + 1 \notin X /\ n + 1 \notin Y
      OBVIOUS
    <3>2. X \cup {n + 1} = Y \cup {n + 1}
      BY <2>3
    <3> QED
      BY <3>1, <3>2
  <2> HIDE DEF f, A, B
  <2>4. f \in Bijection(A, B)
    BY <2>1, <2>2, <2>3 DEF Bijection, Injection, Surjection, IsInjective
  <2>5. ExistsBijection(A, B)
    BY <2>4 DEF ExistsBijection
  <2> QED
    BY <1>2, <2>5, FS_Bijection
<1> HIDE DEF A, B, C
<1>7. Cardinality(A) \in Nat /\ Cardinality({}) = 0
  BY <1>2, FS_CardinalityType, FS_EmptySet
<1>8. Cardinality(A \cup B) = Cardinality(A) + Cardinality(B) - Cardinality(A \cap B)
  BY <1>2, <1>6, FS_Union
<1>9. 2^(n + 1) = 2 * 2^n
  <2>1. \A c \in Nat : c + c - 0 = 2 * c
    OBVIOUS
  <2>2. Cardinality(C) = Cardinality(A) + Cardinality(A) - 0
    BY <1>4, <1>5, <1>6, <1>7, <1>8, Zenon
  <2>3. Cardinality(C) = 2 * Cardinality(A)
    BY <1>7, <2>1, <2>2
  <2> QED
    BY <1>2, <1>3, <2>3
<1>10. Cardinality(A) # 0
  <2>1. {} \in A
    BY DEF A
  <2> QED
    BY <1>2, <2>1, FS_EmptySet
<1> QED
  BY <1>2, <1>7, <1>9, <1>10

(* 2^(m + n) = 2^m 2^n.                                                    *)
LEMMA TwoToTheSum ==
  ASSUME NEW m \in Nat, NEW n \in Nat
  PROVE  2^(m + n) = 2^m * 2^n
<1> DEFINE S == {k \in Nat : 2^(m + k) = 2^m * 2^k}
<1>1. 2^m \in Nat
  BY TwoToThe
<1>2. 0 \in S
  <2>1. m + 0 = m /\ 2^0 = 1
    BY TwoToThe
  <2> QED
    BY <1>1, <2>1
<1>3. ASSUME NEW k \in Nat, k \in S
      PROVE  k + 1 \in S
  <2>1. 2^((m + k) + 1) = 2 * 2^(m + k) /\ 2^(k + 1) = 2 * 2^k /\ 2^k \in Nat
    BY TwoToThe
  <2>2. m + (k + 1) = (m + k) + 1
    OBVIOUS
  <2> DEFINE a == 2^m
             b == 2^k
  <2>3. 2 * (a * b) = a * (2 * b)
    <3>1. a \in Nat /\ b \in Nat
      BY <1>1, <2>1
    <3> HIDE DEF a, b
    <3> QED
      BY <3>1
  <2> QED
    BY <1>3, <2>1, <2>2, <2>3
<1> HIDE DEF S
<1>4. Nat \subseteq S
  BY <1>2, <1>3, NatInduct
<1> QED
  BY <1>4 DEF S

-----------------------------------------------------------------------------
(***************************************************************************)
(* The generator.                                                          *)
(***************************************************************************)
Units == 1..(P - 1)

(* The units are the elements but 0.                                       *)
LEMMA UnitsType == Units = Field \ {0} /\ 1 \in Units /\ P - 1 \in Units
BY Order DEF Units, Field

(* Every unit is a power of the generator, and the generator is one.       *)
LEMMA Generates ==
  /\ Generator \in Field
  /\ \A n \in Units : Power(Generator, n) \in Units
  /\ \A x \in Units : \E n \in Units : x = Power(Generator, n)
BY FieldAssumption DEF Units

(* Its powers up to P - 1 are all different.                               *)
LEMMA GeneratorInjective ==
  ASSUME NEW m \in Units, NEW n \in Units, Power(Generator, m) = Power(Generator, n)
  PROVE  m = n
<1> DEFINE f == [k \in Units |-> Power(Generator, k)]
<1>1. IsFiniteSet(Units)
  BY Order, FS_Interval DEF Units
<1>2. f \in Surjection(Units, Units)
  <2>1. f \in [Units -> Units]
    BY Generates
  <2>2. \A x \in Units : \E k \in Units : f[k] = x
    BY Generates
  <2> HIDE DEF f
  <2> QED
    BY <2>1, <2>2 DEF Surjection
<1>3. f[m] = f[n]
  OBVIOUS
<1> HIDE DEF f
<1>4. f \in Injection(Units, Units)
  BY <1>1, <1>2, FS_SurjSameCardinalityImpliesInj
<1> QED
  BY <1>3, <1>4 DEF Injection, IsInjective

(* The last of them is 1.                                                  *)
LEMMA GeneratorOrder == Power(Generator, P - 1) = 1
<1>1. PICK m \in Units : Power(Generator, m) = 1
  BY Generates, UnitsType
<1>2. CASE m = P - 1
  BY <1>1, <1>2
<1>3. CASE m # P - 1
  <2>1. m \in Nat /\ m + 1 \in Units /\ m + 1 # 1
    BY <1>3, Order DEF Units
  <2>2. Power(Generator, m + 1) = Mul(1, Generator)
    BY <1>1, <2>1, Generates, PowerDef
  <2>3. Power(Generator, m + 1) = Power(Generator, 1)
    BY <2>2, Generates, PowerTrivial, MulLaws
  <2> QED
    BY <2>1, <2>3, UnitsType, GeneratorInjective
<1> QED
  BY <1>2, <1>3

(* Fermat's little theorem.                                                *)
LEMMA Fermat ==
  ASSUME NEW x \in Units
  PROVE  Power(x, P - 1) = 1
<1>1. PICK n \in Units : x = Power(Generator, n)
  BY Generates
<1>2. n \in Nat /\ P - 1 \in Nat
  BY Order DEF Units
<1>3. Power(x, P - 1) = Power(Generator, n * (P - 1))
  BY <1>1, <1>2, Generates, PowerOfPower
<1>4. Power(Generator, (P - 1) * n) = Power(Power(Generator, P - 1), n)
  BY <1>2, Generates, PowerOfPower
<1>5. n * (P - 1) = (P - 1) * n
  BY <1>2
<1> QED
  BY <1>2, <1>3, <1>4, <1>5, GeneratorOrder, PowerTrivial, Order

(* TryInverse finds the inverse of a unit, which is a unit.                *)
LEMMA InverseOfUnit ==
  ASSUME NEW x \in Units
  PROVE  TryInverse(x) \in Units /\ Mul(x, TryInverse(x)) = 1
<1> DEFINE y == TryInverse(x)
<1>1. x \in Field /\ P - 2 \in Nat /\ (P - 2) + 1 = P - 1
  BY Order, UnitsType
<1>2. y \in Field /\ Mul(y, x) = 1
  BY <1>1, Fermat, PowerDef DEF TryInverse
<1> HIDE DEF y
<1>3. Mul(x, y) = 1
  BY <1>1, <1>2, MulLaws
<1>4. y # 0
  <2> SUFFICES ASSUME y = 0
               PROVE  FALSE
    OBVIOUS
  <2>1. Mul(x, 0) = 0
    BY <1>1, MulLaws
  <2> QED
    BY <1>3, <2>1
<1> QED
  BY <1>2, <1>3, <1>4, UnitsType DEF y

(* A factor other than 0 can be cancelled.                                 *)
LEMMA Cancel ==
  ASSUME NEW x \in Units, NEW y \in Field, NEW z \in Field, Mul(x, y) = Mul(x, z)
  PROVE  y = z
<1> DEFINE v == TryInverse(x)
<1>1. v \in Field /\ x \in Field /\ Mul(x, v) = 1
  BY InverseOfUnit, UnitsType
<1> HIDE DEF v
<1>2. Mul(v, x) = 1
  BY <1>1, MulLaws
<1>3. Mul(v, Mul(x, y)) = y
  <2>1. Mul(Mul(v, x), y) = Mul(v, Mul(x, y))
    BY <1>1, MulLaws
  <2> QED
    BY <1>2, <2>1, MulLaws
<1>4. Mul(v, Mul(x, z)) = z
  <2>1. Mul(Mul(v, x), z) = Mul(v, Mul(x, z))
    BY <1>1, MulLaws
  <2> QED
    BY <1>2, <2>1, MulLaws
<1> QED
  BY <1>3, <1>4

(* A product is 0 only if a factor is.                                     *)
LEMMA NoZeroDivisors ==
  ASSUME NEW x \in Field, NEW y \in Field, Mul(x, y) = 0, x # 0
  PROVE  y = 0
<1>1. Mul(x, 0) = 0 /\ 0 \in Field /\ x \in Units
  BY Order, MulLaws, UnitsType
<1> QED
  BY <1>1, Cancel

-----------------------------------------------------------------------------
(***************************************************************************)
(* Roots of unity.                                                         *)
(***************************************************************************)
PrimitiveRoot(w, n) ==
  /\ w \in Units
  /\ Power(w, n) = 1
  /\ \A d \in 1..(n - 1) : Power(w, d) # 1

(* 2^k divides P - 1 up to the two-adicity.                                *)
LEMMA TwoAdic ==
  ASSUME NEW k \in Nat, k <= TWO_ADICITY
  PROVE  \E q \in Nat : P - 1 = 2^k * q /\ (P - 1) \div 2^k = q
<1> DEFINE t == TWO_ADICITY
           a == 2^k
           b == 2^(t - k)
           c == (P - 1) \div 2^t
<1>1. t \in Nat /\ t - k \in Nat /\ k + (t - k) = t
  BY FieldAssumption
<1>2. 2^t = a * b /\ a \in Nat /\ b \in Nat /\ a > 0 /\ b > 0 /\ 2^t \in Nat /\ 2^t > 0
  BY <1>1, TwoToThe, TwoToTheSum
<1>3. (P - 1) % 2^t = 0 /\ P - 1 \in Nat
  BY FieldAssumption, Order
<1> DEFINE e == 2^t
<1>4. e \in Nat /\ e > 0 /\ e = a * b /\ (P - 1) % e = 0 /\ c = (P - 1) \div e
  BY <1>2, <1>3
<1> HIDE DEF t, a, b, c, e
<1>5. c \in Nat /\ P - 1 = e * c
  BY <1>3, <1>4
<1>6. b * c \in Nat /\ P - 1 = a * (b * c)
  BY <1>2, <1>4, <1>5
<1>7. ASSUME NEW q \in Nat, P - 1 = a * q
      PROVE  (P - 1) \div a = q
  BY <1>2, <1>7
<1> QED
  BY <1>6, <1>7 DEF a

(* TwoAdicGenerator(k) is a primitive root of unity of order 2^k.          *)
LEMMA TwoAdicGeneratorIsPrimitive ==
  ASSUME NEW k \in Nat, k <= TWO_ADICITY
  PROVE  PrimitiveRoot(TwoAdicGenerator(k), 2^k)
<1> DEFINE w == TwoAdicGenerator(k)
           n == 2^k
<1>1. PICK q \in Nat : P - 1 = n * q /\ (P - 1) \div n = q
  BY TwoAdic
<1>2. n \in Nat /\ n > 0
  BY TwoToThe
<1>3. w = Power(Generator, q)
  BY <1>1 DEF TwoAdicGenerator
<1> HIDE DEF w, n
<1>4. q \in Units
  <2>1. q > 0 /\ q <= n * q
    <3>1. P - 1 > 0
      BY Order
    <3> QED
      BY <1>1, <1>2, <3>1
  <2> QED
    BY <1>1, <2>1 DEF Units
<1>5. w \in Units
  BY <1>3, <1>4, Generates
<1>6. \A d \in Nat : Power(w, d) = Power(Generator, q * d)
  BY <1>3, Generates, PowerOfPower
<1>7. Power(w, n) = 1
  <2>1. q * n = P - 1
    BY <1>1, <1>2
  <2> QED
    BY <1>2, <1>6, <2>1, GeneratorOrder
<1>8. ASSUME NEW d \in 1..(n - 1), Power(w, d) = 1
      PROVE  FALSE
  <2>1. d \in Nat /\ 1 <= d /\ d < n
    BY <1>2
  <2>2. q * d \in Nat /\ 1 <= q * d /\ q * d < P - 1
    <3>1. q \in Nat /\ 1 <= q
      BY <1>4 DEF Units
    <3>2. q * d < q * n
      BY <1>2, <2>1, <3>1
    <3>3. q * d >= q
      BY <2>1, <3>1
    <3> QED
      BY <1>1, <1>2, <2>1, <3>1, <3>2, <3>3
  <2>3. q * d \in Units /\ P - 1 \in Units
    BY <2>2, UnitsType DEF Units
  <2>4. Power(Generator, q * d) = Power(Generator, P - 1)
    BY <1>6, <1>8, <2>1, GeneratorOrder
  <2> QED
    BY <2>2, <2>3, <2>4, GeneratorInjective
<1> QED
  BY <1>5, <1>7, <1>8 DEF PrimitiveRoot, w, n

(* x^n y^n = 1 if xy = 1.                                                  *)
LEMMA PowersOfInverses ==
  ASSUME NEW x \in Field, NEW y \in Field, Mul(x, y) = 1, NEW n \in Nat
  PROVE  Mul(Power(x, n), Power(y, n)) = 1
BY PowerOfProduct, PowerTrivial, Order

(* The inverse of a primitive root is one.                                 *)
LEMMA InverseIsPrimitive ==
  ASSUME NEW n \in Nat, NEW w, PrimitiveRoot(w, n)
  PROVE  PrimitiveRoot(TryInverse(w), n)
<1> DEFINE v == TryInverse(w)
<1>1. w \in Units /\ w \in Field /\ Power(w, n) = 1 /\ \A d \in 1..(n - 1) : Power(w, d) # 1
  BY UnitsType DEF PrimitiveRoot
<1>2. v \in Units /\ v \in Field /\ Mul(w, v) = 1
  BY <1>1, InverseOfUnit, UnitsType
<1> HIDE DEF v
<1>3. \A d \in Nat : Power(w, d) \in Field /\ Power(v, d) \in Field /\ Mul(Power(w, d), Power(v, d)) = 1
  BY <1>1, <1>2, PowersOfInverses, PowerDef
<1>4. Power(v, n) = 1
  BY <1>1, <1>3, MulLaws
<1>5. ASSUME NEW d \in 1..(n - 1), Power(v, d) = 1
      PROVE  FALSE
  <2>1. d \in Nat
    OBVIOUS
  <2>2. Power(w, d) = 1
    BY <1>3, <1>5, <2>1, MulLaws
  <2> QED
    BY <1>1, <2>2
<1> QED
  BY <1>2, <1>4, <1>5 DEF PrimitiveRoot, v

(* The square of a primitive root has half the order.                      *)
LEMMA SquareIsPrimitive ==
  ASSUME NEW m \in Nat, m > 0, NEW w, PrimitiveRoot(w, 2 * m)
  PROVE  PrimitiveRoot(Mul(w, w), m)
<1>1. w \in Units /\ w \in Field /\ Power(w, 2 * m) = 1
      /\ \A d \in 1..(2 * m - 1) : Power(w, d) # 1
  BY UnitsType DEF PrimitiveRoot
<1>2. ASSUME NEW d \in Nat
      PROVE  Power(Mul(w, w), d) = Power(w, 2 * d)
  <2>1. Power(Mul(w, w), d) = Mul(Power(w, d), Power(w, d))
    BY <1>1, PowerOfProduct
  <2>2. Power(w, d + d) = Mul(Power(w, d), Power(w, d))
    BY <1>1, PowerAdd
  <2>3. d + d = 2 * d
    OBVIOUS
  <2> QED
    BY <2>1, <2>2, <2>3
<1>3. Mul(w, w) \in Field /\ Mul(w, w) # 0
  <2>1. w # 0
    BY <1>1, UnitsType
  <2> QED
    BY <1>1, <2>1, Closed, NoZeroDivisors
<1>4. ASSUME NEW d \in 1..(m - 1)
      PROVE  Power(Mul(w, w), d) # 1
  <2>1. d \in Nat /\ 2 * d \in 1..(2 * m - 1)
    OBVIOUS
  <2> QED
    BY <1>1, <1>2, <2>1
<1> QED
  BY <1>1, <1>2, <1>3, <1>4, UnitsType DEF PrimitiveRoot

(* Half way round, a primitive root of even order is at -1.                *)
LEMMA HalfWay ==
  ASSUME NEW m \in Nat, m > 0, NEW w, PrimitiveRoot(w, 2 * m)
  PROVE  Power(w, m) = Neg(1)
<1> DEFINE h == Power(w, m)
           s == Sub(h, 1)
           t == Add(h, 1)
<1>1. w \in Field /\ Power(w, 2 * m) = 1 /\ Power(w, m) # 1
  <2>1. m \in 1..(2 * m - 1)
    OBVIOUS
  <2> QED
    BY <2>1, UnitsType DEF PrimitiveRoot
<1>2. h \in Field /\ h # 1 /\ Mul(h, h) = 1
  <2>1. m + m = 2 * m
    OBVIOUS
  <2> QED
    BY <1>1, <2>1, PowerDef, PowerAdd
<1> HIDE DEF h
<1>3. 1 \in Field /\ 0 \in Field /\ Neg(1) \in Field /\ s = Add(h, Neg(1)) /\ Add(1, Neg(1)) = 0
  BY <1>2, Order, NegLaws
<1>4. s \in Field /\ t \in Field
  BY <1>2, <1>3, Closed
<1>5. Mul(s, t) = 0
  <2> DEFINE g == Neg(1)
             gh == Mul(g, h)
  <2>1. gh \in Field /\ gh = Neg(h) /\ Add(h, Neg(h)) = 0 /\ Neg(h) \in Field
    BY <1>2, <1>3, NegLaws, MulLaws, Closed
  <2>2. Mul(s, t) = Add(Mul(s, h), Mul(s, 1))
    BY <1>2, <1>3, <1>4, Distributes
  <2>3. Mul(s, 1) = s
    BY <1>4, <1>3, MulLaws
  <2>4. Mul(s, h) = Add(Mul(h, h), gh)
    BY <1>2, <1>3, Distributes
  <2>5. Mul(s, t) = Add(Add(1, gh), Add(h, g))
    BY <1>2, <1>3, <2>2, <2>3, <2>4
  <2>6. Add(Add(1, gh), Add(h, g)) = Add(Add(1, gh), Add(g, h))
    BY <1>2, <1>3, AddLaws
  <2>7. Add(Add(1, gh), Add(g, h)) = Add(Add(1, g), Add(gh, h))
    BY <1>2, <1>3, <2>1, AddSwap
  <2>8. Add(gh, h) = 0
    BY <1>2, <2>1, AddLaws
  <2>9. Add(0, 0) = 0
    BY <1>3, AddLaws
  <2> QED
    BY <1>3, <2>5, <2>6, <2>7, <2>8, <2>9
<1>6. s # 0
  <2> SUFFICES ASSUME s = 0
               PROVE  FALSE
    OBVIOUS
  <2>1. Add(Add(h, Neg(1)), 1) = 1
    BY <1>3, AddLaws
  <2>2. Add(Add(h, Neg(1)), 1) = Add(h, Add(Neg(1), 1))
    BY <1>2, <1>3, AddLaws
  <2>3. Add(Neg(1), 1) = 0
    BY <1>3, AddLaws
  <2>4. Add(h, 0) = h
    BY <1>2, <1>3, AddLaws
  <2> QED
    BY <1>2, <2>1, <2>2, <2>3, <2>4
<1>7. t = 0
  BY <1>4, <1>5, <1>6, NoZeroDivisors
<1>8. Add(t, Neg(1)) = h
  <2>1. Add(Add(h, 1), Neg(1)) = Add(h, Add(1, Neg(1)))
    BY <1>2, <1>3, AddLaws
  <2>2. Add(h, 0) = h
    BY <1>2, <1>3, AddLaws
  <2> QED
    BY <1>3, <2>1, <2>2
<1>9. Add(0, Neg(1)) = Neg(1)
  BY <1>3, AddLaws
<1> QED
  BY <1>7, <1>8, <1>9 DEF h

-----------------------------------------------------------------------------
(***************************************************************************)
(* Finite sums of field elements: Sum(F, n) is F[0] + ... + F[n - 1].      *)
(***************************************************************************)
Terms == [Nat -> Field]

Sum(F, n) ==
  (CHOOSE f : Recurs(f, Field, 0, [a \in Nat \X Field |-> Add(a[2], F[a[1]])]))[n]

(* The recursion of Sum, as it is used from here on.                       *)
LEMMA SumDef ==
  ASSUME NEW F \in Terms, NEW n \in Nat
  PROVE  /\ Sum(F, n) \in Field
         /\ Sum(F, 0) = 0
         /\ Sum(F, n + 1) = Add(Sum(F, n), F[n])
<1> DEFINE G == [a \in Nat \X Field |-> Add(a[2], F[a[1]])]
           f == CHOOSE f : Recurs(f, Field, 0, G)
<1>1. G \in [Nat \X Field -> Field]
  BY Closed DEF Terms
<1>2. \A m \in Nat, v \in Field : G[<<m, v>>] = Add(v, F[m])
  OBVIOUS
<1>3. 0 \in Field
  BY Order
<1>4. \A m \in Nat : Sum(F, m) = f[m]
  BY DEF Sum
<1> HIDE DEF G
<1>5. Recurs(f, Field, 0, G)
  BY <1>1, <1>3, RecursionExists, Zenon
<1> HIDE DEF f
<1>6. f \in [Nat -> Field] /\ f[0] = 0 /\ f[n + 1] = G[<<n, f[n]>>]
  BY <1>5 DEF Recurs
<1>7. f[n] \in Field
  BY <1>6
<1>8. f[n + 1] = Add(f[n], F[n])
  BY <1>2, <1>6, <1>7
<1> QED
  BY <1>4, <1>6, <1>7, <1>8

(* Sums of the same terms are equal.                                       *)
LEMMA SumCong ==
  ASSUME NEW F \in Terms, NEW G \in Terms, NEW n \in Nat, \A i \in 0..(n - 1) : F[i] = G[i]
  PROVE  Sum(F, n) = Sum(G, n)
<1> DEFINE S == {m \in Nat : m <= n => Sum(F, m) = Sum(G, m)}
<1>1. 0 \in S
  BY SumDef
<1>2. ASSUME NEW m \in Nat, m \in S
      PROVE  m + 1 \in S
  <2> SUFFICES ASSUME m + 1 <= n
               PROVE  Sum(F, m + 1) = Sum(G, m + 1)
    OBVIOUS
  <2>1. m \in 0..(n - 1) /\ m <= n
    OBVIOUS
  <2> QED
    BY <1>2, <2>1, SumDef
<1> HIDE DEF S
<1>3. Nat \subseteq S
  BY <1>1, <1>2, NatInduct
<1> QED
  BY <1>3 DEF S

(* The sum of sums.                                                        *)
LEMMA SumAdd ==
  ASSUME NEW F \in Terms, NEW G \in Terms, NEW H \in Terms, NEW n \in Nat,
         \A i \in Nat : H[i] = Add(F[i], G[i])
  PROVE  Sum(H, n) = Add(Sum(F, n), Sum(G, n))
<1> DEFINE S == {m \in Nat : Sum(H, m) = Add(Sum(F, m), Sum(G, m))}
<1>1. 0 \in S
  BY SumDef, Order, AddLaws
<1>2. ASSUME NEW m \in Nat, m \in S
      PROVE  m + 1 \in S
  <2>1. /\ Sum(F, m) \in Field /\ Sum(G, m) \in Field /\ F[m] \in Field /\ G[m] \in Field
        /\ Sum(F, m + 1) = Add(Sum(F, m), F[m])
        /\ Sum(G, m + 1) = Add(Sum(G, m), G[m])
        /\ Sum(H, m + 1) = Add(Sum(H, m), H[m])
    BY SumDef DEF Terms
  <2> QED
    BY <1>2, <2>1, AddSwap
<1> HIDE DEF S
<1>3. Nat \subseteq S
  BY <1>1, <1>2, NatInduct
<1> QED
  BY <1>3 DEF S

(* A common factor.                                                        *)
LEMMA SumMul ==
  ASSUME NEW c \in Field, NEW F \in Terms, NEW H \in Terms, NEW n \in Nat,
         \A i \in Nat : H[i] = Mul(c, F[i])
  PROVE  Sum(H, n) = Mul(c, Sum(F, n))
<1> DEFINE S == {m \in Nat : Sum(H, m) = Mul(c, Sum(F, m))}
<1>1. 0 \in S
  BY SumDef, Order, MulLaws
<1>2. ASSUME NEW m \in Nat, m \in S
      PROVE  m + 1 \in S
  <2>1. /\ Sum(F, m) \in Field /\ F[m] \in Field
        /\ Sum(F, m + 1) = Add(Sum(F, m), F[m])
        /\ Sum(H, m + 1) = Add(Sum(H, m), H[m])
    BY SumDef DEF Terms
  <2> QED
    BY <1>2, <2>1, Distributes
<1> HIDE DEF S
<1>3. Nat \subseteq S
  BY <1>1, <1>2, NatInduct
<1> QED
  BY <1>3 DEF S

(* The terms with an even index and those with an odd one.                 *)
LEMMA SumSplit ==
  ASSUME NEW F \in Terms, NEW A \in Terms, NEW B \in Terms, NEW n \in Nat,
         \A i \in Nat : A[i] = F[2 * i] /\ B[i] = F[2 * i + 1]
  PROVE  Sum(F, 2 * n) = Add(Sum(A, n), Sum(B, n))
<1> DEFINE S == {m \in Nat : Sum(F, 2 * m) = Add(Sum(A, m), Sum(B, m))}
<1>1. 0 \in S
  <2>1. 2 * 0 = 0
    OBVIOUS
  <2> QED
    BY <2>1, SumDef, Order, AddLaws
<1>2. ASSUME NEW m \in Nat, m \in S
      PROVE  m + 1 \in S
  <2> DEFINE a == Sum(A, m)
             b == Sum(B, m)
             x == F[2 * m]
             y == F[2 * m + 1]
  <2>1. /\ a \in Field /\ b \in Field
        /\ Sum(A, m + 1) = Add(a, x)
        /\ Sum(B, m + 1) = Add(b, y)
    BY SumDef
  <2>2. 2 * m \in Nat /\ 2 * m + 1 \in Nat /\ 2 * (m + 1) = (2 * m + 1) + 1
    OBVIOUS
  <2>3. x \in Field /\ y \in Field
    BY <2>2 DEF Terms
  <2>4. Sum(F, 2 * (m + 1)) = Add(Add(Sum(F, 2 * m), x), y)
    BY <2>2, SumDef
  <2>5. Sum(F, 2 * m) = Add(a, b)
    BY <1>2
  <2> HIDE DEF a, b, x, y
  <2>6. Add(Add(Add(a, b), x), y) = Add(Add(a, b), Add(x, y))
    BY <2>1, <2>3, Closed, AddLaws
  <2>7. Add(Add(a, b), Add(x, y)) = Add(Add(a, x), Add(b, y))
    BY <2>1, <2>3, AddSwap
  <2> QED
    BY <2>1, <2>4, <2>5, <2>6, <2>7
<1> HIDE DEF S
<1>3. Nat \subseteq S
  BY <1>1, <1>2, NatInduct
<1> QED
  BY <1>3 DEF S

(* A sum of zeros.                                                         *)
LEMMA SumZero ==
  ASSUME NEW F \in Terms, NEW n \in Nat, \A i \in 0..(n - 1) : F[i] = 0
  PROVE  Sum(F, n) = 0
<1> DEFINE S == {m \in Nat : m <= n => Sum(F, m) = 0}
<1>1. 0 \in S
  BY SumDef
<1>2. ASSUME NEW m \in Nat, m \in S
      PROVE  m + 1 \in S
  <2> SUFFICES ASSUME m + 1 <= n
               PROVE  Sum(F, m + 1) = 0
    OBVIOUS
  <2>1. F[m] = 0 /\ Sum(F, m) = 0
    BY <1>2
  <2> QED
    BY <2>1, SumDef, Order, AddLaws
<1> HIDE DEF S
<1>3. Nat \subseteq S
  BY <1>1, <1>2, NatInduct
<1> QED
  BY <1>3 DEF S

(* A sum with one term that may differ from 0.                             *)
LEMMA SumSingle ==
  ASSUME NEW F \in Terms, NEW n \in Nat, NEW k \in 0..(n - 1),
         \A i \in 0..(n - 1) : i # k => F[i] = 0
  PROVE  Sum(F, n) = F[k]
<1> DEFINE S == {m \in Nat : m <= n => Sum(F, m) = IF k < m THEN F[k] ELSE 0}
<1>1. 0 \in S
  BY SumDef
<1>2. ASSUME NEW m \in Nat, m \in S
      PROVE  m + 1 \in S
  <2> SUFFICES ASSUME m + 1 <= n
               PROVE  Sum(F, m + 1) = IF k < m + 1 THEN F[k] ELSE 0
    OBVIOUS
  <2>1. Sum(F, m) = (IF k < m THEN F[k] ELSE 0) /\ m \in 0..(n - 1)
    BY <1>2
  <2>2. Sum(F, m + 1) = Add(Sum(F, m), F[m]) /\ F[k] \in Field /\ F[m] \in Field
    BY SumDef DEF Terms
  <2>3. 0 \in Field /\ Add(0, 0) = 0 /\ Add(0, F[k]) = F[k] /\ Add(F[k], 0) = F[k]
    BY <2>2, Order, AddLaws
  <2>4. CASE m < k
    <3>1. F[m] = 0 /\ Sum(F, m) = 0 /\ ~ (k < m + 1)
      BY <2>1, <2>4
    <3> QED
      BY <2>2, <2>3, <3>1
  <2>5. CASE m = k
    <3>1. Sum(F, m) = 0 /\ k < m + 1
      BY <2>1, <2>5
    <3> QED
      BY <2>2, <2>3, <2>5, <3>1
  <2>6. CASE k < m
    <3>1. F[m] = 0 /\ Sum(F, m) = F[k] /\ k < m + 1
      BY <2>1, <2>6
    <3> QED
      BY <2>2, <2>3, <3>1
  <2> QED
    BY <2>4, <2>5, <2>6
<1> HIDE DEF S
<1>3. Nat \subseteq S
  BY <1>1, <1>2, NatInduct
<1> QED
  BY <1>3 DEF S

(* The first term apart from the others.                                   *)
LEMMA SumFirst ==
  ASSUME NEW F \in Terms, NEW G \in Terms, NEW n \in Nat, \A i \in Nat : G[i] = F[i + 1]
  PROVE  Sum(F, n + 1) = Add(F[0], Sum(G, n))
<1> DEFINE S == {m \in Nat : Sum(F, m + 1) = Add(F[0], Sum(G, m))}
<1>1. 0 \in S
  <2>1. Sum(F, 0 + 1) = Add(Sum(F, 0), F[0])
    BY SumDef
  <2>2. Add(0, F[0]) = F[0] /\ Add(F[0], 0) = F[0]
    BY AddLaws DEF Terms
  <2> QED
    BY <2>1, <2>2, SumDef
<1>2. ASSUME NEW m \in Nat, m \in S
      PROVE  m + 1 \in S
  <2>1. Sum(F, (m + 1) + 1) = Add(Sum(F, m + 1), F[m + 1])
    BY SumDef
  <2>2. Sum(G, m + 1) = Add(Sum(G, m), F[m + 1])
    BY SumDef
  <2>3. Add(Add(F[0], Sum(G, m)), F[m + 1]) = Add(F[0], Add(Sum(G, m), F[m + 1]))
    <3>1. F[0] \in Field /\ F[m + 1] \in Field /\ Sum(G, m) \in Field
      BY SumDef DEF Terms
    <3> QED
      BY <3>1, AddLaws
  <2> QED
    BY <1>2, <2>1, <2>2, <2>3
<1> HIDE DEF S
<1>3. Nat \subseteq S
  BY <1>1, <1>2, NatInduct
<1> QED
  BY <1>3 DEF S

\* D has the columns of F for its rows; R adds up the first n of each row of F.
Transposed(D, F) == \A i, j \in Nat : D[j][i] = F[i][j]
SumsOf(R, F, n) == \A i \in Nat : R[i] = Sum(F[i], n)

(* A double sum, by rows and by columns.                                   *)
LEMMA SumExchange ==
  ASSUME NEW F \in [Nat -> Terms], NEW R \in Terms, NEW C \in Terms, NEW D \in [Nat -> Terms],
         NEW m \in Nat, NEW n \in Nat,
         Transposed(D, F), SumsOf(R, F, n), SumsOf(C, D, m)
  PROVE  Sum(R, m) = Sum(C, n)
<1>0. /\ \A i, j \in Nat : D[j][i] = F[i][j]
      /\ \A i \in Nat : R[i] = Sum(F[i], n)
      /\ \A j \in Nat : C[j] = Sum(D[j], m)
  BY DEF Transposed, SumsOf
<1> DEFINE Column(k) == [j \in Nat |-> Sum(D[j], k)]
           S == {k \in Nat : Sum(R, k) = Sum(Column(k), n)}
<1>1. \A k \in Nat : Column(k) \in Terms
  BY SumDef DEF Terms
<1>2. 0 \in S
  <2>1. \A i \in 0..(n - 1) : Column(0)[i] = 0
    BY SumDef
  <2>2. Sum(Column(0), n) = 0
    <3>1. Column(0) \in Terms
      BY <1>1
    <3> HIDE DEF Column
    <3> QED
      BY <2>1, <3>1, SumZero
  <2> QED
    BY <2>2, SumDef
<1>3. ASSUME NEW k \in Nat, k \in S
      PROVE  k + 1 \in S
  <2>1. Sum(R, k + 1) = Add(Sum(R, k), Sum(F[k], n))
    BY <1>0, SumDef
  <2>2. F[k] \in Terms /\ Column(k) \in Terms /\ Column(k + 1) \in Terms
    <3>1. k + 1 \in Nat
      OBVIOUS
    <3> HIDE DEF Column
    <3> QED
      BY <1>1, <3>1
  <2>3. \A j \in Nat : Column(k + 1)[j] = Add(Column(k)[j], F[k][j])
    BY <1>0, SumDef
  <2>4. Sum(Column(k + 1), n) = Add(Sum(Column(k), n), Sum(F[k], n))
    <3> HIDE DEF Column
    <3> QED
      BY <2>2, <2>3, SumAdd
  <2> QED
    BY <1>3, <2>1, <2>4
<1>4. Nat \subseteq S
  <2> HIDE DEF S
  <2> QED
    BY <1>2, <1>3, NatInduct
<1>5. Sum(R, m) = Sum(Column(m), n)
  BY <1>4
<1>6. Column(m) = C
  BY <1>0 DEF Terms
<1> QED
  BY <1>5, <1>6

(* A sum of n ones is n.                                                   *)
LEMMA SumOnes ==
  ASSUME NEW F \in Terms, NEW n \in Nat, \A i \in 0..(n - 1) : F[i] = 1
  PROVE  Sum(F, n) = FromU64(n)
<1> DEFINE S == {k \in Nat : k <= n => Sum(F, k) = k % P}
<1>1. 0 \in S
  BY SumDef, RemainderOfElement, Order
<1>2. ASSUME NEW k \in Nat, k \in S
      PROVE  k + 1 \in S
  <2> SUFFICES ASSUME k + 1 <= n
               PROVE  Sum(F, k + 1) = (k + 1) % P
    OBVIOUS
  <2>1. Sum(F, k) = k % P /\ F[k] = 1
    BY <1>2
  <2>2. Sum(F, k + 1) = Add(k % P, 1)
    BY <2>1, SumDef
  <2>3. ((k % P) + 1) % P = (k + 1) % P
    BY RemainderOfSum
  <2> QED
    BY <2>2, <2>3 DEF Add
<1>3. Nat \subseteq S
  <2> HIDE DEF S
  <2> QED
    BY <1>1, <1>2, NatInduct
<1> QED
  BY <1>3 DEF FromU64

(* Equal summands cancel.                                                  *)
LEMMA AddCancel ==
  ASSUME NEW x \in Field, NEW y \in Field, NEW z \in Field, Add(x, y) = Add(x, z)
  PROVE  y = z
<1> DEFINE m == Neg(x)
<1>1. m \in Field /\ Add(x, m) = 0
  BY NegLaws
<1> HIDE DEF m
<1>2. Add(m, x) = 0
  BY <1>1, AddLaws
<1>3. Add(m, Add(x, y)) = y /\ Add(m, Add(x, z)) = z
  <2>1. Add(Add(m, x), y) = Add(m, Add(x, y)) /\ Add(Add(m, x), z) = Add(m, Add(x, z))
    BY <1>1, AddLaws
  <2>2. Add(0, y) = y /\ Add(0, z) = z
    BY AddLaws
  <2> QED
    BY <1>2, <2>1, <2>2
<1> QED
  BY <1>3

(* The powers of a root of unity other than 1 add up to 0.                 *)
LEMMA Geometric ==
  ASSUME NEW u \in Field, u # 1, NEW n \in Nat, Power(u, n) = 1,
         NEW F \in Terms, \A i \in Nat : F[i] = Power(u, i)
  PROVE  Sum(F, n) = 0
<1> DEFINE G == [i \in Nat |-> F[i + 1]]
           s == Sum(F, n)
<1>1. G \in Terms /\ \A i \in Nat : G[i] = F[i + 1]
  BY DEF Terms
<1>2. \A i \in Nat : G[i] = Mul(u, F[i])
  <2> SUFFICES ASSUME NEW i \in Nat
               PROVE  G[i] = Mul(u, F[i])
    OBVIOUS
  <2>1. G[i] = Mul(Power(u, i), u) /\ Power(u, i) \in Field
    BY <1>1, PowerDef
  <2> QED
    BY <2>1, MulLaws
<1> HIDE DEF G
<1>3. Sum(G, n) = Mul(u, s)
  BY <1>1, <1>2, SumMul
<1>4. Sum(F, n + 1) = Add(F[0], Mul(u, s))
  BY <1>1, <1>3, SumFirst
<1>5. Sum(F, n + 1) = Add(s, F[n]) /\ s \in Field
  BY SumDef
<1>6. F[0] = 1 /\ F[n] = 1
  BY PowerDef
<1> HIDE DEF s
<1>7. 1 \in Field /\ Mul(u, s) \in Field /\ Add(s, 1) = Add(1, s)
  BY <1>5, Order, Closed, AddLaws
<1>8. Mul(u, s) = s
  BY <1>4, <1>5, <1>6, <1>7, AddCancel
<1>9. CASE s # 0
  <2>1. s \in Units
    BY <1>5, <1>9, UnitsType
  <2>2. Mul(s, u) = Mul(s, 1)
    BY <1>5, <1>7, <1>8, MulLaws
  <2> QED
    BY <1>7, <2>1, <2>2, Cancel
<1> QED
  BY <1>9 DEF s

(* A sum over one period is the same from wherever it starts.              *)
LEMMA SumShift ==
  ASSUME NEW F \in Terms, NEW G \in Terms, NEW n \in Nat, F[n] = F[0],
         \A i \in Nat : G[i] = F[i + 1]
  PROVE  Sum(G, n) = Sum(F, n)
<1>1. Sum(F, n + 1) = Add(F[0], Sum(G, n))
  BY SumFirst
<1>2. Sum(F, n + 1) = Add(Sum(F, n), F[n])
  BY SumDef
<1>3. Sum(F, n) \in Field /\ Sum(G, n) \in Field /\ F[0] \in Field
  BY SumDef DEF Terms
<1>4. Add(Sum(F, n), F[0]) = Add(F[0], Sum(F, n))
  BY <1>3, AddLaws
<1> QED
  BY <1>1, <1>2, <1>3, <1>4, AddCancel

(* Remainders by a length.                                                 *)
LEMMA Modulo ==
  ASSUME NEW n \in Nat, n > 0, NEW x \in Int
  PROVE  /\ x % n \in 0..(n - 1)
         /\ (x + n) % n = x % n
         /\ x \in 0..(n - 1) => x % n = x
         /\ \E q \in Int : x = n * q + (x % n)
<1> DEFINE r == x % n
           q == x \div n
<1>1. 0 <= r /\ r <= n - 1 /\ r \in Int
  OBVIOUS
<1>2. q \in Int /\ x = n * q + r
  OBVIOUS
<1>3. \A a \in Int : \A b \in 0..(n - 1) : (n * a + b) % n = b
  OBVIOUS
<1> HIDE DEF r, q
<1>4. r \in 0..(n - 1) /\ \E a \in Int : x = n * a + r
  BY <1>1, <1>2
<1>5. (x + n) % n = r
  <2>1. x + n = n * (q + 1) + r /\ q + 1 \in Int
    BY <1>2, <1>4
  <2> QED
    BY <1>3, <1>4, <2>1
<1>6. x \in 0..(n - 1) => r = x
  <2>1. x = n * 0 + x
    OBVIOUS
  <2> QED
    BY <1>3, <2>1 DEF r
<1> QED
  BY <1>4, <1>5, <1>6 DEF r

(* A sum over remainders is the same from wherever it starts.              *)
LEMMA SumRotate ==
  ASSUME NEW F \in Terms, NEW n \in Nat, n > 0, NEW s \in Nat, NEW H \in Terms,
         \A i \in Nat : H[i] = F[(i + s) % n]
  PROVE  Sum(H, n) = Sum(F, n)
<1> DEFINE R(t) == [i \in Nat |-> F[(i + t) % n]]
           S == {t \in Nat : Sum(R(t), n) = Sum(F, n)}
<1>1. \A x \in Nat : x % n \in Nat
  BY Modulo
<1>2. ASSUME NEW t \in Nat
      PROVE  R(t) \in Terms
  <2>1. \A i \in Nat : (i + t) % n \in Nat
    BY <1>1
  <2> QED
    BY <2>1 DEF Terms
<1>3. 0 \in S
  <2>1. \A i \in 0..(n - 1) : R(0)[i] = F[i]
    BY Modulo
  <2>2. R(0) \in Terms
    BY <1>2
  <2> HIDE DEF R
  <2> QED
    BY <2>1, <2>2, SumCong
<1>4. ASSUME NEW t \in Nat, t \in S
      PROVE  t + 1 \in S
  <2>1. R(t)[n] = R(t)[0]
    <3>1. (t + n) % n = t % n /\ n + t = t + n /\ 0 + t = t
      BY Modulo
    <3> QED
      BY <3>1
  <2>2. \A i \in Nat : R(t + 1)[i] = R(t)[i + 1]
    <3>1. \A i \in Nat : i + (t + 1) = (i + 1) + t
      OBVIOUS
    <3> QED
      BY <3>1
  <2>3. R(t) \in Terms /\ R(t + 1) \in Terms
    <3>1. t + 1 \in Nat
      OBVIOUS
    <3> HIDE DEF R
    <3> QED
      BY <1>2, <3>1
  <2>4. Sum(R(t + 1), n) = Sum(R(t), n)
    <3> HIDE DEF R
    <3> QED
      BY <2>1, <2>2, <2>3, SumShift
  <2> QED
    BY <1>4, <2>4
<1>5. Nat \subseteq S
  <2> HIDE DEF S
  <2> QED
    BY <1>3, <1>4, NatInduct
<1>6. H = R(s)
  BY DEF Terms
<1> QED
  BY <1>5, <1>6

=============================================================================
