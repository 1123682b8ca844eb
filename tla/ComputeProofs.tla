--------------------------- MODULE ComputeProofs ---------------------------
(***************************************************************************)
(* What a buyer can rely on, for every prime field of u64s, every degree   *)
(* and all coefficients: the response is the transform of the request, its *)
(* inverse gives the coefficients back, products of spectra are            *)
(* convolutions, and a proof of execution belongs to one piece of work.    *)
(***************************************************************************)
EXTENDS ComputeProperties, NttProofs

-----------------------------------------------------------------------------
(***************************************************************************)
(* The words of a proof of execution.                                      *)
(***************************************************************************)

(* A number is made up of its low byte and the rest.                       *)
LEMMA Split ==
  ASSUME NEW x \in Nat
  PROVE  /\ x = (BYTE * Shr(x)) + (x % BYTE)
         /\ Shr(x) \in Nat
         /\ x % BYTE \in 0..(BYTE - 1)
BY DEF BYTE, Shr

(* Eight bytes determine a u64: to_le_bytes loses nothing.                 *)
LEMMA BytesDetermineWord ==
  ASSUME NEW x \in U64, NEW y \in U64, ToLeBytes(x) = ToLeBytes(y)
  PROVE  x = y
<1> DEFINE x1 == Shr(x) x2 == Shr(x1) x3 == Shr(x2) x4 == Shr(x3)
           x5 == Shr(x4) x6 == Shr(x5) x7 == Shr(x6) x8 == Shr(x7)
           y1 == Shr(y) y2 == Shr(y1) y3 == Shr(y2) y4 == Shr(y3)
           y5 == Shr(y4) y6 == Shr(y5) y7 == Shr(y6) y8 == Shr(y7)
<1>1. /\ x % BYTE = y % BYTE /\ x1 % BYTE = y1 % BYTE /\ x2 % BYTE = y2 % BYTE
      /\ x3 % BYTE = y3 % BYTE /\ x4 % BYTE = y4 % BYTE /\ x5 % BYTE = y5 % BYTE
      /\ x6 % BYTE = y6 % BYTE /\ x7 % BYTE = y7 % BYTE
  BY DEF ToLeBytes
<1>2. x \in Nat /\ y \in Nat /\ x8 = 0 /\ y8 = 0
  BY DEF U64
<1>3. x1 \in Nat /\ x2 \in Nat /\ x3 \in Nat /\ x4 \in Nat /\ x5 \in Nat /\ x6 \in Nat /\ x7 \in Nat
  BY <1>2, Split
<1>4. y1 \in Nat /\ y2 \in Nat /\ y3 \in Nat /\ y4 \in Nat /\ y5 \in Nat /\ y6 \in Nat /\ y7 \in Nat
  BY <1>2, Split
<1>5. ASSUME NEW a \in Nat, NEW b \in Nat, a % BYTE = b % BYTE, Shr(a) = Shr(b)
      PROVE  a = b
  BY <1>5, Split
<1> HIDE DEF x1, x2, x3, x4, x5, x6, x7, x8, y1, y2, y3, y4, y5, y6, y7, y8
<1>6. x7 = y7
  BY <1>1, <1>2, <1>3, <1>4, <1>5 DEF x8, y8
<1>7. x6 = y6
  BY <1>1, <1>3, <1>4, <1>5, <1>6 DEF x7, y7
<1>8. x5 = y5
  BY <1>1, <1>3, <1>4, <1>5, <1>7 DEF x6, y6
<1>9. x4 = y4
  BY <1>1, <1>3, <1>4, <1>5, <1>8 DEF x5, y5
<1>10. x3 = y3
  BY <1>1, <1>3, <1>4, <1>5, <1>9 DEF x4, y4
<1>11. x2 = y2
  BY <1>1, <1>3, <1>4, <1>5, <1>10 DEF x3, y3
<1>12. x1 = y1
  BY <1>1, <1>3, <1>4, <1>5, <1>11 DEF x2, y2
<1> QED
  BY <1>1, <1>2, <1>5, <1>12 DEF x1, y1

(* Intervals from 1 differ if their ends do.                               *)
LEMMA IntervalsDiffer ==
  ASSUME NEW m \in Nat, NEW n \in Nat, 1..m = 1..n
  PROVE  m = n
<1>1. m > 0 => m \in 1..n
  OBVIOUS
<1>2. n > 0 => n \in 1..m
  OBVIOUS
<1> QED
  BY <1>1, <1>2

(* The k-th byte of the j-th word stands where the widths put it.          *)
LEMMA WordAt ==
  ASSUME NEW output \in Seq(U64), NEW j \in 1..Len(output), NEW k \in 1..WORD
  PROVE  /\ WORD * (j - 1) + k \in 1..(WORD * Len(output))
         /\ Words(output)[WORD * (j - 1) + k] = ToLeBytes(output[j])[k]
<1> DEFINE i == WORD * (j - 1) + k
<1>1. Len(output) \in Nat
  OBVIOUS
<1>2. i \in 1..(WORD * Len(output))
  BY <1>1 DEF WORD
<1>3. (i - 1) \div WORD = j - 1 /\ (i - 1) % WORD = k - 1
  BY <1>1 DEF WORD
<1>4. ((i - 1) \div WORD) + 1 = j /\ ((i - 1) % WORD) + 1 = k
  BY <1>1, <1>3 DEF WORD
<1> HIDE DEF i
<1>5. Words(output)[i] = ToLeBytes(output[j])[k]
  BY <1>2, <1>4 DEF Words
<1> QED
  BY <1>2, <1>5 DEF i

(* The words of two outputs agree only if the outputs do.                  *)
LEMMA WordsDetermineOutput ==
  ASSUME NEW x \in Seq(U64), NEW y \in Seq(U64), Words(x) = Words(y)
  PROVE  x = y
<1>1. DOMAIN Words(x) = 1..(WORD * Len(x)) /\ DOMAIN Words(y) = 1..(WORD * Len(y))
  BY DEF Words
<1>2. Len(x) \in Nat /\ Len(y) \in Nat
  OBVIOUS
<1>3. Len(x) = Len(y)
  <2>1. 1..(WORD * Len(x)) = 1..(WORD * Len(y))
    BY <1>1
  <2>2. WORD * Len(x) \in Nat /\ WORD * Len(y) \in Nat
    BY <1>2 DEF WORD
  <2>3. WORD * Len(x) = WORD * Len(y)
    BY <2>1, <2>2, IntervalsDiffer
  <2> QED
    BY <1>2, <2>3 DEF WORD
<1>4. ASSUME NEW j \in 1..Len(x)
      PROVE  x[j] = y[j]
  <2>1. x[j] \in U64 /\ y[j] \in U64
    BY <1>3, <1>4
  <2>2. \A k \in 1..WORD : ToLeBytes(x[j])[k] = ToLeBytes(y[j])[k]
    BY <1>3, <1>4, WordAt
  <2>3. ToLeBytes(x[j]) = ToLeBytes(y[j])
    BY <2>2 DEF WORD, ToLeBytes
  <2> QED
    BY <2>1, <2>3, BytesDetermineWord
<1> QED
  BY <1>3, <1>4

-----------------------------------------------------------------------------
(***************************************************************************)
(* The hexadecimal form.                                                   *)
(***************************************************************************)
Bytes == 0..(BYTE - 1)

(* Byte sequences are equal if their elements are.                         *)
LEMMA SameBytes ==
  ASSUME NEW s \in Seq(Bytes), NEW t \in Seq(Bytes), Len(s) = Len(t),
         \A i \in 1..Len(s) : s[i] = t[i]
  PROVE  s = t
OBVIOUS

(* A byte is made up of two nibbles.                                       *)
LEMMA Nibbles ==
  ASSUME NEW b \in Bytes
  PROVE  /\ b \div 16 \in 0..15 /\ b % 16 \in 0..15
         /\ b = (16 * (b \div 16)) + (b % 16)
<1>1. b \in Nat /\ b <= 255
  BY DEF Bytes, BYTE
<1> QED
  BY <1>1

(* Distinct nibbles have distinct digits.                                  *)
LEMMA DigitsDetermineNibble ==
  ASSUME NEW m \in 0..15, NEW n \in 0..15, NibbleToHex(m) = NibbleToHex(n)
  PROVE  m = n
BY DEF NibbleToHex, HexDigits

(* Both digits of a byte are those of its halves.                          *)
LEMMA DigitsAt ==
  ASSUME NEW s \in Seq(Bytes), NEW i \in 1..Len(s)
  PROVE  /\ HexEncode(s)[2 * i - 1] = NibbleToHex(s[i] \div 16)
         /\ HexEncode(s)[2 * i] = NibbleToHex(s[i] % 16)
<1>1. Len(s) \in Nat /\ i \in Nat
  OBVIOUS
<1>2. 2 * i - 1 \in 1..(2 * Len(s)) /\ 2 * i \in 1..(2 * Len(s))
  BY <1>1
<1>3. ((2 * i - 1) + 1) \div 2 = i /\ (2 * i + 1) \div 2 = i
  BY <1>1
<1>4. (2 * i - 1) % 2 = 1 /\ (2 * i) % 2 = 0
  BY <1>1
<1> QED
  BY <1>2, <1>3, <1>4 DEF HexEncode

(* hex_encode loses nothing.                                               *)
LEMMA HexDeterminesBytes ==
  ASSUME NEW s \in Seq(Bytes), NEW t \in Seq(Bytes), HexEncode(s) = HexEncode(t)
  PROVE  s = t
<1>1. Len(s) \in Nat /\ Len(t) \in Nat
  OBVIOUS
<1>2. Len(s) = Len(t)
  <2>1. DOMAIN HexEncode(s) = 1..(2 * Len(s)) /\ DOMAIN HexEncode(t) = 1..(2 * Len(t))
    BY DEF HexEncode
  <2>2. 1..(2 * Len(s)) = 1..(2 * Len(t))
    BY <2>1
  <2> QED
    BY <1>1, <2>2, IntervalsDiffer
<1>3. ASSUME NEW i \in 1..Len(s)
      PROVE  s[i] = t[i]
  <2>1. s[i] \in Bytes /\ t[i] \in Bytes
    BY <1>2, <1>3
  <2>2. i \in 1..Len(t)
    BY <1>2
  <2>3. /\ NibbleToHex(s[i] \div 16) = NibbleToHex(t[i] \div 16)
        /\ NibbleToHex(s[i] % 16) = NibbleToHex(t[i] % 16)
    BY <2>2, DigitsAt
  <2>4. s[i] \div 16 = t[i] \div 16
    BY <2>1, <2>3, Nibbles, DigitsDetermineNibble
  <2>5. s[i] % 16 = t[i] % 16
    BY <2>1, <2>3, Nibbles, DigitsDetermineNibble
  <2>6. /\ s[i] = (16 * (s[i] \div 16)) + (s[i] % 16)
        /\ t[i] = (16 * (t[i] \div 16)) + (t[i] % 16)
    BY <2>1, Nibbles
  <2> QED
    BY <2>4, <2>5, <2>6
<1> QED
  BY <1>2, <1>3, SameBytes

-----------------------------------------------------------------------------
(* The length of a concatenation.                                          *)
LEMMA ConcatLength ==
  ASSUME NEW s \in Seq(Bytes), NEW t \in Seq(Bytes)
  PROVE  Len(s \o t) = Len(s) + Len(t)
BY ConcatProperties

(* The first part stays where it is.                                       *)
LEMMA HeadOfConcat ==
  ASSUME NEW s \in Seq(Bytes), NEW t \in Seq(Bytes), NEW i \in 1..Len(s)
  PROVE  (s \o t)[i] = s[i]
BY ConcatProperties

(* The second part is shifted by the length of the first.                  *)
LEMMA TailOfConcat ==
  ASSUME NEW s \in Seq(Bytes), NEW t \in Seq(Bytes), Len(s) = 3, NEW i \in 1..Len(t)
  PROVE  (s \o t)[3 + i] = t[i]
<1>1. Len(t) \in Nat /\ i \in Nat
  OBVIOUS
<1>2. 3 + i \in 1..(Len(s) + Len(t)) /\ ~ (3 + i <= Len(s)) /\ (3 + i) - Len(s) = i
  BY <1>1
<1>3. \A n \in 1..(Len(s) + Len(t)) :
        (s \o t)[n] = IF n <= Len(s) THEN s[n] ELSE t[n - Len(s)]
  BY ConcatProperties
<1> QED
  BY <1>2, <1>3

(* The header of a digest consists of bytes.                               *)
LEMMA HeaderType ==
  ASSUME NEW field \in Fields, NEW direction \in Directions, NEW degree \in 0..U8_MAX
  PROVE  /\ Header(field, direction, degree) \in Seq(Bytes)
         /\ Len(Header(field, direction, degree)) = 3
<1>1. FieldTag(field) \in Bytes
  BY DEF Fields, FieldTag, Bytes, BYTE
<1>2. DirectionTag(direction) \in Bytes
  BY DEF Directions, DirectionTag, Bytes, BYTE
<1>3. degree \in Bytes
  BY DEF U8_MAX, Bytes, BYTE
<1> QED
  BY <1>1, <1>2, <1>3 DEF Header

(* So does a word.                                                         *)
LEMMA WordType ==
  ASSUME NEW x \in Nat, NEW k \in 1..WORD
  PROVE  ToLeBytes(x)[k] \in Bytes
<1>1. \A y \in Nat : Shr(y) \in Nat /\ y % BYTE \in Bytes
  BY Split DEF Bytes
<1>2. ToLeBytes(x) \in Seq(Bytes) /\ Len(ToLeBytes(x)) = 8
  BY <1>1 DEF ToLeBytes
<1>3. \A s \in Seq(Bytes) : \A n \in 1..Len(s) : s[n] \in Bytes
  OBVIOUS
<1>4. k \in 1..Len(ToLeBytes(x))
  BY <1>2 DEF WORD
<1> QED
  BY <1>2, <1>3, <1>4

(* So do the words of an output.                                           *)
LEMMA WordsType ==
  ASSUME NEW output \in Seq(U64)
  PROVE  Words(output) \in Seq(Bytes)
<1>1. Len(output) \in Nat
  OBVIOUS
<1>2. ASSUME NEW i \in 1..(WORD * Len(output))
      PROVE  ToLeBytes(output[((i - 1) \div WORD) + 1])[((i - 1) % WORD) + 1] \in Bytes
  <2> DEFINE j == ((i - 1) \div WORD) + 1
             k == ((i - 1) % WORD) + 1
  <2>1. j \in 1..Len(output) /\ k \in 1..WORD
    BY <1>1 DEF WORD
  <2> HIDE DEF j, k
  <2>2. output[j] \in Nat
    BY <2>1 DEF U64
  <2>3. ToLeBytes(output[j])[k] \in Bytes
    BY <2>1, <2>2, WordType
  <2> QED
    BY <2>3 DEF j, k
<1>3. WORD * Len(output) \in Nat
  BY <1>1 DEF WORD
<1> QED
  BY <1>2, <1>3 DEF Words

(* A proof of execution binds the work: two responses with the same        *)
(* hexadecimal proof have the same field, direction, degree and output,    *)
(* for 64-bit outputs of any length (compute_proof's tags come first and   *)
(* its words have a fixed width, so no two outputs run together).          *)
THEOREM ProofBinds ==
  ASSUME NEW f \in Fields, NEW d \in Directions, NEW m \in 0..U8_MAX, NEW x \in Seq(U64),
         NEW g \in Fields, NEW e \in Directions, NEW n \in 0..U8_MAX, NEW y \in Seq(U64),
         ProofHex(f, d, m, x) = ProofHex(g, e, n, y)
  PROVE  f = g /\ d = e /\ m = n /\ x = y
<1> DEFINE h == Header(f, d, m)
           k == Header(g, e, n)
           v == Words(x)
           w == Words(y)
<1>1. /\ h \in Seq(Bytes) /\ Len(h) = 3 /\ v \in Seq(Bytes)
      /\ k \in Seq(Bytes) /\ Len(k) = 3 /\ w \in Seq(Bytes)
  BY HeaderType, WordsType
<1>2. HexEncode(h \o v) = HexEncode(k \o w)
  BY DEF ProofHex, ComputeProof, Sha256
<1> HIDE DEF h, k, v, w
<1>3. h \o v \in Seq(Bytes) /\ k \o w \in Seq(Bytes)
  BY <1>1
<1>4. h \o v = k \o w
  BY <1>2, <1>3, HexDeterminesBytes
<1>5. Len(v) = Len(w)
  <2>1. Len(h \o v) = 3 + Len(v) /\ Len(k \o w) = 3 + Len(w)
    BY <1>1, ConcatLength
  <2> QED
    BY <1>1, <1>4, <2>1
<1>6. v = w
  <2>1. ASSUME NEW i \in 1..Len(v)
        PROVE  v[i] = w[i]
    <3>1. i \in 1..Len(w)
      BY <1>5
    <3>2. v[i] = (h \o v)[3 + i] /\ w[i] = (k \o w)[3 + i]
      BY <1>1, <3>1, TailOfConcat
    <3> QED
      BY <1>4, <3>2
  <2> QED
    BY <1>1, <1>5, <2>1, SameBytes
<1>7. h[1] = k[1] /\ h[2] = k[2] /\ h[3] = k[3]
  <2>1. \A i \in 1..3 : (h \o v)[i] = h[i] /\ (k \o w)[i] = k[i]
    <3>1. 1..Len(h) = 1..3 /\ 1..Len(k) = 1..3
      BY <1>1
    <3>2. \A i \in 1..Len(h) : (h \o v)[i] = h[i]
      BY <1>1, HeadOfConcat
    <3>3. \A i \in 1..Len(k) : (k \o w)[i] = k[i]
      BY <1>1, HeadOfConcat
    <3> QED
      BY <3>1, <3>2, <3>3
  <2>2. \A i \in 1..3 : h[i] = k[i]
    BY <1>4, <2>1
  <2> QED
    BY <2>2
<1>8. x = y
  BY <1>6, WordsDetermineOutput DEF v, w
<1>9. FieldTag(f) = FieldTag(g) /\ DirectionTag(d) = DirectionTag(e) /\ m = n
  BY <1>7 DEF h, k, Header
<1>10. f = g
  BY <1>9 DEF FieldTag, Fields
<1>11. d = e
  BY <1>9 DEF DirectionTag, Directions
<1> QED
  BY <1>8, <1>9, <1>10, <1>11

-----------------------------------------------------------------------------
(***************************************************************************)
(* Coefficients and their reduction.                                       *)
(***************************************************************************)

(* A field element is a u64.                                               *)
LEMMA FieldWords == Field \subseteq U64
<1> SUFFICES ASSUME NEW x \in Field
             PROVE  x \in U64
  OBVIOUS
<1>1. P \in Nat /\ x \in Nat /\ x <= P
  BY Order DEF Field
<1>2. \A a, b \in Nat : a <= b => Shr(a) \in Nat /\ Shr(b) \in Nat /\ Shr(a) <= Shr(b)
  BY DEF Shr, BYTE
<1> DEFINE x1 == Shr(x) x2 == Shr(x1) x3 == Shr(x2) x4 == Shr(x3)
           x5 == Shr(x4) x6 == Shr(x5) x7 == Shr(x6) x8 == Shr(x7)
           p1 == Shr(P) p2 == Shr(p1) p3 == Shr(p2) p4 == Shr(p3)
           p5 == Shr(p4) p6 == Shr(p5) p7 == Shr(p6) p8 == Shr(p7)
<1>3. x1 \in Nat /\ p1 \in Nat /\ x1 <= p1
  BY <1>1, <1>2
<1>4. x2 \in Nat /\ p2 \in Nat /\ x2 <= p2
  BY <1>2, <1>3
<1>5. x3 \in Nat /\ p3 \in Nat /\ x3 <= p3
  BY <1>2, <1>4
<1>6. x4 \in Nat /\ p4 \in Nat /\ x4 <= p4
  BY <1>2, <1>5
<1>7. x5 \in Nat /\ p5 \in Nat /\ x5 <= p5
  BY <1>2, <1>6
<1>8. x6 \in Nat /\ p6 \in Nat /\ x6 <= p6
  BY <1>2, <1>7
<1>9. x7 \in Nat /\ p7 \in Nat /\ x7 <= p7
  BY <1>2, <1>8
<1>10. x8 \in Nat /\ p8 \in Nat /\ x8 <= p8
  BY <1>2, <1>9
<1>11. p8 = 0
  BY WordAssumption DEF U64
<1>12. x8 = 0
  BY <1>10, <1>11
<1> QED
  BY <1>1, <1>12 DEF U64

(* The coefficients of a request, reduced.                                 *)
LEMMA ReduceDef ==
  ASSUME NEW a \in Seq(U64)
  PROVE  /\ Len(a) \in Nat
         /\ \A i \in 1..Len(a) : a[i] \in Nat
         /\ Reduce(a) \in Polynomial
         /\ Len(Reduce(a)) = Len(a)
         /\ \A i \in 1..Len(a) : /\ Reduce(a)[i] = FromU64(a[i])
                                 /\ FromU64(a[i]) \in Field
                                 /\ FromU64(FromU64(a[i])) = FromU64(a[i])
<1>1. Len(a) \in Nat /\ \A i \in 1..Len(a) : a[i] \in Nat
  BY LenProperties DEF U64
<1>2. \A i \in 1..Len(a) : FromU64(a[i]) \in Field /\ FromU64(FromU64(a[i])) = FromU64(a[i])
  <2> SUFFICES ASSUME NEW i \in 1..Len(a)
               PROVE  FromU64(a[i]) \in Field /\ FromU64(FromU64(a[i])) = FromU64(a[i])
    OBVIOUS
  <2> DEFINE x == a[i]
  <2>1. x \in Int
    BY <1>1
  <2> HIDE DEF x
  <2>2. x % P \in Field
    BY <2>1, Remainder
  <2>3. (x % P) % P = x % P
    BY <2>2, RemainderOfElement
  <2> QED
    BY <2>2, <2>3 DEF FromU64, x
<1>3. Reduce(a) \in [1..Len(a) -> Field]
  BY <1>2 DEF Reduce
<1> QED
  BY <1>1, <1>2, <1>3, PolynomialOf DEF Reduce

(* A polynomial is in reduced form.                                        *)
LEMMA ReducePolynomial ==
  ASSUME NEW c \in Polynomial
  PROVE  c \in Seq(U64) /\ Reduce(c) = c
<1>1. c \in Seq(U64)
  BY FieldWords, SeqMonotonic DEF Polynomial
<1>2. \A i \in 1..Len(c) : Reduce(c)[i] = c[i]
  BY <1>1, ReduceDef, PolynomialIs, RemainderOfElement DEF FromU64
<1> QED
  BY <1>1, <1>2, ReduceDef, PolynomialEqual

(* A transform does not depend on whether the coefficients are reduced.    *)
LEMMA DftReduces ==
  ASSUME NEW a \in Seq(U64), NEW w
  PROVE  Dft(a, w) = Dft(Reduce(a), w)
<1>1. Len(Reduce(a)) = Len(a) /\ \A j \in 1..Len(a) : FromU64(Reduce(a)[j]) = FromU64(a[j])
  BY ReduceDef
<1> QED
  BY <1>1 DEF Dft

(* Nor does a convolution.                                                 *)
LEMMA ConvolutionReduces ==
  ASSUME NEW a \in Seq(U64), NEW b \in Seq(U64), Len(a) = Len(b), Len(a) > 0
  PROVE  Convolution(a, b) = Convolution(Reduce(a), Reduce(b))
<1> DEFINE n == Len(a)
           c == Reduce(a)
           d == Reduce(b)
<1>1. n \in Nat /\ n > 0 /\ Len(c) = n /\ Len(d) = n
      /\ \A j \in 1..n : FromU64(c[j]) = FromU64(a[j]) /\ FromU64(d[j]) = FromU64(b[j])
  BY ReduceDef
<1>2. \A k, j \in 1..n : ((k - j) % n) + 1 \in 1..n
  <2> SUFFICES ASSUME NEW k \in 1..n, NEW j \in 1..n
               PROVE  ((k - j) % n) + 1 \in 1..n
    OBVIOUS
  <2> DEFINE r == (k - j) % n
  <2>1. k - j \in Int
    OBVIOUS
  <2>2. r \in 0..(n - 1)
    BY <1>1, <2>1, Modulo
  <2> HIDE DEF r
  <2>3. r + 1 \in 1..n
    BY <1>1, <2>2
  <2> QED
    BY <2>3 DEF r
<1> DEFINE S(k) == [j \in 1..n |-> Mul(FromU64(a[j]), FromU64(b[((k - j) % n) + 1]))]
           T(k) == [j \in 1..n |-> Mul(FromU64(c[j]), FromU64(d[((k - j) % n) + 1]))]
<1>3. ASSUME NEW k \in 1..n
      PROVE  S(k) = T(k)
  <2>1. ASSUME NEW j \in 1..n
        PROVE  Mul(FromU64(a[j]), FromU64(b[((k - j) % n) + 1]))
                 = Mul(FromU64(c[j]), FromU64(d[((k - j) % n) + 1]))
    <3> DEFINE i == ((k - j) % n) + 1
    <3>1. i \in 1..n
      BY <1>2
    <3> HIDE DEF i
    <3> QED
      BY <1>1, <3>1 DEF i
  <2> HIDE DEF c, d, n
  <2> QED
    BY <2>1
<1>4. Convolution(a, b) = [k \in 1..n |-> SumModP(S(k))]
  BY DEF Convolution
<1>5. Convolution(c, d) = [k \in 1..n |-> SumModP(T(k))]
  <2> HIDE DEF c, d
  <2> QED
    BY <1>1 DEF Convolution
<1> HIDE DEF S, T, n, c, d
<1>6. Convolution(a, b) = Convolution(c, d)
  BY <1>3, <1>4, <1>5
<1> QED
  BY <1>6 DEF c, d

(* The roots of the two directions, up to the two-adicity.                 *)
LEMMA Roots ==
  ASSUME NEW k \in Nat, k <= TWO_ADICITY
  PROVE  /\ Omega("Forward", k) = TwoAdicGenerator(k)
         /\ InverseRoots(Omega("Forward", k), Omega("Inverse", k), 2^k)
         /\ InverseRoots(Omega("Inverse", k), Omega("Forward", k), 2^k)
<1> DEFINE w == TwoAdicGenerator(k)
           v == TryInverse(w)
<1>1. Omega("Forward", k) = w /\ Omega("Inverse", k) = v
  BY DEF Omega
<1>2. PrimitiveRoot(w, 2^k)
  BY TwoAdicGeneratorIsPrimitive
<1>3. 2^k \in Nat
  BY TwoToThe
<1> HIDE DEF w
<1>4. PrimitiveRoot(v, 2^k)
  BY <1>2, <1>3, InverseIsPrimitive
<1>5. w \in Units /\ v \in Units
  BY <1>2, <1>4 DEF PrimitiveRoot
<1>6. Mul(w, v) = 1 /\ Mul(v, w) = Mul(w, v)
  BY <1>5, InverseOfUnit, MulLaws, UnitsType
<1> QED
  BY <1>1, <1>2, <1>4, <1>6 DEF InverseRoots, w

(* The number of coefficients is not 0 in the field.                       *)
LEMMA LengthIsUnit ==
  ASSUME NEW k \in Nat, k <= TWO_ADICITY
  PROVE  FromU64(2^k) \in Units /\ TryInverse(FromU64(2^k)) \in Units
         /\ Mul(FromU64(2^k), TryInverse(FromU64(2^k))) = 1
<1> DEFINE n == 2^k
<1>1. n \in Nat /\ n > 0
  BY TwoToThe
<1>2. PICK q \in Nat : P - 1 = n * q
  BY TwoAdic
<1> HIDE DEF n
<1>3. n \in Field /\ n # 0
  <2>1. q > 0
    BY <1>1, <1>2, Order
  <2>2. n <= n * q
    BY <1>1, <1>2, <2>1
  <2> QED
    BY <1>1, <1>2, <2>2, Order DEF Field
<1>4. FromU64(n) = n
  BY <1>3, RemainderOfElement DEF FromU64
<1> QED
  BY <1>3, <1>4, UnitsType, InverseOfUnit DEF n

-----------------------------------------------------------------------------
(***************************************************************************)
(* The transforms of goldilocks_ntt.                                       *)
(***************************************************************************)
Transform(direction, k, x) == GoldilocksNtt(x, direction, k).output

(* A forward transform is the polynomial at the powers of the root.        *)
LEMMA ForwardOutput ==
  ASSUME NEW k \in Nat, k <= TWO_ADICITY, NEW x \in Seq(U64), Len(x) = 2^k
  PROVE  /\ GoldilocksNtt(x, "Forward", k).error = "Ok"
         /\ Transform("Forward", k, x) = Dft(Reduce(x), Omega("Forward", k))
         /\ Transform("Forward", k, x) \in Polynomial
         /\ Len(Transform("Forward", k, x)) = 2^k
<1> DEFINE w == Omega("Forward", k)
           c == Reduce(x)
<1>1. c \in Polynomial /\ Len(c) = 2^k
  BY ReduceDef
<1>2. PrimitiveRoot(w, 2^k) /\ w \in Field
  BY Roots, UnitsType DEF InverseRoots, PrimitiveRoot
<1>3. NttRecursive(c, w) = Dft(c, w)
  <2> HIDE DEF c, w
  <2> QED
    BY <1>1, <1>2, NttIsDft
<1>4. ~(k > TWO_ADICITY)
  BY FieldAssumption
<1>5. GoldilocksNtt(x, "Forward", k) = [error |-> "Ok", output |-> Dft(c, w)]
  BY <1>3, <1>4 DEF GoldilocksNtt, Scale
<1>6. Dft(c, w) \in Polynomial /\ Len(Dft(c, w)) = 2^k
  <2> HIDE DEF c, w
  <2> QED
    BY <1>1, <1>2, DftDef
<1> HIDE DEF c, w
<1> QED
  BY <1>5, <1>6 DEF Transform, c, w

(* The inverse one divides by the number of coefficients.                  *)
LEMMA InverseOutput ==
  ASSUME NEW k \in Nat, k <= TWO_ADICITY, NEW x \in Seq(U64), Len(x) = 2^k
  PROVE  /\ GoldilocksNtt(x, "Inverse", k).error = "Ok"
         /\ Transform("Inverse", k, x) \in Polynomial
         /\ Len(Transform("Inverse", k, x)) = 2^k
         /\ \A i \in 1..(2^k) :
              Transform("Inverse", k, x)[i]
                = Mul(Dft(Reduce(x), Omega("Inverse", k))[i], TryInverse(FromU64(2^k)))
<1> DEFINE n == 2^k
           v == Omega("Inverse", k)
           c == Reduce(x)
           d == Dft(c, v)
           u == TryInverse(FromU64(n))
           y == [i \in 1..Len(d) |-> Mul(d[i], u)]
<1>1. c \in Polynomial /\ Len(c) = n
  BY ReduceDef
<1>2. PrimitiveRoot(v, n) /\ v \in Field
  BY Roots, UnitsType DEF InverseRoots, PrimitiveRoot
<1>3. n \in Nat
  BY TwoToThe
<1>4. u \in Field
  BY LengthIsUnit, UnitsType
<1>5. ~(k > TWO_ADICITY)
  BY FieldAssumption
<1>6. NttRecursive(c, v) = d
  <2> HIDE DEF c, v
  <2> QED
    BY <1>1, <1>2, NttIsDft
<1>7. d \in Polynomial /\ Len(d) = n
  <2> HIDE DEF c, v
  <2> QED
    BY <1>1, <1>2, DftDef
<1>8. y \in Polynomial /\ Len(y) = n
  <2> HIDE DEF d, u, n
  <2>1. ASSUME NEW i \in 1..n PROVE Mul(d[i], u) \in Field
    BY <1>4, <1>7, PolynomialIs, Closed
  <2>2. y \in [1..n -> Field]
    BY <1>7, <2>1
  <2> HIDE DEF y
  <2> QED
    BY <1>3, <2>2, PolynomialOf
<1>9. GoldilocksNtt(x, "Inverse", k) = [error |-> "Ok", output |-> y]
  BY <1>5, <1>6 DEF GoldilocksNtt, Scale
<1>10. \A i \in 1..n : y[i] = Mul(d[i], u)
  BY <1>7
<1> HIDE DEF n, v, c, d, u, y
<1> QED
  BY <1>8, <1>9, <1>10 DEF Transform, n, v, c, d, u

(* The inverse undoes the forward transform.                               *)
LEMMA InverseOfForward ==
  ASSUME NEW k \in Nat, k <= TWO_ADICITY, NEW a \in Polynomial, Len(a) = 2^k
  PROVE  Transform("Inverse", k, Dft(a, Omega("Forward", k))) = a
<1> DEFINE n == 2^k
           w == Omega("Forward", k)
           v == Omega("Inverse", k)
           d == Dft(a, w)
           m == FromU64(n)
           u == TryInverse(m)
           y == Transform("Inverse", k, d)
<1>1. InverseRoots(w, v, n) /\ w \in Field
  BY Roots, UnitsType DEF InverseRoots, PrimitiveRoot
<1>2. d \in Polynomial /\ Len(d) = n
  <2> HIDE DEF w
  <2> QED
    BY <1>1, DftDef
<1>3. d \in Seq(U64) /\ Reduce(d) = d
  <2> HIDE DEF d
  <2> QED
    BY <1>2, ReducePolynomial
<1>4. y \in Polynomial /\ Len(y) = n /\ \A i \in 1..n : y[i] = Mul(Dft(d, v)[i], u)
  <2> HIDE DEF d
  <2> QED
    BY <1>2, <1>3, InverseOutput
<1>5. m \in Field /\ u \in Field /\ Mul(m, u) = 1
  BY LengthIsUnit, UnitsType
<1>6. ASSUME NEW i \in 1..n
      PROVE  y[i] = a[i]
  <2>1. Dft(d, v)[i] = Mul(a[i], m)
    <3> HIDE DEF w, v
    <3> QED
      BY <1>1, DftInverse
  <2>2. a[i] \in Field
    BY PolynomialIs
  <2> HIDE DEF y, d, v, w, n, m, u
  <2>3. y[i] = Mul(Mul(a[i], m), u)
    BY <1>4, <2>1
  <2>4. Mul(Mul(a[i], m), u) = Mul(a[i], Mul(m, u))
    BY <1>5, <2>2, MulLaws
  <2> QED
    BY <1>5, <2>2, <2>3, <2>4, MulLaws
<1> HIDE DEF y, d
<1> QED
  BY <1>4, <1>6, PolynomialEqual DEF y, d

(* A transform of the product of two spectra.                              *)
LEMMA InverseOfProduct ==
  ASSUME NEW k \in Nat, k <= TWO_ADICITY, NEW a \in Polynomial, Len(a) = 2^k,
         NEW b \in Polynomial, Len(b) = 2^k
  PROVE  LET w == Omega("Forward", k)
             x == Product(Dft(a, w), Dft(b, w))
         IN  x \in Polynomial /\ Len(x) = 2^k
             /\ Transform("Inverse", k, x) = Convolution(a, b)
<1> DEFINE n == 2^k
           w == Omega("Forward", k)
           c == Convolution(a, b)
           x == Product(Dft(a, w), Dft(b, w))
<1>1. PrimitiveRoot(w, n) /\ w \in Field
  BY Roots, UnitsType DEF InverseRoots, PrimitiveRoot
<1>2. Power(w, n) = 1
  BY <1>1 DEF PrimitiveRoot
<1>3. n > 0
  BY TwoToThe
<1> HIDE DEF w, n
<1>4. c \in Polynomial /\ Len(c) = n
  BY <1>3, ConvolutionDef DEF n
<1>5. x = Dft(c, w)
  BY <1>1, <1>2, <1>3, ConvolutionTheorem DEF n
<1>6. Dft(c, w) \in Polynomial /\ Len(Dft(c, w)) = n
  <2> HIDE DEF c
  <2> QED
    BY <1>1, <1>4, DftDef
<1>7. Transform("Inverse", k, Dft(c, w)) = c
  <2> HIDE DEF c
  <2> QED
    BY <1>4, InverseOfForward DEF w, n
<1> HIDE DEF x, c
<1>8. x \in Polynomial /\ Len(x) = n /\ Transform("Inverse", k, x) = c
  BY <1>5, <1>6, <1>7
<1> QED
  BY <1>8 DEF x, c, n, w

-----------------------------------------------------------------------------
(***************************************************************************)
(* Requests and responses.                                                 *)
(***************************************************************************)

(* What a request of integers is answered.                                 *)
LEMMA NumbersServed ==
  ASSUME NEW d \in Directions, NEW k \in 1..30, NEW x \in Seq(U64), Len(x) = 2^k
  PROVE  LET q == NttRequest(d, k, WriteBigInts(x))
         IN  /\ Values(q) = x
             /\ ServeRequest(q) =
                  IF k > FREE_TIER_MAX_LOG2 THEN Refused("OutOfTier")
                  ELSE IF k > TWO_ADICITY THEN Refused("SimulatorFailed")
                  ELSE [error |-> "Ok", response |-> BuildResponse(q, Transform(d, k, x))]
<1> DEFINE c == WriteBigInts(x)
           q == NttRequest(d, k, c)
           b == AsBody(q)
           t == GoldilocksNtt(x, d, k)
<1>1. Len(x) \in Nat /\ 2^k \in Nat
  BY LenProperties
<1>2. /\ q.field = "Goldilocks" /\ q.direction = d /\ q.degree_log2 = k /\ q.coefficients = c
  BY DEF NttRequest
<1>3. Len(c) = Len(x) /\ \A i \in 1..Len(x) : c[i].kind = "number" /\ c[i].value = x[i]
  <2>1. c \in [1..Len(x) -> {JsonNumber(x[i]) : i \in 1..Len(x)}]
    BY DEF WriteBigInts
  <2>2. Len(c) = Len(x)
    BY <1>1, <2>1, SeqDef, LenProperties
  <2> QED
    BY <2>2 DEF WriteBigInts, JsonNumber
<1> HIDE DEF c
<1>4. ParseCoefficients(c) = Len(x)
  BY <1>3 DEF ParseCoefficients
<1>5. [i \in 1..Len(c) |-> c[i].value] = x
  <2>1. [i \in 1..Len(x) |-> c[i].value] = [i \in 1..Len(x) |-> x[i]]
    BY <1>3
  <2>2. x = [i \in 1..Len(x) |-> x[i]]
    BY LenProperties
  <2> QED
    BY <1>3, <2>1, <2>2
<1>6. b = [json |-> TRUE, field |-> "Goldilocks", direction |-> d, degree |-> k,
           coefficients |-> Len(x)]
  BY <1>2, <1>4 DEF AsBody
<1>7. Serve(b) = IF k <= FREE_TIER_MAX_LOG2 THEN "Ok" ELSE "OutOfTier"
  <2> HIDE DEF b, q
  <2>1. ParseDegree(b) = "Ok"
    BY <1>6 DEF ParseDegree, PolyDegreeLog2, Check, AndThen, U8_MAX
  <2>2. ParseRequest(b) = "Ok"
    BY <1>1, <1>6, <2>1 DEF ParseRequest, Check, AndThen, Fields
  <2>3. ComputeWasm(b) = "Ok"
    BY <1>6 DEF ComputeWasm, Check, AndThen
  <2>4. QuoteFor(b.degree, FREE_TIER_MAX_LOG2) = IF k <= FREE_TIER_MAX_LOG2 THEN "Ok" ELSE "OutOfTier"
    BY <1>6 DEF QuoteFor, Check
  <2> QED
    BY <2>2, <2>3, <2>4 DEF Serve, ParseAndQuote, AndThen
<1>8. t.error = IF k > TWO_ADICITY THEN "SimulatorFailed" ELSE "Ok"
  BY DEF GoldilocksNtt
<1>9. t.output = Transform(d, k, x)
  BY DEF Transform
<1> HIDE DEF t, b
<1>10. ServeRequest(q) = LET error == AndThen(Serve(b), t.error)
                        IN  IF error # "Ok" THEN Refused(error)
                            ELSE [error |-> "Ok", response |-> BuildResponse(q, t.output)]
  BY <1>2, <1>5 DEF ServeRequest, b, t
<1>11. Values(q) = x
  BY <1>2, <1>5 DEF Values
<1> HIDE DEF q
<1>12. ServeRequest(q) =
         IF k > FREE_TIER_MAX_LOG2 THEN Refused("OutOfTier")
         ELSE IF k > TWO_ADICITY THEN Refused("SimulatorFailed")
         ELSE [error |-> "Ok", response |-> BuildResponse(q, Transform(d, k, x))]
  <2>1. FREE_TIER_MAX_LOG2 \in Nat /\ TWO_ADICITY \in Nat /\ k \in Nat
    BY FieldAssumption DEF FREE_TIER_MAX_LOG2
  <2>2. CASE k > FREE_TIER_MAX_LOG2
    BY <1>7, <1>10, <2>1, <2>2 DEF AndThen
  <2>3. CASE k <= FREE_TIER_MAX_LOG2 /\ k > TWO_ADICITY
    BY <1>7, <1>8, <1>10, <2>1, <2>3 DEF AndThen
  <2>4. CASE k <= FREE_TIER_MAX_LOG2 /\ k <= TWO_ADICITY
    BY <1>7, <1>8, <1>9, <1>10, <2>1, <2>4 DEF AndThen
  <2> QED
    BY <2>1, <2>2, <2>3, <2>4
<1> QED
  BY <1>11, <1>12 DEF q, c

(* What a client reads of a response is the output.                        *)
LEMMA ReadOutputOfResponse ==
  ASSUME NEW q, NEW x \in Seq(U64)
  PROVE  LET r == BuildResponse(q, x)
         IN  /\ ReadOutput(r) = x
             /\ r.proof_of_execution = ProofHex(q.field, q.direction, q.degree_log2, x)
             /\ r.field = q.field /\ r.direction = q.direction /\ r.degree_log2 = q.degree_log2
             /\ Len(r.output) = Len(x)
             /\ \A i \in 1..Len(x) : r.output[i].kind = "string"
<1> DEFINE s == [i \in 1..Len(x) |-> JsonString(x[i])]
           r == BuildResponse(q, x)
<1>1. Len(x) \in Nat
  BY LenProperties
<1>2. Len(s) = Len(x) /\ \A i \in 1..Len(x) : s[i].kind = "string" /\ s[i].value = x[i]
  <2>1. s \in [1..Len(x) -> {JsonString(x[i]) : i \in 1..Len(x)}]
    OBVIOUS
  <2>2. Len(s) = Len(x)
    BY <1>1, <2>1, SeqDef, LenProperties
  <2> QED
    BY <2>2 DEF JsonString
<1>3. r.output = s
  BY DEF BuildResponse
<1>4. r.proof_of_execution = ProofHex(q.field, q.direction, q.degree_log2, x)
      /\ r.field = q.field /\ r.direction = q.direction /\ r.degree_log2 = q.degree_log2
  BY DEF BuildResponse
<1> HIDE DEF s, r
<1>5. ReadOutput(r) = [i \in 1..Len(x) |-> x[i]]
  <2>1. ReadOutput(r) = [i \in 1..Len(x) |-> ReadInteger(s[i])]
    BY <1>2, <1>3 DEF ReadOutput
  <2>2. \A i \in 1..Len(x) : ReadInteger(s[i]) = x[i]
    BY <1>2 DEF ReadInteger
  <2> QED
    BY <2>1, <2>2
<1>6. x = [i \in 1..Len(x) |-> x[i]]
  BY LenProperties
<1> QED
  BY <1>2, <1>3, <1>4, <1>5, <1>6 DEF r

(* The strings of a response are no coefficients.                          *)
LEMMA StringsRefused ==
  ASSUME NEW d \in Directions, NEW k \in 1..30, NEW s,
         Len(s) \in Nat, Len(s) > 0, \A i \in 1..Len(s) : s[i].kind = "string"
  PROVE  LET q == NttRequest(d, k, s)
         IN  ServeRequest(q) = Refused("SchemaMismatch")
<1> DEFINE q == NttRequest(d, k, s)
           b == AsBody(q)
<1>1. s[1].kind # "number" /\ 1 \in 1..Len(s)
  BY SMT
<1>2. ParseCoefficients(s) = -1
  BY <1>1 DEF ParseCoefficients
<1>3. b = [json |-> TRUE, field |-> "Goldilocks", direction |-> d, degree |-> k,
           coefficients |-> -1]
  BY <1>2 DEF AsBody, NttRequest
<1> HIDE DEF b
<1>4. ParseDegree(b) = "Ok"
  BY <1>3 DEF ParseDegree, PolyDegreeLog2, Check, AndThen, U8_MAX
<1>5. ParseRequest(b) = "SchemaMismatch"
  BY <1>3, <1>4 DEF ParseRequest, Check, AndThen, Fields
<1>6. Serve(b) = "SchemaMismatch"
  BY <1>5 DEF Serve, ParseAndQuote, AndThen
<1> QED
  BY <1>6 DEF ServeRequest, b, AndThen

(* The answer to a request of integers: none beyond the free tier or the   *)
(* two-adicity, and otherwise the transform with its proof.                *)
ServesTransform(d, k, x) ==
  LET q == NttRequest(d, k, WriteBigInts(x))
      answer == ServeRequest(q)
      y == Transform(d, k, x)
  IN  /\ Values(q) = x
      /\ k > FREE_TIER_MAX_LOG2 => answer = Refused("OutOfTier")
      /\ k <= FREE_TIER_MAX_LOG2 /\ k > TWO_ADICITY => answer = Refused("SimulatorFailed")
      /\ answer.error = "Ok" <=> k <= FREE_TIER_MAX_LOG2 /\ k <= TWO_ADICITY
      /\ answer.error = "Ok" =>
           /\ y \in Polynomial /\ y \in Seq(U64) /\ Len(y) = 2^k
           /\ OutputOf(answer) = y
           /\ answer.response.proof_of_execution = ProofHex("Goldilocks", d, k, y)
           /\ answer.response.field = "Goldilocks"
           /\ answer.response.direction = d
           /\ answer.response.degree_log2 = k
           /\ Len(answer.response.output) = 2^k
           /\ \A i \in 1..(2^k) : answer.response.output[i].kind = "string"

(* Every well-formed request is answered so.                               *)
LEMMA Answered ==
  ASSUME NEW d \in Directions, NEW k \in 1..30, NEW x \in Seq(U64), Len(x) = 2^k
  PROVE  ServesTransform(d, k, x)
<1> DEFINE q == NttRequest(d, k, WriteBigInts(x))
           answer == ServeRequest(q)
           y == Transform(d, k, x)
           r == BuildResponse(q, y)
<1>1. k \in Nat /\ FREE_TIER_MAX_LOG2 \in Nat /\ TWO_ADICITY \in Nat
  BY FieldAssumption DEF FREE_TIER_MAX_LOG2
<1>2. /\ Values(q) = x
      /\ answer = IF k > FREE_TIER_MAX_LOG2 THEN Refused("OutOfTier")
                  ELSE IF k > TWO_ADICITY THEN Refused("SimulatorFailed")
                  ELSE [error |-> "Ok", response |-> r]
  <2> HIDE DEF y
  <2> QED
    BY NumbersServed DEF y
<1>3. q.field = "Goldilocks" /\ q.direction = d /\ q.degree_log2 = k
  BY DEF NttRequest
<1>4. k > FREE_TIER_MAX_LOG2 => answer = Refused("OutOfTier")
  BY <1>2
<1>5. k <= FREE_TIER_MAX_LOG2 /\ k > TWO_ADICITY => answer = Refused("SimulatorFailed")
  BY <1>1, <1>2
<1>6. k <= FREE_TIER_MAX_LOG2 /\ k <= TWO_ADICITY
        => answer = [error |-> "Ok", response |-> r]
  BY <1>1, <1>2
<1> HIDE DEF answer, q, r, y
<1>7. answer.error = "Ok" <=> k <= FREE_TIER_MAX_LOG2 /\ k <= TWO_ADICITY
  BY <1>1, <1>4, <1>5, <1>6 DEF Refused
<1>8. ASSUME answer.error = "Ok"
      PROVE  /\ y \in Polynomial /\ y \in Seq(U64) /\ Len(y) = 2^k
             /\ OutputOf(answer) = y
             /\ answer.response.proof_of_execution = ProofHex("Goldilocks", d, k, y)
             /\ answer.response.field = "Goldilocks"
             /\ answer.response.direction = d
             /\ answer.response.degree_log2 = k
             /\ Len(answer.response.output) = 2^k
             /\ \A i \in 1..(2^k) : answer.response.output[i].kind = "string"
  <2>1. k <= TWO_ADICITY /\ answer.response = r
    BY <1>6, <1>7, <1>8
  <2>2. y \in Polynomial /\ Len(y) = 2^k
    <3>1. d = "Forward" \/ d = "Inverse"
      BY DEF Directions
    <3> QED
      BY <1>1, <2>1, <3>1, ForwardOutput, InverseOutput DEF y
  <2>3. y \in Seq(U64)
    BY <2>2, ReducePolynomial
  <2>4. /\ ReadOutput(r) = y
        /\ r.proof_of_execution = ProofHex(q.field, q.direction, q.degree_log2, y)
        /\ r.field = q.field /\ r.direction = q.direction /\ r.degree_log2 = q.degree_log2
        /\ Len(r.output) = Len(y)
        /\ \A i \in 1..Len(y) : r.output[i].kind = "string"
    BY <2>3, ReadOutputOfResponse DEF r
  <2> QED
    BY <1>3, <2>1, <2>2, <2>3, <2>4 DEF OutputOf
<1>9. Values(q) = x
  BY <1>2
<1> QED
  BY <1>4, <1>5, <1>7, <1>8, <1>9 DEF ServesTransform, q, answer, y

-----------------------------------------------------------------------------
(***************************************************************************)
(* The exchange of ComputeProperties: everything that was answered is the  *)
(* answer to its request, and the second request is made of the first      *)
(* answer.                                                                 *)
(***************************************************************************)
Asked(k, a) == a \in Polynomials /\ Len(a) = 2^k /\ request = ForwardOf(k, a)

Inverses == {NttRequest("Inverse", request.degree_log2, WriteBigInts(OutputOf(spectrum))),
             NttRequest("Inverse", request.degree_log2, spectrum.response.output)}

Exchanged ==
  /\ \E k \in 1..30 : \E a \in Polynomials : Asked(k, a)
  /\ spectrum \in {Pending, ServeRequest(request)}
  /\ \/ back = Pending
     \/ spectrum.error = "Ok" /\ inverse \in Inverses /\ back = ServeRequest(inverse)

(* Requests and answers match in every state.                              *)
LEMMA Exchange == Spec => []Exchanged
<1>1. Init => Exchanged
  BY DEF Init, Exchanged, Asked
<1>2. Exchanged /\ [Next]_vars => Exchanged'
  <2> SUFFICES ASSUME Exchanged, [Next]_vars
               PROVE  Exchanged'
    OBVIOUS
  <2>1. CASE Forward
    <3>1. request' = request /\ back' = back
      BY <2>1 DEF Forward
    <3>2. spectrum.error # "Ok"
      BY <2>1 DEF Forward, Pending
    <3>3. back' = Pending
      BY <3>1, <3>2 DEF Exchanged
    <3>4. (\E k \in 1..30 : \E a \in Polynomials : Asked(k, a))'
      BY <3>1 DEF Exchanged, Asked
    <3>5. spectrum' = ServeRequest(request')
      BY <2>1, <3>1 DEF Forward
    <3>6. Pending' = Pending
      BY DEF Pending
    <3> QED
      BY <3>3, <3>4, <3>5, <3>6, Zenon DEF Exchanged
  <2>2. CASE Back
    <3>1. request' = request /\ spectrum' = spectrum
      BY <2>2 DEF Back
    <3>2. inverse' \in Inverses
      BY <2>2 DEF Back, Inverses, OutputOf
    <3>3. Inverses' = Inverses
      BY <3>1 DEF Inverses, OutputOf
    <3>4. back' = ServeRequest(inverse') /\ spectrum.error = "Ok"
      BY <2>2 DEF Back
    <3>5. (\E k \in 1..30 : \E a \in Polynomials : Asked(k, a))'
      BY <3>1 DEF Exchanged, Asked
    <3>6. (spectrum \in {Pending, ServeRequest(request)})'
      BY <3>1, Zenon DEF Exchanged, Pending
    <3>7. spectrum'.error = "Ok"
      BY <3>1, <3>4
    <3> QED
      BY <3>2, <3>3, <3>4, <3>5, <3>6, <3>7, Zenon DEF Exchanged
  <2>3. CASE UNCHANGED vars
    <3>1. request' = request /\ spectrum' = spectrum /\ inverse' = inverse /\ back' = back
      BY <2>3 DEF vars
    <3>2. Inverses' = Inverses /\ Pending' = Pending
      BY <3>1 DEF Inverses, OutputOf, Pending
    <3>3. (\E k \in 1..30 : \E a \in Polynomials : Asked(k, a))'
      BY <3>1 DEF Exchanged, Asked
    <3>4. (spectrum \in {Pending, ServeRequest(request)})'
      BY <3>1, <3>2, Zenon DEF Exchanged
    <3>5. CASE back = Pending
      BY <3>1, <3>2, <3>3, <3>4, <3>5, Zenon DEF Exchanged
    <3>6. CASE spectrum.error = "Ok" /\ inverse \in Inverses /\ back = ServeRequest(inverse)
      <4>1. spectrum'.error = "Ok" /\ inverse' \in Inverses' /\ back' = ServeRequest(inverse')
        BY <3>1, <3>2, <3>6
      <4> QED
        BY <3>3, <3>4, <4>1, Zenon DEF Exchanged
    <3> QED
      BY <3>5, <3>6 DEF Exchanged
  <2> QED
    BY <2>1, <2>2, <2>3 DEF Next
<1> QED
  BY <1>1, <1>2, PTL DEF Spec

(* What the requests of the exchange are.                                  *)
LEMMA TheRequest ==
  ASSUME NEW k \in 1..30, NEW a, Asked(k, a)
  PROVE  /\ a \in Seq(U64) /\ Len(a) = 2^k /\ logN = k
         /\ request = NttRequest("Forward", k, WriteBigInts(a))
         /\ request.direction = "Forward"
         /\ "Forward" \in Directions /\ "Inverse" \in Directions
         /\ ServesTransform("Forward", k, a)
<1>1. /\ a \in Seq(U64) /\ Len(a) = 2^k /\ logN = k
      /\ request = NttRequest("Forward", k, WriteBigInts(a))
      /\ request.direction = "Forward"
      /\ "Forward" \in Directions /\ "Inverse" \in Directions
  BY InputsAssumption DEF Asked, ForwardOf, NttRequest, logN, Directions
<1>2. ServesTransform("Forward", k, a)
  BY <1>1, Answered
<1> QED
  BY <1>1, <1>2

(* Pending is no answer.                                                   *)
LEMMA PendingIsNoAnswer == Pending.error # "Ok"
BY DEF Pending

(* The answer to the inverse request: the coefficients, or a refusal.      *)
LEMMA BackAnswered ==
  ASSUME Exchanged, back # Pending, NEW k \in 1..30, NEW a, Asked(k, a)
  PROVE  /\ spectrum.error = "Ok"
         /\ \/ /\ inverse.coefficients[1].kind = "number"
               /\ inverse.direction = "Inverse"
               /\ back.error = "Ok"
               /\ OutputOf(back) = Reduce(a)
               /\ back.response.proof_of_execution
                    = ProofHex("Goldilocks", "Inverse", k, Reduce(a))
               /\ back.response.field = "Goldilocks"
               /\ back.response.direction = "Inverse"
               /\ back.response.degree_log2 = k
            \/ /\ inverse.coefficients[1].kind = "string"
               /\ back.error = "SchemaMismatch"
<1> DEFINE y == Transform("Forward", k, a)
           q == NttRequest("Inverse", k, WriteBigInts(y))
           s == spectrum.response.output
<1>1. /\ a \in Seq(U64) /\ Len(a) = 2^k /\ logN = k
      /\ request = NttRequest("Forward", k, WriteBigInts(a))
      /\ "Forward" \in Directions /\ "Inverse" \in Directions
      /\ ServesTransform("Forward", k, a)
  BY TheRequest
<1>2. /\ spectrum.error = "Ok" /\ inverse \in Inverses /\ back = ServeRequest(inverse)
      /\ spectrum = ServeRequest(request)
  BY PendingIsNoAnswer DEF Exchanged
<1>3. /\ k <= FREE_TIER_MAX_LOG2 /\ k <= TWO_ADICITY
      /\ y \in Polynomial /\ y \in Seq(U64) /\ Len(y) = 2^k
      /\ OutputOf(spectrum) = y
      /\ Len(s) = 2^k /\ \A i \in 1..(2^k) : s[i].kind = "string"
  <2> HIDE DEF y
  <2> QED
    BY <1>1, <1>2 DEF ServesTransform, y
<1>4. Inverses = {q, NttRequest("Inverse", k, s)}
  <2> HIDE DEF y, s
  <2> QED
    BY <1>1, <1>3 DEF Inverses, logN, q, s
<1>5. 2^k \in Nat /\ 2^k > 0 /\ 1 \in 1..(2^k) /\ k \in Nat
  <2>1. 2^k \in Nat /\ 2^k > 0
    BY TwoToThe
  <2> DEFINE n == 2^k
  <2> HIDE DEF n
  <2>2. 1 \in 1..n
    BY <2>1 DEF n
  <2> QED
    BY <2>1, <2>2 DEF n
<1>6. CASE inverse = q
  <2>1. y = Dft(Reduce(a), Omega("Forward", k))
    BY <1>1, <1>3, <1>5, ForwardOutput
  <2>2. Reduce(a) \in Polynomial /\ Len(Reduce(a)) = 2^k
    BY <1>1, ReduceDef
  <2> HIDE DEF y
  <2>3. Transform("Inverse", k, y) = Reduce(a)
    BY <1>3, <1>5, <2>1, <2>2, InverseOfForward
  <2>4. inverse.coefficients = WriteBigInts(y) /\ inverse.direction = "Inverse"
    BY <1>6 DEF NttRequest
  <2>5. inverse.coefficients[1].kind = "number"
    BY <1>3, <1>5, <2>4 DEF WriteBigInts, JsonNumber
  <2>6. ServesTransform("Inverse", k, y)
    BY <1>1, <1>3, Answered
  <2>7. /\ back.error = "Ok"
        /\ OutputOf(back) = Reduce(a)
        /\ back.response.proof_of_execution = ProofHex("Goldilocks", "Inverse", k, Reduce(a))
        /\ back.response.field = "Goldilocks"
        /\ back.response.direction = "Inverse"
        /\ back.response.degree_log2 = k
    BY <1>2, <1>3, <1>6, <2>3, <2>6 DEF ServesTransform
  <2> QED
    BY <1>2, <2>4, <2>5, <2>7
<1>7. CASE inverse = NttRequest("Inverse", k, s)
  <2> HIDE DEF s
  <2>1. inverse.coefficients[1].kind = "string"
    BY <1>3, <1>5, <1>7 DEF NttRequest
  <2>2. back = Refused("SchemaMismatch")
    BY <1>1, <1>2, <1>3, <1>5, <1>7, StringsRefused
  <2> QED
    BY <1>2, <2>1, <2>2 DEF Refused
<1> QED
  BY <1>2, <1>4, <1>6, <1>7

(* What is read of a forward response is the transform of the request,     *)
(* and a degree is refused exactly beyond the free tier or the field's     *)
(* two-adicity (goldilocks_ntt and ntt_recursive, through serve).          *)
THEOREM ResponseIsTransform == Spec => []ForwardIsDft
<1>1. ASSUME Exchanged
      PROVE  ForwardIsDft
  <2> SUFFICES ASSUME spectrum # Pending
               PROVE  IF logN > FREE_TIER_MAX_LOG2 THEN spectrum = Refused("OutOfTier")
                      ELSE IF logN > TWO_ADICITY THEN spectrum = Refused("SimulatorFailed")
                      ELSE /\ spectrum.error = "Ok"
                           /\ OutputOf(spectrum) = Dft(Values(request), TwoAdicGenerator(logN))
    BY DEF ForwardIsDft
  <2>1. PICK k \in 1..30, a \in Polynomials : Asked(k, a)
    BY <1>1 DEF Exchanged
  <2>2. /\ a \in Seq(U64) /\ Len(a) = 2^k /\ logN = k
        /\ request = NttRequest("Forward", k, WriteBigInts(a))
        /\ ServesTransform("Forward", k, a)
    BY <2>1, TheRequest
  <2>3. spectrum = ServeRequest(request)
    BY <1>1 DEF Exchanged
  <2>4. /\ Values(request) = a
        /\ k > FREE_TIER_MAX_LOG2 => spectrum = Refused("OutOfTier")
        /\ k <= FREE_TIER_MAX_LOG2 /\ k > TWO_ADICITY => spectrum = Refused("SimulatorFailed")
        /\ spectrum.error = "Ok" <=> k <= FREE_TIER_MAX_LOG2 /\ k <= TWO_ADICITY
        /\ spectrum.error = "Ok" => OutputOf(spectrum) = Transform("Forward", k, a)
    BY <2>2, <2>3 DEF ServesTransform
  <2>5. k \in Nat /\ FREE_TIER_MAX_LOG2 \in Nat /\ TWO_ADICITY \in Nat
    BY FieldAssumption DEF FREE_TIER_MAX_LOG2
  <2>6. ASSUME k <= TWO_ADICITY
        PROVE  Transform("Forward", k, a) = Dft(a, TwoAdicGenerator(k))
    <3>1. Transform("Forward", k, a) = Dft(Reduce(a), Omega("Forward", k))
      BY <2>2, <2>5, <2>6, ForwardOutput
    <3>2. Dft(a, Omega("Forward", k)) = Dft(Reduce(a), Omega("Forward", k))
      BY <2>2, DftReduces
    <3> QED
      BY <3>1, <3>2, <2>5, <2>6, Roots
  <2>7. CASE k > FREE_TIER_MAX_LOG2
    BY <2>2, <2>4, <2>7
  <2>8. CASE k <= FREE_TIER_MAX_LOG2 /\ k > TWO_ADICITY
    BY <2>2, <2>4, <2>5, <2>8
  <2>9. CASE k <= FREE_TIER_MAX_LOG2 /\ k <= TWO_ADICITY
    BY <2>2, <2>4, <2>5, <2>6, <2>9
  <2> QED
    BY <2>5, <2>7, <2>8, <2>9
<1> QED
  BY <1>1, Exchange, PTL

(* The inverse of what was read is what was transformed; strings are       *)
(* refused as coefficients (parse_coefficients, build_response_bytes).     *)
THEOREM ResponseCanBePostedBack == Spec => []RoundTrip
<1>1. ASSUME Exchanged
      PROVE  RoundTrip
  <2> SUFFICES ASSUME back # Pending
               PROVE  IF inverse.coefficients[1].kind = "number"
                      THEN back.error = "Ok" /\ OutputOf(back) = Canonical(request)
                      ELSE back.error = "SchemaMismatch"
    BY DEF RoundTrip
  <2>1. PICK k \in 1..30, a \in Polynomials : Asked(k, a)
    BY <1>1 DEF Exchanged
  <2>2. /\ a \in Seq(U64) /\ Len(a) = 2^k
        /\ request = NttRequest("Forward", k, WriteBigInts(a))
        /\ ServesTransform("Forward", k, a)
    BY <2>1, TheRequest
  <2>3. Values(request) = a
    BY <2>2 DEF ServesTransform
  <2>4. \/ inverse.coefficients[1].kind = "number" /\ back.error = "Ok" /\ OutputOf(back) = Reduce(a)
        \/ inverse.coefficients[1].kind = "string" /\ back.error = "SchemaMismatch"
    BY <1>1, <2>1, BackAnswered
  <2> QED
    BY <2>3, <2>4 DEF Canonical
<1> QED
  BY <1>1, Exchange, PTL

(* The service multiplies polynomials: the inverse of the product of two   *)
(* spectra is their cyclic convolution (goldilocks_ntt in both directions).*)
THEOREM SpectraMultiply == Spec => []MultipliesPolynomials
<1>1. ASSUME Exchanged
      PROVE  MultipliesPolynomials
  <2> SUFFICES ASSUME spectrum.error = "Ok", NEW b \in FactorsOf(logN)
               PROVE  LET other == OutputOf(ServeRequest(ForwardOf(logN, b)))
                          product == WriteBigInts(Product(OutputOf(spectrum), other))
                      IN  OutputOf(ServeRequest(NttRequest("Inverse", logN, product)))
                            = Convolution(Values(request), b)
    BY DEF MultipliesPolynomials
  <2>1. PICK k \in 1..30, a \in Polynomials : Asked(k, a)
    BY <1>1 DEF Exchanged
  <2>2. /\ a \in Seq(U64) /\ Len(a) = 2^k /\ logN = k
        /\ request = NttRequest("Forward", k, WriteBigInts(a))
        /\ "Forward" \in Directions /\ "Inverse" \in Directions
        /\ ServesTransform("Forward", k, a)
    BY <2>1, TheRequest
  <2>3. b \in Seq(U64) /\ Len(b) = 2^k
    BY <2>2, InputsAssumption DEF FactorsOf
  <2>4. spectrum = ServeRequest(request)
    BY <1>1, PendingIsNoAnswer DEF Exchanged
  <2> DEFINE w == Omega("Forward", k)
             c == Reduce(a)
             d == Reduce(b)
             x == Product(Dft(c, w), Dft(d, w))
  <2>5. k \in Nat /\ k <= FREE_TIER_MAX_LOG2 /\ k <= TWO_ADICITY
        /\ Values(request) = a /\ OutputOf(spectrum) = Transform("Forward", k, a)
    <3>1. /\ k <= FREE_TIER_MAX_LOG2 /\ k <= TWO_ADICITY
          /\ Values(request) = a /\ OutputOf(spectrum) = Transform("Forward", k, a)
      <4> HIDE DEF w, c, d, x
      <4> QED
        BY <2>2, <2>4 DEF ServesTransform
    <3> QED
      BY <3>1
  <2>6. OutputOf(ServeRequest(ForwardOf(k, b))) = Transform("Forward", k, b)
    <3>1. ServesTransform("Forward", k, b)
      BY <2>2, <2>3, Answered
    <3> QED
      BY <2>5, <3>1 DEF ServesTransform, ForwardOf
  <2>7. Transform("Forward", k, a) = Dft(c, w) /\ Transform("Forward", k, b) = Dft(d, w)
    BY <2>2, <2>3, <2>5, ForwardOutput
  <2>8. c \in Polynomial /\ Len(c) = 2^k /\ d \in Polynomial /\ Len(d) = 2^k
    BY <2>2, <2>3, ReduceDef
  <2>9. x \in Polynomial /\ Len(x) = 2^k /\ Transform("Inverse", k, x) = Convolution(c, d)
    <3> HIDE DEF c, d
    <3> QED
      BY <2>5, <2>8, InverseOfProduct
  <2>10. Convolution(c, d) = Convolution(a, b)
    <3>1. Len(a) > 0
      BY <2>2, <2>5, TwoToThe
    <3> QED
      BY <2>2, <2>3, <3>1, ConvolutionReduces
  <2>11. Product(OutputOf(spectrum), OutputOf(ServeRequest(ForwardOf(logN, b)))) = x
    BY <2>2, <2>5, <2>6, <2>7
  <2> HIDE DEF x, c, d
  <2>12. x \in Seq(U64)
    BY <2>9, ReducePolynomial
  <2>13. OutputOf(ServeRequest(NttRequest("Inverse", k, WriteBigInts(x))))
           = Transform("Inverse", k, x)
    <3>1. ServesTransform("Inverse", k, x)
      BY <2>2, <2>9, <2>12, Answered
    <3> QED
      BY <2>5, <3>1 DEF ServesTransform
  <2> QED
    BY <2>2, <2>5, <2>9, <2>10, <2>11, <2>13
<1> QED
  BY <1>1, Exchange, PTL

(* A proof of execution follows from what the response holds               *)
(* (compute_proof, build_response_bytes).                                  *)
THEOREM ResponseProvesItself == Spec => []ProofVerifies
<1>1. ASSUME Exchanged
      PROVE  ProofVerifies
  <2>1. PICK k \in 1..30, a \in Polynomials : Asked(k, a)
    BY <1>1 DEF Exchanged
  <2>2. /\ a \in Seq(U64) /\ Len(a) = 2^k
        /\ request = NttRequest("Forward", k, WriteBigInts(a))
        /\ ServesTransform("Forward", k, a)
    BY <2>1, TheRequest
  <2>3. ASSUME spectrum.error = "Ok"
        PROVE  LET r == spectrum.response
               IN  r.proof_of_execution
                     = ProofHex(r.field, r.direction, r.degree_log2, ReadOutput(r))
    <3>1. spectrum = ServeRequest(request)
      BY <1>1, <2>3, PendingIsNoAnswer DEF Exchanged
    <3> QED
      BY <2>2, <2>3, <3>1 DEF ServesTransform, OutputOf
  <2>4. ASSUME back.error = "Ok"
        PROVE  LET r == back.response
               IN  r.proof_of_execution
                     = ProofHex(r.field, r.direction, r.degree_log2, ReadOutput(r))
    <3>1. back # Pending
      BY <2>4, PendingIsNoAnswer
    <3>2. /\ OutputOf(back) = Reduce(a)
          /\ back.response.proof_of_execution = ProofHex("Goldilocks", "Inverse", k, Reduce(a))
          /\ back.response.field = "Goldilocks"
          /\ back.response.direction = "Inverse"
          /\ back.response.degree_log2 = k
      BY <1>1, <2>1, <2>4, <3>1, BackAnswered
    <3> QED
      BY <3>2 DEF OutputOf
  <2> QED
    BY <2>3, <2>4 DEF ProofVerifies
<1> QED
  BY <1>1, Exchange, PTL

(* Two polynomials with the same transform are the same.                   *)
LEMMA ForwardInjective ==
  ASSUME NEW k \in Nat, k <= TWO_ADICITY, NEW a \in Seq(U64), Len(a) = 2^k,
         NEW b \in Seq(U64), Len(b) = 2^k,
         Transform("Forward", k, a) = Transform("Forward", k, b)
  PROVE  Reduce(a) = Reduce(b)
<1> DEFINE w == Omega("Forward", k)
<1>1. Transform("Forward", k, a) = Dft(Reduce(a), w) /\ Transform("Forward", k, b) = Dft(Reduce(b), w)
  BY ForwardOutput
<1>2. /\ Reduce(a) \in Polynomial /\ Len(Reduce(a)) = 2^k
      /\ Reduce(b) \in Polynomial /\ Len(Reduce(b)) = 2^k
  BY ReduceDef
<1>3. Transform("Inverse", k, Dft(Reduce(a), w)) = Reduce(a)
      /\ Transform("Inverse", k, Dft(Reduce(b), w)) = Reduce(b)
  BY <1>2, InverseOfForward
<1> QED
  BY <1>1, <1>3

(* The inverse transform is one-to-one as well.                            *)
LEMMA InverseInjective ==
  ASSUME NEW k \in Nat, k <= TWO_ADICITY, NEW a \in Seq(U64), Len(a) = 2^k,
         NEW b \in Seq(U64), Len(b) = 2^k,
         Transform("Inverse", k, a) = Transform("Inverse", k, b)
  PROVE  Reduce(a) = Reduce(b)
<1> DEFINE n == 2^k
           w == Omega("Forward", k)
           v == Omega("Inverse", k)
           c == Reduce(a)
           e == Reduce(b)
           x == Dft(c, v)
           y == Dft(e, v)
           m == FromU64(n)
           u == TryInverse(m)
<1>1. /\ c \in Polynomial /\ Len(c) = n
      /\ e \in Polynomial /\ Len(e) = n
  BY ReduceDef
<1>2. InverseRoots(v, w, n) /\ v \in Field
  BY Roots, UnitsType DEF InverseRoots, PrimitiveRoot
<1>3. m \in Units /\ u \in Units
  BY LengthIsUnit
<1>4. \A i \in 1..n : Mul(x[i], u) = Mul(y[i], u)
  BY InverseOutput
<1>5. /\ \A i \in 1..n : Dft(x, w)[i] = Mul(c[i], m)
      /\ \A i \in 1..n : Dft(y, w)[i] = Mul(e[i], m)
  <2> HIDE DEF c, e, v, w
  <2> QED
    BY <1>1, <1>2, DftInverse
<1> HIDE DEF v, w, c, e
<1>6. x \in Polynomial /\ Len(x) = n /\ y \in Polynomial /\ Len(y) = n
  BY <1>1, <1>2, DftDef
<1> HIDE DEF x, y, m, u
<1>7. x = y
  <2>1. ASSUME NEW i \in 1..n
        PROVE  x[i] = y[i]
    <3>1. x[i] \in Field /\ y[i] \in Field /\ u \in Field
      BY <1>3, <1>6, PolynomialIs, UnitsType
    <3>2. Mul(u, x[i]) = Mul(u, y[i])
      BY <1>4, <3>1, MulLaws
    <3> QED
      BY <1>3, <3>1, <3>2, Cancel
  <2> QED
    BY <1>6, <2>1, PolynomialEqual
<1>8. c = e
  <2>1. ASSUME NEW i \in 1..n
        PROVE  c[i] = e[i]
    <3>1. c[i] \in Field /\ e[i] \in Field /\ m \in Field
      BY <1>1, <1>3, PolynomialIs, UnitsType
    <3>2. Mul(m, c[i]) = Mul(m, e[i])
      BY <1>5, <1>7, <3>1, MulLaws
    <3> QED
      BY <1>3, <3>1, <3>2, Cancel
  <2> QED
    BY <1>1, <2>1, PolynomialEqual
<1> QED
  BY <1>8 DEF c, e

\* v is a request of integers with the answer to it.
IsWork(v, d, k, x) ==
  /\ d \in Directions /\ k \in 1..30 /\ x \in Seq(U64) /\ Len(x) = 2^k
  /\ v.request = NttRequest(d, k, WriteBigInts(x))
  /\ v.answer = ServeRequest(v.request)

(* Its proof is a digest of the field, the direction, the degree and what  *)
(* the coefficients are transformed into.                                  *)
LEMMA ProofOfWork ==
  ASSUME NEW v, NEW d, NEW k, NEW x, IsWork(v, d, k, x), v.answer.error = "Ok"
  PROVE  /\ k <= TWO_ADICITY /\ Transform(d, k, x) \in Seq(U64)
         /\ v.answer.response.proof_of_execution
              = ProofHex("Goldilocks", d, k, Transform(d, k, x))
<1>1. /\ d \in Directions /\ k \in 1..30 /\ x \in Seq(U64) /\ Len(x) = 2^k
      /\ v.answer = ServeRequest(NttRequest(d, k, WriteBigInts(x)))
  BY Zenon DEF IsWork
<1>2. ServesTransform(d, k, x)
  BY <1>1, Answered
<1> QED
  BY <1>1, <1>2, Zenon DEF ServesTransform

OneToOne(d, k) ==
  \A x, y \in Seq(U64) :
    Len(x) = 2^k /\ Len(y) = 2^k /\ Transform(d, k, x) = Transform(d, k, y)
    => Reduce(x) = Reduce(y)

(* Both transforms are one-to-one.                                         *)
LEMMA TransformInjective ==
  ASSUME NEW d \in Directions, NEW k \in 1..30, k <= TWO_ADICITY
  PROVE  OneToOne(d, k)
<1> SUFFICES ASSUME NEW x \in Seq(U64), Len(x) = 2^k, NEW y \in Seq(U64), Len(y) = 2^k,
                    Transform(d, k, x) = Transform(d, k, y)
             PROVE  Reduce(x) = Reduce(y)
  BY DEF OneToOne
<1>1. k \in Nat
  OBVIOUS
<1>2. d = "Forward" \/ d = "Inverse"
  BY DEF Directions
<1> QED
  BY <1>1, <1>2, ForwardInjective, InverseInjective

(* Every exchange that is served is one of these.                          *)
LEMMA ServedIsWork ==
  ASSUME Exchanged, NEW v \in Own \cup Others, v.answer.error = "Ok"
  PROVE  \E d \in Directions, k \in 1..30, x \in Seq(U64) : IsWork(v, d, k, x)
<1>1. PICK k \in 1..30, a \in Polynomials : Asked(k, a)
  BY DEF Exchanged
<1>2. /\ a \in Seq(U64) /\ Len(a) = 2^k /\ logN = k
      /\ request = NttRequest("Forward", k, WriteBigInts(a))
      /\ "Forward" \in Directions /\ "Inverse" \in Directions
      /\ ServesTransform("Forward", k, a)
  BY <1>1, TheRequest
<1>3. CASE v = [request |-> request, answer |-> spectrum]
  <2>1. spectrum = ServeRequest(request)
    BY <1>3, PendingIsNoAnswer DEF Exchanged
  <2>2. IsWork(v, "Forward", k, a)
    BY <1>2, <1>3, <2>1 DEF IsWork
  <2> QED
    BY <1>2, <2>2
<1>4. CASE v = [request |-> inverse, answer |-> back]
  <2>1. back.error = "Ok" /\ back # Pending
    BY <1>4, PendingIsNoAnswer
  <2>2. spectrum.error = "Ok" /\ inverse \in Inverses /\ back = ServeRequest(inverse)
        /\ spectrum = ServeRequest(request)
    BY <2>1, PendingIsNoAnswer DEF Exchanged
  <2> DEFINE y == Transform("Forward", k, a)
             s == spectrum.response.output
  <2>3. /\ y \in Seq(U64) /\ Len(y) = 2^k /\ OutputOf(spectrum) = y
        /\ Len(s) = 2^k /\ \A i \in 1..(2^k) : s[i].kind = "string"
    BY <1>2, <2>2 DEF ServesTransform
  <2>4. inverse = NttRequest("Inverse", k, WriteBigInts(y))
    <3>1. inverse.coefficients[1].kind = "number"
      BY <1>1, <2>1, BackAnswered
    <3>2. 1 \in 1..(2^k)
      <4> DEFINE n == 2^k
      <4>1. n \in Nat /\ n > 0
        BY TwoToThe
      <4> HIDE DEF n
      <4>2. 1 \in 1..n
        BY <4>1
      <4> QED
        BY <4>2 DEF n
    <3>3. s[1].kind = "string"
      BY <2>3, <3>2
    <3> HIDE DEF s, y
    <3>4. inverse # NttRequest("Inverse", k, s)
      BY <3>1, <3>3 DEF NttRequest
    <3> QED
      BY <1>2, <2>2, <2>3, <3>4 DEF Inverses, logN, s
  <2>5. IsWork(v, "Inverse", k, y)
    <3> HIDE DEF y
    <3> QED
      BY <1>2, <1>4, <2>2, <2>3, <2>4 DEF IsWork
  <2> QED
    BY <1>2, <2>3, <2>5
<1>5. CASE v \in Others
  <2>0. PICK m \in 1..30 :
               \E d \in Directions, b \in FactorsOf(m) :
                 v = [request |-> NttRequest(d, m, WriteBigInts(b)),
                      answer |-> ServeRequest(NttRequest(d, m, WriteBigInts(b)))]
    BY <1>5 DEF Others
  <2>1. PICK d \in Directions, b \in FactorsOf(m) :
               v = [request |-> NttRequest(d, m, WriteBigInts(b)),
                    answer |-> ServeRequest(NttRequest(d, m, WriteBigInts(b)))]
    BY <2>0
  <2>2. b \in Seq(U64) /\ Len(b) = 2^m
    BY InputsAssumption DEF FactorsOf
  <2>3. IsWork(v, d, m, b)
    BY <2>1, <2>2 DEF IsWork
  <2> QED
    BY <2>2, <2>3
<1> QED
  BY <1>3, <1>4, <1>5 DEF Own

(* A proof of execution belongs to one piece of work: although the digest  *)
(* leaves out the coefficients, an equal proof answers an equal request,   *)
(* of any direction and degree (compute_proof).                            *)
THEOREM ProofDeterminesWork == Spec => []ProofBindsWork
<1>1. ASSUME Exchanged
      PROVE  ProofBindsWork
  <2>0. SUFFICES ASSUME NEW v \in Own, NEW w \in Own \cup Others,
                      v.answer.error = "Ok", w.answer.error = "Ok",
                      v.answer.response.proof_of_execution
                        = w.answer.response.proof_of_execution
               PROVE  /\ v.request.direction = w.request.direction
                      /\ v.request.degree_log2 = w.request.degree_log2
                      /\ Canonical(v.request) = Canonical(w.request)
    BY DEF ProofBindsWork
  <2>1. PICK d \in Directions, k \in 1..30, x \in Seq(U64) : IsWork(v, d, k, x)
    BY <1>1, <2>0, ServedIsWork
  <2>2. PICK e \in Directions, m \in 1..30, y \in Seq(U64) : IsWork(w, e, m, y)
    BY <1>1, <2>0, ServedIsWork
  <2>3. d = e /\ k = m /\ Reduce(x) = Reduce(y)
    <3> DEFINE s == Transform(d, k, x)
               t == Transform(e, m, y)
    <3>1. /\ k <= TWO_ADICITY /\ s \in Seq(U64)
          /\ v.answer.response.proof_of_execution = ProofHex("Goldilocks", d, k, s)
      BY <2>0, <2>1, ProofOfWork
    <3>2. /\ t \in Seq(U64)
          /\ w.answer.response.proof_of_execution = ProofHex("Goldilocks", e, m, t)
      BY <2>0, <2>2, ProofOfWork
    <3>3. k \in 0..U8_MAX /\ m \in 0..U8_MAX /\ "Goldilocks" \in Fields
      BY DEF U8_MAX, Fields
    <3>4. ProofHex("Goldilocks", d, k, s) = ProofHex("Goldilocks", e, m, t)
      BY <2>0, <3>1, <3>2
    <3>5. d = e /\ k = m /\ s = t
      <4> HIDE DEF s, t
      <4> QED
        BY <3>1, <3>2, <3>3, <3>4, ProofBinds
    <3>6. Len(x) = 2^k /\ Len(y) = 2^m
      BY <2>1, <2>2 DEF IsWork
    <3>7. OneToOne(d, k)
      BY <3>1, TransformInjective
    <3>8. Reduce(x) = Reduce(y)
      <4>1. Len(y) = 2^k /\ Transform(d, k, x) = Transform(d, k, y)
        BY <3>5, <3>6, Zenon
      <4> QED
        BY <3>6, <3>7, <4>1, Zenon DEF OneToOne
    <3> QED
      BY <3>5, <3>8
  <2>4. /\ v.request.direction = d /\ v.request.degree_log2 = k
        /\ w.request.direction = e /\ w.request.degree_log2 = m
    BY <2>1, <2>2 DEF IsWork, NttRequest
  <2>5. Values(v.request) = x /\ Values(w.request) = y
    <3>1. ServesTransform(d, k, x) /\ ServesTransform(e, m, y)
      BY <2>1, <2>2, Answered DEF IsWork
    <3> QED
      BY <2>1, <2>2, <3>1 DEF IsWork, ServesTransform
  <2> QED
    BY <2>3, <2>4, <2>5 DEF Canonical
<1> QED
  BY <1>1, Exchange, PTL

=============================================================================
