-------------------------- MODULE ProofOfExecution --------------------------
(***************************************************************************)
(* The proof of execution of worker/src/backend.rs (compute_proof) and its *)
(* hexadecimal form in worker/src/handler.rs: a SHA-256 digest over the    *)
(* tags of field and direction, the degree, and the output as little-      *)
(* endian 64-bit words.  A byte is a number below 256.  SHA-256 is modelled*)
(* as injective, which is what its collision resistance amounts to here:   *)
(* the digest is the bytes that went into it.                              *)
(***************************************************************************)
EXTENDS Handler, Sequences

BYTE == 256
WORD == 8

FieldTag(field) == [Goldilocks |-> 0, BabyBear |-> 1][field]

\* Mutant: both directions have the tag of the first.
DirectionTagForward(direction) == 0

DirectionTag(direction) == [Forward |-> 0, Inverse |-> 1][direction]

(***************************************************************************)
(* u64::to_le_bytes, and the numbers it is defined on: those of which      *)
(* nothing is left after eight bytes.                                      *)
(***************************************************************************)
Shr(x) == x \div BYTE

U64 == {x \in Nat : Shr(Shr(Shr(Shr(Shr(Shr(Shr(Shr(x)))))))) = 0}

ToLeBytes(x) ==
  LET x1 == Shr(x)  x2 == Shr(x1)  x3 == Shr(x2)  x4 == Shr(x3)
      x5 == Shr(x4) x6 == Shr(x5)  x7 == Shr(x6)
  IN  <<x % BYTE, x1 % BYTE, x2 % BYTE, x3 % BYTE,
        x4 % BYTE, x5 % BYTE, x6 % BYTE, x7 % BYTE>>

Header(field, direction, degree) == <<FieldTag(field), DirectionTag(direction), degree>>

Words(output) ==
  [i \in 1..(WORD * Len(output)) |->
     ToLeBytes(output[((i - 1) \div WORD) + 1])[((i - 1) % WORD) + 1]]

Sha256(bytes) == bytes

ComputeProof(field, direction, degree, output) ==
  Sha256(Header(field, direction, degree) \o Words(output))

-----------------------------------------------------------------------------
\* The digits nibble_to_hex writes; it has an arm for what is no nibble.
HexDigits == <<"0", "1", "2", "3", "4", "5", "6", "7",
               "8", "9", "a", "b", "c", "d", "e", "f">>

NibbleToHex(n) == IF n \in 0..15 THEN HexDigits[n + 1] ELSE "?"

\* Two digits for each byte, the upper half first.
HexEncode(bytes) ==
  [i \in 1..(2 * Len(bytes)) |->
     LET byte == bytes[(i + 1) \div 2]
     IN  NibbleToHex(IF i % 2 = 1 THEN byte \div 16 ELSE byte % 16)]

ProofHex(field, direction, degree, output) ==
  HexEncode(ComputeProof(field, direction, degree, output))

=============================================================================
