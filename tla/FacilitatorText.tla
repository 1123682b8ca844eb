-------------------------- MODULE FacilitatorText --------------------------
(***************************************************************************)
(* How worker/src/x402.rs reads the facilitator's answers.  It does not    *)
(* parse JSON: it drops all white space and looks for a piece of text.     *)
(* A text is a sequence of JSON tokens.  A string is one token: its value  *)
(* is what it holds besides white space, which stands inside it at gaps.   *)
(* Keys are taken to hold no quotes; in a value they are escaped, and what *)
(* the parsers search for begins and ends at quotes that are not.          *)
(* The answers of module Edge are the classes that differ here.            *)
(***************************************************************************)
EXTENDS Handler, SequencesExt

Space == [kind |-> "space", value |-> " ", gaps |-> {}]
Punctuation(c) == [kind |-> "punctuation", value |-> c, gaps |-> {}]
Literal(l) == [kind |-> "literal", value |-> l, gaps |-> {}]
Broken(s, gaps) == [kind |-> "string", value |-> s, gaps |-> gaps]
Text(s) == Broken(s, {})

\* A base58 signature of 64 bytes, a shorter one, and text that is no base58.
SignatureBytes(s) == IF s = "sig64" THEN 64 ELSE IF s = "short" THEN 32 ELSE -1

-----------------------------------------------------------------------------
\* Mutant: the text is searched as it comes.
StripNothing(text) == text

\* What is left of a token.
Bare(token) == [token EXCEPT !.gaps = {}]
Kept(token) == IF token = Space THEN <<>> ELSE <<Bare(token)>>

StripWhitespace(text) == FlattenSeq([i \in 1..Len(text) |-> Kept(text[i])])

\* The positions at which "key": starts.
Occurrences(text, key) ==
  {i \in 1..(Len(text) - 2) : text[i] = Text(key) /\ text[i + 1] = Punctuation(":")}

FlagIsTrue(text, key) ==
  \E i \in Occurrences(text, key) : text[i + 2] = Literal("true")

\* extract_string_field: the first place where a string follows the key.
StringFields(text, key) ==
  {i \in Occurrences(text, key) : text[i + 2].kind = "string"}

ExtractStringField(text, key) ==
  text[Min(StringFields(text, key)) + 2].value

\* Mutant: whatever decodes is taken for a signature.
DecodeAnyLength(s) == Check(SignatureBytes(s) >= 0, "SettleRejected")

DecodeSolanaSignature(s) == Check(SignatureBytes(s) = 64, "SettleRejected")

ParseVerifyText(text) ==
  Check(FlagIsTrue(StripWhitespace(text), "isValid"), "VerifyRejected")

ParseSettleText(text) ==
  LET normalized == StripWhitespace(text)
  IN  IF FlagIsTrue(normalized, "success") /\ StringFields(normalized, "transaction") # {}
      THEN DecodeSolanaSignature(ExtractStringField(normalized, "transaction"))
      ELSE "SettleRejected"

-----------------------------------------------------------------------------
(***************************************************************************)
(* External: the answers a facilitator may write, objects whose members    *)
(* are scalars or objects of one scalar, each key once, and their reading  *)
(* as JSON.  Holding(key, value) is the object {key: value}.               *)
(***************************************************************************)
Literals == [kind : {"literal"}, value : STRING, gaps : {{}}]
Strings == [kind : {"string"}, value : STRING, gaps : SUBSET Nat]
Scalars == Literals \cup Strings
Tokens == Scalars \cup {Punctuation(c) : c \in {"{", "}", ":", ","}}

Holding(key, value) ==
  <<Punctuation("{"), key, Punctuation(":"), value, Punctuation("}")>>

Members == [key : Strings, tokens : Seq(Tokens)]
Member(key, tokens) == [key |-> key, tokens |-> tokens]

IsValue(tokens) ==
  \/ Len(tokens) = 1 /\ tokens[1] \in Scalars
  \/ /\ Len(tokens) = 5 /\ tokens[2] \in Strings /\ tokens[4] \in Scalars
     /\ tokens = Holding(tokens[2], tokens[4])

IsObject(members) ==
  /\ members \in Seq(Members)
  /\ \A i \in 1..Len(members) : IsValue(members[i].tokens)
  /\ \A i, j \in 1..Len(members) : members[i].key = members[j].key => i = j

\* The i-th member, with what precedes it.
Block(i, member) ==
  <<Punctuation(IF i = 1 THEN "{" ELSE ","), member.key, Punctuation(":")>>
  \o member.tokens

Joined(members) == FlattenSeq([i \in 1..Len(members) |-> Block(i, members[i])])

\* A space follows the tokens that spaced names.
Spaced(token, spaced) == IF token.value \in spaced THEN <<token, Space>> ELSE <<token>>

Spread(tokens, spaced) == FlattenSeq([i \in 1..Len(tokens) |-> Spaced(tokens[i], spaced)])

Write(members, spaced) ==
  Spread(Append(IF members = <<>> THEN <<Punctuation("{")>> ELSE Joined(members),
                Punctuation("}")),
         spaced)

\* A JSON reader's view: the member of the object itself that has the key.
Has(members, key, tokens) == Member(key, tokens) \in ToSet(members)

Flat(members) == \A m \in ToSet(members) : Len(m.tokens) = 1

\* No white space inside a key or a string.
Whole(members) ==
  \A m \in ToSet(members) :
    m.key.gaps = {} /\ \A token \in ToSet(m.tokens) : token.gaps = {}

=============================================================================
