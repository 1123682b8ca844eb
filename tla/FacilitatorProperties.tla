----------------------- MODULE FacilitatorProperties -----------------------
(***************************************************************************)
(* One reading of a facilitator's answer by the parsers of x402.rs, and    *)
(* what a JSON reader makes of it.                                         *)
(***************************************************************************)
EXTENDS FacilitatorText

CONSTANT Answers  \* path, members and spacing of what a facilitator writes

ASSUME AnswersAssumption == \A a \in Answers : IsObject(a.members)

VARIABLES answer, reading

InitAnswer == answer \in Answers /\ reading = "none"

ReadAnswer ==
  /\ reading = "none"
  /\ reading' = LET text == Write(answer.members, answer.spaced)
                IN  IF answer.path = "/verify" THEN ParseVerifyText(text)
                                               ELSE ParseSettleText(text)
  /\ UNCHANGED answer

AnswerSpec == InitAnswer /\ [][ReadAnswer]_<<answer, reading>>

(* However it is spaced and ordered, an answer of /verify whose isValid is *)
(* true is taken; and one without it is not, unless the flag stands in a   *)
(* nested object or a key has white space in it (parse_verify_response).   *)
VerifyReadAsJson ==
  LET valid == Has(answer.members, Text("isValid"), <<Literal("true")>>)
  IN  reading # "none" /\ answer.path = "/verify" =>
        /\ valid => reading = "Ok"
        /\ Flat(answer.members) /\ Whole(answer.members) => (reading = "Ok" => valid)

(* An answer of /settle releases a result exactly if its success is true   *)
(* and its transaction is a signature of 64 bytes, however it is spaced    *)
(* and ordered; only a nested object, or white space inside a key or a     *)
(* string, can make the text differ from what a JSON reader sees           *)
(* (parse_settle_response).                                                *)
SettleReadAsJson ==
  /\ reading # "none" /\ answer.path = "/settle"
  /\ Flat(answer.members) /\ Whole(answer.members)
  => (reading = "Ok" <=>
        /\ Has(answer.members, Text("success"), <<Literal("true")>>)
        /\ Has(answer.members, Text("transaction"), <<Text("sig64")>>))

=============================================================================
