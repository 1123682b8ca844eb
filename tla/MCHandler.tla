----------------------------- MODULE MCHandler -----------------------------
(***************************************************************************)
(* What the worker makes of each text it is given: serve() runs once on    *)
(* every body of a set that meets each boundary of the pipeline, alone and *)
(* together with the others; the two parsers of x402.rs run once on every  *)
(* answer of a set that varies members, their order and the spacing.       *)
(***************************************************************************)
EXTENDS HandlerClaims

CONSTANT NoInput

SampleBodies ==
  [json         : BOOLEAN,
   field        : {"Goldilocks", "BabyBear", "Mersenne31"},
   direction    : {"Forward", "Inverse", "forward"},
   degree       : {-1, 0, 1, 2, 8, 9, 12, 13, 16, 17, 30, 31, 255, 256},
   coefficients : {-1, 0, 1, 2, 4, 256, 4095, 4096, 4097, 8192}]

\* At most one member; Extra is what an extension or an error adds, or a misspelt key.
Maybe(key, values) == {<<>>} \cup {<<Member(Text(key), v)>> : v \in values}
Flags == {<<Literal("true")>>, <<Literal("false")>>, <<Text("true")>>}
Transactions == {<<Literal("null")>>, <<Broken("sig64", {32})>>}
                \cup {<<Text(s)>> : s \in {"sig64", "short", "refused"}}
Extra(flag) ==
  Maybe("extra", {<<Literal("null")>>, <<Text(flag)>>,
                  Holding(Text(flag), Literal("true")),
                  Holding(Text("transaction"), Text("short"))})
  \cup {<<Member(Broken(flag, {3}), <<Literal("true")>>)>>,
        <<Member(Broken("transaction", {3}), <<Text("sig64")>>)>>}

VerifyAnswers == {f \o x : f \in Maybe("isValid", Flags), x \in Extra("isValid")}
                 \cup {x \o f : f \in Maybe("isValid", Flags), x \in Extra("isValid")}

SettleAnswers ==
  UNION {{f \o t \o x, t \o x \o f, x \o f \o t} :
           f \in Maybe("success", Flags),
           t \in Maybe("transaction", Transactions),
           x \in Extra("success")}

Spacings == {{}, {":", ","}, {"{", "}", ":", ",", "true", "sig64"}}

SampleAnswers ==
  [path : {"/verify"}, members : VerifyAnswers, spaced : Spacings]
  \cup [path : {"/settle"}, members : SettleAnswers, spaced : Spacings]

MCInit ==
  \/ Init /\ answer = NoInput /\ reading = "none"
  \/ InitAnswer /\ body = NoInput /\ outcome = "none"

MCNext ==
  \/ body # NoInput /\ Run /\ UNCHANGED <<answer, reading>>
  \/ answer # NoInput /\ ReadAnswer /\ UNCHANGED <<body, outcome>>

MCSpec == MCInit /\ [][MCNext]_<<body, outcome, answer, reading>>

=============================================================================
