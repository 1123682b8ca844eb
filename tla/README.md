# Verification of goldilocks-ntt-hdl-x402

TLA+ models of the paid number-theoretic-transform service in this repository,
TLC configurations that check them on small instances, and TLAPS proofs of the
results that matter most for every instance.

## 1. The system

A Cloudflare Worker sells NTT computations.  A buyer posts a polynomial to
`/ntt`, is told the price (402), signs a Solana payment, and posts again with
the payment in the `X-Payment` header.  The worker asks an x402 facilitator to
verify the payment, computes, asks the facilitator to settle, and returns the
result with the signature of the transaction.  Three Anchor programs on Solana
devnet are to keep the donors' shares, the prices and the receipts.

| Component | State it keeps | Operations | Modelled in |
| :-- | :-- | :-- | :-- |
| `worker/src/edge.rs` | none beyond each request's own async task (header, body, captured configuration) | dispatch, 402 challenge, discovery manifest, settle_and_serve, after_verify, error mapping | `Edge` |
| `worker/src/x402.rs` | none | build and post `/verify` and `/settle` bodies, parse the answers | `Edge`, `FacilitatorText` (the text of the answers) |
| `worker/src/handler.rs`, `quote.rs` | none | parse, quote, compute, encode | `Handler`, `Compute` (coefficients and response) |
| `worker/src/backend.rs` | none | length and field checks, transform, proof digest, stubs for donor and cloud | `Handler` (checks), `Ntt` (transform), `ProofOfExecution` (digest) |
| `worker/src/types.rs`, `error.rs` | none | validated degree, request, error variants | `Handler`, `Compute`, `Edge` |
| facilitator and chain (external) | transactions that have landed | `/verify`, `/settle` | `Edge` |
| `tools/test-client` | a key | pay for the offer of a 402 and call again | `Edge` (`Sign`) |
| `worker/wrangler.toml` | the variables of a deployment | deploy | `Edge` (`Deploy`) |
| `programs/donor-registry` | one account per payout address, the event log | register, update_share, set_active, emit_split | `DonorRegistry` |
| `programs/pricing-schedule` | one account, written once | initialize | `PricingSchedule` |
| `programs/receipt-registry` | none (events only) | emit | `ReceiptRegistry` |
| `worker/src/registry.rs`, `faucet.rs` | none | stubs that return `NotYetImplemented` | not modelled |

**Interactions.**  Requests are concurrent tasks that share no memory.  They
meet outside the worker: in the facilitator, which sees the POSTs of several
tasks in any order, on the chain, where the transaction of an envelope can land
once, and in the variables of the deployment, which change between requests.

**What is hard.**  A paid call has three awaits (`/verify`, the body,
`/settle`), and at each of them other calls run, the answer can be lost after
the facilitator has acted, the task can be dropped, and a new deployment can go
live.  Several calls can carry the same envelope.  Money moves at one of these
awaits and nowhere else.  The arithmetic is delicate at its limits: tier
boundaries, the number of coefficients, coefficients beyond the field's order,
inverse transforms, rounding and width of the donors' shares.  The encodings are
delicate as well: answers are searched as text instead of being parsed, outputs
exceed what a JavaScript number holds, and the proof of execution is taken over
bytes without separators.

**What makes each part correct.**

- *The paid call*: nobody gets a result unpaid; nobody is charged for work that
  was not done, except that the code may lose the answer of `/settle`; an
  envelope buys one result; a call settles what it verified; every call ends;
  a charged buyer is served while nothing around the worker fails.
- *The handler*: exactly the bodies of a published field and direction that hold
  2^degree coefficients are served, for degrees from the 1 of `types.rs` to the 12 of
  the descriptor; every other one is refused for its own reason, and the quote is the
  published price.
- *The transform*: it is the DFT of its input; the inverse direction inverts
  it; products of spectra are spectra of convolutions.
- *The response*: a client reads it without loss and can post it back; its proof
  follows from what it shows and belongs to one piece of work, of one direction, degree and polynomial.
- *The facilitator's text*: however a flat answer is spaced between its tokens and
  ordered, it is read as the JSON it is.
- *The donor registry*: a split never exceeds the revenue, is never refused for
  its size, and goes to the donor that was registered.
- *The pricing schedule*: verified once against the worker's quotes, it stays so.
- *The receipt registry*: filtered by a wallet, the log is what that wallet sent.

## 2. The modules

```text
Handler      <--  Edge  <--  EdgeProperties  <--  EdgeClaims  <--  MCEdge
                                  |    \
                                  |     EdgeProofs  <--  EdgeRefinementProofs
                                  |  refinement mapping
                                  v
                             PaidService
Handler           <--  HandlerProperties
Handler           <--  FacilitatorText   <--  FacilitatorProperties
HandlerProperties, FacilitatorProperties  <--  HandlerClaims  <--  MCHandler
HandlerProperties, FacilitatorProperties, Recursion  <--  HandlerProofs
Handler           <--  ProofOfExecution
Ntt, ProofOfExecution  <--  Compute  <--  ComputeProperties
ComputeProperties  <--  MCNtt
Ntt, Recursion    <--  FieldProofs  <--  NttProofs
ComputeProperties, NttProofs  <--  ComputeProofs
Handler           <--  PricingSchedule
DonorRegistry (EXTENDS), PricingSchedule, ReceiptRegistry (INSTANCE)  <--  Programs
Programs          <--  MCPrograms
Programs, Recursion  <--  ProgramsProofs
```

**Handler** states `serve()` as a pure operator on bodies.  A body is a record
of what the parser can tell apart: whether it is JSON, the strings under
`field` and `direction`, the number under `degree_log2`, the number of
coefficients; -1 stands for a value `as_u64` refuses.  A `Result` is `"Ok"` or
the name of the error (`ParseErrors` lists `InvalidUtf8`, which no code
constructs, with the others), and `AndThen` is the `?` operator, so the order of the
stages is that of the source.  `Computable` and `WellFormed` are the reference
definitions; they mention no stage.  **HandlerProperties** runs it once on a
body and states what its outcome has to say.

**FacilitatorText** is the other end of `x402.rs`: a text is a sequence of JSON
tokens, `StripWhitespace`, `FlagIsTrue`, `ExtractStringField` and
`DecodeSolanaSignature` are the four helpers of the two parsers.  `IsObject`, `Write`
and `Has` are external: the objects a facilitator may answer with, how it may write
one, and what a JSON reader sees in it.  A string is one token, of its value without
white space and the positions (`gaps`) at which white space stands inside it; the code
drops both kinds of white space, and so does `Bare`.  **FacilitatorProperties** reads one
answer and compares the two readings, for answers without nested objects (`Flat`) and
without white space inside keys and strings (`Whole`): where either fails the code may
read what a JSON reader does not, see section 4.  The four classes of `Edge`'s `Texts`
(flag or not, signature or not) are the outcomes that differ here.

**Edge** is the state machine of the fetch handler.

| Variable | In the code |
| :-- | :-- |
| `env` | the `[vars]` of the deployment that takes new requests |
| `pc[r]` | the await the task of request `r` is parked at: `verify`, `body`, `settle`; or `idle`, `done`, `gone` |
| `envelope[r]`, `body[r]` | the `X-Payment` header and the body |
| `config[r]` | the result of `read_settlement_config`, captured once |
| `resp[r]` | the response, with the offer of a challenge or manifest and the signature of `X-Payment-Response` |
| `posts`, `answers` | POSTs and answers under way, as sets: nothing orders them |
| `signed[e]` | the requirements a buyer signed in envelope `e` |
| `ledger` | the envelopes whose transactions have landed |

Each action is the code between two awaits.  `Dispatch` and
`RespondPaymentRequired` need no facilitator.  `SettleAndServe` is the code of
a paid call up to the POST to `/verify`, with its two early returns
(`ConfigMissing`, `EnvelopeUndecodable`).  `VerifyAccepted` and
`VerifyRejected` resume after it.  `ServeAndSettle` and `ServeFails` run when
the body is there: `serve()` and, only after its success, the POST to
`/settle`.  `SettleAccepted` and `SettleRejected` build the response.
`PostFails`, `ReadBodyFails` and `Drop` are what may go wrong at an await.
`FacilitatorVerifies`, `FacilitatorSettles` and `FacilitatorRefuses` are
external, as are `Sign` (the test client) and `Deploy` (`wrangler`).

The header of a paid call is taken as it is (`Present`): an envelope somebody signed,
one nobody did (`Forged`), or one that does not decode (`Undecodable`).  The code
puts the decoded payload into its POST without looking at it; in the model a POST
carries the envelope, and a forged one reaches `/verify` like any other, to be
refused there.

Assumptions about the outside, all of them visible in `Acceptable` and
`SettledTexts`: the facilitator accepts an envelope only with the requirements
that were signed (`edge.rs:169` relies on its deep-equality check); it answers
positively to `/settle` only if the transaction has landed; its negative answers
are free.  `ReplayAccepted` says whether it confirms an envelope that has landed
before; the code relies on neither, and both are checked.

**PaidService** is the promise without worker, facilitator or messages: a call
arrives with a payment, is charged, is served or ends.  The mapping reads the
outcome of a call off its response: `served`, `closed` (it will never be
charged on this call's account), `unsettled` (its response, or the lack of one, leaves
open whether it was charged), `open`.  `Unsettled` is what a caller can tell, so it
holds as well of a call that was dropped, or whose POST failed, at `/verify`, and of a
missing `FACILITATOR_URL`: the worker reports all failed POSTs alike.

**Ntt** has the recursion of `backend.rs` over any prime field,
the field being the external `p3_goldilocks`, and refuses a degree beyond the field's
two-adicity like the code does.  `Dft`, `Convolution` and `Product` are the reference
definitions.

**ProofOfExecution** has the digest: a header of three bytes and the words of the
output in little-endian order.  SHA-256 is modelled as injective, as the bytes it
is given.  **Compute** is `serve()` once more with its data: the coefficients of a
request, each a JSON number or a JSON string, go through the stages of `Handler`,
the transform and the digest into the response.  The client that reads it is
external: `Number` rounds to as many bits as `SAFE_INTEGER` has, which is what a
double does to any u64.  **ComputeProperties** is the exchange of a buyer with the
service: a request, the response, the request made of what was read of it, and the
response to that.

**Recursion** and **FieldProofs** model nothing: they hold induction and definition by
recursion over the natural numbers, and the algebra the proofs about `Ntt` need.

**DonorRegistry** has one action per instruction, each with its failing
branches; a failing transaction changes nothing but the result reported.
**PricingSchedule** and **ReceiptRegistry** have one instruction each.  The
schedule can be initialized once; `QuoteVerified` is the check of
`price_micros_for` against it that the program's documentation speaks of.  A
receipt is recorded if the transaction is signed by the emitter it names; `sent`
is a history variable with what each wallet sent, and `EmittedBy` is how an indexer
filters the log.  **Programs** composes the
three: a transaction calls one of them, and none reads the accounts of another.

## 3. What TLC checks

| Run | States | Properties | What it shows |
| :-- | --: | :-- | :-- |
| `edge_safety` | 318 949 | `TypeOK`, `ServedOnlyIfPaid`, `ChargeAccounted`, `OneServicePerPayment`, `IInv`, `NoLostWakeup`, `ImplementsPromise` | four calls, any of which may carry the same envelope, with every fault; the facilitator refuses a settled envelope |
| `edge_redeploy` | 731 412 | `SettlesWhatWasVerified`, `ServedOnlyIfPaid`, `ImplementsPromise` | three environments (one without facilitator), four bodies, one per outcome of `serve()`; the facilitator confirms a settled envelope again |
| `edge_live` | 33 791 | `EveryCallAnswered` | every call ends, whatever fails |
| `edge_reliable` | 118 598 | `ChargedIsAnswered`, `FlightInv`, `ChargedLeadsToServed` | whoever is charged is served, if nothing fails but the read of a body |
| `handler` | 7 782 | `ServesExactlyComputable`, `RefusedForItsReason`, `QuotedAtPublishedTier`, `VerifyReadAsJson`, `SettleReadAsJson` | all combinations of boundary values of a body; answers with members absent, misspelt, wrong or nested, in every order and three spacings |
| `ntt` | 36 046 | `ForwardIsDft`, `RoundTrip`, `MultipliesPolynomials`, `ProofVerifies`, `ProofBindsWork` | sizes 2, 4 and 8, and one beyond the two-adicity, there and back again through two responses |
| `programs` | 81 804 | `TypeOK`, `OwedWithinGross`, `SplitNeverOverflows`, `DonorIdentityFixed`, `RecordIsOwn`, `QuoteStaysVerified` | every order of instructions of the three programs, on two donor accounts, one schedule and the receipts of two wallets |

Every property of these runs is broken by at least one mutant of the code (the
operators commented as mutants, paired in `PROJECT.json`).

**Bounds.**  A call shares nothing with another but its envelope, so two calls
with the same envelope and one that fetches the offer are the least instance in
which everything can happen; `edge_safety` has four requests so that three calls can
meet.  Two usable envelopes let one call be charged while
another is not; `f` is one nobody signed and `g` one that is not base64.  In `edge_safety`
the requirements of a served call cannot differ from the signed ones, as nothing is
deployed; that conjunct of `ServedOnlyIfPaid` is the business of `edge_redeploy`.  The three environments are
`wrangler.toml` as it is, its mainnet flip, and one without
`FACILITATOR_URL`.  Requests and usable envelopes are interchangeable, which the
safety runs use as symmetry; the liveness runs do not.  The bodies of
`MCHandler` take each number at, below and above each boundary the source
compares it with.  The answers of
`MCHandler` have the flag absent, true, false or a string, the transaction absent,
null, of 64 bytes, of 64 bytes with a space inside, too short or no base58, and one
further member that may be an object which holds the flag or another transaction, or
has one of their names with a space inside.
The field of 281 elements has two-adicity 3, so three sizes
can be transformed and the fourth is refused; its coefficients include 0, p-1,
p and beyond.  Polynomials of length 8 take their coefficients from three
values.  The proof of a response is compared with those of the exchange itself and of
every request for one of the `Factors`, of either direction and every degree
(`Others`).  An element takes two bytes of its word, and with `SAFE_INTEGER = 255` the
elements from 256 to 280 stand for those beyond 2^53 - 1: every second one is not a
double, as in the real field just above that bound.  The widths of the registry are scaled down, keeping the one relation
between them the code relies on (`MAX_BASIS_POINTS * U64_MAX <= U128_MAX`), and
the logs hold `MaxEvents = 2` splits and `MaxReceipts = 2` receipts; the proofs
need none of these bounds.  The schedules are the published one, the same out of
order, and one with a lower price.

**Deadlock** is checked in the runs on `Edge` and `Programs`, where a
deployment or an instruction is always possible, so that it says little there:
what waits for what is the matter of `NoLostWakeup` and `EveryCallAnswered`.  `MCHandler` and
`MCNtt` run a computation on each input and stop.

**Fairness.**  `FairSpec` assumes of every request that the runtime polls a task
whose await is over (`Resume`), and that a fetch is answered or fails
(`FetchResolves`): the Workers runtime bounds the time of a fetch, and it drops a
client that stalls while it sends the body, so that `body` is left as well.  Nothing is
assumed of buyers, deployments or of the facilitator's verdicts.  In
`edge_reliable` no fetch can fail, hence one that resolves is answered;
the facilitator may still refuse, and then nobody is charged.

## 4. Where code and documentation disagree

Each is a run that ends with a counterexample (modules `EdgeClaims` and
`HandlerClaims`).

| Run | The documentation says | The code does |
| :-- | :-- | :-- |
| `claim_502` | an unreachable facilitator is a 502 (`tools/test-client/README.md:89`) | every settlement error is a 402 (`edge.rs:258`) |
| `claim_unpaid` | 402 without a settlement header means an empty wallet (`tools/test-client/README.md:87`) | a payment whose settle answer was lost is reported so as well (`edge.rs:141`) |
| `claim_price` | a call of degree up to 8 costs 1000 micro-USDC (`edge.rs:48`, `quote.rs:11`) | every call costs 10000 (`edge.rs:208`) |
| `claim_advertised` | `/verify` and `/settle` are sent the requirements that were advertised, built once (`x402.rs:17`) | they are built from the environment of the paid call (`edge.rs:165`) |
| `claim_signature` | `/settle` is passed only with a base58 `transaction` of 64 bytes (`x402.rs:180`) | white space inside it is dropped first (`x402.rs:201`) |

Also met, and not made a run:

- `tools/test-client/README.md:63` gives `"10", "18446744069414584319"` as the first two
  outputs for 1, 2, 3, 4.  The second of these is -2, the value of the polynomial at -1,
  which is the third output: `ntt_recursive` returns the lower half before the upper
  (`backend.rs:166`), that is natural order, and the second output is -2-2w.
  `ForwardIsDft` states that order, so on this request it contradicts the example.
- `edge.rs:65` has `worker::Error` returned only if the response builder fails; it is
  also if the body cannot be read (`edge.rs:131`), which is `ReadBodyFails`.
- A body that is not UTF-8 JSON is to be `InvalidUtf8` and one that is and breaks the
  schema `SchemaMismatch` (`error.rs:90`); both are `SchemaMismatch` (`handler.rs:66`).
  The status is 400 either way.
- `tools/test-client/README.md:90` calls a `backend error` a bug in the worker,
  while a wrong number of coefficients and the field BabyBear end as one
  (`backend.rs:95`, `backend.rs:109`): one request shows it.
- The descriptor shows the `degree_log2` of a response as `<0..30>` (`edge.rs:58`), while
  degree 0 is refused (`types.rs:17`) and so is every degree above 12: one request
  shows it.
- The flag of an answer is found in a nested object as well (`x402.rs:165`).  The
  comments ask for the piece of text alone (`x402.rs:161`), so that the code does what
  they say; a JSON reader would not.
- `programs/pricing-schedule/src/lib.rs:3` has the worker's quotes verified against the
  schedule on each deployment.  No code does so; `QuoteVerified` is that check, and
  `QuoteStaysVerified` what it would be good for.

## 5. What is proved

All theorems hold for every value of the constants under the named assumptions
of the modules: `EdgeAssumption`, `NoneAssumption`, `CallAssumption`,
`WidthAssumption`, `ArgumentAssumption`, `AccountAssumption`,
`ScheduleAssumption`, `FieldAssumption`, `WordAssumption`, `SafeIntegerAssumption`,
`InputsAssumption`, `AnswersAssumption`.  The `None`
assumptions say only that an absent value is not a present one.
`FieldAssumption` says that a generator reaches every element but 0, which makes the
order a prime, and what the two-adicity is; Goldilocks satisfies it with
P = 2^64 - 2^32 + 1, the generator 7 and the two-adicity 32, and its elements are u64s
(`WordAssumption`).  `InputsAssumption` and `AnswersAssumption` say what the inputs
are: coefficients are u64s, an answer is an object with each key once.

| Theorem | States |
| :-- | :-- |
| `EdgeProofs!Invariance` | `Spec => []IInv` |
| `EdgeProofs!TypeCorrect` | `Spec => []TypeOK` |
| `EdgeProofs!NoUnpaidWork` | `Spec => []ServedOnlyIfPaid` |
| `EdgeProofs!NoChargeWithoutWork` | `Spec => []ChargeAccounted` |
| `EdgeProofs!SettlementMatches` | `Spec => []SettlesWhatWasVerified` |
| `EdgeProofs!OneServiceEach` | `Spec => []OneServicePerPayment` |
| `EdgeProofs!NobodyWaitsForNothing` | `Spec => []NoLostWakeup` |
| `EdgeProofs!OneFlightPerCall` | `Spec => []FlightInv` |
| `EdgeProofs!ChargesAreAnswered` | `Spec => []ChargedIsAnswered` |
| `EdgeRefinementProofs!PromiseKept` | `Spec => ImplementsPromise` |
| `HandlerProofs!ServesComputable` | `Spec => []ServesExactlyComputable` |
| `HandlerProofs!RefusesForTheReason` | `Spec => []RefusedForItsReason` |
| `HandlerProofs!QuotesAtPublishedTier` | `Spec => []QuotedAtPublishedTier` |
| `HandlerProofs!VerifyAnswersRead` | `AnswerSpec => []VerifyReadAsJson` |
| `HandlerProofs!SettleAnswersRead` | `AnswerSpec => []SettleReadAsJson` |
| `NttProofs!NttIsDft` | `NttRecursive` with the powers of a primitive root is `Dft` |
| `NttProofs!DftInverse` | `Dft` with a root, then with its inverse, multiplies by the length |
| `NttProofs!ConvolutionTheorem` | the `Dft` of a `Convolution` is the `Product` of the `Dft`s |
| `ComputeProofs!ResponseIsTransform` | `Spec => []ForwardIsDft` |
| `ComputeProofs!ResponseCanBePostedBack` | `Spec => []RoundTrip` |
| `ComputeProofs!SpectraMultiply` | `Spec => []MultipliesPolynomials` |
| `ComputeProofs!ResponseProvesItself` | `Spec => []ProofVerifies` |
| `ComputeProofs!ProofDeterminesWork` | `Spec => []ProofBindsWork` |
| `ComputeProofs!ProofBinds` | equal proofs mean equal field, direction, degree and output |
| `ProgramsProofs!DonorTypesOnChain` | `ProgramsSpec => []TypeOK` |
| `ProgramsProofs!OwedWithinGrossOnChain` | `ProgramsSpec => []OwedWithinGross` |
| `ProgramsProofs!SplitsNeverOverflowOnChain` | `ProgramsSpec => []SplitNeverOverflows` |
| `ProgramsProofs!DonorsKeepTheirAccountsOnChain` | `ProgramsSpec => []DonorIdentityFixed` |
| `ProgramsProofs!VerifiedForGood` | `ProgramsSpec => QuoteStaysVerified` |
| `ProgramsProofs!RecordsAreOwn` | `ProgramsSpec => []RecordIsOwn` |

**The invariant of the paid call.**  `ServedOnlyIfPaid` is not inductive: that
the signature in an answer is on the chain and belongs to the envelope of the
task that reads it is known only when the answer is written.  `AnswerInv`
carries this over the wire; `PostInv` says the same of POSTs, which a task that
was dropped leaves behind; `TaskInv` says what a task holds at each await, in
particular that past `/verify` the requirements it captured are those that were
signed.  `ChargeAccounted` needs that a POST to `/settle` still under way
belongs to a task that waits for it or has given up without another verdict:
that is the second half of `PostInv`.  `OneServicePerPayment` is a statement
about answers that have not been read yet: `WinnerInv` counts a task with a
positive answer as served already, and a settlement makes a winner only of an
envelope that has not landed.  `IInv` is the conjunction.  Its parts are
preserved by one lemma each (`TypeStep`, `TaskStep`, `PostStep`, `AnswerStep`,
`ServedStep`, `ChargeStep`, `WinnerStep`), every lemma with a step per action.
`ServeOkIffComputable` connects `serve()` with the reference definition for
all bodies, not only those of `MCHandler`.

**What a call waits for.**  The prover reaches no liveness, but it reaches what the two
liveness properties rest on.  `NoLostWakeup` says that the event a parked task needs is
owed to it by the facilitator alone: its POST is under way or the answer is there.  It
is inductive with the types (`WakeupStep`).  `ChargedIsAnswered` says that, unless
something is lost outside the code (`Lossless`), a charged call has been served or has
its success at hand.  That no refusal can come before it is `FlightInv`: without losses
a task leaves an await only by reading the answer, so that a call never has two POSTs
or answers at once (`FlightStep`, `AnsweredByStep`, `ChargeAnswered`).  What remains to
`EveryCallAnswered` and `ChargedLeadsToServed` is that the runtime polls a task and
resolves a fetch, which is the fairness TLC is given.

**The refinement.**  `RefinementStep` shows, under `IInv`, that `SendVerify`
and its early returns are `Arrive`, `FacilitatorSettles` is `Charge`,
`SettleAccepted` is `Serve`, whatever ends a call otherwise is `End`, and the
rest leaves the abstract state alone.

**The handler.**  `ServeOutcome` takes the pipeline apart stage by stage: what
`ParseRequest` passes is `WellFormed`, of that the quote passes degrees up to 12,
and the rest is `ComputeWasm`.  `PriceIsTierPrice` finds the tier that `CHOOSE`
denotes and compares it with the arm of `price_micros_for`.

**The answers of the facilitator.**  White space does not matter because
`StripWhitespace` undoes `Spread` token by token (`StripSpread`), and turns no other
token into one the parsers look for but a string into the same string without white space
(`BareToken`, `BareMark`); what they search is therefore `Searched`, the bare tokens of
the answer itself, which without white space inside strings are the tokens (`Whole`).  A member stands in it with its key, colon
and value next to each other (`FlattenHolds`, `MemberFound`), hence a true flag is
found.  Conversely, without nested objects each member takes four tokens
(`FlattenFours`), and a key followed by a colon can only be the second of them
(`FlatOccurrence`): a string value is followed by a comma or the closing brace.  Since
keys differ, the first place where a `transaction` is found is the only one
(`TransactionRead`).

**Recursion.**  The induction theorems of the library take an operator as a parameter,
which no installed prover instantiates.  `Recursion` states the same with sets and
functions instead: `LeastElement` and `NatInduct` follow from the well-foundedness of
the natural numbers, `RecursionExists` gives a function for every start and step.  That
a recursive definition, a `CHOOSE`, denotes the function its equation describes is shown
for each one: `PowersExist`, `TwoToThe`, `SumDef`, `RecursionEnds` (for `ntt_recursive`:
halving a length ends), `FlattenRead`, `RecordRead`.

**The transform.**  `FieldProofs` derives the laws of a field from `FieldAssumption`:
remainders commute with sums and products; a generator has order P - 1 (`Fermat`,
`GeneratorOrder`), so everything but 0 has an inverse; `TwoAdicGenerator` is a primitive
root, its square is one of half the order, and its power half way is -1 (`HalfWay`);
finite sums are linear, split into even and odd indices, and may be exchanged and
rotated; the powers of a root other than 1 sum to 0 (`Geometric`).  `NttIsDft` is then
an induction over the degree: a butterfly computes the two halves of the transform
because its sum splits (`AtSplits`), the powers of the root come round
(`AtPeriodic`), and the half-way power changes the sign.  `DftInverse` exchanges the
two sums and finds the inner one 0 but on the diagonal (`CrossPowers`);
`ConvolutionTheorem` rotates the inner sum.

**The response.**  `ForwardOutput` and `InverseOutput` carry this through the stages of
`serve()`: up to degree 12 and within the two-adicity the outcome is `"Ok"`, and a
client reads the output without loss, because it comes as strings
(`ReadOutputOfResponse`).  Coefficients are reduced first (`DftReduces`), which is why
`RoundTrip` ends at the canonical form.  `Exchanged` is the inductive invariant: each
answer is that of `ServeRequest` to the request next to it, and the second request is
made of the first answer.  `ProofDeterminesWork` compares any two requests that were
served, of this exchange or of anybody (`ServedIsWork`): `ProofBinds` gives them one
direction, degree and output, and a polynomial is determined by its transform
(`TransformInjective`).  Forward that follows from the inverse; for the inverse
direction it follows from `DftInverse` once the scaling by 1/n, which is a unit, is
cancelled.

**The proof of execution.**  A word is determined by its eight bytes, since
dividing by 256 eight times leaves nothing of a u64 (`Split`,
`BytesDetermineWord`); a byte is determined by its two digits
(`DigitsDetermineNibble`, `HexDeterminesBytes`); the header has a fixed length, so
equal digests have equal headers and equal words (`HeadOfConcat`,
`TailOfConcat`), and a word occupies positions of its own (`WordAt`).

**The programs.**  `DonorInv` is inductive as it stands; the work is in
`ShareWithinGross`, which bounds product, quotient and both conversions for
shares of at most 10000 and any widths with `WidthAssumption`.
`DonorIdentityFixed` needs `AtItsAddress`: an account lies at the address derived
from its payout, so no other account can be meant by an event.  The
other two programs touch neither the donors nor the events
(`OtherPrograms`), and an allocated schedule is never written again
(`ScheduleFixed`).  `RecordIsOwn` needs that the log holds receipts with an emitter
(`RecordInv`) and how the filter behaves when one is appended (`RecordAppend`).

**Only model-checked.**  The liveness properties `EveryCallAnswered` and
`ChargedLeadsToServed`: fairness and ENABLED are outside the prover; their safety
halves `NoLostWakeup` and `ChargedIsAnswered` are proved.  Every invariant
and action property of the passing runs has a theorem.

## 6. What is not modelled, and why

- JSON, base64 and base58 character by character: a body is what the parser can
  tell apart, an answer a sequence of tokens, a response a record.  SHA-256 is
  injective.
- The HTTP status of the facilitator's answers, since `post_json` ignores it.
- The arithmetic of `p3_goldilocks` itself, which the crate does modulo
  2^64 - 2^32 + 1: the field is external.  TLC works in a field of 281 elements, the
  theorems hold in Goldilocks.
- Expiry of a signed transaction and the buyer's funds: the facilitator may
  refuse at any time, for any reason.
- `registry.rs`, `faucet.rs`, `compute_donor`, `compute_cloud`: stubs without state that no
  request reaches.  Their errors have a status (`ErrorStatus`), which `TypeOK`
  shows is never answered.
- The duplicates and the unchecked fields of receipts, the splits of inactive
  donors and the donor identifiers two accounts may share: the programs promise
  nothing about them.
- Rent, bumps and signatures of the Anchor programs, but for the emitter's.  Any signer
  may call `update_share` and `emit_split`; `programs/donor-registry/src/lib.rs:2` says
  that the worker cannot silently change the splits, which a model without signers does
  not examine.  The properties hold whoever sends a transaction.

## 7. Plan

In this order; the first nine steps are done.

1. `Handler`, `Edge`, their properties and runs.
2. `PaidService` and the refinement.
3. The proofs about `Edge`.
4. `Ntt`; `DonorRegistry` with its proofs.
5. `PricingSchedule`, `ReceiptRegistry` and their composition with the donors.
6. `ProofOfExecution`, `Compute`: the response and what its proof binds;
   `FacilitatorText`: the answers as text.
7. Theorems about the handler, the proof of execution and the three programs.
8. The field, the transform and the exchange of requests proved; the receipts and the
   reading of the facilitator's answers proved.
9. What a call waits for, as safety properties that can be proved.
10. A model of the buyer's retries in the sense of the test client's advice for
    a lost answer, with the abstract promise extended by what a retry may cost.
11. Signers in the donor registry, to examine who may change a share.
