------------------------------- MODULE MCEdge -------------------------------
(***************************************************************************)
(* Bodies and environments for the model checker, and the symmetry of the  *)
(* safety runs.                                                            *)
(***************************************************************************)
EXTENDS EdgeClaims, TLC

CONSTANTS r1, r2, r3, r4, e1, e2, f, g

JSONBody(field, degree, coefficients) ==
  [json |-> TRUE, field |-> field, direction |-> "Forward",
   degree |-> degree, coefficients |-> coefficients]

GoodBody  == JSONBody("Goldilocks", 1, 2)
ShortBody == JSONBody("Goldilocks", 1, 1)
LargeBody == JSONBody("Goldilocks", 13, 1)
BadBody   == JSONBody("Goldilocks", 0, 1)

OneBody == {GoodBody}
TwoBodies == {GoodBody, ShortBody}
FourBodies == {GoodBody, ShortBody, LargeBody, BadBody}

\* The [vars] of worker/wrangler.toml.
Wrangler ==
  [FACILITATOR_URL |-> "https://www.x402.org/facilitator",
   SELLER_PUBKEY |-> "6zP7sAnE1X6MuRcxPR7KQuABfTJTxacEGFvJ9LMtECY",
   USDC_MINT |-> "4zMMC9srt5Ri5X14GAgXhaHii3GnPAEERYPJgZJDncDU",
   FACILITATOR_FEE_PAYER |-> "CKPKJWNdJEqa81x7CkZ14BVPiY6y16Sxs7owznqtWYp5",
   SOLANA_CLUSTER |-> "devnet"]

\* The mainnet flip its comments describe.
Mainnet ==
  [Wrangler EXCEPT !.USDC_MINT = "EPjFWdd5AufqSSqeM2qN1xzybapC8G4wEGGkZwyTDt1v",
                   !.SOLANA_CLUSTER = None]

\* A deployment that lost its facilitator.
Unconfigured == [Wrangler EXCEPT !.FACILITATOR_URL = None]

OneEnvironment == {Wrangler}
Redeployed == {Wrangler, Mainnet}
AllEnvironments == {Wrangler, Mainnet, Unconfigured}

NoFaults == {}
ReadFails == {"bodyread"}

Symmetric == Permutations(Requests) \cup Permutations(Envelopes \ Forged)
=============================================================================
