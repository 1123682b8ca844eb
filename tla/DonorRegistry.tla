--------------------------- MODULE DonorRegistry ---------------------------
(***************************************************************************)
(* programs/donor-registry: one account per payout address, with the share *)
(* of a job's revenue its donor is owed.  Anchor runs each instruction as  *)
(* one atomic transaction: an Err leaves no trace.  The worker is to pay   *)
(* out the events; no code in the repository reads them yet.               *)
(***************************************************************************)
EXTENDS Integers, Sequences

CONSTANTS
  Payouts,   \* payout addresses; the account's address is derived from it
  DonorIds,  \* u32 identifiers a registrar chooses
  Jobs,      \* job identifiers
  Shares,    \* u16 arguments of the instructions
  Grosses,   \* u64 arguments of emit_split
  U64_MAX, U128_MAX,
  MaxEvents, \* bound on the event log
  None       \* an account that is not allocated

MAX_BASIS_POINTS == 10000
U16_MAX == 65535

ASSUME WidthAssumption ==
  /\ U64_MAX \in Nat /\ U128_MAX \in Nat
  /\ MAX_BASIS_POINTS * U64_MAX <= U128_MAX

ASSUME ArgumentAssumption ==
  /\ Shares \subseteq 0..U16_MAX
  /\ Grosses \subseteq 0..U64_MAX
  /\ MaxEvents \in Nat

\* bump is a function of the payout and left out.
DonorAccounts == [payout : Payouts, donor_id : DonorIds,
                  share_basis_points : 0..MAX_BASIS_POINTS, active : BOOLEAN]

ASSUME AccountAssumption == None \notin DonorAccounts

SplitOwed == [donor_id : DonorIds, payout : Payouts, owed_micros_usdc : 0..U64_MAX,
              gross_micros_usdc : 0..U64_MAX, job_id : Jobs]

\* The errors of Anchor (AccountNotSigner in module Programs) and the program's own.
Errors == {"AccountInUse", "AccountNotInitialized", "AccountNotSigner",
           "ShareExceedsMaxBasisPoints", "ShareArithmeticOverflow"}

VARIABLES
  donors,  \* the account of each payout address
  events,  \* the SplitOwed events, oldest first
  result   \* Ok or the error of the last instruction

vars == <<donors, events, result>>

TypeOK ==
  /\ donors \in [Payouts -> DonorAccounts \cup {None}]
  /\ events \in Seq(SplitOwed)
  /\ result \in {"Ok"} \cup Errors

Init ==
  /\ donors = [p \in Payouts |-> None]
  /\ events = <<>>
  /\ result = "Ok"

Fail(error) == result' = error /\ UNCHANGED <<donors, events>>

Store(p, account) ==
  /\ donors' = [donors EXCEPT ![p] = account]
  /\ result' = "Ok"
  /\ UNCHANGED events

-----------------------------------------------------------------------------
NewAccount(p, share, id) ==
  [payout |-> p, donor_id |-> id, share_basis_points |-> share, active |-> TRUE]

\* Mutant: #[account(init)] as init_if_needed.
RegisterAgain(p, share, id) ==
  \/ /\ share > MAX_BASIS_POINTS
     /\ Fail("ShareExceedsMaxBasisPoints")
  \/ /\ share <= MAX_BASIS_POINTS
     /\ Store(p, NewAccount(p, share, id))

\* register: #[account(init)] fails before the handler if the account exists.
Register(p, share, id) ==
  \/ /\ donors[p] # None
     /\ Fail("AccountInUse")
  \/ /\ donors[p] = None
     /\ share > MAX_BASIS_POINTS
     /\ Fail("ShareExceedsMaxBasisPoints")
  \/ /\ donors[p] = None
     /\ share <= MAX_BASIS_POINTS
     /\ Store(p, NewAccount(p, share, id))

\* Mutant: the bound is only checked at registration.
UpdateShareUnchecked(p, share) ==
  \/ /\ donors[p] = None
     /\ Fail("AccountNotInitialized")
  \/ /\ donors[p] # None
     /\ Store(p, [donors[p] EXCEPT !.share_basis_points = share])

UpdateShare(p, share) ==
  \/ /\ donors[p] = None
     /\ Fail("AccountNotInitialized")
  \/ /\ donors[p] # None
     /\ share > MAX_BASIS_POINTS
     /\ Fail("ShareExceedsMaxBasisPoints")
  \/ /\ donors[p] # None
     /\ share <= MAX_BASIS_POINTS
     /\ Store(p, [donors[p] EXCEPT !.share_basis_points = share])

SetActive(p, active) ==
  \/ /\ donors[p] = None
     /\ Fail("AccountNotInitialized")
  \/ /\ donors[p] # None
     /\ Store(p, [donors[p] EXCEPT !.active = active])

-----------------------------------------------------------------------------
\* Mutant: the product is computed in 64 bits.
DonorShareNarrow(gross, share) ==
  IF gross * share > U64_MAX THEN [error |-> "ShareArithmeticOverflow", owed |-> 0]
  ELSE [error |-> "Ok", owed |-> (gross * share) \div MAX_BASIS_POINTS]

\* The product in 128 bits, divided, and cut back to 64: each step is checked.
DonorShare(gross, share) ==
  LET product == gross * share
      owed == product \div MAX_BASIS_POINTS
  IN  IF product > U128_MAX \/ owed > U64_MAX
      THEN [error |-> "ShareArithmeticOverflow", owed |-> 0]
      ELSE [error |-> "Ok", owed |-> owed]

Event(account, gross, job) ==
  [donor_id |-> account.donor_id, payout |-> account.payout,
   owed_micros_usdc |-> DonorShare(gross, account.share_basis_points).owed,
   gross_micros_usdc |-> gross, job_id |-> job]

\* emit_split reads neither active nor the events before it.
EmitSplit(p, gross, job) ==
  \/ /\ donors[p] = None
     /\ Fail("AccountNotInitialized")
  \/ LET split == DonorShare(gross, donors[p].share_basis_points) IN
     /\ donors[p] # None
     /\ Len(events) < MaxEvents
     /\ result' = split.error
     /\ events' = IF split.error = "Ok" THEN Append(events, Event(donors[p], gross, job))
                                       ELSE events
     /\ UNCHANGED donors

Next ==
  \E p \in Payouts :
    \/ \E share \in Shares, id \in DonorIds : Register(p, share, id)
    \/ \E share \in Shares : UpdateShare(p, share)
    \/ \E active \in BOOLEAN : SetActive(p, active)
    \/ \E gross \in Grosses, job \in Jobs : EmitSplit(p, gross, job)

Spec == Init /\ [][Next]_vars

-----------------------------------------------------------------------------
(* A donor is never owed more than the job brought in, whatever its share  *)
(* was changed to and however the shares were rounded (emit_split's        *)
(* arithmetic with the bound register and update_share keep).              *)
OwedWithinGross ==
  \A i \in 1..Len(events) : events[i].owed_micros_usdc <= events[i].gross_micros_usdc

(* emit_split never fails on an allocated account: with shares in bounds   *)
(* neither of its checks for ShareArithmeticOverflow can trigger, so no    *)
(* completed job goes unrecorded because of its size.                      *)
SplitNeverOverflows == result # "ShareArithmeticOverflow"

(* An account keeps its payout address and its donor_id once registered:   *)
(* only register writes them and it cannot run twice on an address, so the *)
(* events of an account are all owed to the same donor.                    *)
DonorIdentityFixed ==
  \A i \in 1..Len(events) : \E p \in Payouts :
    /\ donors[p] # None
    /\ donors[p].payout = p
    /\ events[i].payout = p
    /\ events[i].donor_id = donors[p].donor_id

=============================================================================
