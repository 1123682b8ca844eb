------------------------------ MODULE Programs ------------------------------
(***************************************************************************)
(* The three Anchor programs on one chain.  A transaction calls one of     *)
(* them; result is the outcome of the last one.  None of them reads the    *)
(* accounts of another.                                                    *)
(***************************************************************************)
EXTENDS DonorRegistry

CONSTANTS Schedules, Wallets, Receipts, MaxReceipts

VARIABLES schedule, receipts, sent

Pricing == INSTANCE PricingSchedule
Registry == INSTANCE ReceiptRegistry

ASSUME ScheduleAssumption ==
  Schedules \subseteq Pricing!ScheduleAccounts /\ None \notin Schedules

ProgramsInit == Init /\ Pricing!InitSchedule /\ Registry!InitReceipts

DonorTransaction == Next /\ UNCHANGED <<schedule, receipts, sent>>

PricingTransaction ==
  /\ \E tiers \in Schedules : Pricing!Initialize(tiers)
  /\ UNCHANGED <<donors, events, receipts, sent>>

ReceiptTransaction ==
  /\ \E wallet, emitter \in Wallets, receipt \in Receipts :
       Registry!Emit(wallet, emitter, receipt)
  /\ UNCHANGED <<donors, events, schedule>>

ProgramsNext == DonorTransaction \/ PricingTransaction \/ ReceiptTransaction

ProgramsVars == <<donors, events, result, schedule, receipts, sent>>

ProgramsSpec == ProgramsInit /\ [][ProgramsNext]_ProgramsVars

-----------------------------------------------------------------------------
(* Verified once, the worker's quotes stay the on-chain prices: whatever   *)
(* transactions follow, initialize cannot put other tiers in their place,  *)
(* so a check on each deployment is enough (pricing_schedule::initialize   *)
(* and price_micros_for).                                                  *)
QuoteStaysVerified == [][Pricing!QuoteVerified => Pricing!QuoteVerified']_schedule

(* Filtered by a wallet, the log of receipts is what that wallet sent, in  *)
(* the order it sent it: nobody can write into the record of another, and  *)
(* nothing is lost or rewritten (receipt_registry::emit).                  *)
RecordIsOwn == \A w \in Wallets : Registry!EmittedBy(w) = sent[w]

=============================================================================
