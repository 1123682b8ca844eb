-------------------------- MODULE PricingSchedule --------------------------
(***************************************************************************)
(* programs/pricing-schedule: one account with the four tiers.  Whoever    *)
(* calls initialize first fixes them; the handler checks nothing about     *)
(* them.  The worker's quote is to be verified against them.               *)
(***************************************************************************)
EXTENDS Handler, Sequences, FiniteSetsExt

CONSTANTS
  Schedules,  \* the arguments of initialize
  None        \* an account that is not allocated

Tier == [max_log2 : 0..U8_MAX, micros_usdc : Nat]
ScheduleAccounts == [1..4 -> Tier]

VARIABLES
  schedule,  \* the account's tiers
  result     \* Ok or the error of the last instruction

InitSchedule == schedule = None

\* Mutant: #[account(init)] as init_if_needed.
InitializeAgain(tiers) == schedule' = tiers /\ result' = "Ok"

\* initialize: #[account(init)] fails before the handler if the account exists.
Initialize(tiers) ==
  \/ /\ schedule # None
     /\ result' = "AccountInUse"
     /\ UNCHANGED schedule
  \/ /\ schedule = None
     /\ schedule' = tiers
     /\ result' = "Ok"

-----------------------------------------------------------------------------
\* A reader takes the tiers as ascending: the first that fits is the price.
Fitting(degree) == {i \in 1..4 : degree <= schedule[i].max_log2}

\* The verification of quote_for against the account.
QuoteVerified ==
  /\ schedule # None
  /\ \A degree \in 1..30 :
       /\ Fitting(degree) # {}
       /\ schedule[Min(Fitting(degree))].micros_usdc = PriceMicrosFor(degree)

=============================================================================
