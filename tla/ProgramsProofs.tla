--------------------------- MODULE ProgramsProofs ---------------------------
(***************************************************************************)
(* Proofs about the three programs: of the donor registry by itself, for   *)
(* all sets of addresses, identifiers and jobs, arguments of the full      *)
(* widths and event logs of any length, and of all three when their        *)
(* transactions interleave.                                                *)
(***************************************************************************)
EXTENDS Programs, Recursion, SequenceTheorems

(* A share within bounds takes at most the whole, and the checks of        *)
(* emit_split never trigger.                                               *)
LEMMA ShareWithinGross ==
  ASSUME NEW gross \in 0..U64_MAX, NEW share \in 0..MAX_BASIS_POINTS
  PROVE  /\ DonorShare(gross, share).error = "Ok"
         /\ DonorShare(gross, share).owed \in 0..gross
<1> DEFINE product == gross * share
           owed == product \div MAX_BASIS_POINTS
<1> USE WidthAssumption
<1>1. gross \in Nat /\ share \in Nat /\ gross <= U64_MAX /\ share <= MAX_BASIS_POINTS
  BY DEF MAX_BASIS_POINTS
<1>2. product \in Nat /\ product <= gross * MAX_BASIS_POINTS
  BY <1>1 DEF MAX_BASIS_POINTS
<1>3. product <= U128_MAX
  <2> HIDE DEF product
  <2> QED
    BY <1>1, <1>2 DEF MAX_BASIS_POINTS
<1>4. owed \in Nat /\ owed <= gross
  <2> HIDE DEF product
  <2> QED
    BY <1>1, <1>2 DEF MAX_BASIS_POINTS
<1>5. owed <= U64_MAX
  BY <1>1, <1>4
<1>6. DonorShare(gross, share) = [error |-> "Ok", owed |-> owed]
  BY <1>2, <1>3, <1>4, <1>5 DEF DonorShare
<1> QED
  BY <1>1, <1>4, <1>6

(* The inductive invariant: nothing has to be added to its parts.          *)
DonorInv == TypeOK /\ OwedWithinGross /\ SplitNeverOverflows

(* A registry without accounts satisfies it.                               *)
LEMMA DonorInit == Init => DonorInv
BY DEF Init, DonorInv, TypeOK, OwedWithinGross, SplitNeverOverflows

(* An argument that passes the bound of register and update_share.         *)
LEMMA ShareInBounds ==
  ASSUME NEW share \in Shares, share <= MAX_BASIS_POINTS
  PROVE  share \in 0..MAX_BASIS_POINTS
<1>1. share \in 0..U16_MAX
  BY ArgumentAssumption
<1>2. share \in Int /\ 0 <= share
  BY <1>1 DEF U16_MAX
<1>3. MAX_BASIS_POINTS \in Int
  BY DEF MAX_BASIS_POINTS
<1> QED
  BY <1>2, <1>3

(* Storing an account within types preserves the invariant.                *)
LEMMA StoreStep ==
  ASSUME DonorInv, NEW p \in Payouts, NEW account \in DonorAccounts, Store(p, account)
  PROVE  DonorInv'
BY DEF Store, DonorInv, TypeOK, OwedWithinGross, SplitNeverOverflows

(* An instruction that fails, but not with an overflow, leaves no trace.   *)
LEMMA FailStep ==
  ASSUME DonorInv, NEW error \in Errors \ {"ShareArithmeticOverflow"}, Fail(error)
  PROVE  DonorInv'
BY DEF Fail, DonorInv, TypeOK, OwedWithinGross, SplitNeverOverflows, Errors

(* Every instruction preserves it.                                         *)
LEMMA DonorStep == DonorInv /\ [Next]_vars => DonorInv'
<1> SUFFICES ASSUME DonorInv, [Next]_vars PROVE DonorInv'
  OBVIOUS
<1>1. \A p \in Payouts : donors[p] # None => donors[p] \in DonorAccounts
  BY DEF DonorInv, TypeOK
<1>2. ASSUME NEW p \in Payouts, NEW share \in Shares, NEW id \in DonorIds,
             Register(p, share, id)
      PROVE  DonorInv'
  <2>1. share <= MAX_BASIS_POINTS => NewAccount(p, share, id) \in DonorAccounts
    BY ShareInBounds DEF NewAccount, DonorAccounts
  <2> QED
    BY <1>2, <2>1, StoreStep, FailStep DEF Register, Errors
<1>3. ASSUME NEW p \in Payouts, NEW share \in Shares, UpdateShare(p, share)
      PROVE  DonorInv'
  <2>1. donors[p] # None /\ share <= MAX_BASIS_POINTS =>
          [donors[p] EXCEPT !.share_basis_points = share] \in DonorAccounts
    BY <1>1, ShareInBounds DEF DonorAccounts
  <2> QED
    BY <1>3, <2>1, StoreStep, FailStep DEF UpdateShare, Errors
<1>4. ASSUME NEW p \in Payouts, NEW active \in BOOLEAN, SetActive(p, active)
      PROVE  DonorInv'
  <2>1. donors[p] # None => [donors[p] EXCEPT !.active = active] \in DonorAccounts
    BY <1>1 DEF DonorAccounts
  <2> QED
    BY <1>4, <2>1, StoreStep, FailStep DEF SetActive, Errors
<1>5. ASSUME NEW p \in Payouts, NEW gross \in Grosses, NEW job \in Jobs,
             EmitSplit(p, gross, job)
      PROVE  DonorInv'
  <2>1. CASE donors[p] = None
    BY <1>5, <2>1, FailStep DEF EmitSplit, Errors
  <2>2. CASE donors[p] # None
    <3> DEFINE split == DonorShare(gross, donors[p].share_basis_points)
               event == Event(donors[p], gross, job)
    <3>1. gross \in 0..U64_MAX /\ donors[p].share_basis_points \in 0..MAX_BASIS_POINTS
      BY <1>1, <2>2, ArgumentAssumption DEF DonorAccounts
    <3>2. split.error = "Ok" /\ split.owed \in 0..gross
      BY <3>1, ShareWithinGross
    <3>3. /\ event \in SplitOwed
          /\ event.owed_micros_usdc <= event.gross_micros_usdc
      BY <1>1, <2>2, <3>1, <3>2, WidthAssumption DEF Event, SplitOwed, DonorAccounts
    <3>4. donors' = donors /\ result' = "Ok" /\ events' = Append(events, event)
      BY <1>5, <2>2, <3>2 DEF EmitSplit
    <3> HIDE DEF event
    <3>5. TypeOK'
      BY <3>3, <3>4 DEF DonorInv, TypeOK
    <3>6. events \in Seq(SplitOwed)
      BY DEF DonorInv, TypeOK
    <3>7. /\ Len(events') = Len(events) + 1 /\ Len(events) \in Nat
          /\ \A i \in 1..Len(events) : events'[i] = events[i]
          /\ events'[Len(events) + 1] = event
      BY <3>3, <3>4, <3>6, AppendProperties
    <3>8. ASSUME NEW i \in 1..Len(events')
          PROVE  events'[i].owed_micros_usdc <= events'[i].gross_micros_usdc
      <4>1. CASE i = Len(events) + 1
        BY <3>3, <3>7, <4>1
      <4>2. CASE i # Len(events) + 1
        <5>1. i \in 1..Len(events)
          BY <3>7, <4>2
        <5> QED
          BY <3>7, <5>1 DEF DonorInv, OwedWithinGross
      <4> QED
        BY <4>1, <4>2
    <3>9. OwedWithinGross'
      BY <3>8 DEF OwedWithinGross
    <3> QED
      BY <3>4, <3>5, <3>9 DEF DonorInv, SplitNeverOverflows
  <2> QED
    BY <2>1, <2>2
<1>6. CASE UNCHANGED vars
  BY <1>6 DEF vars, DonorInv, TypeOK, OwedWithinGross, SplitNeverOverflows
<1> QED
  BY <1>2, <1>3, <1>4, <1>5, <1>6 DEF Next

(* No donor is ever owed more than a job brought in.                       *)
THEOREM DonorsOwedWithinGross == Spec => []OwedWithinGross
<1>1. DonorInv => OwedWithinGross
  BY DEF DonorInv
<1> QED
  BY <1>1, DonorInit, DonorStep, PTL DEF Spec

(* emit_split never reports an overflow.                                   *)
THEOREM SplitsNeverOverflow == Spec => []SplitNeverOverflows
<1>1. DonorInv => SplitNeverOverflows
  BY DEF DonorInv
<1> QED
  BY <1>1, DonorInit, DonorStep, PTL DEF Spec

(* Accounts and events keep their types.                                   *)
THEOREM DonorsTypeCorrect == Spec => []TypeOK
<1>1. DonorInv => TypeOK
  BY DEF DonorInv
<1> QED
  BY <1>1, DonorInit, DonorStep, PTL DEF Spec

-----------------------------------------------------------------------------
(* An account lies at the address derived from its payout.                 *)
AtItsAddress == \A p \in Payouts : donors[p] # None => donors[p].payout = p

(* What the identity of a donor rests on.                                  *)
IdentityInv == AtItsAddress /\ DonorIdentityFixed

(* Every account that is there stays where it is, with its donor.          *)
KeepsDonors ==
  \A p \in Payouts : donors[p] # None =>
    donors'[p] # None /\ donors'[p].donor_id = donors[p].donor_id

(* An instruction that keeps the donors and emits nothing preserves the    *)
(* invariant.                                                              *)
LEMMA SameDonors ==
  ASSUME IdentityInv, KeepsDonors, AtItsAddress', UNCHANGED events
  PROVE  IdentityInv'
BY DEF IdentityInv, AtItsAddress, KeepsDonors, DonorIdentityFixed

(* Storing a new account, or the old one with another share or flag.       *)
LEMMA StoreKeepsDonors ==
  ASSUME TypeOK, IdentityInv, NEW p \in Payouts, NEW account \in DonorAccounts,
         account.payout = p,
         donors[p] # None => account.donor_id = donors[p].donor_id,
         Store(p, account)
  PROVE  IdentityInv'
<1>1. /\ \A q \in Payouts : donors'[q] = IF q = p THEN account ELSE donors[q]
      /\ UNCHANGED events
  BY DEF Store, TypeOK
<1>2. account # None
  BY AccountAssumption
<1>3. KeepsDonors
  BY <1>1, <1>2 DEF KeepsDonors
<1>4. AtItsAddress'
  BY <1>1, <1>2 DEF IdentityInv, AtItsAddress
<1> QED
  BY <1>1, <1>3, <1>4, SameDonors

(* An instruction that fails changes no account and emits nothing.         *)
LEMMA FailKeepsDonors ==
  ASSUME IdentityInv, NEW error, Fail(error)
  PROVE  IdentityInv'
BY DEF Fail, IdentityInv, AtItsAddress, DonorIdentityFixed

(* A split is owed to the donor of the account it is emitted for.          *)
LEMMA SplitKeepsDonors ==
  ASSUME DonorInv, IdentityInv, NEW p \in Payouts, NEW gross \in Grosses, NEW job \in Jobs,
         donors[p] # None, EmitSplit(p, gross, job)
  PROVE  IdentityInv'
<1> DEFINE event == Event(donors[p], gross, job)
<1>1. UNCHANGED donors
  BY DEF EmitSplit
<1>2. AtItsAddress'
  BY <1>1 DEF IdentityInv, AtItsAddress
<1>3. donors[p].payout = p /\ event.payout = p /\ event.donor_id = donors[p].donor_id
  BY DEF IdentityInv, AtItsAddress, Event
<1>4. CASE events' = events
  BY <1>1, <1>2, <1>4, SameDonors DEF KeepsDonors
<1>5. CASE events' = Append(events, event) /\ event \in SplitOwed
  <2> HIDE DEF event
  <2>1. events \in Seq(SplitOwed)
    BY DEF DonorInv, TypeOK
  <2>2. /\ Len(events') = Len(events) + 1 /\ Len(events) \in Nat
        /\ \A i \in 1..Len(events) : events'[i] = events[i]
        /\ events'[Len(events) + 1] = event
    BY <1>5, <2>1, AppendProperties
  <2>3. ASSUME NEW i \in 1..Len(events')
        PROVE  \E q \in Payouts : /\ donors'[q] # None
                                  /\ donors'[q].payout = q
                                  /\ events'[i].payout = q
                                  /\ events'[i].donor_id = donors'[q].donor_id
    <3>1. CASE i = Len(events) + 1
      BY <1>1, <1>3, <2>2, <3>1
    <3>2. CASE i # Len(events) + 1
      <4>1. i \in 1..Len(events)
        BY <2>2, <3>2
      <4> QED
        BY <1>1, <2>2, <4>1 DEF IdentityInv, DonorIdentityFixed
    <3> QED
      BY <3>1, <3>2
  <2> QED
    BY <1>2, <2>3 DEF IdentityInv, DonorIdentityFixed
<1>6. donors[p] \in DonorAccounts
  BY DEF DonorInv, TypeOK
<1>7. gross \in 0..U64_MAX /\ donors[p].share_basis_points \in 0..MAX_BASIS_POINTS
  BY <1>6, ArgumentAssumption DEF DonorAccounts
<1>8. event \in SplitOwed
  <2>1. DonorShare(gross, donors[p].share_basis_points).owed \in 0..U64_MAX
    BY <1>7, ShareWithinGross, WidthAssumption
  <2> QED
    BY <1>6, <1>7, <2>1 DEF Event, SplitOwed, DonorAccounts
<1> QED
  BY <1>4, <1>5, <1>8 DEF EmitSplit

(* A registry without accounts satisfies it.                               *)
LEMMA DonorIdentityInit == Init => IdentityInv
BY DEF Init, IdentityInv, AtItsAddress, DonorIdentityFixed

(* Every instruction preserves it.                                         *)
LEMMA DonorIdentityStep == DonorInv /\ IdentityInv /\ [Next]_vars => IdentityInv'
<1> SUFFICES ASSUME DonorInv, IdentityInv, [Next]_vars PROVE IdentityInv'
  OBVIOUS
<1>1. /\ TypeOK
      /\ \A p \in Payouts : donors[p] # None => donors[p] \in DonorAccounts
      /\ \A p \in Payouts : donors[p] # None => donors[p].payout = p
  BY DEF DonorInv, TypeOK, IdentityInv, AtItsAddress
<1>2. ASSUME NEW p \in Payouts, NEW share \in Shares, NEW id \in DonorIds,
             Register(p, share, id)
      PROVE  IdentityInv'
  <2>1. share <= MAX_BASIS_POINTS => NewAccount(p, share, id) \in DonorAccounts
    BY ShareInBounds DEF NewAccount, DonorAccounts
  <2>2. NewAccount(p, share, id).payout = p
    BY DEF NewAccount
  <2> QED
    BY <1>1, <1>2, <2>1, <2>2, StoreKeepsDonors, FailKeepsDonors DEF Register
<1>3. ASSUME NEW p \in Payouts, NEW share \in Shares, UpdateShare(p, share)
      PROVE  IdentityInv'
  <2> DEFINE account == [donors[p] EXCEPT !.share_basis_points = share]
  <2>1. CASE donors[p] # None /\ share <= MAX_BASIS_POINTS
    <3>1. /\ account \in DonorAccounts
          /\ account.payout = p
          /\ account.donor_id = donors[p].donor_id
      BY <1>1, <2>1, ShareInBounds DEF DonorAccounts
    <3>2. Store(p, account)
      <4>1. ~(share > MAX_BASIS_POINTS)
        <5>1. share \in Int
          <6>1. share \in 0..U16_MAX
            BY ArgumentAssumption
          <6> QED
            BY <6>1 DEF U16_MAX
        <5>2. MAX_BASIS_POINTS \in Int
          BY DEF MAX_BASIS_POINTS
        <5> QED
          BY <2>1, <5>1, <5>2, SMTT(30)
      <4> QED
        BY <1>3, <2>1, <4>1 DEF UpdateShare
    <3> HIDE DEF account
    <3> QED
      BY <1>1, <3>1, <3>2, StoreKeepsDonors
  <2> QED
    BY <1>3, <2>1, FailKeepsDonors DEF UpdateShare
<1>4. ASSUME NEW p \in Payouts, NEW active \in BOOLEAN, SetActive(p, active)
      PROVE  IdentityInv'
  <2> DEFINE account == [donors[p] EXCEPT !.active = active]
  <2>1. CASE donors[p] # None
    <3>1. /\ account \in DonorAccounts
          /\ account.payout = p
          /\ account.donor_id = donors[p].donor_id
      BY <1>1, <2>1 DEF DonorAccounts
    <3>2. Store(p, account)
      BY <1>4, <2>1 DEF SetActive
    <3> HIDE DEF account
    <3> QED
      BY <1>1, <3>1, <3>2, StoreKeepsDonors
  <2> QED
    BY <1>4, <2>1, FailKeepsDonors DEF SetActive
<1>5. ASSUME NEW p \in Payouts, NEW gross \in Grosses, NEW job \in Jobs,
             EmitSplit(p, gross, job)
      PROVE  IdentityInv'
  <2>1. CASE donors[p] = None
    BY <1>5, <2>1, FailKeepsDonors DEF EmitSplit
  <2> QED
    BY <1>5, <2>1, SplitKeepsDonors
<1>6. CASE UNCHANGED vars
  BY <1>6 DEF vars, IdentityInv, AtItsAddress, DonorIdentityFixed
<1> QED
  BY <1>2, <1>3, <1>4, <1>5, <1>6 DEF Next

(* The events of an account are owed to the donor that is registered.      *)
THEOREM DonorsKeepTheirAccounts == Spec => []DonorIdentityFixed
<1>1. IdentityInv => DonorIdentityFixed
  BY DEF IdentityInv
<1> QED
  BY <1>1, DonorInit, DonorStep, DonorIdentityInit, DonorIdentityStep, PTL DEF Spec

-----------------------------------------------------------------------------
(* A transaction of another program leaves the donors and the events as    *)
(* they are.                                                               *)
LEMMA OtherPrograms ==
  ASSUME PricingTransaction \/ ReceiptTransaction
  PROVE  /\ UNCHANGED <<donors, events>>
         /\ result' \in {"Ok", "AccountInUse", "AccountNotSigner"}
<1>1. CASE PricingTransaction
  BY <1>1 DEF PricingTransaction, Pricing!Initialize
<1>2. CASE ReceiptTransaction
  BY <1>2 DEF ReceiptTransaction, Registry!Emit, Registry!Recorded
<1> QED
  BY <1>1, <1>2

(* The invariants of the donor registry, in every state of the chain.      *)
LEMMA DonorInvInvariant == ProgramsSpec => [](DonorInv /\ IdentityInv)
<1>1. ProgramsInit => DonorInv /\ IdentityInv
  BY DonorInit, DonorIdentityInit DEF ProgramsInit
<1>2. DonorInv /\ IdentityInv /\ [ProgramsNext]_ProgramsVars => (DonorInv /\ IdentityInv)'
  <2> SUFFICES ASSUME DonorInv, IdentityInv, [ProgramsNext]_ProgramsVars
               PROVE  DonorInv' /\ IdentityInv'
    OBVIOUS
  <2>1. CASE DonorTransaction
    BY <2>1, DonorStep, DonorIdentityStep DEF DonorTransaction
  <2>2. CASE PricingTransaction \/ ReceiptTransaction
    BY <2>2, OtherPrograms
       DEF DonorInv, TypeOK, OwedWithinGross, SplitNeverOverflows, Errors,
           IdentityInv, AtItsAddress, DonorIdentityFixed
  <2>3. CASE UNCHANGED ProgramsVars
    BY <2>3, DonorStep, DonorIdentityStep DEF ProgramsVars, vars
  <2> QED
    BY <2>1, <2>2, <2>3 DEF ProgramsNext
<1> QED
  BY <1>1, <1>2, PTL DEF ProgramsSpec

(* A donor is never owed more than a job brought in.                       *)
THEOREM OwedWithinGrossOnChain == ProgramsSpec => []OwedWithinGross
<1>1. DonorInv => OwedWithinGross
  BY DEF DonorInv
<1> QED
  BY <1>1, DonorInvInvariant, PTL

(* emit_split never reports an overflow.                                   *)
THEOREM SplitsNeverOverflowOnChain == ProgramsSpec => []SplitNeverOverflows
<1>1. DonorInv => SplitNeverOverflows
  BY DEF DonorInv
<1> QED
  BY <1>1, DonorInvInvariant, PTL

(* Accounts and events keep their types.                                   *)
THEOREM DonorTypesOnChain == ProgramsSpec => []TypeOK
<1>1. DonorInv => TypeOK
  BY DEF DonorInv
<1> QED
  BY <1>1, DonorInvInvariant, PTL

(* The events of an account are owed to the donor that is registered.      *)
THEOREM DonorsKeepTheirAccountsOnChain == ProgramsSpec => []DonorIdentityFixed
<1>1. IdentityInv => DonorIdentityFixed
  BY DEF IdentityInv
<1> QED
  BY <1>1, DonorInvInvariant, PTL

-----------------------------------------------------------------------------
(* Once it is allocated, no transaction changes the schedule.              *)
LEMMA ScheduleFixed ==
  ASSUME [ProgramsNext]_ProgramsVars, schedule # None
  PROVE  schedule' = schedule
<1>1. CASE DonorTransaction
  BY <1>1 DEF DonorTransaction
<1>2. CASE PricingTransaction
  BY <1>2 DEF PricingTransaction, Pricing!Initialize
<1>3. CASE ReceiptTransaction
  BY <1>3 DEF ReceiptTransaction
<1>4. CASE UNCHANGED ProgramsVars
  BY <1>4 DEF ProgramsVars
<1> QED
  BY <1>1, <1>2, <1>3, <1>4 DEF ProgramsNext

(* A verified quote stays verified.                                        *)
THEOREM VerifiedForGood == ProgramsSpec => QuoteStaysVerified
<1>1. [ProgramsNext]_ProgramsVars =>
        [Pricing!QuoteVerified => Pricing!QuoteVerified']_schedule
  <2> SUFFICES ASSUME [ProgramsNext]_ProgramsVars, Pricing!QuoteVerified
               PROVE  schedule' = schedule
    OBVIOUS
  <2>1. schedule # None
    BY DEF Pricing!QuoteVerified
  <2> QED
    BY <2>1, ScheduleFixed
<1> QED
  BY <1>1, PTL DEF ProgramsSpec, QuoteStaysVerified

-----------------------------------------------------------------------------
(***************************************************************************)
(* The record of a wallet.                                                 *)
(***************************************************************************)

\* EmittedBy of a given log.
EmittedIn(log, w) ==
  LET own[i \in 0..Len(log)] ==
        IF i = 0 THEN <<>>
        ELSE IF log[i].emitter = w THEN Append(own[i - 1], log[i].receipt)
        ELSE own[i - 1]
  IN  own[Len(log)]

\* f[i] is what w emitted up to the i-th event.
OwnUpTo(f, log, w) ==
  /\ f[0] = <<>>
  /\ \A i \in 1..Len(log) :
       f[i] = IF log[i].emitter = w THEN Append(f[i - 1], log[i].receipt) ELSE f[i - 1]

(* Reading the log event by event leads to the record.                     *)
LEMMA RecordRead ==
  ASSUME NEW log \in Seq(Registry!ReceiptEmitted), NEW w
  PROVE  \E f : OwnUpTo(f, log, w) /\ EmittedIn(log, w) = f[Len(log)]
<1> DEFINE n == Len(log)
           S == Seq(Receipts)
           G == [a \in Nat \X S |->
                   IF a[1] + 1 \in 1..n /\ log[a[1] + 1].emitter = w
                   THEN Append(a[2], log[a[1] + 1].receipt) ELSE a[2]]
           IsOwn(f) == f = [i \in 0..n |->
                              IF i = 0 THEN <<>>
                              ELSE IF log[i].emitter = w THEN Append(f[i - 1], log[i].receipt)
                              ELSE f[i - 1]]
           own == CHOOSE f : IsOwn(f)
<1>1. n \in Nat /\ \A i \in 1..n : log[i].receipt \in Receipts
  <2>1. n \in Nat /\ \A i \in 1..n : log[i] \in Registry!ReceiptEmitted
    BY LenProperties
  <2> QED
    BY <2>1 DEF Registry!ReceiptEmitted
<1>2. G \in [Nat \X S -> S]
  <2>1. ASSUME NEW m \in Nat, NEW s \in S
        PROVE  (IF m + 1 \in 1..n /\ log[m + 1].emitter = w
                THEN Append(s, log[m + 1].receipt) ELSE s) \in S
    BY <1>1, AppendProperties
  <2> HIDE DEF S, n
  <2> QED
    BY <2>1
<1>3. \A m \in Nat, s \in S :
        G[<<m, s>>] = IF m + 1 \in 1..n /\ log[m + 1].emitter = w
                      THEN Append(s, log[m + 1].receipt) ELSE s
  OBVIOUS
<1>4. <<>> \in S
  OBVIOUS
<1> HIDE DEF G, S
<1>5. PICK f : Recurs(f, S, <<>>, G)
  BY <1>2, <1>4, RecursionExists
<1>6. f \in [Nat -> S] /\ f[0] = <<>> /\ \A m \in Nat : f[m + 1] = G[<<m, f[m]>>]
  BY <1>5 DEF Recurs
<1>7. ASSUME NEW i \in 1..n
      PROVE  f[i] = IF log[i].emitter = w THEN Append(f[i - 1], log[i].receipt) ELSE f[i - 1]
  <2> DEFINE m == i - 1
  <2>1. m \in Nat /\ m + 1 = i
    BY <1>1
  <2>2. f[m] \in S /\ f[m + 1] = G[<<m, f[m]>>]
    BY <1>6, <2>1
  <2> HIDE DEF m
  <2>3. f[i] = IF log[i].emitter = w THEN Append(f[m], log[i].receipt) ELSE f[m]
    BY <1>3, <2>1, <2>2
  <2> QED
    BY <2>3 DEF m
<1> DEFINE p == [i \in 0..n |-> f[i]]
<1>8. IsOwn(p)
  <2>1. ASSUME NEW i \in 0..n
        PROVE  p[i] = IF i = 0 THEN <<>>
                      ELSE IF log[i].emitter = w THEN Append(p[i - 1], log[i].receipt)
                      ELSE p[i - 1]
    <3>1. CASE i = 0
      BY <1>6, <3>1
    <3>2. CASE i # 0
      <4>1. i \in 1..n /\ i - 1 \in 0..n
        BY <1>1, <3>2
      <4> QED
        BY <1>7, <3>2, <4>1
    <3> QED
      BY <3>1, <3>2
  <2> QED
    BY <2>1
<1>9. IsOwn(own)
  BY <1>8, Zenon
<1>10. EmittedIn(log, w) = own[n]
  BY DEF EmittedIn
<1> HIDE DEF own
<1>11. \A i \in 0..n : own[i] = IF i = 0 THEN <<>>
                                ELSE IF log[i].emitter = w
                                THEN Append(own[i - 1], log[i].receipt)
                                ELSE own[i - 1]
  BY <1>9
<1>12. own[0] = <<>>
  BY <1>1, <1>11
<1>13. ASSUME NEW i \in 1..n
       PROVE  own[i] = IF log[i].emitter = w THEN Append(own[i - 1], log[i].receipt)
                       ELSE own[i - 1]
  <2>1. i \in 0..n /\ i # 0
    BY <1>1
  <2> QED
    BY <1>11, <2>1
<1> QED
  BY <1>10, <1>12, <1>13 DEF OwnUpTo

(* Where two logs are the same, so is what is read of them.                *)
LEMMA SameRecord ==
  ASSUME NEW f, NEW g, NEW log, NEW longer, NEW w, NEW n \in Nat,
         Len(log) = n, n <= Len(longer), Len(longer) \in Nat,
         \A i \in 1..n : longer[i] = log[i],
         OwnUpTo(f, log, w), OwnUpTo(g, longer, w)
  PROVE  f[n] = g[n]
<1> DEFINE S == {i \in Nat : i <= n => f[i] = g[i]}
<1>1. 0 \in S
  BY DEF OwnUpTo
<1>2. ASSUME NEW i \in Nat, i \in S
      PROVE  i + 1 \in S
  <2> SUFFICES ASSUME i + 1 <= n
               PROVE  f[i + 1] = g[i + 1]
    OBVIOUS
  <2>1. i + 1 \in 1..n /\ i + 1 \in 1..Len(longer) /\ (i + 1) - 1 = i /\ f[i] = g[i]
    BY <1>2
  <2> DEFINE k == i + 1
  <2>2. f[k] = IF log[k].emitter = w THEN Append(f[k - 1], log[k].receipt) ELSE f[k - 1]
    BY <2>1 DEF OwnUpTo
  <2>3. g[k] = IF longer[k].emitter = w THEN Append(g[k - 1], longer[k].receipt) ELSE g[k - 1]
    BY <2>1 DEF OwnUpTo
  <2>4. longer[k] = log[k] /\ k - 1 = i
    BY <2>1
  <2> HIDE DEF k
  <2> QED
    BY <2>1, <2>2, <2>3, <2>4 DEF k
<1> HIDE DEF S
<1>3. n \in S
  BY <1>1, <1>2, NatInduct
<1> QED
  BY <1>3 DEF S

(* One more event adds to the record of its emitter alone.                 *)
LEMMA RecordAppend ==
  ASSUME NEW log \in Seq(Registry!ReceiptEmitted), NEW e \in Registry!ReceiptEmitted, NEW w
  PROVE  EmittedIn(Append(log, e), w)
           = IF e.emitter = w THEN Append(EmittedIn(log, w), e.receipt) ELSE EmittedIn(log, w)
<1> DEFINE n == Len(log)
           longer == Append(log, e)
<1>1. /\ n \in Nat /\ longer \in Seq(Registry!ReceiptEmitted) /\ Len(longer) = n + 1
      /\ \A i \in 1..n : longer[i] = log[i]
      /\ longer[n + 1] = e
  BY AppendProperties, LenProperties
<1> HIDE DEF n, longer
<1>2. PICK f : OwnUpTo(f, log, w) /\ EmittedIn(log, w) = f[n]
  BY RecordRead DEF n
<1>3. PICK g : OwnUpTo(g, longer, w) /\ EmittedIn(longer, w) = g[n + 1]
  BY <1>1, RecordRead
<1>4. f[n] = g[n]
  <2>1. Len(log) = n /\ n <= Len(longer) /\ Len(longer) \in Nat
    BY <1>1 DEF n
  <2> QED
    BY <1>1, <1>2, <1>3, <2>1, SameRecord, Zenon
<1>5. n + 1 \in 1..Len(longer) /\ (n + 1) - 1 = n
  BY <1>1
<1>6. g[n + 1] = IF e.emitter = w THEN Append(g[n], e.receipt) ELSE g[n]
  BY <1>1, <1>3, <1>5 DEF OwnUpTo
<1> QED
  BY <1>2, <1>3, <1>4, <1>6 DEF longer

(* The inductive invariant: the log and what was sent, and the record of   *)
(* every wallet.                                                           *)
RecordInv ==
  /\ receipts \in Seq(Registry!ReceiptEmitted)
  /\ sent \in [Wallets -> Seq(Receipts)]
  /\ RecordIsOwn

(* An emitted receipt preserves it, because its emitter signed for it.     *)
LEMMA EmitStep ==
  ASSUME RecordInv, NEW wallet \in Wallets, NEW emitter \in Wallets, NEW receipt \in Receipts,
         Registry!Emit(wallet, emitter, receipt)
  PROVE  RecordInv'
<1> DEFINE e == [emitter |-> emitter, receipt |-> receipt]
<1>1. /\ receipts \in Seq(Registry!ReceiptEmitted)
      /\ sent \in [Wallets -> Seq(Receipts)]
      /\ \A w \in Wallets : EmittedIn(receipts, w) = sent[w]
  BY DEF RecordInv, RecordIsOwn, Registry!EmittedBy, EmittedIn
<1>2. CASE UNCHANGED <<receipts, sent>>
  <2>1. \A w \in Wallets : EmittedIn(receipts', w) = sent'[w]
    BY <1>1, <1>2
  <2>2. RecordIsOwn'
    BY <2>1 DEF RecordIsOwn, Registry!EmittedBy, EmittedIn
  <2> QED
    BY <1>1, <1>2, <2>2 DEF RecordInv
<1>3. CASE wallet = emitter /\ Registry!Recorded(wallet, emitter, receipt)
  <2>1. receipts' = Append(receipts, e)
        /\ sent' = [sent EXCEPT ![emitter] = Append(@, receipt)]
    BY <1>3 DEF Registry!Recorded
  <2>2. e \in Registry!ReceiptEmitted /\ e.emitter = emitter /\ e.receipt = receipt
    BY DEF Registry!ReceiptEmitted
  <2> HIDE DEF e
  <2>3. receipts' \in Seq(Registry!ReceiptEmitted)
    BY <1>1, <2>1, <2>2, AppendProperties
  <2>4. \A w \in Wallets : sent'[w] = IF w = emitter THEN Append(sent[w], receipt) ELSE sent[w]
    BY <1>1, <2>1
  <2>5. sent' \in [Wallets -> Seq(Receipts)]
    <3>1. Append(sent[emitter], receipt) \in Seq(Receipts)
      BY <1>1, AppendProperties
    <3> QED
      BY <1>1, <2>1, <3>1
  <2>6. ASSUME NEW w \in Wallets
        PROVE  EmittedIn(receipts', w) = sent'[w]
    <3>1. EmittedIn(receipts', w)
            = IF emitter = w THEN Append(EmittedIn(receipts, w), receipt)
              ELSE EmittedIn(receipts, w)
      BY <1>1, <2>1, <2>2, RecordAppend
    <3> QED
      BY <1>1, <2>4, <3>1
  <2>7. RecordIsOwn'
    BY <2>6 DEF RecordIsOwn, Registry!EmittedBy, EmittedIn
  <2> QED
    BY <2>3, <2>5, <2>7 DEF RecordInv
<1> QED
  BY <1>2, <1>3 DEF Registry!Emit

(* An empty log is everybody's own.                                        *)
LEMMA RecordInit == ProgramsInit => RecordInv
<1> SUFFICES ASSUME ProgramsInit
             PROVE  RecordInv
  OBVIOUS
<1>1. receipts = <<>> /\ sent = [w \in Wallets |-> <<>>]
  BY DEF ProgramsInit, Registry!InitReceipts
<1>2. receipts \in Seq(Registry!ReceiptEmitted) /\ sent \in [Wallets -> Seq(Receipts)]
  BY <1>1
<1>3. ASSUME NEW w \in Wallets
      PROVE  EmittedIn(receipts, w) = sent[w]
  <2>1. PICK f : OwnUpTo(f, receipts, w) /\ EmittedIn(receipts, w) = f[Len(receipts)]
    BY <1>2, RecordRead
  <2> QED
    BY <1>1, <2>1 DEF OwnUpTo
<1>4. RecordIsOwn
  BY <1>3 DEF RecordIsOwn, Registry!EmittedBy, EmittedIn
<1> QED
  BY <1>2, <1>4 DEF RecordInv

(* Filtered by a wallet, the log of receipts is what that wallet sent, in  *)
(* its order, whatever else is sent to the chain (receipt_registry::emit). *)
THEOREM RecordsAreOwn == ProgramsSpec => []RecordIsOwn
<1>1. RecordInv /\ [ProgramsNext]_ProgramsVars => RecordInv'
  <2> SUFFICES ASSUME RecordInv, [ProgramsNext]_ProgramsVars
               PROVE  RecordInv'
    OBVIOUS
  <2>1. CASE UNCHANGED <<receipts, sent>>
    BY <2>1 DEF RecordInv, RecordIsOwn, Registry!EmittedBy
  <2>2. CASE ReceiptTransaction
    BY <2>2, EmitStep DEF ReceiptTransaction
  <2>3. DonorTransaction \/ PricingTransaction \/ UNCHANGED ProgramsVars
          => UNCHANGED <<receipts, sent>>
    BY DEF DonorTransaction, PricingTransaction, ProgramsVars
  <2> QED
    BY <2>1, <2>2, <2>3 DEF ProgramsNext
<1>2. RecordInv => RecordIsOwn
  BY DEF RecordInv
<1> QED
  BY <1>1, <1>2, RecordInit, PTL DEF ProgramsSpec

=============================================================================
