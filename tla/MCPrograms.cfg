\* Widths scaled so that products stay in the checker's integers: what holds
\* of u64 and u128 is that 10000 * U64_MAX fits into U128_MAX.
SPECIFICATION ProgramsSpec
CONSTANTS
  None = None
  p1 = p1
  p2 = p2
  d1 = d1
  d2 = d2
  w1 = w1
  w2 = w2
  j = j
  Payouts = {p1, p2}
  DonorIds = {d1, d2}
  Jobs = {j}
  Shares = {3333, 10000, 10001}
  Grosses = {20000, 32767}
  U64_MAX = 32767
  U128_MAX = 2147483647
  MaxEvents = 2
  Schedules <- SomeSchedules
  Wallets = {w1, w2}
  Receipts = {j}
  MaxReceipts = 2
SYMMETRY Symmetric
INVARIANTS
  TypeOK
  OwedWithinGross
  SplitNeverOverflows
  DonorIdentityFixed
  RecordIsOwn
PROPERTY
  QuoteStaysVerified
