----------------------------- MODULE MCPrograms -----------------------------
EXTENDS Programs, TLC

CONSTANTS p1, p2, d1, d2, w1, w2, j

Symmetric ==
  Permutations(Payouts) \cup Permutations(DonorIds) \cup Permutations(Wallets)

Tier(max_log2, micros_usdc) == [max_log2 |-> max_log2, micros_usdc |-> micros_usdc]

\* The tiers the worker publishes, the same out of order, and a lower price.
Published == <<Tier(8, 1000), Tier(12, 10000), Tier(16, 100000), Tier(30, 1000000)>>
SomeSchedules ==
  {Published,
   <<Published[4], Published[3], Published[2], Published[1]>>,
   [Published EXCEPT ![2] = Tier(12, 5000)]}

=============================================================================
