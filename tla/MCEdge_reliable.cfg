\* Nothing fails outside the code but the read of a body; the facilitator may
\* refuse and the variables may change.
SPECIFICATION FairSpec
CONSTANTS
  None = None
  r1 = r1
  r2 = r2
  r3 = r3
  r4 = r4
  e1 = e1
  e2 = e2
  f = f
  g = g
  Requests = {r1, r2, r3}
  Envelopes = {e1, e2}
  Undecodable = {}
  Forged = {}
  Bodies <- TwoBodies
  Environments <- Redeployed
  Faults <- ReadFails
  ReplayAccepted = FALSE
INVARIANTS
  ChargedIsAnswered
  FlightInv
PROPERTIES
  ChargedLeadsToServed
