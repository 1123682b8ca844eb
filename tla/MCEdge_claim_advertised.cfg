\* A deployment between the offer and the paid call.
SPECIFICATION Spec
CONSTANTS
  None = None
  r1 = r1
  r2 = r2
  r3 = r3
  r4 = r4
  e1 = e1
  e2 = e2
  f = f
  g = g
  Requests = {r1, r2}
  Envelopes = {e1, g}
  Undecodable = {g}
  Forged = {g}
  Bodies <- OneBody
  Environments <- Redeployed
  Faults <- NoFaults
  ReplayAccepted = FALSE
INVARIANT SendsWhatWasAdvertised
