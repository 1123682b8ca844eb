\* Everything may fail, and still every call ends.
SPECIFICATION FairSpec
CONSTANTS
  None = None
  r1 = r1
  r2 = r2
  r3 = r3
  r4 = r4
  e1 = e1
  e2 = e2
  f = f
  g = g
  Requests = {r1, r2, r3}
  Envelopes = {e1, f, g}
  Undecodable = {g}
  Forged = {f, g}
  Bodies <- TwoBodies
  Environments <- OneEnvironment
  Faults <- FaultKinds
  ReplayAccepted = FALSE
PROPERTIES
  EveryCallAnswered
