\* The variables change while calls are in flight, the bodies are of every kind,
\* and the facilitator says yes again to an envelope it has settled.
SPECIFICATION Spec
CONSTANTS
  None = None
  r1 = r1
  r2 = r2
  r3 = r3
  r4 = r4
  e1 = e1
  e2 = e2
  f = f
  g = g
  Requests = {r1, r2, r3}
  Envelopes = {e1, e2, f, g}
  Undecodable = {g}
  Forged = {f, g}
  Bodies <- FourBodies
  Environments <- AllEnvironments
  Faults <- FaultKinds
  ReplayAccepted = TRUE
SYMMETRY Symmetric
INVARIANTS
  SettlesWhatWasVerified
  ServedOnlyIfPaid
PROPERTIES
  ImplementsPromise
