\* Four calls, of which one or more fetch the offer and the others may pay with
\* the same envelope; everything outside the code may fail.
SPECIFICATION Spec
CONSTANTS
  None = None
  r1 = r1
  r2 = r2
  r3 = r3
  r4 = r4
  e1 = e1
  e2 = e2
  f = f
  g = g
  Requests = {r1, r2, r3, r4}
  Envelopes = {e1, e2, f, g}
  Undecodable = {g}
  Forged = {f, g}
  Bodies <- TwoBodies
  Environments <- OneEnvironment
  Faults <- FaultKinds
  ReplayAccepted = FALSE
SYMMETRY Symmetric
INVARIANTS
  TypeOK
  ServedOnlyIfPaid
  ChargeAccounted
  OneServicePerPayment
  IInv
  NoLostWakeup
PROPERTIES
  ImplementsPromise
