----------------------------- MODULE PaidService -----------------------------
(***************************************************************************)
(* What the service promises its buyers, without worker, facilitator or    *)
(* messages: the abstract specification that module Edge implements.  A    *)
(* call carries a payment and asks for work; the payment may be charged    *)
(* once, and only for a call that asks for work the service can do and     *)
(* has not been closed; the work is handed out only against a charge.      *)
(***************************************************************************)
CONSTANTS
  Requests,   \* calls
  Envelopes,  \* payments
  Exclusive,  \* whether one payment buys at most one result
  None        \* an absent call

VARIABLES
  call,     \* the payment each call carries and whether its work can be done
  outcome,  \* what became of each call
  charged   \* the payments that have been taken

vars == <<call, outcome, charged>>

Calls == [envelope : Envelopes, computable : BOOLEAN]

TypeOK ==
  /\ call \in [Requests -> Calls \cup {None}]
  /\ outcome \in [Requests -> {"open", "served", "closed", "unsettled"}]
  /\ charged \subseteq Envelopes

Init ==
  /\ call = [r \in Requests |-> None]
  /\ outcome = [r \in Requests |-> "open"]
  /\ charged = {}

Become(r, what) == outcome' = [outcome EXCEPT ![r] = what]

\* A call with a payment comes in; it may be turned away at once.
Arrive(r) ==
  /\ call[r] = None
  /\ outcome[r] = "open"
  /\ \E c \in Calls : call' = [call EXCEPT ![r] = c]
  /\ \E what \in {"open", "closed", "unsettled"} : Become(r, what)
  /\ UNCHANGED charged

\* A call ends without a result: closed if its payment will not be taken on
\* its account, unsettled if the caller cannot tell.
End(r) ==
  /\ outcome[r] = "open"
  /\ \E what \in {"closed", "unsettled"} : Become(r, what)
  /\ UNCHANGED <<call, charged>>

\* A payment is taken on account of a call.
Charge(r) ==
  /\ call[r] # None
  /\ call[r].computable
  /\ outcome[r] \in {"open", "unsettled"}
  /\ charged' = charged \cup {call[r].envelope}
  /\ UNCHANGED <<call, outcome>>

\* A result is handed out.
Serve(r) ==
  /\ call[r] # None
  /\ call[r].computable
  /\ call[r].envelope \in charged
  /\ outcome[r] = "open"
  /\ Exclusive =>
       \A s \in Requests :
         outcome[s] = "served" => call[s].envelope # call[r].envelope
  /\ Become(r, "served")
  /\ UNCHANGED <<call, charged>>

Next == \E r \in Requests : Arrive(r) \/ End(r) \/ Charge(r) \/ Serve(r)

Spec == Init /\ [][Next]_vars

=============================================================================
