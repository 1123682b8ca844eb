-------------------------- MODULE ReceiptRegistry --------------------------
(***************************************************************************)
(* programs/receipt-registry: emit writes an event and keeps no state, so  *)
(* nothing but the emitter's signature is checked.  The fields of a        *)
(* receipt are copied from the arguments and stand for one value.          *)
(***************************************************************************)
EXTENDS Sequences, Integers

CONSTANTS
  Wallets,     \* who may send a transaction, and sign for itself only
  Receipts,    \* job, caller, payment, proof, time and backend tag
  MaxReceipts  \* bound on the event log

ReceiptEmitted == [emitter : Wallets, receipt : Receipts]

VARIABLES
  receipts,  \* the ReceiptEmitted events, oldest first
  sent,      \* what each wallet has sent with success, oldest first
  result     \* Ok or the error of the last instruction

InitReceipts ==
  /\ receipts = <<>>
  /\ sent = [w \in Wallets |-> <<>>]

Recorded(wallet, emitter, receipt) ==
  /\ Len(receipts) < MaxReceipts
  /\ receipts' = Append(receipts, [emitter |-> emitter, receipt |-> receipt])
  /\ sent' = [sent EXCEPT ![wallet] = Append(@, receipt)]
  /\ result' = "Ok"

\* Mutant: the emitter is an UncheckedAccount.
EmitUnsigned(wallet, emitter, receipt) == Recorded(wallet, emitter, receipt)

\* emit: the Signer constraint fails before the handler.
Emit(wallet, emitter, receipt) ==
  \/ /\ wallet # emitter
     /\ result' = "AccountNotSigner"
     /\ UNCHANGED <<receipts, sent>>
  \/ /\ wallet = emitter
     /\ Recorded(wallet, emitter, receipt)

-----------------------------------------------------------------------------
\* The registry as an indexer filters it, oldest event first.
EmittedBy(w) ==
  LET own[i \in 0..Len(receipts)] ==
        IF i = 0 THEN <<>>
        ELSE IF receipts[i].emitter = w THEN Append(own[i - 1], receipts[i].receipt)
        ELSE own[i - 1]
  IN  own[Len(receipts)]

=============================================================================
