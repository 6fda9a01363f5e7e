------------------------------ MODULE MCLedger ------------------------------
(***************************************************************************)
(* Small instances of the ledger and of the personal messages.  They share no *)
(* state, so a behaviour is one of either, chosen by 'part'.                 *)
(***************************************************************************)
EXTENDS MCPersonalMessage, JournalAllocation

VARIABLE part

\* One fact, in the first of two versions, and a child of that version.
ChildOfFirst == <<{2}, {}>>
InFirst == [f \in Facts |-> 1]
OfTwo == [f \in Facts |-> 2]

\* The type invariants of the two components.
ComponentsTypeOK == MessageTypeOK /\ LedgerTypeOK

MCInit == part \in {"message", "ledger"} /\ Init /\ LedgerInit

MCNext ==
    \/ part = "message" /\ Next /\ UNCHANGED <<part, ledgerVars>>
    \/ part = "ledger" /\ LedgerNext /\ UNCHANGED <<part, vars>>

MCSpec == MCInit /\ [][MCNext]_<<part, vars, ledgerVars>>
=============================================================================
