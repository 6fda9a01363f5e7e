------------------------------ MODULE MCProgress ------------------------------
(***************************************************************************)
(* What must happen in the end: small instances of the components whose     *)
(* scheduling the code leaves to PostgreSQL or to a scheduler.  They share   *)
(* no state, so a behaviour is one of a single component, chosen by 'part'; *)
(* nothing is enabled, and nothing has to happen, in the others.            *)
(***************************************************************************)
EXTENDS AccountingPublication, NotificationQueue, TLC

CONSTANTS v1, v2, p1, p2, svc, ann, n1, n2, r1, r2

VARIABLE part

RegularContents == {[kind |-> "regular", scoped |-> FALSE, facts |-> TRUE]}
RowKinds == n1 :> "expense" @@ n2 :> "thanks"

ProgressInit ==
    /\ part \in {"publication", "queue"}
    /\ PublicationInit
    /\ QueueInit /\ (part # "queue" => mapped = {})

ProgressNext ==
    \/ part = "publication" /\ Next /\ UNCHANGED <<part, queueVars>>
    \/ part = "queue" /\ QueueNext /\ UNCHANGED <<part, vars>>

ProgressSpec ==
    /\ ProgressInit /\ [][ProgressNext]_<<part, vars, queueVars>>
    /\ Fairness /\ QueueFairness
=============================================================================
