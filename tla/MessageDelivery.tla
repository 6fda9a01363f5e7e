---------------------------- MODULE MessageDelivery ----------------------------
(***************************************************************************)
(* What the personal-message path promises about each message, that is one  *)
(* text for one recipient: it is claimed once; then it is either given up    *)
(* before anything was asked of the provider, or it is asked for in one      *)
(* request at the most; a message is only called sent when it arrived, and   *)
(* what is said of it in the end is said for ever.                           *)
(***************************************************************************)
EXTENDS Naturals

CONSTANT Messages

VARIABLES
    state,     \* what the delivery row of a message says
    requests,  \* how many requests the provider got for it
    arrived    \* the messages that were delivered

vars == <<state, requests, arrived>>

Init ==
    /\ state = [m \in Messages |-> "absent"]
    /\ requests = [m \in Messages |-> 0]
    /\ arrived = {}

Becomes(m, from, to) ==
    /\ state[m] = from
    /\ state' = [state EXCEPT ![m] = to]
    /\ UNCHANGED <<requests, arrived>>

Claim(m) == Becomes(m, "absent", "claimed")
GiveUp(m) == Becomes(m, "claimed", "failed_pre_delivery")
Begin(m) == Becomes(m, "claimed", "delivery_started")

\* The only request, of which nobody knows at first whether it will be answered.
Request(m) ==
    /\ state[m] = "delivery_started" /\ requests[m] = 0
    /\ requests' = [requests EXCEPT ![m] = 1]
    /\ arrived' \in {arrived, arrived \cup {m}}
    /\ UNCHANGED state

Confirm(m) == m \in arrived /\ Becomes(m, "delivery_started", "sent")
Doubt(m) == Becomes(m, "delivery_started", "delivery_unknown")

Next == \E m \in Messages :
    Claim(m) \/ GiveUp(m) \/ Begin(m) \/ Request(m) \/ Confirm(m) \/ Doubt(m)

Spec == Init /\ [][Next]_vars
=============================================================================
