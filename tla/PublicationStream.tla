-------------------------- MODULE PublicationStream --------------------------
(***************************************************************************)
(* What M017 promises to the readers of published accounting data: each    *)
(* stream (corporation x month x scenario) shows at most one version; it is *)
(* replaced in one step, never taken away; a version that was replaced is   *)
(* kept as history and never shown again, in this stream or another.        *)
(***************************************************************************)
CONSTANTS Versions, Streams, None

VARIABLES
    current,  \* the version a stream shows
    retired   \* the versions that were shown and replaced

vars == <<current, retired>>

Shown == {current[s] : s \in Streams} \ {None}

Init ==
    /\ current = [s \in Streams |-> None]
    /\ retired = {}

Replace(s, v) ==
    /\ v \notin Shown \cup retired
    /\ current' = [current EXCEPT ![s] = v]
    /\ retired' = retired \cup ({current[s]} \ {None})

Next == \E s \in Streams, v \in Versions : Replace(s, v)

Spec == Init /\ [][Next]_vars
=============================================================================
