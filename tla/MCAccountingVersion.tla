------------------------ MODULE MCAccountingVersion ------------------------
(* Small instances of AccountingVersion for TLC. *)
EXTENDS AccountingVersion, TLC

CONSTANTS v1, v2, svc, ann, bob

\* One ordinary version with facts, and one without.
MCContents == {[kind |-> "regular", scoped |-> FALSE, facts |-> TRUE],
               [kind |-> "regular", scoped |-> FALSE, facts |-> FALSE]}
RegularContents == {[kind |-> "regular", scoped |-> FALSE, facts |-> TRUE]}
=============================================================================
