---------------------------- MODULE ReportedFigures ----------------------------
(***************************************************************************)
(* What the import of business data promises to those who read one kind of  *)
(* figure of one month: a source file takes effect at once for all its stores, *)
(* none of which shows figures of another file; what a store shows is only    *)
(* replaced by a correction of that very file, which takes over exactly its    *)
(* stores and counts one version up; a file that was corrected is never shown   *)
(* again.                                                                   *)
(***************************************************************************)
EXTENDS Naturals

CONSTANTS Files, Stores

VARIABLES
    figures,  \* what is shown: the store, the file it comes from and its version
    retired   \* the files that were shown and corrected

vars == <<figures, retired>>

Shown == {x.file : x \in figures}
Covered == {x.store : x \in figures}
Of(f) == {x \in figures : x.file = f}
Figure(s, f, n) == [store |-> s, file |-> f, version |-> n]

Init == figures = {} /\ retired = {}

\* The first figures of some stores.
Report(f, some) ==
    /\ f \notin Shown \cup retired
    /\ some # {} /\ some \cap Covered = {}
    /\ figures' = figures \cup {Figure(s, f, 1) : s \in some}
    /\ UNCHANGED retired

\* A correction, for all the stores of the file it corrects.
Correct(f, old) ==
    /\ f \notin Shown \cup retired /\ old \in Shown
    /\ figures' = (figures \ Of(old)) \cup {Figure(x.store, f, x.version + 1) : x \in Of(old)}
    /\ retired' = retired \cup {old}

Next == \E f \in Files :
    \/ \E some \in SUBSET Stores : Report(f, some)
    \/ \E old \in Files : Correct(f, old)

Spec == Init /\ [][Next]_vars
=============================================================================
