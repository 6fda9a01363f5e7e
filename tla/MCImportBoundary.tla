-------------------------- MODULE MCImportBoundary --------------------------
(* Small instances of ImportBoundary for TLC. *)
EXTENDS ImportBoundary, TLC

CONSTANTS t1, t2, l1, l2

ImportSymmetry == Permutations(Txns) \cup Permutations(Lines)

\* Bound on the gates: one line with gates of any kind, or two that pass them.
GatesOfOneLine ==
    \A db \in {work, committed} :
        Cardinality(LinesOf(db)) <= 1 \/ \A l \in LinesOf(db) : db.gate[l] = "passed"
=============================================================================
