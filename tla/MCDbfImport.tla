------------------------------ MODULE MCDbfImport ------------------------------
(* A small instance of DbfImport for TLC: one panel, two starts, two files. *)
EXTENDS DbfImport, TLC

CONSTANTS s1, s2

OneKey(f) == {"key"}

Symmetry == Permutations({s1, s2})
=============================================================================
