--------------------------------- MODULE Absent ---------------------------------
(* NULL, a row that is not there, nobody: the value all components share. *)

CONSTANT None
=============================================================================
