------------------------------ MODULE BatchRecord ------------------------------
(***************************************************************************)
(* What the import boundary promises to whoever reads a batch that is       *)
(* committed, while others still write: what is recorded stays, files, lines *)
(* and the batch itself only move on to their verdicts, a gate result or a   *)
(* verdict that was given stands, and of a sealed batch nothing changes.      *)
(***************************************************************************)
EXTENDS Naturals

CONSTANTS Files, Lines

VARIABLE record

Sealed(r) == r.batch \in {"validated", "rejected"}

\* The stages of a batch, a file or a line; the last one is its verdict.
Stage(s) == CASE s = "absent" -> 0
              [] s = "received" -> 1
              [] s = "validating" -> 2
              [] OTHER -> 3

Onward(s, t) == s = t \/ Stage(s) < Stage(t)

\* What a later record keeps of an earlier one.
Keeps(old, new) ==
    /\ Onward(old.batch, new.batch)
    /\ \A f \in Files :
          /\ Onward(old.file[f], new.file[f])
          /\ old.file[f] # "absent" => new.rows[f] = old.rows[f]
    /\ \A l \in Lines :
          /\ Onward(old.line[l], new.line[l])
          /\ old.line[l] # "absent" => new.owner[l] = old.owner[l]
          /\ old.gate[l] # "pending" \/ Stage(old.line[l]) = 3 => new.gate[l] = old.gate[l]

Init ==
    /\ record.batch = "absent"
    /\ \A f \in Files : record.file[f] = "absent"
    /\ \A l \in Lines : record.line[l] = "absent" /\ record.gate[l] = "pending"

\* One transaction, which may do much at once.
Write == ~ Sealed(record) /\ Keeps(record, record')

Spec == Init /\ [][Write]_record
=============================================================================
