------------------------- MODULE MCImportAndProcedures -------------------------
(***************************************************************************)
(* Small instances of the import boundary and of the desk of the workforce   *)
(* procedures.  They share no state, so a behaviour is one of either, chosen *)
(* by 'part'; two transactions of the one are the two pages of the other.    *)
(***************************************************************************)
EXTENDS MCImportBoundary, ProcedureCase

VARIABLE part

Checklists == "onboarding" :> {"documents", "handoff"} @@ "leave" :> {"handoff"}

\* A page is either at its form or at the list and a checklist, only the saves of two
\* pages overlap, and one case is made.
OneDeskEach ==
    LET waiting == {p \in Pages : call'[p] # None}
        saving == {p \in waiting : call'[p].at \in {"check", "save", "saved"}}
    IN  /\ ProcedureNext
        /\ \A p \in Pages :
              editing'[p] # None =>
                  /\ ticks'[p] = None /\ p \notin waiting \ saving
                  /\ editing'[p] # editing[p] /\ editing'[p].case = None => row["case1"] = None
        /\ waiting = Pages => saving = Pages

MCInit == part \in {"import", "procedures"} /\ Init /\ ProcedureInit

MCNext ==
    \/ part = "import" /\ Next /\ UNCHANGED <<part, procedureVars>>
    \/ part = "procedures" /\ OneDeskEach /\ UNCHANGED <<part, vars>>

MCSpec == MCInit /\ [][MCNext]_<<part, vars, procedureVars>>

\* The type invariants of the two components.
ComponentsTypeOK == ImportTypeOK /\ ProcedureTypeOK
=============================================================================
