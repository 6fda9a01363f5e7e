------------------------------ MODULE MCServices ------------------------------
(***************************************************************************)
(* Small instances of the services and pages around the accounting core, and *)
(* of the evidence of one version.  They share no state, so a behaviour is   *)
(* one of a single component, chosen by 'part'; the variables of the others  *)
(* keep their initial values, under which their invariants hold.  They share *)
(* model values for what is symmetric in each.                               *)
(***************************************************************************)
EXTENDS MCAccountingVersion, NotificationQueue, SessionHandoff, DbfImport, CandidateWorkspace

CONSTANTS a1, a2, b1, b2, e1, e2

VARIABLE part

RowKinds == "n1" :> "personal" @@ "n2" :> "expense" @@ "n3" :> "mvp"
SourceRows(f) == {"key1", "key2"}

\* Saves of two students in a form: one load at a time, no activity, no removal.
Forms ==
    /\ WorkspaceNext
    /\ {l \in Loads : load'[l].at # "idle"} # Loads
    /\ {c \in Students : ~ record'[c].active} = {}
    /\ pending' = None

\* Every operation on one student, one at a time, with loads that overlap.
OverlappingLoads ==
    /\ WorkspaceNext
    /\ {c \in Students : record'[c].version = 0} # {}
    /\ ~ (pending' # None /\ <<save'.at, link'>> # <<"idle", None>>)

-----------------------------------------------------------------------------
ServicesInit ==
    /\ part \in {"version", "queue", "handoff", "dbf", "forms", "loads"}
    /\ VersionInit
    /\ QueueInit /\ (part # "queue" => mapped = {})
    /\ HandoffInit
    /\ DbfInit
    /\ WorkspaceInit /\ (part # "forms" => \A c \in Students : record[c].version = 0)

ServicesNext ==
    \/ /\ part = "version" /\ VersionNext
       /\ UNCHANGED <<part, queueVars, handoffVars, dbfVars, workspaceVars>>
    \/ /\ part = "queue" /\ QueueNext
       /\ UNCHANGED <<part, versionVars, handoffVars, dbfVars, workspaceVars>>
    \/ /\ part = "handoff" /\ HandoffNext
       /\ UNCHANGED <<part, versionVars, queueVars, dbfVars, workspaceVars>>
    \/ /\ part = "dbf" /\ DbfNext
       /\ UNCHANGED <<part, versionVars, queueVars, handoffVars, workspaceVars>>
    \/ /\ part = "forms" /\ Forms
       /\ UNCHANGED <<part, versionVars, queueVars, handoffVars, dbfVars>>
    \/ /\ part = "loads" /\ OverlappingLoads
       /\ UNCHANGED <<part, versionVars, queueVars, handoffVars, dbfVars>>

ServicesSpec ==
    ServicesInit /\ [][ServicesNext]_<<part, versionVars, queueVars, handoffVars, dbfVars,
                                      workspaceVars>>

\* The type invariants of the components.
ServicesTypeOK ==
    /\ VersionTypeOK
    /\ QueueTypeOK /\ HandoffTypeOK /\ DbfTypeOK
    /\ WorkspaceTypeOK

Symmetry == UNION {Permutations({a1, a2}), Permutations({b1, b2}), Permutations({e1, e2})}
=============================================================================
