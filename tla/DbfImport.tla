------------------------------- MODULE DbfImport -------------------------------
(***************************************************************************)
(* Monthly business data (one kind of fact, one month): the import panel of *)
(* the management page in staging, the edge function it calls, and the      *)
(* tables behind.  The production pilot has its own inputs, not the panel.   *)
(*                                                                         *)
(* Every RPC is one transaction, except the promotion, which reads whether  *)
(* its grains are free in one statement and writes in later ones.  Between   *)
(* its awaits a panel may be clicked and edited: an edit enables its start   *)
(* button again while a start is still on its way.                          *)
(***************************************************************************)
EXTENDS Naturals, FiniteSets, Functions, Absent

CONSTANTS
    Panels, Starts,   \* open panels; start handlers that may be under way
    Files,           \* source files: a digest and a size
    Keys(_),         \* the source keys of a file, one row each
    Stores          \* the canonical entities of the hub

\* NULL is no file; a file has at least one row, and finitely many; the two
\* states of a mapping without an entity are none.
ASSUME DbfAssumption ==
    /\ None \notin Files
    /\ \A f \in Files : IsFiniteSet(Keys(f)) /\ Keys(f) # {}
    /\ "unresolved" \notin Stores /\ "quarantined" \notin Stores

VARIABLES
    batch,    \* import batches; a file has one batch per kind, month and type
    mapping,  \* entity mappings, by source key
    staged,   \* staging rows, by batch
    facts,
    tx,       \* promotions between their check and their writes
    start, panel

dbfVars == <<batch, mapping, staged, facts, tx, start, panel>>
dbfTables == <<batch, mapping, staged, facts, tx>>

SourceKeys == UNION {Keys(f) : f \in Files}
NoBatch == [status |-> "none", revision |-> 0, corrects |-> None]

IdleStart == [at |-> "idle", panel |-> None, file |-> None, corrects |-> None, open |-> {}]

DbfInit ==
    /\ batch = [f \in Files |-> NoBatch]
    /\ mapping = [k \in SourceKeys |-> "unresolved"]
    /\ staged = [f \in Files |-> {}]
    /\ facts = {}
    /\ tx = {}
    /\ start = [s \in Starts |-> IdleStart]
    /\ panel = [p \in Panels |-> [parsed |-> None, batch |-> None, rows |-> {},
                                unresolved |-> {}, refresh |-> FALSE,
                                preview |-> None, enabled |-> {}]]

Active(k) == mapping[k] \in Stores
Unlocked(b) == b \notin tx
SetStatus(b, s) == batch' = [batch EXCEPT ![b].status = s]
FactsOf(b) == {x \in facts : x.batch = b}
ActiveFacts == {x \in facts : x.active}
Taken == {x.store : x \in ActiveFacts}
StoresOf(b) == {r.store : r \in staged[b]}

-----------------------------------------------------------------------------
(* The tables: one transaction each. *)

\* A correction names a promoted batch nobody corrects yet.
Correctable(b) ==
    /\ batch[b].status = "promoted"
    /\ Unlocked(b)
    /\ \A f \in Files : batch[f].corrects # b

\* dbf_import_start_v1: the file of a batch cannot be started again.
CanStart(f, corrects) ==
    /\ batch[f] = NoBatch
    /\ corrects # None => Correctable(corrects)

InsertBatch(f, corrects) ==
    batch' = [batch EXCEPT ![f] =
        [status |-> "parsed", corrects |-> corrects,
         revision |-> IF corrects = None THEN 1 ELSE batch[corrects].revision + 1]]

\* Mutant of QuarantineMappings: a key that is known is reset.
ResetMappings(b, keys) ==
    /\ mapping' = [k \in SourceKeys |-> IF k \in keys THEN "quarantined" ELSE mapping[k]]
    /\ SetStatus(b, "mapping_required")

\* on conflict do nothing.
QuarantineMappings(b, keys) ==
    /\ mapping' = [k \in SourceKeys |->
                     IF k \in keys /\ mapping[k] = "unresolved"
                       THEN "quarantined" ELSE mapping[k]]
    /\ SetStatus(b, "mapping_required")

Stageable(b, rows) ==
    /\ batch[b].status \in {"parsed", "mapping_required"}
    /\ Cardinality(rows) = Cardinality(Keys(b))
    /\ \A r \in rows : mapping[r.key] = r.store

\* Mutant of FreeAtWrite: the check is trusted.
FreeAtCheck(b) == TRUE

\* The unique index on active grains, which the insert meets.
FreeAtWrite(b) == StoresOf(b) \cap Taken = {}

\* A correction has exactly the grains that are active for the original.
SameGrains(b) ==
    StoresOf(b) = {x.store : x \in FactsOf(batch[b].corrects) \cap ActiveFacts}

NewFacts(b) ==
    {[batch |-> b, store |-> s, version |-> batch[b].revision, active |-> TRUE] :
        s \in StoresOf(b)}

MayPromote(b) ==
    /\ batch[b].status = "approved"
    /\ IF batch[b].corrects = None
         THEN StoresOf(b) \cap Taken = {}
         ELSE batch[batch[b].corrects].status = "promoted"

\* Mutant of Retired: facts of the batch itself are retired.
RetiredByBatch(b) == {[x EXCEPT !.active = x.active /\ x.batch # b] : x \in facts}

Retired(b) ==
    {[x EXCEPT !.active = x.active /\ x.batch # batch[b].corrects] : x \in facts}

\* Writes and commit, or the roll back of a conflict.
PromoteWrite(b) ==
    LET old == batch[b].corrects
    IN  /\ b \in tx
        /\ tx' = tx \ {b}
        /\ IF IF old = None THEN FreeAtWrite(b) ELSE SameGrains(b)
             THEN /\ facts' = Retired(b) \cup NewFacts(b)
                  /\ batch' = [f \in Files |->
                       CASE f = b -> [batch[f] EXCEPT !.status = "promoted"]
                         [] f = old -> [batch[f] EXCEPT !.status = "superseded"]
                         [] OTHER -> batch[f]]
             ELSE UNCHANGED <<facts, batch>>
        /\ UNCHANGED <<mapping, staged, start, panel>>

-----------------------------------------------------------------------------
(* The panel. *)

\* Start: the input is parsed, the buttons of later steps are disabled.
Begin(p, s, f, corrects) ==
    /\ start[s].at = "idle"
    /\ corrects # None => batch[corrects].status = "promoted"
    /\ start' = [start EXCEPT ![s] = [at |-> "start", panel |-> p, file |-> f,
                                      corrects |-> corrects, open |-> {}]]
    /\ panel' = [panel EXCEPT ![p].parsed = f, ![p].enabled = {}]
    /\ UNCHANGED dbfTables

Ended(s) == start' = [start EXCEPT ![s] = IdleStart]

\* The request to start.
StartImport(s) ==
    LET f == start[s].file
    IN  /\ start[s].at = "start"
        /\ \/ /\ CanStart(f, start[s].corrects)
              /\ InsertBatch(f, start[s].corrects)
              /\ start' = [start EXCEPT ![s].at = "answer"]
           \/ /\ ~ CanStart(f, start[s].corrects)
              /\ Ended(s)
              /\ UNCHANGED batch
        /\ UNCHANGED <<mapping, staged, facts, tx, panel>>

\* The answer is lost, and the handler fails.
LoseAnswer(s) ==
    /\ start[s].at = "answer"
    /\ Ended(s)
    /\ UNCHANGED <<dbfTables, panel>>

\* The answer names the batch of the panel.
StartAnswer(s) ==
    /\ start[s].at = "answer"
    /\ start' = [start EXCEPT ![s].at = "resolve"]
    /\ panel' = [panel EXCEPT ![start[s].panel].batch = start[s].file]
    /\ UNCHANGED dbfTables

\* The keys of the input the panel holds now are resolved; those without an
\* active mapping are quarantined in a later request, for the batch it holds then.
Resolve(s) ==
    LET p == start[s].panel
        open == {k \in Keys(panel[p].parsed) : ~ Active(k)}
    IN  /\ start[s].at = "resolve"
        /\ IF open = {}
             THEN /\ panel' = [panel EXCEPT ![p].refresh = TRUE]
                  /\ Ended(s)
             ELSE /\ start' = [start EXCEPT ![s].at = "quarantine", ![s].open = open]
                  /\ UNCHANGED panel
        /\ UNCHANGED dbfTables

Quarantine(s) ==
    LET p == start[s].panel
        b == panel[p].batch
    IN  /\ start[s].at = "quarantine" /\ Unlocked(b)
        /\ IF batch[b].status \in {"parsed", "mapping_required"}
             THEN /\ QuarantineMappings(b, start[s].open)
                  /\ panel' = [panel EXCEPT ![p].refresh = TRUE]
             ELSE UNCHANGED <<mapping, batch, panel>>
        /\ Ended(s)
        /\ UNCHANGED <<staged, facts, tx>>

BoundRows(f) == {[key |-> k, store |-> mapping[k], file |-> f] : k \in Keys(f)}

\* refreshMappings: the rows of the input, bound to the canonical entities.
Refresh(p) ==
    LET open == {k \in Keys(panel[p].parsed) : ~ Active(k)}
    IN  /\ panel[p].refresh
        /\ panel' = [panel EXCEPT ![p].refresh = FALSE, ![p].unresolved = open,
                                ![p].rows = IF open = {} THEN BoundRows(panel[p].parsed) ELSE {},
                                ![p].enabled = IF open = {} THEN @ \cup {"validate"}
                                                            ELSE @ \ {"validate"}]
        /\ UNCHANGED <<dbfTables, start>>

\* A person decides what a quarantined key stands for, once it is verified by the
\* hub.
ConfirmMapping(p, k, store) ==
    /\ k \in panel[p].unresolved
    /\ mapping[k] = "quarantined"
    /\ mapping' = [mapping EXCEPT ![k] = store]
    /\ panel' = [panel EXCEPT ![p].refresh = TRUE]
    /\ UNCHANGED <<batch, staged, facts, tx, start>>

\* No two rows of a request have one grain.
DistinctGrains(rows) == \A r, q \in rows : r.store = q.store => r = q

Click(p, button) == button \in panel[p].enabled

\* Validate, approve and promote name the batch and the rows the panel holds now.
Validate(p) ==
    LET b == panel[p].batch
        accepted == DistinctGrains(panel[p].rows) /\ Stageable(b, panel[p].rows)
    IN  /\ Click(p, "validate") /\ b # None /\ Unlocked(b)
        /\ staged' = IF accepted THEN [staged EXCEPT ![b] = panel[p].rows] ELSE staged
        /\ IF accepted THEN SetStatus(b, "owner_review") ELSE UNCHANGED batch
        /\ panel' = [panel EXCEPT ![p].enabled = @ \ {"validate"},
                                ![p].preview = IF accepted THEN "validated" ELSE @]
        /\ UNCHANGED <<mapping, facts, tx, start>>

Approve(p) ==
    LET b == panel[p].batch
        review == batch[b].status = "owner_review"
    IN  /\ Click(p, "approve") /\ Unlocked(b)
        /\ IF review THEN SetStatus(b, "approved") ELSE UNCHANGED batch
        /\ panel' = [panel EXCEPT ![p].enabled = @ \ {"approve"},
                                ![p].preview = IF review THEN "approved" ELSE @]
        /\ UNCHANGED <<mapping, staged, facts, tx, start>>

\* The preview that follows enables the next button: the promotion only if the
\* batch it shows is approved.
Preview(p) ==
    LET next == IF panel[p].preview = "validated" THEN "approve" ELSE "promote"
        allowed == next = "approve" \/ batch[panel[p].batch].status = "approved"
    IN  /\ panel[p].preview # None
        /\ panel' = [panel EXCEPT ![p].preview = None,
                                ![p].enabled = IF allowed THEN @ \cup {next} ELSE @ \ {next}]
        /\ UNCHANGED <<dbfTables, start>>

Promote(p) ==
    LET b == panel[p].batch
    IN  /\ Click(p, "promote") /\ Unlocked(b)
        /\ tx' = IF MayPromote(b) THEN tx \cup {b} ELSE tx
        /\ panel' = [panel EXCEPT ![p].enabled = @ \ {"promote"}]
        /\ UNCHANGED <<batch, mapping, staged, facts, start>>

DbfNext ==
    \/ \E p \in Panels :
          \/ \E s \in Starts, f \in Files, c \in Files \cup {None} : Begin(p, s, f, c)
          \/ \E k \in SourceKeys, store \in Stores : ConfirmMapping(p, k, store)
          \/ Refresh(p) \/ Validate(p) \/ Approve(p) \/ Preview(p) \/ Promote(p)
    \/ \E s \in Starts : StartImport(s) \/ LoseAnswer(s) \/ StartAnswer(s) \/ Resolve(s) \/ Quarantine(s)
    \/ \E b \in Files : PromoteWrite(b)

DbfSpec == DbfInit /\ [][DbfNext]_dbfVars

-----------------------------------------------------------------------------
(* Properties. *)

\* The type invariant.
DbfTypeOK ==
    /\ \A f \in Files :
          /\ batch[f].status \in {"none", "parsed", "mapping_required", "owner_review",
                                  "approved", "promoted", "superseded"}
          /\ batch[f].corrects \in Files \cup {None}
    /\ \A k \in SourceKeys : mapping[k] \in Stores \cup {"unresolved", "quarantined"}
    /\ tx \subseteq Files
    /\ \A p \in Panels : panel[p].enabled \subseteq {"validate", "approve", "promote"}

\* At most one version of a grain is active, however promotions overlap, and the
\* active facts are those of the promoted batches: a superseded one has none.
OneActiveVersion ==
    /\ \A x, y \in ActiveFacts : x.store = y.store => x = y
    /\ {x.batch : x \in ActiveFacts} = {f \in Files : batch[f].status = "promoted"}

\* The rows staged for a batch rest on the decision that is in force for their
\* keys, whatever other panels do with the same keys.
StagedOnMappings == \A f \in Files : \A r \in staged[f] : mapping[r.key] = r.store

\* What is shown of the month: the active facts.
Readers == INSTANCE ReportedFigures WITH
    figures <- {[store |-> x.store, file |-> x.batch, version |-> x.version] : x \in ActiveFacts},
    retired <- {f \in Files : batch[f].status = "superseded"}

\* Imports, approvals and promotions of several panels, with the check of a promotion
\* and its writes apart, implement the reported figures: a month is taken over whole,
\* only by a correction of what it shows, and never goes back.
ImplementsReportedFigures == Readers!Spec

\* The rows of a batch come from its source file, whose rows and digests the batch
\* keeps as evidence.
StagedFromSource == \A f \in Files : \A r \in staged[f] : r.file = f

=============================================================================
