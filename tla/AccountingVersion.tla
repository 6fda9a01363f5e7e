-------------------------- MODULE AccountingVersion --------------------------
(***************************************************************************)
(* The lifecycle of an Accounting Version before it is published:          *)
(*   M014  draft rows, their immutable lineage, draft -> validating        *)
(*   M016  validation cycles, approvals, append-only evidence and audit    *)
(*                                                                         *)
(* Every M016 command starts with SELECT ... FOR UPDATE on the version row *)
(* and reads or writes only that version's rows afterwards, so a command   *)
(* is one action.  A command that raises changes nothing (its transaction  *)
(* rolls back): its conditions are the guard of the action.  Commands are  *)
(* given the right content hash; with any other they raise.                *)
(* Publication (M017) is in AccountingPublication, which extends this.     *)
(***************************************************************************)
EXTENDS Naturals, Sequences, Absent

CONSTANTS
    Versions,       \* identities of accounting versions
    Streams,        \* corporation x month x scenario
    ActualStreams,  \* the streams whose scenario is 'actual'
    Codes,          \* the validation codes the scenario requires
    Journal,        \* the code journal_completeness, one of Codes
    Cycles,         \* identities of validation cycles
    Actors,         \* actors that pass m016_assert_actor
    Humans,         \* those of them that are active canonical employees
    ApprovalTypes,  \* the approval types callers use
    Contents,       \* what a version's ledger may contain
    MaxSequence,    \* bound on version_sequence
    MaxDecisions   \* bound on the decisions recorded per type

AllApprovalTypes ==
    {"import_validated", "operations_confirmed", "accounting_confirmed",
     "publication_approved", "adjustment_approved", "reversal_approved"}

\* The kind of a version, whether a store or a department is in its facts or
\* allocations, whether it has facts.  Facts and allocations are accepted in
\* draft only (M015), so they are what they are from validating on.
ContentType == [kind: {"regular", "adjustment", "reversal"},
                scoped: BOOLEAN, facts: BOOLEAN]

ASSUME ConstantsAssumption ==
    /\ ActualStreams \subseteq Streams
    /\ Journal \in Codes
    /\ Humans \subseteq Actors
    /\ {"accounting_confirmed", "publication_approved"} \subseteq ApprovalTypes
    /\ ApprovalTypes \subseteq AllApprovalTypes
    /\ Contents \subseteq ContentType
    /\ MaxSequence \in Nat
    /\ MaxDecisions \in Nat

ASSUME NoneAssumption == None \notin Versions \cup Actors

Statuses == {"draft", "validating", "validated", "approved",
             "published", "superseded", "rejected"}

\* 'absent' stands for a version that has not been inserted.
VersionStatus == Statuses \cup {"absent"}
Verdicts == {"pass", "fail", "pending"}

VARIABLES
    status,       \* accounting_versions.status
    row,          \* the immutable columns of accounting_versions
    validatedBy,  \* accounting_versions.validated_by
    approvedBy,   \* accounting_versions.approved_by
    results,      \* validation_results: version, cycle, code -> result_status
    decisions,    \* approvals: version, type -> decisions by decision_sequence
    audit         \* audit_events of a version

versionVars == <<status, row, validatedBy, approvedBy, results, decisions, audit>>

RowType == [stream: Streams, sequence: Nat, parent: Versions \cup {None},
            content: ContentType, createdBy: Actors]
DecisionType == [cycle: Cycles, decision: {"approved", "rejected"}, by: Humans]
AuditType == [action: {"validation_result_recorded", "validation_passed",
                       "validation_failed", "approval_recorded",
                       "version_approved", "publication_recorded",
                       "version_published", "version_superseded"},
              from: Statuses, to: Statuses]

-----------------------------------------------------------------------------
(* The rows of a stream and the evidence of a version. *)

Existing == {v \in Versions : status[v] # "absent"}
InStream(s) == {v \in Existing : row[v].stream = s}

\* m016_required_validation_codes and the pass counts made with it: every
\* required code of the cycle has a result, and the result is pass.
CompletePass(v, k) == \A c \in Codes : results[v][k][c] = "pass"
PassingCycles(v) == {k \in Cycles : CompletePass(v, k)}

ApprovedDecision(v, t, d) ==
    d \in DOMAIN decisions[v][t] /\ decisions[v][t][d].decision = "approved"

\* Mutant of IsApproved: only the type that moves the version is closed.
IsConfirmed(v, t) ==
    t = "accounting_confirmed" /\ \E d \in DOMAIN decisions[v][t] : ApprovedDecision(v, t, d)

\* The version holds an approved decision of the type.
IsApproved(v, t) == \E d \in DOMAIN decisions[v][t] : ApprovedDecision(v, t, d)

Event(name, before, after) == [action |-> name, from |-> before, to |-> after]

\* Mutant of PassCountMatches: the guard asks for a complete cycle only.
SomeCyclePasses(v) == PassingCycles(v) # {}

\* The evidence count of validating -> validated sums the passes of EVERY
\* complete cycle and must equal the number of required codes: exactly one
\* cycle is complete.
PassCountMatches(v) == \E k \in Cycles : PassingCycles(v) = {k}

\* The status changes guard_accounting_version_mutation lets through for the
\* commands of M014 and M016.
GuardAllows(v, to) ==
    \/ status[v] = "draft" /\ to = "validating"
    \/ status[v] = "validating" /\ to = "validated" /\ PassCountMatches(v)
    \/ /\ status[v] = "validating" /\ to = "rejected"
       /\ \E k \in Cycles, c \in Codes : results[v][k][c] = "fail"

-----------------------------------------------------------------------------
VersionInit ==
    /\ status = [v \in Versions |-> "absent"]
    /\ row = [v \in Versions |-> None]
    /\ validatedBy = [v \in Versions |-> None]
    /\ approvedBy = [v \in Versions |-> None]
    /\ results = [v \in Versions |-> [k \in Cycles |-> [c \in Codes |-> "missing"]]]
    /\ decisions = [v \in Versions |-> [t \in ApprovalTypes |-> <<>>]]
    /\ audit = [v \in Versions |-> {}]

\* Mutant of ParentAccepted: the order of the sequences is not looked at.
ParentInStream(s, n, p) == IF n = 1 THEN p = None ELSE p \in InStream(s)

\* validate_accounting_version_insert: the parent of a version of a stream.
ParentAccepted(s, n, p) ==
    IF n = 1 THEN p = None ELSE p \in InStream(s) /\ row[p].sequence < n

\* INSERT of a version.  The sequence is the caller's choice, unique in the
\* stream; sequence 1 has no parent, any other has a parent of the stream
\* with a lower sequence; a reversal is never the first of its stream.
InsertDraft(v, s, n, p, content, a) ==
    /\ status[v] = "absent"
    /\ \A w \in InStream(s) : row[w].sequence # n
    /\ ParentAccepted(s, n, p)
    /\ content.kind = "reversal" => n > 1
    /\ status' = [status EXCEPT ![v] = "draft"]
    /\ row' = [row EXCEPT ![v] = [stream |-> s, sequence |-> n, parent |-> p,
                                  content |-> content, createdBy |-> a]]
    /\ UNCHANGED <<validatedBy, approvedBy, results, decisions, audit>>

\* UPDATE ... SET status = 'validating'; the only transition without a command.
StartValidation(v) ==
    /\ GuardAllows(v, "validating")
    /\ status' = [status EXCEPT ![v] = "validating"]
    /\ UNCHANGED <<row, validatedBy, approvedBy, results, decisions, audit>>

\* What the evaluator can find: without facts a violation is 'pending', except
\* for journal_completeness; the master data it reads may change between two
\* cycles, so a code may pass in one and fail in another.
Outcomes(v, c) ==
    IF row[v].content.facts \/ c = Journal THEN {"pass", "fail"}
                                           ELSE {"pass", "pending"}

\* Mutant of RecordValidation: a repeated evaluation overwrites its result.
RecordValidationAgain(v, k, c, outcome) ==
    /\ status[v] = "validating"
    /\ outcome \in Outcomes(v, c)
    /\ results' = [results EXCEPT ![v][k][c] = outcome]
    /\ UNCHANGED <<status, row, validatedBy, approvedBy, decisions, audit>>

\* record_accounting_validation
RecordValidation(v, k, c, outcome) ==
    /\ status[v] = "validating"
    /\ results[v][k][c] = "missing"
    /\ outcome \in Outcomes(v, c)
    /\ results' = [results EXCEPT ![v][k][c] = outcome]
    /\ audit' = [audit EXCEPT ![v] = @ \cup
                   {Event("validation_result_recorded", "validating", "validating")}]
    /\ UNCHANGED <<status, row, validatedBy, approvedBy, decisions>>

\* Mutant of Evaluated: the results that are there are enough.
PartlyEvaluated(v, k) == \E c \in Codes : results[v][k][c] \in {"pass", "fail"}

\* Every required code of the cycle has a result that is not pending.
Evaluated(v, k) == \A c \in Codes : results[v][k][c] \in {"pass", "fail"}

\* finalize_accounting_validation: an incomplete or a pending cycle raises, a
\* failed one rejects the version, a passing one validates it.
Finalize(v, k, a) ==
    LET failed == \E c \in Codes : results[v][k][c] = "fail"
        next == IF failed THEN "rejected" ELSE "validated"
    IN  /\ status[v] = "validating"
        /\ Evaluated(v, k)
        /\ GuardAllows(v, next)
        /\ status' = [status EXCEPT ![v] = next]
        /\ validatedBy' = [validatedBy EXCEPT ![v] = IF failed THEN @ ELSE a]
        /\ audit' = [audit EXCEPT ![v] = @ \cup
                       {Event(IF failed THEN "validation_failed" ELSE "validation_passed",
                              "validating", next)}]
        /\ UNCHANGED <<row, approvedBy, results, decisions>>

\* Mutant of AssertHuman: a service may decide.
AssertActor(a) == a \in Actors

\* m016_assert_actor with p_require_human.
AssertHuman(a) == a \in Humans

\* Mutant of NotMaker: the creator is forgotten.
NotValidator(v, a) == a # validatedBy[v]

\* The maker, creator or validator, is never the checker.
NotMaker(v, a) == a # row[v].createdBy /\ a # validatedBy[v]

\* Mutant of ApprovalEvents: the change of status is not audited.
DecisionEvent(confirmed) == {Event("approval_recorded", "validated", "validated")}

\* What an approval decision appends to the audit log.
ApprovalEvents(confirmed) ==
    {Event("approval_recorded", "validated", "validated")} \cup
    (IF confirmed THEN {Event("version_approved", "validated", "approved")} ELSE {})

\* record_accounting_approval.  An approved accounting_confirmed decision approves the version.
RecordApproval(v, k, t, decision, a) ==
    LET confirmed == t = "accounting_confirmed" /\ decision = "approved"
    IN  /\ AssertHuman(a)
        /\ ~ IsApproved(v, t)
        /\ status[v] = "validated"
        /\ NotMaker(v, a)
        /\ CompletePass(v, k)
        /\ Len(decisions[v][t]) < MaxDecisions
        /\ decisions' = [decisions EXCEPT ![v][t] =
                           Append(@, [cycle |-> k, decision |-> decision, by |-> a])]
        /\ status' = [status EXCEPT ![v] = IF confirmed THEN "approved" ELSE @]
        /\ approvedBy' = [approvedBy EXCEPT ![v] = IF confirmed THEN a ELSE @]
        /\ audit' = [audit EXCEPT ![v] = @ \cup ApprovalEvents(confirmed)]
        /\ UNCHANGED <<row, validatedBy, results>>

\* The commands on version v.
VersionCommand(v) ==
    \/ \E s \in Streams, n \in 1..MaxSequence, p \in Versions \cup {None},
          content \in Contents, a \in Actors : InsertDraft(v, s, n, p, content, a)
    \/ StartValidation(v)
    \/ \E k \in Cycles, c \in Codes, outcome \in Verdicts :
          RecordValidation(v, k, c, outcome)
    \/ \E k \in Cycles, a \in Actors : Finalize(v, k, a)
    \/ \E k \in Cycles, t \in ApprovalTypes, decision \in {"approved", "rejected"},
          a \in Actors : RecordApproval(v, k, t, decision, a)

VersionNext == \E v \in Versions : VersionCommand(v)

VersionSpec == VersionInit /\ [][VersionNext]_versionVars

-----------------------------------------------------------------------------
(* Properties. *)

\* The type invariant.
VersionTypeOK ==
    /\ status \in [Versions -> VersionStatus]
    /\ row \in [Versions -> RowType \cup {None}]
    /\ \A v \in Versions : status[v] # "absent" => row[v] \in RowType
    /\ validatedBy \in [Versions -> Actors \cup {None}]
    /\ approvedBy \in [Versions -> Humans \cup {None}]
    /\ results \in [Versions -> [Cycles -> [Codes -> Verdicts \cup {"missing"}]]]
    /\ decisions \in [Versions -> [ApprovalTypes -> Seq(DecisionType)]]
    /\ audit \in [Versions -> SUBSET AuditType]

Decided == {"validated", "approved", "published", "superseded"}
Confirmed == {"approved", "published", "superseded"}

\* From validating -> validated on, exactly one validation cycle of the version
\* is complete, and every approval decision names that cycle, whichever
\* callers recorded results and decisions in whichever order.  M017 looks for
\* all approvals in one cycle: this is why approvals never split over cycles.
OneEvidenceCycle ==
    \A v \in Versions :
        /\ status[v] \in Decided => \E k \in Cycles : PassingCycles(v) = {k}
        /\ \A t \in ApprovalTypes : \A d \in DOMAIN decisions[v][t] :
              PassingCycles(v) = {decisions[v][t][d].cycle}

\* Maker and checker differ: nobody who created or validated a version decided
\* an approval of it, and the version is approved by the person whose approved
\* accounting_confirmed decision is on record.
MakerChecker ==
    \A v \in Versions :
        /\ \A t \in ApprovalTypes : \A d \in DOMAIN decisions[v][t] :
              decisions[v][t][d].by \notin {row[v].createdBy, validatedBy[v]}
        /\ status[v] \in Confirmed =>
              \E d \in DOMAIN decisions[v]["accounting_confirmed"] :
                  /\ ApprovedDecision(v, "accounting_confirmed", d)
                  /\ decisions[v]["accounting_confirmed"][d].by = approvedBy[v]

\* A decision that approves closes its type: it is the last of the type.  So an
\* approval is never followed by a rejection of the same type.
ApprovalIsFinal ==
    \A v \in Versions, t \in ApprovalTypes : \A d \in DOMAIN decisions[v][t] :
        decisions[v][t][d].decision = "approved" => d = Len(decisions[v][t])

\* Decisions are recorded about validated versions only.
UndecidedHasNoDecision ==
    \A v \in Versions, t \in ApprovalTypes :
        status[v] \notin Decided => decisions[v][t] = <<>>

\* The inductive form of the evidence invariants.
EvidenceInv ==
    /\ OneEvidenceCycle
    /\ MakerChecker
    /\ ApprovalIsFinal
    /\ UndecidedHasNoDecision

\* A version is rejected on evidence: one of its cycles is fully evaluated and
\* has a failed code, and nothing was ever approved or rejected about it.
RejectedOnEvidence ==
    \A v \in Versions : status[v] = "rejected" =>
        /\ \E k \in Cycles :
              /\ \A c \in Codes : results[v][k][c] \in {"pass", "fail"}
              /\ ~ CompletePass(v, k)
        /\ \A t \in ApprovalTypes : decisions[v][t] = <<>>

\* The statuses a version in a status has passed through with an audit event.
AuditedPath(s) ==
    CASE s = "validated"  -> {"validated"}
      [] s = "rejected"   -> {"rejected"}
      [] s = "approved"   -> {"validated", "approved"}
      [] s = "published"  -> {"validated", "approved", "published"}
      [] s = "superseded" -> {"validated", "approved", "published", "superseded"}
      [] OTHER            -> {}

\* The audit log alone tells the status of a version: the status changes it
\* holds are exactly those on the way to the present status (draft ->
\* validating is not audited), each from the status before it.
AuditExplainsStatus ==
    \A v \in Versions :
        {e.to : e \in {x \in audit[v] : x.from # x.to}} = AuditedPath(status[v])

\* Parents form a forest ordered by sequence: a parent is an older version of
\* the same stream, sequences are unique in a stream, and only sequence 1 has
\* no parent.
LineageOrdered ==
    \A v \in Existing :
        /\ row[v].parent = None <=> row[v].sequence = 1
        /\ row[v].parent # None =>
              /\ row[v].parent \in InStream(row[v].stream)
              /\ row[row[v].parent].sequence < row[v].sequence
        /\ \A w \in InStream(row[v].stream) :
              row[w].sequence = row[v].sequence => w = v

\* Evidence is append-only: no step changes a recorded result or decision, no
\* step records a result once the version has left validating, and a verdict on
\* the version stands: a validated version is never rejected, nor a rejected
\* one revived.
EvidenceAppendOnly ==
    [][\A v \in Versions :
          /\ \A k \in Cycles, c \in Codes :
                results[v][k][c] # "missing" \/ status[v] # "validating"
                    => results'[v][k][c] = results[v][k][c]
          /\ \A t \in ApprovalTypes :
                /\ Len(decisions[v][t]) <= Len(decisions'[v][t])
                /\ \A d \in DOMAIN decisions[v][t] :
                      decisions'[v][t][d] = decisions[v][t][d]
          /\ status[v] \in Decided => status'[v] \in Decided
          /\ status[v] = "rejected" => status'[v] = "rejected"]_versionVars

-----------------------------------------------------------------------------
(* What the documents of the repository say, and the commands do not do. *)

\* "A complete cycle of blocking PASS results permits validating -> validated"
\* (M016 design package).  The guard refuses when two cycles are complete.
PassingCyclePermitsValidated ==
    \A v \in Versions :
        status[v] = "validating" /\ PassingCycles(v) # {} => GuardAllows(v, "validated")

\* "a rejected decision is retained and may be followed by a new decision"
\* (M016 design package): a version with a rejected and no approved decision of
\* a type still takes decisions.  It does not once accounting_confirmed has
\* moved it out of validated.
RejectedDecisionReopens ==
    \A v \in Versions, t \in ApprovalTypes :
        decisions[v][t] # <<>> /\ ~ IsApproved(v, t) => status[v] = "validated"
=============================================================================
