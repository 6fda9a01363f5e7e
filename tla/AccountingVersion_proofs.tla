----------------------- MODULE AccountingVersion_proofs -----------------------
(***************************************************************************)
(* Proofs about AccountingVersion, for every set of versions, streams,     *)
(* codes, cycles and actors.  The lemmas are about one command on one      *)
(* version, so that the proofs about AccountingPublication can use them.   *)
(***************************************************************************)
EXTENDS AccountingVersion, TLAPS

\* A command of M014 or M016 keeps the types of all tables.
LEMMA CommandKeepsTypes ==
    ASSUME VersionTypeOK, NEW v \in Versions, VersionCommand(v)
    PROVE  VersionTypeOK'
<1> USE ConstantsAssumption, NoneAssumption
<1>1. CASE \E s \in Streams, n \in 1..MaxSequence, p \in Versions \cup {None},
             content \in Contents, a \in Actors : InsertDraft(v, s, n, p, content, a)
  <2>1. PICK s \in Streams, n \in 1..MaxSequence, p \in Versions \cup {None},
             content \in Contents, a \in Actors : InsertDraft(v, s, n, p, content, a)
    BY <1>1
  <2> DEFINE r == [stream |-> s, sequence |-> n, parent |-> p,
                   content |-> content, createdBy |-> a]
  <2>2. p \in Versions \cup {None} /\ n \in Nat /\ content \in ContentType
    OBVIOUS
  <2>3. r \in RowType
    BY <2>2 DEF RowType
  <2>4. row' = [row EXCEPT ![v] = r] /\ status' = [status EXCEPT ![v] = "draft"]
    BY <2>1 DEF InsertDraft
  <2> HIDE DEF r
  <2>5. row' \in [Versions -> RowType \cup {None}]
    BY <2>3, <2>4 DEF VersionTypeOK
  <2>6. status' \in [Versions -> VersionStatus]
    BY <2>4 DEF VersionTypeOK, VersionStatus, Statuses
  <2>7. ASSUME NEW w \in Versions, status'[w] # "absent" PROVE row'[w] \in RowType
    BY <2>3, <2>4, <2>7 DEF VersionTypeOK
  <2> QED BY <2>1, <2>5, <2>6, <2>7 DEF InsertDraft, VersionTypeOK
<1>2. CASE StartValidation(v)
  <2>1. status' = [status EXCEPT ![v] = "validating"] /\ status[v] # "absent"
    BY <1>2 DEF StartValidation, GuardAllows
  <2>2. status' \in [Versions -> VersionStatus]
    BY <2>1 DEF VersionTypeOK, VersionStatus, Statuses
  <2> QED BY <1>2, <2>1, <2>2 DEF StartValidation, VersionTypeOK
<1>3. CASE \E k \in Cycles, c \in Codes, outcome \in Verdicts :
             RecordValidation(v, k, c, outcome)
  <2>1. PICK k \in Cycles, c \in Codes, outcome \in Verdicts :
             RecordValidation(v, k, c, outcome)
    BY <1>3
  <2>2. results' \in [Versions -> [Cycles -> [Codes -> Verdicts \cup {"missing"}]]]
    BY <2>1 DEF RecordValidation, VersionTypeOK
  <2>3. audit' \in [Versions -> SUBSET AuditType]
    BY <2>1 DEF RecordValidation, VersionTypeOK, AuditType, Event, Statuses
  <2> QED BY <2>1, <2>2, <2>3 DEF RecordValidation, VersionTypeOK
<1>4. CASE \E k \in Cycles, a \in Actors : Finalize(v, k, a)
  <2>1. PICK k \in Cycles, a \in Actors : Finalize(v, k, a)
    BY <1>4
  <2>2. PICK next \in {"validated", "rejected"} : status' = [status EXCEPT ![v] = next]
    BY <2>1 DEF Finalize
  <2>3. status' \in [Versions -> VersionStatus]
    BY <2>2 DEF VersionTypeOK, VersionStatus, Statuses
  <2>4. ASSUME NEW w \in Versions, status'[w] # "absent" PROVE row'[w] \in RowType
    BY <2>1, <2>2, <2>4 DEF VersionTypeOK, Finalize
  <2>5. validatedBy' \in [Versions -> Actors \cup {None}]
    BY <2>1 DEF VersionTypeOK, Finalize
  <2>6. audit' \in [Versions -> SUBSET AuditType]
    BY <2>1 DEF Finalize, VersionTypeOK, AuditType, Event, Statuses
  <2> QED BY <2>1, <2>3, <2>4, <2>5, <2>6 DEF Finalize, VersionTypeOK
<1>5. CASE \E k \in Cycles, t \in ApprovalTypes, decision \in {"approved", "rejected"},
             a \in Actors : RecordApproval(v, k, t, decision, a)
  <2>1. PICK k \in Cycles, t \in ApprovalTypes, decision \in {"approved", "rejected"},
             a \in Actors : RecordApproval(v, k, t, decision, a)
    BY <1>5
  <2>2. status[v] = "validated"
    BY <2>1 DEF RecordApproval
  <2>3. status' \in [Versions -> VersionStatus]
    BY <2>1 DEF RecordApproval, VersionTypeOK, VersionStatus, Statuses
  <2>4. ASSUME NEW w \in Versions, status'[w] # "absent" PROVE row'[w] \in RowType
    BY <2>1, <2>2, <2>4 DEF VersionTypeOK, RecordApproval
  <2>5. approvedBy' \in [Versions -> Humans \cup {None}]
    BY <2>1 DEF VersionTypeOK, RecordApproval, AssertHuman
  <2>6. audit' \in [Versions -> SUBSET AuditType]
    BY <2>1 DEF RecordApproval, ApprovalEvents, VersionTypeOK, AuditType, Event, Statuses
  <2> DEFINE new == [cycle |-> k, decision |-> decision, by |-> a]
  <2>7. new \in DecisionType
    BY <2>1 DEF DecisionType, RecordApproval, AssertHuman
  <2>8. decisions' = [decisions EXCEPT ![v][t] = Append(@, new)]
    BY <2>1 DEF RecordApproval
  <2> HIDE DEF new
  <2>9. decisions' \in [Versions -> [ApprovalTypes -> Seq(DecisionType)]]
    BY <2>7, <2>8 DEF VersionTypeOK
  <2> QED BY <2>1, <2>3, <2>4, <2>5, <2>6, <2>9 DEF RecordApproval, VersionTypeOK
<1> QED BY <1>1, <1>2, <1>3, <1>4, <1>5 DEF VersionCommand

\* Every reachable state of the lifecycle has the declared types.
THEOREM VersionTypeCorrect == VersionSpec => []VersionTypeOK
<1>1. VersionInit => VersionTypeOK
  BY DEF VersionInit, VersionTypeOK, VersionStatus
<1>2. VersionTypeOK /\ [VersionNext]_versionVars => VersionTypeOK'
  <2> SUFFICES ASSUME VersionTypeOK, [VersionNext]_versionVars PROVE VersionTypeOK'
    OBVIOUS
  <2>1. CASE VersionNext
    BY <2>1, CommandKeepsTypes DEF VersionNext
  <2>2. CASE UNCHANGED versionVars
    BY <2>2 DEF versionVars, VersionTypeOK
  <2> QED BY <2>1, <2>2
<1> QED BY <1>1, <1>2, PTL DEF VersionSpec

-----------------------------------------------------------------------------
(* Evidence.  EvidenceInv is a conjunction over the versions; a command is   *)
(* on one version, so the others keep their part of it.                      *)

EvidenceOf(v) ==
    /\ status[v] \in Decided => \E k \in Cycles : PassingCycles(v) = {k}
    /\ status[v] \in Confirmed =>
          \E d \in DOMAIN decisions[v]["accounting_confirmed"] :
              /\ ApprovedDecision(v, "accounting_confirmed", d)
              /\ decisions[v]["accounting_confirmed"][d].by = approvedBy[v]
    /\ \A t \in ApprovalTypes :
          /\ status[v] \notin Decided => decisions[v][t] = <<>>
          /\ \A d \in DOMAIN decisions[v][t] :
                /\ PassingCycles(v) = {decisions[v][t][d].cycle}
                /\ decisions[v][t][d].by \notin {row[v].createdBy, validatedBy[v]}
                /\ decisions[v][t][d].decision = "approved" => d = Len(decisions[v][t])

\* The invariant holds when it holds version by version.
LEMMA EvidencePerVersion == EvidenceInv <=> \A v \in Versions : EvidenceOf(v)
BY DEF EvidenceInv, EvidenceOf, OneEvidenceCycle, MakerChecker, ApprovalIsFinal,
       UndecidedHasNoDecision

\* What EvidenceOf reads of a version.
Unchanged(v) ==
    /\ status'[v] = status[v] /\ row'[v] = row[v]
    /\ validatedBy'[v] = validatedBy[v] /\ approvedBy'[v] = approvedBy[v]
    /\ results'[v] = results[v] /\ decisions'[v] = decisions[v]

\* A version whose rows do not change keeps its evidence.
LEMMA UnchangedKeepsEvidence ==
    ASSUME NEW v \in Versions, Unchanged(v), EvidenceOf(v)
    PROVE  EvidenceOf(v)'
BY DEF Unchanged, EvidenceOf, PassingCycles, CompletePass, ApprovedDecision

\* A command on a version leaves every other version alone.
LEMMA CommandTouchesOne ==
    ASSUME VersionTypeOK, NEW v \in Versions, VersionCommand(v),
           NEW w \in Versions, w # v
    PROVE  Unchanged(w)
BY DEF VersionCommand, InsertDraft, StartValidation, RecordValidation, Finalize,
       RecordApproval, VersionTypeOK, Unchanged

\* Commands before the approvals: the version has no decision before or after.
LEMMA EarlyCommandKeepsEvidence ==
    ASSUME VersionTypeOK, NEW v \in Versions, EvidenceOf(v),
           \/ \E s \in Streams, n \in 1..MaxSequence, p \in Versions \cup {None},
                 content \in Contents, a \in Actors : InsertDraft(v, s, n, p, content, a)
           \/ StartValidation(v)
           \/ \E k \in Cycles, c \in Codes, outcome \in Verdicts :
                 RecordValidation(v, k, c, outcome)
           \/ \E k \in Cycles, a \in Actors : Finalize(v, k, a)
    PROVE  EvidenceOf(v)'
<1>1. \A t \in ApprovalTypes : decisions[v][t] = <<>> /\ decisions'[v][t] = <<>>
  BY DEF InsertDraft, StartValidation, RecordValidation, Finalize, GuardAllows,
         EvidenceOf, Decided
<1>2. ASSUME status'[v] \in Decided PROVE \E k \in Cycles : PassingCycles(v)' = {k}
  <2>1. PICK k \in Cycles, a \in Actors : Finalize(v, k, a)
    BY <1>2 DEF InsertDraft, StartValidation, RecordValidation, VersionTypeOK,
                Decided, GuardAllows
  <2>2. GuardAllows(v, "validated")
    BY <1>2, <2>1 DEF Finalize, Decided, VersionTypeOK
  <2>3. PassingCycles(v)' = PassingCycles(v)
    BY <2>1 DEF Finalize, PassingCycles, CompletePass
  <2> QED BY <2>2, <2>3 DEF GuardAllows, PassCountMatches
<1>3. status'[v] \notin Confirmed
  BY DEF InsertDraft, StartValidation, RecordValidation, Finalize, GuardAllows,
         Confirmed, VersionTypeOK
<1> QED BY <1>1, <1>2, <1>3 DEF EvidenceOf

\* record_accounting_approval: the new decision is about the only complete
\* cycle, by somebody who is no maker, and the first approved one of its type.
LEMMA ApprovalKeepsEvidence ==
    ASSUME VersionTypeOK, NEW v \in Versions, EvidenceOf(v),
           NEW k \in Cycles, NEW t \in ApprovalTypes,
           NEW decision \in {"approved", "rejected"}, NEW a \in Actors,
           RecordApproval(v, k, t, decision, a)
    PROVE  EvidenceOf(v)'
<1> DEFINE new == [cycle |-> k, decision |-> decision, by |-> a]
           old == decisions[v][t]
<1> USE ConstantsAssumption
<1>1. status[v] = "validated" /\ status'[v] \in {"validated", "approved"}
  BY DEF RecordApproval, VersionTypeOK
<1>2. PassingCycles(v)' = PassingCycles(v) /\ PassingCycles(v) = {k}
  <2>1. k \in PassingCycles(v)
    BY DEF RecordApproval, PassingCycles
  <2>2. PassingCycles(v)' = PassingCycles(v)
    BY DEF RecordApproval, PassingCycles, CompletePass
  <2> QED BY <1>1, <2>1, <2>2 DEF EvidenceOf, Decided
<1>3. old \in Seq(DecisionType) /\ new \in DecisionType
  BY DEF VersionTypeOK, DecisionType, RecordApproval, AssertHuman
<1>4. decisions'[v] = [decisions[v] EXCEPT ![t] = Append(old, new)]
  BY DEF RecordApproval, VersionTypeOK
<1>5. decisions'[v][t] = Append(old, new)
  BY <1>4 DEF VersionTypeOK
<1>6. /\ DOMAIN decisions'[v][t] = DOMAIN old \cup {Len(old) + 1}
      /\ Len(decisions'[v][t]) = Len(old) + 1
      /\ \A d \in DOMAIN old : decisions'[v][t][d] = old[d]
      /\ decisions'[v][t][Len(old) + 1] = new
  BY <1>3, <1>5
<1>7. \A d \in DOMAIN old : old[d].decision # "approved"
  BY DEF RecordApproval, IsApproved, ApprovedDecision
<1>8. a # row'[v].createdBy /\ a # validatedBy'[v]
      /\ row'[v] = row[v] /\ validatedBy'[v] = validatedBy[v]
  BY DEF RecordApproval, NotMaker
<1>9. ASSUME NEW u \in ApprovalTypes, NEW d \in DOMAIN decisions'[v][u]
      PROVE  /\ PassingCycles(v)' = {decisions'[v][u][d].cycle}
             /\ decisions'[v][u][d].by \notin {row'[v].createdBy, validatedBy'[v]}
             /\ decisions'[v][u][d].decision = "approved" => d = Len(decisions'[v][u])
  <2>1. CASE u # t
    <3>1. decisions'[v][u] = decisions[v][u]
      BY <1>4, <2>1 DEF VersionTypeOK
    <3>2. /\ PassingCycles(v) = {decisions[v][u][d].cycle}
          /\ decisions[v][u][d].by \notin {row[v].createdBy, validatedBy[v]}
          /\ decisions[v][u][d].decision = "approved" => d = Len(decisions[v][u])
      BY <1>9, <3>1 DEF EvidenceOf
    <3>3. PassingCycles(v)' = {decisions'[v][u][d].cycle}
      BY <1>2, <3>1, <3>2
    <3> QED BY <1>8, <3>1, <3>2, <3>3
  <2>2. CASE u = t /\ d \in DOMAIN old
    BY <1>2, <1>6, <1>7, <1>8, <2>2 DEF EvidenceOf
  <2>3. CASE u = t /\ d = Len(old) + 1
    BY <1>2, <1>6, <1>8, <2>3
  <2> QED BY <1>6, <1>9, <2>1, <2>2, <2>3
<1>10. ASSUME status'[v] \in Confirmed
       PROVE  \E d \in DOMAIN decisions'[v]["accounting_confirmed"] :
                  /\ ApprovedDecision(v, "accounting_confirmed", d)'
                  /\ decisions'[v]["accounting_confirmed"][d].by = approvedBy'[v]
  <2>1. t = "accounting_confirmed" /\ decision = "approved" /\ approvedBy'[v] = a
    BY <1>1, <1>10 DEF RecordApproval, Confirmed, VersionTypeOK
  <2>2. Len(old) + 1 \in DOMAIN decisions'[v][t]
    BY <1>6
  <2> QED BY <1>6, <2>1, <2>2 DEF ApprovedDecision
<1>11. status'[v] \in Decided
  BY <1>1 DEF Decided
<1> QED BY <1>2, <1>9, <1>10, <1>11 DEF EvidenceOf

\* Every command of M014 and M016 keeps the evidence invariant.
LEMMA CommandKeepsEvidence ==
    ASSUME VersionTypeOK, EvidenceInv, NEW v \in Versions, VersionCommand(v)
    PROVE  EvidenceInv'
<1>1. ASSUME NEW w \in Versions PROVE EvidenceOf(w)'
  <2>1. EvidenceOf(w)
    BY EvidencePerVersion
  <2>2. CASE w # v
    BY <2>1, <2>2, CommandTouchesOne, UnchangedKeepsEvidence
  <2>3. CASE w = v
    BY <2>1, <2>3, EarlyCommandKeepsEvidence, ApprovalKeepsEvidence DEF VersionCommand
  <2> QED BY <2>2, <2>3
<1>2. EvidenceInv' <=> \A w \in Versions : EvidenceOf(w)'
  BY DEF EvidenceInv, EvidenceOf, OneEvidenceCycle, MakerChecker, ApprovalIsFinal,
         UndecidedHasNoDecision
<1> QED BY <1>1, <1>2

\* Without any version there is nothing to justify.
LEMMA VersionInitEvidence == VersionInit => VersionTypeOK /\ EvidenceInv
<1>1. VersionInit => VersionTypeOK
  BY DEF VersionInit, VersionTypeOK, VersionStatus
<1>2. VersionInit => EvidenceInv
  BY ConstantsAssumption DEF VersionInit, EvidenceInv, OneEvidenceCycle, MakerChecker,
     ApprovalIsFinal, UndecidedHasNoDecision, Decided, Confirmed
<1> QED BY <1>1, <1>2

\* Every reachable state of the lifecycle satisfies the inductive invariant.
THEOREM VersionEvidenceCorrect == VersionSpec => []EvidenceInv
<1>1. VersionInit => VersionTypeOK /\ EvidenceInv
  BY VersionInitEvidence
<1>2. VersionTypeOK /\ EvidenceInv /\ [VersionNext]_versionVars
        => (VersionTypeOK /\ EvidenceInv)'
  <2> SUFFICES ASSUME VersionTypeOK, EvidenceInv, [VersionNext]_versionVars
               PROVE  VersionTypeOK' /\ EvidenceInv'
    OBVIOUS
  <2>1. CASE VersionNext
    BY <2>1, CommandKeepsTypes, CommandKeepsEvidence DEF VersionNext
  <2>2. CASE UNCHANGED versionVars
    BY <2>2 DEF versionVars, VersionTypeOK, EvidenceInv, OneEvidenceCycle, MakerChecker,
                ApprovalIsFinal, UndecidedHasNoDecision, PassingCycles, CompletePass,
                ApprovedDecision
  <2> QED BY <2>1, <2>2
<1> QED BY <1>1, <1>2, PTL DEF VersionSpec

\* A version that passed validation has exactly one complete cycle, and all its
\* decisions are about that cycle.
THEOREM OneEvidenceCycleCorrect == VersionSpec => []OneEvidenceCycle
BY VersionEvidenceCorrect, PTL DEF EvidenceInv

\* No creator or validator of a version ever decides about it.
THEOREM MakerCheckerCorrect == VersionSpec => []MakerChecker
BY VersionEvidenceCorrect, PTL DEF EvidenceInv

\* An approved decision is the last of its type.
THEOREM ApprovalIsFinalCorrect == VersionSpec => []ApprovalIsFinal
BY VersionEvidenceCorrect, PTL DEF EvidenceInv

-----------------------------------------------------------------------------
(* Rejections.                                                               *)

\* What RejectedOnEvidence says of a version.
RejectionOf(v) ==
    status[v] = "rejected" =>
        /\ \E k \in Cycles :
              /\ \A c \in Codes : results[v][k][c] \in {"pass", "fail"}
              /\ ~ CompletePass(v, k)
        /\ \A t \in ApprovalTypes : decisions[v][t] = <<>>

\* A version whose rows do not change keeps the reason of its rejection.
LEMMA UnchangedKeepsRejection ==
    ASSUME NEW v \in Versions, Unchanged(v), RejectionOf(v)
    PROVE  RejectionOf(v)'
BY DEF Unchanged, RejectionOf, CompletePass

\* Only finalize_accounting_validation rejects: it has looked at every code of
\* the cycle, one of them failed, and before it no decision was possible.
LEMMA CommandKeepsRejections ==
    ASSUME VersionTypeOK, EvidenceInv, RejectedOnEvidence, NEW v \in Versions, VersionCommand(v)
    PROVE  RejectedOnEvidence'
<1>1. ASSUME NEW w \in Versions PROVE RejectionOf(w)'
  <2>1. RejectionOf(w)
    BY DEF RejectedOnEvidence, RejectionOf
  <2>2. CASE w # v
    BY <2>1, <2>2, CommandTouchesOne, UnchangedKeepsRejection
  <2>3. CASE w = v
    <3> SUFFICES ASSUME status'[v] = "rejected" PROVE RejectionOf(v)'
      BY <2>3 DEF RejectionOf
    <3>1. PICK k \in Cycles, a \in Actors : Finalize(v, k, a)
      BY DEF VersionCommand, InsertDraft, StartValidation, RecordValidation,
             RecordApproval, GuardAllows, VersionTypeOK
    <3>2. Evaluated(v, k) /\ \E c \in Codes : results[v][k][c] = "fail"
      BY <3>1 DEF Finalize, VersionTypeOK
    <3>3. status[v] = "validating" /\ results' = results /\ decisions' = decisions
      BY <3>1 DEF Finalize
    <3>4. \A t \in ApprovalTypes : decisions[v][t] = <<>>
      BY <3>3 DEF EvidenceInv, UndecidedHasNoDecision, Decided
    <3> QED BY <2>3, <3>2, <3>3, <3>4 DEF RejectionOf, Evaluated, CompletePass
  <2> QED BY <2>2, <2>3
<1>2. RejectedOnEvidence' <=> \A w \in Versions : RejectionOf(w)'
  BY DEF RejectedOnEvidence, RejectionOf
<1> QED BY <1>1, <1>2

\* A rejected version has a fully evaluated cycle with a failed code, and no
\* decision was ever recorded about it.
THEOREM RejectedOnEvidenceCorrect == VersionSpec => []RejectedOnEvidence
<1> DEFINE Inv == VersionTypeOK /\ EvidenceInv /\ RejectedOnEvidence
<1>1. VersionInit => Inv
  BY VersionInitEvidence DEF VersionInit, RejectedOnEvidence
<1>2. Inv /\ [VersionNext]_versionVars => Inv'
  <2> SUFFICES ASSUME Inv, [VersionNext]_versionVars PROVE Inv'
    OBVIOUS
  <2>1. CASE VersionNext
    BY <2>1, CommandKeepsTypes, CommandKeepsEvidence, CommandKeepsRejections DEF VersionNext
  <2>2. CASE UNCHANGED versionVars
    <3>1. VersionTypeOK' /\ EvidenceInv'
      BY <2>2 DEF versionVars, VersionTypeOK, EvidenceInv, OneEvidenceCycle, MakerChecker,
                  ApprovalIsFinal, UndecidedHasNoDecision, PassingCycles, CompletePass,
                  ApprovedDecision
    <3>2. RejectedOnEvidence'
      BY <2>2 DEF versionVars, RejectedOnEvidence, CompletePass
    <3> QED BY <3>1, <3>2
  <2> QED BY <2>1, <2>2
<1> QED BY <1>1, <1>2, PTL DEF VersionSpec

-----------------------------------------------------------------------------
(* The audit log.                                                            *)

\* The statuses that the status changes in a set of events lead to.
Reached(S) == {e.to : e \in {x \in S : x.from # x.to}}

\* Appending events adds the statuses they lead to.
LEMMA ReachedGrows ==
    ASSUME NEW S, NEW T PROVE Reached(S \cup T) = Reached(S) \cup Reached(T)
BY DEF Reached

\* An event that leaves the status alone reaches none.
LEMMA ReachedByNoChange ==
    ASSUME NEW name, NEW same PROVE Reached({Event(name, same, same)}) = {}
<1>1. Event(name, same, same).from = Event(name, same, same).to
  BY DEF Event
<1> QED BY <1>1 DEF Reached

\* An event that changes the status reaches the status after it.
LEMMA ReachedByChange ==
    ASSUME NEW name, NEW before, NEW after, before # after
    PROVE  Reached({Event(name, before, after)}) = {after}
<1>1. Event(name, before, after).from = before /\ Event(name, before, after).to = after
  BY DEF Event
<1> DEFINE x == Event(name, before, after)
<1> HIDE DEF x
<1>2. {y \in {x} : y.from # y.to} = {x}
  BY <1>1 DEF x
<1>3. {y.to : y \in {x}} = {after}
  BY <1>1 DEF x
<1> QED BY <1>2, <1>3 DEF Reached, x

\* What AuditExplainsStatus says of a version.
AuditOf(v) == Reached(audit[v]) = AuditedPath(status[v])

\* Every command appends the events of exactly the status change it makes.
LEMMA CommandKeepsAudit ==
    ASSUME VersionTypeOK, AuditExplainsStatus, NEW v \in Versions, VersionCommand(v)
    PROVE  AuditExplainsStatus'
<1>1. AuditOf(v)
  BY DEF AuditExplainsStatus, AuditOf, Reached
<1>2. AuditOf(v)'
  <2>1. CASE \E s \in Streams, n \in 1..MaxSequence, p \in Versions \cup {None},
                content \in Contents, a \in Actors : InsertDraft(v, s, n, p, content, a)
    <3>1. status[v] = "absent" /\ status'[v] = "draft" /\ audit' = audit
      BY <2>1 DEF InsertDraft, VersionTypeOK
    <3> QED BY <1>1, <3>1 DEF AuditOf, AuditedPath
  <2>2. CASE StartValidation(v)
    <3>1. status[v] = "draft" /\ status'[v] = "validating" /\ audit' = audit
      BY <2>2 DEF StartValidation, GuardAllows, VersionTypeOK
    <3> QED BY <1>1, <3>1 DEF AuditOf, AuditedPath
  <2>3. CASE \E k \in Cycles, c \in Codes, outcome \in Verdicts :
                RecordValidation(v, k, c, outcome)
    <3> DEFINE new == {Event("validation_result_recorded", "validating", "validating")}
    <3>1. status' = status /\ audit'[v] = audit[v] \cup new
      BY <2>3 DEF RecordValidation, VersionTypeOK
    <3>2. Reached(new) = {}
      BY ReachedByNoChange
    <3>3. Reached(audit'[v]) = Reached(audit[v])
      BY <3>1, <3>2, ReachedGrows
    <3> QED BY <1>1, <3>1, <3>3 DEF AuditOf
  <2>4. CASE \E k \in Cycles, a \in Actors : Finalize(v, k, a)
    <3>1. PICK name \in {"validation_failed", "validation_passed"},
               next \in {"rejected", "validated"} :
             /\ status[v] = "validating" /\ status'[v] = next
             /\ audit'[v] = audit[v] \cup {Event(name, "validating", next)}
      BY <2>4 DEF Finalize, VersionTypeOK
    <3>2. Reached({Event(name, "validating", next)}) = {next}
      <4>1. "validating" # next
        OBVIOUS
      <4> QED BY <4>1, ReachedByChange
    <3>3. Reached(audit'[v]) = Reached(audit[v]) \cup {next}
      BY <3>1, <3>2, ReachedGrows
    <3> QED BY <1>1, <3>1, <3>3 DEF AuditOf, AuditedPath
  <2>5. CASE \E k \in Cycles, t \in ApprovalTypes, decision \in {"approved", "rejected"},
                a \in Actors : RecordApproval(v, k, t, decision, a)
    <3> DEFINE recorded == {Event("approval_recorded", "validated", "validated")}
               approved == {Event("version_approved", "validated", "approved")}
    <3>1. Reached(recorded) = {} /\ Reached(approved) = {"approved"}
      <4>1. "validated" # "approved"
        OBVIOUS
      <4> QED BY <4>1, ReachedByNoChange, ReachedByChange
    <3>2. status[v] = "validated"
      BY <2>5 DEF RecordApproval
    <3>3. \/ status'[v] = "approved" /\ audit'[v] = audit[v] \cup (recorded \cup approved)
          \/ status'[v] = "validated" /\ audit'[v] = audit[v] \cup recorded
      BY <2>5, <3>2 DEF RecordApproval, ApprovalEvents, VersionTypeOK
    <3> HIDE DEF recorded, approved
    <3>4. \/ status'[v] = "approved" /\ Reached(audit'[v]) = Reached(audit[v]) \cup {"approved"}
          \/ status'[v] = "validated" /\ Reached(audit'[v]) = Reached(audit[v])
      <4>1. Reached(recorded \cup approved) = {"approved"}
        BY <3>1, ReachedGrows
      <4>2. Reached(audit[v] \cup (recorded \cup approved)) = Reached(audit[v]) \cup {"approved"}
        BY <4>1, ReachedGrows
      <4>3. Reached(audit[v] \cup recorded) = Reached(audit[v])
        BY <3>1, ReachedGrows
      <4> QED BY <3>3, <4>2, <4>3
    <3> QED BY <1>1, <3>2, <3>4 DEF AuditOf, AuditedPath
  <2> QED BY <2>1, <2>2, <2>3, <2>4, <2>5 DEF VersionCommand
<1>3. ASSUME NEW w \in Versions, w # v PROVE AuditOf(w)'
  <2>1. audit'[w] = audit[w] /\ status'[w] = status[w]
    BY <1>3 DEF VersionCommand, InsertDraft, StartValidation, RecordValidation, Finalize,
                RecordApproval, VersionTypeOK
  <2> QED BY <2>1 DEF AuditOf, AuditExplainsStatus, Reached
<1> QED BY <1>2, <1>3 DEF AuditExplainsStatus, AuditOf, Reached

\* The status of a version can be read off its audit log.
THEOREM AuditExplainsStatusCorrect == VersionSpec => []AuditExplainsStatus
<1>1. VersionInit => AuditExplainsStatus
  BY DEF VersionInit, AuditExplainsStatus, AuditedPath
<1>2. VersionTypeOK /\ AuditExplainsStatus /\ [VersionNext]_versionVars => AuditExplainsStatus'
  <2> SUFFICES ASSUME VersionTypeOK, AuditExplainsStatus, [VersionNext]_versionVars
               PROVE  AuditExplainsStatus'
    OBVIOUS
  <2>1. CASE VersionNext
    BY <2>1, CommandKeepsAudit DEF VersionNext
  <2>2. CASE UNCHANGED versionVars
    BY <2>2 DEF versionVars, AuditExplainsStatus
  <2> QED BY <2>1, <2>2
<1> QED BY <1>1, <1>2, VersionTypeCorrect, PTL DEF VersionSpec

-----------------------------------------------------------------------------
(* The lineage.                                                              *)

\* The lineage depends on the rows that exist and on nothing else.
LEMMA LineageKept ==
    ASSUME LineageOrdered, Existing' = Existing, row' = row
    PROVE  LineageOrdered'
BY DEF LineageOrdered, InStream

\* An INSERT adds one row: its sequence is new in the stream, and its parent is
\* a row of the stream with a lower one; the rows that are there stay.
LEMMA InsertKeepsLineage ==
    ASSUME VersionTypeOK, LineageOrdered, NEW v \in Versions,
           NEW s \in Streams, NEW n \in 1..MaxSequence, NEW p \in Versions \cup {None},
           NEW content \in Contents, NEW a \in Actors, InsertDraft(v, s, n, p, content, a)
    PROVE  LineageOrdered'
<1> USE NoneAssumption
<1>1. v \notin Existing /\ Existing' = Existing \cup {v}
  BY DEF InsertDraft, Existing, VersionTypeOK
<1>2. \A w \in Existing : row'[w] = row[w] /\ w # v
  BY <1>1 DEF InsertDraft, VersionTypeOK, Existing
<1>3. row'[v].stream = s /\ row'[v].sequence = n /\ row'[v].parent = p
  BY DEF InsertDraft, VersionTypeOK
<1>4. /\ InStream(s)' = InStream(s) \cup {v}
      /\ \A u \in Streams : u # s => InStream(u)' = InStream(u)
  BY <1>1, <1>2, <1>3 DEF InStream
<1>5. \A w \in InStream(s) : row[w].sequence # n
  BY DEF InsertDraft
<1>6. p = None <=> n = 1
  BY DEF InsertDraft, ParentAccepted, InStream, Existing
<1>7. p # None => p \in InStream(s) /\ row[p].sequence < n
  BY <1>6 DEF InsertDraft, ParentAccepted
<1>8. \A w \in Existing : row[w].stream \in Streams
  BY DEF Existing, VersionTypeOK, RowType
<1>9. \A u \in Streams : InStream(u) \subseteq Existing
  BY DEF InStream
<1>10. ASSUME NEW w \in Existing'
       PROVE  (/\ row[w].parent = None <=> row[w].sequence = 1
               /\ row[w].parent # None =>
                     /\ row[w].parent \in InStream(row[w].stream)
                     /\ row[row[w].parent].sequence < row[w].sequence
               /\ \A u \in InStream(row[w].stream) :
                     row[u].sequence = row[w].sequence => u = w)'
  <2>1. CASE w = v
    <3>1. p # None => p \in InStream(s)' /\ row'[p].sequence < n
      BY <1>2, <1>4, <1>7, <1>9
    <3>2. \A u \in InStream(s)' : row'[u].sequence = n => u = v
      BY <1>2, <1>4, <1>5, <1>9
    <3> QED BY <1>3, <1>6, <2>1, <3>1, <3>2
  <2>2. CASE w # v
    <3>1. w \in Existing /\ row'[w] = row[w]
      BY <1>1, <1>2, <2>2
    <3>2. PICK st \in Streams : st = row[w].stream
      BY <1>8, <3>1
    <3>3. row[w].parent = None <=> row[w].sequence = 1
      BY <3>1 DEF LineageOrdered
    <3>4. row[w].parent # None => /\ row[w].parent \in InStream(st)
                                  /\ row[row[w].parent].sequence < row[w].sequence
      BY <3>1, <3>2 DEF LineageOrdered
    <3>5. row[w].parent # None => /\ row[w].parent \in InStream(st)'
                                  /\ row'[row[w].parent].sequence < row[w].sequence
      BY <1>2, <1>4, <1>9, <3>4
    <3>6. \A u \in InStream(st) : row[u].sequence = row[w].sequence => u = w
      BY <3>1, <3>2 DEF LineageOrdered
    <3>7. w \in InStream(st)
      BY <3>1, <3>2 DEF InStream
    <3>8. \A u \in InStream(st)' : row'[u].sequence = row[w].sequence => u = w
      BY <1>2, <1>3, <1>4, <1>5, <1>9, <3>6, <3>7
    <3> QED BY <3>1, <3>2, <3>3, <3>5, <3>8
  <2> QED BY <2>1, <2>2
<1> QED BY <1>10 DEF LineageOrdered

\* Every command keeps the lineage in order.
LEMMA CommandKeepsLineage ==
    ASSUME VersionTypeOK, LineageOrdered, NEW v \in Versions, VersionCommand(v)
    PROVE  LineageOrdered'
<1>1. CASE \E s \in Streams, n \in 1..MaxSequence, p \in Versions \cup {None},
             content \in Contents, a \in Actors : InsertDraft(v, s, n, p, content, a)
  BY <1>1, InsertKeepsLineage
<1>2. CASE \/ StartValidation(v)
           \/ \E k \in Cycles, c \in Codes, outcome \in Verdicts :
                 RecordValidation(v, k, c, outcome)
           \/ \E k \in Cycles, a \in Actors : Finalize(v, k, a)
           \/ \E k \in Cycles, t \in ApprovalTypes, decision \in {"approved", "rejected"},
                 a \in Actors : RecordApproval(v, k, t, decision, a)
  <2>1. ASSUME NEW w \in Versions PROVE status'[w] # "absent" <=> status[w] # "absent"
    BY <1>2 DEF StartValidation, RecordValidation, Finalize, RecordApproval, GuardAllows,
                VersionTypeOK
  <2>2. Existing' = Existing
    BY <2>1 DEF Existing
  <2>3. row' = row
    BY <1>2 DEF StartValidation, RecordValidation, Finalize, RecordApproval
  <2> QED BY <2>2, <2>3, LineageKept
<1> QED BY <1>1, <1>2 DEF VersionCommand

\* The versions of a stream form a forest ordered by sequence.
THEOREM LineageOrderedCorrect == VersionSpec => []LineageOrdered
<1>1. VersionInit => LineageOrdered
  BY DEF VersionInit, LineageOrdered, Existing
<1>2. VersionTypeOK /\ LineageOrdered /\ [VersionNext]_versionVars => LineageOrdered'
  <2> SUFFICES ASSUME VersionTypeOK, LineageOrdered, [VersionNext]_versionVars
               PROVE  LineageOrdered'
    OBVIOUS
  <2>1. CASE VersionNext
    BY <2>1, CommandKeepsLineage DEF VersionNext
  <2>2. CASE UNCHANGED versionVars
    BY <2>2, LineageKept DEF versionVars, Existing
  <2> QED BY <2>1, <2>2
<1> QED BY <1>1, <1>2, VersionTypeCorrect, PTL DEF VersionSpec

-----------------------------------------------------------------------------
(* Evidence is append-only.                                                  *)

\* What EvidenceAppendOnly says of a version in a step.
AppendsOnly(v) ==
    /\ \A k \in Cycles, c \in Codes :
          results[v][k][c] # "missing" \/ status[v] # "validating"
              => results'[v][k][c] = results[v][k][c]
    /\ \A t \in ApprovalTypes :
          /\ Len(decisions[v][t]) <= Len(decisions'[v][t])
          /\ \A d \in DOMAIN decisions[v][t] :
                decisions'[v][t][d] = decisions[v][t][d]
    /\ status[v] \in Decided => status'[v] \in Decided
    /\ status[v] = "rejected" => status'[v] = "rejected"

\* A version whose rows do not change loses no evidence.
LEMMA UnchangedAppendsOnly ==
    ASSUME VersionTypeOK, NEW v \in Versions, Unchanged(v)
    PROVE  AppendsOnly(v)
BY DEF Unchanged, AppendsOnly, VersionTypeOK

\* A command appends to the evidence of its version: a result where there was
\* none, a decision after the others.
LEMMA CommandAppendsOnly ==
    ASSUME VersionTypeOK, NEW v \in Versions, VersionCommand(v)
    PROVE  AppendsOnly(v)
<1>1. CASE \E k \in Cycles, t \in ApprovalTypes, decision \in {"approved", "rejected"},
             a \in Actors : RecordApproval(v, k, t, decision, a)
  <2>1. PICK k \in Cycles, t \in ApprovalTypes, decision \in {"approved", "rejected"},
             a \in Actors : RecordApproval(v, k, t, decision, a)
    BY <1>1
  <2> DEFINE new == [cycle |-> k, decision |-> decision, by |-> a]
  <2>2. new \in DecisionType
    BY <2>1 DEF DecisionType, RecordApproval, AssertHuman
  <2>3. decisions' = [decisions EXCEPT ![v][t] = Append(@, new)]
    BY <2>1 DEF RecordApproval
  <2> HIDE DEF new
  <2>4. ASSUME NEW u \in ApprovalTypes
        PROVE  /\ Len(decisions[v][u]) <= Len(decisions'[v][u])
               /\ \A d \in DOMAIN decisions[v][u] : decisions'[v][u][d] = decisions[v][u][d]
    <3>1. decisions[v][u] \in Seq(DecisionType)
      BY DEF VersionTypeOK
    <3>2. decisions'[v][u] = IF u = t THEN Append(decisions[v][u], new) ELSE decisions[v][u]
      BY <2>3 DEF VersionTypeOK
    <3> QED BY <2>2, <3>1, <3>2
  <2>5. status[v] = "validated" /\ status'[v] \in {"validated", "approved"} /\ results' = results
    BY <2>1 DEF RecordApproval, VersionTypeOK
  <2> QED BY <2>4, <2>5 DEF AppendsOnly, Decided
<1>2. CASE \E k \in Cycles, c \in Codes, outcome \in Verdicts : RecordValidation(v, k, c, outcome)
  <2>1. PICK k \in Cycles, c \in Codes, outcome \in Verdicts : RecordValidation(v, k, c, outcome)
    BY <1>2
  <2>2. ASSUME NEW j \in Cycles, NEW b \in Codes, results[v][j][b] # "missing"
        PROVE  results'[v][j][b] = results[v][j][b]
    BY <2>1, <2>2 DEF RecordValidation, VersionTypeOK
  <2>3. status' = status /\ decisions' = decisions /\ status[v] = "validating"
    BY <2>1 DEF RecordValidation
  <2> QED BY <2>2, <2>3 DEF AppendsOnly, VersionTypeOK
<1>3. CASE \/ \E s \in Streams, n \in 1..MaxSequence, p \in Versions \cup {None},
                 content \in Contents, a \in Actors : InsertDraft(v, s, n, p, content, a)
           \/ StartValidation(v)
           \/ \E k \in Cycles, a \in Actors : Finalize(v, k, a)
  <2>1. results' = results /\ decisions' = decisions
    BY <1>3 DEF InsertDraft, StartValidation, Finalize
  <2>2. status[v] \notin Decided \cup {"rejected"}
    BY <1>3 DEF InsertDraft, StartValidation, Finalize, GuardAllows, Decided
  <2> QED BY <2>1, <2>2 DEF AppendsOnly, VersionTypeOK
<1> QED BY <1>1, <1>2, <1>3 DEF VersionCommand

\* No command changes or removes a result or a decision, and no verdict on a
\* version is taken back.
THEOREM EvidenceAppendOnlyCorrect == VersionSpec => EvidenceAppendOnly
<1>1. ASSUME VersionTypeOK, [VersionNext]_versionVars, NEW v \in Versions
      PROVE  AppendsOnly(v)
  <2>1. CASE VersionNext
    <3>1. PICK w \in Versions : VersionCommand(w)
      BY <2>1 DEF VersionNext
    <3> QED BY <1>1, <3>1, CommandAppendsOnly, CommandTouchesOne, UnchangedAppendsOnly
  <2>2. CASE UNCHANGED versionVars
    <3>1. Unchanged(v)
      BY <2>2 DEF versionVars, Unchanged
    <3> QED BY <1>1, <3>1, UnchangedAppendsOnly
  <2> QED BY <1>1, <2>1, <2>2
<1>2. VersionTypeOK /\ [VersionNext]_versionVars
        => [\A v \in Versions :
              /\ \A k \in Cycles, c \in Codes :
                    results[v][k][c] # "missing" \/ status[v] # "validating"
                        => results'[v][k][c] = results[v][k][c]
              /\ \A t \in ApprovalTypes :
                    /\ Len(decisions[v][t]) <= Len(decisions'[v][t])
                    /\ \A d \in DOMAIN decisions[v][t] :
                          decisions'[v][t][d] = decisions[v][t][d]
              /\ status[v] \in Decided => status'[v] \in Decided
              /\ status[v] = "rejected" => status'[v] = "rejected"]_versionVars
  BY <1>1 DEF AppendsOnly
<1> QED BY <1>2, VersionTypeCorrect, PTL DEF VersionSpec, EvidenceAppendOnly
=============================================================================
