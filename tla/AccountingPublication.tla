------------------------ MODULE AccountingPublication ------------------------
(***************************************************************************)
(* M017: publish_accounting_version, called by concurrent database         *)
(* sessions while the M014/M016 commands of AccountingVersion go on.       *)
(*                                                                         *)
(* A call is a transaction of several statements, each with a snapshot of  *)
(* its own.  It takes, in this order, the advisory lock of the stream, the *)
(* advisory lock of the request key and the row lock of the version, and   *)
(* holds them to its end.  Its writes are visible at commit: the last      *)
(* statements and the commit are one step.  A transaction may abort at any *)
(* step (statement timeout, lost connection, deadlock victim); the caller  *)
(* may then repeat the call, and may also repeat one that committed.       *)
(***************************************************************************)
EXTENDS AccountingVersion

CONSTANTS
    Sessions,     \* database sessions that call the command
    RequestKeys,  \* request_key values
    Memos         \* role, reason, evidence reference, correlation of a request

VARIABLES
    releases,  \* publication_releases with their only member, by publication
    pc,        \* where the call of a session is
    request,   \* the arguments of the call
    reply      \* what the last call of the session returned

pubVars == <<releases, pc, request, reply>>
vars == <<status, row, validatedBy, approvedBy, results, decisions, audit,
          releases, pc, request, reply>>

NoPublication == 0
PublicationIds == 1..Len(releases)

\* A call: its request key and what request_fingerprint digests.
RequestType == [key: RequestKeys, version: Versions, publisher: Humans,
                memo: Memos, expectedPrior: Nat]
ReleaseType == [request: RequestType, prior: Nat, cycle: Cycles]

\* 'key': has the stream lock; 'recheck': and the key lock; 'row': the key is
\* unused; 'checked': has the row lock, every condition held when it was read.
Stages == {"idle", "stream", "key", "recheck", "row", "checked"}
HoldsStream == {"key", "recheck", "row", "checked"}

\* Mutant of HoldsKey: a call takes the lock of its key before any other.
HoldsKeyFirst == {"stream", "key", "recheck", "row", "checked"}

HoldsKey == {"recheck", "row", "checked"}

-----------------------------------------------------------------------------
StreamOf(v) == row[v].stream
ReleasesOf(v) == {i \in PublicationIds : releases[i].request.version = v}
ReleasesIn(s) == {i \in PublicationIds : StreamOf(releases[i].request.version) = s}

\* The member of the stream whose version has status 'published'.
CurrentReleases(s) ==
    {i \in ReleasesIn(s) : status[releases[i].request.version] = "published"}
CurrentOf(s) ==
    IF CurrentReleases(s) = {} THEN NoPublication
    ELSE CHOOSE i \in CurrentReleases(s) :
            \A j \in CurrentReleases(s) :
                row[releases[j].request.version].sequence
                    <= row[releases[i].request.version].sequence

RowLocked(v) == \E p \in Sessions : pc[p] = "checked" /\ request[p].version = v

\* m017_required_approval_types
RequiredApprovals(v) ==
    {"accounting_confirmed", "publication_approved"}
        \cup (IF StreamOf(v) \in ActualStreams THEN {"import_validated"} ELSE {})
        \cup (IF row[v].content.scoped THEN {"operations_confirmed"} ELSE {})
        \cup (IF row[v].content.kind = "adjustment" THEN {"adjustment_approved"} ELSE {})
        \cup (IF row[v].content.kind = "reversal" THEN {"reversal_approved"} ELSE {})

ApprovedInCycle(v, t, k) ==
    /\ t \in ApprovalTypes
    /\ \E d \in DOMAIN decisions[v][t] :
          ApprovedDecision(v, t, d) /\ decisions[v][t][d].cycle = k

\* The cycle of the approved accounting_confirmed decision carries the complete
\* PASS evidence and every required approval.
Publishable(v, k) ==
    /\ ApprovedInCycle(v, "accounting_confirmed", k)
    /\ CompletePass(v, k)
    /\ \A t \in RequiredApprovals(v) : ApprovedInCycle(v, t, k)

HasNewer(v) ==
    \E w \in InStream(StreamOf(v)) :
        row[w].sequence > row[v].sequence /\ status[w] # "rejected"

-----------------------------------------------------------------------------
PublicationInit ==
    /\ VersionInit
    /\ releases = <<>>
    /\ pc = [p \in Sessions |-> "idle"]
    /\ request = [p \in Sessions |-> None]
    /\ reply = [p \in Sessions |-> NoPublication]

\* The M014/M016 commands; each waits for the row lock of its version, an
\* INSERT (its foreign key) for that of the parent.
LifecycleStep ==
    /\ \E v \in Versions :
          /\ ~ RowLocked(v)
          /\ VersionCommand(v)
          /\ row'[v] # row[v] => ~ RowLocked(row'[v].parent)
    /\ UNCHANGED pubVars

\* Mutant of Return: an error leaves the transaction open.
ReturnWithinTransaction(p, id) ==
    /\ reply' = [reply EXCEPT ![p] = id]
    /\ request' = [request EXCEPT ![p] = IF id = NoPublication THEN None ELSE @]
    /\ UNCHANGED pc

\* The end of a call: a publication id, or an error (NoPublication).
Return(p, id) ==
    /\ pc' = [pc EXCEPT ![p] = "idle"]
    /\ reply' = [reply EXCEPT ![p] = id]
    /\ request' = [request EXCEPT ![p] = IF id = NoPublication THEN None ELSE @]

\* The call: the version is read without a lock, for its stream only.
Call(p, q) ==
    /\ pc[p] = "idle"
    /\ q.version \in Existing
    /\ pc' = [pc EXCEPT ![p] = "stream"]
    /\ request' = [request EXCEPT ![p] = q]
    /\ reply' = [reply EXCEPT ![p] = NoPublication]
    /\ UNCHANGED <<releases, versionVars>>

\* Mutant of LockStream: the lock is tried and the result ignored.
TryLockStream(p) ==
    /\ pc[p] = "stream"
    /\ pc' = [pc EXCEPT ![p] = "key"]
    /\ UNCHANGED <<releases, request, reply, versionVars>>

\* pg_advisory_xact_lock of the stream.
LockStream(p) ==
    /\ pc[p] = "stream"
    /\ \A o \in Sessions : pc[o] \in HoldsStream =>
          StreamOf(request[o].version) # StreamOf(request[p].version)
    /\ pc' = [pc EXCEPT ![p] = "key"]
    /\ UNCHANGED <<releases, request, reply, versionVars>>

\* pg_advisory_xact_lock of the request key.
LockKey(p) ==
    /\ pc[p] = "key"
    /\ \A o \in Sessions : pc[o] \in HoldsKey => request[o].key # request[p].key
    /\ pc' = [pc EXCEPT ![p] = "recheck"]
    /\ UNCHANGED <<releases, request, reply, versionVars>>

\* Mutant of Fingerprint: the expected prior publication is not digested.
FingerprintOfVersion(q) == <<q.version, q.publisher, q.memo>>

\* m017_request_fingerprint: a digest of these (the stream is the version's).
Fingerprint(q) == <<q.version, q.publisher, q.memo, q.expectedPrior>>

\* The request key is looked up again under the locks: the same request gets
\* the publication it made, another request with the key is refused.
Recheck(p) ==
    /\ pc[p] = "recheck"
    /\ LET used == {i \in PublicationIds : releases[i].request.key = request[p].key}
       IN  \/ /\ used = {}
              /\ pc' = [pc EXCEPT ![p] = "row"]
              /\ UNCHANGED <<request, reply>>
           \/ \E i \in used :
                 Return(p, IF Fingerprint(releases[i].request) = Fingerprint(request[p])
                             THEN i ELSE NoPublication)
    /\ UNCHANGED <<releases, versionVars>>

\* Mutant of Accepts: the confirmation of accounting is enough.
AcceptsConfirmed(q) ==
    /\ status[q.version] = "approved"
    /\ ~ HasNewer(q.version)
    /\ CurrentOf(StreamOf(q.version)) = q.expectedPrior

\* What the statements after the row lock require, and the constraint that the
\* release of a reversal names the release it reverses, which is the prior one.
Accepts(q) ==
    /\ status[q.version] = "approved"
    /\ ~ HasNewer(q.version)
    /\ \E k \in Cycles : Publishable(q.version, k)
    /\ CurrentOf(StreamOf(q.version)) = q.expectedPrior
    /\ row[q.version].content.kind = "reversal" => q.expectedPrior # NoPublication

LockRowAndCheck(p) ==
    /\ pc[p] = "row"
    /\ ~ RowLocked(request[p].version)
    /\ IF Accepts(request[p])
         THEN /\ pc' = [pc EXCEPT ![p] = "checked"]
              /\ UNCHANGED <<request, reply>>
         ELSE Return(p, NoPublication)
    /\ UNCHANGED <<releases, versionVars>>

\* Mutant of ReleaseRow: what is superseded is not recorded.
FirstReleaseRow(q, cycle) ==
    [request |-> q, prior |-> NoPublication, cycle |-> cycle]

\* publication_releases with the member.
ReleaseRow(q, cycle) == [request |-> q, prior |-> q.expectedPrior, cycle |-> cycle]

\* Mutant of StatusAfter: the prior version stays published.
StatusWithPrior(v, old) == [status EXCEPT ![v] = "published"]

\* Mutant of StatusAfter: the new version is published in the ELSE branch only.
StatusWithoutNext(v, old) ==
    [w \in Versions |-> IF w \in old THEN "superseded"
                        ELSE IF w = v /\ old = {} THEN "published" ELSE status[w]]

\* The versions after the publication of v in the place of those in old.
StatusAfter(v, old) ==
    [w \in Versions |-> IF w = v THEN "published"
                        ELSE IF w \in old THEN "superseded" ELSE status[w]]

\* INSERT of the release and its member, prior version -> superseded (the
\* guard wants a successor with a higher sequence), version -> published, audit.
\* The deferred trigger that counts the current publications at commit is not a
\* condition here: SingleCurrent and PublishedOnEvidence show it never fires.
Publish(p) ==
    LET q == request[p]
        v == q.version
        prior == q.expectedPrior
        old == IF prior = NoPublication THEN {} ELSE {releases[prior].request.version}
        cycle == CHOOSE k \in Cycles : ApprovedInCycle(v, "accounting_confirmed", k)
    IN  /\ pc[p] = "checked"
        /\ \A w \in old : ~ RowLocked(w) /\ row[w].sequence < row[v].sequence
        /\ releases' = Append(releases, ReleaseRow(q, cycle))
        /\ status' = StatusAfter(v, old)
        /\ audit' = [w \in Versions |->
                       IF w = v THEN audit[w] \cup
                           {Event("publication_recorded", "approved", "published"),
                            Event("version_published", "approved", "published")}
                       ELSE IF w \in old THEN audit[w] \cup
                           {Event("version_superseded", "published", "superseded")}
                       ELSE audit[w]]
        /\ Return(p, Len(releases) + 1)
        /\ UNCHANGED <<row, validatedBy, approvedBy, results, decisions>>

\* The transaction is lost before it commits; the server releases its locks.
Abort(p) ==
    /\ pc[p] # "idle"
    /\ Return(p, NoPublication)
    /\ UNCHANGED <<releases, versionVars>>

SessionStep(p) ==
    \/ LockStream(p) \/ LockKey(p) \/ Recheck(p) \/ LockRowAndCheck(p) \/ Publish(p)

Next ==
    \/ LifecycleStep
    \/ \E p \in Sessions :
          \/ \E k \in RequestKeys, v \in Versions, a \in Humans, m \in Memos,
                n \in 0..Len(releases) :
                Call(p, [key |-> k, version |-> v, publisher |-> a, memo |-> m,
                         expectedPrior |-> n])
          \/ SessionStep(p)
          \/ Abort(p)

Spec == PublicationInit /\ [][Next]_vars

\* PostgreSQL runs a session that can run, and grants a lock to its waiters in
\* the order they came: a waiter that could go again and again does go.
Fairness == \A p \in Sessions : SF_vars(SessionStep(p))

FairSpec == Spec /\ Fairness

-----------------------------------------------------------------------------
(* Properties. *)

\* The type invariant.
PublicationTypeOK ==
    /\ VersionTypeOK
    /\ releases \in Seq(ReleaseType)
    /\ pc \in [Sessions -> Stages]
    /\ request \in [Sessions -> RequestType \cup {None}]
    /\ \A p \in Sessions : pc[p] # "idle" => request[p] \in RequestType
    /\ reply \in [Sessions -> Nat]

\* A stream that was ever published has exactly one published version, a stream
\* that was not has none: what m017_validate_publication_commit asserts, whatever
\* calls race, abort and are repeated.
SingleCurrent ==
    \A s \in Streams :
        /\ \A v, w \in InStream(s) :
              status[v] = "published" /\ status[w] = "published" => v = w
        /\ ReleasesIn(s) # {} <=> \E v \in InStream(s) : status[v] = "published"

\* Each published or superseded version has exactly one release, which still
\* rests on a complete PASS cycle and every approval its content requires, all
\* in that cycle and none by a maker; nothing else has a release.
PublishedOnEvidence ==
    \A v \in Versions :
        /\ status[v] \in {"published", "superseded"} <=> ReleasesOf(v) # {}
        /\ \A i, j \in ReleasesOf(v) : i = j
        /\ \A i \in ReleasesOf(v) : Publishable(v, releases[i].cycle)

\* Releases of a stream form one chain, oldest first: a release supersedes the
\* one that was current, of an older version; no release is superseded twice;
\* exactly the superseded versions are superseded by a release.
SupersedeChain ==
    /\ \A i \in PublicationIds : releases[i].prior # NoPublication =>
          /\ releases[i].prior < i
          /\ releases[releases[i].prior].request.version
                \in InStream(StreamOf(releases[i].request.version))
          /\ row[releases[releases[i].prior].request.version].sequence
                < row[releases[i].request.version].sequence
    /\ \A i, j \in PublicationIds :
          releases[i].prior = releases[j].prior /\ releases[i].prior # NoPublication => i = j
    /\ \A i \in PublicationIds :
          status[releases[i].request.version] = "superseded"
              <=> \E j \in PublicationIds : releases[j].prior = i

\* Idempotency: one request key makes one release, and a caller that was given
\* a publication was given the one its own request made, however often and
\* from however many sessions the request is repeated.
RequestsIdempotent ==
    /\ \A i, j \in PublicationIds :
          releases[i].request.key = releases[j].request.key => i = j
    /\ \A p \in Sessions : reply[p] # NoPublication =>
          /\ reply[p] \in PublicationIds
          /\ releases[reply[p]].request = request[p]

\* What a step may do to the releases and to the published versions.
ForwardStep ==
    /\ Len(releases) <= Len(releases')
    /\ \A i \in PublicationIds : releases'[i] = releases[i]
    /\ \A v \in Versions : status[v] = "published" =>
          \/ status'[v] = "published"
          \/ /\ status'[v] = "superseded"
             /\ \E w \in Versions :
                   /\ status[w] = "approved" /\ status'[w] = "published"
                   /\ StreamOf(w) = StreamOf(v)
                   /\ row[w].sequence > row[v].sequence

\* Publication is append-only and only goes forward: no release changes, and a
\* version stops being current only in the step that makes a version with a
\* higher sequence current in the same stream.
CurrentMovesForward == [][ForwardStep]_vars

\* Every call ends: the lock order stream, key, row leaves no two calls waiting
\* for each other.
CallsReturn == \A p \in Sessions : pc[p] # "idle" ~> pc[p] = "idle"

\* What the consumers of a stream see.
CurrentVersion(s) ==
    IF CurrentOf(s) = NoPublication THEN None
                                    ELSE releases[CurrentOf(s)].request.version

Consumers == INSTANCE PublicationStream WITH
    current <- [s \in Streams |-> CurrentVersion(s)],
    retired <- {v \in Versions : status[v] = "superseded"}

\* The command implements the abstract publication stream.
ImplementsPublicationStream == Consumers!Spec
=============================================================================
