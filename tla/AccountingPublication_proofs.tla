-------------------- MODULE AccountingPublication_proofs --------------------
(***************************************************************************)
(* Proofs about AccountingPublication, for every set of versions, streams, *)
(* sessions and request keys.  A step is a command of M014/M016 on one     *)
(* version, a step of a call that writes no table, or Publish: the lemmas  *)
(* are about these three.  Last comes why no call is ever stuck.           *)
(***************************************************************************)
EXTENDS AccountingPublication, AccountingVersion_proofs, TLAPS

\* Steps of a call that change no table.
QuietStep(p) ==
    \/ \E q \in RequestType : Call(p, q)
    \/ LockStream(p) \/ LockKey(p) \/ Recheck(p) \/ LockRowAndCheck(p) \/ Abort(p)

\* A step of the specification is one of the three kinds.
LEMMA StepKinds ==
    ASSUME PublicationTypeOK, [Next]_vars
    PROVE  \/ LifecycleStep
           \/ \E p \in Sessions : QuietStep(p)
           \/ \E p \in Sessions : Publish(p)
           \/ UNCHANGED vars
<1>1. ASSUME NEW p \in Sessions, NEW k \in RequestKeys, NEW v \in Versions,
             NEW a \in Humans, NEW m \in Memos, NEW n \in 0..Len(releases),
             Call(p, [key |-> k, version |-> v, publisher |-> a, memo |-> m,
                      expectedPrior |-> n])
      PROVE  QuietStep(p)
  <2>1. n \in Nat
    BY DEF PublicationTypeOK
  <2> QED BY <1>1, <2>1 DEF QuietStep, RequestType
<1> QED BY <1>1 DEF Next, SessionStep, QuietStep

\* The end of a call keeps the types of the three variables of the calls.
LEMMA ReturnKeepsTypes ==
    ASSUME PublicationTypeOK, NEW p \in Sessions, NEW id \in Nat, Return(p, id)
    PROVE  /\ pc' \in [Sessions -> Stages]
           /\ request' \in [Sessions -> RequestType \cup {None}]
           /\ \A o \in Sessions : pc'[o] # "idle" => request'[o] \in RequestType
           /\ reply' \in [Sessions -> Nat]
<1> USE DEF PublicationTypeOK, Return, Stages
<1>1. pc' \in [Sessions -> Stages]
  OBVIOUS
<1>2. request' \in [Sessions -> RequestType \cup {None}]
  OBVIOUS
<1>3. ASSUME NEW o \in Sessions, pc'[o] # "idle" PROVE request'[o] \in RequestType
  BY <1>3
<1>4. reply' \in [Sessions -> Nat]
  OBVIOUS
<1> QED BY <1>1, <1>2, <1>3, <1>4

\* A step of a call that changes no table keeps the types.
LEMMA QuietKeepsTypes ==
    ASSUME PublicationTypeOK, NEW p \in Sessions, QuietStep(p)
    PROVE  PublicationTypeOK'
<1>1. releases' = releases /\ VersionTypeOK' /\ UNCHANGED versionVars
  BY DEF QuietStep, Call, LockStream, LockKey, Recheck, LockRowAndCheck, Abort,
         versionVars, PublicationTypeOK, VersionTypeOK
<1>2. ASSUME NEW id \in Nat, Return(p, id) PROVE PublicationTypeOK'
  BY <1>1, <1>2, ReturnKeepsTypes DEF PublicationTypeOK
<1>3. ASSUME NEW q \in RequestType, Call(p, q) PROVE PublicationTypeOK'
  BY <1>1, <1>3 DEF Call, PublicationTypeOK, Stages, NoPublication
<1>4. CASE LockStream(p)
  BY <1>1, <1>4 DEF LockStream, PublicationTypeOK, Stages
<1>5. CASE LockKey(p)
  BY <1>1, <1>5 DEF LockKey, PublicationTypeOK, Stages
<1>6. CASE Recheck(p)
  <2>1. CASE pc' = [pc EXCEPT ![p] = "row"] /\ UNCHANGED <<request, reply>>
    BY <1>1, <1>6, <2>1 DEF Recheck, PublicationTypeOK, Stages
  <2>2. CASE \E i \in PublicationIds : Return(p, i) \/ Return(p, NoPublication)
    BY <1>2, <2>2 DEF PublicationIds, NoPublication, PublicationTypeOK
  <2> QED BY <1>6, <2>1, <2>2 DEF Recheck
<1>7. CASE LockRowAndCheck(p)
  <2>1. CASE pc' = [pc EXCEPT ![p] = "checked"] /\ UNCHANGED <<request, reply>>
    BY <1>1, <1>7, <2>1 DEF LockRowAndCheck, PublicationTypeOK, Stages
  <2> QED BY <1>2, <1>7, <2>1 DEF LockRowAndCheck, NoPublication
<1>8. CASE Abort(p)
  BY <1>2, <1>8 DEF Abort, NoPublication
<1> QED BY <1>3, <1>4, <1>5, <1>6, <1>7, <1>8 DEF QuietStep

-----------------------------------------------------------------------------
(* The inductive invariant. *)

Shown(v) == status[v] \in {"published", "superseded"}

\* Releases and the versions that were published stand in a one-to-one relation,
\* and the evidence of a release is still there.
ReleasesInv ==
    /\ \A i \in PublicationIds : Shown(releases[i].request.version)
    /\ \A i, j \in PublicationIds :
          releases[i].request.version = releases[j].request.version => i = j
    /\ \A v \in Versions : Shown(v) =>
          \E i \in PublicationIds : releases[i].request.version = v
    /\ \A i \in PublicationIds : Publishable(releases[i].request.version, releases[i].cycle)

\* What LockRowAndCheck found stays true until the call ends.
CheckedInv(p) ==
    /\ status[request[p].version] = "approved"
    /\ \E k \in Cycles : Publishable(request[p].version, k)
    /\ CurrentReleases(StreamOf(request[p].version))
          = IF request[p].expectedPrior = NoPublication THEN {}
                                                      ELSE {request[p].expectedPrior}

\* The advisory locks: no two calls beyond them are on one stream, or have one
\* request key.
LocksExclude ==
    \A p, o \in Sessions : p # o =>
        /\ pc[p] \in HoldsStream /\ pc[o] \in HoldsStream =>
              StreamOf(request[p].version) # StreamOf(request[o].version)
        /\ pc[p] \in HoldsKey /\ pc[o] \in HoldsKey => request[p].key # request[o].key

\* Calls are about versions that exist; the request key of a call that holds its
\* lock and found it unused stays unused.
CallsInv ==
    /\ \A p \in Sessions : pc[p] # "idle" => status[request[p].version] # "absent"
    /\ \A p \in Sessions : pc[p] \in {"row", "checked"} =>
          \A i \in PublicationIds : releases[i].request.key # request[p].key
    /\ \A p \in Sessions : pc[p] = "checked" => CheckedInv(p)

TablesInv == ReleasesInv /\ SingleCurrent /\ SupersedeChain

PublicationInv ==
    /\ PublicationTypeOK /\ EvidenceInv
    /\ TablesInv
    /\ LocksExclude /\ CallsInv /\ RequestsIdempotent

-----------------------------------------------------------------------------
(* The commands of M014 and M016. *)

\* A command is on a version that is not approved yet, keeps its immutable
\* columns once it exists, and makes it neither published nor superseded.
LEMMA CommandScope ==
    ASSUME VersionTypeOK, NEW v \in Versions, VersionCommand(v)
    PROVE  /\ status[v] \in {"absent", "draft", "validating", "validated"}
           /\ status'[v] \in {"draft", "validating", "validated", "approved", "rejected"}
           /\ status[v] # "absent" => row'[v] = row[v]
BY DEF VersionCommand, InsertDraft, StartValidation, RecordValidation, Finalize,
       RecordApproval, GuardAllows, VersionTypeOK

\* So approved and shown versions are left alone, none becomes shown, and the
\* stream of a version never changes.
LEMMA LifecycleScope ==
    ASSUME VersionTypeOK, LifecycleStep, NEW w \in Versions
    PROVE  /\ status[w] = "approved" \/ Shown(w) => Unchanged(w)
           /\ Shown(w)' <=> Shown(w)
           /\ status[w] # "absent" => row'[w] = row[w] /\ status'[w] # "absent"
<1>1. PICK v \in Versions : VersionCommand(v)
  BY DEF LifecycleStep
<1>2. CASE w = v
  BY <1>1, <1>2, CommandScope DEF Shown
<1>3. CASE w # v
  BY <1>1, <1>3, CommandTouchesOne DEF Unchanged, Shown
<1> QED BY <1>2, <1>3

\* A version that is left alone stays publishable.
LEMMA UnchangedKeepsPublishable ==
    ASSUME NEW w, NEW k, Unchanged(w)
    PROVE  Publishable(w, k)' <=> Publishable(w, k)
BY DEF Unchanged, Publishable, ApprovedInCycle, ApprovedDecision, CompletePass,
       RequiredApprovals, StreamOf

\* A release has the type of a release, its request that of a request.
LEMMA ReleaseTypes ==
    ASSUME PublicationTypeOK, NEW i \in PublicationIds
    PROVE  /\ releases[i] \in ReleaseType /\ releases[i].request \in RequestType
           /\ releases[i].request.version \in Versions
<1>1. releases[i] \in ReleaseType
  BY DEF PublicationIds, PublicationTypeOK
<1>2. releases[i].request \in RequestType
  BY <1>1 DEF ReleaseType
<1> QED BY <1>1, <1>2 DEF RequestType

\* A step that makes no release, shows no version and leaves the shown versions
\* alone keeps the table invariants and the current release of every stream.
LEMMA TablesKept ==
    ASSUME PublicationTypeOK, TablesInv, releases' = releases,
           \A w \in Versions : (Shown(w)' <=> Shown(w)) /\ (Shown(w) => Unchanged(w))
    PROVE  /\ TablesInv'
           /\ \A s \in Streams : CurrentReleases(s)' = CurrentReleases(s)
<1> DEFINE ver(i) == releases[i].request.version
<1>1. PublicationIds' = PublicationIds
  BY DEF PublicationIds
<1>2. ASSUME NEW i \in PublicationIds
      PROVE  /\ releases'[i] = releases[i] /\ releases[i] \in ReleaseType
             /\ ver(i) \in Versions /\ Shown(ver(i)) /\ Unchanged(ver(i))
  BY <1>2, ReleaseTypes DEF TablesInv, ReleasesInv
<1>3. ASSUME NEW s \in Streams
      PROVE  ReleasesIn(s)' = ReleasesIn(s) /\ CurrentReleases(s)' = CurrentReleases(s)
  BY <1>1, <1>2 DEF ReleasesIn, CurrentReleases, StreamOf, Unchanged
<1>4. ReleasesInv'
  BY <1>1, <1>2, UnchangedKeepsPublishable DEF TablesInv, ReleasesInv
<1>5. ASSUME NEW s \in Streams, NEW v \in Versions, Shown(v)
      PROVE  v \in InStream(s)' <=> v \in InStream(s)
  BY <1>5 DEF InStream, Existing, Unchanged
<1>6. \A v \in Versions : (status'[v] = "published" <=> status[v] = "published")
                        /\ (status[v] = "published" => Shown(v))
  BY DEF Shown, Unchanged
<1>7. SingleCurrent'
  <2> SUFFICES ASSUME NEW s \in Streams
               PROVE  /\ \A v, w \in InStream(s)' :
                           status'[v] = "published" /\ status'[w] = "published" => v = w
                      /\ ReleasesIn(s)' # {} <=> \E v \in InStream(s)' : status'[v] = "published"
    BY DEF SingleCurrent
  <2>1. InStream(s) \subseteq Versions /\ InStream(s)' \subseteq Versions
    BY DEF InStream, Existing
  <2> QED BY <1>3, <1>5, <1>6, <2>1 DEF TablesInv, SingleCurrent
<1>8. SupersedeChain'
  <2>1. ASSUME NEW i \in PublicationIds, releases[i].prior # NoPublication
        PROVE  /\ releases[i].prior \in PublicationIds
               /\ ver(releases[i].prior) \in InStream(StreamOf(ver(i)))'
               /\ StreamOf(ver(i))' = StreamOf(ver(i))
               /\ row'[ver(releases[i].prior)].sequence < row'[ver(i)].sequence
    <3>1. releases[i].prior \in PublicationIds
      <4>1. releases[i].prior \in Nat /\ releases[i].prior < i
        BY <1>2, <2>1 DEF TablesInv, SupersedeChain, ReleaseType
      <4> QED BY <2>1, <4>1 DEF PublicationIds, NoPublication, PublicationTypeOK
    <3>2. ver(releases[i].prior) \in InStream(StreamOf(ver(i)))
      BY <2>1 DEF TablesInv, SupersedeChain
    <3>3. row[ver(releases[i].prior)].sequence < row[ver(i)].sequence
      BY <2>1 DEF TablesInv, SupersedeChain
    <3>4. StreamOf(ver(i))' = StreamOf(ver(i)) /\ StreamOf(ver(i)) \in Streams
      BY <1>2 DEF StreamOf, Unchanged, PublicationTypeOK, VersionTypeOK, RowType, Shown
    <3> QED BY <1>2, <1>5, <3>1, <3>2, <3>3, <3>4 DEF Unchanged
  <2>2. \A i \in PublicationIds : status'[ver(i)] = status[ver(i)]
    BY <1>2 DEF Unchanged
  <2>3. ASSUME NEW i \in PublicationIds
        PROVE  /\ releases[i].prior # NoPublication => releases[i].prior < i
               /\ \A j \in PublicationIds :
                     releases[i].prior = releases[j].prior /\ releases[i].prior # NoPublication
                        => i = j
               /\ status[ver(i)] = "superseded" <=> \E j \in PublicationIds : releases[j].prior = i
    BY DEF TablesInv, SupersedeChain
  <2> QED BY <1>1, <2>1, <2>2, <2>3 DEF SupersedeChain
<1> QED BY <1>3, <1>4, <1>7, <1>8 DEF TablesInv

\* A command of M014 or M016 keeps the invariant: what calls found is about
\* approved and shown versions, which commands leave alone.
LEMMA LifecycleKeepsInv ==
    ASSUME PublicationInv, LifecycleStep
    PROVE  PublicationInv'
<1> USE DEF PublicationInv
<1>1. /\ releases' = releases /\ pc' = pc /\ request' = request /\ reply' = reply
      /\ VersionTypeOK
  BY DEF LifecycleStep, pubVars, PublicationTypeOK
<1>2. PublicationTypeOK' /\ EvidenceInv'
  BY <1>1, CommandKeepsTypes, CommandKeepsEvidence DEF LifecycleStep, PublicationTypeOK
<1>3. TablesInv' /\ \A s \in Streams : CurrentReleases(s)' = CurrentReleases(s)
  BY <1>1, LifecycleScope, TablesKept
<1>4. ASSUME NEW p \in Sessions, pc[p] # "idle"
      PROVE  /\ request[p].version \in Versions
             /\ status'[request[p].version] # "absent"
             /\ StreamOf(request[p].version)' = StreamOf(request[p].version)
             /\ StreamOf(request[p].version) \in Streams
  <2>1. request[p].version \in Versions /\ status[request[p].version] # "absent"
    BY <1>4 DEF PublicationTypeOK, RequestType, CallsInv
  <2> QED BY <1>1, <2>1, LifecycleScope DEF StreamOf, VersionTypeOK, RowType
<1>5. LocksExclude'
  BY <1>1, <1>4 DEF LocksExclude, HoldsStream, HoldsKey
<1>6. ASSUME NEW p \in Sessions, pc[p] = "checked" PROVE CheckedInv(p)'
  <2> DEFINE v == request[p].version
  <2>1. CheckedInv(p) /\ v \in Versions
    BY <1>4, <1>6 DEF CallsInv
  <2>2. Unchanged(v)
    BY <1>1, <2>1, LifecycleScope DEF CheckedInv
  <2>3. \E k \in Cycles : Publishable(v, k)'
    BY <1>1, <2>1, <2>2, UnchangedKeepsPublishable DEF CheckedInv
  <2> QED BY <1>1, <1>3, <1>4, <1>6, <2>1, <2>2, <2>3 DEF CheckedInv, Unchanged
<1>7. CallsInv'
  BY <1>1, <1>4, <1>6 DEF CallsInv, PublicationIds
<1>8. RequestsIdempotent'
  BY <1>1 DEF RequestsIdempotent, PublicationIds
<1> QED BY <1>2, <1>3, <1>5, <1>7, <1>8

-----------------------------------------------------------------------------
(* Steps of a call that change no table. *)

\* With one published version at most, the current release is the only one.
LEMMA CurrentUnique ==
    ASSUME PublicationTypeOK, TablesInv, NEW s \in Streams, NEW n, CurrentOf(s) = n
    PROVE  CurrentReleases(s) = IF n = NoPublication THEN {} ELSE {n}
<1>1. ASSUME NEW i \in CurrentReleases(s), NEW j \in CurrentReleases(s) PROVE i = j
  <2> DEFINE v == releases[i].request.version
             w == releases[j].request.version
  <2>1. /\ i \in PublicationIds /\ j \in PublicationIds
        /\ status[v] = "published" /\ status[w] = "published"
        /\ row[v].stream = s /\ row[w].stream = s
    BY DEF CurrentReleases, ReleasesIn, StreamOf
  <2>2. v \in Versions /\ w \in Versions
    BY <2>1, ReleaseTypes
  <2>3. v \in InStream(s) /\ w \in InStream(s)
    BY <2>1, <2>2 DEF InStream, Existing
  <2>4. v = w
    BY <2>1, <2>3 DEF TablesInv, SingleCurrent
  <2> QED BY <2>1, <2>4 DEF TablesInv, ReleasesInv
<1>2. CASE CurrentReleases(s) = {}
  BY <1>2 DEF CurrentOf
<1>3. CASE CurrentReleases(s) # {}
  <2>1. PICK i : i \in CurrentReleases(s)
    BY <1>3
  <2>2. CurrentReleases(s) = {i} /\ i \in Nat \ {0}
    BY <1>1, <2>1 DEF CurrentReleases, ReleasesIn, PublicationIds, PublicationTypeOK
  <2>3. i \in PublicationIds /\ releases[i].request.version \in Versions
        /\ status[releases[i].request.version] = "published"
    BY <2>1, ReleaseTypes DEF CurrentReleases, ReleasesIn
  <2>4. row[releases[i].request.version].sequence \in Nat
    BY <2>3 DEF PublicationTypeOK, VersionTypeOK, RowType
  <2>5. \A j \in CurrentReleases(s) : row[releases[j].request.version].sequence
                                       <= row[releases[i].request.version].sequence
    BY <2>2, <2>4
  <2>6. CurrentOf(s) = i
    BY <1>3, <2>2, <2>5 DEF CurrentOf
  <2> QED BY <2>2, <2>6 DEF NoPublication
<1> QED BY <1>2, <1>3

\* What a call found stays true while the tables do not change.
LEMMA CheckedKept ==
    ASSUME UNCHANGED <<releases, versionVars>>, NEW o \in Sessions,
           request'[o] = request[o], CheckedInv(o)
    PROVE  CheckedInv(o)'
<1> DEFINE v == request[o].version
<1>1. Unchanged(v)
  BY DEF Unchanged, versionVars
<1>2. \E k \in Cycles : Publishable(v, k)'
  BY <1>1, UnchangedKeepsPublishable DEF CheckedInv
<1>3. StreamOf(v)' = StreamOf(v)
  BY <1>1 DEF StreamOf, Unchanged
<1>4. \A s : CurrentReleases(s)' = CurrentReleases(s)
  BY DEF CurrentReleases, ReleasesIn, PublicationIds, StreamOf, versionVars
<1> QED BY <1>1, <1>2, <1>3, <1>4 DEF CheckedInv, Unchanged

\* The end of a call that wrote nothing: it frees its locks, and what it returns
\* is an error or the release its own request made.
LEMMA ReturnKeepsCalls ==
    ASSUME PublicationInv, NEW p \in Sessions, NEW id, Return(p, id),
           id # NoPublication => id \in PublicationIds /\ releases[id].request = request[p],
           UNCHANGED <<releases, versionVars>>
    PROVE  LocksExclude' /\ CallsInv' /\ RequestsIdempotent'
<1> USE DEF PublicationInv
<1>1. /\ pc \in [Sessions -> Stages] /\ request \in [Sessions -> RequestType \cup {None}]
      /\ reply \in [Sessions -> Nat]
  BY DEF PublicationTypeOK
<1>2. /\ pc'[p] = "idle" /\ reply'[p] = id
      /\ id # NoPublication => request'[p] = request[p]
      /\ \A o \in Sessions \ {p} :
            pc'[o] = pc[o] /\ request'[o] = request[o] /\ reply'[o] = reply[o]
  BY <1>1 DEF Return
<1>3. LocksExclude'
  BY <1>2 DEF LocksExclude, HoldsStream, HoldsKey, versionVars, StreamOf
<1>4. ASSUME NEW o \in Sessions, pc'[o] # "idle"
      PROVE  /\ status'[request'[o].version] # "absent"
             /\ pc'[o] \in {"row", "checked"} =>
                  \A i \in PublicationIds' : releases'[i].request.key # request'[o].key
             /\ pc'[o] = "checked" => CheckedInv(o)'
  <2>1. o # p
    BY <1>2, <1>4
  <2>2. pc'[o] = pc[o] /\ request'[o] = request[o]
    BY <1>2, <2>1
  <2>3. CheckedInv(o) => CheckedInv(o)'
    BY <2>2, CheckedKept
  <2> QED BY <1>4, <2>2, <2>3 DEF CallsInv, versionVars, PublicationIds
<1>5. CallsInv'
  BY <1>4 DEF CallsInv
<1>6. RequestsIdempotent'
  BY <1>2 DEF RequestsIdempotent, PublicationIds
<1> QED BY <1>3, <1>5, <1>6

\* A call that goes on keeps its request; the other calls do not move.
LEMMA AdvanceKeepsCalls ==
    ASSUME PublicationInv, NEW p \in Sessions, NEW stage \in Stages \ {"idle"},
           pc[p] # "idle", pc' = [pc EXCEPT ![p] = stage],
           UNCHANGED <<releases, request, reply, versionVars>>,
           stage \in HoldsStream /\ pc[p] \notin HoldsStream =>
              \A o \in Sessions : pc[o] \in HoldsStream =>
                 StreamOf(request[o].version) # StreamOf(request[p].version),
           stage \in HoldsKey /\ pc[p] \notin HoldsKey =>
              \A o \in Sessions : pc[o] \in HoldsKey => request[o].key # request[p].key,
           stage \in {"row", "checked"} =>
              \A i \in PublicationIds : releases[i].request.key # request[p].key,
           stage = "checked" => CheckedInv(p)
    PROVE  LocksExclude' /\ CallsInv' /\ RequestsIdempotent'
<1> USE DEF PublicationInv
<1>1. pc \in [Sessions -> Stages]
  BY DEF PublicationTypeOK
<1>2. pc'[p] = stage /\ \A o \in Sessions \ {p} : pc'[o] = pc[o]
  BY <1>1
<1>3. \A o \in Sessions : StreamOf(request[o].version)' = StreamOf(request[o].version)
  BY DEF StreamOf, versionVars
<1>4. LocksExclude'
  BY <1>2, <1>3 DEF LocksExclude
<1>5. ASSUME NEW o \in Sessions, CheckedInv(o) PROVE CheckedInv(o)'
  BY <1>5, CheckedKept
<1>6. CallsInv'
  BY <1>2, <1>5 DEF CallsInv, versionVars, PublicationIds
<1>7. RequestsIdempotent'
  BY DEF RequestsIdempotent, PublicationIds
<1> QED BY <1>4, <1>6, <1>7

\* A new call holds no lock and has found nothing.
LEMMA CallKeepsCalls ==
    ASSUME PublicationInv, NEW p \in Sessions, NEW q \in RequestType, Call(p, q)
    PROVE  LocksExclude' /\ CallsInv' /\ RequestsIdempotent'
<1> USE DEF PublicationInv
<1>1. /\ pc \in [Sessions -> Stages] /\ request \in [Sessions -> RequestType \cup {None}]
      /\ reply \in [Sessions -> Nat]
  BY DEF PublicationTypeOK
<1>2. /\ pc'[p] = "stream" /\ reply'[p] = NoPublication /\ request'[p] = q
      /\ \A o \in Sessions \ {p} :
            pc'[o] = pc[o] /\ request'[o] = request[o] /\ reply'[o] = reply[o]
      /\ UNCHANGED <<releases, versionVars>> /\ status[q.version] # "absent"
  BY <1>1 DEF Call, Existing
<1>3. LocksExclude'
  BY <1>2 DEF LocksExclude, HoldsStream, HoldsKey, versionVars, StreamOf
<1>4. ASSUME NEW o \in Sessions \ {p}
      PROVE  /\ pc'[o] # "idle" => status'[request'[o].version] # "absent"
             /\ pc'[o] \in {"row", "checked"} =>
                  \A i \in PublicationIds' : releases'[i].request.key # request'[o].key
             /\ pc'[o] = "checked" => CheckedInv(o)'
  <2>1. CheckedInv(o) => CheckedInv(o)'
    BY <1>2, CheckedKept
  <2> QED BY <1>2, <2>1 DEF CallsInv, versionVars, PublicationIds
<1>5. CallsInv'
  BY <1>2, <1>4 DEF CallsInv, versionVars
<1>6. RequestsIdempotent'
  BY <1>2 DEF RequestsIdempotent, PublicationIds
<1> QED BY <1>3, <1>5, <1>6

\* Every step of a call that changes no table keeps the invariant.
LEMMA QuietKeepsInv ==
    ASSUME PublicationInv, NEW p \in Sessions, QuietStep(p)
    PROVE  PublicationInv'
<1> USE DEF PublicationInv
<1>1. PublicationTypeOK'
  BY QuietKeepsTypes
<1>2. UNCHANGED <<releases, versionVars>>
  BY DEF QuietStep, Call, LockStream, LockKey, Recheck, LockRowAndCheck, Abort
<1>3. EvidenceInv'
  BY <1>2 DEF versionVars, EvidenceInv, OneEvidenceCycle, MakerChecker, ApprovalIsFinal,
              UndecidedHasNoDecision, PassingCycles, CompletePass, ApprovedDecision
<1>4. TablesInv'
  BY <1>2, TablesKept DEF versionVars, Unchanged, Shown
<1>5. LocksExclude' /\ CallsInv' /\ RequestsIdempotent'
  <2> USE DEF Stages, HoldsStream, HoldsKey
  <2>1. ASSUME NEW q \in RequestType, Call(p, q)
        PROVE  LocksExclude' /\ CallsInv' /\ RequestsIdempotent'
    BY <2>1, CallKeepsCalls
  <2>2. CASE LockStream(p)
    BY <1>2, <2>2, AdvanceKeepsCalls DEF LockStream
  <2>3. CASE LockKey(p)
    BY <1>2, <2>3, AdvanceKeepsCalls DEF LockKey
  <2>4. CASE Recheck(p)
    <3>1. CASE /\ {i \in PublicationIds : releases[i].request.key = request[p].key} = {}
               /\ pc' = [pc EXCEPT ![p] = "row"] /\ UNCHANGED <<request, reply>>
      BY <1>2, <2>4, <3>1, AdvanceKeepsCalls DEF Recheck
    <3>2. ASSUME NEW i \in PublicationIds, releases[i].request.key = request[p].key,
                 Return(p, IF Fingerprint(releases[i].request) = Fingerprint(request[p])
                             THEN i ELSE NoPublication)
          PROVE  LocksExclude' /\ CallsInv' /\ RequestsIdempotent'
      <4>1. ASSUME Fingerprint(releases[i].request) = Fingerprint(request[p])
            PROVE  releases[i].request = request[p]
        <5>1. releases[i].request \in RequestType /\ request[p] \in RequestType
          BY <2>4, ReleaseTypes DEF Recheck, PublicationTypeOK
        <5> QED BY <3>2, <4>1, <5>1 DEF Fingerprint, RequestType
      <4> QED BY <1>2, <3>2, <4>1, ReturnKeepsCalls
    <3> QED BY <2>4, <3>1, <3>2 DEF Recheck
  <2>5. CASE LockRowAndCheck(p)
    <3>1. CASE Accepts(request[p]) /\ pc' = [pc EXCEPT ![p] = "checked"]
               /\ UNCHANGED <<request, reply>>
      <4>1. pc[p] = "row"
        BY <2>5 DEF LockRowAndCheck
      <4>2. \A i \in PublicationIds : releases[i].request.key # request[p].key
        BY <4>1 DEF CallsInv
      <4>3. StreamOf(request[p].version) \in Streams
        BY <4>1 DEF StreamOf, CallsInv, PublicationTypeOK, VersionTypeOK, RowType, RequestType
      <4>4. CheckedInv(p)
        BY <3>1, <4>3, CurrentUnique DEF Accepts, CheckedInv
      <4> QED BY <1>2, <3>1, <4>1, <4>2, <4>4, AdvanceKeepsCalls
    <3>2. CASE Return(p, NoPublication)
      BY <1>2, <3>2, ReturnKeepsCalls
    <3> QED BY <2>5, <3>1, <3>2 DEF LockRowAndCheck
  <2>6. CASE Abort(p)
    BY <1>2, <2>6, ReturnKeepsCalls DEF Abort
  <2> QED BY <2>1, <2>2, <2>3, <2>4, <2>5, <2>6 DEF QuietStep
<1> QED BY <1>1, <1>3, <1>4, <1>5

-----------------------------------------------------------------------------
(* The publication itself. *)

Number == Len(releases) + 1
Superseded(q) == IF q.expectedPrior = NoPublication THEN {}
                 ELSE {releases[q.expectedPrior].request.version}

\* What Publish writes for request q on the evidence of cycle k.
Writes(q, k) ==
    /\ releases' = Append(releases, ReleaseRow(q, k))
    /\ status' = StatusAfter(q.version, Superseded(q))
    /\ UNCHANGED <<row, validatedBy, approvedBy, results, decisions>>

\* What the call knows when it publishes: the version is approved on one complete
\* cycle, and what it supersedes is the one published version of the stream.
Found(q, k) ==
    /\ status[q.version] = "approved"
    /\ StreamOf(q.version) \in Streams
    /\ Publishable(q.version, k)
    /\ \A u \in Superseded(q) :
          /\ u \in Versions /\ status[u] = "published"
          /\ StreamOf(u) = StreamOf(q.version)
          /\ row[u].sequence < row[q.version].sequence
    /\ q.expectedPrior # NoPublication => q.expectedPrior \in PublicationIds
    /\ \A w \in Versions :
          StreamOf(w) = StreamOf(q.version) /\ status[w] = "published" => w \in Superseded(q)

\* The cycle the release records is the one that made the version publishable:
\* a version has decisions about one cycle only.
LEMMA PublishFinds ==
    ASSUME PublicationInv, NEW p \in Sessions, Publish(p)
    PROVE  \E q \in RequestType, k \in Cycles :
              q = request[p] /\ Found(q, k) /\ Writes(q, k)
<1> USE DEF PublicationInv
<1>1. pc[p] = "checked"
  BY DEF Publish
<1>2. PICK q \in RequestType : q = request[p]
  BY <1>1 DEF PublicationTypeOK
<1> DEFINE v == q.version
           s == StreamOf(v)
<1>3. CheckedInv(p) /\ v \in Versions
  BY <1>1, <1>2 DEF CallsInv, RequestType
<1>4. PICK k \in Cycles : Publishable(v, k)
  BY <1>2, <1>3 DEF CheckedInv
<1>5. ASSUME NEW c, ApprovedInCycle(v, "accounting_confirmed", c)
      PROVE  PassingCycles(v) = {c}
  BY <1>3, <1>5 DEF ApprovedInCycle, EvidenceInv, OneEvidenceCycle, ApprovedDecision
<1>6. ApprovedInCycle(v, "accounting_confirmed", k)
  BY <1>4 DEF Publishable
<1>7. k = CHOOSE c \in Cycles : ApprovedInCycle(v, "accounting_confirmed", c)
  BY <1>5, <1>6
<1>8. Writes(q, k)
  BY <1>2, <1>7 DEF Publish, Writes, Superseded
<1>9. /\ status[v] = "approved"
      /\ CurrentReleases(s) = IF q.expectedPrior = NoPublication THEN {}
                                                                 ELSE {q.expectedPrior}
  BY <1>2, <1>3 DEF CheckedInv
<1>10. s \in Streams
  BY <1>3, <1>9 DEF StreamOf, PublicationTypeOK, VersionTypeOK, RowType
<1>11. ASSUME q.expectedPrior # NoPublication
       PROVE  /\ q.expectedPrior \in PublicationIds
              /\ status[releases[q.expectedPrior].request.version] = "published"
              /\ StreamOf(releases[q.expectedPrior].request.version) = s
  <2>1. q.expectedPrior \in CurrentReleases(s)
    BY <1>9, <1>11
  <2> QED BY <2>1 DEF CurrentReleases, ReleasesIn
<1>12. ASSUME NEW u \in Superseded(q)
       PROVE  /\ u \in Versions /\ status[u] = "published" /\ StreamOf(u) = s
              /\ row[u].sequence < row[v].sequence
  <2>1. q.expectedPrior # NoPublication /\ u = releases[q.expectedPrior].request.version
    BY <1>12 DEF Superseded
  <2>2. row[u].sequence < row[v].sequence
    BY <1>2, <2>1 DEF Publish
  <2> QED BY <1>11, <2>1, <2>2, ReleaseTypes
<1>13. ASSUME NEW w \in Versions, StreamOf(w) = s, status[w] = "published"
       PROVE  w \in Superseded(q)
  <2>1. PICK i \in PublicationIds : releases[i].request.version = w
    BY <1>13 DEF TablesInv, ReleasesInv, Shown
  <2>2. i \in CurrentReleases(s)
    BY <1>13, <2>1 DEF CurrentReleases, ReleasesIn
  <2>3. q.expectedPrior # NoPublication /\ i = q.expectedPrior
    BY <1>9, <2>2
  <2> QED BY <2>1, <2>3 DEF Superseded
<1>14. Found(q, k)
  BY <1>4, <1>9, <1>10, <1>11, <1>12, <1>13 DEF Found
<1> QED BY <1>2, <1>8, <1>14

\* The tables after the publication, row by row.
LEMMA PublishedRows ==
    ASSUME PublicationTypeOK, NEW q \in RequestType, NEW k \in Cycles,
           Found(q, k), Writes(q, k)
    PROVE  /\ PublicationIds' = PublicationIds \cup {Number} /\ Number \notin PublicationIds
           /\ \A i \in PublicationIds : i \in Nat /\ i < Number /\ i # NoPublication
           /\ Number \in Nat /\ Number # NoPublication
           /\ \A i \in PublicationIds : releases'[i] = releases[i]
           /\ releases'[Number].request = q /\ releases'[Number].cycle = k
           /\ releases'[Number].prior = q.expectedPrior
           /\ q.version \notin Superseded(q) /\ q.version \in Versions
           /\ status'[q.version] = "published"
           /\ \A u \in Superseded(q) : status'[u] = "superseded"
           /\ \A w \in Versions \ {q.version} : w \notin Superseded(q) => status'[w] = status[w]
           /\ \A w \in Versions : StreamOf(w)' = StreamOf(w)
<1>1. releases \in Seq(ReleaseType) /\ ReleaseRow(q, k) \in ReleaseType
  BY DEF PublicationTypeOK, ReleaseRow, ReleaseType, RequestType
<1>2. /\ Len(releases') = Number /\ Number \in Nat /\ Len(releases) \in Nat
      /\ \A i \in 1..Len(releases) : releases'[i] = releases[i]
      /\ releases'[Number] = ReleaseRow(q, k)
  BY <1>1 DEF Writes, Number
<1>3. /\ PublicationIds' = PublicationIds \cup {Number} /\ Number \notin PublicationIds
      /\ \A i \in PublicationIds : i \in Nat /\ i < Number /\ i # NoPublication
      /\ Number # NoPublication
  BY <1>2 DEF PublicationIds, Number, NoPublication
<1>4. q.version \in Versions /\ q.version \notin Superseded(q)
  BY DEF Found, RequestType
<1>5. /\ status'[q.version] = "published"
      /\ \A u \in Superseded(q) : status'[u] = "superseded"
      /\ \A w \in Versions \ {q.version} : w \notin Superseded(q) => status'[w] = status[w]
  BY <1>4 DEF Writes, StatusAfter, Found
<1>6. \A w \in Versions : StreamOf(w)' = StreamOf(w)
  BY DEF Writes, StreamOf
<1> QED BY <1>2, <1>3, <1>4, <1>5, <1>6 DEF PublicationIds, ReleaseRow

\* The publication keeps the types.
LEMMA PublishKeepsTypes ==
    ASSUME PublicationInv, NEW p \in Sessions, Publish(p)
    PROVE  PublicationTypeOK'
<1> USE DEF PublicationInv
<1>1. PICK q \in RequestType, k \in Cycles : q = request[p] /\ Found(q, k) /\ Writes(q, k)
  BY PublishFinds
<1>2. releases' \in Seq(ReleaseType)
  <2>1. ReleaseRow(q, k) \in ReleaseType
    BY DEF ReleaseRow, ReleaseType, RequestType
  <2> QED BY <1>1, <2>1 DEF Writes, PublicationTypeOK
<1>3. status' \in [Versions -> VersionStatus]
  BY <1>1 DEF Writes, StatusAfter, PublicationTypeOK, VersionTypeOK, VersionStatus, Statuses
<1>4. ASSUME NEW w \in Versions, status'[w] # "absent" PROVE row'[w] \in RowType
  <2>1. status[w] # "absent"
    BY <1>1, <1>4, PublishedRows DEF Found
  <2> QED BY <1>1, <2>1 DEF Writes, PublicationTypeOK, VersionTypeOK
<1>5. audit' \in [Versions -> SUBSET AuditType]
  <2>1. {Event("publication_recorded", "approved", "published"),
         Event("version_published", "approved", "published"),
         Event("version_superseded", "published", "superseded")} \subseteq AuditType
    BY DEF Event, AuditType, Statuses
  <2>2. \A w \in Versions : audit[w] \subseteq AuditType
    BY DEF PublicationTypeOK, VersionTypeOK
  <2> QED BY <2>1, <2>2 DEF Publish
<1>6. VersionTypeOK'
  BY <1>1, <1>3, <1>4, <1>5 DEF Writes, PublicationTypeOK, VersionTypeOK
<1>7. /\ pc' \in [Sessions -> Stages] /\ request' \in [Sessions -> RequestType \cup {None}]
      /\ \A o \in Sessions : pc'[o] # "idle" => request'[o] \in RequestType
      /\ reply' \in [Sessions -> Nat]
  <2>1. Number \in Nat /\ Return(p, Number)
    BY DEF Publish, Number, PublicationTypeOK
  <2> QED BY <2>1, ReturnKeepsTypes
<1> QED BY <1>2, <1>6, <1>7 DEF PublicationTypeOK

\* Publication neither makes nor takes evidence, and is for approved versions.
LEMMA PublishKeepsEvidence ==
    ASSUME PublicationInv, NEW p \in Sessions, Publish(p)
    PROVE  EvidenceInv'
<1> USE DEF PublicationInv
<1>1. PICK q \in RequestType, k \in Cycles : q = request[p] /\ Found(q, k) /\ Writes(q, k)
  BY PublishFinds
<1>2. UNCHANGED <<row, validatedBy, approvedBy, results, decisions>>
  BY <1>1 DEF Writes
<1>3. ASSUME NEW w \in Versions
      PROVE  /\ status'[w] \in Decided <=> status[w] \in Decided
             /\ status'[w] \in Confirmed <=> status[w] \in Confirmed
  BY <1>1, <1>3, PublishedRows DEF Found, Decided, Confirmed
<1> QED BY <1>2, <1>3 DEF EvidenceInv, OneEvidenceCycle, MakerChecker, ApprovalIsFinal,
           UndecidedHasNoDecision, PassingCycles, CompletePass, ApprovedDecision

\* A stream other than that of the published version keeps its current release.
LEMMA PublishTouchesOneStream ==
    ASSUME PublicationTypeOK, NEW q \in RequestType, NEW k \in Cycles,
           Found(q, k), Writes(q, k), NEW s, s # StreamOf(q.version)
    PROVE  ReleasesIn(s)' = ReleasesIn(s) /\ CurrentReleases(s)' = CurrentReleases(s)
<1>1. ASSUME NEW i \in PublicationIds
      PROVE  /\ StreamOf(releases[i].request.version)' = StreamOf(releases[i].request.version)
             /\ StreamOf(releases[i].request.version) = s
                  => status'[releases[i].request.version] = status[releases[i].request.version]
  BY <1>1, PublishedRows, ReleaseTypes DEF Found
<1>2. releases'[Number].request.version = q.version /\ StreamOf(q.version)' # s
  BY PublishedRows
<1>3. ReleasesIn(s)' = ReleasesIn(s)
  BY <1>1, <1>2, PublishedRows DEF ReleasesIn
<1> QED BY <1>1, <1>3, PublishedRows DEF CurrentReleases, ReleasesIn

\* What made a version publishable is still there afterwards.
LEMMA EvidenceStands ==
    ASSUME UNCHANGED <<row, results, decisions>>
    PROVE  \A c : \A w \in Versions : Publishable(w, c)' <=> Publishable(w, c)
BY DEF Publishable, ApprovedInCycle, ApprovedDecision, CompletePass,
       RequiredApprovals, StreamOf

\* The publication keeps the releases and the shown versions in step.
LEMMA PublishKeepsReleases ==
    ASSUME PublicationTypeOK, TablesInv, NEW q \in RequestType, NEW k \in Cycles,
           Found(q, k), Writes(q, k)
    PROVE  ReleasesInv'
<1> DEFINE v == q.version
           ver(i) == releases[i].request.version
<1>1. ASSUME NEW i \in PublicationIds
      PROVE  /\ releases'[i] = releases[i] /\ ver(i) \in Versions
             /\ Shown(ver(i)) /\ ver(i) # v /\ Shown(ver(i))'
  <2>1. Shown(ver(i)) /\ ver(i) \in Versions
    BY ReleaseTypes DEF TablesInv, ReleasesInv
  <2> QED BY <2>1, PublishedRows DEF Found, Shown
<1>2. releases'[Number].request.version = v /\ releases'[Number].cycle = k
  BY PublishedRows
<1>3. \A c : \A w \in Versions : Publishable(w, c)' <=> Publishable(w, c)
  BY EvidenceStands DEF Writes
<1>4. ASSUME NEW i \in PublicationIds'
      PROVE  /\ Shown(releases[i].request.version)'
             /\ Publishable(releases[i].request.version, releases[i].cycle)'
  <2>1. CASE i \in PublicationIds
    BY <1>1, <1>3, <2>1 DEF TablesInv, ReleasesInv
  <2>2. CASE i = Number
    BY <1>2, <1>3, <2>2, PublishedRows DEF Found, Shown
  <2> QED BY <2>1, <2>2, PublishedRows
<1>5. ASSUME NEW i \in PublicationIds', NEW j \in PublicationIds',
             releases'[i].request.version = releases'[j].request.version
      PROVE  i = j
  BY <1>1, <1>2, <1>5, PublishedRows DEF TablesInv, ReleasesInv
<1>6. ASSUME NEW w \in Versions, Shown(w)'
      PROVE  \E i \in PublicationIds' : releases'[i].request.version = w
  <2>1. CASE w = v
    BY <1>2, <2>1, PublishedRows
  <2>2. CASE w # v
    <3>1. Shown(w)
      BY <1>6, <2>2, PublishedRows DEF Found, Shown
    <3>2. PICK i \in PublicationIds : ver(i) = w
      BY <3>1 DEF TablesInv, ReleasesInv
    <3> QED BY <1>1, <3>2, PublishedRows
  <2> QED BY <2>1, <2>2
<1> QED BY <1>4, <1>5, <1>6 DEF ReleasesInv

\* The stream of the published version has it as its only published version.
LEMMA PublishKeepsSingle ==
    ASSUME PublicationTypeOK, TablesInv, NEW q \in RequestType, NEW k \in Cycles,
           Found(q, k), Writes(q, k)
    PROVE  SingleCurrent'
<1> DEFINE v == q.version
<1>1. ASSUME NEW s PROVE InStream(s)' = InStream(s)
  <2>1. \A w \in Versions : status'[w] # "absent" <=> status[w] # "absent"
    BY PublishedRows DEF Found
  <2> QED BY <2>1 DEF InStream, Existing, Writes
<1>2. ASSUME NEW s \in Streams, s # StreamOf(v)
      PROVE  /\ \A w \in InStream(s) : status'[w] = status[w]
             /\ ReleasesIn(s)' = ReleasesIn(s)
  BY <1>2, PublishedRows, PublishTouchesOneStream DEF InStream, Existing, StreamOf, Found
<1>3. ASSUME NEW s \in Streams, s = StreamOf(v)
      PROVE  /\ v \in InStream(s)
             /\ \A w \in InStream(s) : status'[w] = "published" <=> w = v
             /\ Number \in ReleasesIn(s)'
  <2>1. v \in InStream(s)
    BY <1>3, PublishedRows DEF InStream, Existing, StreamOf, Found
  <2>2. ASSUME NEW w \in InStream(s) PROVE status'[w] = "published" <=> w = v
    BY <1>3, PublishedRows DEF InStream, Existing, StreamOf, Found
  <2>3. Number \in ReleasesIn(s)'
    BY <1>3, PublishedRows DEF ReleasesIn
  <2> QED BY <2>1, <2>2, <2>3
<1>4. ASSUME NEW s \in Streams
      PROVE  /\ \A w, u \in InStream(s)' :
                  status'[w] = "published" /\ status'[u] = "published" => w = u
             /\ ReleasesIn(s)' # {} <=> \E w \in InStream(s)' : status'[w] = "published"
  <2>1. CASE s = StreamOf(v)
    BY <1>1, <1>3, <2>1, PublishedRows
  <2>2. CASE s # StreamOf(v)
    BY <1>1, <1>2, <2>2 DEF TablesInv, SingleCurrent
  <2> QED BY <2>1, <2>2
<1> QED BY <1>4 DEF SingleCurrent

\* The new release continues the chain of its stream: the release it supersedes
\* was the current one, so no release had superseded it.
LEMMA PublishKeepsChain ==
    ASSUME PublicationTypeOK, TablesInv, NEW q \in RequestType, NEW k \in Cycles,
           Found(q, k), Writes(q, k)
    PROVE  SupersedeChain'
<1> DEFINE v == q.version
           prior == q.expectedPrior
           ver(i) == releases[i].request.version
<1>1. ASSUME NEW i \in PublicationIds
      PROVE  /\ releases'[i] = releases[i] /\ ver(i) \in Versions /\ ver(i) # v
             /\ releases[i].prior \in Nat
  <2>1. Shown(ver(i)) /\ ver(i) \in Versions /\ releases[i].prior \in Nat
    BY ReleaseTypes DEF TablesInv, ReleasesInv, ReleaseType
  <2> QED BY <2>1, PublishedRows DEF Found, Shown
<1>2. releases'[Number].request.version = v /\ releases'[Number].prior = prior
  BY PublishedRows
<1>3. ASSUME NEW s, NEW w \in Versions PROVE w \in InStream(s)' <=> w \in InStream(s)
  <2>1. status'[w] # "absent" <=> status[w] # "absent"
    BY PublishedRows DEF Found
  <2> QED BY <2>1 DEF InStream, Existing, Writes
<1>4. ASSUME prior # NoPublication
      PROVE  /\ prior \in PublicationIds /\ ver(prior) \in Superseded(q)
             /\ status[ver(prior)] = "published" /\ status'[ver(prior)] = "superseded"
             /\ ver(prior) \in InStream(StreamOf(v))
             /\ row[ver(prior)].sequence < row[v].sequence
  <2>1. prior \in PublicationIds /\ ver(prior) \in Superseded(q)
    BY <1>4 DEF Found, Superseded
  <2> QED BY <2>1, PublishedRows DEF Found, InStream, Existing, StreamOf
<1>5. ASSUME NEW i \in PublicationIds, releases[i].prior # NoPublication
      PROVE  /\ releases[i].prior < i /\ releases[i].prior \in PublicationIds
             /\ ver(releases[i].prior) \in InStream(StreamOf(ver(i)))
             /\ row[ver(releases[i].prior)].sequence < row[ver(i)].sequence
             /\ status[ver(releases[i].prior)] = "superseded"
  <2>1. /\ releases[i].prior < i
        /\ ver(releases[i].prior) \in InStream(StreamOf(ver(i)))
        /\ row[ver(releases[i].prior)].sequence < row[ver(i)].sequence
    BY <1>5 DEF TablesInv, SupersedeChain
  <2>2. releases[i].prior \in PublicationIds
    BY <1>1, <1>5, <2>1 DEF PublicationIds, NoPublication, PublicationTypeOK
  <2> QED BY <2>1, <2>2 DEF TablesInv, SupersedeChain
<1>6. ASSUME NEW i \in PublicationIds', releases'[i].prior # NoPublication
      PROVE  /\ releases'[i].prior < i
             /\ releases'[releases'[i].prior].request.version
                   \in InStream(StreamOf(releases[i].request.version))'
             /\ row'[releases'[releases'[i].prior].request.version].sequence
                   < row'[releases'[i].request.version].sequence
  <2>1. row' = row
    BY DEF Writes
  <2>2. CASE i \in PublicationIds
    <3>1. /\ releases'[i] = releases[i]
          /\ releases'[releases[i].prior] = releases[releases[i].prior]
          /\ ver(releases[i].prior) \in Versions
          /\ StreamOf(ver(i))' = StreamOf(ver(i))
      BY <1>1, <1>5, <1>6, <2>2, PublishedRows
    <3> QED BY <1>3, <1>5, <1>6, <2>1, <2>2, <3>1
  <2>3. CASE i = Number
    <3>1. /\ releases'[i].request.version = v /\ releases'[i].prior = prior
          /\ releases'[prior] = releases[prior] /\ ver(prior) \in Versions
          /\ StreamOf(v)' = StreamOf(v) /\ prior < i
      BY <1>1, <1>2, <1>4, <1>6, <2>3, PublishedRows
    <3> QED BY <1>2, <1>3, <1>4, <1>6, <2>1, <2>3, <3>1
  <2> QED BY <2>2, <2>3, PublishedRows
<1>7. ASSUME NEW i \in PublicationIds', NEW j \in PublicationIds',
             releases'[i].prior = releases'[j].prior, releases'[i].prior # NoPublication
      PROVE  i = j
  <2>1. CASE i \in PublicationIds /\ j \in PublicationIds
    BY <1>1, <1>7, <2>1 DEF TablesInv, SupersedeChain
  <2>2. \A m \in PublicationIds : releases'[m].prior = prior => prior = NoPublication
    BY <1>1, <1>4, <1>5
  <2> QED BY <1>2, <1>7, <2>1, <2>2, PublishedRows
<1>8. ASSUME NEW i \in PublicationIds'
      PROVE  status'[releases'[i].request.version] = "superseded"
                <=> \E j \in PublicationIds' : releases'[j].prior = i
  <2>1. CASE i = Number
    <3>1. \A j \in PublicationIds : releases'[j].prior # Number
      BY <1>1, <1>5, PublishedRows
    <3>2. prior # Number
      BY <1>4, PublishedRows
    <3> QED BY <1>2, <2>1, <3>1, <3>2, PublishedRows
  <2>2. CASE i \in PublicationIds /\ i = prior
    BY <1>1, <1>2, <1>4, <2>2, PublishedRows
  <2>3. CASE i \in PublicationIds /\ i # prior
    <3>1. ver(i) \notin Superseded(q)
      BY <1>4, <2>3 DEF Superseded, TablesInv, ReleasesInv
    <3>2. status'[ver(i)] = status[ver(i)]
      BY <1>1, <2>3, <3>1, PublishedRows
    <3>3. (\E j \in PublicationIds' : releases'[j].prior = i)
             <=> \E j \in PublicationIds : releases[j].prior = i
      BY <1>1, <1>2, <2>3, PublishedRows
    <3> QED BY <1>1, <2>3, <3>2, <3>3 DEF TablesInv, SupersedeChain
  <2> QED BY <2>1, <2>2, <2>3, PublishedRows
<1> QED BY <1>6, <1>7, <1>8 DEF SupersedeChain

\* The locks of the call keep what the other calls found: they are on other
\* streams, with other request keys.
LEMMA PublishKeepsCalls ==
    ASSUME PublicationInv, NEW p \in Sessions, Publish(p)
    PROVE  LocksExclude' /\ CallsInv' /\ RequestsIdempotent'
<1> USE DEF PublicationInv
<1>1. PICK q \in RequestType, k \in Cycles : q = request[p] /\ Found(q, k) /\ Writes(q, k)
  BY PublishFinds
<1>2. /\ pc \in [Sessions -> Stages] /\ request \in [Sessions -> RequestType \cup {None}]
      /\ reply \in [Sessions -> Nat] /\ pc[p] = "checked" /\ Return(p, Number)
  BY DEF PublicationTypeOK, Publish, Number
<1>3. /\ pc'[p] = "idle" /\ reply'[p] = Number /\ request' = request
      /\ \A o \in Sessions \ {p} : pc'[o] = pc[o] /\ reply'[o] = reply[o]
  BY <1>1, <1>2, PublishedRows DEF Return
<1>4. \A o \in Sessions : StreamOf(request[o].version)' = StreamOf(request[o].version)
  BY <1>1, <1>3 DEF StreamOf, Writes
<1>5. LocksExclude'
  BY <1>3, <1>4 DEF LocksExclude, HoldsStream, HoldsKey
<1>6. ASSUME NEW o \in Sessions \ {p}, pc[o] # "idle"
      PROVE  status'[request[o].version] # "absent"
  BY <1>1, <1>6, PublishedRows DEF CallsInv, PublicationTypeOK, RequestType
<1>7. ASSUME NEW o \in Sessions \ {p}, pc[o] \in {"row", "checked"}, NEW i \in PublicationIds'
      PROVE  releases'[i].request.key # request[o].key
  <2>1. q.key # request[o].key
    BY <1>1, <1>2, <1>7 DEF LocksExclude, HoldsKey
  <2>2. releases'[Number].request = q /\ \A j \in PublicationIds : releases'[j] = releases[j]
    BY <1>1, PublishedRows
  <2> QED BY <1>1, <1>7, <2>1, <2>2, PublishedRows DEF CallsInv
<1>8. ASSUME NEW o \in Sessions \ {p}, pc[o] = "checked" PROVE CheckedInv(o)'
  <2>1. PICK r \in RequestType : r = request[o]
    BY <1>8 DEF PublicationTypeOK
  <2>2. StreamOf(r.version) # StreamOf(q.version) /\ r.version \in Versions
    BY <1>1, <1>2, <1>8, <2>1 DEF LocksExclude, HoldsStream, RequestType
  <2>3. CheckedInv(o)
    BY <1>8 DEF CallsInv
  <2>4. status'[r.version] = "approved"
    BY <1>1, <2>1, <2>2, <2>3, PublishedRows DEF CheckedInv, Found
  <2>5. /\ CurrentReleases(StreamOf(r.version))' = CurrentReleases(StreamOf(r.version))
        /\ StreamOf(r.version)' = StreamOf(r.version)
    <3>1. PICK s : s = StreamOf(r.version)
      OBVIOUS
    <3>2. CurrentReleases(s)' = CurrentReleases(s)
      BY <1>1, <2>2, <3>1, PublishTouchesOneStream
    <3>3. StreamOf(r.version)' = s
      BY <1>1, <2>2, <3>1, PublishedRows
    <3> QED BY <3>1, <3>2, <3>3
  <2>6. \E c \in Cycles : Publishable(r.version, c)'
    <3>1. PICK c \in Cycles : Publishable(r.version, c)
      BY <2>1, <2>3 DEF CheckedInv
    <3>2. Publishable(r.version, c)'
      BY <1>1, <3>1, <2>2, EvidenceStands DEF Writes
    <3> QED BY <3>2
  <2> QED BY <1>3, <2>1, <2>3, <2>4, <2>5, <2>6 DEF CheckedInv
<1>9. CallsInv'
  BY <1>3, <1>6, <1>7, <1>8 DEF CallsInv
<1>10. ASSUME NEW i \in PublicationIds', NEW j \in PublicationIds',
              releases'[i].request.key = releases'[j].request.key
       PROVE  i = j
  <2>1. \A m \in PublicationIds : releases'[m] = releases[m] /\ releases[m].request.key # q.key
    BY <1>1, <1>2, PublishedRows DEF CallsInv
  <2>2. releases'[Number].request.key = q.key
    BY <1>1, PublishedRows
  <2> QED BY <1>1, <1>10, <2>1, <2>2, PublishedRows DEF RequestsIdempotent
<1>11. ASSUME NEW o \in Sessions, reply'[o] # NoPublication
       PROVE  reply'[o] \in PublicationIds' /\ releases'[reply'[o]].request = request'[o]
  BY <1>1, <1>3, <1>11, PublishedRows DEF RequestsIdempotent
<1>12. RequestsIdempotent'
  BY <1>10, <1>11 DEF RequestsIdempotent
<1> QED BY <1>5, <1>9, <1>12

-----------------------------------------------------------------------------
(* The theorems. *)

\* Before the first command there is no release and no call.
LEMMA InitInv == PublicationInit => PublicationInv
<1> SUFFICES ASSUME PublicationInit PROVE PublicationInv
  OBVIOUS
<1>1. VersionTypeOK /\ EvidenceInv
  BY VersionInitEvidence DEF PublicationInit
<1>2. PublicationIds = {} /\ releases = <<>>
  BY DEF PublicationInit, PublicationIds
<1>3. \A v \in Versions : status[v] = "absent"
  BY DEF PublicationInit, VersionInit
<1>4. \A p \in Sessions : pc[p] = "idle" /\ reply[p] = NoPublication
  BY DEF PublicationInit
<1>5. PublicationTypeOK
  BY <1>1 DEF PublicationInit, PublicationTypeOK, Stages, NoPublication
<1>6. TablesInv
  BY <1>2, <1>3 DEF TablesInv, ReleasesInv, SingleCurrent, SupersedeChain, Shown,
                    ReleasesIn, InStream, Existing
<1>7. LocksExclude /\ CallsInv /\ RequestsIdempotent
  BY <1>2, <1>4 DEF LocksExclude, CallsInv, RequestsIdempotent, HoldsStream, HoldsKey
<1> QED BY <1>1, <1>5, <1>6, <1>7 DEF PublicationInv

\* Every step keeps the invariant.
LEMMA StepKeepsInv ==
    ASSUME PublicationInv, [Next]_vars
    PROVE  PublicationInv'
<1>1. CASE LifecycleStep
  BY <1>1, LifecycleKeepsInv
<1>2. ASSUME NEW p \in Sessions, QuietStep(p) PROVE PublicationInv'
  BY <1>2, QuietKeepsInv
<1>3. ASSUME NEW p \in Sessions, Publish(p) PROVE PublicationInv'
  <2>1. TablesInv'
    BY <1>3, PublishFinds, PublishKeepsReleases, PublishKeepsSingle, PublishKeepsChain
       DEF PublicationInv, TablesInv
  <2> QED BY <1>3, <2>1, PublishKeepsTypes, PublishKeepsEvidence, PublishKeepsCalls
          DEF PublicationInv
<1>4. CASE UNCHANGED vars
  <2>1. \A o \in Sessions : CheckedInv(o) => CheckedInv(o)'
    BY <1>4, CheckedKept DEF vars, versionVars
  <2>2. PublicationTypeOK' /\ EvidenceInv'
    <3>1. PublicationTypeOK'
      BY <1>4 DEF vars, PublicationInv, PublicationTypeOK, VersionTypeOK
    <3>2. EvidenceInv'
      BY <1>4 DEF vars, PublicationInv, EvidenceInv, OneEvidenceCycle, MakerChecker,
         ApprovalIsFinal, UndecidedHasNoDecision, PassingCycles, CompletePass,
         ApprovedDecision
    <3> QED BY <3>1, <3>2
  <2>3. TablesInv'
    BY <1>4, TablesKept DEF vars, PublicationInv, Unchanged, Shown
  <2>4. LocksExclude' /\ CallsInv' /\ RequestsIdempotent'
    <3>1. LocksExclude'
      BY <1>4 DEF vars, PublicationInv, LocksExclude, StreamOf
    <3>2. CallsInv'
      BY <1>4, <2>1 DEF vars, PublicationInv, CallsInv, PublicationIds
    <3>3. RequestsIdempotent'
      BY <1>4 DEF vars, PublicationInv, RequestsIdempotent, PublicationIds
    <3> QED BY <3>1, <3>2, <3>3
  <2> QED BY <2>2, <2>3, <2>4 DEF PublicationInv
<1> QED BY <1>1, <1>2, <1>3, <1>4, StepKinds DEF PublicationInv

\* The inductive invariant holds in every reachable state.
THEOREM PublicationInvariant == Spec => []PublicationInv
<1>1. PublicationInit => PublicationInv
  BY InitInv
<1>2. PublicationInv /\ [Next]_vars => PublicationInv'
  BY StepKeepsInv
<1> QED BY <1>1, <1>2, PTL DEF Spec

\* Every reachable state has the declared types.
THEOREM PublicationTypeCorrect == Spec => []PublicationTypeOK
BY PublicationInvariant, PTL DEF PublicationInv

\* With publication going on, versions still have one evidence cycle.
THEOREM OneEvidenceCyclePublished == Spec => []OneEvidenceCycle
BY PublicationInvariant, PTL DEF PublicationInv, EvidenceInv

\* With publication going on, makers still never are checkers.
THEOREM MakerCheckerPublished == Spec => []MakerChecker
BY PublicationInvariant, PTL DEF PublicationInv, EvidenceInv

\* However many calls race, abort and are repeated, a stream that was published
\* has exactly one published version.
THEOREM SingleCurrentCorrect == Spec => []SingleCurrent
BY PublicationInvariant, PTL DEF PublicationInv, TablesInv

\* The releases of every stream form one chain.
THEOREM SupersedeChainCorrect == Spec => []SupersedeChain
BY PublicationInvariant, PTL DEF PublicationInv, TablesInv

\* One request key makes one release, and every answer is the release of the
\* request that was made.
THEOREM RequestsIdempotentCorrect == Spec => []RequestsIdempotent
BY PublicationInvariant, PTL DEF PublicationInv

\* Exactly the shown versions have a release, one each, and the evidence it was
\* published on is complete, in one cycle, and stays so.
THEOREM PublishedOnEvidenceCorrect == Spec => []PublishedOnEvidence
<1>1. PublicationInv => PublishedOnEvidence
  <2> SUFFICES ASSUME PublicationInv, NEW v \in Versions
               PROVE  /\ Shown(v) <=> ReleasesOf(v) # {}
                      /\ \A i, j \in ReleasesOf(v) : i = j
                      /\ \A i \in ReleasesOf(v) : Publishable(v, releases[i].cycle)
    BY DEF PublishedOnEvidence, Shown
  <2>1. ReleasesInv
    BY DEF PublicationInv, TablesInv
  <2> QED BY <2>1 DEF ReleasesInv, ReleasesOf
<1> QED BY <1>1, PublicationInvariant, PTL

-----------------------------------------------------------------------------
(* The releases of a stream only grow, its current version only moves on. *)

\* A step that leaves the shown versions alone is none forward.
LEMMA StandsStill ==
    ASSUME PublicationTypeOK, releases' = releases,
           \A w \in Versions : Shown(w) => Unchanged(w)
    PROVE  ForwardStep
<1>1. Len(releases) <= Len(releases')
  BY DEF PublicationTypeOK
<1> QED BY <1>1 DEF ForwardStep, Shown, Unchanged

\* A publication takes its stream to a higher sequence.
LEMMA PublishMovesForward ==
    ASSUME PublicationInv, NEW p \in Sessions, Publish(p)
    PROVE  ForwardStep
<1>1. PICK q \in RequestType, k \in Cycles : q = request[p] /\ Found(q, k) /\ Writes(q, k)
  BY PublishFinds
<1>2. PublicationTypeOK
  BY DEF PublicationInv
<1>3. Len(releases) <= Len(releases')
  BY <1>1, <1>2 DEF Writes, PublicationTypeOK
<1>4. ASSUME NEW u \in Versions, status[u] = "published"
      PROVE  \/ status'[u] = "published"
             \/ /\ status'[u] = "superseded"
                /\ \E w \in Versions :
                      /\ status[w] = "approved" /\ status'[w] = "published"
                      /\ StreamOf(w) = StreamOf(u)
                      /\ row[w].sequence > row[u].sequence
  <2>1. CASE u \notin Superseded(q)
    BY <1>1, <1>2, <1>4, <2>1, PublishedRows DEF Found
  <2>2. CASE u \in Superseded(q)
    <3>1. /\ q.version \in Versions /\ status'[u] = "superseded"
          /\ status[q.version] = "approved" /\ status'[q.version] = "published"
          /\ StreamOf(q.version) = StreamOf(u) /\ row[u].sequence < row[q.version].sequence
      BY <1>1, <1>2, <2>2, PublishedRows DEF Found
    <3>2. row[q.version].sequence \in Nat /\ row[u].sequence \in Nat
      BY <1>2, <1>4, <3>1 DEF PublicationTypeOK, VersionTypeOK, RowType
    <3> QED BY <3>1, <3>2
  <2> QED BY <2>1, <2>2
<1> QED BY <1>1, <1>2, <1>3, <1>4, PublishedRows DEF ForwardStep

\* A step that is no publication leaves the releases and the shown versions alone.
LEMMA OtherStepsLeaveShown ==
    ASSUME PublicationInv, [Next]_vars, \A p \in Sessions : ~ Publish(p)
    PROVE  /\ releases' = releases
           /\ \A w \in Versions : (Shown(w)' <=> Shown(w)) /\ (Shown(w) => Unchanged(w))
<1>1. CASE LifecycleStep
  BY <1>1, LifecycleScope DEF LifecycleStep, pubVars, PublicationInv, PublicationTypeOK
<1>2. ASSUME UNCHANGED <<releases, versionVars>>
      PROVE  /\ releases' = releases
             /\ \A w \in Versions : (Shown(w)' <=> Shown(w)) /\ (Shown(w) => Unchanged(w))
  BY <1>2 DEF versionVars, Unchanged, Shown
<1>3. ASSUME NEW p \in Sessions, QuietStep(p) PROVE UNCHANGED <<releases, versionVars>>
  BY <1>3 DEF QuietStep, Call, LockStream, LockKey, Recheck, LockRowAndCheck, Abort
<1>4. CASE UNCHANGED vars
  BY <1>2, <1>4 DEF vars, versionVars
<1> QED BY <1>1, <1>2, <1>3, <1>4, StepKinds DEF PublicationInv

\* No release is ever changed, and a version stops being current only when one
\* with a higher sequence replaces it.
THEOREM CurrentMovesForwardCorrect == Spec => CurrentMovesForward
<1>1. PublicationInv /\ [Next]_vars => [ForwardStep]_vars
  <2> SUFFICES ASSUME PublicationInv, [Next]_vars PROVE ForwardStep
    OBVIOUS
  <2>1. ASSUME NEW p \in Sessions, Publish(p) PROVE ForwardStep
    BY <2>1, PublishMovesForward
  <2>2. CASE \A p \in Sessions : ~ Publish(p)
    BY <2>2, OtherStepsLeaveShown, StandsStill DEF PublicationInv
  <2> QED BY <2>1, <2>2
<1> QED BY <1>1, PublicationInvariant, PTL DEF Spec, CurrentMovesForward

-----------------------------------------------------------------------------
(* The command implements the abstract publication stream. *)

\* What a stream shows: its one published version, or nothing.
CurrentShown ==
    \A s \in Streams :
        \/ CurrentVersion(s) = None /\ \A w \in InStream(s) : status[w] # "published"
        \/ \E w \in InStream(s) : status[w] = "published" /\ CurrentVersion(s) = w

\* The version CurrentOf finds by the highest sequence is the published one.
LEMMA InvShowsCurrent == PublicationInv => CurrentShown
<1> SUFFICES ASSUME PublicationInv, NEW s \in Streams
             PROVE  \/ /\ CurrentVersion(s) = None
                       /\ \A w \in InStream(s) : status[w] # "published"
                    \/ \E w \in InStream(s) : status[w] = "published" /\ CurrentVersion(s) = w
  BY DEF CurrentShown
<1> USE DEF PublicationInv
<1>1. PICK n : n = CurrentOf(s)
  OBVIOUS
<1>2. CurrentReleases(s) = IF n = NoPublication THEN {} ELSE {n}
  BY <1>1, CurrentUnique
<1>3. CASE n = NoPublication
  <2>1. CurrentVersion(s) = None
    BY <1>1, <1>3 DEF CurrentVersion
  <2>2. ASSUME NEW w \in InStream(s), status[w] = "published" PROVE FALSE
    <3>1. w \in Versions /\ StreamOf(w) = s
      BY DEF InStream, Existing, StreamOf
    <3>2. PICK i \in PublicationIds : releases[i].request.version = w
      BY <2>2, <3>1 DEF TablesInv, ReleasesInv, Shown
    <3>3. i \in CurrentReleases(s)
      BY <2>2, <3>1, <3>2 DEF CurrentReleases, ReleasesIn
    <3> QED BY <1>2, <1>3, <3>3
  <2> QED BY <2>1, <2>2
<1>4. CASE n # NoPublication
  <2>1. n \in CurrentReleases(s)
    BY <1>2, <1>4
  <2>2. /\ releases[n].request.version \in InStream(s)
        /\ status[releases[n].request.version] = "published"
    BY <2>1, ReleaseTypes DEF CurrentReleases, ReleasesIn, InStream, Existing, StreamOf
  <2>3. CurrentVersion(s) = releases[n].request.version
    BY <1>1, <1>4 DEF CurrentVersion
  <2> QED BY <2>2, <2>3
<1> QED BY <1>3, <1>4

\* A step that leaves the shown versions alone is none of the abstract stream.
LEMMA StandsStillAbstractly ==
    ASSUME PublicationInv, CurrentShown, PublicationInv', CurrentShown',
           \A w \in Versions : (Shown(w)' <=> Shown(w)) /\ (Shown(w) => Unchanged(w))
    PROVE  UNCHANGED Consumers!vars
<1>1. ASSUME NEW w \in Versions
      PROVE  /\ status'[w] = "published" <=> status[w] = "published"
             /\ status'[w] = "superseded" <=> status[w] = "superseded"
             /\ status[w] = "published" => row'[w] = row[w]
  BY <1>1 DEF Shown, Unchanged
<1>2. ASSUME NEW s \in Streams PROVE CurrentVersion(s)' = CurrentVersion(s)
  <2>1. ASSUME NEW w \in Versions, status[w] = "published"
        PROVE  w \in InStream(s)' <=> w \in InStream(s)
    BY <1>1, <2>1 DEF InStream, Existing
  <2>2. InStream(s) \subseteq Versions /\ InStream(s)' \subseteq Versions
    BY DEF InStream, Existing
  <2>3. \A v, w \in InStream(s) : status[v] = "published" /\ status[w] = "published" => v = w
    BY DEF PublicationInv, TablesInv, SingleCurrent
  <2> QED BY <1>1, <2>1, <2>2, <2>3 DEF CurrentShown
<1>3. {v \in Versions : status[v] = "superseded"}' = {v \in Versions : status[v] = "superseded"}
  BY <1>1
<1>4. [s \in Streams |-> CurrentVersion(s)]' = [s \in Streams |-> CurrentVersion(s)]
  BY <1>2
<1> QED BY <1>3, <1>4 DEF Consumers!vars

\* A publication replaces what its stream shows.
LEMMA PublishReplaces ==
    ASSUME PublicationInv, CurrentShown, PublicationInv', CurrentShown',
           NEW p \in Sessions, Publish(p)
    PROVE  Consumers!Next
<1>1. PICK q \in RequestType, k \in Cycles : q = request[p] /\ Found(q, k) /\ Writes(q, k)
  BY PublishFinds
<1> DEFINE v == q.version
<1>2. PublicationTypeOK
  BY DEF PublicationInv
<1>3. PICK s \in Streams : s = StreamOf(v)
  BY <1>1 DEF Found
<1>4. /\ v \in Versions /\ row' = row
      /\ status[v] = "approved" /\ status'[v] = "published"
      /\ \A u \in Superseded(q) : /\ u \in Versions /\ status[u] = "published"
                                  /\ status'[u] = "superseded" /\ StreamOf(u) = s
      /\ \A w \in Versions \ {v} : w \notin Superseded(q) => status'[w] = status[w]
      /\ \A w \in Versions : StreamOf(w) = s /\ status[w] = "published" => w \in Superseded(q)
  BY <1>1, <1>2, <1>3, PublishedRows DEF Found, Writes
<1>5. ASSUME NEW t, NEW w
      PROVE  /\ w \in InStream(t)' <=> w \in InStream(t)
             /\ w \in InStream(t) => w \in Versions /\ StreamOf(w) = t
  <2>1. w \in Versions => (status'[w] # "absent" <=> status[w] # "absent")
    BY <1>4
  <2> QED BY <1>4, <2>1 DEF InStream, Existing, StreamOf
<1>6. v \in InStream(s)
  BY <1>3, <1>4 DEF InStream, Existing, StreamOf
<1>7. CurrentVersion(s)' = v
  <2>1. \A u, w \in InStream(s)' : status'[u] = "published" /\ status'[w] = "published" => u = w
    BY DEF PublicationInv, TablesInv, SingleCurrent
  <2> QED BY <1>4, <1>5, <1>6, <2>1 DEF CurrentShown
<1>8. ASSUME NEW t \in Streams, t # s PROVE CurrentVersion(t)' = CurrentVersion(t)
  <2>1. \A w \in InStream(t) : status'[w] = status[w]
    BY <1>3, <1>4, <1>5, <1>8
  <2>2. \A u, w \in InStream(t) : status[u] = "published" /\ status[w] = "published" => u = w
    BY DEF PublicationInv, TablesInv, SingleCurrent
  <2> QED BY <1>5, <2>1, <2>2 DEF CurrentShown
<1>9. {CurrentVersion(s)} \ {None} = Superseded(q)
  <2>1. CASE CurrentVersion(s) = None /\ \A w \in InStream(s) : status[w] # "published"
    <3>1. \A u \in Superseded(q) : u \in InStream(s)
      BY <1>4 DEF InStream, Existing, StreamOf
    <3> QED BY <1>4, <2>1, <3>1
  <2>2. ASSUME NEW w \in InStream(s), status[w] = "published", CurrentVersion(s) = w
        PROVE  {CurrentVersion(s)} \ {None} = Superseded(q)
    <3>1. w \in Superseded(q) /\ w # None
      BY <1>4, <1>5, <2>2, NoneAssumption
    <3>2. Superseded(q) = {w}
      BY <3>1 DEF Superseded
    <3> QED BY <2>2, <3>1, <3>2
  <2> QED BY <2>1, <2>2 DEF CurrentShown
<1>10. ASSUME NEW t \in Streams PROVE CurrentVersion(t) # v
  BY <1>4, NoneAssumption DEF CurrentShown
<1> DEFINE cur == [t \in Streams |-> CurrentVersion(t)]
           ret == {w \in Versions : status[w] = "superseded"}
<1>11. v \notin ({cur[t] : t \in Streams} \ {None}) \cup ret
  BY <1>4, <1>10
<1>12. cur' = [cur EXCEPT ![s] = v]
  BY <1>7, <1>8
<1>13. ret' = ret \cup ({cur[s]} \ {None})
  <2>1. ret' = ret \cup Superseded(q)
    BY <1>4
  <2> QED BY <1>9, <2>1
<1>14. Consumers!Replace(s, v)
  BY <1>11, <1>12, <1>13 DEF Consumers!Replace, Consumers!Shown
<1> QED BY <1>4, <1>14 DEF Consumers!Next

\* The publication command implements the abstract stream its readers rely on.
THEOREM PublicationStreamImplemented == Spec => ImplementsPublicationStream
<1>1. PublicationInit => Consumers!Init
  <2> SUFFICES ASSUME PublicationInit PROVE Consumers!Init
    OBVIOUS
  <2>1. \A s : CurrentVersion(s) = None
    BY DEF PublicationInit, CurrentVersion, CurrentOf, CurrentReleases, ReleasesIn,
           PublicationIds
  <2>2. \A v \in Versions : status[v] = "absent"
    BY DEF PublicationInit, VersionInit
  <2> QED BY <2>1, <2>2 DEF Consumers!Init
<1>2. PublicationInv /\ CurrentShown /\ PublicationInv' /\ CurrentShown' /\ [Next]_vars
        => [Consumers!Next]_(Consumers!vars)
  <2> SUFFICES ASSUME PublicationInv, CurrentShown, PublicationInv', CurrentShown', [Next]_vars
               PROVE  Consumers!Next \/ UNCHANGED Consumers!vars
    OBVIOUS
  <2>1. ASSUME NEW p \in Sessions, Publish(p) PROVE Consumers!Next
    BY <2>1, PublishReplaces
  <2>2. CASE \A p \in Sessions : ~ Publish(p)
    BY <2>2, OtherStepsLeaveShown, StandsStillAbstractly
  <2> QED BY <2>1, <2>2
<1>3. PublicationInv => CurrentShown
  BY InvShowsCurrent
<1> QED BY <1>1, <1>2, <1>3, PublicationInvariant, PTL
        DEF Spec, ImplementsPublicationStream, Consumers!Spec

-----------------------------------------------------------------------------
(* What the lifecycle guarantees, with publication going on.                 *)

\* The lifecycle's invariants that are not part of PublicationInv.
LifecycleInv == LineageOrdered /\ RejectedOnEvidence /\ AuditExplainsStatus

\* They are about the tables of M014 and M016 only.
LEMMA TablesStandStill ==
    ASSUME LifecycleInv, UNCHANGED versionVars PROVE LifecycleInv'
<1>1. LineageOrdered'
  BY LineageKept DEF LifecycleInv, versionVars, Existing
<1>2. RejectedOnEvidence'
  BY DEF LifecycleInv, versionVars, RejectedOnEvidence, CompletePass
<1>3. AuditExplainsStatus'
  BY DEF LifecycleInv, versionVars, AuditExplainsStatus
<1> QED BY <1>1, <1>2, <1>3 DEF LifecycleInv

\* A publication moves an approved version to published and a published one to
\* superseded, with an audit event for each; it inserts and rejects none.
LEMMA PublishKeepsLifecycle ==
    ASSUME PublicationInv, LifecycleInv, NEW p \in Sessions, Publish(p)
    PROVE  LifecycleInv'
<1> USE DEF PublicationInv
<1>1. PICK q \in RequestType, k \in Cycles : q = request[p] /\ Found(q, k) /\ Writes(q, k)
  BY PublishFinds
<1>2. /\ q.version \in Versions /\ q.version \notin Superseded(q)
      /\ status'[q.version] = "published"
      /\ \A u \in Superseded(q) : status'[u] = "superseded"
      /\ \A w \in Versions \ {q.version} : w \notin Superseded(q) => status'[w] = status[w]
  BY <1>1, PublishedRows
<1>3. /\ status[q.version] = "approved"
      /\ \A u \in Superseded(q) : u \in Versions /\ status[u] = "published"
  BY <1>1 DEF Found
<1>4. LineageOrdered'
  <2>1. Existing' = Existing
    BY <1>2, <1>3 DEF Existing
  <2> QED BY <1>1, <2>1, LineageKept DEF LifecycleInv, Writes
<1>5. RejectedOnEvidence'
  <2>1. results' = results /\ decisions' = decisions
    BY <1>1 DEF Writes
  <2>2. \A w \in Versions : status'[w] = "rejected" => status[w] = "rejected"
    BY <1>2
  <2> QED BY <2>1, <2>2 DEF LifecycleInv, RejectedOnEvidence, CompletePass
<1>6. ASSUME NEW w \in Versions PROVE AuditOf(w)'
  <2> DEFINE recorded == Event("publication_recorded", "approved", "published")
             published == Event("version_published", "approved", "published")
             superseded == Event("version_superseded", "published", "superseded")
  <2>1. AuditOf(w)
    BY DEF LifecycleInv, AuditExplainsStatus, AuditOf, Reached
  <2>2. audit'[w] = IF w = q.version THEN audit[w] \cup {recorded, published}
                    ELSE IF w \in Superseded(q) THEN audit[w] \cup {superseded} ELSE audit[w]
    BY <1>1 DEF Publish, Superseded
  <2>3. /\ Reached({recorded}) = {"published"} /\ Reached({published}) = {"published"}
        /\ Reached({superseded}) = {"superseded"}
    <3>1. "approved" # "published" /\ "published" # "superseded"
      OBVIOUS
    <3> QED BY <3>1, ReachedByChange
  <2> HIDE DEF recorded, published, superseded
  <2>4. Reached({recorded, published}) = {"published"}
    <3>1. {recorded, published} = {recorded} \cup {published}
      OBVIOUS
    <3> QED BY <2>3, <3>1, ReachedGrows
  <2>5. CASE w = q.version
    <3>1. Reached(audit'[w]) = Reached(audit[w]) \cup {"published"}
      BY <2>2, <2>4, <2>5, ReachedGrows
    <3> QED BY <1>2, <1>3, <2>1, <2>5, <3>1 DEF AuditOf, AuditedPath
  <2>6. CASE w # q.version /\ w \in Superseded(q)
    <3>1. Reached(audit'[w]) = Reached(audit[w]) \cup {"superseded"}
      BY <2>2, <2>3, <2>6, ReachedGrows
    <3> QED BY <1>2, <1>3, <2>1, <2>6, <3>1 DEF AuditOf, AuditedPath
  <2>7. CASE w # q.version /\ w \notin Superseded(q)
    BY <1>2, <2>1, <2>2, <2>7 DEF AuditOf
  <2> QED BY <2>5, <2>6, <2>7
<1>7. AuditExplainsStatus'
  BY <1>6 DEF AuditExplainsStatus, AuditOf, Reached
<1> QED BY <1>4, <1>5, <1>7 DEF LifecycleInv

\* The lifecycle's invariants hold in every state of the two together.
THEOREM LifecyclePublished == Spec => []LifecycleInv
<1>1. PublicationInit => LifecycleInv
  BY DEF PublicationInit, VersionInit, LifecycleInv, LineageOrdered, Existing,
         RejectedOnEvidence, AuditExplainsStatus, AuditedPath
<1>2. PublicationInv /\ LifecycleInv /\ [Next]_vars => LifecycleInv'
  <2> SUFFICES ASSUME PublicationInv, LifecycleInv, [Next]_vars PROVE LifecycleInv'
    OBVIOUS
  <2>1. VersionTypeOK /\ EvidenceInv /\ PublicationTypeOK
    BY DEF PublicationInv, PublicationTypeOK
  <2>2. CASE LifecycleStep
    <3>1. PICK v \in Versions : VersionCommand(v)
      BY <2>2 DEF LifecycleStep
    <3> QED BY <2>1, <3>1, CommandKeepsLineage, CommandKeepsRejections, CommandKeepsAudit
            DEF LifecycleInv
  <2>3. ASSUME NEW p \in Sessions, QuietStep(p) PROVE LifecycleInv'
    <3>1. UNCHANGED versionVars
      BY <2>3 DEF QuietStep, Call, LockStream, LockKey, Recheck, LockRowAndCheck, Abort
    <3> QED BY <3>1, TablesStandStill
  <2>4. ASSUME NEW p \in Sessions, Publish(p) PROVE LifecycleInv'
    BY <2>4, PublishKeepsLifecycle
  <2>5. CASE UNCHANGED vars
    <3>1. UNCHANGED versionVars
      BY <2>5 DEF vars, versionVars
    <3> QED BY <3>1, TablesStandStill
  <2> QED BY <2>1, <2>2, <2>3, <2>4, <2>5, StepKinds
<1> QED BY <1>1, <1>2, PublicationInvariant, PTL DEF Spec

\* With publication going on, the versions of a stream still form a forest
\* ordered by sequence.
THEOREM LineageOrderedPublished == Spec => []LineageOrdered
BY LifecyclePublished, PTL DEF LifecycleInv

\* With publication going on, the audit log still tells the status of a version.
THEOREM AuditExplainsStatusPublished == Spec => []AuditExplainsStatus
BY LifecyclePublished, PTL DEF LifecycleInv

\* Neither commands nor publications change or remove a result or a decision,
\* and no verdict on a version is taken back.
THEOREM EvidenceAppendOnlyPublished == Spec => EvidenceAppendOnly
<1>1. ASSUME PublicationInv, [Next]_vars, NEW w \in Versions PROVE AppendsOnly(w)
  <2>1. VersionTypeOK /\ PublicationTypeOK
    BY <1>1 DEF PublicationInv, PublicationTypeOK
  <2>2. CASE LifecycleStep
    <3>1. PICK v \in Versions : VersionCommand(v)
      BY <2>2 DEF LifecycleStep
    <3> QED BY <2>1, <3>1, CommandAppendsOnly, CommandTouchesOne, UnchangedAppendsOnly
  <2>3. ASSUME UNCHANGED versionVars PROVE AppendsOnly(w)
    BY <2>1, <2>3, UnchangedAppendsOnly DEF versionVars, Unchanged
  <2>4. ASSUME NEW p \in Sessions, QuietStep(p) PROVE UNCHANGED versionVars
    BY <2>4 DEF QuietStep, Call, LockStream, LockKey, Recheck, LockRowAndCheck, Abort
  <2>5. ASSUME NEW p \in Sessions, Publish(p) PROVE AppendsOnly(w)
    <3>1. PICK q \in RequestType, k \in Cycles : q = request[p] /\ Found(q, k) /\ Writes(q, k)
      BY <1>1, <2>5, PublishFinds
    <3>2. results' = results /\ decisions' = decisions
      BY <3>1 DEF Writes
    <3>3. /\ status[w] \in Decided => status'[w] \in Decided
          /\ status[w] = "rejected" => status'[w] = "rejected"
      BY <2>1, <3>1, PublishedRows DEF Decided, Found
    <3> QED BY <2>1, <3>2, <3>3 DEF AppendsOnly, VersionTypeOK
  <2>6. CASE UNCHANGED vars
    BY <2>3, <2>6 DEF vars, versionVars
  <2> QED BY <1>1, <2>1, <2>2, <2>3, <2>4, <2>5, <2>6, StepKinds
<1>2. PublicationInv /\ [Next]_vars
        => [\A v \in Versions :
              /\ \A k \in Cycles, c \in Codes :
                    results[v][k][c] # "missing" \/ status[v] # "validating"
                        => results'[v][k][c] = results[v][k][c]
              /\ \A t \in ApprovalTypes :
                    /\ Len(decisions[v][t]) <= Len(decisions'[v][t])
                    /\ \A d \in DOMAIN decisions[v][t] :
                          decisions'[v][t][d] = decisions[v][t][d]
              /\ status[v] \in Decided => status'[v] \in Decided
              /\ status[v] = "rejected" => status'[v] = "rejected"]_versionVars
  BY <1>1 DEF AppendsOnly
<1> QED BY <1>2, PublicationInvariant, PTL DEF Spec, EvidenceAppendOnly

-----------------------------------------------------------------------------
(* A call that is under way is never stuck: Publish waits for no row that can *)
(* be locked, and the order stream, key, row closes no circle of waiters.     *)

\* The conditions of Publish beyond "checked".
MayPublish(p) ==
    \A u \in Superseded(request[p]) :
        ~ RowLocked(u) /\ row[u].sequence < row[request[p].version].sequence

CheckedMayPublish == \A p \in Sessions : pc[p] = "checked" => MayPublish(p)

\* What the prior of a checked call was when it was found, it stays.
PriorIsOlder ==
    \A p \in Sessions : pc[p] = "checked" =>
        \A u \in Superseded(request[p]) :
            row[u].sequence < row[request[p].version].sequence

\* What a call waits for is there: the guard of the SessionStep it stands before.
Ready(p) ==
    \/ /\ pc[p] = "stream"
       /\ \A o \in Sessions : pc[o] \in HoldsStream =>
             StreamOf(request[o].version) # StreamOf(request[p].version)
    \/ /\ pc[p] = "key"
       /\ \A o \in Sessions : pc[o] \in HoldsKey => request[o].key # request[p].key
    \/ pc[p] = "recheck"
    \/ pc[p] = "row" /\ ~ RowLocked(request[p].version)
    \/ pc[p] = "checked" /\ MayPublish(p)

UnderWay == {p \in Sessions : pc[p] # "idle"}

NoCallStuck == UnderWay # {} => \E p \in UnderWay : Ready(p)

\* The version a checked call is about to supersede is the published one of its
\* stream.
LEMMA PriorIsPublished ==
    ASSUME PublicationInv, NEW p \in Sessions, CheckedInv(p), NEW u \in Superseded(request[p])
    PROVE  /\ request[p].expectedPrior \in PublicationIds
           /\ u = releases[request[p].expectedPrior].request.version
           /\ u \in Versions /\ status[u] = "published"
           /\ StreamOf(u) = StreamOf(request[p].version)
<1>1. /\ request[p].expectedPrior # NoPublication
      /\ u = releases[request[p].expectedPrior].request.version
  BY DEF Superseded
<1>2. request[p].expectedPrior \in CurrentReleases(StreamOf(request[p].version))
  BY <1>1 DEF CheckedInv
<1> QED BY <1>1, <1>2, ReleaseTypes DEF CurrentReleases, ReleasesIn, PublicationInv

\* A version that has no newer one is newer than the one its stream shows.
LEMMA AcceptedIsNewer ==
    ASSUME PublicationInv, LineageOrdered, NEW v \in Versions, NEW u \in Versions,
           ~ HasNewer(v), status[v] = "approved", status[u] = "published",
           StreamOf(u) = StreamOf(v)
    PROVE  row[u].sequence < row[v].sequence
<1>1. v \in Existing /\ u \in InStream(StreamOf(v))
  BY DEF Existing, InStream, StreamOf
<1>2. row[v].sequence \in Nat /\ row[u].sequence \in Nat
  BY DEF PublicationInv, PublicationTypeOK, VersionTypeOK, RowType
<1>3. ~ row[u].sequence > row[v].sequence
  BY <1>1 DEF HasNewer
<1>4. row[u].sequence # row[v].sequence
  BY <1>1 DEF LineageOrdered, StreamOf
<1> QED BY <1>2, <1>3, <1>4

\* A step keeps it: no row of a version that exists and no release changes.
LEMMA StepKeepsPriorOlder ==
    ASSUME PublicationInv, LineageOrdered, PriorIsOlder, [Next]_vars
    PROVE  PriorIsOlder'
<1> SUFFICES ASSUME NEW p \in Sessions, pc'[p] = "checked", NEW u \in Superseded(request[p])'
             PROVE  row'[u].sequence < row'[request'[p].version].sequence
  BY DEF PriorIsOlder
<1>1. PublicationTypeOK /\ VersionTypeOK /\ pc \in [Sessions -> Stages]
  BY DEF PublicationInv, PublicationTypeOK
\* A call that was checked before, in a step that keeps the rows of the two.
<1>2. ASSUME pc[p] = "checked", request'[p] = request[p],
             \A i \in PublicationIds : releases'[i] = releases[i],
             \A w \in Versions : status[w] = "approved" \/ Shown(w) => row'[w] = row[w]
      PROVE  row'[u].sequence < row'[request'[p].version].sequence
  <2>1. CheckedInv(p) /\ request[p].version \in Versions
    BY <1>2 DEF PublicationInv, PublicationTypeOK, CallsInv, RequestType
  <2>2. request[p].expectedPrior \in PublicationIds
    <3>1. request[p].expectedPrior # NoPublication
      BY <1>2 DEF Superseded
    <3>2. releases[request[p].expectedPrior].request.version \in Superseded(request[p])
      BY <3>1 DEF Superseded
    <3> QED BY <2>1, <3>2, PriorIsPublished
  <2>3. u \in Superseded(request[p])
    BY <1>2, <2>2 DEF Superseded
  <2>4. u \in Versions /\ status[u] = "published"
    BY <2>1, <2>3, PriorIsPublished
  <2>5. row[u].sequence < row[request[p].version].sequence
    BY <1>2, <2>3 DEF PriorIsOlder
  <2> QED BY <1>2, <2>1, <2>4, <2>5 DEF CheckedInv, Shown
<1>3. CASE LifecycleStep
  <2>1. /\ releases' = releases /\ pc' = pc /\ request' = request
        /\ \A w \in Versions : status[w] = "approved" \/ Shown(w) => row'[w] = row[w]
    BY <1>1, <1>3, LifecycleScope DEF LifecycleStep, pubVars, Unchanged
  <2> QED BY <1>2, <2>1
<1>4. ASSUME NEW o \in Sessions, QuietStep(o)
      PROVE  row'[u].sequence < row'[request'[p].version].sequence
  <2>1. UNCHANGED <<releases, versionVars>>
    BY <1>4 DEF QuietStep, Call, LockStream, LockKey, Recheck, LockRowAndCheck, Abort
  <2>2. CASE pc[p] = "checked" /\ request'[p] = request[p]
    BY <1>2, <2>1, <2>2 DEF versionVars
  <2>3. CASE LockRowAndCheck(p) /\ Accepts(request[p]) /\ request' = request
    <3>1. PublicationInv'
      BY <1>4, QuietKeepsInv
    <3>2. CheckedInv(p)' /\ u \in Superseded(request[p])
      BY <2>1, <2>3, <3>1 DEF PublicationInv, CallsInv, Superseded
    <3>3. CheckedInv(p)
      <4>1. StreamOf(request[p].version) \in Streams
        BY <1>1, <2>3 DEF LockRowAndCheck, StreamOf, PublicationInv, CallsInv,
                          PublicationTypeOK, VersionTypeOK, RowType, RequestType
      <4> QED BY <1>1, <2>3, <4>1, CurrentUnique DEF Accepts, CheckedInv, PublicationInv
    <3>4. /\ u \in Versions /\ status[u] = "published"
          /\ StreamOf(u) = StreamOf(request[p].version)
      BY <3>2, <3>3, PriorIsPublished
    <3>5. /\ request[p].version \in Versions /\ status[request[p].version] = "approved"
          /\ ~ HasNewer(request[p].version)
      BY <1>1, <2>3 DEF Accepts, LockRowAndCheck, PublicationTypeOK, RequestType
    <3>6. row[u].sequence < row[request[p].version].sequence
      BY <3>4, <3>5, AcceptedIsNewer
    <3> QED BY <2>1, <2>3, <3>6 DEF versionVars
  <2>4. \/ pc[p] = "checked" /\ request'[p] = request[p]
        \/ LockRowAndCheck(p) /\ Accepts(request[p]) /\ request' = request
    BY <1>1, <1>4 DEF QuietStep, Call, LockStream, LockKey, Recheck, LockRowAndCheck, Abort,
                      Return, PublicationTypeOK
  <2> QED BY <2>2, <2>3, <2>4
<1>5. ASSUME NEW o \in Sessions, Publish(o)
      PROVE  row'[u].sequence < row'[request'[p].version].sequence
  <2>1. PICK q \in RequestType, k \in Cycles : q = request[o] /\ Found(q, k) /\ Writes(q, k)
    BY <1>5, PublishFinds
  <2>2. row' = row /\ \A i \in PublicationIds : releases'[i] = releases[i]
    BY <1>1, <2>1 DEF Writes, PublicationIds, PublicationTypeOK
  <2>3. pc[p] = "checked" /\ request'[p] = request[p]
    BY <1>1, <1>5 DEF Publish, Return, PublicationTypeOK
  <2> QED BY <1>2, <2>2, <2>3
<1>6. CASE UNCHANGED vars
  <2>1. /\ releases' = releases /\ pc' = pc /\ request' = request /\ row' = row
    BY <1>6 DEF vars
  <2> QED BY <1>2, <2>1
<1> QED BY <1>1, <1>3, <1>4, <1>5, <1>6, StepKinds

\* A call that found its conditions true can publish in every later state: what
\* it found cannot become false, and nobody can lock the row it supersedes.
THEOREM CheckedMayPublishCorrect == Spec => []CheckedMayPublish
<1>1. PublicationInit => PriorIsOlder
  BY DEF PublicationInit, PriorIsOlder
<1>2. PublicationInv /\ LineageOrdered /\ PriorIsOlder /\ [Next]_vars => PriorIsOlder'
  BY StepKeepsPriorOlder
<1>3. ASSUME PublicationInv, PriorIsOlder, NEW p \in Sessions, pc[p] = "checked",
             NEW u \in Superseded(request[p])
      PROVE  ~ RowLocked(u) /\ row[u].sequence < row[request[p].version].sequence
  <2>1. status[u] = "published"
    BY <1>3, PriorIsPublished DEF PublicationInv, CallsInv
  <2>2. \A o \in Sessions : pc[o] = "checked" => status[request[o].version] = "approved"
    BY <1>3 DEF PublicationInv, CallsInv, CheckedInv
  <2> QED BY <1>3, <2>1, <2>2 DEF RowLocked, PriorIsOlder
<1>4. PublicationInv /\ PriorIsOlder => CheckedMayPublish
  BY <1>3 DEF CheckedMayPublish, MayPublish
<1> QED BY <1>1, <1>2, <1>4, PublicationInvariant, LineageOrderedPublished, PTL DEF Spec

\* As long as calls are under way one of them can go on, with any number of
\* sessions, streams and keys: the calls cannot all wait for one another.
THEOREM NoCallStuckCorrect == Spec => []NoCallStuck
<1>1. ASSUME PublicationInv, CheckedMayPublish, NEW p \in UnderWay
      PROVE  \E o \in UnderWay : Ready(o)
  <2> USE DEF UnderWay
  <2>1. \A o \in UnderWay : pc[o] \in {"stream", "key", "recheck", "row", "checked"}
    BY <1>1 DEF PublicationInv, PublicationTypeOK, Stages
  \* Behind the lock of its key a call waits for nobody.
  <2>2. ASSUME NEW o \in UnderWay, pc[o] \in HoldsKey PROVE Ready(o)
    <3>1. CASE pc[o] = "row"
      <4>1. ~ RowLocked(request[o].version)
        BY <1>1, <3>1 DEF RowLocked, PublicationInv, LocksExclude, HoldsStream
      <4> QED BY <3>1, <4>1 DEF Ready
    <3> QED BY <1>1, <2>2, <3>1 DEF Ready, HoldsKey, CheckedMayPublish
  \* If no call is there, the lock of every key is free.
  <2>3. CASE \A o \in UnderWay : pc[o] \notin HoldsKey
    <3>1. \A o \in Sessions : pc[o] \notin HoldsKey
      BY <2>3 DEF HoldsKey
    <3>2. ASSUME NEW o \in UnderWay, pc[o] = "key" PROVE Ready(o)
      BY <3>1, <3>2 DEF Ready
    \* If no call waits for one either, the lock of every stream is free.
    <3>3. CASE \A o \in UnderWay : pc[o] # "key"
      <4>1. \A o \in Sessions : pc[o] \notin HoldsStream
        BY <2>3, <3>3 DEF HoldsKey, HoldsStream
      <4>2. pc[p] = "stream"
        BY <2>1, <2>3, <3>3 DEF HoldsKey
      <4> QED BY <4>1, <4>2 DEF Ready
    <3> QED BY <3>2, <3>3
  <2> QED BY <2>2, <2>3
<1>2. PublicationInv /\ CheckedMayPublish => NoCallStuck
  BY <1>1 DEF NoCallStuck
<1> QED BY <1>2, PublicationInvariant, CheckedMayPublishCorrect, PTL
=============================================================================
