--------------------------- MODULE Services_proofs ---------------------------
(***************************************************************************)
(* Proofs about the students of NOV Talent (CandidateWorkspace), for every   *)
(* set of students and loads and every bound on versions: a page that is      *)
(* behind the table still knows of a row what it was at the version it holds. *)
(* Then the five components of one run side by side, from the theorems about   *)
(* each of them.                                                            *)
(***************************************************************************)
EXTENDS MCServices, AccountingVersion_proofs, NotificationQueue_proofs, DbfServices_proofs, TLAPS

-----------------------------------------------------------------------------
(* The students: the inductive invariant. *)

RecordVersions == 0..MaxVersion
RecordType == [version: RecordVersions, active: BOOLEAN]
ListType == UNION {[known -> RecordVersions] : known \in SUBSET Students}
LoadType == [at: {"idle", "reading", "answer", "aborted"}, rows: ListType \cup {None}]
Subject == Students \cup {New}
FormType == [open: BOOLEAN, student: Subject, seen: RecordVersions]
SaveType == [at: {"idle", "duplicates", "write", "dead"}, for: Subject, seen: RecordVersions,
             moved: BOOLEAN]
LinkType == [for: Subject, id: Students, version: RecordVersions, moved: BOOLEAN]
PendingType == [id: Students, seen: RecordVersions,
                kind: {"selection", "communication", "removal"}]
OwnType == [id: Students, version: RecordVersions]

PageTypes ==
    /\ record \in [Students -> RecordType]
    /\ shown \in ListType \cup {None}
    /\ load \in [Loads -> LoadType] /\ latest \in Loads \cup {None}
    /\ form \in FormType /\ save \in SaveType
    /\ link \in LinkType \cup {None}
    /\ pending \in PendingType \cup {None}
    /\ own \in OwnType \cup {None}

\* A list that shows the page's own last write, or does not show that student.
UpToDate(list, mine) == mine.id \in DOMAIN list => list[mine.id] >= mine.version

\* What the page was told of its writes has happened.
OwnHappened == own # None => own.version <= record[own.id].version
LinkHappened == link # None => link.version <= record[link.id].version

\* Only the latest load is shown, and it was read after the last write.
LoadsFresh ==
    \A l \in Loads :
        latest = l /\ load[l].at = "answer" /\ own # None => UpToDate(load[l].rows, own)

LoadsOK == OwnHappened /\ LinkHappened /\ LoadsFresh /\ ShowsOwnWrites

\* A form that was not moved is still that of the student being saved, or empty.
SaveOfForm ==
    save.at \in {"duplicates", "write"} /\ ~ save.moved => form.student \in {save.for, New}
LinkOfForm ==
    link # None /\ ~ link.moved => /\ form.student \in {link.id, New}
                                   /\ link.for \in {link.id, New}

WorkspaceInv == PageTypes /\ LoadsOK /\ SaveOfForm /\ LinkOfForm

-----------------------------------------------------------------------------
(* The students: what the steps have in common. *)

\* RecordVersions only grow.
Grows == \A c \in Students : record[c].version <= record'[c].version

LEMMA RecordsAre ==
    ASSUME PageTypes, NEW c \in Students
    PROVE  /\ record[c].version \in RecordVersions /\ record[c].version \in Nat
           /\ record[c].active \in BOOLEAN
  BY WorkspaceAssumption DEF PageTypes, RecordType, RecordVersions

LEMMA SameRecordsGrow ==
    ASSUME PageTypes, UNCHANGED record
    PROVE  Grows
  BY RecordsAre DEF Grows

\* A record that moves to its next version.
LEMMA RecordGrows ==
    ASSUME PageTypes, NEW c \in Students, NEW to \in RecordType,
           record' = [record EXCEPT ![c] = to], to.version = record[c].version + 1
    PROVE  /\ record' \in [Students -> RecordType] /\ Grows
           /\ record'[c].version = record[c].version + 1 /\ record'[c].version \in RecordVersions
           /\ record' # record
<1>1. record'[c] = to /\ \A d \in Students : d # c => record'[d] = record[d]
  BY DEF PageTypes
<1>2. record' \in [Students -> RecordType]
  BY DEF PageTypes
<1>3. Grows
  <2> SUFFICES ASSUME NEW d \in Students PROVE record[d].version <= record'[d].version
    BY DEF Grows
  <2> QED BY <1>1, RecordsAre
<1>4. record'[c].version # record[c].version
  BY <1>1, RecordsAre
<1> QED BY <1>1, <1>2, <1>3, <1>4 DEF RecordType

LEMMA BumpGrows ==
    ASSUME PageTypes, NEW c \in Students, Bump(c)
    PROVE  /\ record' \in [Students -> RecordType] /\ Grows
           /\ record'[c].version = record[c].version + 1 /\ record'[c].version \in RecordVersions
           /\ record' # record
<1> DEFINE to == [record[c] EXCEPT !.version = record[c].version + 1]
<1>1. record[c].version + 1 \in RecordVersions
  BY RecordsAre, WorkspaceAssumption DEF Bump, RecordVersions
<1>2. to \in RecordType /\ to.version = record[c].version + 1
  BY <1>1 DEF PageTypes, RecordType
<1>3. record' = [record EXCEPT ![c] = to]
  BY DEF Bump
<1> HIDE DEF to
<1> QED BY <1>2, <1>3, RecordGrows

\* What a link was written for has happened for good.
LEMMA LinkStands ==
    ASSUME WorkspaceInv, record' \in [Students -> RecordType], Grows, UNCHANGED link
    PROVE  LinkHappened'
<1> SUFFICES ASSUME link # None PROVE link.version <= record'[link.id].version
  BY DEF LinkHappened
<1>1. link.id \in Students /\ link.version \in Nat
  BY DEF WorkspaceInv, PageTypes, LinkType, RecordVersions
<1>2. link.version <= record[link.id].version /\ record[link.id].version <= record'[link.id].version
  BY <1>1 DEF WorkspaceInv, LoadsOK, LinkHappened, Grows
<1>3. record[link.id].version \in Nat /\ record'[link.id].version \in Nat
  BY <1>1 DEF WorkspaceInv, PageTypes, RecordType, RecordVersions
<1> QED BY <1>1, <1>2, <1>3

\* While the page is told of no write, no load is answered, and a link that is new
\* has happened, all stays up to date.
LEMMA LoadsStand ==
    ASSUME WorkspaceInv, PageTypes', Grows, UNCHANGED own,
           link' = link \/ LinkHappened', shown' \in {shown, None},
           \A l \in Loads : latest' = l /\ load'[l].at = "answer" =>
                               latest = l /\ load'[l] = load[l]
    PROVE  LoadsOK'
<1>1. OwnHappened'
  <2> SUFFICES ASSUME own # None PROVE own.version <= record'[own.id].version
    BY DEF OwnHappened
  <2>1. own.id \in Students /\ own.version \in Nat
    BY DEF WorkspaceInv, PageTypes, OwnType, RecordVersions
  <2>2. own.version <= record[own.id].version /\ record[own.id].version <= record'[own.id].version
    BY <2>1 DEF WorkspaceInv, LoadsOK, OwnHappened, Grows
  <2>3. record[own.id].version \in Nat /\ record'[own.id].version \in Nat
    BY <2>1 DEF WorkspaceInv, PageTypes, RecordType, RecordVersions
  <2> QED BY <2>1, <2>2, <2>3
<1>2. LinkHappened'
  BY LinkStands DEF PageTypes
<1>3. LoadsFresh'
  <2> SUFFICES ASSUME NEW l \in Loads, latest' = l, load'[l].at = "answer", own # None
               PROVE  UpToDate(load'[l].rows, own)
    BY DEF LoadsFresh
  <2>1. latest = l /\ load'[l] = load[l]
    OBVIOUS
  <2> QED BY <2>1 DEF WorkspaceInv, LoadsOK, LoadsFresh
<1>4. ShowsOwnWrites'
  BY DEF WorkspaceInv, LoadsOK, ShowsOwnWrites
<1> QED BY <1>1, <1>2, <1>3, <1>4 DEF LoadsOK

\* A load that starts is the latest and has read nothing.
LEMMA LoadStarts ==
    ASSUME PageTypes, NEW l \in Loads, StartsLoad(l)
    PROVE  /\ load' \in [Loads -> LoadType] /\ latest' \in Loads
           /\ \A k \in Loads : latest' = k => load'[k].at = "reading"
  BY DEF StartsLoad, PageTypes, LoadType

\* The page is told of a write that has happened: it shows nothing, and the load
\* that starts reads after it.
LEMMA ToldIsOK ==
    ASSUME WorkspaceInv, NEW c \in Students, NEW version \in RecordVersions, Told(c, version),
           version <= record'[c].version
    PROVE  /\ own' \in OwnType /\ shown' = None
           /\ load' \in [Loads -> LoadType] /\ latest' \in Loads
           /\ OwnHappened' /\ LoadsFresh' /\ ShowsOwnWrites'
<1>1. own' = [id |-> c, version |-> version] /\ shown' = None
  BY DEF Told
<1>2. PICK l \in Loads : StartsLoad(l)
  BY DEF Told, Reload
<1>3. /\ load' \in [Loads -> LoadType] /\ latest' \in Loads
      /\ \A k \in Loads : latest' = k => load'[k].at = "reading"
  BY <1>2, LoadStarts DEF WorkspaceInv
<1>4. own' \in OwnType /\ own'.id = c /\ own'.version = version
  BY <1>1 DEF OwnType
<1>5. OwnHappened'
  BY <1>4 DEF OwnHappened
<1>6. LoadsFresh'
  BY <1>3 DEF LoadsFresh
<1>7. ShowsOwnWrites'
  BY <1>1 DEF ShowsOwnWrites
<1> QED BY <1>1, <1>3, <1>4, <1>5, <1>6, <1>7

\* A form, a save and a link that do not change keep what they have in common.
LEMMA FormsStand ==
    ASSUME WorkspaceInv, UNCHANGED <<form, save, link>>
    PROVE  SaveOfForm' /\ LinkOfForm'
  BY DEF WorkspaceInv, SaveOfForm, LinkOfForm

-----------------------------------------------------------------------------
(* The students: loading, and the writes of other pages. *)

\* Another page writes: versions grow.
LEMMA ElsewhereKeepsInv ==
    ASSUME WorkspaceInv, NEW c \in Students, Elsewhere(c)
    PROVE  WorkspaceInv'
<1>1. UNCHANGED <<shown, load, latest, form, save, link, pending, own>>
  BY DEF Elsewhere
<1>2. PICK active \in BOOLEAN :
         record' = [record EXCEPT ![c] = [version |-> record[c].version + 1, active |-> active]]
  BY DEF Elsewhere
<1>3. [version |-> record[c].version + 1, active |-> active] \in RecordType
  BY RecordsAre, WorkspaceAssumption DEF WorkspaceInv, Elsewhere, RecordType, RecordVersions
<1>4. record' \in [Students -> RecordType] /\ Grows
  BY <1>2, <1>3, RecordGrows DEF WorkspaceInv
<1>5. PageTypes'
  BY <1>1, <1>4 DEF WorkspaceInv, PageTypes
<1>6. LoadsOK'
  BY <1>1, <1>4, <1>5, LoadsStand
<1> QED BY <1>1, <1>5, <1>6, FormsStand DEF WorkspaceInv

\* A load that starts.
LEMMA LoadKeepsInv ==
    ASSUME WorkspaceInv, Load \/ Summary
    PROVE  WorkspaceInv'
<1>1. /\ UNCHANGED <<record, shown, form, save, link, pending, own>>
      /\ \E l \in Loads : StartsLoad(l)
  BY DEF Load, Summary
<1>2. /\ load' \in [Loads -> LoadType] /\ latest' \in Loads
      /\ \A k \in Loads : latest' = k => load'[k].at = "reading"
  BY <1>1, LoadStarts DEF WorkspaceInv
<1>3. PageTypes'
  BY <1>1, <1>2 DEF WorkspaceInv, PageTypes
<1>4. LoadsOK'
  BY <1>1, <1>2, <1>3, LoadsStand, SameRecordsGrow DEF WorkspaceInv
<1> QED BY <1>1, <1>3, <1>4, FormsStand DEF WorkspaceInv

\* What a load reads now is as new as every write so far.
LEMMA ReadKeepsInv ==
    ASSUME WorkspaceInv, NEW l \in Loads, Read(l)
    PROVE  WorkspaceInv'
<1> DEFINE rows == [c \in Listed |-> record[c].version]
           to == [at |-> "answer", rows |-> rows]
<1>1. /\ UNCHANGED <<record, shown, latest, form, save, link, pending, own>>
      /\ load' = [load EXCEPT ![l] = to]
  BY DEF Read
<1>2. Listed \subseteq Students
  BY DEF Listed, ExistingStudents
<1>3. rows \in ListType
  <2>1. rows \in [Listed -> RecordVersions]
    BY <1>2, RecordsAre DEF WorkspaceInv
  <2> QED BY <1>2, <2>1 DEF ListType
<1>4. ASSUME own # None PROVE UpToDate(rows, own)
  BY <1>4 DEF UpToDate, WorkspaceInv, LoadsOK, OwnHappened
<1> HIDE DEF rows
<1>5. to \in LoadType /\ to.rows = rows
  BY <1>3 DEF LoadType
<1> HIDE DEF to
<1>6. load'[l] = to /\ \A k \in Loads : k # l => load'[k] = load[k]
  BY <1>1 DEF WorkspaceInv, PageTypes
<1>7. PageTypes'
  BY <1>1, <1>5 DEF WorkspaceInv, PageTypes
<1>8. LoadsFresh'
  BY <1>1, <1>4, <1>5, <1>6 DEF WorkspaceInv, LoadsOK, LoadsFresh
<1>9. OwnHappened' /\ LinkHappened' /\ ShowsOwnWrites'
  BY <1>1 DEF WorkspaceInv, LoadsOK, OwnHappened, LinkHappened, ShowsOwnWrites
<1> QED BY <1>1, <1>7, <1>8, <1>9, FormsStand DEF WorkspaceInv, LoadsOK

\* Only the latest load is shown.
LEMMA AnswerKeepsInv ==
    ASSUME WorkspaceInv, NEW l \in Loads, Answer(l)
    PROVE  WorkspaceInv'
<1> DEFINE to == [at |-> "idle", rows |-> None]
<1>1. /\ UNCHANGED <<record, form, save, link, pending, own>>
      /\ load' = [load EXCEPT ![l] = to]
      /\ latest' = (IF latest = l THEN None ELSE latest)
      /\ \/ Current(l) /\ shown' \in {load[l].rows, None}
         \/ UNCHANGED shown
  BY DEF Answer
<1>2. to \in LoadType /\ to.at = "idle"
  BY DEF LoadType
<1> HIDE DEF to
<1>3. load'[l] = to /\ \A k \in Loads : k # l => load'[k] = load[k]
  BY <1>1 DEF WorkspaceInv, PageTypes
<1>4. PageTypes'
  <2>1. load[l].rows \in ListType \cup {None}
    BY DEF WorkspaceInv, PageTypes, LoadType
  <2> QED BY <1>1, <1>2, <2>1 DEF WorkspaceInv, PageTypes
<1>5. LoadsFresh'
  BY <1>1, <1>2, <1>3, WorkspaceAssumption DEF WorkspaceInv, LoadsOK, LoadsFresh
<1>6. ShowsOwnWrites'
  <2>1. ASSUME shown' = load[l].rows, Current(l), own # None
        PROVE  UpToDate(shown', own)
    BY <2>1 DEF WorkspaceInv, LoadsOK, LoadsFresh, Current
  <2> QED BY <1>1, <2>1 DEF WorkspaceInv, LoadsOK, ShowsOwnWrites, UpToDate
<1>7. OwnHappened' /\ LinkHappened'
  BY <1>1 DEF WorkspaceInv, LoadsOK, OwnHappened, LinkHappened
<1> QED BY <1>1, <1>4, <1>5, <1>6, <1>7, FormsStand DEF WorkspaceInv, LoadsOK

LEMMA LogoutKeepsInv ==
    ASSUME WorkspaceInv, Logout
    PROVE  WorkspaceInv'
<1> DEFINE to == [at |-> "aborted", rows |-> None]
<1>1. /\ UNCHANGED <<record, latest, form, save, link, pending, own>> /\ shown' = None
      /\ load' = (IF latest = None THEN load ELSE [load EXCEPT ![latest] = to])
  BY DEF Logout
<1>2. to \in LoadType /\ to.at = "aborted"
  BY DEF LoadType
<1> HIDE DEF to
<1>3. PageTypes'
  BY <1>1, <1>2 DEF WorkspaceInv, PageTypes
<1>4. \A l \in Loads : latest = l => load'[l].at = "aborted"
  BY <1>1, <1>2, WorkspaceAssumption DEF WorkspaceInv, PageTypes
<1>5. LoadsOK'
  BY <1>1, <1>3, <1>4, LoadsStand, SameRecordsGrow DEF WorkspaceInv
<1> QED BY <1>1, <1>3, <1>5, FormsStand DEF WorkspaceInv

-----------------------------------------------------------------------------
(* The students: the form. *)

\* The steps that only touch what the form, the save and a removal hold: the loads
\* stay as they are.
LEMMA PageStands ==
    ASSUME WorkspaceInv, UNCHANGED <<record, shown, load, latest, own>>,
           form' \in FormType, save' \in SaveType, link' \in LinkType \cup {None},
           pending' \in PendingType \cup {None},
           link' = link \/ LinkHappened'
    PROVE  PageTypes' /\ LoadsOK'
<1>1. PageTypes'
  BY DEF WorkspaceInv, PageTypes
<1> QED BY <1>1, LoadsStand, SameRecordsGrow DEF WorkspaceInv

\* Whoever opens another form moves what is under way.
LEMMA OpenKeepsInv ==
    ASSUME WorkspaceInv, NEW c \in Subject, Open(c)
    PROVE  WorkspaceInv'
<1>1. /\ UNCHANGED <<record, shown, load, latest, pending, own>>
      /\ c # New => shown # None /\ c \in DOMAIN shown
      /\ form' = [open |-> TRUE, student |-> c, seen |-> IF c = New THEN 0 ELSE shown[c]]
      /\ save' = [save EXCEPT !.moved = save.at \in {"duplicates", "write"}]
      /\ link' = IF link = None THEN None ELSE [link EXCEPT !.moved = TRUE]
  BY DEF Open
<1>2. form' \in FormType
  <2>1. 0 \in RecordVersions
    BY WorkspaceAssumption DEF RecordVersions
  <2>2. c # New => shown[c] \in RecordVersions
    BY <1>1 DEF WorkspaceInv, PageTypes, ListType
  <2> QED BY <1>1, <2>1, <2>2 DEF FormType
<1>3. save' \in SaveType /\ save'.at = save.at
      /\ (save.at \in {"duplicates", "write"} => save'.moved)
  <2>1. PICK moved \in BOOLEAN : moved <=> save.at \in {"duplicates", "write"}
    OBVIOUS
  <2>2. save' = [save EXCEPT !.moved = moved]
    BY <1>1, <2>1
  <2> QED BY <2>1, <2>2 DEF WorkspaceInv, PageTypes, SaveType
<1>4. CASE link = None
  <2>1. link' = None
    BY <1>1, <1>4
  <2>2. PageTypes' /\ LoadsOK'
    BY <1>1, <1>2, <1>3, <1>4, <2>1, PageStands DEF WorkspaceInv, PageTypes
  <2> QED BY <1>3, <2>1, <2>2 DEF WorkspaceInv, SaveOfForm, LinkOfForm
<1>5. CASE link # None
  <2>1. /\ link' \in LinkType /\ link'.moved
        /\ link'.id = link.id /\ link'.version = link.version
    BY <1>1, <1>5 DEF WorkspaceInv, PageTypes, LinkType
  <2>2. LinkHappened'
    BY <1>1, <1>5, <2>1 DEF WorkspaceInv, LoadsOK, LinkHappened
  <2>3. PageTypes' /\ LoadsOK'
    BY <1>1, <1>2, <1>3, <2>1, <2>2, PageStands DEF WorkspaceInv, PageTypes
  <2> QED BY <1>3, <2>1, <2>3 DEF WorkspaceInv, SaveOfForm, LinkOfForm
<1> QED BY <1>4, <1>5

LEMMA NoSaveIsSave == NoSave \in SaveType /\ NoSave.at = "idle"
  BY WorkspaceAssumption DEF NoSave, SaveType, Subject, RecordVersions

LEMMA NoFormIsForm == NoForm \in FormType /\ NoForm.student = New
  BY WorkspaceAssumption DEF NoForm, FormType, Subject, RecordVersions

\* Closing a form, submitting it, checking for duplicates, and losing it.
LEMMA FormKeepsInv ==
    ASSUME WorkspaceInv, Close \/ Submit \/ CheckDuplicates \/ LoseForm
    PROVE  WorkspaceInv'
<1>1. UNCHANGED <<record, shown, load, latest, link, pending, own>>
  BY DEF Close, Submit, CheckDuplicates, LoseForm
<1>2. form' \in FormType /\ form'.student = form.student
  BY DEF Close, Submit, CheckDuplicates, LoseForm, WorkspaceInv, PageTypes, FormType
<1>3. save' \in SaveType /\ SaveOfForm'
  <2>1. CASE Close
    BY <1>2, <2>1 DEF Close, WorkspaceInv, PageTypes, SaveOfForm
  <2>2. CASE Submit
    BY <2>2 DEF Submit, WorkspaceInv, PageTypes, FormType, SaveType, SaveOfForm
  <2>3. CASE CheckDuplicates
    <3>1. CASE save' = NoSave
      BY <3>1, NoSaveIsSave DEF SaveOfForm
    <3>2. CASE save' = [save EXCEPT !.at = "write"]
      <4>1. save' \in SaveType /\ save'.for = save.for /\ save'.moved = save.moved
        BY <3>2 DEF WorkspaceInv, PageTypes, SaveType
      <4> QED BY <1>2, <2>3, <4>1 DEF CheckDuplicates, WorkspaceInv, SaveOfForm
    <3> QED BY <2>3, <3>1, <3>2 DEF CheckDuplicates
  <2>4. CASE LoseForm
    <3>1. save' \in SaveType /\ save'.at = "dead"
      BY <2>4, NoSaveIsSave DEF LoseForm, SaveType
    <3> QED BY <3>1 DEF SaveOfForm
  <2> QED BY <2>1, <2>2, <2>3, <2>4
<1>4. LinkOfForm'
  BY <1>1, <1>2 DEF WorkspaceInv, LinkOfForm
<1>5. PageTypes' /\ LoadsOK'
  BY <1>1, <1>2, <1>3, PageStands DEF WorkspaceInv, PageTypes
<1> QED BY <1>3, <1>4, <1>5 DEF WorkspaceInv

\* A removal or an activity waits, or is given up.
LEMMA AskKeepsInv ==
    ASSUME WorkspaceInv,
           \/ AskRemoval \/ Refuse
           \/ \E c \in Students, kind \in {"selection", "communication"} : Prepare(c, kind)
    PROVE  WorkspaceInv'
<1>1. /\ UNCHANGED <<record, shown, load, latest, form, save, link, own>>
      /\ pending' \in PendingType \cup {None}
  <2>1. CASE AskRemoval
    BY <2>1 DEF AskRemoval, Ask, WorkspaceInv, PageTypes, FormType, Subject, PendingType
  <2>2. CASE Refuse
    BY <2>2 DEF Refuse
  <2>3. ASSUME NEW c \in Students, NEW kind \in {"selection", "communication"}, Prepare(c, kind)
        PROVE  /\ UNCHANGED <<record, shown, load, latest, form, save, link, own>>
               /\ pending' \in PendingType \cup {None}
    <3>1. shown[c] \in RecordVersions
      BY <2>3 DEF Prepare, WorkspaceInv, PageTypes, ListType
    <3> QED BY <2>3, <3>1 DEF Prepare, Ask, PendingType
  <2> QED BY <2>1, <2>2, <2>3
<1>2. PageTypes' /\ LoadsOK'
  BY <1>1, PageStands DEF WorkspaceInv, PageTypes
<1> QED BY <1>1, <1>2, FormsStand DEF WorkspaceInv

\* A write that is answered leaves the links of the student it wrote, if the form was
\* not moved.
LEMMA WrittenKeepsInv ==
    ASSUME WorkspaceInv, NEW c \in Students, Bump(c), Written(c),
           UNCHANGED <<shown, load, latest, form, pending, own>>,
           ~ save.moved => form.student \in {c, New} /\ save.for \in {c, New}
    PROVE  WorkspaceInv'
<1>1. /\ record' \in [Students -> RecordType] /\ Grows
      /\ record'[c].version \in RecordVersions
  BY BumpGrows DEF WorkspaceInv
<1>2. save' \in SaveType /\ SaveOfForm'
  BY NoSaveIsSave DEF Written, SaveOfForm
<1>3. PICK new \in LinkType : /\ new.for = save.for /\ new.id = c /\ new.moved = save.moved
                              /\ new.version = record'[c].version
                              /\ link' \in {new, None}
  <2> DEFINE made == [for |-> save.for, id |-> c, version |-> record'[c].version,
                      moved |-> save.moved]
  <2>1. save.for \in Subject /\ save.moved \in BOOLEAN
    BY DEF WorkspaceInv, PageTypes, SaveType
  <2>2. made \in LinkType
    BY <1>1, <2>1 DEF LinkType
  <2>3. link' \in {made, None}
    BY DEF Written
  <2>4. /\ made.for = save.for /\ made.id = c /\ made.moved = save.moved
        /\ made.version = record'[c].version
    OBVIOUS
  <2> HIDE DEF made
  <2> QED BY <2>2, <2>3, <2>4
<1>4. LinkHappened'
  BY <1>1, <1>3 DEF LinkHappened, RecordVersions
<1>5. LinkOfForm'
  BY <1>3 DEF LinkOfForm
<1>6. PageTypes'
  BY <1>1, <1>2, <1>3 DEF WorkspaceInv, PageTypes
<1>7. LoadsOK'
  BY <1>1, <1>4, <1>6, LoadsStand
<1> QED BY <1>2, <1>5, <1>6, <1>7 DEF WorkspaceInv

\* The update writes the student the form has now, which is the one being saved
\* unless the form was moved.
LEMMA UpdateKeepsInv ==
    ASSUME WorkspaceInv, Update
    PROVE  WorkspaceInv'
<1>1. /\ save.at = "write" /\ form.student # New
      /\ UNCHANGED <<shown, load, latest, form, pending, own>>
      /\ \/ VersionIs(form.student, save.seen) /\ Bump(form.student) /\ Written(form.student)
         \/ save' = NoSave /\ UNCHANGED <<record, link>>
  BY DEF Update
<1>2. PICK c \in Students : c = form.student
  BY <1>1 DEF WorkspaceInv, PageTypes, FormType, Subject
<1>3. CASE Bump(c) /\ Written(c)
  BY <1>1, <1>2, <1>3, WrittenKeepsInv DEF WorkspaceInv, SaveOfForm
<1>4. CASE save' = NoSave /\ UNCHANGED <<record, link>>
  <2>1. PageTypes' /\ LoadsOK'
    BY <1>1, <1>4, NoSaveIsSave, PageStands DEF WorkspaceInv, PageTypes
  <2>2. SaveOfForm' /\ LinkOfForm'
    BY <1>1, <1>4, NoSaveIsSave DEF WorkspaceInv, SaveOfForm, LinkOfForm
  <2> QED BY <2>1, <2>2 DEF WorkspaceInv
<1> QED BY <1>1, <1>2, <1>3, <1>4

LEMMA CreateKeepsInv ==
    ASSUME WorkspaceInv, NEW c \in Students, Create(c)
    PROVE  WorkspaceInv'
  BY WrittenKeepsInv DEF Create, WorkspaceInv, SaveOfForm

\* A write the page is told of: every part of the page that shows students or saves
\* one is left as it was, or empty.
LEMMA ToldKeepsInv ==
    ASSUME WorkspaceInv, NEW c \in Students, NEW version \in RecordVersions, Told(c, version),
           record' \in [Students -> RecordType], Grows, version <= record'[c].version,
           form' \in {form, NoForm}, pending' \in {pending, None}, UNCHANGED save,
           link' \in {link, None}
    PROVE  WorkspaceInv'
<1>1. /\ own' \in OwnType /\ shown' = None
      /\ load' \in [Loads -> LoadType] /\ latest' \in Loads
      /\ OwnHappened' /\ LoadsFresh' /\ ShowsOwnWrites'
  BY ToldIsOK
<1>2. LinkHappened'
  BY LinkStands DEF LinkHappened
<1>3. PageTypes'
  BY <1>1, NoFormIsForm DEF WorkspaceInv, PageTypes
<1>4. form'.student \in {form.student, New}
  BY NoFormIsForm
<1>5. SaveOfForm' /\ LinkOfForm'
  BY <1>4 DEF WorkspaceInv, SaveOfForm, LinkOfForm
<1> QED BY <1>1, <1>2, <1>3, <1>5 DEF WorkspaceInv, LoadsOK

\* The student the links are written to.
Linked == IF form.student # New THEN form.student ELSE link.id

LEMMA LinkIs ==
    ASSUME WorkspaceInv, Link
    PROVE  /\ link \in LinkType /\ link' = None /\ UNCHANGED <<save, pending>>
           /\ \/ /\ Linked \in Students /\ VersionIs(Linked, link.version) /\ Bump(Linked)
                 /\ Told(Linked, record'[Linked].version) /\ form' = NoForm
              \/ Told(link.id, link.version) /\ UNCHANGED <<record, form>>
<1>1. link # None /\ link' = None /\ UNCHANGED <<save, pending>>
  BY DEF Link
<1>2. \/ /\ VersionIs(Linked, link.version) /\ Bump(Linked)
         /\ Told(Linked, record'[Linked].version) /\ form' = NoForm
      \/ Told(link.id, link.version) /\ UNCHANGED <<record, form>>
  BY DEF Link, Linked, MayLink
<1>3. VersionIs(Linked, link.version) => Linked \in Students
  BY DEF VersionIs, Listed, ExistingStudents
<1> QED BY <1>1, <1>2, <1>3 DEF WorkspaceInv, PageTypes

LEMMA LinkKeepsInv ==
    ASSUME WorkspaceInv, Link
    PROVE  WorkspaceInv'
<1>1. CASE Told(link.id, link.version) /\ UNCHANGED <<record, form>>
  <2>1. /\ link.id \in Students /\ link.version \in RecordVersions
        /\ link.version <= record[link.id].version
    BY LinkIs DEF LinkType, WorkspaceInv, PageTypes, LoadsOK, LinkHappened, Link
  <2>2. record' \in [Students -> RecordType] /\ Grows
    BY <1>1, SameRecordsGrow DEF WorkspaceInv, PageTypes
  <2> QED BY <1>1, <2>1, <2>2, LinkIs, ToldKeepsInv
<1>2. ASSUME Linked \in Students, Bump(Linked), Told(Linked, record'[Linked].version),
             form' = NoForm
      PROVE  WorkspaceInv'
  <2>1. PICK c \in Students : c = Linked
    BY <1>2
  <2>2. /\ record' \in [Students -> RecordType] /\ Grows /\ record'[c].version \in RecordVersions
    BY <1>2, <2>1, BumpGrows DEF WorkspaceInv
  <2>3. record'[c].version <= record'[c].version
    BY <2>2 DEF RecordVersions
  <2> QED BY <1>2, <2>1, <2>2, <2>3, LinkIs, ToldKeepsInv
<1> QED BY <1>1, <1>2, LinkIs

\* A removal or an activity, written for the version it was asked with.
LEMMA ConfirmKeepsInv ==
    ASSUME WorkspaceInv, Confirm
    PROVE  WorkspaceInv'
<1>1. PICK c \in Students : c = pending.id
  BY DEF Confirm, WorkspaceInv, PageTypes, PendingType
<1>2. /\ Told(c, record'[c].version) /\ pending' = None /\ UNCHANGED <<save, link>>
      /\ form' \in {form, NoForm}
  BY <1>1 DEF Confirm
<1>3. /\ record' \in [Students -> RecordType] /\ Grows /\ record'[c].version \in RecordVersions
  <2>1. CASE UNCHANGED record
    BY <2>1, RecordsAre, SameRecordsGrow DEF WorkspaceInv, PageTypes
  <2>2. CASE Bump(c)
    BY <2>2, BumpGrows DEF WorkspaceInv
  <2>3. CASE /\ record[c].version < MaxVersion
             /\ record' = [record EXCEPT ![c] = [version |-> record[c].version + 1,
                                                 active |-> FALSE]]
    <3>1. [version |-> record[c].version + 1, active |-> FALSE] \in RecordType
      BY <2>3, RecordsAre, WorkspaceAssumption DEF WorkspaceInv, RecordType, RecordVersions
    <3> QED BY <2>3, <3>1, RecordGrows DEF WorkspaceInv
  <2> QED BY <1>1, <2>1, <2>2, <2>3 DEF Confirm
<1>4. record'[c].version <= record'[c].version
  BY <1>3 DEF RecordVersions
<1> QED BY <1>2, <1>3, <1>4, ToldKeepsInv

LEMMA WorkspaceStepKeepsInv == WorkspaceInv /\ [WorkspaceNext]_workspaceVars => WorkspaceInv'
<1> SUFFICES ASSUME WorkspaceInv, [WorkspaceNext]_workspaceVars PROVE WorkspaceInv'
  OBVIOUS
<1>1. CASE UNCHANGED workspaceVars
  <2>1. UNCHANGED <<record, shown, load, latest, form, save, link, pending, own>>
    BY <1>1 DEF workspaceVars
  <2>2. PageTypes' /\ LoadsOK'
    BY <2>1, PageStands DEF WorkspaceInv, PageTypes
  <2> QED BY <2>1, <2>2, FormsStand DEF WorkspaceInv
<1>2. ASSUME NEW c \in Students \cup {New}, Open(c) PROVE WorkspaceInv'
  BY <1>2, OpenKeepsInv DEF Subject
<1> QED BY <1>1, <1>2, ElsewhereKeepsInv, CreateKeepsInv, ReadKeepsInv, AnswerKeepsInv,
           LoadKeepsInv, LogoutKeepsInv, FormKeepsInv, UpdateKeepsInv, LinkKeepsInv,
           AskKeepsInv, ConfirmKeepsInv DEF WorkspaceNext

-----------------------------------------------------------------------------
(* The students: the theorems. *)

\* The inductive invariant holds however loads overlap, forms are moved under a save
\* and other pages write.
THEOREM WorkspaceInvariant == WorkspaceSpec => []WorkspaceInv
<1>1. WorkspaceInit => WorkspaceInv
  <2> SUFFICES ASSUME WorkspaceInit PROVE WorkspaceInv
    OBVIOUS
  <2>1. record \in [Students -> RecordType]
    <3>1. 0 \in RecordVersions /\ 1 \in RecordVersions
      BY WorkspaceAssumption DEF RecordVersions
    <3>2. [version: {0, 1}, active: {TRUE}] \subseteq RecordType
      BY <3>1 DEF RecordType
    <3> QED BY <3>2 DEF WorkspaceInit
  <2>2. load \in [Loads -> LoadType]
    BY DEF WorkspaceInit, LoadType
  <2>3. PageTypes
    BY <2>1, <2>2, NoSaveIsSave, NoFormIsForm DEF WorkspaceInit, PageTypes
  <2>4. LoadsOK /\ SaveOfForm /\ LinkOfForm
    BY NoSaveIsSave DEF WorkspaceInit, LoadsOK, OwnHappened, LinkHappened, LoadsFresh,
                        ShowsOwnWrites, SaveOfForm, LinkOfForm
  <2> QED BY <2>3, <2>4 DEF WorkspaceInv
<1>2. WorkspaceInv /\ [WorkspaceNext]_workspaceVars => WorkspaceInv'
  BY WorkspaceStepKeepsInv
<1> QED BY <1>1, <1>2, PTL DEF WorkspaceSpec

\* Every reachable state has the declared types.
THEOREM WorkspaceTypeCorrect == WorkspaceSpec => []WorkspaceTypeOK
<1>1. WorkspaceInv => WorkspaceTypeOK
  BY DEF WorkspaceInv, PageTypes, WorkspaceTypeOK, RecordType, RecordVersions, FormType, Subject,
         SaveType, LinkType, PendingType
<1> QED BY <1>1, WorkspaceInvariant, PTL

\* The page never shows a student older than the last write it made and was told of.
THEOREM ShowsOwnWritesCorrect == WorkspaceSpec => []ShowsOwnWrites
<1>1. WorkspaceInv => ShowsOwnWrites
  BY DEF WorkspaceInv, LoadsOK
<1> QED BY <1>1, WorkspaceInvariant, PTL

\* The step SavedAsAWhole is about: links that are written and reported.
LinksStand ==
    (link # None /\ link' = None /\ record' # record /\ ~ link.moved) =>
        /\ link.for \in {link.id, New}
        /\ record[link.id].version = link.version
        /\ record'[link.id].version = link.version + 1

LEMMA StepLinksStand ==
    ASSUME WorkspaceInv, [WorkspaceNext]_workspaceVars
    PROVE  LinksStand
<1> SUFFICES ASSUME link # None, link' = None, record' # record, ~ link.moved
             PROVE  /\ link.for \in {link.id, New}
                    /\ record[link.id].version = link.version
                    /\ record'[link.id].version = link.version + 1
  BY DEF LinksStand
<1>1. Link
  BY DEF WorkspaceNext, workspaceVars, Elsewhere, Create, Prepare, Ask, Read, Answer, Open, Load,
         Summary, Logout, Close, Submit, CheckDuplicates, LoseForm, Update, AskRemoval, Refuse,
         Confirm
<1>2. link \in LinkType /\ form.student \in {link.id, New} /\ link.for \in {link.id, New}
  BY <1>1, LinkIs DEF WorkspaceInv, LinkOfForm
<1>3. Linked = link.id
  BY <1>2 DEF Linked
<1>4. Linked \in Students /\ VersionIs(Linked, link.version) /\ Bump(Linked)
  BY <1>1, LinkIs
<1>5. record'[Linked].version = record[Linked].version + 1
  BY <1>4, BumpGrows DEF WorkspaceInv
<1> QED BY <1>2, <1>3, <1>4, <1>5 DEF VersionIs

\* A save that reports its links saved has saved them for the student it wrote, and
\* nobody wrote in between, unless the form was moved under it.
THEOREM SavedAsAWholeCorrect == WorkspaceSpec => SavedAsAWhole
<1>1. WorkspaceInv /\ [WorkspaceNext]_workspaceVars => [LinksStand]_workspaceVars
  BY StepLinksStand
<1> QED BY <1>1, WorkspaceInvariant, PTL DEF WorkspaceSpec, SavedAsAWhole, LinksStand

-----------------------------------------------------------------------------
(* The services side by side. *)

\* The run takes the students in two parts, each with fewer steps than the page; every
\* behaviour of it is one of each component, with the others at rest: what is proved of
\* them holds of the run.
LEMMA RunsEveryService ==
    ServicesSpec => VersionSpec /\ QueueSpec /\ HandoffSpec /\ DbfSpec /\ WorkspaceSpec
<1> DEFINE all == <<part, versionVars, queueVars, handoffVars, dbfVars, workspaceVars>>
<1>1. ServicesInit => VersionInit /\ QueueInit /\ HandoffInit /\ DbfInit /\ WorkspaceInit
  BY DEF ServicesInit
<1>2. [ServicesNext]_all => [VersionNext]_versionVars
  BY DEF ServicesNext
<1>3. [ServicesNext]_all => [QueueNext]_queueVars
  BY DEF ServicesNext
<1>4. [ServicesNext]_all => [HandoffNext]_handoffVars
  BY DEF ServicesNext
<1>5. [ServicesNext]_all => [DbfNext]_dbfVars
  BY DEF ServicesNext
<1>6. [ServicesNext]_all => [WorkspaceNext]_workspaceVars
  BY DEF ServicesNext, Forms, OverlappingLoads
<1> HIDE DEF all
<1>7. ServicesSpec => ServicesInit /\ [][ServicesNext]_all
  BY DEF ServicesSpec, all
<1> QED BY <1>1, <1>2, <1>3, <1>4, <1>5, <1>6, <1>7, PTL
        DEF VersionSpec, QueueSpec, HandoffSpec, DbfSpec, WorkspaceSpec

\* All five keep their types, side by side.
THEOREM ServicesTypeCorrect == ServicesSpec => []ServicesTypeOK
<1>1. VersionTypeOK /\ QueueTypeOK /\ HandoffTypeOK /\ DbfTypeOK /\ WorkspaceTypeOK
        => ServicesTypeOK
  BY DEF ServicesTypeOK
<1> QED BY <1>1, RunsEveryService, VersionTypeCorrect, QueueTypeCorrect, HandoffTypeCorrect,
           DbfTypeCorrect, WorkspaceTypeCorrect, PTL
=============================================================================
