--------------------------- MODULE CandidateWorkspace ---------------------------
(***************************************************************************)
(* One page of the recruiting workspace: it loads the students, edits one    *)
(* in a form, removes them, records activities, and reloads after every      *)
(* write.  A save is three requests, the form is a global of the page that   *)
(* they read again after each answer, and loads may overlap.  The API checks *)
(* the version of every write in one transaction; other pages write in       *)
(* between.                                                                  *)
(***************************************************************************)
EXTENDS Naturals, Functions, Absent

CONSTANTS
    Students,    \* records, those not yet created included
    Loads,       \* loads that may be under way
    MaxVersion,  \* bound on the version of a record
    New         \* the form without a student

\* The bound leaves room for a record that exists; no load is not a load.
ASSUME WorkspaceAssumption == MaxVersion \in Nat \ {0} /\ None \notin Loads

VARIABLES
    record,   \* the table of candidates: version 0 before it is created
    shown,    \* the versions of the students the page shows, or None
    load,     \* reads under way
    latest,   \* the load started last, while it is under way
    form,     \* the student of the form and the version it was opened with
    save,     \* the save under way, whose button is disabled
    link,     \* the links that follow it, when the button works again
    pending,  \* a removal or an activity that waits to be confirmed
    own       \* the page's own last write: the student and the version

workspaceVars == <<record, shown, load, latest, form, save, link, pending, own>>
loadVars == <<load, latest>>

NoForm == [open |-> FALSE, student |-> New, seen |-> 0]
NoSave == [at |-> "idle", for |-> New, seen |-> 0, moved |-> FALSE]

WorkspaceInit ==
    /\ record \in [Students -> [version: {0, 1}, active: {TRUE}]]
    /\ shown = None
    /\ load = [l \in Loads |-> [at |-> "idle", rows |-> None]]
    /\ latest = None
    /\ form = NoForm
    /\ save = NoSave
    /\ link = None
    /\ pending = None
    /\ own = None

-----------------------------------------------------------------------------
(* The API: one transaction each. *)

ExistingStudents == {c \in Students : record[c].version > 0}
Listed == {c \in ExistingStudents : record[c].active}

\* The version the request was made for is that of an active student.
VersionIs(c, version) == c \in Listed /\ record[c].version = version

\* Mutant of MayLink: any version will do.
MayLinkAny(c, version) == c \in Listed

MayLink(c, version) == VersionIs(c, version)

Bump(c) ==
    /\ record[c].version < MaxVersion
    /\ record' = [record EXCEPT ![c].version = @ + 1]

\* Another page updates, removes or restores a student, or adds one.
Elsewhere(c) ==
    /\ record[c].version < MaxVersion
    /\ \E active \in BOOLEAN :
          /\ record[c].version = 0 => active
          /\ record' = [record EXCEPT ![c] = [version |-> @.version + 1, active |-> active]]
    /\ UNCHANGED <<shown, load, latest, form, save, link, pending, own>>

-----------------------------------------------------------------------------
(* Loading. *)

\* A load that starts makes every other one stale.
StartsLoad(l) ==
    /\ load[l].at = "idle"
    /\ load' = [load EXCEPT ![l].at = "reading"]
    /\ latest' = l

\* The call that follows every write.
Reload == \E l \in Loads : StartsLoad(l)

\* Any other call: it joins the load under way, or shows what is there.
Load ==
    /\ latest = None /\ shown = None
    /\ \E l \in Loads : StartsLoad(l)
    /\ UNCHANGED <<record, shown, form, save, link, pending, own>>

\* The staging summary button forces a load.
Summary ==
    /\ \E l \in Loads : StartsLoad(l)
    /\ UNCHANGED <<record, shown, form, save, link, pending, own>>

Read(l) ==
    /\ load[l].at = "reading"
    /\ load' = [load EXCEPT ![l] = [at |-> "answer",
                                    rows |-> [c \in Listed |-> record[c].version]]]
    /\ UNCHANGED <<record, shown, latest, form, save, link, pending, own>>

\* Mutant of Current: the answer of any load is shown.
CurrentAlways(l) == load[l].at = "answer"

\* A load that another one followed, or that was aborted, is not shown.
Current(l) == load[l].at = "answer" /\ latest = l

\* A load that failed leaves what the page shows; one that cannot be drawn
\* clears it.
Answer(l) ==
    /\ load[l].at # "idle"
    /\ \/ Current(l) /\ shown' \in {load[l].rows, None}
       \/ UNCHANGED shown
    /\ load' = [load EXCEPT ![l] = [at |-> "idle", rows |-> None]]
    /\ latest' = IF latest = l THEN None ELSE latest
    /\ UNCHANGED <<record, form, save, link, pending, own>>

\* The load under way is aborted, but other calls still join it; the page forgets
\* its students.
Logout ==
    /\ load' = IF latest = None THEN load ELSE [load EXCEPT ![latest] = [at |-> "aborted", rows |-> None]]
    /\ shown' = None
    /\ UNCHANGED <<record, latest, form, save, link, pending, own>>

-----------------------------------------------------------------------------
(* The form. *)

\* The form opens for a student of the page, or for a new one; while a save is
\* under way the form it started from may be closed and another opened.
Open(c) ==
    /\ ~ form.open
    /\ c # New => shown # None /\ c \in DOMAIN shown
    /\ form' = [open |-> TRUE, student |-> c, seen |-> IF c = New THEN 0 ELSE shown[c]]
    /\ save' = [save EXCEPT !.moved = save.at \in {"duplicates", "write"}]
    /\ link' = IF link = None THEN None ELSE [link EXCEPT !.moved = TRUE]
    /\ UNCHANGED <<record, shown, load, latest, pending, own>>

\* Closing keeps the student.
Close ==
    /\ form.open
    /\ form' = [form EXCEPT !.open = FALSE]
    /\ UNCHANGED <<record, shown, load, latest, save, link, pending, own>>

\* The payload is read from the form once, before the first request.
Submit ==
    /\ form.open /\ save.at = "idle"
    /\ save' = [at |-> "duplicates", for |-> form.student, seen |-> form.seen, moved |-> FALSE]
    /\ UNCHANGED <<record, shown, load, latest, form, link, pending, own>>

\* Duplicates are confirmed, or the check fails or is not confirmed.
CheckDuplicates ==
    /\ save.at = "duplicates"
    /\ save' \in {[save EXCEPT !.at = "write"], NoSave}
    /\ UNCHANGED <<record, shown, load, latest, form, link, pending, own>>

\* A form moved to no student fails the handler, whose button stays disabled.
LoseForm ==
    /\ save.at = "write" /\ save.for # New /\ form.student = New
    /\ save' = [NoSave EXCEPT !.at = "dead"]
    /\ UNCHANGED <<record, shown, load, latest, form, link, pending, own>>

\* The write of student c is answered, or its answer is lost.
Written(c) ==
    /\ save' = NoSave
    /\ link' \in {[for |-> save.for, id |-> c, version |-> record'[c].version,
                   moved |-> save.moved], None}

\* The update goes to the student the form has now.
Update ==
    LET c == form.student
    IN  /\ save.at = "write" /\ save.for # New /\ c # New /\ link = None
        /\ \/ VersionIs(c, save.seen) /\ Bump(c) /\ Written(c)
           \/ ~ VersionIs(c, save.seen) /\ save' = NoSave /\ UNCHANGED <<record, link>>
        /\ UNCHANGED <<shown, load, latest, form, pending, own>>

Create(c) ==
    /\ save.at = "write" /\ save.for = New /\ link = None
    /\ record[c].version = 0
    /\ Bump(c)
    /\ Written(c)
    /\ UNCHANGED <<shown, load, latest, form, pending, own>>

\* The page was told of its write: it forgets its students and reloads.
Told(c, version) ==
    /\ own' = [id |-> c, version |-> version]
    /\ shown' = None
    /\ Reload

\* The school and the fair are linked to the student the form has now, or to the
\* one just created, at the version just written.
Link ==
    LET c == IF form.student # New THEN form.student ELSE link.id
    IN  /\ link # None
        /\ \/ MayLink(c, link.version) /\ Bump(c) /\ Told(c, record'[c].version) /\ form' = NoForm
           \/ ~ MayLink(c, link.version) /\ Told(link.id, link.version) /\ UNCHANGED <<record, form>>
        /\ link' = None
        /\ UNCHANGED <<save, pending>>

-----------------------------------------------------------------------------
(* Removal and activities: a write that was made for a version, then a reload.  *)
(* One of them waits at a time.                                              *)

Ask(c, seen, kind) ==
    /\ pending = None
    /\ pending' = [id |-> c, seen |-> seen, kind |-> kind]
    /\ UNCHANGED <<record, shown, load, latest, form, save, link, own>>

AskRemoval == form.open /\ form.student # New /\ Ask(form.student, form.seen, "removal")

\* A selection step is recorded in the student, a communication beside it.
Prepare(c, kind) == shown # None /\ c \in DOMAIN shown /\ Ask(c, shown[c], kind)

\* The write is refused or fails.
Refuse ==
    /\ pending # None
    /\ pending' = None
    /\ UNCHANGED <<record, shown, load, latest, form, save, link, own>>

Confirm ==
    LET c == pending.id
    IN  /\ pending # None
        /\ VersionIs(c, pending.seen)
        /\ \/ pending.kind = "communication" /\ UNCHANGED <<record, form>>
           \/ pending.kind = "selection" /\ Bump(c) /\ UNCHANGED form
           \/ /\ pending.kind = "removal" /\ record[c].version < MaxVersion
              /\ record' = [record EXCEPT ![c] = [version |-> @.version + 1, active |-> FALSE]]
              /\ form' = NoForm
        /\ pending' = None
        /\ Told(c, record'[c].version)
        /\ UNCHANGED <<save, link>>

WorkspaceNext ==
    \/ \E c \in Students :
          \/ Elsewhere(c) \/ Create(c)
          \/ \E kind \in {"selection", "communication"} : Prepare(c, kind)
    \/ \E l \in Loads : Read(l) \/ Answer(l)
    \/ \E c \in Students \cup {New} : Open(c)
    \/ Load \/ Summary \/ Logout
    \/ Close \/ Submit \/ CheckDuplicates \/ LoseForm \/ Update \/ Link
    \/ AskRemoval \/ Refuse \/ Confirm

WorkspaceSpec == WorkspaceInit /\ [][WorkspaceNext]_workspaceVars

-----------------------------------------------------------------------------
(* Properties. *)

\* The type invariant.
WorkspaceTypeOK ==
    /\ \A c \in Students : record[c].version \in 0..MaxVersion
    /\ latest \in Loads \cup {None}
    /\ form.student \in Students \cup {New}
    /\ save.at \in {"idle", "duplicates", "write", "dead"}
    /\ link # None => link.id \in Students
    /\ pending # None => pending.kind \in {"selection", "communication", "removal"}

\* The links a save reports as saved are those of the student it saved, for
\* which the form was opened, and nobody wrote in between, unless the form was
\* moved to somebody else while the save was under way.
SavedAsAWhole ==
    [][(link # None /\ link' = None /\ record' # record /\ ~ link.moved) =>
          /\ link.for \in {link.id, New}
          /\ record[link.id].version = link.version
          /\ record'[link.id].version = link.version + 1]_workspaceVars

\* The page never shows a student as they were before the last write it made
\* and was told of, however its loads overlap.
ShowsOwnWrites ==
    shown # None /\ own # None /\ own.id \in DOMAIN shown => shown[own.id] >= own.version

=============================================================================
