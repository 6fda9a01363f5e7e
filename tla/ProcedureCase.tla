------------------------------ MODULE ProcedureCase ------------------------------
(***************************************************************************)
(* The desk of the workforce procedures (joining, transfer, leave,          *)
(* retirement): pages list the cases, edit one in a form, tick the steps of *)
(* its checklist and confirm it.  The database takes any of the four        *)
(* statuses; which may follow which is a table of the page, applied to the  *)
(* status the page saw.  A page has one request under way; a confirmation    *)
(* reads the checklist, and saves after the answer.                         *)
(***************************************************************************)
EXTENDS Naturals, Absent

CONSTANTS
    Pages,          \* pages with the desk open
    Cases,          \* ids a new case may be given
    StepsOf,        \* the checklist of each type of procedure
    MaxCaseVersion  \* bound on the version of a case

VARIABLES
    row,     \* the table of cases, None before the insert
    done,    \* the rows of the step table: every one is completed and at version 1
    listed,  \* the rows each page shows
    editing, \* the case of the form, its version and status when it was opened
    ticks,   \* the checklist shown: a case and its completed steps
    call     \* the request of a page

procedureVars == <<row, done, listed, editing, ticks, call>>

Types == DOMAIN StepsOf
Statuses == {"DRAFT", "READY_FOR_REVIEW", "CONFIRMED", "CANCELLED"}
Rows == [type: Types, status: Statuses, version: 1..MaxCaseVersion]
Existing == {c \in Cases : row[c] # None}

\* NULL is neither an id nor a row; the bound leaves room for a new row.
ASSUME ProcedureAssumption ==
    MaxCaseVersion \in Nat \ {0} /\ None \notin Cases /\ None \notin Rows

\* The statuses the desk lets follow the one it knows, "NEW" for a case not saved yet.
Transitions(current) ==
    CASE current = "NEW"              -> {"DRAFT", "READY_FOR_REVIEW", "CANCELLED"}
      [] current = "DRAFT"            -> {"DRAFT", "READY_FOR_REVIEW", "CANCELLED"}
      [] current = "READY_FOR_REVIEW" -> Statuses
      [] current = "CONFIRMED"        -> {"CONFIRMED"}
      [] current = "CANCELLED"        -> {"CANCELLED", "DRAFT"}

\* The steps of the case's own type that are completed.
Completed(c) == done[c] \cap StepsOf[row[c].type]

ProcedureInit ==
    /\ row = [c \in Cases |-> None]
    /\ done = [c \in Cases |-> {}]
    /\ listed = [p \in Pages |-> row]
    /\ editing = [p \in Pages |-> None]
    /\ ticks = [p \in Pages |-> None]
    /\ call = [p \in Pages |-> None]

-----------------------------------------------------------------------------
(* The database: one transaction each. *)

\* Mutant of CaseVersionIs: a save does not ask what the page saw.
AnyVersion(c, version) == TRUE

CaseVersionIs(c, version) == row[c].version = version

\* Mutant of Confirmable: without the trigger, the page alone looks at the checklist.
ConfirmableUnguarded(c, type, status) == TRUE

\* The trigger: a confirmed case has every step of its new type completed.
Confirmable(c, type, status) == status = "CONFIRMED" => StepsOf[type] \subseteq done[c]

\* A new case has no steps, so that it cannot be confirmed.
InsertCase(c, draft) ==
    /\ draft.case = None /\ c \notin Existing
    /\ Confirmable(c, draft.type, draft.status)
    /\ row' = [row EXCEPT ![c] = [type |-> draft.type, status |-> draft.status,
                                  version |-> 1]]

UpdateCase(c, draft) ==
    /\ draft.case = c /\ CaseVersionIs(c, draft.version)
    /\ row[c].version < MaxCaseVersion
    /\ Confirmable(c, draft.type, draft.status)
    /\ row' = [row EXCEPT ![c] = [type |-> draft.type, status |-> draft.status,
                                  version |-> @.version + 1]]

\* A step is inserted completed.  Once its row exists, every save of it fails: a
\* version that is not the row's, a value that is the row's, and else an UPDATE whose
\* case_id and step_key are ambiguous with the function's result columns.
TakeStep(c, step, version) ==
    /\ version = 0 /\ step \in StepsOf[row[c].type] \ done[c]
    /\ done' = [done EXCEPT ![c] = @ \cup {step}]

-----------------------------------------------------------------------------
(* The desk. *)

Busy(p) == call[p] # None
Saving(p) == Busy(p) /\ call[p].at \in {"save", "saved"}

\* While a request is under way, another is refused on the page.
Request(p, at, of) == call' = [call EXCEPT ![p] = IF Busy(p) THEN @ ELSE [at |-> at, of |-> of]]

LoadCases(p) ==
    /\ Request(p, "list", None)
    /\ UNCHANGED <<row, done, listed, editing, ticks>>

Edit(p, c) ==
    /\ listed[p][c] # None
    /\ editing' = [editing EXCEPT ![p] = [case |-> c, version |-> listed[p][c].version,
                                          current |-> listed[p][c].status]]
    /\ UNCHANGED <<row, done, listed, ticks, call>>

OpenNew(p) ==
    /\ editing' = [editing EXCEPT ![p] = [case |-> None, version |-> 0, current |-> "NEW"]]
    /\ UNCHANGED <<row, done, listed, ticks, call>>

\* The button of the form is disabled during a save.
Cancel(p) ==
    /\ editing[p] # None /\ ~ Saving(p)
    /\ editing' = [editing EXCEPT ![p] = None]
    /\ UNCHANGED <<row, done, listed, ticks, call>>

\* The draft is frozen here; a confirmation first asks for the checklist.
SubmitCase(p, type, status) ==
    /\ editing[p] # None /\ status \in Transitions(editing[p].current)
    /\ Request(p, IF status = "CONFIRMED" THEN "check" ELSE "save",
               [case |-> editing[p].case, version |-> editing[p].version,
                type |-> type, status |-> status])
    /\ UNCHANGED <<row, done, listed, editing, ticks>>

ShowSteps(p, c) ==
    /\ listed[p][c] # None
    /\ ticks' = [ticks EXCEPT ![p] = None]
    /\ Request(p, "steps", c)
    /\ UNCHANGED <<row, done, listed, editing>>

Tick(p, step) ==
    /\ ticks[p] # None /\ step \in StepsOf[ticks[p].type]
    /\ Request(p, "step", [case |-> ticks[p].case, step |-> step,
                           version |-> IF step \in ticks[p].done THEN 1 ELSE 0])
    /\ UNCHANGED <<row, done, listed, editing, ticks>>

-----------------------------------------------------------------------------
(* The requests at the database, and their answers. *)

At(p, at) == Busy(p) /\ call[p].at = at
Becomes(p, at, of) == call' = [call EXCEPT ![p] = [at |-> at, of |-> of]]
Ends(p) == call' = [call EXCEPT ![p] = None]

CasesListed(p) ==
    /\ At(p, "list")
    /\ listed' = [listed EXCEPT ![p] = row]
    /\ Ends(p)
    /\ UNCHANGED <<row, done, editing, ticks>>

StepsShown(p) ==
    /\ At(p, "steps")
    /\ LET c == call[p].of
       IN  ticks' = [ticks EXCEPT ![p] = [case |-> c, type |-> row[c].type,
                                          done |-> Completed(c)]]
    /\ Ends(p)
    /\ UNCHANGED <<row, done, listed, editing>>

\* The checklist read is that of the type the row has, whatever type the draft has.
Checked(p) ==
    /\ At(p, "check")
    /\ LET c == call[p].of.case
       IN  IF Completed(c) = StepsOf[row[c].type] THEN Becomes(p, "save", call[p].of)
                                                  ELSE Ends(p)
    /\ UNCHANGED <<row, done, listed, editing, ticks>>

Save(p, c) ==
    /\ At(p, "save")
    /\ InsertCase(c, call[p].of) \/ UpdateCase(c, call[p].of)
    /\ Becomes(p, "saved", call[p].of)
    /\ UNCHANGED <<done, listed, editing, ticks>>

\* The form is cleared, whatever it shows by now, and the list read again.
Saved(p) ==
    /\ At(p, "saved")
    /\ editing' = [editing EXCEPT ![p] = None]
    /\ Becomes(p, "list", None)
    /\ UNCHANGED <<row, done, listed, ticks>>

SaveStep(p) ==
    /\ At(p, "step")
    /\ TakeStep(call[p].of.case, call[p].of.step, call[p].of.version)
    /\ Becomes(p, "stepped", call[p].of)
    /\ UNCHANGED <<row, listed, editing, ticks>>

StepSaved(p) ==
    /\ At(p, "stepped")
    /\ ticks' = [ticks EXCEPT ![p] = None]
    /\ Becomes(p, "steps", call[p].of.case)
    /\ UNCHANGED <<row, done, listed, editing>>

\* A request is refused, or it or its answer is lost: the page keeps what it shows.
Fails(p) ==
    /\ Busy(p)
    /\ Ends(p)
    /\ UNCHANGED <<row, done, listed, editing, ticks>>

ProcedureNext ==
    \E p \in Pages :
        \/ LoadCases(p) \/ OpenNew(p) \/ Cancel(p)
        \/ \E c \in Cases : Edit(p, c) \/ ShowSteps(p, c) \/ Save(p, c)
        \/ \E type \in Types, status \in Statuses : SubmitCase(p, type, status)
        \/ \E step \in UNION {StepsOf[t] : t \in Types} : Tick(p, step)
        \/ CasesListed(p) \/ StepsShown(p) \/ Checked(p) \/ Saved(p)
        \/ SaveStep(p) \/ StepSaved(p) \/ Fails(p)

ProcedureSpec == ProcedureInit /\ [][ProcedureNext]_procedureVars

-----------------------------------------------------------------------------
ProcedureTypeOK ==
    /\ row \in [Cases -> Rows \cup {None}]
    /\ \A c \in Cases : done[c] \subseteq UNION {StepsOf[t] : t \in Types}
    /\ listed \in [Pages -> [Cases -> Rows \cup {None}]]
    /\ \A p \in Pages : Busy(p) => call[p].at \in {"list", "steps", "check", "save", "saved",
                                                   "step", "stepped"}

\* A confirmed case has every step of its type completed, although the page may have
\* read the checklist of another type, or before another page changed the type.
ConfirmedOnChecklist ==
    \A c \in Existing : row[c].status = "CONFIRMED" => StepsOf[row[c].type] \subseteq done[c]

\* The status of a case only follows the table of the desk, a confirmed case stays
\* confirmed, although the database takes any status and the page applies the table to
\* the status it saw when the form was opened.
DeskTransitions ==
    [][\A c \in Cases :
          row'[c] # row[c] =>
              row'[c].status \in Transitions(IF row[c] = None THEN "NEW" ELSE row[c].status)]_procedureVars
=============================================================================
