---------------------------- MODULE ImportBoundary ----------------------------
(***************************************************************************)
(* One accounting import batch with its files and staging lines, written   *)
(* by concurrent READ COMMITTED transactions (M012 guards, M063 locking).  *)
(*                                                                         *)
(* Every INSERT or UPDATE of a file or a line locks the batch row first,   *)
(* in a BEFORE trigger; an UPDATE of the batch owns that row.  So at most  *)
(* one transaction has uncommitted changes: 'work' is what it sees, and    *)
(* 'committed' what all others see.  Batches share no lock, and an UPDATE  *)
(* that moves a row to another batch is refused: one batch is enough.      *)
(* PostgreSQL locks the row an UPDATE targets BEFORE it fires the trigger. *)
(* A statement that raises aborts its transaction: Abort.                  *)
(***************************************************************************)
EXTENDS Naturals, FiniteSets, Absent

CONSTANTS
    Txns,   \* transactions (sessions, one transaction after the other)
    Files,  \* import_file_id values
    Lines,  \* staging_line_id values
    MaxRows,  \* bound on import_files.row_count
    NewGates  \* the gate values lines are inserted with

ASSUME MaxRowsAssumption == MaxRows \in Nat
ASSUME NoneAssumption == None \notin Txns
ASSUME NewGatesAssumption == NewGates \subseteq {"pending", "passed", "failed"}

BatchStatuses == {"absent", "received", "validating", "validated", "rejected"}
FileStatuses == {"absent", "received", "validating", "validated", "rejected"}
LineStatuses == {"absent", "received", "valid", "invalid", "excluded"}
GateStatuses == {"pending", "passed", "failed"}

VARIABLES
    committed,    \* the tables as committed
    work,         \* the tables as the holder of the batch row sees them
    batchHolder,  \* who holds the row lock of the batch
    rowHolder,    \* who holds the row lock of a file or a line
    open,         \* the transactions that have begun
    statement,    \* the UPDATE a transaction executes, or None
    early         \* what the batch check would say on the snapshot of its start

vars == <<committed, work, batchHolder, rowHolder, open, statement, early>>

\* rows: import_files.row_count.  owner: the file of a line.
\* gate: normalization_status and mapping_status, passed when both passed.
TablesType == [batch: BatchStatuses,
               file: [Files -> FileStatuses], rows: [Files -> 0..MaxRows],
               line: [Lines -> LineStatuses], gate: [Lines -> GateStatuses],
               owner: [Lines -> Files \cup {None}]]

\* An UPDATE a transaction has sent; any other transition is always refused.
\* INSERTs read nothing before they lock the batch row: they are one step.
StatementType ==
    [kind: {"file"}, file: Files, to: {"validating", "validated", "rejected"}]
      \cup [kind: {"line"}, line: Lines, gate: GateStatuses,
            to: {"received", "valid", "invalid", "excluded"}]
      \cup [kind: {"batch"}, to: {"validating", "validated", "rejected"}]

-----------------------------------------------------------------------------
FilesOf(db) == {f \in Files : db.file[f] # "absent"}
LinesOf(db) == {l \in Lines : db.line[l] # "absent"}
LinesIn(db, f) == {l \in LinesOf(db) : db.owner[l] = f}

\* The condition of validating -> validated, in M012's immediate check and in
\* M063's deferred one.
Complete(db) ==
    /\ FilesOf(db) # {}
    /\ \A f \in FilesOf(db) : db.file[f] = "validated"
    /\ \A l \in LinesOf(db) : db.line[l] \in {"valid", "excluded"}
    /\ \E l \in LinesOf(db) : db.line[l] = "valid"
    /\ \A f \in FilesOf(db) : db.rows[f] = Cardinality(LinesIn(db, f))

Sealed(db) == db.batch \in {"validated", "rejected"}

\* What a transaction sees: its own changes, or what is committed.
View(t) == IF batchHolder = t THEN work ELSE committed

\* The row an UPDATE of a child locks before its triggers fire.
Target(u) ==
    CASE u.kind = "file"  -> {u.file}
      [] u.kind = "line"  -> {u.line}
      [] u.kind = "batch" -> {}

-----------------------------------------------------------------------------
(* guard_import_boundary_mutation and the seal: what a statement does to the *)
(* tables it finds once it has its locks; raising statements are not enabled. *)

FileTransition(from, to) ==
    \/ from = "received" /\ to = "validating"
    \/ from = "validating" /\ to \in {"validated", "rejected"}
BatchTransition(from, to) == FileTransition(from, to)

\* Mutant of OpenForChildren: the rows of a sealed batch stay open.
BatchExists(db) == db.batch # "absent"

\* M012 and M063: rows are added and changed until the batch is sealed.
OpenForChildren(db) == db.batch # "absent" /\ ~ Sealed(db)

InsertBatch(db) ==
    /\ db.batch = "absent"
    /\ work' = [db EXCEPT !.batch = "received"]

InsertFile(db, f, n) ==
    /\ OpenForChildren(db)
    /\ db.file[f] = "absent"
    /\ work' = [db EXCEPT !.file[f] = "received", !.rows[f] = n]

InsertLine(db, l, f, g) ==
    /\ OpenForChildren(db)
    /\ db.line[l] = "absent" /\ f \in FilesOf(db)
    /\ work' = [db EXCEPT !.line[l] = "received", !.gate[l] = g, !.owner[l] = f]

UpdateFile(db, u) ==
    /\ u.kind = "file"
    /\ OpenForChildren(db)
    /\ FileTransition(db.file[u.file], u.to)
    /\ work' = [db EXCEPT !.file[u.file] = u.to]

\* Mutant of MayTakeVerdict: a verdict may be given again.
MayTakeVerdictAgain(db, u) ==
    u.to = "valid" => u.gate = "passed" /\ db.file[db.owner[u.line]] = "validated"

\* Mutant of MayTakeVerdict: the file is not looked at.
MayTakeVerdictEarly(db, u) ==
    /\ db.line[u.line] = "received"
    /\ u.to = "valid" => u.gate = "passed"

\* Verdicts are given once; valid needs the gates and a validated file.
MayTakeVerdict(db, u) ==
    /\ db.line[u.line] = "received"
    /\ u.to = "valid" => u.gate = "passed" /\ db.file[db.owner[u.line]] = "validated"

\* A line may take its gate result and its verdict in one UPDATE or in two.
UpdateLine(db, u) ==
    /\ u.kind = "line"
    /\ OpenForChildren(db)
    /\ MayTakeVerdict(db, u)
    /\ u.gate = db.gate[u.line] \/ db.gate[u.line] = "pending"
    /\ work' = [db EXCEPT !.line[u.line] = u.to, !.gate[u.line] = u.gate]

\* The immediate check of the batch UPDATE may run on the snapshot of the
\* statement's start, taken before it waited for the batch row.
UpdateBatch(db, u, onOldSnapshot) ==
    /\ u.kind = "batch"
    /\ BatchTransition(db.batch, u.to)
    /\ u.to = "validated" => onOldSnapshot \/ Complete(db)
    /\ work' = [db EXCEPT !.batch = u.to]

-----------------------------------------------------------------------------
Empty == [batch |-> "absent",
          file |-> [f \in Files |-> "absent"], rows |-> [f \in Files |-> 0],
          line |-> [l \in Lines |-> "absent"], gate |-> [l \in Lines |-> "pending"],
          owner |-> [l \in Lines |-> None]]

Init ==
    /\ committed = Empty
    /\ work = Empty
    /\ batchHolder = None
    /\ rowHolder = [r \in Files \cup Lines |-> None]
    /\ open = {}
    /\ statement = [t \in Txns |-> None]
    /\ early = [t \in Txns |-> FALSE]

\* An INSERT: the trigger locks the batch row, then the guards decide.
Insert(t) ==
    /\ statement[t] = None
    /\ batchHolder \in {None, t}
    /\ \/ InsertBatch(View(t))
       \/ \E f \in Files, n \in 0..MaxRows : InsertFile(View(t), f, n)
       \/ \E l \in Lines, f \in Files, g \in NewGates : InsertLine(View(t), l, f, g)
    /\ batchHolder' = t
    /\ open' = open \cup {t}
    /\ UNCHANGED <<committed, rowHolder, statement, early>>

\* The UPDATEs a caller sends who has read the row: its row is where the
\* transition starts.  What it finds once it has its locks may be different.
Sensible(db, u) ==
    CASE u.kind = "file"  -> FileTransition(db.file[u.file], u.to)
      [] u.kind = "line"  -> db.line[u.line] = "received"
                                /\ <<u.gate, u.to>> # <<db.gate[u.line], "received">>
      [] u.kind = "batch" -> BatchTransition(db.batch, u.to)

Send(t, u) ==
    /\ statement[t] = None
    /\ Sensible(View(t), u)
    /\ open' = open \cup {t}
    /\ statement' = [statement EXCEPT ![t] = u]
    /\ early' = [early EXCEPT ![t] = u.kind = "batch" /\ Complete(View(t))]
    /\ UNCHANGED <<committed, work, batchHolder, rowHolder>>

LockTarget(t) ==
    /\ statement[t] # None
    /\ \E r \in Target(statement[t]) :
          /\ rowHolder[r] = None
          /\ rowHolder' = [rowHolder EXCEPT ![r] = t]
    /\ UNCHANGED <<committed, work, batchHolder, open, statement, early>>

\* Then the trigger locks the batch row, and the guards decide.
Update(t) ==
    /\ statement[t] # None
    /\ \A r \in Target(statement[t]) : rowHolder[r] = t
    /\ batchHolder \in {None, t}
    /\ \/ UpdateFile(View(t), statement[t])
       \/ UpdateLine(View(t), statement[t])
       \/ UpdateBatch(View(t), statement[t], early[t])
    /\ batchHolder' = t
    /\ statement' = [statement EXCEPT ![t] = None]
    /\ early' = [early EXCEPT ![t] = FALSE]
    /\ UNCHANGED <<committed, rowHolder, open>>

\* The end of a transaction releases all its locks.
Release(t) ==
    /\ batchHolder' = IF batchHolder = t THEN None ELSE batchHolder
    /\ rowHolder' = [r \in Files \cup Lines |->
                       IF rowHolder[r] = t THEN None ELSE rowHolder[r]]
    /\ open' = open \ {t}
    /\ statement' = [statement EXCEPT ![t] = None]
    /\ early' = [early EXCEPT ![t] = FALSE]

\* Mutant of DeferredCheck: M012 without M063's trigger.
NoDeferredCheck(t) == TRUE

\* revalidate_import_batch_membership_m063 at COMMIT, on a fresh snapshot.
DeferredCheck(t) ==
    batchHolder = t /\ work.batch = "validated" /\ committed.batch # "validated"
        => Complete(work)

Commit(t) ==
    /\ t \in open /\ statement[t] = None
    /\ DeferredCheck(t)
    /\ committed' = View(t)
    /\ Release(t)
    /\ UNCHANGED work

\* Mutant of Undo: what the transaction did stays visible to the next one.
KeepWork(t) == work

\* What is left of the changes of a transaction that ends without COMMIT.
Undo(t) == IF batchHolder = t THEN committed ELSE work

\* A raised exception, a rollback, a lost connection, a deadlock victim.
Abort(t) ==
    /\ t \in open
    /\ work' = Undo(t)
    /\ Release(t)
    /\ UNCHANGED committed

Next == \E t \in Txns :
    \/ Insert(t)
    \/ \E u \in StatementType : Send(t, u)
    \/ LockTarget(t) \/ Update(t) \/ Commit(t) \/ Abort(t)

Spec == Init /\ [][Next]_vars

-----------------------------------------------------------------------------
(* Properties. *)

\* The type invariant, and that only the holder of the batch row is ahead of
\* what is committed.
ImportTypeOK ==
    /\ committed \in TablesType /\ work \in TablesType
    /\ batchHolder \in Txns \cup {None}
    /\ rowHolder \in [Files \cup Lines -> Txns \cup {None}]
    /\ open \subseteq Txns
    /\ \A t \in Txns : statement[t] # None => t \in open
    /\ early \in [Txns -> BOOLEAN]
    /\ batchHolder = None => work = committed

\* A validated batch is complete: whatever writers ran beside the finalizer,
\* every file is validated, every line valid or excluded, one is valid, and
\* each file has exactly the lines it announced.
SealedMembership == committed.batch = "validated" => Complete(committed)

\* A valid line passed its gates and belongs to a validated file.
ValidLinesJustified ==
    \A l \in Lines : committed.line[l] = "valid" =>
        /\ committed.gate[l] = "passed"
        /\ committed.owner[l] \in FilesOf(committed)
        /\ committed.file[committed.owner[l]] = "validated"

\* What everybody else reads of the batch.
Record == INSTANCE BatchRecord WITH record <- committed

\* However statements, waits, commits and aborts of transactions interleave, the
\* committed batch implements the record: no commit overwrites a verdict or a gate that
\* was committed while its transaction ran, and no writer that was waiting or running
\* when the batch was sealed gets through.
ImplementsBatchRecord == Record!Spec

-----------------------------------------------------------------------------
(* What a document of the repository says, and the triggers do not do. *)

\* t waits for a lock that u holds.
WaitsFor(t, u) ==
    /\ t # u /\ statement[t] # None
    /\ \/ \E r \in Target(statement[t]) : rowHolder[r] = u
       \/ (\A r \in Target(statement[t]) : rowHolder[r] = t) /\ batchHolder = u

\* "The single order is Batch row(s), ascending UUID -> File/Staging Line row
\* operation" (M063 design package), so writers of a batch never deadlock.  An
\* UPDATE of a line locks the line before its trigger locks the batch.
NoMutualWait == \A t, u \in Txns : ~ (WaitsFor(t, u) /\ WaitsFor(u, t))
=============================================================================
