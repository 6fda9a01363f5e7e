---------------------- MODULE ImportAndProcedures_proofs ----------------------
(***************************************************************************)
(* Proofs about two components that share no state and one run.              *)
(* ImportBoundary, for every set of transactions, files and lines: a         *)
(* statement changes only 'work', and the changes of a transaction become     *)
(* 'committed' at once, so the lemmas are about one statement, and about how   *)
(* far 'work' may be ahead of 'committed'.  ProcedureCase, for every set of     *)
(* pages and cases and every checklist: what a page has read of a case was      *)
(* true once, and versions only grow.                                        *)
(***************************************************************************)
EXTENDS MCImportAndProcedures, TLAPS

-----------------------------------------------------------------------------
(* The import boundary: the tables. *)

\* Tables a transaction can see: lines that are there belong to files that are there,
\* others have no gate result, and valid ones passed their gates and belong to
\* validated files.
TablesOK(db) ==
    /\ db \in TablesType
    /\ \A l \in Lines : IF db.line[l] = "absent" THEN db.gate[l] = "pending"
                                               ELSE db.owner[l] \in FilesOf(db)
    /\ \A l \in Lines : db.line[l] = "valid" =>
          db.gate[l] = "passed" /\ db.file[db.owner[l]] = "validated"

\* What later tables keep of earlier ones: everything once the batch is sealed,
\* and what the record promises before.
Keeps(old, new) ==
    /\ Sealed(old) => new = old
    /\ Record!Keeps(old, new)

\* The order of the stages.
LEMMA StagesAre ==
    /\ \A s : Record!Stage(s) \in 0..3 /\ (Record!Stage(s) = 0 <=> s = "absent")
    /\ \A s \in {"validated", "rejected", "valid", "invalid", "excluded"} : Record!Stage(s) = 3
    /\ Record!Stage("received") = 1 /\ Record!Stage("validating") = 2
BY DEF Record!Stage

LEMMA OnwardOrder ==
    /\ \A s : Record!Onward(s, s) /\ Record!Onward("absent", s)
    /\ \A s, t : Record!Onward(s, t) /\ Record!Stage(s) = 3 => t = s
    /\ \A s, t : Record!Onward(s, t) /\ s # "absent" => t # "absent"
    /\ \A s, t, u : Record!Onward(s, t) /\ Record!Onward(t, u) => Record!Onward(s, u)
<1>1. \A s : Record!Onward("absent", s)
  <2> TAKE s
  <2>1. Record!Stage("absent") = 0 /\ Record!Stage(s) \in 0..3 /\ (Record!Stage(s) = 0 <=> s = "absent")
    BY StagesAre
  <2> QED BY <2>1 DEF Record!Onward
<1>2. \A s, t : Record!Onward(s, t) /\ Record!Stage(s) = 3 => t = s
  BY StagesAre DEF Record!Onward
<1>3. \A s, t : Record!Onward(s, t) /\ s # "absent" => t # "absent"
  <2> TAKE s, t
  <2>1. /\ Record!Stage(s) \in 0..3 /\ Record!Stage(t) \in 0..3
        /\ Record!Stage(t) = 0 <=> t = "absent"
    BY StagesAre
  <2> QED BY <2>1 DEF Record!Onward
<1>4. \A s, t, u : Record!Onward(s, t) /\ Record!Onward(t, u) => Record!Onward(s, u)
  <2> TAKE s, t, u
  <2>1. Record!Stage(s) \in 0..3 /\ Record!Stage(t) \in 0..3 /\ Record!Stage(u) \in 0..3
    BY StagesAre
  <2> QED BY <2>1 DEF Record!Onward
<1> QED BY <1>1, <1>2, <1>3, <1>4 DEF Record!Onward

LEMMA KeepsItself == ASSUME NEW a PROVE Keeps(a, a)
BY OnwardOrder DEF Keeps, Record!Keeps

\* Nothing is kept by what is kept.
LEMMA KeepsTransitive ==
    ASSUME NEW a, NEW b, NEW c, Keeps(a, b), Keeps(b, c) PROVE Keeps(a, c)
<1>1. Sealed(a) => c = a
  BY DEF Keeps
<1>2. Record!Onward(a.batch, c.batch)
  BY OnwardOrder DEF Keeps, Record!Keeps
<1>3. ASSUME NEW f \in Files
      PROVE  /\ Record!Onward(a.file[f], c.file[f])
             /\ a.file[f] # "absent" => c.rows[f] = a.rows[f]
  <2>1. /\ Record!Onward(a.file[f], b.file[f]) /\ Record!Onward(b.file[f], c.file[f])
        /\ a.file[f] # "absent" => b.rows[f] = a.rows[f]
        /\ b.file[f] # "absent" => c.rows[f] = b.rows[f]
    BY DEF Keeps, Record!Keeps
  <2> QED BY <2>1, OnwardOrder
<1>4. ASSUME NEW l \in Lines
      PROVE  /\ Record!Onward(a.line[l], c.line[l])
             /\ a.line[l] # "absent" => c.owner[l] = a.owner[l]
             /\ a.gate[l] # "pending" \/ Record!Stage(a.line[l]) = 3 => c.gate[l] = a.gate[l]
  <2>1. /\ Record!Onward(a.line[l], b.line[l]) /\ Record!Onward(b.line[l], c.line[l])
        /\ a.line[l] # "absent" => b.owner[l] = a.owner[l]
        /\ b.line[l] # "absent" => c.owner[l] = b.owner[l]
        /\ a.gate[l] # "pending" \/ Record!Stage(a.line[l]) = 3 => b.gate[l] = a.gate[l]
        /\ b.gate[l] # "pending" \/ Record!Stage(b.line[l]) = 3 => c.gate[l] = b.gate[l]
    BY DEF Keeps, Record!Keeps
  <2>2. Record!Stage(a.line[l]) = 3 => b.line[l] = a.line[l]
    BY <2>1, OnwardOrder
  <2>3. a.gate[l] # "pending" \/ Record!Stage(a.line[l]) = 3 => c.gate[l] = a.gate[l]
    BY <2>1, <2>2
  <2> QED BY <2>1, <2>3, OnwardOrder
<1> QED BY <1>1, <1>2, <1>3, <1>4 DEF Keeps, Record!Keeps

\* A statement that has its locks executes on what its transaction sees.
Executes ==
    \/ InsertBatch(work)
    \/ \E f \in Files, n \in 0..MaxRows : InsertFile(work, f, n)
    \/ \E l \in Lines, f \in Files, g \in NewGates : InsertLine(work, l, f, g)
    \/ \E u \in StatementType :
          UpdateFile(work, u) \/ UpdateLine(work, u) \/ \E old \in BOOLEAN : UpdateBatch(work, u, old)

\* No statement executes on a sealed batch, and none gives a second verdict.
LEMMA StatementKeepsTables ==
    ASSUME TablesOK(work), Executes
    PROVE  TablesOK(work') /\ Keeps(work, work')
<1> USE DEF TablesOK
<1>1. CASE InsertBatch(work)
  <2>1. work' = [work EXCEPT !.batch = "received"] /\ ~ Sealed(work)
    BY <1>1 DEF InsertBatch, Sealed
  <2>2. /\ work'.file = work.file /\ work'.rows = work.rows /\ work'.line = work.line
        /\ work'.gate = work.gate /\ work'.owner = work.owner
    BY <2>1 DEF TablesType
  <2>3. work' \in TablesType
    BY <2>1 DEF TablesType, BatchStatuses
  <2>4. Keeps(work, work')
    <3>1. work.batch = "absent" /\ work'.batch = "received"
      BY <1>1 DEF InsertBatch, TablesType
    <3> QED BY <2>1, <2>2, <3>1, OnwardOrder DEF Keeps, Record!Keeps
  <2> QED BY <2>2, <2>3, <2>4 DEF FilesOf
<1>2. CASE \E f \in Files, n \in 0..MaxRows : InsertFile(work, f, n)
  <2>1. PICK f \in Files, n \in 0..MaxRows : InsertFile(work, f, n)
    BY <1>2
  <2>2. /\ work' = [work EXCEPT !.file[f] = "received", !.rows[f] = n]
        /\ ~ Sealed(work) /\ work.file[f] = "absent"
    BY <2>1 DEF InsertFile, OpenForChildren
  <2>3. /\ work'.file = [work.file EXCEPT ![f] = "received"]
        /\ work'.line = work.line /\ work'.gate = work.gate /\ work'.owner = work.owner
    BY <2>2 DEF TablesType
  <2>4. work' \in TablesType
    BY <2>2 DEF TablesType, FileStatuses
  <2>5. \A g \in FilesOf(work) : g \in FilesOf(work') /\ work'.file[g] = work.file[g]
    BY <2>2, <2>3 DEF FilesOf, TablesType
  <2>6. Keeps(work, work')
    <3>1. work'.batch = work.batch /\ \A g \in Files : g # f => work'.rows[g] = work.rows[g]
      BY <2>2 DEF TablesType
    <3> QED BY <2>2, <2>3, <3>1, OnwardOrder DEF Keeps, Record!Keeps, TablesType
  <2> QED BY <2>2, <2>3, <2>4, <2>5, <2>6 DEF FilesOf, TablesType
<1>3. CASE \E l \in Lines, f \in Files, g \in NewGates : InsertLine(work, l, f, g)
  <2>1. PICK l \in Lines, f \in Files, g \in NewGates : InsertLine(work, l, f, g)
    BY <1>3
  <2>2. /\ work' = [work EXCEPT !.line[l] = "received", !.gate[l] = g, !.owner[l] = f]
        /\ ~ Sealed(work) /\ work.line[l] = "absent" /\ f \in FilesOf(work)
    BY <2>1 DEF InsertLine, OpenForChildren
  <2>3. /\ work'.file = work.file /\ work'.line = [work.line EXCEPT ![l] = "received"]
        /\ work'.gate = [work.gate EXCEPT ![l] = g]
        /\ work'.owner = [work.owner EXCEPT ![l] = f]
    BY <2>2 DEF TablesType
  <2>4. work' \in TablesType
    BY <2>2, NewGatesAssumption DEF TablesType, LineStatuses, GateStatuses
  <2>5. Keeps(work, work')
    <3>1. work'.batch = work.batch /\ work'.rows = work.rows
      BY <2>2 DEF TablesType
    <3>2. work.gate[l] = "pending" /\ Record!Stage(work.line[l]) # 3
      <4>1. Record!Stage("absent") = 0
        BY StagesAre
      <4> QED BY <2>2, <4>1
    <3> QED BY <2>2, <2>3, <3>1, <3>2, OnwardOrder DEF Keeps, Record!Keeps, TablesType
  <2> QED BY <2>2, <2>3, <2>4, <2>5 DEF FilesOf, TablesType
<1>4. CASE \E u \in StatementType : UpdateFile(work, u)
  <2>1. PICK u \in StatementType : UpdateFile(work, u)
    BY <1>4
  <2>2. PICK f \in Files, to \in {"validating", "validated", "rejected"} :
           f = u.file /\ to = u.to
    BY <2>1 DEF UpdateFile, StatementType
  <2>3. /\ work' = [work EXCEPT !.file[f] = to] /\ ~ Sealed(work)
        /\ work.file[f] \in {"received", "validating"} /\ Record!Onward(work.file[f], to)
    BY <2>1, <2>2, StagesAre DEF UpdateFile, OpenForChildren, FileTransition, Record!Onward
  <2>4. /\ work'.file = [work.file EXCEPT ![f] = to]
        /\ work'.line = work.line /\ work'.gate = work.gate /\ work'.owner = work.owner
    BY <2>3 DEF TablesType
  <2>5. work' \in TablesType
    BY <2>3 DEF TablesType, FileStatuses
  <2>6. \A g \in FilesOf(work) : g \in FilesOf(work')
    BY <2>4 DEF FilesOf, TablesType
  <2>7. Keeps(work, work')
    <3>1. work'.batch = work.batch /\ work'.rows = work.rows
      BY <2>3 DEF TablesType
    <3> QED BY <2>3, <2>4, <3>1, OnwardOrder DEF Keeps, Record!Keeps, TablesType
  <2> QED BY <2>3, <2>4, <2>5, <2>6, <2>7 DEF FilesOf
<1>5. CASE \E u \in StatementType : UpdateLine(work, u)
  <2>1. PICK u \in StatementType : UpdateLine(work, u)
    BY <1>5
  <2>2. PICK l \in Lines, g \in GateStatuses, to \in {"received", "valid", "invalid", "excluded"} :
           l = u.line /\ g = u.gate /\ to = u.to
    BY <2>1 DEF UpdateLine, StatementType, GateStatuses
  <2>3. /\ work' = [work EXCEPT !.line[l] = to, !.gate[l] = g]
        /\ ~ Sealed(work) /\ work.line[l] = "received"
        /\ to = "valid" => g = "passed" /\ work.file[work.owner[l]] = "validated"
        /\ g = work.gate[l] \/ work.gate[l] = "pending"
    BY <2>1, <2>2 DEF UpdateLine, OpenForChildren, MayTakeVerdict
  <2>4. /\ work'.file = work.file /\ work'.owner = work.owner
        /\ work'.line = [work.line EXCEPT ![l] = to]
        /\ work'.gate = [work.gate EXCEPT ![l] = g]
    BY <2>3 DEF TablesType
  <2>5. work' \in TablesType
    BY <2>3 DEF TablesType, LineStatuses
  <2>6. Keeps(work, work')
    <3>1. work'.batch = work.batch /\ work'.rows = work.rows
      BY <2>3 DEF TablesType
    <3>2. Record!Onward(work.line[l], to) /\ Record!Stage(work.line[l]) # 3
      <4>1. /\ Record!Stage("received") = 1
            /\ \A s \in {"valid", "invalid", "excluded"} : Record!Stage(s) = 3
        BY StagesAre
      <4> QED BY <2>2, <2>3, <4>1 DEF Record!Onward
    <3> QED BY <2>3, <2>4, <3>1, <3>2, OnwardOrder DEF Keeps, Record!Keeps, TablesType
  <2> QED BY <2>3, <2>4, <2>5, <2>6 DEF FilesOf, TablesType
<1>6. CASE \E u \in StatementType, old \in BOOLEAN : UpdateBatch(work, u, old)
  <2>1. PICK u \in StatementType, old \in BOOLEAN : UpdateBatch(work, u, old)
    BY <1>6
  <2>2. /\ work' = [work EXCEPT !.batch = u.to] /\ u.to \in BatchStatuses
        /\ ~ Sealed(work)
    BY <2>1 DEF UpdateBatch, BatchTransition, FileTransition, BatchStatuses, Sealed
  <2>3. /\ work'.file = work.file /\ work'.rows = work.rows /\ work'.line = work.line
        /\ work'.gate = work.gate /\ work'.owner = work.owner
    BY <2>2 DEF TablesType
  <2>4. work' \in TablesType
    BY <2>2 DEF TablesType
  <2>5. Keeps(work, work')
    <3>1. Record!Onward(work.batch, u.to)
      BY <2>1, StagesAre DEF UpdateBatch, BatchTransition, FileTransition, Record!Onward
    <3>2. work'.batch = u.to
      BY <2>2 DEF TablesType
    <3> QED BY <2>2, <2>3, <3>1, <3>2, OnwardOrder DEF Keeps, Record!Keeps
  <2> QED BY <2>2, <2>3, <2>4, <2>5 DEF FilesOf
<1> QED BY <1>1, <1>2, <1>3, <1>4, <1>5, <1>6 DEF Executes

-----------------------------------------------------------------------------
(* The import boundary: the inductive invariant. *)

\* The locks, and what each transaction is doing.
LocksOK ==
    /\ batchHolder \in Txns \cup {None}
    /\ rowHolder \in [Files \cup Lines -> Txns \cup {None}]
    /\ open \subseteq Txns
    /\ statement \in [Txns -> StatementType \cup {None}]
    /\ \A t \in Txns : statement[t] # None => t \in open
    /\ early \in [Txns -> BOOLEAN]

\* Only the holder of the batch row is ahead of what is committed, and what it
\* changed takes nothing back.
ImportInv ==
    /\ LocksOK
    /\ TablesOK(committed) /\ TablesOK(work)
    /\ batchHolder = None => work = committed
    /\ Keeps(committed, work)
    /\ SealedMembership

\* A transaction that has the batch row, or gets it, sees 'work'.
LEMMA ViewIsWork ==
    ASSUME ImportInv, NEW t \in Txns, batchHolder \in {None, t} PROVE View(t) = work
BY NoneAssumption DEF ImportInv, View

\* A statement is executed by the holder of the batch row on 'work'.
LEMMA ExecutionKeepsInv ==
    ASSUME ImportInv, NEW t \in Txns, Executes, batchHolder' = t,
           committed' = committed, LocksOK'
    PROVE  ImportInv'
<1>1. TablesOK(work') /\ Keeps(work, work')
  BY StatementKeepsTables DEF ImportInv
<1>2. Keeps(committed, work')
  BY <1>1, KeepsTransitive DEF ImportInv
<1>3. TablesOK(committed)' /\ TablesOK(work)' /\ Keeps(committed, work)'
  BY <1>1, <1>2 DEF ImportInv, TablesOK, Keeps, FilesOf, Sealed
<1>4. SealedMembership'
  BY DEF ImportInv, SealedMembership, Complete, FilesOf, LinesOf, LinesIn
<1> QED BY <1>3, <1>4, NoneAssumption DEF ImportInv

\* What a transaction holds is released with it; nobody else's locks change.
LEMMA ReleaseKeepsLocks ==
    ASSUME LocksOK, NEW t \in Txns, Release(t) PROVE LocksOK'
BY DEF LocksOK, Release

\* The commit check: a batch that becomes validated is complete when it does.
LEMMA CommitKeepsInv ==
    ASSUME ImportInv, NEW t \in Txns, Commit(t) PROVE ImportInv'
<1>1. LocksOK'
  BY ReleaseKeepsLocks DEF Commit, ImportInv
<1>2. work' = work /\ committed' = View(t) /\ batchHolder' = IF batchHolder = t THEN None ELSE batchHolder
  BY DEF Commit, Release
<1>3. CASE batchHolder = t
  <2>1. committed' = work /\ batchHolder' = None
    BY <1>2, <1>3 DEF View
  <2>2. work.batch = "validated" => Complete(work)
    <3>1. CASE committed.batch = "validated"
      <4>1. work = committed
        BY <3>1 DEF ImportInv, Keeps, Sealed
      <4> QED BY <3>1, <4>1 DEF ImportInv, SealedMembership
    <3>2. CASE committed.batch # "validated"
      BY <1>3, <3>2 DEF Commit, DeferredCheck
    <3> QED BY <3>1, <3>2
  <2>3. SealedMembership'
    BY <2>1, <2>2 DEF SealedMembership, Complete, FilesOf, LinesOf, LinesIn
  <2>4. TablesOK(committed)' /\ TablesOK(work)'
    BY <1>2, <2>1 DEF ImportInv, TablesOK, FilesOf
  <2>5. Keeps(committed, work)'
    <3>1. committed' = work' /\ Keeps(work', work')
      BY <1>2, <2>1, KeepsItself
    <3> QED BY <3>1 DEF Keeps, Record!Keeps, Record!Onward
  <2> QED BY <1>1, <1>2, <2>1, <2>3, <2>4, <2>5 DEF ImportInv
<1>4. CASE batchHolder # t
  <2>1. committed' = committed /\ batchHolder' = batchHolder
    BY <1>2, <1>4 DEF View
  <2> QED BY <1>1, <1>2, <2>1 DEF ImportInv, TablesOK, Keeps, Sealed, FilesOf,
                                  SealedMembership, Complete, LinesOf, LinesIn
<1> QED BY <1>3, <1>4

\* A transaction that ends otherwise takes its changes with it.
LEMMA AbortKeepsInv ==
    ASSUME ImportInv, NEW t \in Txns, Abort(t) PROVE ImportInv'
<1>1. LocksOK'
  BY ReleaseKeepsLocks DEF Abort, ImportInv
<1>2. committed' = committed /\ work' = IF batchHolder = t THEN committed ELSE work
  BY DEF Abort, Undo
<1>3. batchHolder' = None => work' = committed'
  BY <1>2 DEF Abort, Release, ImportInv
<1>4. TablesOK(committed)' /\ TablesOK(work)' /\ Keeps(committed, work)'
  <2>1. Keeps(committed, work')
    BY <1>2, KeepsItself DEF ImportInv
  <2>2. Keeps(committed, work)'
    BY <1>2, <2>1 DEF Keeps, Record!Keeps, Sealed
  <2> QED BY <1>2, <2>2 DEF ImportInv, TablesOK, FilesOf
<1>5. SealedMembership'
  BY <1>2 DEF ImportInv, SealedMembership, Complete, FilesOf, LinesOf, LinesIn
<1> QED BY <1>1, <1>3, <1>4, <1>5 DEF ImportInv

\* Steps that touch no table keep all that is said about tables.
LEMMA QuietKeepsInv ==
    ASSUME ImportInv, LocksOK', UNCHANGED <<committed, work, batchHolder>>
    PROVE  ImportInv'
BY DEF ImportInv, TablesOK, Keeps, Sealed, FilesOf, SealedMembership, Complete,
       LinesOf, LinesIn

\* The inductive step, action by action.
LEMMA StepKeepsInv ==
    ASSUME ImportInv, [Next]_vars PROVE ImportInv'
<1>1. ASSUME NEW t \in Txns, Insert(t) PROVE ImportInv'
  <2>1. View(t) = work
    BY <1>1, ViewIsWork DEF Insert
  <2>2. Executes /\ batchHolder' = t /\ committed' = committed
    BY <1>1, <2>1 DEF Insert, Executes
  <2>3. LocksOK'
    BY <1>1 DEF Insert, LocksOK, ImportInv
  <2> QED BY <2>2, <2>3, ExecutionKeepsInv
<1>2. ASSUME NEW t \in Txns, NEW u \in StatementType, Send(t, u) PROVE ImportInv'
  <2>1. early' \in [Txns -> BOOLEAN]
    <3>1. (u.kind = "batch" /\ Complete(View(t))) \in BOOLEAN
      OBVIOUS
    <3> QED BY <1>2, <3>1 DEF Send, LocksOK, ImportInv
  <2>2. LocksOK'
    BY <1>2, <2>1 DEF Send, LocksOK, ImportInv
  <2> QED BY <1>2, <2>2, QuietKeepsInv DEF Send
<1>3. ASSUME NEW t \in Txns, LockTarget(t) PROVE ImportInv'
  <2>1. rowHolder' \in [Files \cup Lines -> Txns \cup {None}]
    BY <1>3 DEF LockTarget, LocksOK, ImportInv
  <2>2. LocksOK'
    BY <1>3, <2>1 DEF LockTarget, LocksOK, ImportInv
  <2> QED BY <1>3, <2>2, QuietKeepsInv DEF LockTarget
<1>4. ASSUME NEW t \in Txns, Update(t) PROVE ImportInv'
  <2>1. View(t) = work
    BY <1>4, ViewIsWork DEF Update
  <2>2. statement[t] \in StatementType /\ early[t] \in BOOLEAN
    BY <1>4 DEF Update, LocksOK, ImportInv
  <2>3. Executes /\ batchHolder' = t /\ committed' = committed
    BY <1>4, <2>1, <2>2 DEF Update, Executes
  <2>4. LocksOK'
    BY <1>4 DEF Update, LocksOK, ImportInv
  <2> QED BY <2>3, <2>4, ExecutionKeepsInv
<1>5. CASE UNCHANGED vars
  <2>1. LocksOK'
    BY <1>5 DEF vars, LocksOK, ImportInv
  <2> QED BY <1>5, <2>1, QuietKeepsInv DEF vars
<1> QED BY <1>1, <1>2, <1>3, <1>4, <1>5, CommitKeepsInv, AbortKeepsInv DEF Next

-----------------------------------------------------------------------------
(* The import boundary: the theorems. *)

\* However transactions overlap, wait, commit and abort, the inductive invariant
\* holds: the holder of the batch row takes back nothing that is committed.
THEOREM ImportInvariant == Spec => []ImportInv
<1>1. Init => ImportInv
  <2> SUFFICES ASSUME Init PROVE ImportInv
    OBVIOUS
  <2>1. LocksOK
    BY DEF Init, LocksOK
  <2>2. Empty \in TablesType
    BY MaxRowsAssumption DEF Empty, TablesType, BatchStatuses, FileStatuses, LineStatuses,
                             GateStatuses
  <2>3. TablesOK(Empty) /\ Keeps(Empty, Empty)
    BY <2>2, KeepsItself DEF TablesOK, Empty
  <2>4. SealedMembership
    BY DEF Init, SealedMembership, Empty
  <2> QED BY <2>1, <2>3, <2>4 DEF Init, ImportInv
<1> QED BY <1>1, StepKeepsInv, PTL DEF Spec

\* Every reachable state has the declared types, and only the holder of the
\* batch row is ahead of what is committed.
THEOREM ImportTypeCorrect == Spec => []ImportTypeOK
<1>1. ImportInv => ImportTypeOK
  BY DEF ImportInv, ImportTypeOK, LocksOK, TablesOK
<1> QED BY <1>1, ImportInvariant, PTL

\* M063: whatever writers ran beside the finalizer, a validated batch is complete.
THEOREM SealedMembershipCorrect == Spec => []SealedMembership
BY ImportInvariant, PTL DEF ImportInv

\* A committed valid line passed its gates and is a line of a validated file.
THEOREM ValidLinesJustifiedCorrect == Spec => []ValidLinesJustified
<1>1. ImportInv => ValidLinesJustified
  BY DEF ImportInv, TablesOK, ValidLinesJustified
<1> QED BY <1>1, ImportInvariant, PTL

\* The locks, the guards and the checks implement the record everybody else reads:
\* whatever overlaps, a commit only moves it on.
THEOREM BatchRecordImplemented == Spec => ImplementsBatchRecord
<1>1. Init => Record!Init
  BY DEF Init, Empty, Record!Init
<1>2. ImportInv /\ [Next]_vars => [Record!Write]_committed
  <2> SUFFICES ASSUME ImportInv, [Next]_vars, committed' # committed PROVE Record!Write
    OBVIOUS
  <2>1. committed' = work
    BY DEF Next, Insert, Send, LockTarget, Update, Commit, Abort, View, vars
  <2>2. ~ Sealed(committed) /\ Record!Keeps(committed, committed')
    BY <2>1 DEF ImportInv, Keeps
  <2> QED BY <2>2 DEF Record!Write, Record!Sealed, Sealed
<1> QED BY <1>1, <1>2, ImportInvariant, PTL DEF Spec, ImplementsBatchRecord, Record!Spec

-----------------------------------------------------------------------------
(* The desk of the procedures: the inductive invariant. *)

Steps == UNION {StepsOf[t] : t \in Types}
CaseId == Cases \cup {None}
EditType == [case: CaseId, version: 0..MaxCaseVersion, current: Statuses \cup {"NEW"}]
TickType == [case: Cases, type: Types, done: SUBSET Steps]
DraftType == [case: CaseId, version: 0..MaxCaseVersion, type: Types, status: Statuses]
StepType == [case: Cases, step: Steps, version: {0, 1}]
CallType == [at: {"list"}, of: {None}] \cup [at: {"steps"}, of: Cases]
            \cup [at: {"check", "save", "saved"}, of: DraftType]
            \cup [at: {"step", "stepped"}, of: StepType]

DeskTypes ==
    /\ row \in [Cases -> Rows \cup {None}]
    /\ done \in [Cases -> SUBSET Steps]
    /\ listed \in [Pages -> [Cases -> Rows \cup {None}]]
    /\ editing \in [Pages -> EditType \cup {None}]
    /\ ticks \in [Pages -> TickType \cup {None}]
    /\ call \in [Pages -> CallType \cup {None}]

\* The case had this status when it had this version, which is not ahead of the row.
Saw(c, version, status) ==
    /\ row[c] # None /\ version <= row[c].version
    /\ version = row[c].version => status = row[c].status

\* A save with this version that is taken moves the case as the desk allows.
MayFollow(c, version, status) ==
    /\ row[c] # None /\ version <= row[c].version
    /\ version = row[c].version => status \in Transitions(row[c].status)

ListedSeen ==
    \A p \in Pages : \A c \in Cases :
        listed[p][c] # None => Saw(c, listed[p][c].version, listed[p][c].status)

EditOK(f) ==
    f # None => IF f.case = None THEN f.current = "NEW" ELSE Saw(f.case, f.version, f.current)

CallOK(r) ==
    r # None =>
        /\ r.at = "steps" => row[r.of] # None
        /\ r.at \in {"step", "stepped"} => row[r.of.case] # None
        /\ r.at \in {"check", "save"} =>
              IF r.of.case = None THEN r.of.status \in Transitions("NEW")
                                  ELSE MayFollow(r.of.case, r.of.version, r.of.status)

DeskInv ==
    /\ DeskTypes
    /\ ListedSeen
    /\ \A p \in Pages : /\ EditOK(editing[p]) /\ CallOK(call[p])
                        /\ ticks[p] # None => row[ticks[p].case] # None
    /\ ConfirmedOnChecklist

-----------------------------------------------------------------------------
(* The desk: what the steps have in common. *)

\* A page that gets another request, or keeps its own, while no case changes.
LEMMA CallMoves ==
    ASSUME DeskInv, NEW p \in Pages, NEW r \in CallType \cup {None}, CallOK(r),
           UNCHANGED row, UNCHANGED call \/ call' = [call EXCEPT ![p] = r]
    PROVE  call' \in [Pages -> CallType \cup {None}] /\ \A q \in Pages : CallOK(call[q])'
<1>1. \A q \in Pages : call'[q] \in {call[q], r}
  BY DEF DeskInv, DeskTypes
<1>2. call' \in [Pages -> CallType \cup {None}]
  BY DEF DeskInv, DeskTypes
<1>3. \A q \in Pages : CallOK(call'[q])
  BY <1>1 DEF DeskInv
<1>4. \A q \in Pages : CallOK(call[q])' <=> CallOK(call'[q])
  BY DEF CallOK, MayFollow
<1> QED BY <1>2, <1>3, <1>4

LEMMA NoCallIsOK == CallOK(None)
  BY DEF CallOK

\* The rows, the checklists and what the pages show, while no case changes.
LEMMA DeskStands ==
    ASSUME DeskInv, UNCHANGED <<row, done>>,
           call' \in [Pages -> CallType \cup {None}], \A p \in Pages : CallOK(call[p])',
           listed' \in [Pages -> [Cases -> Rows \cup {None}]],
           \A p \in Pages : listed'[p] \in {listed[p], row},
           editing' \in [Pages -> EditType \cup {None}],
           \A p \in Pages : EditOK(editing'[p]),
           ticks' \in [Pages -> TickType \cup {None}],
           \A p \in Pages : ticks'[p] # None => row[ticks'[p].case] # None
    PROVE  DeskInv'
<1>1. DeskTypes'
  BY DEF DeskInv, DeskTypes
<1>2. \A c \in Cases : row[c] # None => row[c].version \in 1..MaxCaseVersion
  BY DEF DeskInv, DeskTypes, Rows
<1>3. \A p \in Pages : \A c \in Cases :
         listed'[p][c] # None => Saw(c, listed'[p][c].version, listed'[p][c].status)
  BY <1>2 DEF DeskInv, ListedSeen, Saw
<1>4. ListedSeen'
  BY <1>3 DEF ListedSeen, Saw
<1>5. \A p \in Pages : EditOK(editing[p])'
  BY DEF EditOK, Saw
<1>6. ConfirmedOnChecklist'
  BY DEF DeskInv, ConfirmedOnChecklist, Existing
<1> QED BY <1>1, <1>4, <1>5, <1>6 DEF DeskInv

\* What stays as it was is still right.
LEMMA UnchangedIsOK ==
    ASSUME DeskInv
    PROVE  /\ UNCHANGED listed => /\ listed' \in [Pages -> [Cases -> Rows \cup {None}]]
                                  /\ \A p \in Pages : listed'[p] \in {listed[p], row}
           /\ UNCHANGED editing => /\ editing' \in [Pages -> EditType \cup {None}]
                                   /\ \A p \in Pages : EditOK(editing'[p])
           /\ UNCHANGED ticks => /\ ticks' \in [Pages -> TickType \cup {None}]
                                 /\ \A p \in Pages : ticks'[p] # None => row[ticks'[p].case] # None
  BY DEF DeskInv, DeskTypes

\* A case that is inserted, or moves to its next version: what was seen of it, and
\* what may follow, stays right.
LEMMA RowMoves ==
    ASSUME DeskTypes, NEW c \in Cases, NEW to \in Rows, row' = [row EXCEPT ![c] = to],
           row[c] # None => to.version = row[c].version + 1
    PROVE  /\ row' \in [Cases -> Rows \cup {None}]
           /\ row'[c] = to /\ \A d \in Cases : d # c => row'[d] = row[d]
           /\ \A d \in Cases : row[d] # None => row'[d] # None
           /\ \A d \in Cases : \A version \in 0..MaxCaseVersion : \A status :
                 Saw(d, version, status) => Saw(d, version, status)'
           /\ \A d \in Cases : \A version \in 0..MaxCaseVersion : \A status :
                 MayFollow(d, version, status) => MayFollow(d, version, status)'
<1>1. /\ row' \in [Cases -> Rows \cup {None}]
      /\ row'[c] = to /\ \A d \in Cases : d # c => row'[d] = row[d]
  BY DEF DeskTypes
<1>2. \A d \in Cases : row[d] # None => row'[d] # None
  BY <1>1, ProcedureAssumption
<1>3. \A version \in 0..MaxCaseVersion : row[c] # None /\ version <= row[c].version =>
         version < to.version
  <2>1. row[c] # None => row[c].version \in Nat
    BY DEF DeskTypes, Rows
  <2> QED BY <2>1
<1>4. ASSUME NEW d \in Cases, NEW version \in 0..MaxCaseVersion, NEW status,
             Saw(d, version, status)
      PROVE  Saw(d, version, status)'
  <2>1. CASE d # c
    BY <1>1, <1>4, <2>1 DEF Saw
  <2>2. CASE d = c
    BY <1>1, <1>2, <1>3, <1>4, <2>2 DEF Saw, Rows
  <2> QED BY <2>1, <2>2
<1>5. ASSUME NEW d \in Cases, NEW version \in 0..MaxCaseVersion, NEW status,
             MayFollow(d, version, status)
      PROVE  MayFollow(d, version, status)'
  <2>1. CASE d # c
    BY <1>1, <1>5, <2>1 DEF MayFollow
  <2>2. CASE d = c
    BY <1>1, <1>2, <1>3, <1>5, <2>2 DEF MayFollow, Rows
  <2> QED BY <2>1, <2>2
<1> QED BY <1>1, <1>2, <1>4, <1>5

-----------------------------------------------------------------------------
(* The desk: the steps. *)

\* The steps of a page that change only its request.
LEMMA RequestKeepsInv ==
    ASSUME DeskInv, NEW p \in Pages, NEW r \in CallType \cup {None}, CallOK(r),
           UNCHANGED <<row, done, listed, editing, ticks>>,
           UNCHANGED call \/ call' = [call EXCEPT ![p] = r]
    PROVE  DeskInv'
  BY CallMoves, DeskStands, UnchangedIsOK

LEMMA ListCallIsOK == [at |-> "list", of |-> None] \in CallType /\ CallOK([at |-> "list", of |-> None])
  BY DEF CallType, CallOK

LEMMA LoadCasesKeepsInv ==
    ASSUME DeskInv, NEW p \in Pages, LoadCases(p) \/ Fails(p)
    PROVE  DeskInv'
<1>1. CASE LoadCases(p)
  <2>1. UNCHANGED call \/ call' = [call EXCEPT ![p] = [at |-> "list", of |-> None]]
    BY <1>1 DEF LoadCases, Request, DeskInv, DeskTypes
  <2> QED BY <1>1, <2>1, ListCallIsOK, RequestKeepsInv DEF LoadCases
<1>2. CASE Fails(p)
  BY <1>2, NoCallIsOK, RequestKeepsInv DEF Fails, Ends
<1> QED BY <1>1, <1>2

\* A form opens with what the page shows, and closes.
LEMMA FormMoves ==
    ASSUME DeskInv, NEW p \in Pages, NEW f \in EditType \cup {None}, EditOK(f),
           UNCHANGED <<row, done, listed, ticks, call>>, editing' = [editing EXCEPT ![p] = f]
    PROVE  DeskInv'
<1>1. editing' \in [Pages -> EditType \cup {None}]
  BY DEF DeskInv, DeskTypes
<1>2. \A q \in Pages : EditOK(editing'[q])
  BY DEF DeskInv, DeskTypes
<1>3. call' \in [Pages -> CallType \cup {None}] /\ \A q \in Pages : CallOK(call[q])'
  BY CallMoves, NoCallIsOK
<1> QED BY <1>1, <1>2, <1>3, DeskStands, UnchangedIsOK

LEMMA NoFormIsOK == EditOK(None)
  BY DEF EditOK

LEMMA EditKeepsInv ==
    ASSUME DeskInv, NEW p \in Pages,
           OpenNew(p) \/ Cancel(p) \/ \E c \in Cases : Edit(p, c)
    PROVE  DeskInv'
<1>1. CASE OpenNew(p)
  <2> DEFINE f == [case |-> None, version |-> 0, current |-> "NEW"]
  <2>1. f \in EditType /\ EditOK(f)
    BY ProcedureAssumption DEF EditType, CaseId, EditOK
  <2> HIDE DEF f
  <2> QED BY <1>1, <2>1, FormMoves DEF OpenNew, f
<1>2. CASE Cancel(p)
  BY <1>2, NoFormIsOK, FormMoves DEF Cancel
<1>3. ASSUME NEW c \in Cases, Edit(p, c) PROVE DeskInv'
  <2> DEFINE f == [case |-> c, version |-> listed[p][c].version,
                   current |-> listed[p][c].status]
  <2>1. listed[p][c] \in Rows
    BY <1>3 DEF Edit, DeskInv, DeskTypes
  <2>2. f \in EditType
    BY <2>1 DEF EditType, CaseId, Rows
  <2>3. EditOK(f)
    BY <1>3, ProcedureAssumption DEF EditOK, Edit, DeskInv, ListedSeen
  <2>4. editing' = [editing EXCEPT ![p] = f] /\ UNCHANGED <<row, done, listed, ticks, call>>
    BY <1>3 DEF Edit
  <2> HIDE DEF f
  <2> QED BY <2>2, <2>3, <2>4, FormMoves
<1> QED BY <1>1, <1>2, <1>3

\* The draft is what the desk allows for the status the page saw.
LEMMA SubmitCaseKeepsInv ==
    ASSUME DeskInv, NEW p \in Pages, NEW type \in Types, NEW status \in Statuses,
           SubmitCase(p, type, status)
    PROVE  DeskInv'
<1> DEFINE f == editing[p]
           draft == [case |-> f.case, version |-> f.version, type |-> type, status |-> status]
           r == [at |-> IF status = "CONFIRMED" THEN "check" ELSE "save", of |-> draft]
<1>1. /\ f # None /\ status \in Transitions(f.current)
      /\ UNCHANGED <<row, done, listed, editing, ticks>>
      /\ UNCHANGED call \/ call' = [call EXCEPT ![p] = r]
  BY DEF SubmitCase, Request, DeskInv, DeskTypes
<1>2. f \in EditType /\ EditOK(f)
  BY <1>1 DEF DeskInv, DeskTypes
<1>3. r \in CallType
  BY <1>2 DEF EditType, DraftType, CallType
<1>4. IF draft.case = None THEN draft.status \in Transitions("NEW")
                           ELSE MayFollow(draft.case, draft.version, draft.status)
  BY <1>1, <1>2 DEF EditOK, Saw, MayFollow
<1>5. r.at \in {"check", "save"} /\ r.of = draft
  OBVIOUS
<1> HIDE DEF f, draft, r
<1>6. CallOK(r)
  BY <1>4, <1>5 DEF CallOK
<1> QED BY <1>1, <1>3, <1>6, RequestKeepsInv

\* A page that asks for a checklist shows none meanwhile.
LEMMA ChecklistAsked ==
    ASSUME DeskInv, NEW p \in Pages, NEW c \in Cases, row[c] # None,
           UNCHANGED <<row, done, listed, editing>>, ticks' = [ticks EXCEPT ![p] = None],
           UNCHANGED call \/ call' = [call EXCEPT ![p] = [at |-> "steps", of |-> c]]
    PROVE  DeskInv'
<1> DEFINE r == [at |-> "steps", of |-> c]
<1>1. r \in CallType /\ r.at = "steps" /\ r.of = c
  BY DEF CallType
<1>2. UNCHANGED call \/ call' = [call EXCEPT ![p] = r]
  OBVIOUS
<1> HIDE DEF r
<1>3. CallOK(r)
  BY <1>1 DEF CallOK
<1>4. call' \in [Pages -> CallType \cup {None}] /\ \A q \in Pages : CallOK(call[q])'
  BY <1>1, <1>2, <1>3, CallMoves
<1>5. /\ ticks' \in [Pages -> TickType \cup {None}]
      /\ \A q \in Pages : ticks'[q] # None => row[ticks'[q].case] # None
  BY DEF DeskInv, DeskTypes
<1> QED BY <1>4, <1>5, DeskStands, UnchangedIsOK

LEMMA ShowStepsKeepsInv ==
    ASSUME DeskInv, NEW p \in Pages, NEW c \in Cases, ShowSteps(p, c)
    PROVE  DeskInv'
<1>1. row[c] # None
  BY DEF ShowSteps, DeskInv, ListedSeen, Saw
<1>2. UNCHANGED call \/ call' = [call EXCEPT ![p] = [at |-> "steps", of |-> c]]
  BY DEF ShowSteps, Request, DeskInv, DeskTypes
<1> QED BY <1>1, <1>2, ChecklistAsked DEF ShowSteps

LEMMA StepSavedKeepsInv ==
    ASSUME DeskInv, NEW p \in Pages, StepSaved(p)
    PROVE  DeskInv'
<1>1. PICK c \in Cases : c = call[p].of.case /\ row[c] # None
  BY DEF StepSaved, At, Busy, DeskInv, DeskTypes, CallType, StepType, CallOK
<1> QED BY <1>1, ChecklistAsked DEF StepSaved, Becomes

LEMMA TickKeepsInv ==
    ASSUME DeskInv, NEW p \in Pages, NEW step, Tick(p, step)
    PROVE  DeskInv'
<1> DEFINE of == [case |-> ticks[p].case, step |-> step,
                  version |-> IF step \in ticks[p].done THEN 1 ELSE 0]
           r == [at |-> "step", of |-> of]
<1>1. ticks[p] \in TickType /\ row[ticks[p].case] # None /\ step \in Steps
  BY DEF Tick, DeskInv, DeskTypes, TickType, Steps
<1>2. of \in StepType /\ of.case = ticks[p].case
  BY <1>1 DEF StepType, TickType
<1>3. UNCHANGED call \/ call' = [call EXCEPT ![p] = r]
  BY DEF Tick, Request, DeskInv, DeskTypes
<1> HIDE DEF of
<1>4. r \in CallType /\ r.at = "step" /\ r.of = of
  BY <1>2 DEF CallType
<1> HIDE DEF r
<1>5. CallOK(r)
  BY <1>1, <1>2, <1>4 DEF CallOK
<1> QED BY <1>3, <1>4, <1>5, RequestKeepsInv DEF Tick

\* The list a page gets is the table as it is.
LEMMA CasesListedKeepsInv ==
    ASSUME DeskInv, NEW p \in Pages, CasesListed(p)
    PROVE  DeskInv'
<1>1. /\ listed' = [listed EXCEPT ![p] = row] /\ call' = [call EXCEPT ![p] = None]
      /\ UNCHANGED <<row, done, editing, ticks>>
  BY DEF CasesListed, Ends
<1>2. /\ listed' \in [Pages -> [Cases -> Rows \cup {None}]]
      /\ \A q \in Pages : listed'[q] \in {listed[q], row}
  BY <1>1 DEF DeskInv, DeskTypes
<1>3. call' \in [Pages -> CallType \cup {None}] /\ \A q \in Pages : CallOK(call[q])'
  BY <1>1, NoCallIsOK, CallMoves
<1> QED BY <1>1, <1>2, <1>3, DeskStands, UnchangedIsOK

LEMMA StepsShownKeepsInv ==
    ASSUME DeskInv, NEW p \in Pages, StepsShown(p)
    PROVE  DeskInv'
<1> DEFINE c == call[p].of
           t == [case |-> c, type |-> row[c].type, done |-> Completed(c)]
<1>1. /\ ticks' = [ticks EXCEPT ![p] = t] /\ call' = [call EXCEPT ![p] = None]
      /\ UNCHANGED <<row, done, listed, editing>>
  BY DEF StepsShown, Ends
<1>2. c \in Cases /\ row[c] # None
  BY DEF StepsShown, At, Busy, DeskInv, DeskTypes, CallType, CallOK
<1>3. row[c].type \in Types /\ Completed(c) \subseteq Steps
  BY <1>2 DEF DeskInv, DeskTypes, Rows, Completed, Steps
<1>4. t \in TickType /\ t.case = c
  BY <1>2, <1>3 DEF TickType
<1> HIDE DEF t
<1>5. /\ ticks' \in [Pages -> TickType \cup {None}]
      /\ \A q \in Pages : ticks'[q] # None => row[ticks'[q].case] # None
  BY <1>1, <1>2, <1>4 DEF DeskInv, DeskTypes
<1>6. call' \in [Pages -> CallType \cup {None}] /\ \A q \in Pages : CallOK(call[q])'
  BY <1>1, NoCallIsOK, CallMoves
<1> QED BY <1>1, <1>5, <1>6, DeskStands, UnchangedIsOK

LEMMA CheckedKeepsInv ==
    ASSUME DeskInv, NEW p \in Pages, Checked(p)
    PROVE  DeskInv'
<1> DEFINE r == [at |-> "save", of |-> call[p].of]
<1>1. /\ UNCHANGED <<row, done, listed, editing, ticks>> /\ At(p, "check")
      /\ call' = [call EXCEPT ![p] = r] \/ call' = [call EXCEPT ![p] = None]
  BY DEF Checked, Becomes, Ends
<1>2. call[p].of \in DraftType
  BY <1>1 DEF At, Busy, DeskInv, DeskTypes, CallType
<1>3. r \in CallType /\ r.at = "save" /\ r.of = call[p].of
  BY <1>2 DEF CallType
<1> HIDE DEF r
<1>4. CallOK(r)
  BY <1>1, <1>3 DEF At, Busy, DeskInv, CallOK
<1> QED BY <1>1, <1>3, <1>4, NoCallIsOK, RequestKeepsInv

\* A save that is taken: the version is the one the page saw, so the status is one the
\* desk allows; and the trigger looks at the checklist of the new type.
LEMMA SaveRow ==
    ASSUME DeskInv, NEW p \in Pages, NEW c \in Cases, Save(p, c)
    PROVE  \E to \in Rows :
              /\ row' = [row EXCEPT ![c] = to]
              /\ row[c] # None => to.version = row[c].version + 1
              /\ to.status = "CONFIRMED" => StepsOf[to.type] \subseteq done[c]
              /\ to.status \in Transitions(IF row[c] = None THEN "NEW" ELSE row[c].status)
<1> DEFINE d == call[p].of
<1>1. /\ call[p] \in CallType /\ call[p].at = "save" /\ CallOK(call[p])
      /\ InsertCase(c, d) \/ UpdateCase(c, d)
  BY DEF Save, At, Busy, DeskInv, DeskTypes
<1>2. d \in DraftType /\ call[p] # None
  BY <1>1 DEF CallType, Save, At, Busy
<1>3. CASE InsertCase(c, d)
  <2> DEFINE to == [type |-> d.type, status |-> d.status, version |-> 1]
  <2>1. row' = [row EXCEPT ![c] = to] /\ row[c] = None /\ d.case = None
        /\ Confirmable(c, d.type, d.status)
    BY <1>3 DEF InsertCase, Existing
  <2>2. to \in Rows
    BY <1>2, ProcedureAssumption DEF DraftType, Rows
  <2>3. d.status \in Transitions("NEW")
    BY <1>1, <1>2, <2>1 DEF CallOK
  <2> QED BY <2>1, <2>2, <2>3 DEF Confirmable
<1>4. CASE UpdateCase(c, d)
  <2> DEFINE to == [type |-> d.type, status |-> d.status, version |-> row[c].version + 1]
  <2>1. /\ row' = [row EXCEPT ![c] = to] /\ d.case = c /\ row[c].version = d.version
        /\ row[c].version < MaxCaseVersion /\ Confirmable(c, d.type, d.status)
    BY <1>4 DEF UpdateCase, CaseVersionIs
  <2>2. MayFollow(c, d.version, d.status)
    BY <1>1, <1>2, <2>1, ProcedureAssumption DEF CallOK
  <2>3. row[c] \in Rows /\ row[c] # None /\ d.status \in Transitions(row[c].status)
    BY <2>1, <2>2 DEF MayFollow, DeskInv, DeskTypes
  <2>4. to \in Rows
    BY <1>2, <2>1, <2>3, ProcedureAssumption DEF DraftType, Rows
  <2> QED BY <2>1, <2>3, <2>4 DEF Confirmable
<1> QED BY <1>1, <1>3, <1>4

LEMMA SaveKeepsInv ==
    ASSUME DeskInv, NEW p \in Pages, NEW c \in Cases, Save(p, c)
    PROVE  DeskInv'
<1>1. PICK to \in Rows :
         /\ row' = [row EXCEPT ![c] = to]
         /\ row[c] # None => to.version = row[c].version + 1
         /\ to.status = "CONFIRMED" => StepsOf[to.type] \subseteq done[c]
  BY SaveRow
<1>2. /\ row' \in [Cases -> Rows \cup {None}]
      /\ row'[c] = to /\ \A d \in Cases : d # c => row'[d] = row[d]
      /\ \A d \in Cases : row[d] # None => row'[d] # None
      /\ \A d \in Cases : \A version \in 0..MaxCaseVersion : \A status :
            Saw(d, version, status) => Saw(d, version, status)'
      /\ \A d \in Cases : \A version \in 0..MaxCaseVersion : \A status :
            MayFollow(d, version, status) => MayFollow(d, version, status)'
  BY <1>1, RowMoves DEF DeskInv
<1> DEFINE r == [at |-> "saved", of |-> call[p].of]
<1>3. UNCHANGED <<done, listed, editing, ticks>> /\ call' = [call EXCEPT ![p] = r]
  BY DEF Save, Becomes
<1>4. r \in CallType /\ r.at = "saved"
  BY DEF Save, At, Busy, DeskInv, DeskTypes, CallType
<1> HIDE DEF r
<1>5. DeskTypes'
  BY <1>2, <1>3, <1>4 DEF DeskInv, DeskTypes
<1>6. ListedSeen'
  <2> SUFFICES ASSUME NEW q \in Pages, NEW d \in Cases, listed[q][d] # None
               PROVE  Saw(d, listed[q][d].version, listed[q][d].status)'
    BY <1>3 DEF ListedSeen
  <2>1. listed[q][d].version \in 0..MaxCaseVersion
    BY DEF DeskInv, DeskTypes, Rows
  <2>2. Saw(d, listed[q][d].version, listed[q][d].status)
    BY DEF DeskInv, ListedSeen
  <2> QED BY <1>2, <1>3, <2>1, <2>2
<1>7. ASSUME NEW q \in Pages PROVE EditOK(editing[q])'
  <2> SUFFICES ASSUME editing[q] # None, editing[q].case # None
               PROVE  Saw(editing[q].case, editing[q].version, editing[q].current)'
    BY <1>3 DEF EditOK, DeskInv
  <2>1. editing[q].case \in Cases /\ editing[q].version \in 0..MaxCaseVersion
    BY DEF DeskInv, DeskTypes, EditType, CaseId
  <2>2. Saw(editing[q].case, editing[q].version, editing[q].current)
    BY DEF DeskInv, EditOK
  <2> QED BY <1>2, <1>3, <2>1, <2>2
<1>8. ASSUME NEW q \in Pages PROVE CallOK(call[q])'
  <2>1. CASE q = p
    BY <1>3, <1>4, <2>1 DEF CallOK, DeskInv, DeskTypes
  <2>2. CASE q # p
    <3>1. call'[q] = call[q]
      BY <1>3, <2>2 DEF DeskInv, DeskTypes
    <3> SUFFICES ASSUME call[q] # None PROVE CallOK(call[q])'
      BY <3>1 DEF CallOK
    <3>2. call[q] \in CallType /\ CallOK(call[q])
      BY DEF DeskInv, DeskTypes
    <3>3. call[q].at = "steps" => row'[call[q].of] # None
      BY <1>2, <3>2 DEF CallOK, CallType
    <3>4. call[q].at \in {"step", "stepped"} => row'[call[q].of.case] # None
      BY <1>2, <3>2 DEF CallOK, CallType, StepType
    <3>5. ASSUME call[q].at \in {"check", "save"}
          PROVE  IF call[q].of.case = None
                   THEN call[q].of.status \in Transitions("NEW")
                   ELSE MayFollow(call[q].of.case, call[q].of.version, call[q].of.status)'
      <4>1. call[q].of \in DraftType
        BY <3>2, <3>5 DEF CallType
      <4>2. CASE call[q].of.case = None
        BY <3>2, <3>5, <4>2 DEF CallOK
      <4>3. CASE call[q].of.case # None
        <5>1. /\ call[q].of.case \in Cases /\ call[q].of.version \in 0..MaxCaseVersion
              /\ MayFollow(call[q].of.case, call[q].of.version, call[q].of.status)
          BY <3>2, <3>5, <4>1, <4>3 DEF CallOK, DraftType, CaseId
        <5> QED BY <1>2, <3>1, <4>3, <5>1
      <4> QED BY <4>2, <4>3
    <3> QED BY <3>1, <3>3, <3>4, <3>5 DEF CallOK
  <2> QED BY <2>1, <2>2
<1>9. ASSUME NEW q \in Pages, ticks[q] # None PROVE row'[ticks[q].case] # None
  BY <1>2, <1>9 DEF DeskInv, DeskTypes, TickType
<1>10. ConfirmedOnChecklist'
  BY <1>1, <1>2, <1>3 DEF DeskInv, ConfirmedOnChecklist, Existing
<1> QED BY <1>3, <1>5, <1>6, <1>7, <1>8, <1>9, <1>10 DEF DeskInv

\* The form that is cleared, and the list that is asked for.
LEMMA SavedKeepsInv ==
    ASSUME DeskInv, NEW p \in Pages, Saved(p)
    PROVE  DeskInv'
<1>1. /\ editing' = [editing EXCEPT ![p] = None]
      /\ call' = [call EXCEPT ![p] = [at |-> "list", of |-> None]]
      /\ UNCHANGED <<row, done, listed, ticks>>
  BY DEF Saved, Becomes
<1>2. /\ editing' \in [Pages -> EditType \cup {None}]
      /\ \A q \in Pages : EditOK(editing'[q])
  BY <1>1, NoFormIsOK DEF DeskInv, DeskTypes
<1>3. call' \in [Pages -> CallType \cup {None}] /\ \A q \in Pages : CallOK(call[q])'
  BY <1>1, ListCallIsOK, CallMoves
<1> QED BY <1>1, <1>2, <1>3, DeskStands, UnchangedIsOK

\* A step that is taken: completed steps only grow.
LEMMA SaveStepKeepsInv ==
    ASSUME DeskInv, NEW p \in Pages, SaveStep(p)
    PROVE  DeskInv'
<1> DEFINE of == call[p].of
           r == [at |-> "stepped", of |-> of]
<1>1. /\ UNCHANGED <<row, listed, editing, ticks>> /\ call' = [call EXCEPT ![p] = r]
      /\ TakeStep(of.case, of.step, of.version)
  BY DEF SaveStep, Becomes
<1>2. of \in StepType /\ row[of.case] # None
  BY DEF SaveStep, At, Busy, DeskInv, DeskTypes, CallType, CallOK
<1>3. r \in CallType /\ r.at = "stepped" /\ r.of = of
  BY <1>2 DEF CallType
<1> HIDE DEF r
<1>4. CallOK(r)
  BY <1>2, <1>3 DEF CallOK
<1>5. call' \in [Pages -> CallType \cup {None}] /\ \A q \in Pages : CallOK(call[q])'
  BY <1>1, <1>3, <1>4, CallMoves
<1>6. /\ done' \in [Cases -> SUBSET Steps]
      /\ \A c \in Cases : done[c] \subseteq done'[c]
  BY <1>1, <1>2 DEF TakeStep, DeskInv, DeskTypes, StepType
<1>7. DeskTypes'
  BY <1>1, <1>5, <1>6 DEF DeskInv, DeskTypes
<1>8. ListedSeen' /\ \A q \in Pages : EditOK(editing[q])'
  BY <1>1 DEF DeskInv, ListedSeen, EditOK, Saw
<1>9. ConfirmedOnChecklist'
  BY <1>1, <1>6 DEF DeskInv, ConfirmedOnChecklist, Existing
<1> QED BY <1>1, <1>5, <1>7, <1>8, <1>9 DEF DeskInv

LEMMA DeskStepKeepsInv == DeskInv /\ [ProcedureNext]_procedureVars => DeskInv'
<1> SUFFICES ASSUME DeskInv, [ProcedureNext]_procedureVars PROVE DeskInv'
  OBVIOUS
<1>1. CASE UNCHANGED procedureVars
  <2>1. UNCHANGED <<row, done, listed, editing, ticks, call>>
    BY <1>1 DEF procedureVars
  <2>2. \A q \in Pages : CallOK(call[q])'
    BY <2>1 DEF DeskInv, CallOK, MayFollow
  <2>3. call' \in [Pages -> CallType \cup {None}]
    BY <2>1 DEF DeskInv, DeskTypes
  <2> QED BY <2>1, <2>2, <2>3, DeskStands, UnchangedIsOK
<1> QED BY <1>1, LoadCasesKeepsInv, EditKeepsInv, SubmitCaseKeepsInv, ShowStepsKeepsInv,
           StepSavedKeepsInv, TickKeepsInv, CasesListedKeepsInv, StepsShownKeepsInv,
           CheckedKeepsInv, SaveKeepsInv, SavedKeepsInv, SaveStepKeepsInv
        DEF ProcedureNext

-----------------------------------------------------------------------------
(* The desk: the theorems. *)

\* What a page saw of a case stays a fact about its history, and what it sends rests
\* on it, however the pages' requests overlap, fail or are lost.
THEOREM DeskInvariant == ProcedureSpec => []DeskInv
<1>1. ProcedureInit => DeskInv
  <2> SUFFICES ASSUME ProcedureInit PROVE DeskInv
    OBVIOUS
  <2>1. DeskTypes
    BY DEF ProcedureInit, DeskTypes
  <2>2. ListedSeen /\ ConfirmedOnChecklist
    BY DEF ProcedureInit, ListedSeen, ConfirmedOnChecklist, Existing
  <2>3. \A p \in Pages : editing[p] = None /\ call[p] = None /\ ticks[p] = None
    BY DEF ProcedureInit
  <2> QED BY <2>1, <2>2, <2>3, NoCallIsOK, NoFormIsOK DEF DeskInv
<1>2. DeskInv /\ [ProcedureNext]_procedureVars => DeskInv'
  BY DeskStepKeepsInv
<1> QED BY <1>1, <1>2, PTL DEF ProcedureSpec

\* Every reachable state has the declared types.
THEOREM ProcedureTypeCorrect == ProcedureSpec => []ProcedureTypeOK
<1>1. DeskInv => ProcedureTypeOK
  <2> SUFFICES ASSUME DeskInv PROVE ProcedureTypeOK
    OBVIOUS
  <2>1. \A c \in Cases : done[c] \subseteq UNION {StepsOf[t] : t \in Types}
    BY DEF DeskInv, DeskTypes, Steps
  <2>2. \A p \in Pages : Busy(p) => call[p].at \in {"list", "steps", "check", "save", "saved",
                                                   "step", "stepped"}
    BY DEF DeskInv, DeskTypes, Busy, CallType
  <2> QED BY <2>1, <2>2 DEF DeskInv, DeskTypes, ProcedureTypeOK
<1> QED BY <1>1, DeskInvariant, PTL

\* A confirmed case has every step of its type completed.
THEOREM ConfirmedOnChecklistCorrect == ProcedureSpec => []ConfirmedOnChecklist
<1>1. DeskInv => ConfirmedOnChecklist
  BY DEF DeskInv
<1> QED BY <1>1, DeskInvariant, PTL

\* What DeskTransitions says of a step.
StatusFollows ==
    \A c \in Cases :
        row'[c] # row[c] =>
            row'[c].status \in Transitions(IF row[c] = None THEN "NEW" ELSE row[c].status)

LEMMA StepStatusFollows ==
    ASSUME DeskInv, [ProcedureNext]_procedureVars
    PROVE  StatusFollows
<1>1. CASE UNCHANGED row
  BY <1>1 DEF StatusFollows
<1>2. ASSUME NEW p \in Pages, NEW c \in Cases, Save(p, c) PROVE StatusFollows
  <2>1. PICK to \in Rows :
           /\ row' = [row EXCEPT ![c] = to]
           /\ to.status \in Transitions(IF row[c] = None THEN "NEW" ELSE row[c].status)
    BY <1>2, SaveRow
  <2>2. row'[c] = to /\ \A d \in Cases : d # c => row'[d] = row[d]
    BY <2>1 DEF DeskInv, DeskTypes
  <2> QED BY <2>1, <2>2 DEF StatusFollows
<1>3. UNCHANGED row \/ \E p \in Pages, c \in Cases : Save(p, c)
  BY DEF ProcedureNext, procedureVars, LoadCases, OpenNew, Cancel, Edit, ShowSteps, SubmitCase,
         Tick, CasesListed, StepsShown, Checked, Saved, SaveStep, StepSaved, Fails
<1> QED BY <1>1, <1>2, <1>3

\* The status of a case only follows the table of the desk.
THEOREM DeskTransitionsCorrect == ProcedureSpec => DeskTransitions
<1>1. DeskInv /\ [ProcedureNext]_procedureVars => [StatusFollows]_procedureVars
  BY StepStatusFollows
<1> QED BY <1>1, DeskInvariant, PTL DEF ProcedureSpec, DeskTransitions, StatusFollows

-----------------------------------------------------------------------------
(* The two side by side. *)

\* The run lets pages do less than the code, and one part at a time: every behaviour
\* of it is one of each component, so what is proved of them holds of the run.
LEMMA RunsImportAndDesk == MCSpec => Spec /\ ProcedureSpec
<1>1. MCInit => Init /\ ProcedureInit
  BY DEF MCInit
<1>2. [MCNext]_<<part, vars, procedureVars>> => [Next]_vars
  BY DEF MCNext
<1>3. [MCNext]_<<part, vars, procedureVars>> => [ProcedureNext]_procedureVars
  BY DEF MCNext, OneDeskEach
<1> QED BY <1>1, <1>2, <1>3, PTL DEF MCSpec, Spec, ProcedureSpec

\* Batch and desk keep their types, side by side.
THEOREM ImportAndProceduresTypeCorrect == MCSpec => []ComponentsTypeOK
<1>1. ImportTypeOK /\ ProcedureTypeOK => ComponentsTypeOK
  BY DEF ComponentsTypeOK
<1> QED BY <1>1, RunsImportAndDesk, ImportTypeCorrect, ProcedureTypeCorrect, PTL
=============================================================================
