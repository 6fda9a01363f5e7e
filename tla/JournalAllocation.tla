--------------------------- MODULE JournalAllocation ---------------------------
(***************************************************************************)
(* The ledger of accounting versions (M015): journal entries, lines and      *)
(* facts posted into a version, and sets of allocations that divide a fact   *)
(* among stores, in its version or in a child.  Transactions of several      *)
(* statements run at once under READ COMMITTED; a statement takes its row    *)
(* and advisory locks one after the other, and keeps them to the end.        *)
(***************************************************************************)
EXTENDS Naturals, Sequences, FiniteSetsExt, Absent

CONSTANTS
    Versions,   \* ids of accounting_versions, naturals for their order
    Children,   \* a function: the versions with a given parent and stream
    Facts,      \* postings whose fact the corporation has to allocate
    VersionOf,  \* a function: the version a posting is made in
    Amount,     \* a function: what a fact amounts to; every part has its sign
    Targets,    \* who may get a part: stores, and the corporation as remainder
    Txns

ASSUME LedgerAssumption ==
    /\ VersionOf \in [Facts -> Versions] /\ Children \in [Versions -> SUBSET Versions]
    /\ IsFiniteSet(Facts) /\ IsFiniteSet(Targets) /\ Amount \in [Facts -> Nat]
    /\ None \notin Txns

-----------------------------------------------------------------------------
(* Rows.  A fact is allocated once per version that may derive from it. *)

Version(v) == <<"version", v>>
Posting(f) == <<"posting", f>>
SetRow(f, v) == <<"set", f, v>>
Part(f, v, g) == <<"part", f, v, g>>

\* A set is in the version of its fact or in a child of it.
DerivedFrom(f) == {VersionOf[f]} \cup Children[VersionOf[f]]

VersionRows == {Version(v) : v \in Versions}
PostingRows == {Posting(f) : f \in Facts}
SetRows == UNION {{SetRow(f, v) : v \in DerivedFrom(f)} : f \in Facts}
PartRows == UNION {{Part(f, v, g) : v \in DerivedFrom(f), g \in Targets} : f \in Facts}
Rows == VersionRows \cup PostingRows \cup SetRows \cup PartRows

\* The advisory lock of a fact.
FactLock(f) == <<"fact", f>>
Locks == VersionRows \cup SetRows \cup {FactLock(f) : f \in Facts}

VARIABLES
    committed,  \* the tables as committed
    writes,     \* what each transaction has written
    holder,     \* who holds a lock
    statement   \* the statement a transaction executes, or None

ledgerVars == <<committed, writes, holder, statement>>

Empty == [r \in {} |-> None]

LedgerInit ==
    /\ committed = [r \in Rows |-> CASE r \in VersionRows -> "draft"
                                     [] r \in PostingRows \cup SetRows -> "none"
                                     [] OTHER -> 0]
    /\ writes = [t \in Txns |-> Empty]
    /\ holder = [l \in Locks |-> None]
    /\ statement = [t \in Txns |-> None]

\* A transaction sees its own writes and what is committed.
Sees(t) == [r \in Rows |-> IF r \in DOMAIN writes[t] THEN writes[t][r] ELSE committed[r]]

\* What a transaction has written, and one row more.
Put(written, row, value) ==
    [r \in DOMAIN written \cup {row} |-> IF r = row THEN value ELSE written[r]]

Parts(db, f, v) == [g \in Targets |-> db[Part(f, v, g)]]
Total(db, f, v) == SumFunction(Parts(db, f, v))

-----------------------------------------------------------------------------
(* Statements: what they write, which locks they take, when they pass. *)

\* The versions of a set, in the order of their ids.
Ordered(v, w) == IF v = w THEN <<Version(v)>>
                 ELSE IF v < w THEN <<Version(v), Version(w)>>
                 ELSE <<Version(w), Version(v)>>

\* INSERT of the entry, of the line, or of the fact.
PostFact(f) == [kind |-> "post", fact |-> f, version |-> VersionOf[f], part |-> None, amount |-> 0,
            need |-> <<Version(VersionOf[f])>>]
OpenSet(f, v) == [kind |-> "open", fact |-> f, version |-> v, part |-> None, amount |-> 0,
                  need |-> <<FactLock(f)>> \o Ordered(VersionOf[f], v)]
Allocate(f, v, g, n) == [kind |-> "allocate", fact |-> f, version |-> v, part |-> g, amount |-> n,
                         need |-> <<SetRow(f, v), FactLock(f), Version(v)>>]
Balance(f, v) == [kind |-> "balance", fact |-> f, version |-> v, part |-> None, amount |-> 0,
                  need |-> <<SetRow(f, v), FactLock(f)>> \o Ordered(VersionOf[f], v)]
\* UPDATE of the version, which leaves draft.
Leave(v) == [kind |-> "leave", fact |-> None, version |-> v, part |-> None, amount |-> 0,
             need |-> <<Version(v)>>]

StatementType ==
    [kind: {"post", "open", "allocate", "balance", "leave"}, fact: Facts \cup {None},
     version: Versions, part: Targets \cup {None}, amount: Nat, need: Seq(Locks)]

ASSUME NoneIsNoStatement == None \notin StatementType

Statements ==
    UNION {
      {PostFact(f) : f \in Facts},
      UNION {{OpenSet(f, v) : v \in DerivedFrom(f)} : f \in Facts},
      UNION {{Balance(f, v) : v \in DerivedFrom(f)} : f \in Facts},
      UNION {{Allocate(f, v, g, n) : v \in DerivedFrom(f), g \in Targets, n \in 1..Amount[f]}
               : f \in Facts},
      {Leave(v) : v \in Versions}}

IsDraft(db, v) == db[Version(v)] = "draft"

\* Mutant of SourceIsDraft: the version of the fact is not looked at.
SourceUnchecked(db, s) == TRUE

\* The version of the fact must be a draft as well.
SourceIsDraft(db, s) == IsDraft(db, VersionOf[s.fact])

\* The parts so far and the new one are within the amount.
WithinAmount(db, s) == Total(db, s.fact, s.version) + s.amount <= Amount[s.fact]

\* Mutant of Reconciles: a remainder may be left out.
LeavesRemainder(db, s) == Total(db, s.fact, s.version) <= Amount[s.fact]

\* The parts of a set that is balanced are the amount.
Reconciles(db, s) == Total(db, s.fact, s.version) = Amount[s.fact]

\* What the trigger and the constraints demand once all locks are held.
Passes(db, s) ==
    /\ IsDraft(db, s.version)
    /\ s.kind = "post" => db[Posting(s.fact)] # "fact"
    /\ s.kind = "open" => SourceIsDraft(db, s) /\ db[SetRow(s.fact, s.version)] = "none"
    /\ s.kind = "allocate" => /\ db[SetRow(s.fact, s.version)] = "draft"
                              /\ db[Part(s.fact, s.version, s.part)] = 0
                              /\ WithinAmount(db, s)
    /\ s.kind = "balance" => /\ db[SetRow(s.fact, s.version)] = "draft"
                             /\ SourceIsDraft(db, s)
                             /\ Reconciles(db, s)

NextStage(stage) ==
    CASE stage = "none" -> "entry" [] stage = "entry" -> "line" [] OTHER -> "fact"

\* The row it writes, and with what.
RowOf(s) ==
    CASE s.kind = "post" -> Posting(s.fact)
      [] s.kind \in {"open", "balance"} -> SetRow(s.fact, s.version)
      [] s.kind = "allocate" -> Part(s.fact, s.version, s.part)
      [] s.kind = "leave" -> Version(s.version)

NewValue(db, s) ==
    CASE s.kind = "post" -> NextStage(db[Posting(s.fact)])
      [] s.kind = "open" -> "draft"
      [] s.kind = "allocate" -> s.amount
      [] s.kind = "balance" -> "balanced"
      [] s.kind = "leave" -> "validating"

-----------------------------------------------------------------------------
(* Transactions. *)

\* The fact of a new set is read after its own lock and before those of the
\* versions.
FindsFact(t, s) ==
    s.kind = "open" /\ Head(s.need) \in VersionRows => Sees(t)[Posting(s.fact)] = "fact"

\* A statement takes its next lock when that is free, and passes with the last.
\* A set is found when its own lock is taken: it stays once it is there.
Advance(t, s) ==
    /\ holder[Head(s.need)] \in {t, None}
    /\ FindsFact(t, s)
    /\ holder' = [holder EXCEPT ![Head(s.need)] = t]
    /\ \/ /\ Len(s.need) > 1
          /\ statement' = [statement EXCEPT ![t] = [s EXCEPT !.need = Tail(@)]]
          /\ UNCHANGED writes
       \/ /\ Len(s.need) = 1
          /\ Passes(Sees(t), s)
          /\ writes' = [writes EXCEPT ![t] = Put(@, RowOf(s), NewValue(Sees(t), s))]
          /\ statement' = [statement EXCEPT ![t] = None]
    /\ UNCHANGED committed

StartStatement(t, s) ==
    /\ statement[t] = None
    /\ s.kind \in {"allocate", "balance"} => Sees(t)[SetRow(s.fact, s.version)] # "none"
    /\ Advance(t, s)

Continue(t) == statement[t] # None /\ Advance(t, statement[t])

\* Mutant of Released: the locks outlive the transaction.
KeepsLocks(t) == holder

Released(t) == [l \in Locks |-> IF holder[l] = t THEN None ELSE holder[l]]

Commit(t) ==
    /\ statement[t] = None
    /\ committed' = Sees(t)
    /\ writes' = [writes EXCEPT ![t] = Empty]
    /\ holder' = Released(t)
    /\ UNCHANGED statement

\* A statement that fails, a deadlock or the client ends the transaction.
Rollback(t) ==
    /\ writes' = [writes EXCEPT ![t] = Empty]
    /\ statement' = [statement EXCEPT ![t] = None]
    /\ holder' = Released(t)
    /\ UNCHANGED committed

LedgerNext ==
    \E t \in Txns :
        \/ \E s \in Statements : StartStatement(t, s)
        \/ Continue(t) \/ Commit(t) \/ Rollback(t)

LedgerSpec == LedgerInit /\ [][LedgerNext]_ledgerVars

-----------------------------------------------------------------------------
(* What the evaluator of M016 and the projection of M018 read. *)

\* allocation_completeness: the facts of a version without a balanced set.
Uncovered(db, v) ==
    {f \in Facts : /\ VersionOf[f] = v /\ db[Posting(f)] = "fact"
                   /\ \A w \in DerivedFrom(f) : db[SetRow(f, w)] # "balanced"}

\* The lines of a version: a fact, or the parts of its balanced set in the same
\* version.
ShownLines(db, v) ==
    UNION {IF db[SetRow(f, v)] = "balanced"
             THEN {<<f, g, db[Part(f, v, g)]>> : g \in {h \in Targets : db[Part(f, v, h)] > 0}}
             ELSE {<<f, None, Amount[f]>>}
           : f \in {h \in Facts : VersionOf[h] = v /\ db[Posting(h)] = "fact"}}

-----------------------------------------------------------------------------
(* Properties. *)

\* The type invariant; two transactions never write one row, and locks belong to
\* transactions under way.
LedgerTypeOK ==
    /\ DOMAIN committed = Rows
    /\ \A r \in VersionRows : committed[r] \in {"draft", "validating"}
    /\ \A r \in PostingRows : committed[r] \in {"none", "entry", "line", "fact"}
    /\ \A r \in SetRows : committed[r] \in {"none", "draft", "balanced"}
    /\ \A t \in Txns : DOMAIN writes[t] \subseteq Rows
    /\ \A t, u \in Txns : t # u => DOMAIN writes[t] \cap DOMAIN writes[u] = {}
    /\ \A l \in Locks : holder[l] # None =>
          holder[l] \in Txns /\ (writes[holder[l]] # Empty \/ statement[holder[l]] # None)

\* The parts of a balanced set are its fact, no more and no less.
BalancedIsWhole(db) ==
    \A f \in Facts : \A v \in DerivedFrom(f) :
        db[SetRow(f, v)] = "balanced" => Total(db, f, v) = Amount[f]

\* A set is one of a fact that is there.
SetsHaveFacts(db) ==
    \A f \in Facts : \A v \in DerivedFrom(f) :
        db[SetRow(f, v)] # "none" => db[Posting(f)] = "fact"

\* Parts never exceed their fact, a balanced set is its fact, and so a version shows
\* what was posted into it, without counting anything twice.
AllocationsReconcile ==
    /\ BalancedIsWhole(committed) /\ SetsHaveFacts(committed)
    /\ \A f \in Facts : \A v \in DerivedFrom(f) : Total(committed, f, v) <= Amount[f]
    /\ \A v \in Versions :
          MapThenSumSet(LAMBDA line : line[3], ShownLines(committed, v))
             = MapThenSumSet(LAMBDA f : Amount[f],
                  {f \in Facts : VersionOf[f] = v /\ committed[Posting(f)] = "fact"})

\* Once a version has left draft, what M016 finds in its allocations and what
\* M018 shows of it stay as they are, whatever transactions were under way.
EvidenceStands ==
    [][\A v \in Versions : ~ IsDraft(committed, v) =>
          /\ Uncovered(committed', v) = Uncovered(committed, v)
          /\ ShownLines(committed', v) = ShownLines(committed, v)]_ledgerVars

=============================================================================
