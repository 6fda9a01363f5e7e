--------------------------- MODULE NotificationQueue ---------------------------
(***************************************************************************)
(* The LINE WORKS notification queue: rows of os.notifications, enqueued by *)
(* the hub API for an IDEA LINK post and by other modules, and sent by runs *)
(* of send-line-works-notifications, over the whole queue or for one id.    *)
(*                                                                         *)
(* Neither side takes a lock: the hub API looks for a row of the post and   *)
(* inserts one a round trip later, a run selects the queued rows and writes *)
(* each status after its delivery.  Calls and runs interleave at every      *)
(* await; a provider call or an update may fail, with or without its effect.*)
(***************************************************************************)
EXTENDS Naturals, Sequences, FiniteSets, SequencesExt, Absent

CONSTANTS
    Rows,       \* notification ids
    Posts,      \* IDEA LINK posts
    Calls,      \* calls of the hub API's enqueue action
    Runs,       \* invocations of the sender that may overlap; a slot is reused
    Kind,       \* [Rows -> Kinds]: what a row is when it is enqueued
    BatchSize,  \* LINE_WORKS_BATCH_SIZE
    Destinations,  \* the destinations an administrator configures and removes
    MaxFaults  \* bound on the failures of a behaviour

ASSUME BatchSizeAssumption == BatchSize \in Nat

Kinds == {"thanks", "expense", "personal", "mvp"}

VARIABLES
    created,    \* os.notifications in the order of created_at
    rowStatus,  \* os.notifications.status, 'absent' before the insert
    postOf,     \* entity_id of a thanks row
    mapped,     \* the personal destinations and store channels configured
    call,       \* calls of enqueueIdeaLinkPostNotification
    requested,  \* rows the hub API asked the sender for
    run,        \* invocations of the sender
    delivered,  \* messages that arrived: row and audience
    twice,      \* rows of which a second message arrived
    excused,    \* rows sent whose status a run failed to write, or shared by runs
    faults      \* failures so far

queueVars == <<created, rowStatus, postOf, mapped, call, requested, run, delivered, twice,
          excused, faults>>
queueTables == <<created, rowStatus, postOf>>

QueueStatuses == {"absent", "queued", "sent", "error"}
Audiences == {"channel", "store", "employee", "default"}
IdleRun == [at |-> "idle", todo |-> <<>>, to |-> None, ok |-> FALSE]

QueueInit ==
    /\ created = <<>>
    /\ rowStatus = [n \in Rows |-> "absent"]
    /\ postOf = [n \in Rows |-> None]
    /\ mapped \in SUBSET Destinations
    /\ call = [c \in Calls |-> [at |-> "idle", post |-> None, answer |-> None,
                                duplicate |-> FALSE]]
    /\ requested = {}
    /\ run = [r \in Runs |-> IdleRun]
    /\ delivered = {} /\ twice = {} /\ excused = {} /\ faults = 0

-----------------------------------------------------------------------------
(* Enqueueing. *)

Insert(n, p) ==
    /\ rowStatus[n] = "absent"
    /\ created' = Append(created, n)
    /\ rowStatus' = [rowStatus EXCEPT ![n] = "queued"]
    /\ postOf' = [postOf EXCEPT ![n] = p]

\* Another module, or the monthly MVP job, enqueues.
ModuleEnqueues(n) ==
    /\ Kind[n] # "thanks"
    /\ Insert(n, None)
    /\ UNCHANGED <<mapped, call, requested, run, delivered, twice, excused, faults>>

RowsOfPost(p) == {n \in Rows : rowStatus[n] # "absent" /\ postOf[n] = p}

AnswerCall(c, n, dup) ==
    call' = [call EXCEPT ![c].at = "done", ![c].answer = n, ![c].duplicate = dup]

\* The preview finds the post inactive or no channel for it: nothing is enqueued.
SkipPost(c, p) ==
    /\ call[c].at = "idle"
    /\ call' = [call EXCEPT ![c].at = "done", ![c].post = p]
    /\ UNCHANGED <<queueTables, mapped, requested, run, delivered, twice, excused, faults>>

\* An eligible post: a row of it, in whatever status, answers the call.
LookForRow(c, p) ==
    /\ call[c].at = "idle"
    /\ IF RowsOfPost(p) = {}
         THEN call' = [call EXCEPT ![c].at = "insert", ![c].post = p]
         ELSE \E n \in RowsOfPost(p) :
                 call' = [call EXCEPT ![c] = [at |-> "done", post |-> p, answer |-> n,
                                              duplicate |-> TRUE]]
    /\ UNCHANGED <<queueTables, mapped, requested, run, delivered, twice, excused, faults>>

InsertRow(c, n) ==
    /\ call[c].at = "insert" /\ Kind[n] = "thanks"
    /\ Insert(n, call[c].post)
    /\ AnswerCall(c, n, FALSE)
    /\ UNCHANGED <<mapped, requested, run, delivered, twice, excused, faults>>

\* sendIdeaLinkNotificationById: only a thanks row that is queued now.
RequestSend(n) ==
    /\ Kind[n] = "thanks" /\ rowStatus[n] = "queued" /\ n \notin requested
    /\ requested' = requested \cup {n}
    /\ UNCHANGED <<queueTables, mapped, call, run, delivered, twice, excused, faults>>

\* An administrator configures or removes a destination.
Remap(d) ==
    /\ mapped' = IF d \in mapped THEN mapped \ {d} ELSE mapped \cup {d}
    /\ UNCHANGED <<queueTables, call, requested, run, delivered, twice, excused, faults>>

-----------------------------------------------------------------------------
(* The sender. *)

Batchable(n) == Kind[n] # "mvp"

\* The queued rows a batch may have, by their places in the order of created_at.
Queued == {i \in DOMAIN created : rowStatus[created[i]] = "queued" /\ Batchable(created[i])}

\* The places of the oldest ones: one before the other, and all or as many as a batch has.
Oldest(places) ==
    /\ \A i, j \in DOMAIN places : i < j => places[i] < places[j]
    /\ \A q \in Queued \ Range(places) :
          Len(places) = BatchSize /\ \A i \in DOMAIN places : places[i] < q

Pending(r) == ToSet(run[r].todo)

\* A run takes the rows of s; those another run still has are shared.
Take(r, s) ==
    /\ run[r].at = "idle"
    /\ run' = [run EXCEPT ![r] = [IdleRun EXCEPT !.at = "resolve", !.todo = s]]
    /\ excused' = excused \cup (ToSet(s) \cap UNION {Pending(q) : q \in Runs})

\* The handler without notificationId: the oldest queued rows, but monthly ones.
StartBatch(r) ==
    /\ \E n \in 1..BatchSize : \E places \in [1..n -> Queued] :
          Oldest(places) /\ Take(r, [i \in 1..n |-> created[places[i]]])
    /\ UNCHANGED <<queueTables, mapped, call, requested, delivered, twice, faults>>

\* Mutant of StartScoped: the row is sent whatever its status.
StartScopedAgain(r, n) ==
    /\ n \in requested \/ Kind[n] = "mvp"
    /\ rowStatus[n] # "absent"
    /\ Take(r, <<n>>)
    /\ UNCHANGED <<queueTables, mapped, call, requested, delivered, twice, faults>>

\* The handler with notificationId: for the hub API, or by hand for a monthly row.
StartScoped(r, n) ==
    /\ n \in requested \/ Kind[n] = "mvp"
    /\ rowStatus[n] = "queued"
    /\ Take(r, <<n>>)
    /\ UNCHANGED <<queueTables, mapped, call, requested, delivered, twice, faults>>

Goto(r, stage, audience) ==
    run' = [run EXCEPT ![r].at = stage, ![r].to = audience]

\* Mutant of MayUseDefault: expense notifications have no recipient either.
MayUseDefaultUnlessPersonal(n) == Kind[n] # "personal"

\* The guards before the default target.
MayUseDefault(n) == Kind[n] \notin {"personal", "expense"}

\* resolveExplicitTarget and resolveStoreChannelTarget.
ResolveChannel(r) ==
    LET n == Head(run[r].todo)
    IN  /\ run[r].at = "resolve"
        /\ CASE Kind[n] = "thanks" /\ "channel" \in mapped -> Goto(r, "send", "channel")
             [] Kind[n] = "expense" /\ "store" \in mapped -> Goto(r, "send", "store")
             [] OTHER -> Goto(r, "employee", None)
        /\ UNCHANGED <<queueTables, mapped, call, requested, delivered, twice, excused, faults>>

\* Mutant of ResolveEmployee: the exception of a row is not caught.
ResolveEmployeeOrThrow(r) ==
    LET n == Head(run[r].todo)
    IN  /\ run[r].at = "employee"
        /\ CASE Kind[n] \in {"personal", "expense"} /\ "employee" \in mapped ->
                  Goto(r, "send", "employee")
             [] MayUseDefault(n) -> Goto(r, "send", "default")
             [] OTHER -> run' = [run EXCEPT ![r] = IdleRun]
        /\ UNCHANGED <<queueTables, mapped, call, requested, delivered, twice, excused, faults>>

\* resolveEmployeeUserTarget, then the default target: an error only skips the row.
ResolveEmployee(r) ==
    LET n == Head(run[r].todo)
    IN  /\ run[r].at = "employee"
        /\ CASE Kind[n] \in {"personal", "expense"} /\ "employee" \in mapped ->
                  Goto(r, "send", "employee")
             [] MayUseDefault(n) -> Goto(r, "send", "default") \/ Goto(r, "record", None)
             [] OTHER -> Goto(r, "record", None)
        /\ UNCHANGED <<queueTables, mapped, call, requested, delivered, twice, excused, faults>>

Arrive(n, audience) ==
    /\ delivered' = delivered \cup {[row |-> n, to |-> audience]}
    /\ twice' = twice \cup ({n} \cap {d.row : d \in delivered})

\* Mutant of Abort: the rows left are kept for the next run.
AbortKeepingRows(r) ==
    /\ faults < MaxFaults
    /\ faults' = faults + 1
    /\ run' = [run EXCEPT ![r].at = "idle"]

\* An exception ends the run: the rows left stay as they are.
AbortRun(r) ==
    /\ faults < MaxFaults
    /\ faults' = faults + 1
    /\ run' = [run EXCEPT ![r] = IdleRun]

\* The provider: not configured; an answer; or an exception, sent or not.
Send(r) ==
    LET n == Head(run[r].todo)
        arrives == Arrive(n, run[r].to)
    IN  /\ run[r].at = "send"
        /\ \/ /\ arrives
              /\ run' = [run EXCEPT ![r].at = "record", ![r].ok = TRUE]
              /\ UNCHANGED <<excused, faults>>
           \/ /\ Goto(r, "record", None)
              /\ UNCHANGED <<delivered, twice, excused, faults>>
           \/ /\ AbortRun(r)
              /\ \/ UNCHANGED <<delivered, twice, excused>>
                 \/ arrives /\ excused' = excused \cup {n}
        /\ UNCHANGED <<queueTables, mapped, call, requested>>

\* Mutant of Recorded: the result of the row before is not cleared.
RecordedWithoutReset(r) ==
    [run EXCEPT ![r].at = IF Len(run[r].todo) = 1 THEN "idle" ELSE "resolve",
                ![r].todo = Tail(@)]

\* The loop goes on with the next row.
Recorded(r) ==
    [run EXCEPT ![r] = IF Len(run[r].todo) = 1 THEN IdleRun
                       ELSE [IdleRun EXCEPT !.at = "resolve", !.todo = Tail(run[r].todo)]]

\* updateNotificationStatus, whatever the row says by now; an error ends the run.
Record(r) ==
    LET n == Head(run[r].todo)
    IN  /\ run[r].at = "record"
        /\ \/ /\ rowStatus' = [rowStatus EXCEPT ![n] = IF run[r].ok THEN "sent" ELSE "error"]
              /\ run' = Recorded(r)
              /\ UNCHANGED <<excused, faults>>
           \/ /\ AbortRun(r)
              /\ rowStatus' = [rowStatus EXCEPT ![n] = IF run[r].ok THEN "sent" ELSE "error"]
              /\ UNCHANGED excused
           \/ /\ AbortRun(r)
              /\ excused' = excused \cup {n}
              /\ UNCHANGED rowStatus
        /\ UNCHANGED <<created, postOf, mapped, call, requested, delivered, twice>>

\* The runtime ends an invocation.
Crash(r) ==
    /\ run[r].at # "idle"
    /\ AbortRun(r)
    /\ excused' = IF run[r].at = "record" THEN excused \cup {Head(run[r].todo)} ELSE excused
    /\ UNCHANGED <<queueTables, mapped, call, requested, delivered, twice>>

RunStep(r) == ResolveChannel(r) \/ ResolveEmployee(r) \/ Send(r) \/ Record(r)

QueueNext ==
    \/ \E n \in Rows : ModuleEnqueues(n) \/ RequestSend(n)
    \/ \E c \in Calls :
          \/ \E p \in Posts : SkipPost(c, p) \/ LookForRow(c, p)
          \/ \E n \in Rows : InsertRow(c, n)
    \/ \E d \in Destinations : Remap(d)
    \/ \E r \in Runs :
          \/ StartBatch(r) \/ RunStep(r) \/ Crash(r)
          \/ \E n \in Rows : StartScoped(r, n)

QueueSpec == QueueInit /\ [][QueueNext]_queueVars

\* The scheduler starts the batch again and again, and a run that is not ended
\* by a failure goes on.
QueueFairness == \A r \in Runs : WF_queueVars(StartBatch(r)) /\ WF_queueVars(RunStep(r))

QueueFairSpec == QueueSpec /\ QueueFairness

-----------------------------------------------------------------------------
(* Properties. *)

\* The type invariant.
QueueTypeOK ==
    /\ ToSet(created) = {n \in Rows : rowStatus[n] # "absent"} /\ IsInjective(created)
    /\ rowStatus \in [Rows -> QueueStatuses]
    /\ postOf \in [Rows -> Posts \cup {None}]
    /\ \A r \in Runs : run[r].at = "idle" <=> run[r].todo = <<>>
    /\ \A d \in delivered : d.row \in Rows /\ d.to \in Audiences
    /\ twice \subseteq {d.row : d \in delivered}

\* A personal notification and an expense notification never reach the shared
\* default target, however destinations come and go while the run looks them up.
RightAudience ==
    \A d \in delivered :
        /\ Kind[d.row] = "personal" => d.to = "employee"
        /\ Kind[d.row] = "expense" => d.to \in {"store", "employee"}

\* A row that says 'sent' was delivered: no run takes the result of one row of its
\* batch for that of another.
SentIsTruthful == \A n \in Rows : rowStatus[n] = "sent" => \E d \in delivered : d.row = n

\* Without a claim a message is repeated, but for two reasons only: two runs had
\* the row at the same time, or a run ended between its delivery and its update.
RepeatedOnlyWhenExcused == twice \subseteq excused

\* A queued row does not wait for ever: failures of other rows of the batch,
\* aborted runs and rows that cannot be resolved do not keep it in the queue.
QueueDrains ==
    \A n \in Rows : rowStatus[n] = "queued" /\ Batchable(n) ~> rowStatus[n] # "queued"

-----------------------------------------------------------------------------
(* What the documents of the repository say, and the code does not do. *)

\* "insert one queued os.notifications row only if duplicate is absent" (gate 5.2):
\* two calls for one post look before either inserts.
OneRowPerPost == \A p \in Posts : Cardinality(RowsOfPost(p)) <= 1
=============================================================================
