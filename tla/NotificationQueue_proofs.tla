------------------------ MODULE NotificationQueue_proofs ------------------------
(***************************************************************************)
(* Proofs about NotificationQueue, for any number of rows, posts, calls and *)
(* runs and every batch size.  There is no claim and no lock: the invariant  *)
(* follows a row through the runs that have it, and says where a message of  *)
(* it may be repeated.                                                       *)
(***************************************************************************)
EXTENDS NotificationQueue, SequenceTheorems, TLAPS

-----------------------------------------------------------------------------
(* The inductive invariant. *)

CallType == [at: {"idle", "insert", "done"}, post: Posts \cup {None},
             answer: Rows \cup {None}, duplicate: BOOLEAN]
RunType == [at: {"idle", "resolve", "employee", "send", "record"}, todo: Seq(Rows),
            to: Audiences \cup {None}, ok: BOOLEAN]

StateTypes ==
    /\ created \in Seq(Rows)
    /\ rowStatus \in [Rows -> QueueStatuses]
    /\ postOf \in [Rows -> Posts \cup {None}]
    /\ call \in [Calls -> CallType]
    /\ run \in [Runs -> RunType]
    /\ delivered \subseteq [row: Rows, to: Audiences]
    /\ twice \subseteq {d.row : d \in delivered} /\ excused \subseteq Rows

\* The table lists every row once.
TableOK ==
    /\ \A i \in DOMAIN created : rowStatus[created[i]] # "absent"
    /\ \A n \in Rows : rowStatus[n] # "absent" => \E i \in DOMAIN created : created[i] = n
    /\ IsInjective(created)

Delivered(n) == \E d \in delivered : d.row = n

\* The row of a run that says sent, and has not been updated.
JustSent(r, n) == run[r].at = "record" /\ run[r].ok /\ Head(run[r].todo) = n

MayGoTo(n, audience) ==
    /\ audience \in Audiences
    /\ Kind[n] = "personal" => audience = "employee"
    /\ Kind[n] = "expense" => audience \in {"store", "employee"}

\* What a run has: rows of the table, each once; an audience that its next row may
\* go to; and a result only of a row that was delivered.
RunsOK ==
    \A r \in Runs :
        /\ run[r].at = "idle" <=> run[r].todo = <<>>
        /\ IsInjective(run[r].todo)
        /\ run[r].at = "send" => MayGoTo(Head(run[r].todo), run[r].to)
        /\ run[r].ok => run[r].at = "record" /\ Delivered(Head(run[r].todo))

\* Only rows of the table are sent and delivered.
KnownRows ==
    \A n \in Rows : rowStatus[n] = "absent" =>
        ~ Delivered(n) /\ \A r \in Runs : n \notin Pending(r)

\* A row that two runs have is excused.
SharedExcused ==
    \A r, q \in Runs, n \in Rows : n \in Pending(r) /\ n \in Pending(q) => r = q \/ n \in excused

\* A row that was delivered and that a run may send once more is excused.
PendingExcused ==
    \A r \in Runs, n \in Rows : n \in Pending(r) /\ Delivered(n) => JustSent(r, n) \/ n \in excused

\* A row that was delivered and is still queued is excused, or about to be updated.
QueuedExcused ==
    \A n \in Rows : rowStatus[n] = "queued" /\ Delivered(n) =>
        n \in excused \/ \E r \in Runs : JustSent(r, n)

RepeatsOK == SharedExcused /\ PendingExcused /\ QueuedExcused /\ RepeatedOnlyWhenExcused

QueueInv ==
    /\ StateTypes /\ TableOK /\ RunsOK /\ KnownRows /\ RepeatsOK
    /\ RightAudience /\ SentIsTruthful

-----------------------------------------------------------------------------
(* Sequences of rows. *)

\* A row that was not in the table becomes its last.
LEMMA AppendFacts ==
    ASSUME NEW s \in Seq(Rows), NEW n \in Rows
    PROVE  /\ Append(s, n) \in Seq(Rows)
           /\ DOMAIN Append(s, n) = DOMAIN s \cup {Len(s) + 1}
           /\ \A i \in DOMAIN s : i # Len(s) + 1 /\ Append(s, n)[i] = s[i]
           /\ Append(s, n)[Len(s) + 1] = n
  OBVIOUS

\* The first row of a run is one of its rows, and the others are the rest of it.
LEMMA HeadFacts ==
    ASSUME NEW s \in Seq(Rows), s # <<>>
    PROVE  Head(s) \in Rows /\ Head(s) \in ToSet(s)
<1>1. Len(s) \in Nat \ {0} /\ DOMAIN s = 1..Len(s) /\ Head(s) = s[1]
  BY EmptySeq
<1> QED BY <1>1 DEF ToSet

LEMMA TailFacts ==
    ASSUME NEW s \in Seq(Rows), s # <<>>, IsInjective(s)
    PROVE  /\ Tail(s) \in Seq(Rows) /\ IsInjective(Tail(s))
           /\ Len(s) # 1 => Tail(s) # <<>>
           /\ ToSet(Tail(s)) = ToSet(s) \ {Head(s)}
<1>1. Len(s) \in Nat \ {0} /\ DOMAIN s = 1..Len(s) /\ Head(s) = s[1]
  BY EmptySeq
<1>2. /\ Tail(s) \in Seq(Rows) /\ Len(Tail(s)) = Len(s) - 1
      /\ DOMAIN Tail(s) = 1..(Len(s) - 1)
      /\ \A i \in 1..(Len(s) - 1) : Tail(s)[i] = s[i + 1]
  BY HeadTailProperties, LenProperties
<1>3. \A i, j \in 1..Len(s) : s[i] = s[j] => i = j
  BY <1>1 DEF IsInjective
<1>4. IsInjective(Tail(s))
  BY <1>1, <1>2, <1>3 DEF IsInjective
<1>5. Len(s) # 1 => Tail(s) # <<>>
  <2>1. Len(s) # 1 => Len(Tail(s)) # 0
    BY <1>1, <1>2
  <2>2. Len(<<>>) = 0
    OBVIOUS
  <2> HIDE <1>2
  <2> QED BY <2>1, <2>2
<1>6. ASSUME NEW i \in 1..(Len(s) - 1) PROVE Tail(s)[i] \in ToSet(s) /\ Tail(s)[i] # Head(s)
  BY <1>1, <1>2, <1>3 DEF ToSet
<1>7. ASSUME NEW i \in 1..Len(s), s[i] # Head(s) PROVE s[i] \in ToSet(Tail(s))
  <2>1. i - 1 \in 1..(Len(s) - 1) /\ Tail(s)[i - 1] = s[i]
    BY <1>1, <1>2, <1>7
  <2> QED BY <1>2, <2>1 DEF ToSet
<1>8. ToSet(Tail(s)) = ToSet(s) \ {Head(s)}
  BY <1>1, <1>2, <1>6, <1>7 DEF ToSet
<1> QED BY <1>2, <1>4, <1>5, <1>8

-----------------------------------------------------------------------------
(* The steps beside the sender. *)

\* Calls, requests and destinations are in no other part of the invariant.
LEMMA BystandersKeepInv ==
    ASSUME QueueInv, call' \in [Calls -> CallType],
           UNCHANGED <<created, rowStatus, postOf, run, delivered, twice, excused>>
    PROVE  QueueInv'
<1>1. StateTypes' /\ TableOK'
  BY DEF QueueInv, StateTypes, TableOK
<1>2. RunsOK' /\ KnownRows'
  BY DEF QueueInv, RunsOK, KnownRows, Delivered, Pending, MayGoTo
<1>3. RepeatsOK'
  BY DEF QueueInv, RepeatsOK, SharedExcused, PendingExcused, QueuedExcused,
         RepeatedOnlyWhenExcused, Delivered, Pending, JustSent
<1>4. RightAudience' /\ SentIsTruthful'
  BY DEF QueueInv, RightAudience, SentIsTruthful
<1> QED BY <1>1, <1>2, <1>3, <1>4 DEF QueueInv

\* A new row was neither sent nor taken by a run.
LEMMA InsertKeepsInv ==
    ASSUME QueueInv, NEW n \in Rows, NEW p \in Posts \cup {None}, Insert(n, p),
           call' \in [Calls -> CallType], UNCHANGED <<run, delivered, twice, excused>>
    PROVE  QueueInv'
<1>1. /\ created \in Seq(Rows) /\ rowStatus[n] = "absent"
      /\ created' = Append(created, n) /\ rowStatus' = [rowStatus EXCEPT ![n] = "queued"]
      /\ rowStatus'[n] = "queued" /\ \A m \in Rows : m # n => rowStatus'[m] = rowStatus[m]
  BY DEF Insert, QueueInv, StateTypes
<1>2. StateTypes'
  BY <1>1 DEF QueueInv, StateTypes, Insert, QueueStatuses
<1>3. TableOK'
  <2>1. \A i \in DOMAIN created : created[i] \in Rows /\ created[i] # n
    BY <1>1 DEF QueueInv, TableOK
  <2> QED BY <1>1, <2>1, AppendFacts DEF QueueInv, TableOK, IsInjective
<1>4. RunsOK' /\ KnownRows'
  BY <1>1 DEF QueueInv, RunsOK, KnownRows, Delivered, Pending, MayGoTo
<1>5. ~ Delivered(n)
  BY <1>1 DEF QueueInv, KnownRows
<1>6. SharedExcused' /\ PendingExcused' /\ RepeatedOnlyWhenExcused'
  BY DEF QueueInv, RepeatsOK, SharedExcused, PendingExcused, RepeatedOnlyWhenExcused,
         Delivered, Pending, JustSent
<1>7. QueuedExcused'
  BY <1>1, <1>5 DEF QueueInv, RepeatsOK, QueuedExcused, Delivered, JustSent
<1>8. RightAudience' /\ SentIsTruthful'
  BY <1>1 DEF QueueInv, RightAudience, SentIsTruthful
<1> QED BY <1>2, <1>3, <1>4, <1>6, <1>7, <1>8 DEF QueueInv, RepeatsOK

-----------------------------------------------------------------------------
(* The steps of a run. *)

\* What a step of r leaves to the other runs.
LEMMA OnlyRun ==
    ASSUME StateTypes, NEW r \in Runs, NEW new \in RunType,
           run' = [run EXCEPT ![r] = new]
    PROVE  /\ run' \in [Runs -> RunType] /\ run'[r] = new
           /\ \A q \in Runs : q # r => run'[q] = run[q]
  BY DEF StateTypes

\* While it has rows left, a run has a first row that is in the table.
LEMMA FirstRow ==
    ASSUME QueueInv, NEW r \in Runs, run[r].at # "idle"
    PROVE  /\ Head(run[r].todo) \in Rows /\ Head(run[r].todo) \in Pending(r)
           /\ rowStatus[Head(run[r].todo)] # "absent"
<1>1. run[r].todo \in Seq(Rows) /\ run[r].todo # <<>>
  BY DEF QueueInv, StateTypes, RunType, RunsOK
<1>2. Head(run[r].todo) \in Rows /\ Head(run[r].todo) \in Pending(r)
  BY <1>1, HeadFacts DEF Pending
<1> QED BY <1>2 DEF QueueInv, KnownRows

\* A step that neither sends nor records: the audience is looked up, or the provider
\* refuses.
LEMMA QuietKeepsInv ==
    ASSUME QueueInv, NEW r \in Runs, NEW new \in RunType,
           run' = [run EXCEPT ![r] = new],
           run[r].at # "idle", run[r].at # "record", new.at # "idle",
           new.todo = run[r].todo, ~ new.ok,
           new.at = "send" => MayGoTo(Head(new.todo), new.to),
           UNCHANGED <<created, rowStatus, postOf, call, delivered, twice, excused>>
    PROVE  QueueInv'
<1>1. /\ run' \in [Runs -> RunType] /\ run'[r] = new
      /\ \A q \in Runs : q # r => run'[q] = run[q]
  BY OnlyRun DEF QueueInv
<1>2. StateTypes' /\ TableOK'
  BY <1>1 DEF QueueInv, StateTypes, TableOK
<1>3. RunsOK'
  BY <1>1 DEF QueueInv, RunsOK, Delivered, MayGoTo
<1>4. \A q \in Runs : Pending(q)' = Pending(q)
  BY <1>1 DEF Pending
<1>5. KnownRows'
  BY <1>4 DEF QueueInv, KnownRows, Delivered
<1>6. \A q \in Runs, n \in Rows : JustSent(q, n) => JustSent(q, n)'
  BY <1>1 DEF JustSent
<1>7. RepeatsOK'
  BY <1>4, <1>6 DEF QueueInv, RepeatsOK, SharedExcused, PendingExcused, QueuedExcused,
                    RepeatedOnlyWhenExcused, Delivered
<1>8. RightAudience' /\ SentIsTruthful'
  BY DEF QueueInv, RightAudience, SentIsTruthful
<1> QED BY <1>2, <1>3, <1>5, <1>7, <1>8 DEF QueueInv

\* The arrival of a message of a run: to an audience its row may go to, and for a
\* second time only if the row is excused.
LEMMA ArrivalOK ==
    ASSUME QueueInv, NEW r \in Runs, run[r].at = "send",
           Arrive(Head(run[r].todo), run[r].to)
    PROVE  /\ delivered' \subseteq [row: Rows, to: Audiences]
           /\ twice' \subseteq {d.row : d \in delivered'}
           /\ twice' \subseteq excused
           /\ \A n \in Rows : Delivered(n)' <=> Delivered(n) \/ n = Head(run[r].todo)
           /\ RightAudience'
<1> DEFINE n == Head(run[r].todo)
           d == [row |-> n, to |-> run[r].to]
<1>1. n \in Rows /\ n \in Pending(r) /\ MayGoTo(n, run[r].to)
  BY FirstRow DEF QueueInv, RunsOK
<1>2. /\ delivered' = delivered \cup {d} /\ d.row = n /\ d.to = run[r].to
      /\ twice' = twice \cup ({n} \cap {e.row : e \in delivered})
  BY DEF Arrive
<1>3. d \in [row: Rows, to: Audiences]
  BY <1>1 DEF MayGoTo
<1>4. Delivered(n) => n \in excused
  BY <1>1 DEF QueueInv, RepeatsOK, PendingExcused, JustSent
<1> HIDE DEF n, d
<1>5. twice' \subseteq {e.row : e \in delivered'} /\ twice' \subseteq excused
  BY <1>2, <1>4 DEF QueueInv, StateTypes, RepeatsOK, RepeatedOnlyWhenExcused, Delivered
<1>6. \A m \in Rows : Delivered(m)' <=> Delivered(m) \/ m = n
  BY <1>2 DEF Delivered
<1>7. RightAudience'
  BY <1>1, <1>2 DEF QueueInv, RightAudience, MayGoTo
<1>8. delivered' \subseteq [row: Rows, to: Audiences]
  BY <1>2, <1>3 DEF QueueInv, StateTypes
<1> QED BY <1>5, <1>6, <1>7, <1>8 DEF n

\* The provider has sent the message: the run goes on to the update.
LEMMA DeliverKeepsInv ==
    ASSUME QueueInv, NEW r \in Runs, run[r].at = "send",
           Arrive(Head(run[r].todo), run[r].to),
           run' = [run EXCEPT ![r].at = "record", ![r].ok = TRUE],
           UNCHANGED <<created, rowStatus, postOf, call, excused>>
    PROVE  QueueInv'
<1> DEFINE n == Head(run[r].todo)
           new == [run[r] EXCEPT !.at = "record", !.ok = TRUE]
<1>1. /\ run[r] \in RunType /\ new \in RunType /\ run' = [run EXCEPT ![r] = new]
      /\ new.at = "record" /\ new.ok /\ new.todo = run[r].todo
  BY DEF QueueInv, StateTypes, RunType
<1> HIDE DEF new
<1>2. /\ run' \in [Runs -> RunType] /\ run'[r] = new
      /\ \A q \in Runs : q # r => run'[q] = run[q]
  BY <1>1, OnlyRun DEF QueueInv
<1>3. /\ n \in Rows /\ n \in Pending(r) /\ rowStatus[n] # "absent"
      /\ \A m \in Rows : Delivered(m)' <=> Delivered(m) \/ m = n
      /\ RightAudience'
  BY FirstRow, ArrivalOK
<1>4. /\ \A q \in Runs : Pending(q)' = Pending(q)
      /\ \A m \in Rows : m = n => JustSent(r, m)'
      /\ \A q \in Runs, m \in Rows : JustSent(q, m) => JustSent(q, m)'
  BY <1>1, <1>2 DEF Pending, JustSent
<1>5. /\ \A q \in Runs : run'[q].todo = run[q].todo
      /\ rowStatus' = rowStatus /\ excused' = excused
  BY <1>1, <1>2
<1> HIDE DEF n
<1>6. StateTypes' /\ TableOK'
  BY <1>2, ArrivalOK DEF QueueInv, StateTypes, TableOK
<1>7. RunsOK'
  <2>1. ASSUME NEW q \in Runs, q # r, run[q].ok PROVE Delivered(Head(run[q].todo))'
    <3>1. Head(run[q].todo) \in Rows
      BY <2>1, FirstRow DEF QueueInv, RunsOK
    <3>2. Delivered(Head(run[q].todo))
      BY <2>1 DEF QueueInv, RunsOK
    <3> QED BY <1>2, <1>3, <2>1, <3>1, <3>2 DEF Delivered
  <2>2. Delivered(Head(run[r].todo))'
    BY <1>3, <1>5 DEF n, Delivered
  <2> QED BY <1>1, <1>2, <1>5, <2>1, <2>2 DEF QueueInv, RunsOK, MayGoTo
<1>8. KnownRows'
  BY <1>3, <1>4 DEF QueueInv, KnownRows
<1>9. SharedExcused'
  BY <1>4 DEF QueueInv, RepeatsOK, SharedExcused
<1>10. PendingExcused'
  <2> SUFFICES ASSUME NEW q \in Runs, NEW m \in Rows, m \in Pending(q), Delivered(m)'
               PROVE  JustSent(q, m)' \/ m \in excused
    BY <1>4, <1>5 DEF PendingExcused
  <2>1. CASE Delivered(m)
    BY <1>4, <2>1 DEF QueueInv, RepeatsOK, PendingExcused
  <2>2. CASE m = n /\ q # r
    BY <1>3, <2>2 DEF QueueInv, RepeatsOK, SharedExcused
  <2> QED BY <1>3, <1>4, <2>1, <2>2
<1>11. QueuedExcused'
  BY <1>3, <1>4, <1>5 DEF QueueInv, RepeatsOK, QueuedExcused
<1>12. RepeatedOnlyWhenExcused'
  BY ArrivalOK DEF RepeatedOnlyWhenExcused
<1>13. SentIsTruthful'
  BY <1>3 DEF QueueInv, SentIsTruthful, Delivered
<1> QED BY <1>3, <1>6, <1>7, <1>8, <1>9, <1>10, <1>11, <1>12, <1>13 DEF QueueInv, RepeatsOK

\* What ends a run or goes on to its next row loses the first row alone: it is no longer
\* queued, or excused, and whatever arrived with it is excused as well.
LEMMA LetGoKeepsInv ==
    ASSUME QueueInv, NEW r \in Runs, run[r].at # "idle", NEW n \in Rows,
           n = Head(run[r].todo), NEW new \in RunType, run' = [run EXCEPT ![r] = new],
           new.at \in {"idle", "resolve"}, ~ new.ok, new.at = "idle" <=> new.todo = <<>>,
           IsInjective(new.todo), ToSet(new.todo) \subseteq Pending(r) \ {n},
           rowStatus' \in [Rows -> QueueStatuses],
           \A m \in Rows : m # n => rowStatus'[m] = rowStatus[m],
           rowStatus'[n] # rowStatus[n] =>
               rowStatus'[n] \in {"sent", "error"} /\ (rowStatus'[n] = "sent" => Delivered(n)),
           \/ UNCHANGED <<delivered, twice>>
           \/ run[r].at = "send" /\ Arrive(n, run[r].to) /\ n \in excused',
           excused' \in {excused, excused \cup {n}},
           run[r].at = "record" => rowStatus'[n] # "queued" \/ n \in excused',
           UNCHANGED <<created, postOf, call>>
    PROVE  QueueInv'
<1>1. /\ run' \in [Runs -> RunType] /\ run'[r] = new
      /\ \A q \in Runs : q # r => run'[q] = run[q]
  BY OnlyRun DEF QueueInv
<1>2. rowStatus[n] # "absent" /\ n \in Pending(r)
  BY FirstRow
<1>3. /\ delivered' \subseteq [row: Rows, to: Audiences]
      /\ twice' \subseteq {d.row : d \in delivered'}
      /\ twice' \subseteq excused'
      /\ \A m \in Rows : Delivered(m) => Delivered(m)'
      /\ \A m \in Rows : Delivered(m)' => Delivered(m) \/ (m = n /\ n \in excused')
      /\ RightAudience'
  <2>1. CASE UNCHANGED <<delivered, twice>>
    BY <2>1 DEF QueueInv, StateTypes, RepeatsOK, RepeatedOnlyWhenExcused, Delivered,
                RightAudience
  <2>2. CASE run[r].at = "send" /\ Arrive(n, run[r].to) /\ n \in excused'
    <3>1. /\ run[r].at = "send" /\ Arrive(Head(run[r].todo), run[r].to)
          /\ excused \subseteq excused'
      BY <2>2
    <3>2. \A m \in Rows : Delivered(m)' <=> Delivered(m) \/ m = n
      BY <3>1, ArrivalOK
    <3> QED BY <2>2, <3>1, <3>2, ArrivalOK
  <2> QED BY <2>1, <2>2
<1>4. StateTypes'
  BY <1>1, <1>3 DEF QueueInv, StateTypes
<1>5. \A m \in Rows : rowStatus'[m] = "absent" <=> rowStatus[m] = "absent"
  BY <1>2
<1>6. TableOK'
  <2>1. \A i \in DOMAIN created : created[i] \in Rows
    BY DEF QueueInv, StateTypes
  <2> QED BY <1>5, <2>1 DEF QueueInv, TableOK
<1>7. RunsOK'
  <2>1. ASSUME NEW q \in Runs, q # r, run[q].ok PROVE Delivered(Head(run[q].todo))'
    <3>1. Head(run[q].todo) \in Rows /\ Delivered(Head(run[q].todo))
      BY <2>1, FirstRow DEF QueueInv, RunsOK
    <3>2. PICK m \in Rows : m = Head(run[q].todo)
      BY <3>1
    <3>3. Delivered(m)'
      BY <1>3, <3>1, <3>2
    <3> QED BY <1>1, <2>1, <3>2, <3>3 DEF Delivered
  <2> QED BY <1>1, <2>1 DEF QueueInv, RunsOK, MayGoTo, Delivered
<1>8. \A q \in Runs : Pending(q)' \subseteq Pending(q) /\ (q = r => n \notin Pending(q)')
  BY <1>1 DEF Pending
<1>9. KnownRows'
  BY <1>2, <1>3, <1>5, <1>8 DEF QueueInv, KnownRows
<1>10. SharedExcused'
  BY <1>8 DEF QueueInv, RepeatsOK, SharedExcused
<1>11. \A q \in Runs, m \in Rows : JustSent(q, m) => JustSent(q, m)' \/ (q = r /\ m = n)
  BY <1>1 DEF JustSent
<1>12. PendingExcused'
  <2> SUFFICES ASSUME NEW q \in Runs, NEW m \in Rows, m \in Pending(q)', Delivered(m)'
               PROVE  JustSent(q, m)' \/ m \in excused'
    BY DEF PendingExcused
  <2>1. m \in Pending(q) /\ ~ (q = r /\ m = n)
    BY <1>8
  <2> QED BY <1>3, <1>11, <2>1 DEF QueueInv, RepeatsOK, PendingExcused
<1>13. QueuedExcused'
  <2> SUFFICES ASSUME NEW m \in Rows, rowStatus'[m] = "queued", Delivered(m)'
               PROVE  m \in excused' \/ \E q \in Runs : JustSent(q, m)'
    BY DEF QueuedExcused
  <2>1. CASE Delivered(m)
    <3>1. rowStatus[m] = "queued"
      OBVIOUS
    <3>2. CASE JustSent(r, n) /\ m = n
      BY <3>2 DEF JustSent
    <3> QED BY <1>11, <2>1, <3>1, <3>2 DEF QueueInv, RepeatsOK, QueuedExcused
  <2> QED BY <1>3, <2>1
<1>14. SentIsTruthful'
  <2> SUFFICES ASSUME NEW m \in Rows, rowStatus'[m] = "sent" PROVE Delivered(m)'
    BY DEF SentIsTruthful, Delivered
  <2>1. Delivered(m)
    BY DEF QueueInv, SentIsTruthful, Delivered
  <2> QED BY <1>3, <2>1
<1> QED BY <1>3, <1>4, <1>6, <1>7, <1>9, <1>10, <1>12, <1>13, <1>14
        DEF QueueInv, RepeatsOK, RepeatedOnlyWhenExcused

\* A run takes queued rows, each once: those delivered before are excused, or about to
\* be updated by a run that shares them from now on.
LEMMA TakeKeepsInv ==
    ASSUME QueueInv, NEW r \in Runs, NEW s \in Seq(Rows), s # <<>>, IsInjective(s),
           \A n \in ToSet(s) : n \in Rows /\ rowStatus[n] = "queued",
           Take(r, s), UNCHANGED <<created, rowStatus, postOf, call, delivered, twice>>
    PROVE  QueueInv'
<1> DEFINE new == [IdleRun EXCEPT !.at = "resolve", !.todo = s]
<1>1. /\ new \in RunType /\ run' = [run EXCEPT ![r] = new]
      /\ new.at = "resolve" /\ new.todo = s /\ ~ new.ok
      /\ run[r].at = "idle"
      /\ excused' = excused \cup (ToSet(s) \cap UNION {Pending(q) : q \in Runs})
  BY DEF Take, IdleRun, RunType
<1> HIDE DEF new
<1>2. /\ run' \in [Runs -> RunType] /\ run'[r] = new
      /\ \A q \in Runs : q # r => run'[q] = run[q]
  BY <1>1, OnlyRun DEF QueueInv
<1>3. /\ Pending(r)' = ToSet(s)
      /\ \A q \in Runs : q # r => Pending(q)' = Pending(q)
      /\ \A q \in Runs, m \in Rows : JustSent(q, m) => JustSent(q, m)'
  BY <1>1, <1>2 DEF Pending, JustSent
<1>4. excused \subseteq excused' /\ excused' \subseteq Rows
  BY <1>1 DEF QueueInv, StateTypes
<1>5. StateTypes' /\ TableOK'
  BY <1>2, <1>4 DEF QueueInv, StateTypes, TableOK
<1>6. RunsOK'
  BY <1>1, <1>2 DEF QueueInv, RunsOK, MayGoTo, Delivered
<1>7. KnownRows'
  BY <1>3 DEF QueueInv, KnownRows, Delivered
<1>8. ASSUME NEW q \in Runs, q # r, NEW m \in Pending(q), m \in ToSet(s)
      PROVE  m \in excused'
  BY <1>1, <1>8
<1>9. SharedExcused'
  BY <1>3, <1>4, <1>8 DEF QueueInv, RepeatsOK, SharedExcused
<1>10. ASSUME NEW m \in ToSet(s), Delivered(m) PROVE m \in excused'
  <2>1. CASE m \in excused
    BY <1>4, <2>1
  <2>2. ASSUME NEW q \in Runs, JustSent(q, m) PROVE m \in excused'
    <3>1. m \in Pending(q)
      BY <2>2, FirstRow DEF JustSent
    <3> QED BY <1>1, <3>1
  <2> QED BY <1>10, <2>1, <2>2 DEF QueueInv, RepeatsOK, QueuedExcused
<1>11. PendingExcused'
  <2> SUFFICES ASSUME NEW q \in Runs, NEW m \in Rows, m \in Pending(q)', Delivered(m)'
               PROVE  JustSent(q, m)' \/ m \in excused'
    BY DEF PendingExcused
  <2>1. Delivered(m)
    BY DEF Delivered
  <2> QED BY <1>3, <1>4, <1>10, <2>1 DEF QueueInv, RepeatsOK, PendingExcused
<1>12. QueuedExcused' /\ RepeatedOnlyWhenExcused'
  BY <1>3, <1>4 DEF QueueInv, RepeatsOK, QueuedExcused, RepeatedOnlyWhenExcused, Delivered
<1>13. RightAudience' /\ SentIsTruthful'
  BY DEF QueueInv, RightAudience, SentIsTruthful
<1> QED BY <1>5, <1>6, <1>7, <1>9, <1>11, <1>12, <1>13 DEF QueueInv, RepeatsOK

\* What the select of a batch returns: queued rows in the order of the table, so that no
\* row comes twice.
LEMMA StartBatchKeepsInv ==
    ASSUME QueueInv, NEW r \in Runs, StartBatch(r) PROVE QueueInv'
<1>0. PICK n \in 1..BatchSize : \E places \in [1..n -> Queued] :
         Oldest(places) /\ Take(r, [i \in 1..n |-> created[places[i]]])
  BY DEF StartBatch
<1>1. PICK places \in [1..n -> Queued] :
         Oldest(places) /\ Take(r, [i \in 1..n |-> created[places[i]]])
  BY <1>0
<1> DEFINE s == [i \in 1..n |-> created[places[i]]]
<1>2. n \in Nat \ {0}
  BY BatchSizeAssumption
<1>3. /\ created \in Seq(Rows) /\ DOMAIN created = 1..Len(created) /\ Len(created) \in Nat
      /\ \A i \in DOMAIN created : created[i] \in Rows
      /\ IsInjective(created)
  BY DEF QueueInv, StateTypes, TableOK
<1>4. \A i \in 1..n : /\ places[i] \in DOMAIN created /\ places[i] \in Int
                      /\ created[places[i]] \in Rows
                      /\ rowStatus[created[places[i]]] = "queued"
  BY <1>3 DEF Queued
<1>5. /\ s \in Seq(Rows) /\ Len(s) = n /\ DOMAIN s = 1..n
      /\ \A i \in 1..n : s[i] = created[places[i]]
  BY <1>2, <1>4
<1>6. s # <<>>
  BY <1>2, <1>5
<1>7. IsInjective(s)
  <2> SUFFICES ASSUME NEW i \in 1..n, NEW j \in 1..n, s[i] = s[j] PROVE i = j
    BY <1>5 DEF IsInjective
  <2>1. places[i] = places[j]
    BY <1>3, <1>4, <1>5 DEF IsInjective
  <2>2. ~ (i < j) /\ ~ (j < i)
    BY <1>1, <1>4, <2>1 DEF Oldest
  <2> QED BY <1>2, <2>2
<1>8. \A m \in ToSet(s) : m \in Rows /\ rowStatus[m] = "queued"
  BY <1>4, <1>5 DEF ToSet
<1>9. Take(r, s) /\ UNCHANGED <<created, rowStatus, postOf, call, delivered, twice>>
  BY <1>1 DEF StartBatch, queueTables
<1> HIDE DEF s
<1> QED BY <1>5, <1>6, <1>7, <1>8, <1>9, TakeKeepsInv

LEMMA StartScopedKeepsInv ==
    ASSUME QueueInv, NEW r \in Runs, NEW n \in Rows, StartScoped(r, n) PROVE QueueInv'
<1> DEFINE s == <<n>>
<1>1. s \in Seq(Rows) /\ s # <<>> /\ DOMAIN s = {1} /\ s[1] = n
  OBVIOUS
<1>2. Take(r, s) /\ rowStatus[n] = "queued"
  BY DEF StartScoped
<1>3. UNCHANGED <<created, rowStatus, postOf, call, delivered, twice>>
  BY DEF StartScoped, queueTables
<1> HIDE DEF s
<1>4. IsInjective(s) /\ \A m \in ToSet(s) : m \in Rows /\ rowStatus[m] = "queued"
  BY <1>1, <1>2 DEF IsInjective, ToSet
<1> QED BY <1>1, <1>2, <1>3, <1>4, TakeKeepsInv

\* The guards keep personal and expense rows from the default target.
LEMMA ResolveKeepsInv ==
    ASSUME QueueInv, NEW r \in Runs, ResolveChannel(r) \/ ResolveEmployee(r) PROVE QueueInv'
<1> DEFINE n == Head(run[r].todo)
<1>1. PICK stage \in {"employee", "send", "record"}, audience \in Audiences \cup {None} :
         /\ run' = [run EXCEPT ![r].at = stage, ![r].to = audience]
         /\ stage = "send" => MayGoTo(n, audience)
  <2>1. CASE ResolveChannel(r)
    BY <2>1 DEF ResolveChannel, Goto, MayGoTo, Audiences
  <2>2. CASE ResolveEmployee(r)
    BY <2>2 DEF ResolveEmployee, Goto, MayGoTo, Audiences, MayUseDefault
  <2> QED BY <2>1, <2>2
<1> DEFINE new == [run[r] EXCEPT !.at = stage, !.to = audience]
<1>2. /\ run[r].at \in {"resolve", "employee"}
      /\ UNCHANGED <<created, rowStatus, postOf, call, delivered, twice, excused>>
  BY DEF ResolveChannel, ResolveEmployee, queueTables
<1>3. ~ run[r].ok /\ run[r] \in RunType
  BY <1>2 DEF QueueInv, RunsOK, StateTypes
<1>4. /\ new \in RunType /\ run' = [run EXCEPT ![r] = new]
      /\ new.at = stage /\ new.to = audience /\ new.todo = run[r].todo /\ ~ new.ok
  BY <1>1, <1>3 DEF QueueInv, StateTypes, RunType
<1> HIDE DEF new
<1> QED BY <1>1, <1>2, <1>4, QuietKeepsInv

\* What an exception leaves of a run.
LEMMA AbortedRun ==
    ASSUME StateTypes, NEW r \in Runs, AbortRun(r)
    PROVE  /\ IdleRun \in RunType /\ run' = [run EXCEPT ![r] = IdleRun]
           /\ IdleRun.at = "idle" /\ ~ IdleRun.ok /\ IdleRun.todo = <<>>
           /\ IsInjective(IdleRun.todo) /\ ToSet(IdleRun.todo) = {}
  BY DEF AbortRun, IdleRun, RunType, IsInjective, ToSet

LEMMA SendKeepsInv ==
    ASSUME QueueInv, NEW r \in Runs, Send(r) PROVE QueueInv'
<1>1. PICK n \in Rows : n = Head(run[r].todo)
  BY FirstRow DEF Send
<1>2. /\ run[r].at = "send" /\ run[r] \in RunType /\ ~ run[r].ok
      /\ UNCHANGED <<created, rowStatus, postOf, call>>
  BY DEF Send, queueTables, QueueInv, StateTypes, RunsOK
<1>3. CASE /\ Arrive(n, run[r].to) /\ UNCHANGED excused
           /\ run' = [run EXCEPT ![r].at = "record", ![r].ok = TRUE]
  BY <1>1, <1>2, <1>3, DeliverKeepsInv
<1>4. CASE Goto(r, "record", None) /\ UNCHANGED <<delivered, twice, excused>>
  <2> DEFINE new == [run[r] EXCEPT !.at = "record", !.to = None]
  <2>1. /\ new \in RunType /\ run' = [run EXCEPT ![r] = new]
        /\ new.at = "record" /\ new.todo = run[r].todo /\ ~ new.ok
    BY <1>2, <1>4 DEF Goto, QueueInv, StateTypes, RunType
  <2> HIDE DEF new
  <2> QED BY <1>2, <1>4, <2>1, QuietKeepsInv
<1>5. CASE /\ AbortRun(r)
           /\ \/ UNCHANGED <<delivered, twice, excused>>
              \/ Arrive(n, run[r].to) /\ excused' = excused \cup {n}
  <2>1. rowStatus' \in [Rows -> QueueStatuses] /\ StateTypes
    BY <1>2 DEF QueueInv, StateTypes
  <2> QED BY <1>1, <1>2, <1>5, <2>1, AbortedRun, LetGoKeepsInv
<1> QED BY <1>1, <1>3, <1>4, <1>5 DEF Send

\* The update of a status, the loss of it, and the next row.
LEMMA RecordKeepsInv ==
    ASSUME QueueInv, NEW r \in Runs, Record(r) PROVE QueueInv'
<1>1. PICK n \in Rows : n = Head(run[r].todo)
  BY FirstRow DEF Record
<1>2. /\ run[r].at = "record" /\ run[r] \in RunType /\ StateTypes
      /\ run[r].todo \in Seq(Rows) /\ run[r].todo # <<>> /\ IsInjective(run[r].todo)
      /\ UNCHANGED <<created, postOf, call, delivered, twice>>
  BY DEF Record, QueueInv, StateTypes, RunType, RunsOK
<1> DEFINE updated == rowStatus' = [rowStatus EXCEPT ![n] = IF run[r].ok THEN "sent" ELSE "error"]
<1>3. ASSUME updated
      PROVE  /\ rowStatus' \in [Rows -> QueueStatuses]
             /\ \A m \in Rows : m # n => rowStatus'[m] = rowStatus[m]
             /\ rowStatus'[n] \in {"sent", "error"} /\ (rowStatus'[n] = "sent" => Delivered(n))
             /\ rowStatus'[n] # "queued"
  <2>1. run[r].ok => Delivered(n)
    BY <1>1 DEF QueueInv, RunsOK
  <2> QED BY <1>2, <1>3, <2>1 DEF StateTypes, QueueStatuses
<1> HIDE DEF updated
<1>4. CASE updated /\ run' = Recorded(r) /\ UNCHANGED excused
  <2> DEFINE next == [IdleRun EXCEPT !.at = "resolve", !.todo = Tail(run[r].todo)]
             new == IF Len(run[r].todo) = 1 THEN IdleRun ELSE next
  <2>1. run' = [run EXCEPT ![r] = new]
    BY <1>4 DEF Recorded
  <2>2. /\ Tail(run[r].todo) \in Seq(Rows) /\ IsInjective(Tail(run[r].todo))
        /\ Len(run[r].todo) # 1 => Tail(run[r].todo) # <<>>
        /\ ToSet(Tail(run[r].todo)) = Pending(r) \ {n}
    BY <1>1, <1>2, TailFacts DEF Pending
  <2>3. /\ next \in RunType /\ next.at = "resolve" /\ ~ next.ok
        /\ next.todo = Tail(run[r].todo)
    BY <2>2 DEF IdleRun, RunType
  <2>4. /\ IdleRun \in RunType /\ IdleRun.at = "idle" /\ ~ IdleRun.ok /\ IdleRun.todo = <<>>
        /\ IsInjective(IdleRun.todo) /\ ToSet(IdleRun.todo) = {}
    BY DEF IdleRun, RunType, IsInjective, ToSet
  <2> HIDE DEF next
  <2>5. /\ new \in RunType /\ new.at \in {"idle", "resolve"} /\ ~ new.ok
        /\ new.at = "idle" <=> new.todo = <<>>
        /\ IsInjective(new.todo) /\ ToSet(new.todo) \subseteq Pending(r) \ {n}
    BY <2>2, <2>3, <2>4
  <2> HIDE DEF new
  <2> QED BY <1>1, <1>2, <1>3, <1>4, <2>1, <2>5, LetGoKeepsInv
<1>5. CASE AbortRun(r) /\ updated /\ UNCHANGED excused
  BY <1>1, <1>2, <1>3, <1>5, AbortedRun, LetGoKeepsInv
<1>6. CASE AbortRun(r) /\ excused' = excused \cup {n} /\ UNCHANGED rowStatus
  BY <1>1, <1>2, <1>6, AbortedRun, LetGoKeepsInv DEF StateTypes
<1> QED BY <1>1, <1>4, <1>5, <1>6 DEF Record, updated

\* An invocation that dies between its delivery and its update leaves the row excused.
LEMMA CrashKeepsInv ==
    ASSUME QueueInv, NEW r \in Runs, Crash(r) PROVE QueueInv'
<1>1. PICK n \in Rows : n = Head(run[r].todo)
  BY FirstRow DEF Crash
<1>2. /\ run[r].at # "idle" /\ AbortRun(r) /\ StateTypes
      /\ UNCHANGED <<created, rowStatus, postOf, call, delivered, twice>>
      /\ excused' \in {excused, excused \cup {n}} /\ (run[r].at = "record" => n \in excused')
  BY <1>1 DEF Crash, queueTables, QueueInv
<1>3. rowStatus' \in [Rows -> QueueStatuses]
  BY <1>2 DEF StateTypes
<1> QED BY <1>1, <1>2, <1>3, AbortedRun, LetGoKeepsInv

-----------------------------------------------------------------------------
(* Every step, and the theorems. *)

LEMMA CallStepKeepsInv ==
    ASSUME QueueInv, NEW c \in Calls
    PROVE  /\ \A p \in Posts : SkipPost(c, p) \/ LookForRow(c, p) => QueueInv'
           /\ \A n \in Rows : InsertRow(c, n) => QueueInv'
<1>1. call \in [Calls -> CallType] /\ call[c].post \in Posts \cup {None}
  BY DEF QueueInv, StateTypes, CallType
<1>2. ASSUME NEW p \in Posts, SkipPost(c, p) PROVE QueueInv'
  <2>1. call' \in [Calls -> CallType]
    BY <1>1, <1>2 DEF SkipPost, CallType
  <2> QED BY <1>2, <2>1, BystandersKeepInv DEF SkipPost, queueTables
<1>3. ASSUME NEW p \in Posts, LookForRow(c, p) PROVE QueueInv'
  <2>1. CASE call' = [call EXCEPT ![c].at = "insert", ![c].post = p]
    <3>1. call' \in [Calls -> CallType]
      BY <1>1, <2>1 DEF CallType
    <3> QED BY <1>3, <3>1, BystandersKeepInv DEF LookForRow, queueTables
  <2>2. CASE \E n \in RowsOfPost(p) :
                call' = [call EXCEPT ![c] = [at |-> "done", post |-> p, answer |-> n,
                                             duplicate |-> TRUE]]
    <3>1. call' \in [Calls -> CallType]
      BY <1>1, <2>2 DEF CallType, RowsOfPost
    <3> QED BY <1>3, <3>1, BystandersKeepInv DEF LookForRow, queueTables
  <2> QED BY <1>3, <2>1, <2>2 DEF LookForRow
<1>4. ASSUME NEW n \in Rows, InsertRow(c, n) PROVE QueueInv'
  <2>1. call' \in [Calls -> CallType]
    BY <1>1, <1>4 DEF InsertRow, AnswerCall, CallType
  <2> QED BY <1>1, <1>4, <2>1, InsertKeepsInv DEF InsertRow
<1> QED BY <1>2, <1>3, <1>4

LEMMA StepKeepsInv == QueueInv /\ [QueueNext]_queueVars => QueueInv'
<1> SUFFICES ASSUME QueueInv, [QueueNext]_queueVars PROVE QueueInv'
  OBVIOUS
<1>1. call \in [Calls -> CallType]
  BY DEF QueueInv, StateTypes
<1>2. ASSUME NEW n \in Rows, ModuleEnqueues(n) PROVE QueueInv'
  BY <1>1, <1>2, InsertKeepsInv DEF ModuleEnqueues
<1>3. ASSUME NEW n \in Rows, RequestSend(n) PROVE QueueInv'
  BY <1>1, <1>3, BystandersKeepInv DEF RequestSend, queueTables
<1>4. ASSUME NEW c \in Calls,
             \/ \E p \in Posts : SkipPost(c, p) \/ LookForRow(c, p)
             \/ \E n \in Rows : InsertRow(c, n)
      PROVE  QueueInv'
  BY <1>4, CallStepKeepsInv
<1>5. ASSUME NEW d \in Destinations, Remap(d) PROVE QueueInv'
  BY <1>1, <1>5, BystandersKeepInv DEF Remap, queueTables
<1>6. ASSUME NEW r \in Runs, StartBatch(r) \/ \E n \in Rows : StartScoped(r, n)
      PROVE  QueueInv'
  BY <1>6, StartBatchKeepsInv, StartScopedKeepsInv
<1>7. ASSUME NEW r \in Runs, RunStep(r) \/ Crash(r) PROVE QueueInv'
  BY <1>7, ResolveKeepsInv, SendKeepsInv, RecordKeepsInv, CrashKeepsInv DEF RunStep
<1>8. CASE UNCHANGED queueVars
  BY <1>1, <1>8, BystandersKeepInv DEF queueVars
<1> QED BY <1>2, <1>3, <1>4, <1>5, <1>6, <1>7, <1>8 DEF QueueNext

\* The invariant holds from the empty queue on, whatever calls, runs, remappings and
\* failures do, and in whatever order.
THEOREM QueueInvariant == QueueSpec => []QueueInv
<1>1. QueueInit => QueueInv
  <2> SUFFICES ASSUME QueueInit PROVE QueueInv
    OBVIOUS
  <2>1. IdleRun \in RunType /\ IdleRun.at = "idle" /\ IdleRun.todo = <<>> /\ ~ IdleRun.ok
    BY DEF IdleRun, RunType
  <2>2. ToSet(<<>>) = {} /\ \A r \in Runs : run[r] = IdleRun /\ Pending(r) = {}
    BY <2>1 DEF QueueInit, Pending, ToSet
  <2>3. StateTypes /\ TableOK
    BY <2>1 DEF QueueInit, StateTypes, TableOK, CallType, QueueStatuses, IsInjective
  <2>4. RunsOK /\ KnownRows
    BY <2>1, <2>2 DEF QueueInit, RunsOK, KnownRows, Delivered, IsInjective
  <2>5. RepeatsOK
    BY <2>2 DEF QueueInit, RepeatsOK, SharedExcused, PendingExcused, QueuedExcused,
                RepeatedOnlyWhenExcused, Delivered
  <2>6. RightAudience /\ SentIsTruthful
    BY DEF QueueInit, RightAudience, SentIsTruthful
  <2> QED BY <2>3, <2>4, <2>5, <2>6 DEF QueueInv
<1> QED BY <1>1, StepKeepsInv, PTL DEF QueueSpec

\* The types of the tables and of the runs, and that the table lists each row once.
THEOREM QueueTypeCorrect == QueueSpec => []QueueTypeOK
<1>1. QueueInv => QueueTypeOK
  BY DEF QueueInv, StateTypes, TableOK, RunsOK, QueueTypeOK, ToSet
<1> QED BY <1>1, QueueInvariant, PTL

\* A personal notification reaches its employee and an expense notification its store
\* or its employee, and neither reaches the shared default target.
THEOREM RightAudienceCorrect == QueueSpec => []RightAudience
<1>1. QueueInv => RightAudience
  BY DEF QueueInv
<1> QED BY <1>1, QueueInvariant, PTL

\* A row that says 'sent' was delivered.
THEOREM SentIsTruthfulCorrect == QueueSpec => []SentIsTruthful
<1>1. QueueInv => SentIsTruthful
  BY DEF QueueInv
<1> QED BY <1>1, QueueInvariant, PTL

\* Nothing but a row that two runs had at once, or a run that ended between a delivery
\* and its update, repeats a message.
THEOREM RepeatedOnlyWhenExcusedCorrect == QueueSpec => []RepeatedOnlyWhenExcused
<1>1. QueueInv => RepeatedOnlyWhenExcused
  BY DEF QueueInv, RepeatsOK
<1> QED BY <1>1, QueueInvariant, PTL
=============================================================================
