------------------------ MODULE PersonalMessage_proofs ------------------------
(***************************************************************************)
(* Proofs about PersonalMessage for any number of approvals, messages,     *)
(* calls and invocations of the sender.                                    *)
(***************************************************************************)
EXTENDS PersonalMessage, FiniteSetTheorems, TLAPS

\* Only Begin lets a handler near the provider: these are the handlers it let.
Started(h) == handler[h].at \in {"send", "confirm", "unknown"} \/ h \in dispatched

\* A message has at most one row, and whoever acts for a row acts for one that
\* was claimed with an approval.
RowsInv ==
    /\ \A i \in Intents : row[i] # "absent" => approved[i] # None
    /\ \A i, j \in Intents :
          row[i] # "absent" /\ row[j] # "absent" /\ approved[i] = approved[j] => i = j
    /\ \A c \in Calls : call[c].at # "idle" => approved[call[c].intent] # None
    /\ \A c \in Calls : call[c].at \in {"post", "wait"} => row[call[c].intent] # "absent"
    /\ \A i \in posts : row[i] # "absent"
    /\ \A h \in Handlers : handler[h].at # "idle" => row[handler[h].claim] # "absent"

\* A row that left 'claimed' by Begin has one handler that may send, and the row
\* says so for ever.
SenderInv ==
    /\ \A h \in Handlers : Started(h) =>
          /\ handler[h].at # "idle"
          /\ row[handler[h].claim] \in {"delivery_started", "sent", "delivery_unknown"}
    /\ \A h, g \in Handlers :
          Started(h) /\ Started(g) /\ handler[h].claim = handler[g].claim => h = g
    /\ \A h \in Handlers : handler[h].at = "confirm" => h \in accepted

\* What rows, handlers and calls say agrees.
OutcomeInv ==
    /\ \A i \in Intents : row[i] = "sent" => \E h \in accepted : handler[h].claim = i
    /\ \A h \in Handlers : handler[h].outcome \in {"sent", "failed_pre_delivery"} =>
          handler[h].at # "idle" /\ row[handler[h].claim] = handler[h].outcome
    /\ \A c \in Calls : call[c].outcome \in {"sent", "failed_pre_delivery"} =>
          /\ call[c].at # "idle"
          /\ \E i \in Intents : row[i] = call[c].outcome /\ approved[i] = approved[call[c].intent]

\* The inductive invariant.
DeliveryInv == MessageTypeOK /\ RowsInv /\ SenderInv /\ OutcomeInv

-----------------------------------------------------------------------------
\* Answering a call keeps the type of the calls and what they are about.
LEMMA AnswerKeepsCalls ==
    ASSUME NEW c \in Calls, NEW status \in RowStatuses \cup {"none", "error"},
           NEW dup \in BOOLEAN, call \in [Calls -> CallType], Answer(c, status, dup)
    PROVE  /\ call' \in [Calls -> CallType]
           /\ \A d \in Calls : call'[d].intent = call[d].intent
           /\ \A d \in Calls : d # c => call'[d] = call[d]
           /\ call'[c].at = "done" /\ call'[c].outcome = status
<1> DEFINE answered == [call[c] EXCEPT !.at = "done", !.outcome = status, !.duplicate = dup]
<1>1. call' = [call EXCEPT ![c] = answered]
  BY DEF Answer
<1>2. answered \in CallType
  BY DEF CallType
<1>3. answered.at = "done" /\ answered.intent = call[c].intent /\ answered.outcome = status
  BY DEF CallType
<1> HIDE DEF answered
<1> QED BY <1>1, <1>2, <1>3

\* Every step keeps the types.
LEMMA StepKeepsTypes == MessageTypeOK /\ [Next]_vars => MessageTypeOK'
<1> SUFFICES ASSUME MessageTypeOK, [Next]_vars PROVE MessageTypeOK'
  OBVIOUS
<1> USE DEF MessageTypeOK
<1>1. ASSUME NEW i \in Intents, NEW m \in Messages, Preview(i, m) PROVE MessageTypeOK'
  BY <1>1 DEF Preview
<1>2. ASSUME NEW i \in Intents, Expire(i) PROVE MessageTypeOK'
  BY <1>2 DEF Expire
<1>3. ASSUME NEW c \in Calls, NEW i \in Intents, Verify(c, i) PROVE MessageTypeOK'
  BY <1>3 DEF Verify, CallType
<1>4. ASSUME NEW c \in Calls, Claim(c) PROVE MessageTypeOK'
  <2>1. Conflicts(call[c].intent) # {} => ExistingRow(call[c].intent) \in Intents
    BY DEF Conflicts, ExistingRow
  <2> QED BY <1>4, <2>1 DEF Claim, Answer, CallType, RowStatuses
<1>5. ASSUME NEW c \in Calls, Post(c) PROVE MessageTypeOK'
  BY <1>5 DEF Post, CallType
<1>6. ASSUME NEW c \in Calls, CallFails(c) PROVE MessageTypeOK'
  BY <1>6 DEF CallFails, Answer, CallType, RowStatuses, Terminal
<1>7. ASSUME NEW c \in Calls, NEW h \in Handlers, Relay(c, h) PROVE MessageTypeOK'
  <2>1. PICK status \in RowStatuses \cup {"none", "error"} : Answer(c, status, FALSE)
    BY <1>7 DEF Relay, Relayed, HandlerType, RowStatuses, Terminal
  <2>2. call[c].at # "idle"
    BY <1>7 DEF Relay
  <2> QED BY <1>7, <2>1, <2>2, AnswerKeepsCalls DEF Relay
<1>8. ASSUME NEW h \in Handlers, NEW i \in Intents, Start(h, i) PROVE MessageTypeOK'
  BY <1>8 DEF Start, HandlerType, RowStatuses
<1>9. ASSUME NEW h \in Handlers, Preflight(h) PROVE MessageTypeOK'
  BY <1>9 DEF Preflight, Goto, HandlerType
<1>10. ASSUME NEW h \in Handlers, Reject(h) PROVE MessageTypeOK'
  BY <1>10 DEF Reject, Finish, Reply, HandlerType, RowStatuses, Terminal
<1>11. ASSUME NEW h \in Handlers, Begin(h) PROVE MessageTypeOK'
  BY <1>11 DEF Begin, Goto, Reply, HandlerType, RowStatuses, Terminal
<1>12. ASSUME NEW h \in Handlers, Send(h) PROVE MessageTypeOK'
  BY <1>12 DEF Send, Goto, HandlerType
<1>13. ASSUME NEW h \in Handlers, Confirm(h) PROVE MessageTypeOK'
  BY <1>13 DEF Confirm, Finish, Goto, Reply, HandlerType, RowStatuses, Terminal
<1>14. ASSUME NEW h \in Handlers, RecordUnknown(h) PROVE MessageTypeOK'
  BY <1>14 DEF RecordUnknown, Finish, Reply, HandlerType, RowStatuses, Terminal
<1>15. ASSUME NEW h \in Handlers, Crash(h) PROVE MessageTypeOK'
  BY <1>15 DEF Crash, Reply, HandlerType
<1>16. CASE UNCHANGED vars
  BY <1>16 DEF vars
<1> QED
  BY <1>1, <1>2, <1>3, <1>4, <1>5, <1>6, <1>7, <1>8, <1>9, <1>10, <1>11, <1>12, <1>13,
     <1>14, <1>15, <1>16 DEF Next

\* A handler moves on for the claim it was started for.
LEMMA MoveKeepsClaims ==
    ASSUME NEW h \in Handlers, NEW s, handler \in [Handlers -> HandlerType],
           Goto(h, s) \/ Reply(h, s)
    PROVE  /\ \A g \in Handlers : handler'[g].claim = handler[g].claim
           /\ \A g \in Handlers : g # h => handler'[g] = handler[g]
           /\ Goto(h, s) => handler'[h].at = s /\ handler'[h].outcome = handler[h].outcome
           /\ Reply(h, s) => handler'[h].at = "done" /\ handler'[h].outcome = s
BY DEF Goto, Reply, HandlerType

\* Rows and approvals stay paired one to one.
LEMMA StepKeepsRows == MessageTypeOK /\ RowsInv /\ [Next]_vars => RowsInv'
<1> SUFFICES ASSUME MessageTypeOK, RowsInv, [Next]_vars PROVE RowsInv'
  OBVIOUS
<1> USE DEF MessageTypeOK, RowsInv
<1>1. ASSUME NEW i \in Intents, NEW m \in Messages, Preview(i, m) PROVE RowsInv'
  BY <1>1, NoneAssumption DEF Preview
<1>2. ASSUME NEW i \in Intents, Expire(i) PROVE RowsInv'
  BY <1>2 DEF Expire
<1>3. ASSUME NEW c \in Calls, NEW i \in Intents, Verify(c, i) PROVE RowsInv'
  BY <1>3 DEF Verify, CallType
<1>4. ASSUME NEW c \in Calls, Claim(c) PROVE RowsInv'
  BY <1>4 DEF Claim, Answer, CallType, Conflicts
<1>5. ASSUME NEW c \in Calls, Post(c) PROVE RowsInv'
  BY <1>5 DEF Post, CallType
<1>6. ASSUME NEW c \in Calls, CallFails(c) PROVE RowsInv'
  BY <1>6 DEF CallFails, Answer, CallType
<1>7. ASSUME NEW c \in Calls, NEW h \in Handlers, Relay(c, h) PROVE RowsInv'
  BY <1>7 DEF Relay, Relayed, Answer, CallType
<1>8. ASSUME NEW h \in Handlers, NEW i \in Intents, Start(h, i) PROVE RowsInv'
  BY <1>8 DEF Start
<1>9. ASSUME NEW h \in Handlers, Preflight(h) PROVE RowsInv'
  BY <1>9 DEF Preflight, Goto, HandlerType
<1>10. ASSUME NEW h \in Handlers, Reject(h) PROVE RowsInv'
  BY <1>10 DEF Reject, Finish, FinishesFrom, Reply, HandlerType
<1>11. ASSUME NEW h \in Handlers, Begin(h) PROVE RowsInv'
  BY <1>11 DEF Begin, Sendable, Goto, Reply, HandlerType
<1>12. ASSUME NEW h \in Handlers, Send(h) PROVE RowsInv'
  BY <1>12 DEF Send, Goto, HandlerType
<1>13. ASSUME NEW h \in Handlers, Confirm(h) PROVE RowsInv'
  BY <1>13 DEF Confirm, Finish, FinishesFrom, Goto, Reply, HandlerType
<1>14. ASSUME NEW h \in Handlers, RecordUnknown(h) PROVE RowsInv'
  BY <1>14 DEF RecordUnknown, Finish, FinishesFrom, Reply, HandlerType
<1>15. ASSUME NEW h \in Handlers, Crash(h) PROVE RowsInv'
  BY <1>15 DEF Crash, Reply, HandlerType
<1>16. CASE UNCHANGED vars
  BY <1>16 DEF vars
<1> QED
  BY <1>1, <1>2, <1>3, <1>4, <1>5, <1>6, <1>7, <1>8, <1>9, <1>10, <1>11, <1>12, <1>13,
     <1>14, <1>15, <1>16 DEF Next

\* One handler per row may send.
LEMMA StepKeepsSender ==
    MessageTypeOK /\ RowsInv /\ SenderInv /\ [Next]_vars => SenderInv'
<1> SUFFICES ASSUME MessageTypeOK, RowsInv, SenderInv, [Next]_vars PROVE SenderInv'
  OBVIOUS
<1> USE DEF MessageTypeOK, SenderInv, Started
<1>1. ASSUME NEW i \in Intents, NEW m \in Messages, Preview(i, m) PROVE SenderInv'
  BY <1>1 DEF Preview
<1>2. ASSUME NEW i \in Intents, Expire(i) PROVE SenderInv'
  BY <1>2 DEF Expire
<1>3. ASSUME NEW c \in Calls, NEW i \in Intents, Verify(c, i) PROVE SenderInv'
  BY <1>3 DEF Verify
<1>4. ASSUME NEW c \in Calls, Claim(c) PROVE SenderInv'
  BY <1>4 DEF Claim, Conflicts
<1>5. ASSUME NEW c \in Calls, Post(c) PROVE SenderInv'
  BY <1>5 DEF Post
<1>6. ASSUME NEW c \in Calls, CallFails(c) PROVE SenderInv'
  BY <1>6 DEF CallFails
<1>7. ASSUME NEW c \in Calls, NEW h \in Handlers, Relay(c, h) PROVE SenderInv'
  BY <1>7 DEF Relay
<1>8. ASSUME NEW h \in Handlers, NEW i \in Intents, Start(h, i) PROVE SenderInv'
  BY <1>8 DEF Start
<1>9. ASSUME NEW h \in Handlers, Preflight(h) PROVE SenderInv'
  BY <1>9, MoveKeepsClaims DEF Preflight
<1>10. ASSUME NEW h \in Handlers, Reject(h) PROVE SenderInv'
  BY <1>10, MoveKeepsClaims DEF Reject, Finish, FinishesFrom
<1>11. ASSUME NEW h \in Handlers, Begin(h) PROVE SenderInv'
  BY <1>11, MoveKeepsClaims DEF Begin, Sendable
<1>12. ASSUME NEW h \in Handlers, Send(h) PROVE SenderInv'
  BY <1>12, MoveKeepsClaims DEF Send
<1>13. ASSUME NEW h \in Handlers, Confirm(h) PROVE SenderInv'
  BY <1>13, MoveKeepsClaims DEF Confirm, Finish, FinishesFrom
<1>14. ASSUME NEW h \in Handlers, RecordUnknown(h) PROVE SenderInv'
  BY <1>14, MoveKeepsClaims DEF RecordUnknown, Finish, FinishesFrom
<1>15. ASSUME NEW h \in Handlers, Crash(h) PROVE SenderInv'
  BY <1>15, MoveKeepsClaims DEF Crash
<1>16. CASE UNCHANGED vars
  BY <1>16 DEF vars
<1> QED
  BY <1>1, <1>2, <1>3, <1>4, <1>5, <1>6, <1>7, <1>8, <1>9, <1>10, <1>11, <1>12, <1>13,
     <1>14, <1>15, <1>16 DEF Next

\* Rows, handlers and calls go on agreeing.
LEMMA StepKeepsOutcome ==
    MessageTypeOK /\ RowsInv /\ SenderInv /\ OutcomeInv /\ [Next]_vars => OutcomeInv'
<1> SUFFICES ASSUME MessageTypeOK, RowsInv, SenderInv, OutcomeInv, [Next]_vars
             PROVE  OutcomeInv'
  OBVIOUS
<1> USE DEF MessageTypeOK, OutcomeInv
<1>1. ASSUME NEW i \in Intents, NEW m \in Messages, Preview(i, m) PROVE OutcomeInv'
  BY <1>1, NoneAssumption DEF Preview, RowsInv
<1>2. ASSUME NEW i \in Intents, Expire(i) PROVE OutcomeInv'
  BY <1>2 DEF Expire
<1>3. ASSUME NEW c \in Calls, NEW i \in Intents, Verify(c, i) PROVE OutcomeInv'
  BY <1>3 DEF Verify, CallType
<1>4. ASSUME NEW c \in Calls, Claim(c) PROVE OutcomeInv'
  <2> DEFINE i == call[c].intent
  <2>1. \A j \in Intents : row'[j] # row[j] => row[j] = "absent" /\ row'[j] = "claimed"
    BY <1>4 DEF Claim, Conflicts
  <2>2. PICK status \in RowStatuses \cup {"none", "error"}, dup \in BOOLEAN :
          \/ call' = [call EXCEPT ![c].at = "post"]
          \/ /\ Answer(c, status, dup)
             /\ \/ status = "error"
                \/ \E j \in Conflicts(i) : status = row[j] /\ UNCHANGED row
    <3>1. Conflicts(i) # {} =>
            ExistingRow(i) \in Conflicts(i) /\ row[ExistingRow(i)] \in RowStatuses
      BY DEF ExistingRow, Conflicts
    <3> QED BY <1>4, <3>1 DEF Claim
  <2>3. CASE call' = [call EXCEPT ![c].at = "post"]
    BY <1>4, <2>1, <2>3 DEF Claim, CallType
  <2>4. CASE /\ Answer(c, status, dup)
             /\ \/ status = "error"
                \/ \E j \in Conflicts(i) : status = row[j] /\ UNCHANGED row
    <3>1. /\ \A d \in Calls : call'[d].intent = call[d].intent
          /\ \A d \in Calls : d # c => call'[d] = call[d]
          /\ call'[c].at = "done" /\ call'[c].outcome = status
      BY <2>4, AnswerKeepsCalls
    <3>2. approved' = approved /\ handler' = handler /\ accepted' = accepted
      BY <1>4 DEF Claim
    <3>3. \A d \in Calls : call'[d].outcome \in {"sent", "failed_pre_delivery"} =>
            /\ call'[d].at # "idle"
            /\ \E j \in Intents : /\ row'[j] = call'[d].outcome
                                 /\ approved'[j] = approved'[call'[d].intent]
      BY <2>1, <2>4, <3>1, <3>2 DEF Conflicts
    <3> QED BY <2>1, <3>2, <3>3
  <2> QED BY <2>2, <2>3, <2>4
<1>5. ASSUME NEW c \in Calls, Post(c) PROVE OutcomeInv'
  BY <1>5 DEF Post, CallType
<1>6. ASSUME NEW c \in Calls, CallFails(c) PROVE OutcomeInv'
  BY <1>6 DEF CallFails, Answer, CallType
<1>7. ASSUME NEW c \in Calls, NEW h \in Handlers, Relay(c, h) PROVE OutcomeInv'
  BY <1>7 DEF Relay, Relayed, Answer, CallType, RowsInv
<1>8. ASSUME NEW h \in Handlers, NEW i \in Intents, Start(h, i) PROVE OutcomeInv'
  BY <1>8 DEF Start, SenderInv, Started
<1>9. ASSUME NEW h \in Handlers, Preflight(h) PROVE OutcomeInv'
  BY <1>9, MoveKeepsClaims DEF Preflight
<1>10. ASSUME NEW h \in Handlers, Reject(h) PROVE OutcomeInv'
  BY <1>10, MoveKeepsClaims DEF Reject, Finish, FinishesFrom
<1>11. ASSUME NEW h \in Handlers, Begin(h) PROVE OutcomeInv'
  BY <1>11, MoveKeepsClaims DEF Begin, Sendable
<1>12. ASSUME NEW h \in Handlers, Send(h) PROVE OutcomeInv'
  BY <1>12, MoveKeepsClaims DEF Send
<1>13. ASSUME NEW h \in Handlers, Confirm(h) PROVE OutcomeInv'
  BY <1>13, MoveKeepsClaims DEF Confirm, Finish, FinishesFrom, SenderInv
<1>14. ASSUME NEW h \in Handlers, RecordUnknown(h) PROVE OutcomeInv'
  BY <1>14, MoveKeepsClaims DEF RecordUnknown, Finish, FinishesFrom
<1>15. ASSUME NEW h \in Handlers, Crash(h) PROVE OutcomeInv'
  BY <1>15, MoveKeepsClaims DEF Crash
<1>16. CASE UNCHANGED vars
  BY <1>16 DEF vars
<1> QED
  BY <1>1, <1>2, <1>3, <1>4, <1>5, <1>6, <1>7, <1>8, <1>9, <1>10, <1>11, <1>12, <1>13,
     <1>14, <1>15, <1>16 DEF Next

-----------------------------------------------------------------------------
\* Every reachable state satisfies the inductive invariant.
THEOREM DeliveryCorrect == Spec => []DeliveryInv
<1>1. Init => DeliveryInv
  BY DEF Init, DeliveryInv, MessageTypeOK, RowsInv, SenderInv, OutcomeInv, Started,
         CallType, HandlerType, RowStatuses
<1>2. DeliveryInv /\ [Next]_vars => DeliveryInv'
  BY StepKeepsTypes, StepKeepsRows, StepKeepsSender, StepKeepsOutcome DEF DeliveryInv
<1> QED BY <1>1, <1>2, PTL DEF Spec

\* Every reachable state has the declared types.
THEOREM MessageTypeCorrect == Spec => []MessageTypeOK
BY DeliveryCorrect, PTL DEF DeliveryInv

\* No message reaches the provider twice.
THEOREM AtMostOnceCorrect == Spec => []AtMostOnce
<1>1. DeliveryInv => AtMostOnce
  BY DEF DeliveryInv, MessageTypeOK, RowsInv, SenderInv, Started, AtMostOnce, MessageOf
<1> QED BY <1>1, DeliveryCorrect, PTL

\* A row never claims a delivery, or the absence of one, that is not so.
THEOREM RowIsTruthfulCorrect == Spec => []RowIsTruthful
<1>1. DeliveryInv => RowIsTruthful
  BY DEF DeliveryInv, MessageTypeOK, RowsInv, SenderInv, OutcomeInv, Started,
         RowIsTruthful, MessageOf
<1> QED BY <1>1, DeliveryCorrect, PTL

\* Nor does an answer to a user.
THEOREM AnswerIsTruthfulCorrect == Spec => []AnswerIsTruthful
<1>1. DeliveryInv => AnswerIsTruthful
  BY DEF DeliveryInv, MessageTypeOK, RowsInv, SenderInv, OutcomeInv, Started,
         AnswerIsTruthful, MessageOf
<1> QED BY <1>1, DeliveryCorrect, PTL

-----------------------------------------------------------------------------
(* The path implements the abstract delivery. *)

\* A handler on its way to the provider, or back from it with a success, finds its
\* row as Begin left it, and the first asks for the first time.
SendsInv ==
    \A h \in Handlers :
        /\ handler[h].at \in {"send", "confirm"} => row[handler[h].claim] = "delivery_started"
        /\ handler[h].at = "send" => h \notin dispatched
        /\ handler[h].at = "preflight" => h \notin dispatched

\* Only the one handler that Begin let go on changes a row in 'delivery_started'.
LEMMA StepKeepsSends ==
    MessageTypeOK /\ RowsInv /\ SenderInv /\ SendsInv /\ [Next]_vars => SendsInv'
<1> SUFFICES ASSUME MessageTypeOK, RowsInv, SenderInv, SendsInv, [Next]_vars PROVE SendsInv'
  OBVIOUS
<1> USE DEF MessageTypeOK, SendsInv
<1>1. CASE UNCHANGED <<row, handler, dispatched>>
  BY <1>1
<1>2. ASSUME NEW c \in Calls, Claim(c) PROVE SendsInv'
  BY <1>2 DEF Claim, Conflicts
<1>3. ASSUME NEW h \in Handlers, NEW i \in Intents, Start(h, i) PROVE SendsInv'
  BY <1>3 DEF Start, SenderInv, Started
<1>4. ASSUME NEW h \in Handlers, Preflight(h) PROVE SendsInv'
  BY <1>4, MoveKeepsClaims DEF Preflight
<1>5. ASSUME NEW h \in Handlers, Reject(h) PROVE SendsInv'
  BY <1>5, MoveKeepsClaims DEF Reject, Finish, FinishesFrom
<1>6. ASSUME NEW h \in Handlers, Begin(h) PROVE SendsInv'
  BY <1>6, MoveKeepsClaims DEF Begin, Sendable, SenderInv, Started
<1>7. ASSUME NEW h \in Handlers, Send(h) PROVE SendsInv'
  BY <1>7, MoveKeepsClaims DEF Send
<1>8. ASSUME NEW h \in Handlers, Confirm(h) \/ RecordUnknown(h) PROVE SendsInv'
  BY <1>8, MoveKeepsClaims DEF Confirm, RecordUnknown, Finish, FinishesFrom, SenderInv, Started
<1>9. ASSUME NEW h \in Handlers, Crash(h) PROVE SendsInv'
  BY <1>9, MoveKeepsClaims DEF Crash
<1> QED
  BY <1>1, <1>2, <1>3, <1>4, <1>5, <1>6, <1>7, <1>8, <1>9
     DEF Next, vars, Preview, Expire, Verify, Post, CallFails, Relay

\* What is seen from outside, said without a choice or a count.
Seen ==
    /\ \A i \in Intents : row[i] # "absent" => StateOf(approved[i]) = row[i]
    /\ \A m \in Messages :
          (\A i \in Intents : row[i] # "absent" => approved[i] # m) => StateOf(m) = "absent"
    /\ \A m \in Messages :
          RequestsFor(m) = IF \E h \in dispatched : MessageOf(h) = m THEN 1 ELSE 0

\* One row and one request per message: the choice has one candidate, the count one
\* element.
LEMMA InvIsSeen == DeliveryInv => Seen
<1> SUFFICES ASSUME DeliveryInv PROVE Seen
  OBVIOUS
<1> USE DEF DeliveryInv
<1>1. ASSUME NEW i \in Intents, row[i] # "absent" PROVE StateOf(approved[i]) = row[i]
  <2>1. RowsOf(approved[i]) = {i}
    BY <1>1 DEF RowsOf, RowsInv
  <2> QED BY <2>1 DEF StateOf
<1>2. ASSUME NEW m \in Messages, \A i \in Intents : row[i] # "absent" => approved[i] # m
      PROVE  StateOf(m) = "absent"
  BY <1>2 DEF StateOf, RowsOf
<1>3. AtMostOnce
  BY DEF MessageTypeOK, RowsInv, SenderInv, Started, AtMostOnce, MessageOf
<1>4. ASSUME NEW m \in Messages
      PROVE  RequestsFor(m) = IF \E h \in dispatched : MessageOf(h) = m THEN 1 ELSE 0
  <2>1. CASE \E h \in dispatched : MessageOf(h) = m
    <3>1. PICK h \in dispatched : MessageOf(h) = m
      BY <2>1
    <3>2. {g \in dispatched : MessageOf(g) = m} = {h}
      BY <1>3, <3>1 DEF AtMostOnce
    <3> QED BY <2>1, <3>2, FS_Singleton DEF RequestsFor
  <2>2. CASE ~ \E h \in dispatched : MessageOf(h) = m
    <3>1. {g \in dispatched : MessageOf(g) = m} = {}
      BY <2>2
    <3> QED BY <2>2, <3>1, FS_EmptySet DEF RequestsFor
  <2> QED BY <2>1, <2>2
<1> QED BY <1>1, <1>2, <1>4 DEF Seen

\* Handlers that have begun keep their claim, and claimed approvals their message:
\* the provider's requests stay about the same messages.
LEMMA MessagesStay ==
    ASSUME DeliveryInv, [Next]_vars
    PROVE  /\ \A i \in Intents : row[i] # "absent" => approved'[i] = approved[i]
           /\ \A h \in Handlers : handler[h].at # "idle" =>
                 handler'[h].claim = handler[h].claim /\ MessageOf(h)' = MessageOf(h)
<1> USE DEF DeliveryInv, MessageTypeOK
<1>1. \A i \in Intents : row[i] # "absent" => approved'[i] = approved[i]
  BY DEF Next, vars, RowsInv, Preview, Expire, Verify, Post, Claim, CallFails, Relay, Start, Preflight,
         Reject, Begin, Send, Confirm, RecordUnknown, Crash
<1>2. ASSUME NEW h \in Handlers, handler[h].at # "idle"
      PROVE  handler'[h].claim = handler[h].claim
  <2>1. ASSUME NEW g \in Handlers,
               Preflight(g) \/ Reject(g) \/ Begin(g) \/ Send(g) \/ Confirm(g) \/ RecordUnknown(g)
                 \/ Crash(g)
        PROVE  handler'[h].claim = handler[h].claim
    BY <2>1, MoveKeepsClaims DEF Preflight, Reject, Begin, Send, Confirm, RecordUnknown, Crash, Finish
  <2>2. ASSUME NEW g \in Handlers, NEW i \in Intents, Start(g, i)
        PROVE  handler'[h].claim = handler[h].claim
    BY <1>2, <2>2 DEF Start
  <2>3. CASE UNCHANGED handler
    BY <2>3
  <2> QED BY <2>1, <2>2, <2>3 DEF Next, vars, Preview, Expire, Verify, Claim, Post, CallFails, Relay
<1>3. ASSUME NEW h \in Handlers, handler[h].at # "idle" PROVE MessageOf(h)' = MessageOf(h)
  BY <1>1, <1>2, <1>3 DEF MessageOf, RowsInv
<1> QED BY <1>1, <1>2, <1>3

\* What the provider got, or delivered, before a step it has after it.
LEMMA RequestsStay ==
    ASSUME DeliveryInv, [Next]_vars
    PROVE  \A h \in dispatched : h \in Handlers /\ MessageOf(h)' = MessageOf(h)
BY MessagesStay DEF DeliveryInv, MessageTypeOK, SenderInv, Started

\* A step that changes no row and reaches no provider is not seen.
LEMMA QuietStep ==
    ASSUME DeliveryInv, Seen, Seen', [Next]_vars, UNCHANGED <<row, dispatched, accepted>>
    PROVE  UNCHANGED Outside!vars
<1> USE DEF DeliveryInv, MessageTypeOK
<1>1. ASSUME NEW m \in Messages PROVE StateOf(m)' = StateOf(m)
  <2>1. ASSUME NEW i \in Intents, row[i] # "absent", approved[i] = m
        PROVE  StateOf(m)' = StateOf(m)
    BY <2>1, MessagesStay DEF Seen
  <2>2. CASE \A i \in Intents : row[i] # "absent" => approved[i] # m
    BY <2>2, MessagesStay DEF Seen
  <2> QED BY <2>1, <2>2
<1>2. ASSUME NEW m \in Messages PROVE RequestsFor(m)' = RequestsFor(m)
  BY RequestsStay DEF Seen
<1>3. {MessageOf(h) : h \in accepted}' = {MessageOf(h) : h \in accepted}
  BY RequestsStay
<1> QED BY <1>1, <1>2, <1>3 DEF Outside!vars

\* A step that changes one row is a step of its message.
LEMMA RowStep ==
    ASSUME DeliveryInv, Seen, Seen', [Next]_vars, UNCHANGED <<approved, dispatched, accepted>>,
           NEW i \in Intents, NEW to, to # "absent", row' = [row EXCEPT ![i] = to],
           row[i] # "absent" \/ Conflicts(i) = {}, approved[i] \in Messages
    PROVE  Outside!Becomes(approved[i], row[i], to)
<1> USE DEF DeliveryInv, MessageTypeOK
<1> DEFINE m == approved[i]
<1>1. StateOf(m) = row[i] /\ StateOf(m)' = to
  <2>1. StateOf(m) = row[i]
    BY DEF Seen, Conflicts
  <2> QED BY <2>1 DEF Seen
<1>2. ASSUME NEW n \in Messages, n # m PROVE StateOf(n)' = StateOf(n)
  <2>1. ASSUME NEW j \in Intents, row[j] # "absent", approved[j] = n
        PROVE  StateOf(n)' = StateOf(n)
    <3>1. j # i /\ row'[j] = row[j]
      BY <1>2, <2>1
    <3> QED BY <2>1, <3>1 DEF Seen
  <2>2. CASE \A j \in Intents : row[j] # "absent" => approved[j] # n
    <3>1. \A j \in Intents : row'[j] # "absent" => approved'[j] # n
      BY <1>2, <2>2
    <3> QED BY <2>2, <3>1 DEF Seen
  <2> QED BY <2>1, <2>2
<1>3. ASSUME NEW n \in Messages PROVE RequestsFor(n)' = RequestsFor(n)
  BY RequestsStay DEF Seen
<1>4. {MessageOf(h) : h \in accepted}' = {MessageOf(h) : h \in accepted}
  BY RequestsStay
<1> DEFINE state == [n \in Messages |-> StateOf(n)]
           requests == [n \in Messages |-> RequestsFor(n)]
<1>5. state[m] = row[i] /\ state' = [state EXCEPT ![m] = to]
  BY <1>1, <1>2
<1>6. requests' = requests
  BY <1>3
<1> QED BY <1>4, <1>5, <1>6 DEF Outside!Becomes

\* The provider call is the one request for its message, or is not seen.
LEMMA SendIsSeen ==
    ASSUME DeliveryInv, SendsInv, Seen, Seen', [Next]_vars, NEW h \in Handlers, Send(h)
    PROVE  Outside!Next \/ UNCHANGED Outside!vars
<1> USE DEF DeliveryInv, MessageTypeOK
<1>1. CASE UNCHANGED dispatched /\ UNCHANGED accepted
  BY <1>1, QuietStep DEF Send
<1>2. CASE dispatched' = dispatched \cup {h} /\ accepted' \in {accepted, accepted \cup {h}}
  <2>1. /\ handler[h].at = "send" /\ handler[h].claim \in Intents
        /\ row[handler[h].claim] = "delivery_started"
    BY DEF Send, SendsInv
  <2>2. PICK m \in Messages : m = approved[handler[h].claim] /\ StateOf(m) = "delivery_started"
    BY <2>1, NoneAssumption DEF RowsInv, Seen
  <2>3. MessageOf(h) = m /\ MessageOf(h)' = m
    BY <2>1, <2>2, MessagesStay DEF MessageOf
  <2>4. \A g \in dispatched : MessageOf(g) # m
    BY <2>1, <2>2, <2>3 DEF SendsInv, RowsInv, SenderInv, Started, MessageOf
  <2>5. approved' = approved /\ row' = row
    BY DEF Send
  <2>6. ASSUME NEW n \in Messages PROVE StateOf(n)' = StateOf(n)
    BY <2>5 DEF StateOf, RowsOf
  <2>7. RequestsFor(m) = 0 /\ RequestsFor(m)' = 1
    BY <1>2, <2>3, <2>4 DEF Seen
  <2>8. ASSUME NEW n \in Messages, n # m PROVE RequestsFor(n)' = RequestsFor(n)
    BY <1>2, <2>3, <2>8, RequestsStay DEF Seen
  <2> DEFINE state == [n \in Messages |-> StateOf(n)]
             requests == [n \in Messages |-> RequestsFor(n)]
             arrived == {MessageOf(g) : g \in accepted}
  <2>9. state' = state
    BY <2>6
  <2>10. requests' = [requests EXCEPT ![m] = 1] /\ requests[m] = 0
    BY <2>7, <2>8
  <2>11. arrived' \in {arrived, arrived \cup {m}}
    <3>1. \A g \in accepted : MessageOf(g)' = MessageOf(g)
      BY RequestsStay
    <3>2. CASE accepted' = accepted
      BY <3>1, <3>2
    <3>3. CASE accepted' = accepted \cup {h}
      BY <2>3, <3>1, <3>3
    <3> QED BY <1>2, <3>2, <3>3
  <2>12. Outside!Request(m)
    BY <2>2, <2>9, <2>10, <2>11 DEF Outside!Request
  <2> QED BY <2>12 DEF Outside!Next
<1> QED BY <1>1, <1>2 DEF Send

\* Every write of a row is a step of the abstract delivery.
LEMMA WriteIsSeen ==
    ASSUME DeliveryInv, SendsInv, Seen, Seen', [Next]_vars, row' # row
    PROVE  Outside!Next
<1> USE DEF DeliveryInv, MessageTypeOK
<1>1. ASSUME NEW c \in Calls, Claim(c) PROVE Outside!Next
  <2> DEFINE i == call[c].intent
  <2>1. /\ i \in Intents /\ Conflicts(i) = {} /\ row' = [row EXCEPT ![i] = "claimed"]
        /\ approved[i] \in Messages /\ UNCHANGED <<approved, dispatched, accepted>>
    BY <1>1, NoneAssumption DEF Claim, RowsInv
  <2>2. row[i] = "absent"
    BY <2>1 DEF Conflicts
  <2>3. Outside!Becomes(approved[i], "absent", "claimed")
    BY <2>1, <2>2, RowStep
  <2> QED BY <2>1, <2>3 DEF Outside!Next, Outside!Claim
<1>2. ASSUME NEW h \in Handlers, NEW to \in Terminal \cup {"delivery_started"},
             LET i == handler[h].claim
             IN  /\ handler[h].at # "idle" /\ row' = [row EXCEPT ![i] = to]
                 /\ UNCHANGED <<approved, dispatched, accepted>>
      PROVE  /\ approved[handler[h].claim] \in Messages
             /\ Outside!Becomes(approved[handler[h].claim], row[handler[h].claim], to)
  <2> DEFINE i == handler[h].claim
  <2>1. i \in Intents /\ row[i] # "absent" /\ approved[i] \in Messages
    BY <1>2, NoneAssumption DEF RowsInv
  <2>2. to # "absent"
    BY <1>2 DEF Terminal
  <2> QED BY <1>2, <2>1, <2>2, RowStep
<1>3. ASSUME NEW h \in Handlers, Begin(h) PROVE Outside!Next
  <2>1. Outside!Becomes(approved[handler[h].claim], "claimed", "delivery_started")
        /\ approved[handler[h].claim] \in Messages
    BY <1>2, <1>3 DEF Begin, Sendable
  <2> QED BY <2>1 DEF Outside!Next, Outside!Begin
<1>4. ASSUME NEW h \in Handlers, Reject(h) PROVE Outside!Next
  <2>1. Outside!Becomes(approved[handler[h].claim], "claimed", "failed_pre_delivery")
        /\ approved[handler[h].claim] \in Messages
    BY <1>2, <1>4 DEF Reject, Finish, FinishesFrom, Terminal
  <2> QED BY <2>1 DEF Outside!Next, Outside!GiveUp
<1>5. ASSUME NEW h \in Handlers, Confirm(h) PROVE Outside!Next
  <2>1. Outside!Becomes(approved[handler[h].claim], "delivery_started", "sent")
        /\ approved[handler[h].claim] \in Messages
    BY <1>2, <1>5 DEF Confirm, Finish, FinishesFrom, Terminal
  <2>2. approved[handler[h].claim] \in {MessageOf(g) : g \in accepted}
    BY <1>5 DEF Confirm, SenderInv, MessageOf
  <2> QED BY <2>1, <2>2 DEF Outside!Next, Outside!Confirm
<1>6. ASSUME NEW h \in Handlers, RecordUnknown(h) PROVE Outside!Next
  <2>1. Outside!Becomes(approved[handler[h].claim], "delivery_started", "delivery_unknown")
        /\ approved[handler[h].claim] \in Messages
    BY <1>2, <1>6 DEF RecordUnknown, Finish, FinishesFrom, Terminal
  <2> QED BY <2>1 DEF Outside!Next, Outside!Doubt
<1> QED
  BY <1>1, <1>3, <1>4, <1>5, <1>6
     DEF Next, vars, Preview, Expire, Verify, Post, CallFails, Relay, Start, Preflight, Send, Crash

\* The personal-message path keeps the promise of the abstract delivery.
THEOREM MessageDeliveryImplemented == Spec => ImplementsMessageDelivery
<1>1. Init => SendsInv /\ Outside!Init
  <2> SUFFICES ASSUME Init PROVE SendsInv /\ Outside!Init
    OBVIOUS
  <2>1. ASSUME NEW m \in Messages PROVE StateOf(m) = "absent" /\ RequestsFor(m) = 0
    <3>1. {h \in dispatched : MessageOf(h) = m} = {} /\ RowsOf(m) = {}
      BY DEF Init, RowsOf
    <3> QED BY <3>1, FS_EmptySet DEF StateOf, RequestsFor
  <2>2. SendsInv
    BY DEF Init, SendsInv
  <2>3. {MessageOf(h) : h \in accepted} = {}
    BY DEF Init
  <2> QED BY <2>1, <2>2, <2>3 DEF Outside!Init
<1>2. DeliveryInv /\ SendsInv /\ [Next]_vars => SendsInv'
  BY StepKeepsSends DEF DeliveryInv
<1>3. DeliveryInv /\ SendsInv /\ Seen /\ Seen' /\ [Next]_vars => [Outside!Next]_(Outside!vars)
  <2> SUFFICES ASSUME DeliveryInv, SendsInv, Seen, Seen', [Next]_vars
               PROVE  Outside!Next \/ UNCHANGED Outside!vars
    OBVIOUS
  <2>1. CASE row' # row
    BY <2>1, WriteIsSeen
  <2>2. ASSUME NEW h \in Handlers, Send(h) PROVE Outside!Next \/ UNCHANGED Outside!vars
    BY <2>2, SendIsSeen
  <2>3. CASE UNCHANGED <<row, dispatched, accepted>>
    BY <2>3, QuietStep
  <2> QED
    BY <2>1, <2>2, <2>3 DEF Next, vars, Preview, Expire, Verify, Claim, Post, CallFails, Relay, Start,
       Preflight, Reject, Begin, Confirm, RecordUnknown, Crash
<1>4. DeliveryInv => Seen
  BY InvIsSeen
<1> QED BY <1>1, <1>2, <1>3, <1>4, DeliveryCorrect, PTL DEF Spec, ImplementsMessageDelivery, Outside!Spec
=============================================================================
