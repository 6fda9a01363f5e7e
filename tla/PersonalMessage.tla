---------------------------- MODULE PersonalMessage ----------------------------
(***************************************************************************)
(* The bounded LINE WORKS personal-message path: the hub API (preview and  *)
(* send), the sender function it calls over HTTP, the three os.* RPCs that  *)
(* keep the delivery row, and the LINE WORKS provider.                      *)
(*                                                                         *)
(* An RPC is one transaction and one action; everything between two awaits *)
(* of a handler is one action.  The reply of an RPC may be lost after its  *)
(* transaction committed, the sender may be started more than once for a   *)
(* claim (the POST is repeated on the way, or an operator repeats it), and *)
(* a handler may die between any two steps.  Only one text may be sent, so *)
(* a message (content_fingerprint) is a recipient.                         *)
(***************************************************************************)
EXTENDS Naturals, FiniteSets, Absent

CONSTANTS
    Intents,   \* approval ids (jti), which become the ids of delivery rows
    Messages,  \* recipient and content: what the unique index is about
    Calls,     \* requests to the hub API's send action
    Handlers  \* invocations of the sender function

ASSUME NoneAssumption == None \notin Messages \cup Intents

Terminal == {"sent", "failed_pre_delivery", "delivery_unknown"}
RowStatuses == {"absent", "claimed", "delivery_started"} \cup Terminal

VARIABLES
    approved,    \* the message an issued approval is signed for
    expired,     \* the approvals whose exp has passed
    row,         \* line_works_personal_message_deliveries: id -> status
    posts,       \* the claims POSTed to the sender
    call,        \* calls of the send action
    handler,     \* invocations of the sender
    dispatched,  \* the invocations whose request reached the provider
    accepted     \* those of them whose message the provider delivered

vars == <<approved, expired, row, posts, call, handler, dispatched, accepted>>

\* outcome: the status a call or a handler answered with, 'error' without one.
\* duplicate: the call was answered from an existing row.
CallType == [at: {"idle", "verified", "post", "wait", "done"},
             intent: Intents \cup {None}, outcome: RowStatuses \cup {"none", "error"},
             duplicate: BOOLEAN]
HandlerType == [at: {"idle", "preflight", "reject", "begin", "send", "confirm",
                     "unknown", "done"},
                claim: Intents \cup {None}, outcome: RowStatuses \cup {"none", "error"}]

-----------------------------------------------------------------------------
(* The database. *)

\* The rows the INSERT of a claim conflicts with: the primary key and the
\* unique index on recipient and content.
Conflicts(i) == {j \in Intents : row[j] # "absent" /\ approved[j] = approved[i]}

\* os.claim_line_works_personal_message_v1 finds row i first.
ExistingRow(i) == IF i \in Conflicts(i) THEN i ELSE CHOOSE j \in Conflicts(i) : TRUE

\* Mutant of Sendable: begin does not look at the status.
Unexpired(i) == i \notin expired

\* Mutant of Sendable: an unknown delivery may be tried again.
SendableAgain(i) == row[i] \in {"claimed", "delivery_unknown"} /\ i \notin expired

\* os.begin_line_works_personal_message_delivery_v1
Sendable(i) == row[i] = "claimed" /\ i \notin expired

\* Mutant of FinishesFrom: every outcome is that of a started delivery.
FinishesStarted(to) == "delivery_started"

\* The row os.finish_line_works_personal_message_delivery_v1 updates.
FinishesFrom(to) == IF to = "failed_pre_delivery" THEN "claimed" ELSE "delivery_started"

-----------------------------------------------------------------------------
(* The hub API. *)

Init ==
    /\ approved = [i \in Intents |-> None]
    /\ expired = {}
    /\ row = [i \in Intents |-> "absent"]
    /\ posts = {}
    /\ call = [c \in Calls |-> [at |-> "idle", intent |-> None, outcome |-> "none",
                                duplicate |-> FALSE]]
    /\ handler = [h \in Handlers |-> [at |-> "idle", claim |-> None, outcome |-> "none"]]
    /\ dispatched = {}
    /\ accepted = {}

\* previewLineWorksPersonalMessage signs a fresh approval.
Preview(i, m) ==
    /\ approved[i] = None
    /\ approved' = [approved EXCEPT ![i] = m]
    /\ UNCHANGED <<expired, row, posts, call, handler, dispatched, accepted>>

\* Five minutes pass.
Expire(i) ==
    /\ approved[i] # None /\ i \notin expired
    /\ expired' = expired \cup {i}
    /\ UNCHANGED <<approved, row, posts, call, handler, dispatched, accepted>>

Answer(c, status, dup) ==
    call' = [call EXCEPT ![c].at = "done", ![c].outcome = status, ![c].duplicate = dup]

\* Mutant of Verify: the id of the approval is not taken over.
VerifyAnonymously(c, i) ==
    /\ call[c].at = "idle"
    /\ approved[i] # None /\ i \notin expired
    /\ call' = [call EXCEPT ![c].at = "verified"]
    /\ UNCHANGED <<approved, expired, row, posts, handler, dispatched, accepted>>

\* sendLineWorksPersonalMessage up to the claim: a valid approval for the very
\* message; any other call is refused without an effect.
Verify(c, i) ==
    /\ call[c].at = "idle"
    /\ approved[i] # None /\ i \notin expired
    /\ call' = [call EXCEPT ![c].at = "verified", ![c].intent = i]
    /\ UNCHANGED <<approved, expired, row, posts, handler, dispatched, accepted>>

\* The claim: INSERT ... ON CONFLICT DO NOTHING.  An existing row, in whatever
\* status, answers the call; 'lost': the call fails although the row is there.
Claim(c) ==
    LET i == call[c].intent
        lost == Answer(c, "error", FALSE)
    IN  /\ call[c].at = "verified"
        /\ i \notin expired
        /\ IF Conflicts(i) = {}
             THEN /\ row' = [row EXCEPT ![i] = "claimed"]
                  /\ call' = [call EXCEPT ![c].at = "post"] \/ lost
             ELSE /\ Answer(c, row[ExistingRow(i)], TRUE) \/ lost
                  /\ UNCHANGED row
        /\ UNCHANGED <<approved, expired, posts, handler, dispatched, accepted>>

Post(c) ==
    /\ call[c].at = "post"
    /\ posts' = posts \cup {call[c].intent}
    /\ call' = [call EXCEPT ![c].at = "wait"]
    /\ UNCHANGED <<approved, expired, row, handler, dispatched, accepted>>

\* Mutant of Relayed: an answer without a status is taken for a failure.
RelayedAsFailed(outcome) ==
    IF outcome = "error" THEN "failed_pre_delivery" ELSE outcome

\* normalizeLineWorksPersonalMessageResult
Relayed(outcome) == IF outcome = "error" THEN "delivery_unknown" ELSE outcome

\* The answer of the sender is passed on; one without a status is unknown.
Relay(c, h) ==
    /\ call[c].at = "wait"
    /\ handler[h].at = "done" /\ handler[h].claim = call[c].intent
    /\ handler[h].outcome # "none"
    /\ Answer(c, Relayed(handler[h].outcome), FALSE)
    /\ UNCHANGED <<approved, expired, row, posts, handler, dispatched, accepted>>

\* The claim RPC raises or cannot be reached, the fetch fails, its answer has
\* no body to parse or breaks off.
CallFails(c) ==
    /\ \/ call[c].at \in {"verified", "wait"} /\ Answer(c, "error", FALSE)
       \/ call[c].at \in {"post", "wait"} /\ Answer(c, "delivery_unknown", FALSE)
    /\ UNCHANGED <<approved, expired, row, posts, handler, dispatched, accepted>>

-----------------------------------------------------------------------------
(* The sender: handlePersonalMessageClaim. *)

Goto(h, stage) == handler' = [handler EXCEPT ![h].at = stage]
Reply(h, status) == handler' = [handler EXCEPT ![h].at = "done", ![h].outcome = status]

\* The row is read; one that is not 'claimed' any more is never sent.
Start(h, i) ==
    /\ handler[h].at = "idle"
    /\ i \in posts
    /\ handler' = [handler EXCEPT ![h] =
                     IF row[i] = "claimed"
                       THEN [at |-> "preflight", claim |-> i, outcome |-> "none"]
                       ELSE [at |-> "done", claim |-> i, outcome |-> row[i]]]
    /\ UNCHANGED <<approved, expired, row, posts, call, dispatched, accepted>>

\* The destination is read again and the provider's configuration checked.
Preflight(h) ==
    /\ handler[h].at = "preflight"
    /\ Goto(h, "begin") \/ Goto(h, "reject")
    /\ UNCHANGED <<approved, expired, row, posts, call, dispatched, accepted>>

\* finishPersonalMessageClaim: 'done' if the row was updated and the handler
\* hears of it, 'refused' if the update was rejected, failed or went unheard.
Finish(h, to, done, refused) ==
    LET i == handler[h].claim
    IN  \/ /\ row[i] = FinishesFrom(to)
           /\ row' = [row EXCEPT ![i] = to]
           /\ done \/ refused
        \/ refused /\ UNCHANGED row

Reject(h) ==
    /\ handler[h].at = "reject"
    /\ Finish(h, "failed_pre_delivery", Reply(h, "failed_pre_delivery"), Reply(h, "error"))
    /\ UNCHANGED <<approved, expired, posts, call, dispatched, accepted>>

\* claimed -> delivery_started; without it the provider is not called.
Begin(h) ==
    LET i == handler[h].claim
    IN  /\ handler[h].at = "begin"
        /\ \/ /\ Sendable(i)
              /\ row' = [row EXCEPT ![i] = "delivery_started"]
              /\ Goto(h, "send") \/ Reply(h, "error")
           \/ /\ ~ Sendable(i)
              /\ Reply(h, "delivery_unknown")
              /\ UNCHANGED row
        /\ UNCHANGED <<approved, expired, posts, call, dispatched, accepted>>

\* The provider call: no access token; or the request arrives and the message
\* is delivered or not; an OK response is given to a delivered one only.
Send(h) ==
    /\ handler[h].at = "send"
    /\ \/ Goto(h, "unknown") /\ UNCHANGED <<dispatched, accepted>>
       \/ /\ dispatched' = dispatched \cup {h}
          /\ \/ accepted' = accepted \cup {h} /\ Goto(h, "confirm")
             \/ accepted' = accepted \cup {h} /\ Goto(h, "unknown")
             \/ UNCHANGED accepted /\ Goto(h, "unknown")
    /\ UNCHANGED <<approved, expired, row, posts, call>>

\* A failure to record 'sent' falls into the catch that records unknown.
Confirm(h) ==
    /\ handler[h].at = "confirm"
    /\ Finish(h, "sent", Reply(h, "sent"), Goto(h, "unknown"))
    /\ UNCHANGED <<approved, expired, posts, call, dispatched, accepted>>

RecordUnknown(h) ==
    /\ handler[h].at = "unknown"
    /\ Finish(h, "delivery_unknown", Reply(h, "delivery_unknown"), Reply(h, "error"))
    /\ UNCHANGED <<approved, expired, posts, call, dispatched, accepted>>

\* The invocation dies, or an await of it throws before the provider call.
Crash(h) ==
    /\ handler[h].at \notin {"idle", "done"}
    /\ \/ Reply(h, "none")
       \/ handler[h].at \in {"preflight", "begin"} /\ Reply(h, "error")
    /\ UNCHANGED <<approved, expired, row, posts, call, dispatched, accepted>>

Next ==
    \/ \E i \in Intents, m \in Messages : Preview(i, m)
    \/ \E i \in Intents : Expire(i)
    \/ \E c \in Calls :
          \/ \E i \in Intents : Verify(c, i)
          \/ Claim(c) \/ Post(c) \/ CallFails(c)
          \/ \E h \in Handlers : Relay(c, h)
    \/ \E h \in Handlers :
          \/ \E i \in Intents : Start(h, i)
          \/ Preflight(h) \/ Reject(h) \/ Begin(h) \/ Send(h)
          \/ Confirm(h) \/ RecordUnknown(h) \/ Crash(h)

Spec == Init /\ [][Next]_vars

-----------------------------------------------------------------------------
(* Properties. *)

\* The type invariant.
MessageTypeOK ==
    /\ approved \in [Intents -> Messages \cup {None}]
    /\ expired \subseteq Intents
    /\ row \in [Intents -> RowStatuses]
    /\ posts \subseteq Intents
    /\ call \in [Calls -> CallType]
    /\ \A c \in Calls : call[c].at # "idle" => call[c].intent \in Intents
    /\ handler \in [Handlers -> HandlerType]
    /\ \A h \in Handlers : handler[h].at # "idle" => handler[h].claim \in Intents
    /\ dispatched \subseteq Handlers
    /\ accepted \subseteq dispatched

\* The message a handler was started for.
MessageOf(h) == approved[handler[h].claim]

\* At most once: a message reaches the provider in one request at the most,
\* whatever approvals, calls and handlers there were for it, whatever was lost,
\* repeated or died.
AtMostOnce ==
    \A h, g \in dispatched : MessageOf(h) = MessageOf(g) => h = g

\* The row tells the truth: 'sent' means delivered, 'failed_pre_delivery' (and
\* 'claimed') that the provider was never asked to deliver this message.
RowIsTruthful ==
    \A i \in Intents :
        /\ row[i] = "sent" => \E h \in accepted : handler[h].claim = i
        /\ row[i] \in {"claimed", "failed_pre_delivery"} =>
              \A h \in dispatched : MessageOf(h) # approved[i]

\* So does the answer the user sees, for ever: nobody is told 'sent' of a message
\* that was not delivered, and who is told 'failed_pre_delivery' will not see the
\* message delivered later by another handler.
AnswerIsTruthful ==
    \A c \in Calls :
        /\ call[c].outcome = "sent" => \E h \in accepted : MessageOf(h) = approved[call[c].intent]
        /\ call[c].outcome = "failed_pre_delivery" =>
              \A h \in dispatched : MessageOf(h) # approved[call[c].intent]

\* What is seen from outside of a message: its row, the requests the provider got
\* and what it delivered.
RowsOf(m) == {i \in Intents : row[i] # "absent" /\ approved[i] = m}
StateOf(m) == IF RowsOf(m) = {} THEN "absent" ELSE row[CHOOSE i \in RowsOf(m) : TRUE]
RequestsFor(m) == Cardinality({h \in dispatched : MessageOf(h) = m})

Outside == INSTANCE MessageDelivery WITH
    state <- [m \in Messages |-> StateOf(m)],
    requests <- [m \in Messages |-> RequestsFor(m)],
    arrived <- {MessageOf(h) : h \in accepted}

\* The path with its approvals, repeated calls, handlers and lost replies implements
\* the abstract delivery: a row only goes forward, the one request is made between
\* 'delivery_started' and the end, and the end is final, whatever late finish of
\* another handler, or one after an unheard success, comes.
ImplementsMessageDelivery == Outside!Spec

-----------------------------------------------------------------------------
(* What a document of the repository says, and the claim does not do. *)

\* "A definitely pre-dispatch validation/resolution failure becomes
\* failed_pre_delivery; any retry still requires a fresh preview and approval"
\* (change plan of the personal-message path): a fresh approval is not answered
\* from the row of the failed attempt.  It is, by the unique index.
FreshApprovalRetries ==
    \A c \in Calls :
        call[c].duplicate /\ call[c].outcome = "failed_pre_delivery"
            => row[call[c].intent] # "absent"
=============================================================================
