---------------------------- MODULE SessionHandoff ----------------------------
(***************************************************************************)
(* One-time handoff codes from the NOV HUB to three applications: IDEA LINK,*)
(* the DBF staging UI (through its Cloud Run BFF) and store operations.  The *)
(* hub issues a code for an open hub session; a page redacts the code from  *)
(* its URL and has it exchanged for a session token of the application.     *)
(*                                                                         *)
(* The consume RPC is one UPDATE.  The clock ticks, access is granted and   *)
(* withdrawn, and other exchanges run between the awaits of an exchange; a   *)
(* request may be repeated on its way and an answer may be lost.            *)
(***************************************************************************)
EXTENDS Naturals, FiniteSets, Absent

CONSTANTS
    HandoffCodes, Exchanges, Pages,
    HandoffTTL, SessionTTL,
    HubExpires,  \* when the hub session the codes are issued for ends
    MaxTime     \* bound on the clock

Targets == {"idea_link", "dbf", "store_operations"}

\* Times are whole numbers, and NULL is no session token.
ASSUME HandoffAssumption ==
    /\ {HandoffTTL, SessionTTL, HubExpires, MaxTime} \subseteq Nat
    /\ None \notin [code: HandoffCodes, by: Exchanges, expires: Nat]

VARIABLES
    now,
    access,    \* the applications the employee may use
    code,      \* handoff rows
    exchange,  \* exchange handlers
    tokens,    \* session tokens signed
    page       \* application pages: the code taken from the URL, the stored session

handoffVars == <<now, access, code, exchange, tokens, page>>

Unissued == [target |-> None, expires |-> 0, consumed |-> FALSE]
Issued(c) == code[c] # Unissued

\* The applications whose handoff row keeps the end of the hub session.
Bounded(t) == t # "idea_link"
BoundedCode(c) == Bounded(code[c].target)

HandoffInit ==
    /\ now = 0
    /\ access = Targets
    /\ code = [c \in HandoffCodes |-> Unissued]
    /\ exchange = [x \in Exchanges |-> [at |-> "idle", code |-> None, since |-> 0,
                                        token |-> None]]
    /\ tokens = {}
    /\ page = [p \in Pages |-> [at |-> "closed", code |-> None, token |-> None]]

Tick ==
    /\ now < MaxTime
    /\ now' = now + 1
    /\ UNCHANGED <<access, code, exchange, tokens, page>>

ToggleAccess(t) ==
    /\ access' = IF t \in access THEN access \ {t} ELSE access \cup {t}
    /\ UNCHANGED <<now, code, exchange, tokens, page>>

-----------------------------------------------------------------------------
(* The hub. *)

Store(c, t) ==
    /\ ~ Issued(c) /\ now < HubExpires /\ t \in access
    /\ code' = [code EXCEPT ![c] = [target |-> t, expires |-> now + HandoffTTL,
                                    consumed |-> FALSE]]
    /\ UNCHANGED <<now, access, exchange, tokens, page>>

\* For IDEA LINK: an open hub session, and access to the application now.
CreateIdeaLinkHandoff(c) == Store(c, "idea_link")

\* For DBF and store operations, the hub session must also outlive the code.
OutlivesCode == now + HandoffTTL < HubExpires
IssueDbfHandoff(c) == OutlivesCode /\ Store(c, "dbf")
IssueStoreOperationsHandoff(c) == OutlivesCode /\ Store(c, "store_operations")

\* An exchange for the request of a page, late or repeated, reads the clock.
Start(x, c) ==
    /\ exchange[x].at = "idle"
    /\ \E p \in Pages : page[p].code = c
    /\ exchange' = [exchange EXCEPT ![x] = [at |-> "consume", code |-> c, since |-> now,
                                            token |-> None]]
    /\ UNCHANGED <<now, access, code, tokens, page>>

\* Mutant of Consumable: a code is spent by the session it yields.
Unspent(c, time) ==
    /\ code[c].expires > time
    /\ \A t \in tokens : t.code # c

\* The condition of the UPDATE, with the reading of the clock the exchange has.
Consumable(c, time) ==
    /\ ~ code[c].consumed
    /\ code[c].expires > time
    /\ BoundedCode(c) => HubExpires > time

Move(x, stage) == exchange' = [exchange EXCEPT ![x].at = stage]

\* consumeAtomic.
Consume(x) ==
    LET c == exchange[x].code
    IN  /\ exchange[x].at = "consume"
        /\ IF Consumable(c, exchange[x].since)
             THEN Move(x, "continuity") /\ code' = [code EXCEPT ![c].consumed = TRUE]
             ELSE Move(x, "rejected") /\ UNCHANGED code
        /\ UNCHANGED <<now, access, tokens, page>>

\* The source session is checked once more: DBF with a new reading of the clock,
\* store operations with the one of the consume.
Continuity(x) ==
    LET c == exchange[x].code
        at == IF code[c].target = "dbf" THEN now ELSE exchange[x].since
    IN  /\ exchange[x].at = "continuity"
        /\ Move(x, IF BoundedCode(c) /\ HubExpires <= at THEN "rejected" ELSE "sign")
        /\ UNCHANGED <<now, access, code, tokens, page>>

Earlier(a, b) == IF a < b THEN a ELSE b

\* The end of a session: no later than that of the hub session where it is kept.
IdeaLinkExpiry == now + SessionTTL
DbfExpiry == Earlier(now + SessionTTL, HubExpires)
StoreOperationsExpiry(x) == Earlier(exchange[x].since + SessionTTL, HubExpires)

\* Mutant of Expiry: the whole lifetime from the signature on.
FullExpiry(x) == now + SessionTTL

Expiry(x) ==
    CASE code[exchange[x].code].target = "idea_link" -> IdeaLinkExpiry
      [] code[exchange[x].code].target = "dbf" -> DbfExpiry
      [] OTHER -> StoreOperationsExpiry(x)

\* Access is resolved again, and the token signed.
Sign(x) ==
    LET token == [code |-> exchange[x].code, by |-> x, expires |-> Expiry(x)]
    IN  /\ exchange[x].at = "sign"
        /\ IF code[exchange[x].code].target \in access
             THEN /\ tokens' = tokens \cup {token}
                  /\ exchange' = [exchange EXCEPT ![x].at = "done", ![x].token = token]
             ELSE Move(x, "rejected") /\ UNCHANGED tokens
        /\ UNCHANGED <<now, access, code, page>>

-----------------------------------------------------------------------------
(* The page. *)

\* The launcher opens the application with the code in its URL; the page takes
\* the code out of the URL before it asks for the exchange.
OpenPage(p, c) ==
    /\ page[p].at = "closed"
    /\ Issued(c)
    /\ page' = [page EXCEPT ![p] = [at |-> "exchanging", code |-> c, token |-> None]]
    /\ UNCHANGED <<now, access, code, exchange, tokens>>

Live(t) == t.expires > now

\* The answer: a session that is still valid is stored and bound, anything else
\* leaves the page without one.
Receive(p, x) ==
    /\ page[p].at = "exchanging" /\ exchange[x].code = page[p].code
    /\ \/ /\ exchange[x].at = "done" /\ Live(exchange[x].token)
          /\ page' = [page EXCEPT ![p].at = "ready", ![p].token = exchange[x].token]
       \/ /\ \/ exchange[x].at = "rejected"
             \/ exchange[x].at = "done" /\ ~ Live(exchange[x].token)
          /\ page' = [page EXCEPT ![p].at = "failed"]
    /\ UNCHANGED <<now, access, code, exchange, tokens>>

\* The request fails, or its answer is lost.
Lose(p) ==
    /\ page[p].at = "exchanging"
    /\ page' = [page EXCEPT ![p].at = "failed"]
    /\ UNCHANGED <<now, access, code, exchange, tokens>>

\* A reload finds no code in the URL and restores the stored session, if it is
\* still valid.
ReloadPage(p) ==
    /\ page[p].at \in {"exchanging", "ready"}
    /\ page' = [page EXCEPT ![p] =
                  IF page[p].token # None /\ Live(page[p].token)
                    THEN [page[p] EXCEPT !.at = "ready"]
                    ELSE [at |-> "failed", code |-> page[p].code, token |-> None]]
    /\ UNCHANGED <<now, access, code, exchange, tokens>>

HandoffNext ==
    \/ Tick
    \/ \E t \in Targets : ToggleAccess(t)
    \/ \E c \in HandoffCodes :
          CreateIdeaLinkHandoff(c) \/ IssueDbfHandoff(c) \/ IssueStoreOperationsHandoff(c)
    \/ \E x \in Exchanges :
          Consume(x) \/ Continuity(x) \/ Sign(x) \/ \E c \in HandoffCodes : Start(x, c)
    \/ \E p \in Pages :
          \/ Lose(p) \/ ReloadPage(p)
          \/ \E c \in HandoffCodes : OpenPage(p, c)
          \/ \E x \in Exchanges : Receive(p, x)

HandoffSpec == HandoffInit /\ [][HandoffNext]_handoffVars

-----------------------------------------------------------------------------
(* Properties. *)

\* The type invariant.
HandoffTypeOK ==
    /\ now \in 0..MaxTime /\ access \subseteq Targets
    /\ \A c \in HandoffCodes : code[c].consumed => Issued(c)
    /\ \A x \in Exchanges :
          /\ exchange[x].at \in {"idle", "consume", "continuity", "sign", "done", "rejected"}
          /\ exchange[x].at = "done" <=> exchange[x].token \in tokens
    /\ \A p \in Pages : page[p].at = "ready" => page[p].token \in tokens

\* A code yields one session, however often its exchange is requested: by two
\* pages opened from one link, or by a request that is repeated.
OneSessionPerCode == \A s, t \in tokens : s.code = t.code => s = t

\* A DBF or store operations session never outlives the hub session it came from,
\* whatever the clock does between the steps of its exchange.
WithinHubSession == \A t \in tokens : BoundedCode(t.code) => t.expires <= HubExpires

=============================================================================
