-------------------------- MODULE DbfServices_proofs --------------------------
(***************************************************************************)
(* Proofs about the two parts of the DBF service, which share no state.      *)
(* SessionHandoff, for every set of codes, exchanges and pages and every    *)
(* lifetime: a code that is consumed keeps its target and belongs to one    *)
(* exchange for ever.  DbfImport, for every set of panels, starts, files    *)
(* and entities: promoted batches share no grain, and each has exactly one  *)
(* active fact for each of its own, so that promotions implement the        *)
(* reported figures.                                                       *)
(***************************************************************************)
EXTENDS SessionHandoff, DbfImport, FiniteSetTheorems, TLAPS

-----------------------------------------------------------------------------
(* The handoff: the inductive invariant. *)

Stages == {"idle", "consume", "continuity", "sign", "done", "rejected"}
TokenType == [code: HandoffCodes, by: Exchanges, expires: Nat]
CodeType == [target: Targets \cup {None}, expires: Nat, consumed: BOOLEAN]
ExchangeType == [at: Stages, code: HandoffCodes \cup {None}, since: Nat,
                 token: TokenType \cup {None}]
PageType == [at: {"closed", "exchanging", "ready", "failed"}, code: HandoffCodes \cup {None},
             token: TokenType \cup {None}]

HandoffTypes ==
    /\ now \in 0..MaxTime /\ access \subseteq Targets
    /\ code \in [HandoffCodes -> CodeType]
    /\ exchange \in [Exchanges -> ExchangeType]
    /\ tokens \subseteq TokenType
    /\ page \in [Pages -> PageType]

\* The exchange has consumed its code, and has not been refused since.
HasCode(x) == exchange[x].at \in {"continuity", "sign", "done"}

\* What an exchange holds: a code once it is begun, which it has consumed from
\* the UPDATE on, and a session token when it is done.
ExchangesOK ==
    \A x \in Exchanges :
        /\ exchange[x].at # "idle" => exchange[x].code \in HandoffCodes
        /\ HasCode(x) => code[exchange[x].code].consumed
        /\ IF exchange[x].at = "done" THEN exchange[x].token \in tokens
                                      ELSE exchange[x].token = None

\* One exchange per consumed code.
OneExchangePerCode ==
    \A x, y \in Exchanges :
        HasCode(x) /\ HasCode(y) /\ exchange[x].code = exchange[y].code => x = y

\* A token is the result of the exchange that signed it.
TokensOK ==
    \A t \in tokens : /\ exchange[t.by].at = "done"
                      /\ exchange[t.by].token = t
                      /\ exchange[t.by].code = t.code

\* What a page stores is a session token.
PagesOK ==
    \A p \in Pages : /\ page[p].token # None => page[p].token \in tokens
                     /\ page[p].at = "ready" => page[p].token # None

HandoffInv ==
    /\ HandoffTypes
    /\ ExchangesOK /\ OneExchangePerCode /\ TokensOK /\ PagesOK
    /\ WithinHubSession

-----------------------------------------------------------------------------
(* The handoff: the steps. *)

\* The clock and the access rights are in no other part of the invariant.
LEMMA EnvironmentKeepsInv ==
    ASSUME HandoffInv, Tick \/ \E t \in Targets : ToggleAccess(t)
    PROVE  HandoffInv'
<1>1. HandoffTypes'
  BY HandoffAssumption DEF HandoffInv, HandoffTypes, Tick, ToggleAccess
<1>2. UNCHANGED <<code, exchange, tokens, page>>
  BY DEF Tick, ToggleAccess
<1> QED BY <1>1, <1>2 DEF HandoffInv, ExchangesOK, HasCode, OneExchangePerCode, TokensOK,
                          PagesOK, WithinHubSession, BoundedCode

\* The hub writes rows that are not consumed, and over no consumed one.
LEMMA StoreKeepsInv ==
    ASSUME HandoffInv, NEW c \in HandoffCodes, NEW t \in Targets, Store(c, t)
    PROVE  HandoffInv'
<1>1. UNCHANGED <<now, access, exchange, tokens, page>> /\ ~ code[c].consumed
  BY DEF Store, Issued, Unissued, HandoffInv, HandoffTypes, CodeType
<1>2. code' \in [HandoffCodes -> CodeType]
  <2>1. now + HandoffTTL \in Nat
    BY HandoffAssumption DEF HandoffInv, HandoffTypes
  <2> QED BY <2>1 DEF Store, HandoffInv, HandoffTypes, CodeType
<1>3. \A d \in HandoffCodes : code[d].consumed => code'[d] = code[d]
  BY <1>1 DEF Store, HandoffInv, HandoffTypes
<1>4. ExchangesOK'
  BY <1>1, <1>3 DEF HandoffInv, ExchangesOK, HasCode
<1>5. WithinHubSession'
  <2>1. ASSUME NEW s \in tokens PROVE s.code \in HandoffCodes /\ code[s.code].consumed
    BY DEF HandoffInv, HandoffTypes, TokenType, TokensOK, ExchangesOK, HasCode
  <2> QED BY <1>1, <1>3, <2>1 DEF HandoffInv, WithinHubSession, BoundedCode
<1>6. OneExchangePerCode' /\ TokensOK' /\ PagesOK'
  BY <1>1 DEF HandoffInv, OneExchangePerCode, HasCode, TokensOK, PagesOK
<1> QED BY <1>1, <1>2, <1>4, <1>5, <1>6 DEF HandoffInv, HandoffTypes

\* An exchange begins with a code of a page and without a token.
LEMMA StartKeepsInv ==
    ASSUME HandoffInv, NEW x \in Exchanges, NEW c \in HandoffCodes, Start(x, c)
    PROVE  HandoffInv'
<1> DEFINE begun == [at |-> "consume", code |-> c, since |-> now, token |-> None]
<1>1. /\ exchange' = [exchange EXCEPT ![x] = begun] /\ exchange[x].at = "idle"
      /\ UNCHANGED <<now, access, code, tokens, page>>
  BY DEF Start
<1>2. begun \in ExchangeType
  BY HandoffAssumption DEF HandoffInv, HandoffTypes, ExchangeType, Stages
<1>3. begun.at = "consume" /\ begun.code = c /\ begun.token = None
  OBVIOUS
<1> HIDE DEF begun
<1>4. HandoffTypes'
  BY <1>1, <1>2 DEF HandoffInv, HandoffTypes
<1>5. exchange'[x] = begun /\ \A y \in Exchanges : y # x => exchange'[y] = exchange[y]
  BY <1>1 DEF HandoffInv, HandoffTypes
<1>6. ~ HasCode(x)' /\ \A y \in Exchanges : y # x => (HasCode(y)' <=> HasCode(y))
  BY <1>3, <1>5 DEF HasCode
<1>7. ExchangesOK' /\ OneExchangePerCode'
  BY <1>1, <1>3, <1>5, <1>6 DEF HandoffInv, ExchangesOK, OneExchangePerCode
<1>8. TokensOK'
  BY <1>1, <1>5 DEF HandoffInv, TokensOK, HandoffTypes, TokenType
<1>9. PagesOK' /\ WithinHubSession'
  BY <1>1 DEF HandoffInv, PagesOK, WithinHubSession, BoundedCode
<1> QED BY <1>4, <1>7, <1>8, <1>9 DEF HandoffInv

\* The atomic UPDATE: the exchange that consumes a code is the first one, so no
\* other exchange has it.
LEMMA ConsumeKeepsInv ==
    ASSUME HandoffInv, NEW x \in Exchanges, Consume(x)
    PROVE  HandoffInv'
<1> DEFINE c == exchange[x].code
<1>1. /\ exchange[x].at = "consume" /\ c \in HandoffCodes /\ exchange[x].token = None
      /\ UNCHANGED <<now, access, tokens, page>>
  BY DEF Consume, HandoffInv, ExchangesOK
<1>2. PICK stage \in {"continuity", "rejected"} :
         /\ exchange' = [exchange EXCEPT ![x].at = stage]
         /\ stage = "continuity" => ~ code[c].consumed /\ code' = [code EXCEPT ![c].consumed = TRUE]
         /\ stage = "rejected" => code' = code
  BY DEF Consume, Move, Consumable
<1>3. HandoffTypes'
  <2>1. code' \in [HandoffCodes -> CodeType]
    BY <1>1, <1>2 DEF HandoffInv, HandoffTypes, CodeType
  <2>2. exchange' \in [Exchanges -> ExchangeType]
    BY <1>2 DEF HandoffInv, HandoffTypes, ExchangeType, Stages
  <2> QED BY <1>1, <2>1, <2>2 DEF HandoffInv, HandoffTypes
<1>4. /\ exchange'[x].at = stage /\ exchange'[x].code = c /\ exchange'[x].token = None
      /\ \A y \in Exchanges : y # x => exchange'[y] = exchange[y]
  BY <1>1, <1>2 DEF HandoffInv, HandoffTypes, ExchangeType
<1>5. /\ \A d \in HandoffCodes : code[d].consumed => code'[d].consumed
      /\ \A d \in HandoffCodes : code'[d].target = code[d].target
      /\ stage = "continuity" => code'[c].consumed
  BY <1>1, <1>2 DEF HandoffInv, HandoffTypes, CodeType
<1> HIDE DEF c
<1>6. /\ HasCode(x)' => stage = "continuity"
      /\ \A y \in Exchanges : y # x => (HasCode(y)' <=> HasCode(y))
  BY <1>4 DEF HasCode
<1>7. ExchangesOK'
  <2>1. /\ exchange'[x].code \in HandoffCodes /\ exchange'[x].at # "done" /\ exchange'[x].token = None
        /\ HasCode(x)' => code'[exchange'[x].code].consumed
    BY <1>1, <1>4, <1>5, <1>6
  <2>2. ASSUME NEW y \in Exchanges, y # x
        PROVE  /\ exchange'[y].at # "idle" => exchange'[y].code \in HandoffCodes
               /\ HasCode(y)' => code'[exchange'[y].code].consumed
               /\ IF exchange'[y].at = "done" THEN exchange'[y].token \in tokens
                                             ELSE exchange'[y].token = None
    <3>1. HasCode(y) => exchange[y].at # "idle"
      BY DEF HasCode
    <3> QED BY <1>4, <1>5, <1>6, <2>2, <3>1 DEF HandoffInv, ExchangesOK
  <2> QED BY <1>1, <2>1, <2>2 DEF ExchangesOK
<1>8. OneExchangePerCode'
  <2>1. ASSUME NEW y \in Exchanges, y # x, HasCode(y), exchange[y].code = c,
               stage = "continuity"
        PROVE  FALSE
    BY <1>2, <2>1 DEF HandoffInv, ExchangesOK
  <2> QED BY <1>4, <1>6, <2>1 DEF HandoffInv, OneExchangePerCode
<1>9. TokensOK' /\ PagesOK'
  BY <1>1, <1>4 DEF HandoffInv, TokensOK, PagesOK, HandoffTypes, TokenType
<1>10. WithinHubSession'
  <2>1. ASSUME NEW s \in tokens PROVE s.code \in HandoffCodes
    BY DEF HandoffInv, HandoffTypes, TokenType
  <2> QED BY <1>1, <1>5, <2>1 DEF HandoffInv, WithinHubSession, BoundedCode
<1> QED BY <1>3, <1>7, <1>8, <1>9, <1>10 DEF HandoffInv

\* The second check of the source session only moves the exchange on or refuses.
LEMMA ContinuityKeepsInv ==
    ASSUME HandoffInv, NEW x \in Exchanges,
           NEW stage \in {"sign", "rejected"}, HasCode(x), exchange[x].at # "done",
           exchange' = [exchange EXCEPT ![x].at = stage],
           UNCHANGED <<now, access, code, tokens, page>>
    PROVE  HandoffInv'
<1>1. HandoffTypes'
  BY DEF HandoffInv, HandoffTypes, ExchangeType, Stages
<1>2. /\ exchange'[x].at = stage /\ exchange'[x].code = exchange[x].code
      /\ exchange'[x].token = exchange[x].token
      /\ \A y \in Exchanges : y # x => exchange'[y] = exchange[y]
  BY DEF HandoffInv, HandoffTypes, ExchangeType
<1>3. /\ \A y \in Exchanges : HasCode(y)' => HasCode(y)
      /\ \A y \in Exchanges : exchange'[y].code = exchange[y].code
      /\ \A y \in Exchanges : exchange'[y].token = exchange[y].token
      /\ \A y \in Exchanges : exchange'[y].at = "done" <=> exchange[y].at = "done"
      /\ \A y \in Exchanges : exchange'[y].at # "idle" => exchange[y].at # "idle"
  BY <1>2 DEF HasCode
<1>4. ExchangesOK' /\ OneExchangePerCode'
  BY <1>3 DEF HandoffInv, ExchangesOK, OneExchangePerCode
<1>5. TokensOK'
  BY <1>3 DEF HandoffInv, TokensOK, HandoffTypes, TokenType
<1>6. PagesOK' /\ WithinHubSession'
  BY DEF HandoffInv, PagesOK, WithinHubSession, BoundedCode
<1> QED BY <1>1, <1>4, <1>5, <1>6 DEF HandoffInv

\* Whatever clock reading an application uses, the session it signs ends with the
\* hub session where the code keeps its end.
LEMMA ExpiryBounded ==
    ASSUME HandoffInv, NEW x \in Exchanges
    PROVE  /\ Expiry(x) \in Nat
           /\ BoundedCode(exchange[x].code) => Expiry(x) <= HubExpires
<1>1. now + SessionTTL \in Nat /\ exchange[x].since + SessionTTL \in Nat /\ HubExpires \in Nat
  BY HandoffAssumption DEF HandoffInv, HandoffTypes, ExchangeType
<1> QED BY <1>1 DEF Expiry, IdeaLinkExpiry, DbfExpiry, StoreOperationsExpiry, Earlier,
                    BoundedCode, Bounded

\* The signature: the exchange that has the code adds the only token of the code.
LEMMA SignKeepsInv ==
    ASSUME HandoffInv, NEW x \in Exchanges, Sign(x)
    PROVE  HandoffInv'
<1> DEFINE c == exchange[x].code
           token == [code |-> c, by |-> x, expires |-> Expiry(x)]
<1>1. exchange[x].at = "sign" /\ HasCode(x) /\ UNCHANGED <<now, access, code, page>>
  BY DEF Sign, HasCode
<1>2. c \in HandoffCodes /\ code[c].consumed
  BY <1>1 DEF HandoffInv, ExchangesOK
<1>3. CASE code[c].target \notin access
  BY <1>1, <1>3, ContinuityKeepsInv DEF Sign, Move
<1>4. CASE code[c].target \in access
  <2>1. /\ tokens' = tokens \cup {token}
        /\ exchange' = [exchange EXCEPT ![x].at = "done", ![x].token = token]
    BY <1>4 DEF Sign
  <2>2. token \in TokenType /\ token.code = c /\ token.by = x /\ token.expires = Expiry(x)
    BY <1>2, ExpiryBounded DEF TokenType
  <2> HIDE DEF token
  <2>3. HandoffTypes'
    <3> DEFINE done == [exchange[x] EXCEPT !.at = "done", !.token = token]
    <3>1. exchange[x] \in ExchangeType /\ exchange' = [exchange EXCEPT ![x] = done]
      BY <2>1 DEF HandoffInv, HandoffTypes
    <3>2. done \in ExchangeType
      BY <2>2, <3>1 DEF ExchangeType, Stages
    <3> HIDE DEF done
    <3>3. exchange' \in [Exchanges -> ExchangeType]
      BY <3>1, <3>2 DEF HandoffInv, HandoffTypes
    <3> QED BY <1>1, <2>1, <2>2, <3>3 DEF HandoffInv, HandoffTypes
  <2>4. /\ exchange'[x].at = "done" /\ exchange'[x].code = c /\ exchange'[x].token = token
        /\ \A y \in Exchanges : y # x => exchange'[y] = exchange[y]
    BY <2>1 DEF HandoffInv, HandoffTypes, ExchangeType
  <2> HIDE DEF c
  <2>5. HasCode(x)' /\ \A y \in Exchanges : y # x => (HasCode(y)' <=> HasCode(y))
    BY <2>4 DEF HasCode
  <2>6. /\ exchange[x].code = c
        /\ \A y \in Exchanges : exchange'[y].code = exchange[y].code
        /\ \A y \in Exchanges : HasCode(y)' <=> HasCode(y)
    BY <1>1, <2>4, <2>5 DEF c
  <2>7. ExchangesOK'
    <3>1. ASSUME NEW y \in Exchanges, y # x
          PROVE  /\ exchange'[y].at # "idle" => exchange'[y].code \in HandoffCodes
                 /\ HasCode(y)' => code'[exchange'[y].code].consumed
                 /\ IF exchange'[y].at = "done" THEN exchange'[y].token \in tokens'
                                               ELSE exchange'[y].token = None
      <4>1. exchange'[y] = exchange[y] /\ (HasCode(y)' <=> HasCode(y))
        BY <2>4, <2>5, <3>1
      <4>2. /\ exchange[y].at # "idle" => exchange[y].code \in HandoffCodes
            /\ HasCode(y) => code[exchange[y].code].consumed
            /\ IF exchange[y].at = "done" THEN exchange[y].token \in tokens
                                          ELSE exchange[y].token = None
        BY DEF HandoffInv, ExchangesOK
      <4> QED BY <1>1, <2>1, <4>1, <4>2
    <3>2. exchange'[x].token \in tokens' /\ code'[exchange'[x].code].consumed
      BY <1>1, <1>2, <2>1, <2>4 DEF c
    <3> QED BY <1>2, <2>4, <3>1, <3>2 DEF ExchangesOK, c
  <2>8. OneExchangePerCode'
    BY <2>6 DEF HandoffInv, OneExchangePerCode
  <2>9. TokensOK'
    <3>1. ASSUME NEW t \in tokens
          PROVE  t.by \in Exchanges /\ t.by # x /\ exchange'[t.by] = exchange[t.by]
      BY <1>1, <2>4 DEF HandoffInv, HandoffTypes, TokenType, TokensOK
    <3> QED BY <2>1, <2>2, <2>4, <3>1 DEF HandoffInv, TokensOK
  <2>10. PagesOK'
    BY <1>1, <2>1 DEF HandoffInv, PagesOK
  <2>11. WithinHubSession'
    BY <1>1, <2>1, <2>2, <2>6, ExpiryBounded DEF HandoffInv, WithinHubSession, BoundedCode
  <2> QED BY <2>3, <2>7, <2>8, <2>9, <2>10, <2>11 DEF HandoffInv
<1> QED BY <1>3, <1>4

\* Pages store what an exchange has signed, and restore what they stored.
LEMMA PageKeepsInv ==
    ASSUME HandoffInv, NEW p \in Pages,
           \/ Lose(p) \/ ReloadPage(p)
           \/ \E c \in HandoffCodes : OpenPage(p, c)
           \/ \E x \in Exchanges : Receive(p, x)
    PROVE  HandoffInv'
<1>1. UNCHANGED <<now, access, code, exchange, tokens>>
  BY DEF Lose, ReloadPage, OpenPage, Receive
<1>2. ASSUME NEW x \in Exchanges, exchange[x].at = "done" PROVE exchange[x].token \in tokens
  BY <1>2 DEF HandoffInv, ExchangesOK
<1>3. page' \in [Pages -> PageType] /\ PagesOK'
  <2>1. CASE Lose(p)
    BY <1>1, <2>1 DEF Lose, HandoffInv, HandoffTypes, PageType, PagesOK
  <2>2. CASE ReloadPage(p)
    BY <1>1, <2>2 DEF ReloadPage, HandoffInv, HandoffTypes, PageType, PagesOK
  <2>3. CASE \E c \in HandoffCodes : OpenPage(p, c)
    BY <1>1, <2>3 DEF OpenPage, HandoffInv, HandoffTypes, PageType, PagesOK
  <2>4. ASSUME NEW x \in Exchanges, Receive(p, x) PROVE page' \in [Pages -> PageType] /\ PagesOK'
    <3>1. CASE page' = [page EXCEPT ![p].at = "failed"]
      BY <1>1, <3>1 DEF HandoffInv, HandoffTypes, PageType, PagesOK
    <3>2. CASE /\ exchange[x].at = "done"
               /\ page' = [page EXCEPT ![p].at = "ready", ![p].token = exchange[x].token]
      <4>1. exchange[x].token \in tokens /\ exchange[x].token \in TokenType
            /\ exchange[x].token # None
        BY <1>2, <3>2, HandoffAssumption DEF HandoffInv, HandoffTypes, TokenType
      <4> QED BY <1>1, <3>2, <4>1 DEF HandoffInv, HandoffTypes, PageType, PagesOK
    <3> QED BY <2>4, <3>1, <3>2 DEF Receive
  <2> QED BY <2>1, <2>2, <2>3, <2>4
<1>4. HandoffTypes'
  BY <1>1, <1>3 DEF HandoffInv, HandoffTypes
<1>5. ExchangesOK' /\ OneExchangePerCode' /\ TokensOK' /\ WithinHubSession'
  BY <1>1 DEF HandoffInv, ExchangesOK, HasCode, OneExchangePerCode, TokensOK,
              WithinHubSession, BoundedCode
<1> QED BY <1>3, <1>4, <1>5 DEF HandoffInv

\* The inductive step, action by action.
LEMMA HandoffStepKeepsInv ==
    ASSUME HandoffInv, [HandoffNext]_handoffVars PROVE HandoffInv'
<1>1. ASSUME NEW c \in HandoffCodes, CreateIdeaLinkHandoff(c) \/ IssueDbfHandoff(c)
                                \/ IssueStoreOperationsHandoff(c)
      PROVE  \E t \in Targets : Store(c, t)
  BY <1>1 DEF CreateIdeaLinkHandoff, IssueDbfHandoff, IssueStoreOperationsHandoff, Targets
<1>2. ASSUME NEW x \in Exchanges, Continuity(x) PROVE HandoffInv'
  <2>1. PICK stage \in {"sign", "rejected"} : exchange' = [exchange EXCEPT ![x].at = stage]
    BY <1>2 DEF Continuity, Move
  <2> QED BY <1>2, <2>1, ContinuityKeepsInv DEF Continuity, HasCode
<1>3. CASE UNCHANGED handoffVars
  BY <1>3 DEF handoffVars, HandoffInv, HandoffTypes, ExchangesOK, HasCode, OneExchangePerCode,
              TokensOK, PagesOK, WithinHubSession, BoundedCode
<1> QED BY <1>1, <1>2, <1>3, EnvironmentKeepsInv, StoreKeepsInv, StartKeepsInv,
           ConsumeKeepsInv, SignKeepsInv, PageKeepsInv DEF HandoffNext

-----------------------------------------------------------------------------
(* The handoff: the theorems. *)

\* However often and from wherever a code is exchanged, the inductive invariant
\* holds: it belongs to the one exchange that consumed it.
THEOREM HandoffInvariant == HandoffSpec => []HandoffInv
<1>1. HandoffInit => HandoffInv
  <2> SUFFICES ASSUME HandoffInit PROVE HandoffInv
    OBVIOUS
  <2>1. HandoffTypes
    BY HandoffAssumption
       DEF HandoffInit, HandoffTypes, CodeType, Unissued, ExchangeType, Stages, PageType
  <2> QED BY <2>1 DEF HandoffInit, HandoffInv, ExchangesOK, HasCode, OneExchangePerCode, TokensOK,
                      PagesOK, WithinHubSession
<1>2. HandoffInv /\ [HandoffNext]_handoffVars => HandoffInv'
  BY HandoffStepKeepsInv
<1> QED BY <1>1, <1>2, PTL DEF HandoffSpec

\* Every reachable state has the declared types.
THEOREM HandoffTypeCorrect == HandoffSpec => []HandoffTypeOK
<1>1. HandoffInv => HandoffTypeOK
  <2> SUFFICES ASSUME HandoffInv PROVE HandoffTypeOK
    OBVIOUS
  <2>1. None \notin tokens
    BY HandoffAssumption DEF HandoffInv, HandoffTypes, TokenType
  <2>2. \A c \in HandoffCodes : code[c].consumed => Issued(c)
    BY DEF HandoffInv, HandoffTypes, CodeType, Issued, Unissued
  <2>3. \A x \in Exchanges : /\ exchange[x].at \in Stages
                             /\ exchange[x].at = "done" <=> exchange[x].token \in tokens
    BY <2>1 DEF HandoffInv, HandoffTypes, ExchangeType, ExchangesOK
  <2>4. \A p \in Pages : page[p].at = "ready" => page[p].token \in tokens
    BY DEF HandoffInv, PagesOK
  <2> QED BY <2>2, <2>3, <2>4 DEF HandoffInv, HandoffTypes, HandoffTypeOK, Stages
<1> QED BY <1>1, HandoffInvariant, PTL

\* consumeAtomic: two requests, pages or repetitions never turn one code into two
\* sessions.
THEOREM OneSessionPerCodeCorrect == HandoffSpec => []OneSessionPerCode
<1>1. HandoffInv => OneSessionPerCode
  <2> SUFFICES ASSUME HandoffInv, NEW s \in tokens, NEW t \in tokens, s.code = t.code
               PROVE  s = t
    BY DEF OneSessionPerCode
  <2>1. s.by \in Exchanges /\ t.by \in Exchanges
    BY DEF HandoffInv, HandoffTypes, TokenType
  <2>2. s.by = t.by
    BY <2>1 DEF HandoffInv, TokensOK, OneExchangePerCode, HasCode
  <2> QED BY <2>2 DEF HandoffInv, TokensOK
<1> QED BY <1>1, HandoffInvariant, PTL

\* A session of DBF or store operations ends no later than the hub session.
THEOREM WithinHubSessionCorrect == HandoffSpec => []WithinHubSession
<1>1. HandoffInv => WithinHubSession
  BY DEF HandoffInv
<1> QED BY <1>1, HandoffInvariant, PTL

-----------------------------------------------------------------------------
(* The import of business data: the inductive invariant. *)

ImportStatuses == {"none", "parsed", "mapping_required", "owner_review", "approved", "promoted",
             "superseded"}
File == Files \cup {None}
BatchType == [status: ImportStatuses, revision: Nat, corrects: File]
StagedType == [key: SourceKeys, store: Stores, file: Files]
FactType == [batch: Files, store: Stores, version: Nat, active: BOOLEAN]
StartType == [at: {"idle", "start", "answer", "resolve", "quarantine"},
              panel: Panels \cup {None}, file: File, corrects: File, open: SUBSET SourceKeys]
PanelType == [parsed: File, batch: File, rows: SUBSET StagedType, unresolved: SUBSET SourceKeys,
              refresh: BOOLEAN, preview: {None, "validated", "approved"},
              enabled: SUBSET {"validate", "approve", "promote"}]

TableTypes ==
    /\ batch \in [Files -> BatchType]
    /\ mapping \in [SourceKeys -> Stores \cup {"unresolved", "quarantined"}]
    /\ staged \in [Files -> SUBSET StagedType]
    /\ facts \subseteq FactType
    /\ tx \subseteq Files

PanelTypes ==
    /\ start \in [Starts -> StartType]
    /\ panel \in [Panels -> PanelType]

\* The panel holds an input from a start on, and a batch once one was answered.
StartsOK ==
    \A s \in Starts : start[s].at # "idle" =>
        /\ start[s].panel \in Panels /\ start[s].file \in Files
        /\ panel[start[s].panel].parsed \in Files
        /\ start[s].at \in {"resolve", "quarantine"} =>
              panel[start[s].panel].batch \in Files

PanelsOK ==
    \A p \in Panels :
        (panel[p].refresh \/ panel[p].unresolved # {} \/ panel[p].preview # None
            \/ panel[p].enabled # {}) =>
          panel[p].parsed \in Files /\ panel[p].batch \in Files

\* A batch that reached its review has rows.
HasRows ==
    \A b \in Files :
        batch[b].status \in {"owner_review", "approved", "promoted", "superseded"} =>
            staged[b] # {}

\* A promotion under way is of an approved batch, and nothing took the batch it
\* corrects away from it.
UnderWay ==
    \A b \in tx :
        /\ batch[b].status = "approved"
        /\ batch[b].corrects # None => batch[batch[b].corrects].status = "promoted"

\* No batch is corrected twice.
OneCorrection ==
    \A f, g \in Files :
        batch[f].corrects = batch[g].corrects /\ batch[f].corrects # None => f = g

\* An active fact is one of the facts its batch was promoted to.
FactsStand ==
    \A x \in facts : x.active =>
        /\ batch[x.batch].status = "promoted"
        /\ x.store \in StoresOf(x.batch)
        /\ x.version = batch[x.batch].revision

\* A promoted batch has an active fact for each of its rows.
PromotedHaveFacts ==
    \A b \in Files : batch[b].status = "promoted" => NewFacts(b) \subseteq facts

\* Two promoted batches have no grain in common.
GrainsApart ==
    \A b, c \in Files :
        batch[b].status = "promoted" /\ batch[c].status = "promoted" /\ b # c =>
            StoresOf(b) \cap StoresOf(c) = {}

Promotions == UnderWay /\ OneCorrection /\ FactsStand /\ PromotedHaveFacts /\ GrainsApart

DbfInv ==
    /\ TableTypes /\ PanelTypes
    /\ StartsOK /\ PanelsOK
    /\ StagedOnMappings /\ HasRows
    /\ Promotions

-----------------------------------------------------------------------------
(* The import: what the steps have in common. *)

\* Correcting, a batch is neither new nor its own original.
LEMMA Originals ==
    ASSUME DbfInv, NEW b \in tx
    PROVE  /\ b \in Files /\ batch[b].corrects \in File
           /\ batch[b].corrects # None =>
                 batch[b].corrects \in Files /\ batch[b].corrects # b
  BY DEF DbfInv, TableTypes, BatchType, File, Promotions, UnderWay

\* The new facts of a batch, one by one.
FactOf(b, s) == [batch |-> b, store |-> s, version |-> batch[b].revision, active |-> TRUE]

LEMMA NewFactsAre ==
    ASSUME NEW b
    PROVE  /\ NewFacts(b) = {FactOf(b, s) : s \in StoresOf(b)}
           /\ \A s : /\ FactOf(b, s).batch = b /\ FactOf(b, s).store = s
                    /\ FactOf(b, s).version = batch[b].revision /\ FactOf(b, s).active
  BY DEF NewFacts, FactOf

\* The tables keep their invariants while they do not change.
LEMMA TablesStand ==
    ASSUME DbfInv, UNCHANGED dbfTables
    PROVE  TableTypes' /\ StagedOnMappings' /\ HasRows' /\ Promotions'
<1>1. UNCHANGED <<batch, mapping, staged, facts, tx>>
  BY DEF dbfTables
<1>2. TableTypes' /\ StagedOnMappings' /\ HasRows'
  BY <1>1 DEF DbfInv, TableTypes, StagedOnMappings, HasRows
<1>3. \A b : StoresOf(b)' = StoresOf(b) /\ NewFacts(b)' = NewFacts(b)
  BY <1>1 DEF StoresOf, NewFacts
<1>4. UnderWay' /\ OneCorrection' /\ FactsStand'
  BY <1>1, <1>3 DEF DbfInv, Promotions, UnderWay, OneCorrection, FactsStand
<1>5. PromotedHaveFacts' /\ GrainsApart'
  BY <1>1, <1>3 DEF DbfInv, Promotions, PromotedHaveFacts, GrainsApart
<1> QED BY <1>2, <1>4, <1>5 DEF Promotions

\* A step on a batch that is not yet approved, which does not promote it, leaves
\* the promotions as they are.
LEMMA PromotionsStand ==
    ASSUME DbfInv, TableTypes', UNCHANGED <<facts, tx>>,
           \A f \in Files :
              \/ batch'[f] = batch[f] /\ staged'[f] = staged[f]
              \/ /\ batch[f].status \notin {"approved", "promoted"}
                 /\ batch'[f].status # "promoted"
                 /\ batch'[f].corrects = batch[f].corrects
    PROVE  Promotions'
<1>1. \A f \in Files : /\ batch'[f].corrects = batch[f].corrects
                       /\ (batch[f].status = "approved" => batch'[f] = batch[f])
                       /\ batch[f].status = "promoted" =>
                             batch'[f] = batch[f] /\ StoresOf(f)' = StoresOf(f)
                       /\ (batch'[f].status = "promoted" => batch[f].status = "promoted")
  BY DEF StoresOf
<1>2. UnderWay'
  <2> SUFFICES ASSUME NEW b \in tx
               PROVE  /\ batch'[b].status = "approved"
                      /\ batch'[b].corrects # None =>
                            batch'[batch'[b].corrects].status = "promoted"
    BY DEF UnderWay
  <2>1. batch[b].status = "approved" /\ batch'[b].corrects = batch[b].corrects
    BY <1>1, Originals DEF DbfInv, Promotions, UnderWay
  <2> QED BY <1>1, <2>1, Originals DEF DbfInv, Promotions, UnderWay
<1>3. OneCorrection'
  BY <1>1 DEF DbfInv, Promotions, OneCorrection
<1>4. FactsStand'
  <2> SUFFICES ASSUME NEW x \in facts, x.active
               PROVE  /\ batch'[x.batch].status = "promoted"
                      /\ x.store \in StoresOf(x.batch)'
                      /\ x.version = batch'[x.batch].revision
    BY DEF FactsStand
  <2>1. x.batch \in Files
    BY DEF DbfInv, TableTypes, FactType
  <2>2. StoresOf(x.batch)' = StoresOf(x.batch) /\ batch'[x.batch] = batch[x.batch]
    BY <1>1, <2>1 DEF DbfInv, Promotions, FactsStand
  <2> QED BY <2>2 DEF DbfInv, Promotions, FactsStand
<1>5. PromotedHaveFacts'
  <2> SUFFICES ASSUME NEW b \in Files, batch'[b].status = "promoted"
               PROVE  NewFacts(b)' \subseteq facts
    BY DEF PromotedHaveFacts
  <2>1. NewFacts(b)' = NewFacts(b) /\ batch[b].status = "promoted"
    BY <1>1 DEF NewFacts
  <2> QED BY <2>1 DEF DbfInv, Promotions, PromotedHaveFacts
<1>6. GrainsApart'
  BY <1>1 DEF DbfInv, Promotions, GrainsApart
<1> QED BY <1>2, <1>3, <1>4, <1>5, <1>6 DEF Promotions

-----------------------------------------------------------------------------
(* The import: the steps of a panel that change no table. *)

LEMMA BeginKeepsInv ==
    ASSUME DbfInv, NEW p \in Panels, NEW s \in Starts, NEW f \in Files, NEW c \in File,
           Begin(p, s, f, c)
    PROVE  DbfInv'
<1> DEFINE begun == [at |-> "start", panel |-> p, file |-> f, corrects |-> c, open |-> {}]
<1>1. /\ start' = [start EXCEPT ![s] = begun] /\ UNCHANGED dbfTables
      /\ panel' = [panel EXCEPT ![p].parsed = f, ![p].enabled = {}]
  BY DEF Begin
<1>2. begun \in StartType /\ begun.at = "start" /\ begun.panel = p /\ begun.file = f
  BY DEF StartType, File
<1> HIDE DEF begun
<1>3. start'[s] = begun /\ \A t \in Starts : t # s => start'[t] = start[t]
  BY <1>1 DEF DbfInv, PanelTypes
<1>4. /\ panel' \in [Panels -> PanelType]
      /\ panel'[p].parsed = f /\ panel'[p].enabled = {} /\ panel'[p].batch = panel[p].batch
      /\ panel'[p].refresh = panel[p].refresh /\ panel'[p].unresolved = panel[p].unresolved
      /\ panel'[p].preview = panel[p].preview
      /\ \A q \in Panels : q # p => panel'[q] = panel[q]
  BY <1>1 DEF DbfInv, PanelTypes, PanelType, File
<1>5. PanelTypes'
  BY <1>1, <1>2, <1>4 DEF DbfInv, PanelTypes
<1>6. StartsOK'
  BY <1>2, <1>3, <1>4 DEF DbfInv, StartsOK
<1>7. PanelsOK'
  BY <1>4 DEF DbfInv, PanelsOK
<1> QED BY <1>1, <1>5, <1>6, <1>7, TablesStand DEF DbfInv

\* A start that ends or moves on while panels keep their inputs and batches.
LEMMA StartMoves ==
    ASSUME DbfInv, NEW s \in Starts, NEW to \in StartType,
           start' = [start EXCEPT ![s] = to],
           to.at # "idle" => /\ start[s].at # "idle"
                             /\ to.panel = start[s].panel /\ to.file = start[s].file
                             /\ to.at \in {"resolve", "quarantine"} =>
                                   start[s].at \in {"resolve", "quarantine"},
           \A q \in Panels : /\ panel'[q].parsed = panel[q].parsed
                             /\ panel'[q].batch = panel[q].batch
    PROVE  start' \in [Starts -> StartType] /\ StartsOK'
<1>1. start'[s] = to /\ \A t \in Starts : t # s => start'[t] = start[t]
  BY DEF DbfInv, PanelTypes
<1>2. start' \in [Starts -> StartType]
  BY DEF DbfInv, PanelTypes
<1>3. StartsOK'
  BY <1>1 DEF DbfInv, StartsOK
<1> QED BY <1>2, <1>3

LEMMA IdleIsStart == IdleStart \in StartType /\ IdleStart.at = "idle"
  BY DEF IdleStart, StartType, File

LEMMA LoseAnswerKeepsInv ==
    ASSUME DbfInv, NEW s \in Starts, LoseAnswer(s)
    PROVE  DbfInv'
<1>1. UNCHANGED <<dbfTables, panel>>
  BY DEF LoseAnswer
<1>2. start' \in [Starts -> StartType] /\ StartsOK'
  BY <1>1, IdleIsStart, StartMoves DEF LoseAnswer, Ended
<1> QED BY <1>1, <1>2, TablesStand DEF DbfInv, PanelTypes, PanelsOK

\* The panel holds the batch that was started.
LEMMA StartAnswerKeepsInv ==
    ASSUME DbfInv, NEW s \in Starts, StartAnswer(s)
    PROVE  DbfInv'
<1>1. start[s].at = "answer" /\ UNCHANGED dbfTables
  BY DEF StartAnswer
<1>2. PICK p \in Panels, f \in Files :
         /\ p = start[s].panel /\ f = start[s].file /\ panel[p].parsed \in Files
         /\ start' = [start EXCEPT ![s].at = "resolve"]
         /\ panel' = [panel EXCEPT ![p].batch = f]
  BY <1>1 DEF DbfInv, StartsOK, StartAnswer
<1>3. /\ start' \in [Starts -> StartType]
      /\ start'[s].at = "resolve" /\ start'[s].panel = p /\ start'[s].file = f
      /\ \A t \in Starts : t # s => start'[t] = start[t]
  BY <1>1, <1>2 DEF DbfInv, PanelTypes, StartType
<1>4. /\ panel' \in [Panels -> PanelType]
      /\ panel'[p].batch = f /\ panel'[p].parsed = panel[p].parsed
      /\ \A q \in Panels : q # p => panel'[q] = panel[q]
  BY <1>2 DEF DbfInv, PanelTypes, PanelType, File
<1>5. StartsOK'
  BY <1>2, <1>3, <1>4 DEF DbfInv, StartsOK
<1>6. PanelsOK'
  BY <1>2, <1>4 DEF DbfInv, PanelsOK
<1> QED BY <1>1, <1>3, <1>4, <1>5, <1>6, TablesStand DEF DbfInv, PanelTypes

\* A panel that changes neither its input nor its batch, and holds both.
LEMMA PanelMoves ==
    ASSUME DbfInv, NEW p \in Panels, NEW to \in PanelType,
           panel' = [panel EXCEPT ![p] = to],
           to.parsed = panel[p].parsed, to.batch = panel[p].batch,
           panel[p].parsed \in Files, panel[p].batch \in Files
    PROVE  /\ panel' \in [Panels -> PanelType] /\ PanelsOK'
           /\ \A q \in Panels : /\ panel'[q].parsed = panel[q].parsed
                                /\ panel'[q].batch = panel[q].batch
           /\ UNCHANGED start => PanelTypes' /\ StartsOK'
<1>1. panel'[p] = to /\ \A q \in Panels : q # p => panel'[q] = panel[q]
  BY DEF DbfInv, PanelTypes
<1>2. panel' \in [Panels -> PanelType]
  BY DEF DbfInv, PanelTypes
<1>3. PanelsOK'
  BY <1>1 DEF DbfInv, PanelsOK
<1>4. UNCHANGED start => StartsOK'
  BY <1>1 DEF DbfInv, StartsOK
<1> QED BY <1>1, <1>2, <1>3, <1>4 DEF DbfInv, PanelTypes

\* A panel that is told to refresh itself.
LEMMA RefreshIsPanel ==
    ASSUME DbfInv, NEW p \in Panels
    PROVE  LET to == [panel[p] EXCEPT !.refresh = TRUE]
           IN  /\ to \in PanelType
               /\ to.parsed = panel[p].parsed /\ to.batch = panel[p].batch
               /\ [panel EXCEPT ![p].refresh = TRUE] = [panel EXCEPT ![p] = to]
  BY DEF DbfInv, PanelTypes, PanelType

LEMMA ResolveKeepsDbfInv ==
    ASSUME DbfInv, NEW s \in Starts, Resolve(s)
    PROVE  DbfInv'
<1>1. start[s].at = "resolve" /\ UNCHANGED dbfTables
  BY DEF Resolve
<1>2. PICK p \in Panels : /\ p = start[s].panel
                          /\ panel[p].parsed \in Files /\ panel[p].batch \in Files
  BY <1>1 DEF DbfInv, StartsOK
<1>3. PICK open \in SUBSET SourceKeys :
         \/ panel' = [panel EXCEPT ![p].refresh = TRUE] /\ Ended(s)
         \/ /\ start' = [start EXCEPT ![s].at = "quarantine", ![s].open = open]
            /\ UNCHANGED panel
  <2>1. {k \in Keys(panel[p].parsed) : ~ Active(k)} \subseteq SourceKeys
    BY <1>2 DEF SourceKeys
  <2> QED BY <1>2, <2>1 DEF Resolve
<1>4. CASE panel' = [panel EXCEPT ![p].refresh = TRUE] /\ Ended(s)
  <2>1. /\ panel' \in [Panels -> PanelType] /\ PanelsOK'
        /\ \A q \in Panels : /\ panel'[q].parsed = panel[q].parsed
                             /\ panel'[q].batch = panel[q].batch
    BY <1>2, <1>4, RefreshIsPanel, PanelMoves
  <2>2. start' \in [Starts -> StartType] /\ StartsOK'
    BY <1>4, <2>1, IdleIsStart, StartMoves DEF Ended
  <2> QED BY <1>1, <2>1, <2>2, TablesStand DEF DbfInv, PanelTypes
<1>5. CASE /\ start' = [start EXCEPT ![s].at = "quarantine", ![s].open = open]
           /\ UNCHANGED panel
  <2> DEFINE to == [start[s] EXCEPT !.at = "quarantine", !.open = open]
  <2>1. /\ to \in StartType /\ to.panel = start[s].panel /\ to.file = start[s].file
        /\ start' = [start EXCEPT ![s] = to]
    BY <1>5 DEF DbfInv, PanelTypes, StartType
  <2> HIDE DEF to
  <2>2. start' \in [Starts -> StartType] /\ StartsOK'
    BY <1>1, <1>5, <2>1, StartMoves
  <2> QED BY <1>1, <1>5, <2>2, TablesStand DEF DbfInv, PanelTypes, PanelsOK
<1> QED BY <1>3, <1>4, <1>5

\* refreshMappings binds rows to entities when every key has one.
LEMMA RefreshKeepsInv ==
    ASSUME DbfInv, NEW p \in Panels, Refresh(p)
    PROVE  DbfInv'
<1>1. /\ UNCHANGED <<dbfTables, start>>
      /\ panel[p].parsed \in Files /\ panel[p].batch \in Files
  BY DEF Refresh, DbfInv, PanelsOK
<1> DEFINE open == {k \in Keys(panel[p].parsed) : ~ Active(k)}
           rows == IF open = {} THEN BoundRows(panel[p].parsed) ELSE {}
           buttons == IF open = {} THEN panel[p].enabled \cup {"validate"}
                                   ELSE panel[p].enabled \ {"validate"}
<1>2. open \subseteq SourceKeys
  BY <1>1 DEF SourceKeys
<1>3. rows \subseteq StagedType
  <2>1. ASSUME open = {} PROVE BoundRows(panel[p].parsed) \subseteq StagedType
    <3>1. \A k \in Keys(panel[p].parsed) : k \in SourceKeys /\ mapping[k] \in Stores
      BY <1>1, <2>1 DEF SourceKeys, Active
    <3> QED BY <1>1, <3>1 DEF BoundRows, StagedType
  <2> QED BY <2>1
<1>4. buttons \subseteq {"validate", "approve", "promote"}
  BY DEF DbfInv, PanelTypes, PanelType
<1>5. panel' = [panel EXCEPT ![p].refresh = FALSE, ![p].unresolved = open,
                             ![p].rows = rows, ![p].enabled = buttons]
  BY DEF Refresh
<1> HIDE DEF open, rows, buttons
<1> DEFINE to == [panel[p] EXCEPT !.refresh = FALSE, !.unresolved = open, !.rows = rows,
                                  !.enabled = buttons]
<1>6. /\ to \in PanelType /\ panel' = [panel EXCEPT ![p] = to]
      /\ to.parsed = panel[p].parsed /\ to.batch = panel[p].batch
  BY <1>2, <1>3, <1>4, <1>5 DEF DbfInv, PanelTypes, PanelType
<1> HIDE DEF to
<1>7. PanelTypes' /\ StartsOK' /\ PanelsOK'
  BY <1>1, <1>6, PanelMoves
<1> QED BY <1>1, <1>7, TablesStand DEF DbfInv

\* What a button does to its panel: another set of buttons, another preview.
LEMMA ButtonIsPanel ==
    ASSUME DbfInv, NEW p \in Panels, NEW buttons \in SUBSET {"validate", "approve", "promote"},
           NEW preview \in {None, "validated", "approved"},
           panel' = [panel EXCEPT ![p].enabled = buttons, ![p].preview = preview],
           panel[p].parsed \in Files, panel[p].batch \in Files, UNCHANGED start
    PROVE  PanelTypes' /\ StartsOK' /\ PanelsOK'
<1> DEFINE to == [panel[p] EXCEPT !.enabled = buttons, !.preview = preview]
<1>1. /\ to \in PanelType /\ panel' = [panel EXCEPT ![p] = to]
      /\ to.parsed = panel[p].parsed /\ to.batch = panel[p].batch
  BY DEF DbfInv, PanelTypes, PanelType
<1> HIDE DEF to
<1> QED BY <1>1, PanelMoves

LEMMA PreviewKeepsInv ==
    ASSUME DbfInv, NEW p \in Panels, Preview(p)
    PROVE  DbfInv'
<1>1. /\ UNCHANGED <<dbfTables, start>>
      /\ panel[p].parsed \in Files /\ panel[p].batch \in Files
  BY DEF Preview, DbfInv, PanelsOK
<1>2. PICK buttons \in SUBSET {"validate", "approve", "promote"} :
         panel' = [panel EXCEPT ![p].preview = None, ![p].enabled = buttons]
  BY DEF Preview, DbfInv, PanelTypes, PanelType
<1>3. panel' = [panel EXCEPT ![p].enabled = buttons, ![p].preview = None]
  BY <1>2 DEF DbfInv, PanelTypes, PanelType
<1>4. PanelTypes' /\ StartsOK' /\ PanelsOK'
  BY <1>1, <1>3, ButtonIsPanel
<1> QED BY <1>1, <1>4, TablesStand DEF DbfInv

-----------------------------------------------------------------------------
(* The import: the steps that change a table. *)

\* The request to start: a new batch has no rows and corrects a promoted batch that
\* nobody corrects yet.
LEMMA StartImportKeepsInv ==
    ASSUME DbfInv, NEW s \in Starts, StartImport(s)
    PROVE  DbfInv'
<1>1. start[s].at = "start" /\ UNCHANGED <<mapping, staged, facts, tx, panel>>
  BY DEF StartImport
<1>2. PICK f \in Files, c \in File : f = start[s].file /\ c = start[s].corrects
  BY <1>1 DEF DbfInv, StartsOK, PanelTypes, StartType
<1>3. CASE ~ CanStart(f, c)
  <2>1. UNCHANGED dbfTables /\ Ended(s)
    BY <1>1, <1>2, <1>3 DEF StartImport, dbfTables
  <2>2. start' \in [Starts -> StartType] /\ StartsOK'
    BY <1>1, <2>1, IdleIsStart, StartMoves DEF Ended
  <2> QED BY <1>1, <2>1, <2>2, TablesStand DEF DbfInv, PanelTypes, PanelsOK
<1>4. CASE CanStart(f, c)
  <2>1. InsertBatch(f, c) /\ start' = [start EXCEPT ![s].at = "answer"]
    BY <1>2, <1>4 DEF StartImport
  <2>2. start' \in [Starts -> StartType] /\ StartsOK'
    <3> DEFINE to == [start[s] EXCEPT !.at = "answer"]
    <3>1. /\ to \in StartType /\ to.panel = start[s].panel /\ to.file = start[s].file
          /\ to.at = "answer" /\ start' = [start EXCEPT ![s] = to]
      BY <2>1 DEF DbfInv, PanelTypes, StartType
    <3> HIDE DEF to
    <3> QED BY <1>1, <3>1, StartMoves
  <2> DEFINE revision == IF c = None THEN 1 ELSE batch[c].revision + 1
             new == [status |-> "parsed", corrects |-> c, revision |-> revision]
  <2>3. new \in BatchType /\ new.status = "parsed" /\ new.corrects = c
    <3>1. revision \in Nat
      BY DEF DbfInv, TableTypes, BatchType, File
    <3> QED BY <3>1 DEF BatchType, ImportStatuses
  <2>4. batch' = [batch EXCEPT ![f] = new]
    BY <2>1 DEF InsertBatch
  <2> HIDE DEF new
  <2>5. /\ batch' \in [Files -> BatchType] /\ batch'[f] = new
        /\ \A g \in Files : g # f => batch'[g] = batch[g]
    BY <2>3, <2>4 DEF DbfInv, TableTypes
  <2>6. /\ batch[f].status = "none" /\ batch[f].corrects = None
        /\ c # None => /\ c \in Files /\ batch[c].status = "promoted"
                       /\ \A g \in Files : batch[g].corrects # c
    BY <1>4 DEF CanStart, NoBatch, Correctable, File
  <2>7. f \notin tx
    BY <2>6 DEF DbfInv, Promotions, UnderWay
  <2>8. /\ TableTypes' /\ StagedOnMappings' /\ PanelsOK'
        /\ HasRows'
    BY <1>1, <2>3, <2>5 DEF DbfInv, TableTypes, StagedOnMappings, PanelsOK, HasRows
  <2>9. UnderWay'
    <3> SUFFICES ASSUME NEW b \in tx
                 PROVE  /\ batch'[b].status = "approved"
                        /\ batch'[b].corrects # None =>
                              batch'[batch'[b].corrects].status = "promoted"
      BY <1>1 DEF UnderWay
    <3>1. batch'[b] = batch[b] /\ batch[b].status = "approved"
      BY <2>5, <2>7, Originals DEF DbfInv, Promotions, UnderWay
    <3>2. ASSUME batch[b].corrects # None
          PROVE  batch[b].corrects \in Files /\ batch[batch[b].corrects].status = "promoted"
      BY <3>2, Originals DEF DbfInv, Promotions, UnderWay
    <3>3. ASSUME batch[b].corrects # None
          PROVE  batch'[batch[b].corrects].status = "promoted"
      BY <2>5, <2>6, <3>2, <3>3
    <3> QED BY <3>1, <3>3
  <2>10. OneCorrection'
    <3> SUFFICES ASSUME NEW g \in Files, NEW h \in Files,
                        batch'[g].corrects = batch'[h].corrects, batch'[g].corrects # None
                 PROVE  g = h
      BY DEF OneCorrection
    <3> QED BY <2>3, <2>5, <2>6 DEF DbfInv, Promotions, OneCorrection
  <2>11. FactsStand'
    <3> SUFFICES ASSUME NEW x \in facts, x.active
                 PROVE  /\ batch'[x.batch].status = "promoted"
                        /\ x.store \in StoresOf(x.batch)'
                        /\ x.version = batch'[x.batch].revision
      BY <1>1 DEF FactsStand
    <3>1. x.batch \in Files /\ x.batch # f
      BY <2>6 DEF DbfInv, TableTypes, FactType, Promotions, FactsStand
    <3>2. StoresOf(x.batch)' = StoresOf(x.batch)
      BY <1>1 DEF StoresOf
    <3> QED BY <2>5, <3>1, <3>2 DEF DbfInv, Promotions, FactsStand
  <2>12. ASSUME NEW b \in Files, batch'[b].status = "promoted"
         PROVE  /\ batch[b].status = "promoted" /\ batch'[b] = batch[b]
                /\ StoresOf(b)' = StoresOf(b)
    BY <1>1, <2>3, <2>5, <2>12 DEF StoresOf
  <2>13. PromotedHaveFacts'
    <3> SUFFICES ASSUME NEW b \in Files, batch'[b].status = "promoted"
                 PROVE  NewFacts(b)' \subseteq facts
      BY <1>1 DEF PromotedHaveFacts
    <3>1. NewFacts(b)' = NewFacts(b)
      BY <2>12 DEF NewFacts
    <3> QED BY <2>12, <3>1 DEF DbfInv, Promotions, PromotedHaveFacts
  <2>14. GrainsApart'
    BY <2>12 DEF DbfInv, Promotions, GrainsApart
  <2> QED BY <1>1, <2>2, <2>8, <2>9, <2>10, <2>11, <2>13, <2>14
          DEF DbfInv, PanelTypes, Promotions
<1> QED BY <1>3, <1>4

\* A batch that is not decided gets another status before the promotion.
LEMMA StatusMoves ==
    ASSUME DbfInv, NEW b \in Files, NEW to \in {"mapping_required", "owner_review", "approved"},
           SetStatus(b, to)
    PROVE  /\ batch' \in [Files -> BatchType]
           /\ batch'[b].status = to /\ batch'[b].corrects = batch[b].corrects
           /\ \A g \in Files : g # b => batch'[g] = batch[g]
  BY DEF SetStatus, DbfInv, TableTypes, BatchType, ImportStatuses

\* on conflict do nothing: no decision is taken back.
LEMMA QuarantineKeepsInv ==
    ASSUME DbfInv, NEW s \in Starts, Quarantine(s)
    PROVE  DbfInv'
<1>1. start[s].at = "quarantine" /\ UNCHANGED <<staged, facts, tx>> /\ Ended(s)
  BY DEF Quarantine
<1>2. PICK p \in Panels, b \in Files :
         p = start[s].panel /\ b = panel[p].batch /\ panel[p].parsed \in Files
  BY <1>1 DEF DbfInv, StartsOK
<1>3. CASE batch[b].status \notin {"parsed", "mapping_required"}
  <2>1. UNCHANGED <<dbfTables, panel>>
    BY <1>1, <1>2, <1>3 DEF Quarantine, dbfTables
  <2>2. start' \in [Starts -> StartType] /\ StartsOK'
    BY <1>1, <2>1, IdleIsStart, StartMoves DEF Ended
  <2> QED BY <2>1, <2>2, TablesStand DEF DbfInv, PanelTypes, PanelsOK
<1>4. CASE batch[b].status \in {"parsed", "mapping_required"}
  <2>1. QuarantineMappings(b, start[s].open) /\ panel' = [panel EXCEPT ![p].refresh = TRUE]
    BY <1>2, <1>4 DEF Quarantine
  <2>2. /\ panel' \in [Panels -> PanelType] /\ PanelsOK'
        /\ \A q \in Panels : /\ panel'[q].parsed = panel[q].parsed
                             /\ panel'[q].batch = panel[q].batch
    BY <1>2, <2>1, RefreshIsPanel, PanelMoves
  <2>3. start' \in [Starts -> StartType] /\ StartsOK'
    BY <1>1, <2>2, IdleIsStart, StartMoves DEF Ended
  <2>4. /\ mapping' \in [SourceKeys -> Stores \cup {"unresolved", "quarantined"}]
        /\ \A k \in SourceKeys : mapping[k] \in Stores => mapping'[k] = mapping[k]
    BY <2>1, DbfAssumption DEF QuarantineMappings, DbfInv, TableTypes
  <2>5. /\ batch' \in [Files -> BatchType]
        /\ batch'[b].status = "mapping_required" /\ batch'[b].corrects = batch[b].corrects
        /\ \A g \in Files : g # b => batch'[g] = batch[g]
    BY <2>1, StatusMoves DEF QuarantineMappings
  <2>6. TableTypes'
    BY <1>1, <2>4, <2>5 DEF DbfInv, TableTypes
  <2>7. StagedOnMappings'
    BY <1>1, <2>4 DEF DbfInv, StagedOnMappings, TableTypes, StagedType
  <2>8. HasRows'
    BY <1>1, <2>5 DEF DbfInv, HasRows
  <2>9. Promotions'
    BY <1>1, <1>4, <2>5, <2>6, PromotionsStand
  <2> QED BY <2>2, <2>3, <2>6, <2>7, <2>8, <2>9 DEF DbfInv, PanelTypes
<1> QED BY <1>3, <1>4

\* Only a key in quarantine is decided.
LEMMA ConfirmMappingKeepsInv ==
    ASSUME DbfInv, NEW p \in Panels, NEW k \in SourceKeys, NEW store \in Stores,
           ConfirmMapping(p, k, store)
    PROVE  DbfInv'
<1>1. /\ mapping[k] = "quarantined" /\ mapping' = [mapping EXCEPT ![k] = store]
      /\ panel' = [panel EXCEPT ![p].refresh = TRUE]
      /\ UNCHANGED <<batch, staged, facts, tx, start>>
  BY DEF ConfirmMapping
<1>2. panel[p].parsed \in Files /\ panel[p].batch \in Files
  BY DEF ConfirmMapping, DbfInv, PanelsOK
<1>3. PanelTypes' /\ StartsOK' /\ PanelsOK'
  BY <1>1, <1>2, RefreshIsPanel, PanelMoves
<1>4. /\ mapping' \in [SourceKeys -> Stores \cup {"unresolved", "quarantined"}]
      /\ \A j \in SourceKeys : mapping[j] \in Stores => mapping'[j] = mapping[j]
  BY <1>1, DbfAssumption DEF DbfInv, TableTypes
<1>5. TableTypes' /\ HasRows'
  BY <1>1, <1>4 DEF DbfInv, TableTypes, HasRows
<1>6. StagedOnMappings'
  BY <1>1, <1>4 DEF DbfInv, StagedOnMappings, TableTypes, StagedType
<1>7. Promotions'
  BY <1>1, <1>5, PromotionsStand
<1> QED BY <1>3, <1>5, <1>6, <1>7 DEF DbfInv

\* What is staged is bound to the decisions in force, a row for each of the file's.
LEMMA ValidateKeepsInv ==
    ASSUME DbfInv, NEW p \in Panels, Validate(p)
    PROVE  DbfInv'
<1>1. /\ UNCHANGED <<mapping, facts, tx, start>>
      /\ panel[p].parsed \in Files /\ panel[p].batch \in Files
  BY DEF Validate, Click, DbfInv, PanelsOK
<1>2. PICK b \in Files, rows \in SUBSET StagedType : b = panel[p].batch /\ rows = panel[p].rows
  BY <1>1 DEF DbfInv, PanelTypes, PanelType
<1> DEFINE accepted == DistinctGrains(rows) /\ Stageable(b, rows)
<1>3. /\ staged' = (IF accepted THEN [staged EXCEPT ![b] = rows] ELSE staged)
      /\ IF accepted THEN SetStatus(b, "owner_review") ELSE UNCHANGED batch
      /\ panel' = [panel EXCEPT ![p].enabled = @ \ {"validate"},
                                ![p].preview = IF accepted THEN "validated" ELSE @]
  BY <1>2 DEF Validate
<1>4. PanelTypes' /\ StartsOK' /\ PanelsOK'
  <2>1. PICK buttons \in SUBSET {"validate", "approve", "promote"},
             preview \in {None, "validated", "approved"} :
           panel' = [panel EXCEPT ![p].enabled = buttons, ![p].preview = preview]
    BY <1>3 DEF DbfInv, PanelTypes, PanelType
  <2> QED BY <1>1, <2>1, ButtonIsPanel
<1>5. CASE ~ accepted
  <2>1. UNCHANGED dbfTables
    BY <1>1, <1>3, <1>5 DEF dbfTables
  <2> QED BY <1>4, <2>1, TablesStand DEF DbfInv
<1>6. CASE accepted
  <2>1. /\ batch[b].status \in {"parsed", "mapping_required"}
        /\ Cardinality(rows) = Cardinality(Keys(b))
        /\ \A r \in rows : mapping[r.key] = r.store
    BY <1>6 DEF Stageable
  <2>2. /\ staged' \in [Files -> SUBSET StagedType] /\ staged'[b] = rows
        /\ \A g \in Files : g # b => staged'[g] = staged[g]
    BY <1>3, <1>6 DEF DbfInv, TableTypes
  <2>3. /\ batch' \in [Files -> BatchType]
        /\ batch'[b].status = "owner_review" /\ batch'[b].corrects = batch[b].corrects
        /\ \A g \in Files : g # b => batch'[g] = batch[g]
    <3>1. SetStatus(b, "owner_review")
      BY <1>3, <1>6
    <3> QED BY <3>1, StatusMoves
  <2>4. rows # {}
    <3>1. Cardinality({}) = 0
      BY FS_EmptySet
    <3>2. Cardinality(Keys(b)) # 0
      BY DbfAssumption, FS_EmptySet
    <3> QED BY <2>1, <3>1, <3>2
  <2>5. TableTypes'
    BY <1>1, <2>2, <2>3 DEF DbfInv, TableTypes
  <2>6. StagedOnMappings'
    BY <1>1, <2>1, <2>2 DEF DbfInv, StagedOnMappings
  <2>7. HasRows'
    BY <2>2, <2>3, <2>4 DEF DbfInv, HasRows
  <2>8. Promotions'
    BY <1>1, <2>1, <2>2, <2>3, <2>5, PromotionsStand
  <2> QED BY <1>4, <2>5, <2>6, <2>7, <2>8 DEF DbfInv
<1> QED BY <1>5, <1>6

LEMMA ApproveKeepsInv ==
    ASSUME DbfInv, NEW p \in Panels, Approve(p)
    PROVE  DbfInv'
<1>1. /\ UNCHANGED <<mapping, staged, facts, tx, start>>
      /\ panel[p].parsed \in Files /\ panel[p].batch \in Files
  BY DEF Approve, Click, DbfInv, PanelsOK
<1>2. PICK b \in Files : b = panel[p].batch
  BY <1>1
<1>3. /\ IF batch[b].status = "owner_review" THEN SetStatus(b, "approved") ELSE UNCHANGED batch
      /\ panel' = [panel EXCEPT ![p].enabled = @ \ {"approve"},
                                ![p].preview = IF batch[b].status = "owner_review"
                                                 THEN "approved" ELSE @]
  BY <1>2 DEF Approve
<1>4. PanelTypes' /\ StartsOK' /\ PanelsOK'
  <2>1. PICK buttons \in SUBSET {"validate", "approve", "promote"},
             preview \in {None, "validated", "approved"} :
           panel' = [panel EXCEPT ![p].enabled = buttons, ![p].preview = preview]
    BY <1>3 DEF DbfInv, PanelTypes, PanelType
  <2> QED BY <1>1, <2>1, ButtonIsPanel
<1>5. CASE batch[b].status # "owner_review"
  <2>1. UNCHANGED dbfTables
    BY <1>1, <1>3, <1>5 DEF dbfTables
  <2> QED BY <1>4, <2>1, TablesStand DEF DbfInv
<1>6. CASE batch[b].status = "owner_review"
  <2>1. /\ batch' \in [Files -> BatchType]
        /\ batch'[b].status = "approved" /\ batch'[b].corrects = batch[b].corrects
        /\ \A g \in Files : g # b => batch'[g] = batch[g]
    BY <1>3, <1>6, StatusMoves
  <2>2. TableTypes' /\ StagedOnMappings'
    BY <1>1, <2>1 DEF DbfInv, TableTypes, StagedOnMappings
  <2>3. HasRows'
    BY <1>1, <1>6, <2>1 DEF DbfInv, HasRows
  <2>4. Promotions'
    BY <1>1, <1>6, <2>1, <2>2, PromotionsStand
  <2> QED BY <1>4, <2>2, <2>3, <2>4 DEF DbfInv
<1> QED BY <1>5, <1>6

\* The check of a promotion: what it saw of the batch it corrects stays true, since
\* only the batch that corrects it retires it.
LEMMA PromoteKeepsInv ==
    ASSUME DbfInv, NEW p \in Panels, Promote(p)
    PROVE  DbfInv'
<1>1. /\ UNCHANGED <<batch, mapping, staged, facts, start>>
      /\ panel[p].parsed \in Files /\ panel[p].batch \in Files
  BY DEF Promote, Click, DbfInv, PanelsOK
<1>2. PanelTypes' /\ StartsOK' /\ PanelsOK'
  <2>1. PICK buttons \in SUBSET {"validate", "approve", "promote"},
             preview \in {None, "validated", "approved"} :
           panel' = [panel EXCEPT ![p].enabled = buttons, ![p].preview = preview]
    <3>1. panel[p].enabled \ {"promote"} \in SUBSET {"validate", "approve", "promote"}
      BY DEF DbfInv, PanelTypes, PanelType
    <3>2. panel[p].preview \in {None, "validated", "approved"}
      BY DEF DbfInv, PanelTypes, PanelType
    <3>3. panel' = [panel EXCEPT ![p].enabled = panel[p].enabled \ {"promote"},
                                 ![p].preview = panel[p].preview]
      BY DEF Promote, DbfInv, PanelTypes, PanelType
    <3> QED BY <3>1, <3>2, <3>3
  <2> QED BY <1>1, <2>1, ButtonIsPanel
<1>3. tx' = tx \/ \E b \in Files : MayPromote(b) /\ tx' = tx \cup {b}
  BY <1>1 DEF Promote
<1>4. TableTypes' /\ StagedOnMappings' /\ HasRows'
  BY <1>1, <1>3 DEF DbfInv, TableTypes, StagedOnMappings, HasRows
<1>5. UnderWay'
  BY <1>1, <1>3 DEF DbfInv, Promotions, UnderWay, MayPromote
<1>6. \A b : StoresOf(b)' = StoresOf(b) /\ NewFacts(b)' = NewFacts(b)
  BY <1>1 DEF StoresOf, NewFacts
<1>7. OneCorrection' /\ FactsStand' /\ PromotedHaveFacts' /\ GrainsApart'
  <2>1. OneCorrection' /\ FactsStand'
    BY <1>1, <1>6 DEF DbfInv, Promotions, OneCorrection, FactsStand
  <2>2. PromotedHaveFacts' /\ GrainsApart'
    BY <1>1, <1>6 DEF DbfInv, Promotions, PromotedHaveFacts, GrainsApart
  <2> QED BY <2>1, <2>2
<1> QED BY <1>2, <1>4, <1>5, <1>7 DEF DbfInv, Promotions

\* The facts after the write: those of the batch it corrects are retired, its own
\* are the active facts of its rows, and all others stay as they were.
LEMMA FactsWritten ==
    ASSUME DbfInv, NEW b \in tx, facts' = Retired(b) \cup NewFacts(b)
    PROVE  /\ facts' \subseteq FactType
           /\ \A x \in facts' : x.active => \/ x \in facts /\ x.batch # batch[b].corrects
                                            \/ x \in NewFacts(b)
           /\ \A x \in facts : x.batch # batch[b].corrects => x \in facts'
           /\ NewFacts(b) \subseteq facts'
<1>1. b \in Files
  BY Originals
<1>2. NewFacts(b) \subseteq FactType
  <2>1. \A s \in StoresOf(b) : s \in Stores
    BY <1>1 DEF DbfInv, TableTypes, StoresOf, StagedType
  <2>2. batch[b].revision \in Nat
    BY <1>1 DEF DbfInv, TableTypes, BatchType
  <2>3. \A s \in StoresOf(b) : FactOf(b, s) \in FactType
    BY <1>1, <2>1, <2>2 DEF FactOf, FactType
  <2> QED BY <2>3, NewFactsAre
<1>3. ASSUME NEW x \in facts
      PROVE  LET y == [x EXCEPT !.active = x.active /\ x.batch # batch[b].corrects]
             IN  /\ y \in FactType
                 /\ y.active => y = x /\ x.batch # batch[b].corrects
                 /\ x.batch # batch[b].corrects => y = x
  BY DEF DbfInv, TableTypes, FactType
<1>4. Retired(b) \subseteq FactType
  BY <1>3 DEF Retired
<1>5. \A y \in Retired(b) : y.active => y \in facts /\ y.batch # batch[b].corrects
  BY <1>3 DEF Retired
<1>6. \A x \in facts : x.batch # batch[b].corrects => x \in Retired(b)
  BY <1>3 DEF Retired
<1> QED BY <1>2, <1>4, <1>5, <1>6

WithStatus(r, status) == [r EXCEPT !.status = status]

LEMMA WithStatusIs ==
    ASSUME NEW r \in BatchType, NEW status \in ImportStatuses
    PROVE  /\ WithStatus(r, status) \in BatchType
           /\ WithStatus(r, status).status = status
           /\ WithStatus(r, status).corrects = r.corrects
           /\ WithStatus(r, status).revision = r.revision
  BY DEF WithStatus, BatchType

\* What a promotion that is not rolled back writes: the two statuses, the facts it
\* retires and those it adds.
LEMMA PromotionWritten ==
    ASSUME DbfInv, NEW b \in Files, PromoteWrite(b), ~ UNCHANGED <<facts, batch>>,
           NEW old \in File, old = batch[b].corrects
    PROVE  /\ b \in tx /\ IF old = None THEN FreeAtWrite(b) ELSE SameGrains(b)
           /\ batch[b].status = "approved"
           /\ old # None => old \in Files /\ old # b /\ batch[old].status = "promoted"
           /\ batch' \in [Files -> BatchType] /\ batch'[b].status = "promoted"
           /\ old # None => batch'[old].status = "superseded"
           /\ \A f \in Files : /\ batch'[f].corrects = batch[f].corrects
                               /\ batch'[f].revision = batch[f].revision
                               /\ (f \notin {b, old} => batch'[f] = batch[f])
           /\ facts' \subseteq FactType
           /\ \A x \in facts' : x.active => \/ x \in facts /\ x.batch # old
                                            \/ x \in NewFacts(b)
           /\ \A x \in facts : x.batch # old => x \in facts'
           /\ NewFacts(b) \subseteq facts'
<1>0. b \in tx
  BY DEF PromoteWrite
<1>1. /\ IF old = None THEN FreeAtWrite(b) ELSE SameGrains(b)
      /\ facts' = Retired(b) \cup NewFacts(b)
      /\ batch' = [f \in Files |->
                     CASE f = b -> [batch[f] EXCEPT !.status = "promoted"]
                       [] f = old -> [batch[f] EXCEPT !.status = "superseded"]
                       [] OTHER -> batch[f]]
  BY DEF PromoteWrite
<1>2. /\ batch[b].status = "approved" /\ old \in File
      /\ old # None => old \in Files /\ old # b /\ batch[old].status = "promoted"
  BY <1>0, Originals DEF DbfInv, Promotions, UnderWay
<1>3. /\ batch' \in [Files -> BatchType]
      /\ batch'[b].status = "promoted"
      /\ old # None => batch'[old].status = "superseded"
      /\ \A f \in Files : /\ batch'[f].corrects = batch[f].corrects
                          /\ batch'[f].revision = batch[f].revision
                          /\ (f \notin {b, old} => batch'[f] = batch[f])
  <2>1. \A f \in Files : batch[f] \in BatchType
    BY DEF DbfInv, TableTypes
  <2>2. b # old
    BY <1>2, DbfAssumption
  <2>3. "promoted" \in ImportStatuses /\ "superseded" \in ImportStatuses
    BY DEF ImportStatuses
  <2>4. batch' = [f \in Files |->
                    CASE f = b -> WithStatus(batch[f], "promoted")
                      [] f = old -> WithStatus(batch[f], "superseded")
                      [] OTHER -> batch[f]]
    BY <1>1 DEF WithStatus
  <2>5. batch'[b] = WithStatus(batch[b], "promoted")
    BY <2>2, <2>4
  <2>6. old # None => batch'[old] = WithStatus(batch[old], "superseded")
    BY <1>2, <2>2, <2>4
  <2>7. \A f \in Files : f \notin {b, old} => batch'[f] = batch[f]
    BY <2>4
  <2>8. batch'[b] \in BatchType /\ batch'[b].status = "promoted"
        /\ batch'[b].corrects = batch[b].corrects /\ batch'[b].revision = batch[b].revision
    BY <2>1, <2>3, <2>5, WithStatusIs
  <2>9. old # None => /\ batch'[old] \in BatchType /\ batch'[old].status = "superseded"
                      /\ batch'[old].corrects = batch[old].corrects
                      /\ batch'[old].revision = batch[old].revision
    BY <1>2, <2>1, <2>3, <2>6, WithStatusIs
  <2>10. \A f \in Files : f \in {b, old} => f = b \/ (f = old /\ old # None)
    BY DbfAssumption
  <2>11. \A f \in Files : batch'[f] \in BatchType
    BY <2>1, <2>7, <2>8, <2>9, <2>10
  <2>12. batch' \in [Files -> BatchType]
    BY <1>1, <2>11
  <2> QED BY <2>7, <2>8, <2>9, <2>10, <2>12
<1>4. /\ facts' \subseteq FactType
      /\ \A x \in facts' : x.active => \/ x \in facts /\ x.batch # old
                                       \/ x \in NewFacts(b)
      /\ \A x \in facts : x.batch # old => x \in facts'
      /\ NewFacts(b) \subseteq facts'
  BY <1>0, <1>1, FactsWritten
<1> QED BY <1>0, <1>1, <1>2, <1>3, <1>4

\* The promotion writes: the index keeps a first version off the grains that are
\* taken, a correction takes exactly the grains its original gives up.
LEMMA PromoteWriteKeepsInv ==
    ASSUME DbfInv, NEW b \in Files, PromoteWrite(b)
    PROVE  DbfInv'
<1>0. PICK old \in File : old = batch[b].corrects
  BY DEF DbfInv, TableTypes, BatchType
<1>1. /\ b \in tx /\ tx' = tx \ {b} /\ UNCHANGED <<mapping, staged, start, panel>>
  BY DEF PromoteWrite
<1>2. PanelTypes' /\ StartsOK' /\ PanelsOK'
  BY <1>1 DEF DbfInv, PanelTypes, StartsOK, PanelsOK
<1>3. \A f : StoresOf(f)' = StoresOf(f)
  BY <1>1 DEF StoresOf
<1>4. CASE UNCHANGED <<facts, batch>>
  <2>1. TableTypes' /\ StagedOnMappings' /\ HasRows' /\ UnderWay' /\ OneCorrection'
    BY <1>1, <1>4 DEF DbfInv, TableTypes, StagedOnMappings, HasRows, Promotions, UnderWay,
                      OneCorrection
  <2>2. \A f : NewFacts(f)' = NewFacts(f)
    BY <1>3, <1>4 DEF NewFacts
  <2>3. FactsStand'
    BY <1>3, <1>4 DEF DbfInv, Promotions, FactsStand
  <2>4. PromotedHaveFacts' /\ GrainsApart'
    BY <1>3, <1>4, <2>2 DEF DbfInv, Promotions, PromotedHaveFacts, GrainsApart
  <2> QED BY <1>2, <2>1, <2>3, <2>4 DEF DbfInv, Promotions
<1>5. CASE ~ UNCHANGED <<facts, batch>>
  <2>1. /\ IF old = None THEN FreeAtWrite(b) ELSE SameGrains(b)
        /\ batch[b].status = "approved"
        /\ old # None => old \in Files /\ old # b /\ batch[old].status = "promoted"
    BY <1>0, <1>5, PromotionWritten
  <2>2. /\ batch' \in [Files -> BatchType] /\ batch'[b].status = "promoted"
        /\ old # None => batch'[old].status = "superseded"
        /\ \A f \in Files : /\ batch'[f].corrects = batch[f].corrects
                            /\ batch'[f].revision = batch[f].revision
                            /\ (f \notin {b, old} => batch'[f] = batch[f])
    BY <1>0, <1>5, PromotionWritten
  <2>3. /\ facts' \subseteq FactType
        /\ \A x \in facts' : x.active => \/ x \in facts /\ x.batch # old
                                         \/ x \in NewFacts(b)
        /\ \A x \in facts : x.batch # old => x \in facts'
        /\ NewFacts(b) \subseteq facts'
    BY <1>0, <1>5, PromotionWritten
  <2>4. TableTypes' /\ StagedOnMappings'
    BY <1>1, <2>2, <2>3 DEF DbfInv, TableTypes, StagedOnMappings
  <2>5. HasRows'
    <3> SUFFICES ASSUME NEW f \in Files,
                        batch'[f].status \in {"owner_review", "approved", "promoted", "superseded"}
                 PROVE  staged[f] # {}
      BY <1>1 DEF HasRows
    <3>1. CASE f = b
      BY <2>1, <3>1 DEF DbfInv, HasRows
    <3>2. CASE f = old
      BY <2>1, <3>2, DbfAssumption DEF DbfInv, HasRows
    <3>3. CASE f \notin {b, old}
      BY <2>2, <3>3 DEF DbfInv, HasRows
    <3> QED BY <3>1, <3>2, <3>3
  <2>6. OneCorrection'
    BY <2>2 DEF DbfInv, Promotions, OneCorrection
  <2>7. UnderWay'
    <3> SUFFICES ASSUME NEW c \in tx, c # b
                 PROVE  /\ batch'[c].status = "approved"
                        /\ batch'[c].corrects # None =>
                              batch'[batch'[c].corrects].status = "promoted"
      BY <1>1 DEF UnderWay
    <3>1. /\ c \in Files /\ batch[c].status = "approved" /\ batch[c].corrects \in File
          /\ batch[c].corrects # None =>
                batch[c].corrects \in Files /\ batch[batch[c].corrects].status = "promoted"
      BY Originals DEF DbfInv, Promotions, UnderWay
    <3>2. c # old
      BY <2>1, <3>1, DbfAssumption
    <3>3. batch[c].corrects # None => batch[c].corrects \notin {b, old}
      BY <1>0, <2>1, <3>1 DEF DbfInv, Promotions, OneCorrection
    <3> QED BY <2>2, <3>1, <3>2, <3>3
  <2>8. \A f \in Files : /\ batch'[f].status = "promoted" /\ f # b =>
                               batch[f].status = "promoted" /\ f # old
                         /\ NewFacts(f)' = NewFacts(f)
    <3> TAKE f \in Files
    <3>1. NewFacts(f)' = NewFacts(f)
      BY <1>3, <2>2 DEF NewFacts
    <3>2. ASSUME batch'[f].status = "promoted", f # b
          PROVE  batch[f].status = "promoted" /\ f # old
      <4>1. f # old
        BY <2>1, <2>2, <3>2, DbfAssumption
      <4> QED BY <2>2, <3>2, <4>1
    <3> QED BY <3>1, <3>2
  <2>9. FactsStand'
    <3> SUFFICES ASSUME NEW x \in facts', x.active
                 PROVE  /\ batch'[x.batch].status = "promoted"
                        /\ x.store \in StoresOf(x.batch)
                        /\ x.version = batch'[x.batch].revision
      BY <1>3 DEF FactsStand
    <3>1. CASE x \in facts /\ x.batch # old
      <4>1. /\ x.batch \in Files /\ batch[x.batch].status = "promoted"
            /\ x.store \in StoresOf(x.batch) /\ x.version = batch[x.batch].revision
        BY <3>1 DEF DbfInv, TableTypes, FactType, Promotions, FactsStand
      <4>2. x.batch # b
        BY <2>1, <4>1
      <4> QED BY <2>2, <3>1, <4>1, <4>2
    <3>2. CASE x \in NewFacts(b)
      <4>1. x.batch = b /\ x.store \in StoresOf(b) /\ x.version = batch[b].revision
        BY <3>2 DEF NewFacts
      <4> QED BY <2>2, <4>1
    <3> QED BY <2>3, <3>1, <3>2
  <2>10. PromotedHaveFacts'
    <3> SUFFICES ASSUME NEW f \in Files, batch'[f].status = "promoted"
                 PROVE  NewFacts(f) \subseteq facts'
      BY <2>8 DEF PromotedHaveFacts
    <3>1. CASE f = b
      BY <2>3, <3>1
    <3>2. CASE f # b
      <4>1. f # old /\ NewFacts(f) \subseteq facts
        BY <2>8, <3>2 DEF DbfInv, Promotions, PromotedHaveFacts
      <4>2. \A x \in NewFacts(f) : x.batch = f
        BY DEF NewFacts
      <4> QED BY <2>3, <4>1, <4>2
    <3> QED BY <3>1, <3>2
  <2>11. ASSUME NEW f \in Files, batch'[f].status = "promoted", f # b
         PROVE  StoresOf(b) \cap StoresOf(f) = {}
    <3>1. batch[f].status = "promoted" /\ f # old /\ NewFacts(f) \subseteq facts
      BY <2>8, <2>11 DEF DbfInv, Promotions, PromotedHaveFacts
    <3>2. CASE old = None
      <4>1. \A s \in StoresOf(f) : s \in Taken
        <5> SUFFICES ASSUME NEW s \in StoresOf(f) PROVE s \in Taken
          OBVIOUS
        <5>1. PICK x \in NewFacts(f) : x.store = s /\ x.active
          BY NewFactsAre
        <5> QED BY <3>1, <5>1 DEF Taken, ActiveFacts
      <4> QED BY <2>1, <3>2, <4>1 DEF FreeAtWrite
    <3>3. CASE old # None
      <4>1. StoresOf(b) \subseteq StoresOf(old)
        <5> SUFFICES ASSUME NEW s \in StoresOf(b) PROVE s \in StoresOf(old)
          OBVIOUS
        <5>1. PICK x \in facts : x.active /\ x.batch = old /\ x.store = s
          BY <1>0, <2>1, <3>3 DEF SameGrains, FactsOf, ActiveFacts
        <5> QED BY <5>1 DEF DbfInv, Promotions, FactsStand
      <4>2. StoresOf(old) \cap StoresOf(f) = {}
        BY <2>1, <3>1, <3>3 DEF DbfInv, Promotions, GrainsApart
      <4> QED BY <4>1, <4>2
    <3> QED BY <3>2, <3>3
  <2>12. GrainsApart'
    <3> SUFFICES ASSUME NEW f \in Files, NEW g \in Files, f # g,
                        batch'[f].status = "promoted", batch'[g].status = "promoted"
                 PROVE  StoresOf(f) \cap StoresOf(g) = {}
      BY <1>3 DEF GrainsApart
    <3>1. CASE f = b \/ g = b
      BY <2>11, <3>1
    <3>2. CASE f # b /\ g # b
      BY <2>8, <3>2 DEF DbfInv, Promotions, GrainsApart
    <3> QED BY <3>1, <3>2
  <2> QED BY <1>2, <2>4, <2>5, <2>6, <2>7, <2>9, <2>10, <2>12 DEF DbfInv, Promotions
<1> QED BY <1>4, <1>5

LEMMA DbfStepKeepsInv == DbfInv /\ [DbfNext]_dbfVars => DbfInv'
<1> SUFFICES ASSUME DbfInv, [DbfNext]_dbfVars PROVE DbfInv'
  OBVIOUS
<1>1. CASE UNCHANGED dbfVars
  <2>1. UNCHANGED <<dbfTables, start, panel>>
    BY <1>1 DEF dbfVars, dbfTables
  <2> QED BY <2>1, TablesStand DEF DbfInv, PanelTypes, StartsOK, PanelsOK
<1>2. ASSUME NEW p \in Panels, NEW s \in Starts, NEW f \in Files, NEW c \in Files \cup {None},
             Begin(p, s, f, c)
      PROVE  DbfInv'
  BY <1>2, BeginKeepsInv DEF File
<1> QED BY <1>1, <1>2, ConfirmMappingKeepsInv, RefreshKeepsInv, ValidateKeepsInv,
           ApproveKeepsInv, PreviewKeepsInv, PromoteKeepsInv, StartImportKeepsInv,
           LoseAnswerKeepsInv, StartAnswerKeepsInv, ResolveKeepsDbfInv, QuarantineKeepsInv,
           PromoteWriteKeepsInv DEF DbfNext

-----------------------------------------------------------------------------
(* The import: the theorems. *)

\* Whatever panels do with the same files, batches and keys, and however promotions
\* overlap, the inductive invariant holds: the promoted batches share no grain.
THEOREM DbfInvariant == DbfSpec => []DbfInv
<1>1. DbfInit => DbfInv
  <2> SUFFICES ASSUME DbfInit PROVE DbfInv
    OBVIOUS
  <2>1. TableTypes /\ PanelTypes
    <3>1. NoBatch \in BatchType
      BY DEF NoBatch, BatchType, ImportStatuses, File
    <3>2. PanelTypes
      BY IdleIsStart DEF DbfInit, PanelTypes, PanelType, File
    <3> QED BY <3>1, <3>2 DEF DbfInit, TableTypes
  <2>2. StartsOK /\ PanelsOK
    BY IdleIsStart DEF DbfInit, StartsOK, PanelsOK
  <2>3. StagedOnMappings /\ HasRows
    BY DEF DbfInit, StagedOnMappings, HasRows, NoBatch
  <2>4. Promotions
    BY DEF DbfInit, Promotions, UnderWay, OneCorrection, FactsStand, PromotedHaveFacts,
           GrainsApart, NoBatch
  <2> QED BY <2>1, <2>2, <2>3, <2>4 DEF DbfInv
<1>2. DbfInv /\ [DbfNext]_dbfVars => DbfInv'
  BY DbfStepKeepsInv
<1> QED BY <1>1, <1>2, PTL DEF DbfSpec

\* Every reachable state has the declared types.
THEOREM DbfTypeCorrect == DbfSpec => []DbfTypeOK
<1>1. DbfInv => DbfTypeOK
  BY DEF DbfInv, DbfTypeOK, TableTypes, PanelTypes, BatchType, ImportStatuses, File, PanelType
<1> QED BY <1>1, DbfInvariant, PTL

\* At most one version of a grain is active, and the active facts are those of the
\* promoted batches.
THEOREM OneActiveVersionCorrect == DbfSpec => []OneActiveVersion
<1>1. DbfInv => OneActiveVersion
  <2> SUFFICES ASSUME DbfInv PROVE OneActiveVersion
    OBVIOUS
  <2>1. ASSUME NEW x \in ActiveFacts
        PROVE  /\ x \in FactType /\ x.active = TRUE /\ batch[x.batch].status = "promoted"
               /\ x.store \in StoresOf(x.batch) /\ x.version = batch[x.batch].revision
    BY DEF ActiveFacts, DbfInv, TableTypes, FactType, Promotions, FactsStand
  <2>2. ASSUME NEW x \in ActiveFacts, NEW y \in ActiveFacts, x.store = y.store
        PROVE  x = y
    <3>1. x.batch \in Files /\ y.batch \in Files
      BY <2>1, <2>2 DEF FactType
    <3>2. x.store \in StoresOf(x.batch) \cap StoresOf(y.batch)
      BY <2>1, <2>2
    <3>3. x.batch = y.batch
      <4>1. batch[x.batch].status = "promoted" /\ batch[y.batch].status = "promoted"
        BY <2>1
      <4>2. StoresOf(x.batch) \cap StoresOf(y.batch) # {}
        BY <3>2
      <4>3. \A f, g \in Files :
               batch[f].status = "promoted" /\ batch[g].status = "promoted" /\ f # g =>
                   StoresOf(f) \cap StoresOf(g) = {}
        BY DEF DbfInv, Promotions, GrainsApart
      <4> QED BY <3>1, <4>1, <4>2, <4>3, Zenon
    <3>4. \A z \in FactType :
             z = [batch |-> z.batch, store |-> z.store, version |-> z.version,
                  active |-> z.active]
      BY DEF FactType
    <3>5. /\ x = [batch |-> x.batch, store |-> x.store, version |-> x.version,
                  active |-> x.active]
          /\ y = [batch |-> y.batch, store |-> y.store, version |-> y.version,
                  active |-> y.active]
      BY <2>1, <3>4
    <3>6. x.version = y.version /\ x.active = y.active
      BY <2>1, <3>3
    <3> QED BY <2>2, <3>3, <3>5, <3>6
  <2>3. ASSUME NEW b \in Files, batch[b].status = "promoted"
        PROVE  \E x \in ActiveFacts : x.batch = b
    <3>1. PICK r \in staged[b] : TRUE
      BY <2>3 DEF DbfInv, HasRows
    <3> DEFINE x == [batch |-> b, store |-> r.store, version |-> batch[b].revision,
                     active |-> TRUE]
    <3>2. x \in facts
      BY <2>3 DEF DbfInv, Promotions, PromotedHaveFacts, NewFacts, StoresOf
    <3> QED BY <3>2 DEF ActiveFacts
  <2>4. \A x \in ActiveFacts : x.batch \in Files /\ batch[x.batch].status = "promoted"
    BY <2>1 DEF FactType
  <2> QED BY <2>2, <2>3, <2>4 DEF OneActiveVersion
<1> QED BY <1>1, DbfInvariant, PTL

\* Staged rows rest on the decisions in force: an entity, once decided for a key, is
\* never changed.
THEOREM StagedOnMappingsCorrect == DbfSpec => []StagedOnMappings
<1>1. DbfInv => StagedOnMappings
  BY DEF DbfInv
<1> QED BY <1>1, DbfInvariant, PTL

-----------------------------------------------------------------------------
(* The import: the reported figures. *)

\* What a batch corrects was promoted, and is one revision behind it.
RevisionsOK ==
    \A f \in Files : batch[f].status # "none" =>
        IF batch[f].corrects = None
          THEN batch[f].revision = 1
          ELSE /\ batch[f].corrects \in Files
               /\ batch[batch[f].corrects].status \in {"promoted", "superseded"}
               /\ batch[f].revision = batch[batch[f].corrects].revision + 1

Reported(b) == batch[b].status \in {"promoted", "superseded"}

\* Before its promotion a batch keeps what it corrects and its revision.
Unreported(f) ==
    \/ batch'[f] = batch[f]
    \/ /\ batch[f].status \notin {"none", "promoted", "superseded"}
       /\ batch'[f].status \notin {"none", "promoted", "superseded"}
       /\ batch'[f].corrects = batch[f].corrects
       /\ batch'[f].revision = batch[f].revision

LEMMA StatusOnly ==
    ASSUME DbfInv, NEW b \in Files, NEW to \in {"mapping_required", "owner_review", "approved"},
           SetStatus(b, to), batch[b].status \notin {"none", "promoted", "superseded"}
    PROVE  \A f \in Files : Unreported(f)
  BY DEF SetStatus, DbfInv, TableTypes, BatchType, Unreported

\* Every step but the start and the writes of a promotion.
LEMMA QuietTables ==
    ASSUME DbfInv,
           \/ UNCHANGED dbfVars
           \/ \E p \in Panels :
                 \/ \E s \in Starts, f \in Files, c \in Files \cup {None} : Begin(p, s, f, c)
                 \/ \E k \in SourceKeys, store \in Stores : ConfirmMapping(p, k, store)
                 \/ Refresh(p) \/ Validate(p) \/ Approve(p) \/ Preview(p) \/ Promote(p)
           \/ \E s \in Starts : LoseAnswer(s) \/ StartAnswer(s) \/ Resolve(s) \/ Quarantine(s)
    PROVE  facts' = facts /\ \A f \in Files : Unreported(f)
<1>1. CASE UNCHANGED <<batch, facts>>
  BY <1>1 DEF Unreported
<1>2. ASSUME NEW p \in Panels, Validate(p) PROVE facts' = facts /\ \A f \in Files : Unreported(f)
  <2>1. PICK b \in Files : b = panel[p].batch
    BY <1>2 DEF Validate, Click, DbfInv, PanelsOK
  <2>2. CASE DistinctGrains(panel[p].rows) /\ Stageable(b, panel[p].rows)
    BY <1>2, <2>1, <2>2, StatusOnly DEF Validate, Stageable
  <2>3. CASE ~ (DistinctGrains(panel[p].rows) /\ Stageable(b, panel[p].rows))
    BY <1>1, <1>2, <2>1, <2>3 DEF Validate
  <2> QED BY <2>2, <2>3
<1>3. ASSUME NEW p \in Panels, Approve(p) PROVE facts' = facts /\ \A f \in Files : Unreported(f)
  <2>1. PICK b \in Files : b = panel[p].batch
    BY <1>3 DEF Approve, Click, DbfInv, PanelsOK
  <2>2. CASE batch[b].status = "owner_review"
    BY <1>3, <2>1, <2>2, StatusOnly DEF Approve
  <2>3. CASE batch[b].status # "owner_review"
    BY <1>1, <1>3, <2>1, <2>3 DEF Approve
  <2> QED BY <2>2, <2>3
<1>4. ASSUME NEW s \in Starts, Quarantine(s) PROVE facts' = facts /\ \A f \in Files : Unreported(f)
  <2>1. PICK b \in Files : b = panel[start[s].panel].batch
    BY <1>4 DEF Quarantine, DbfInv, StartsOK
  <2>2. CASE batch[b].status \in {"parsed", "mapping_required"}
    BY <1>4, <2>1, <2>2, StatusOnly DEF Quarantine, QuarantineMappings
  <2>3. CASE batch[b].status \notin {"parsed", "mapping_required"}
    BY <1>1, <1>4, <2>1, <2>3 DEF Quarantine
  <2> QED BY <2>2, <2>3
<1> QED BY <1>1, <1>2, <1>3, <1>4
        DEF dbfVars, dbfTables, Begin, ConfirmMapping, Refresh, Preview, Promote, LoseAnswer,
            StartAnswer, Resolve

\* The start adds a batch that is no revision of anything, or the next revision of a
\* promoted one.
LEMMA StartedIs ==
    ASSUME DbfInv, NEW s \in Starts, StartImport(s)
    PROVE  /\ facts' = facts
           /\ \/ batch' = batch
              \/ \E f \in Files, c \in File :
                    /\ batch[f].status = "none" /\ batch'[f].status = "parsed"
                    /\ batch'[f].corrects = c
                    /\ batch'[f].revision = (IF c = None THEN 1 ELSE batch[c].revision + 1)
                    /\ c # None => c \in Files /\ batch[c].status = "promoted"
                    /\ \A g \in Files : g # f => batch'[g] = batch[g]
<1>1. start[s].at = "start" /\ facts' = facts
  BY DEF StartImport
<1>2. PICK f \in Files, c \in File : f = start[s].file /\ c = start[s].corrects
  BY <1>1 DEF DbfInv, StartsOK, PanelTypes, StartType
<1>3. CASE batch' # batch
  <2>1. CanStart(f, c) /\ InsertBatch(f, c)
    BY <1>2, <1>3 DEF StartImport
  <2>2. batch[f].status = "none" /\ (c # None => c \in Files /\ batch[c].status = "promoted")
    BY <2>1 DEF CanStart, NoBatch, Correctable, File
  <2>3. /\ batch'[f].status = "parsed" /\ batch'[f].corrects = c
        /\ batch'[f].revision = (IF c = None THEN 1 ELSE batch[c].revision + 1)
        /\ \A g \in Files : g # f => batch'[g] = batch[g]
    BY <2>1 DEF InsertBatch, DbfInv, TableTypes
  <2> QED BY <1>1, <2>2, <2>3
<1> QED BY <1>1, <1>3

\* The revisions stay in step: no reported batch is ever anything else again.
LEMMA StepKeepsRevisions ==
    ASSUME DbfInv, RevisionsOK, [DbfNext]_dbfVars
    PROVE  RevisionsOK'
<1>1. ASSUME \A f \in Files : /\ batch'[f].corrects = batch[f].corrects
                              /\ batch'[f].revision = batch[f].revision
                              /\ (batch[f].status = "none" <=> batch'[f].status = "none")
                              /\ (Reported(f) => Reported(f)')
      PROVE  RevisionsOK'
  <2> SUFFICES ASSUME NEW f \in Files, batch'[f].status # "none"
               PROVE  IF batch'[f].corrects = None
                        THEN batch'[f].revision = 1
                        ELSE /\ batch'[f].corrects \in Files
                             /\ batch'[batch'[f].corrects].status \in {"promoted", "superseded"}
                             /\ batch'[f].revision = batch'[batch'[f].corrects].revision + 1
    BY DEF RevisionsOK
  <2>1. batch[f].status # "none" /\ batch'[f].corrects = batch[f].corrects
    BY <1>1
  <2>2. CASE batch[f].corrects = None
    BY <1>1, <2>1, <2>2 DEF RevisionsOK
  <2>3. CASE batch[f].corrects # None
    <3>1. /\ batch[f].corrects \in Files /\ Reported(batch[f].corrects)
          /\ batch[f].revision = batch[batch[f].corrects].revision + 1
      BY <2>1, <2>3 DEF RevisionsOK, Reported
    <3>2. batch'[batch[f].corrects].status \in {"promoted", "superseded"}
      BY <1>1, <3>1 DEF Reported
    <3> QED BY <1>1, <2>1, <2>3, <3>1, <3>2
  <2> QED BY <2>2, <2>3
<1>2. ASSUME NEW s \in Starts, StartImport(s) PROVE RevisionsOK'
  <2>1. CASE batch' = batch
    BY <2>1 DEF RevisionsOK
  <2>2. CASE batch' # batch
    <3>1. PICK f \in Files, c \in File :
             /\ batch[f].status = "none" /\ batch'[f].status = "parsed"
             /\ batch'[f].corrects = c
             /\ batch'[f].revision = (IF c = None THEN 1 ELSE batch[c].revision + 1)
             /\ c # None => c \in Files /\ batch[c].status = "promoted"
             /\ \A g \in Files : g # f => batch'[g] = batch[g]
      BY <1>2, <2>2, StartedIs
    <3>2. ASSUME NEW g \in Files, g # f, batch'[g].status # "none"
          PROVE  IF batch'[g].corrects = None
                   THEN batch'[g].revision = 1
                   ELSE /\ batch'[g].corrects \in Files
                        /\ batch'[batch'[g].corrects].status \in {"promoted", "superseded"}
                        /\ batch'[g].revision = batch'[batch'[g].corrects].revision + 1
      <4>1. batch'[g] = batch[g]
        BY <3>1, <3>2
      <4>2. batch[g].corrects # None => batch[g].corrects \in Files /\ batch[g].corrects # f
        BY <3>1, <3>2, <4>1 DEF RevisionsOK
      <4> QED BY <3>1, <3>2, <4>1, <4>2 DEF RevisionsOK
    <3>3. c # None => c # f
      BY <3>1
    <3> QED BY <3>1, <3>2, <3>3 DEF RevisionsOK
  <2> QED BY <2>1, <2>2
<1>3. ASSUME NEW b \in Files, PromoteWrite(b) PROVE RevisionsOK'
  <2>1. CASE UNCHANGED <<facts, batch>>
    BY <2>1 DEF RevisionsOK
  <2>2. CASE ~ UNCHANGED <<facts, batch>>
    <3>1. PICK old \in File : old = batch[b].corrects
      BY DEF DbfInv, TableTypes, BatchType
    <3>2. /\ batch[b].status = "approved" /\ batch'[b].status = "promoted"
          /\ old # None => batch[old].status = "promoted" /\ batch'[old].status = "superseded"
          /\ \A f \in Files : /\ batch'[f].corrects = batch[f].corrects
                              /\ batch'[f].revision = batch[f].revision
                              /\ (f \notin {b, old} => batch'[f] = batch[f])
      BY <1>3, <2>2, <3>1, PromotionWritten
    <3>3. \A f \in Files : /\ (batch[f].status = "none" <=> batch'[f].status = "none")
                           /\ (Reported(f) => Reported(f)')
      BY <3>2, DbfAssumption DEF Reported
    <3> QED BY <1>1, <3>2, <3>3
  <2> QED BY <2>1, <2>2
<1>4. CASE \A f \in Files : Unreported(f)
  BY <1>1, <1>4 DEF Unreported, Reported
<1> QED BY <1>2, <1>3, <1>4, QuietTables DEF DbfNext

\* The mapping of the facts, one by one.
Shown(x) == [store |-> x.store, file |-> x.batch, version |-> x.version]
AllShown == {Shown(x) : x \in ActiveFacts}
Superseded == {f \in Files : batch[f].status = "superseded"}

LEMMA ShownIs ==
    ASSUME NEW x
    PROVE  /\ Shown(x).store = x.store /\ Shown(x).file = x.batch /\ Shown(x).version = x.version
           /\ Shown(x) = Readers!Figure(x.store, x.batch, x.version)
  BY DEF Shown, Readers!Figure

\* Steps that leave facts and superseded batches alone are not seen.
LEMMA NothingReported ==
    ASSUME facts' = facts, Superseded' = Superseded
    PROVE  UNCHANGED Readers!vars
  BY DEF Readers!vars, Superseded, ActiveFacts

\* After the writes the active facts are those that were not corrected and the new ones.
LEMMA ActiveAfter ==
    ASSUME DbfInv, NEW b \in Files, PromoteWrite(b), ~ UNCHANGED <<facts, batch>>
    PROVE  AllShown' = {Shown(x) : x \in {y \in ActiveFacts : y.batch # batch[b].corrects}}
                         \cup {Readers!Figure(s, b, batch[b].revision) : s \in StoresOf(b)}
<1>0. PICK old \in File : old = batch[b].corrects
  BY DEF DbfInv, TableTypes, BatchType
<1>1. /\ \A x \in facts' : x.active => \/ x \in facts /\ x.batch # old
                                      \/ x \in NewFacts(b)
      /\ \A x \in facts : x.batch # old => x \in facts'
      /\ NewFacts(b) \subseteq facts'
  BY <1>0, PromotionWritten
<1>2. \A x \in NewFacts(b) : x.active
  BY DEF NewFacts
<1>3. ActiveFacts' = {y \in ActiveFacts : y.batch # old} \cup NewFacts(b)
  BY <1>1, <1>2 DEF ActiveFacts
<1>4. \A s \in StoresOf(b) : Shown(FactOf(b, s)) = Readers!Figure(s, b, batch[b].revision)
  BY NewFactsAre, ShownIs
<1>5. {Shown(x) : x \in NewFacts(b)} = {Readers!Figure(s, b, batch[b].revision) : s \in StoresOf(b)}
  BY <1>4, NewFactsAre
<1> QED BY <1>0, <1>3, <1>5 DEF AllShown, Shown

\* A batch that is to be promoted is neither shown nor superseded, and has rows.
LEMMA NotYetShown ==
    ASSUME DbfInv, NEW b \in Files, batch[b].status = "approved"
    PROVE  /\ \A x \in AllShown : x.file # b
           /\ b \notin Superseded
           /\ StoresOf(b) # {} /\ StoresOf(b) \subseteq Stores
<1>1. \A x \in ActiveFacts : x.batch # b
  BY DEF ActiveFacts, DbfInv, Promotions, FactsStand
<1>2. StoresOf(b) # {} /\ StoresOf(b) \subseteq Stores
  BY DEF DbfInv, HasRows, StoresOf, TableTypes, StagedType
<1> QED BY <1>1, <1>2, ShownIs DEF AllShown, Superseded

\* A first promotion adds the figures of stores that have none.
LEMMA FirstReport ==
    ASSUME DbfInv, RevisionsOK, NEW b \in Files, PromoteWrite(b),
           ~ UNCHANGED <<facts, batch>>, batch[b].corrects = None
    PROVE  \E some \in SUBSET Stores : Readers!Report(b, some)
<1>1. /\ FreeAtWrite(b) /\ batch[b].status = "approved"
      /\ batch'[b].status = "promoted"
      /\ \A f \in Files : f # b => batch'[f] = batch[f]
  BY PromotionWritten, DbfAssumption DEF File
<1>2. batch[b].revision = 1
  BY <1>1 DEF RevisionsOK
<1>3. \A x \in ActiveFacts : x.batch # None
  BY DbfAssumption DEF ActiveFacts, DbfInv, TableTypes, FactType
<1>4. AllShown' = AllShown \cup {Readers!Figure(s, b, 1) : s \in StoresOf(b)}
  BY <1>2, <1>3, ActiveAfter DEF AllShown
<1>5. Superseded' = Superseded
  BY <1>1 DEF Superseded
<1>6. StoresOf(b) \cap {x.store : x \in AllShown} = {}
  BY <1>1, ShownIs DEF FreeAtWrite, Taken, AllShown
<1>7. StoresOf(b) \in SUBSET Stores
  BY <1>1, NotYetShown
<1> QED BY <1>1, <1>4, <1>5, <1>6, <1>7, NotYetShown
        DEF Readers!Report, Readers!Shown, Readers!Covered, AllShown, Shown, Superseded

\* A correction takes over exactly the figures of the batch it corrects.
LEMMA CorrectionReported ==
    ASSUME DbfInv, RevisionsOK, NEW b \in Files, PromoteWrite(b),
           ~ UNCHANGED <<facts, batch>>, batch[b].corrects # None
    PROVE  \E old \in Files : Readers!Correct(b, old)
<1>0. PICK old \in Files : old = batch[b].corrects
  BY PromotionWritten DEF DbfInv, TableTypes, BatchType, File
<1>1. /\ SameGrains(b) /\ batch[b].status = "approved" /\ batch[old].status = "promoted"
      /\ batch'[b].status = "promoted" /\ batch'[old].status = "superseded"
      /\ \A f \in Files : f \notin {b, old} => batch'[f] = batch[f]
  BY <1>0, PromotionWritten, DbfAssumption DEF File
<1>2. batch[b].revision = batch[old].revision + 1
  BY <1>0, <1>1, DbfAssumption DEF RevisionsOK
<1> DEFINE ofOld == {x \in ActiveFacts : x.batch = old}
<1>3. \A x \in ofOld : x.version + 1 = batch[b].revision
  BY <1>2 DEF ActiveFacts, DbfInv, Promotions, FactsStand
<1>4. StoresOf(b) = {x.store : x \in ofOld}
  BY <1>0, <1>1 DEF SameGrains, FactsOf, ActiveFacts
<1>5. Readers!Of(old) = {Shown(x) : x \in ofOld}
  BY ShownIs DEF Readers!Of, Shown
<1>6. {Shown(x) : x \in {y \in ActiveFacts : y.batch # old}} = AllShown \ Readers!Of(old)
  BY <1>5, ShownIs DEF AllShown
<1>7. {Readers!Figure(s, b, batch[b].revision) : s \in StoresOf(b)}
        = {Readers!Figure(x.store, b, x.version + 1) : x \in Readers!Of(old)}
  <2>1. {Readers!Figure(s, b, batch[b].revision) : s \in StoresOf(b)}
          = {Readers!Figure(x.store, b, batch[b].revision) : x \in ofOld}
    BY <1>4
  <2>2. \A x \in ofOld : Readers!Figure(x.store, b, batch[b].revision)
                           = Readers!Figure(Shown(x).store, b, Shown(x).version + 1)
    BY <1>3, ShownIs
  <2> QED BY <1>5, <2>1, <2>2
<1>8. AllShown' = (AllShown \ Readers!Of(old))
                    \cup {Readers!Figure(x.store, b, x.version + 1) : x \in Readers!Of(old)}
  BY <1>0, <1>6, <1>7, ActiveAfter
<1>9. Superseded' = Superseded \cup {old}
  BY <1>1 DEF Superseded
<1>10. old \in {x.file : x \in AllShown}
  <2>1. PICK s \in StoresOf(b) : TRUE
    BY <1>1, NotYetShown
  <2>2. PICK x \in ofOld : TRUE
    BY <1>4, <2>1
  <2> QED BY <2>2, ShownIs DEF AllShown
<1> QED BY <1>0, <1>1, <1>8, <1>9, <1>10, NotYetShown
        DEF Readers!Correct, Readers!Shown, AllShown, Shown, Superseded

\* The panels, the requests and the promotions that overlap implement the reported
\* figures.
THEOREM ReportedFiguresImplemented == DbfSpec => ImplementsReportedFigures
<1>1. DbfInit => Readers!Init
  BY DEF DbfInit, Readers!Init, ActiveFacts, NoBatch
<1>2. DbfInit => RevisionsOK
  BY DEF DbfInit, RevisionsOK, NoBatch
<1>3. DbfInv /\ RevisionsOK /\ [DbfNext]_dbfVars => RevisionsOK'
  BY StepKeepsRevisions
<1>4. DbfInv /\ RevisionsOK /\ [DbfNext]_dbfVars => [Readers!Next]_(Readers!vars)
  <2> SUFFICES ASSUME DbfInv, RevisionsOK, [DbfNext]_dbfVars
               PROVE  Readers!Next \/ UNCHANGED Readers!vars
    OBVIOUS
  <2>1. ASSUME facts' = facts, \A f \in Files : Unreported(f) PROVE UNCHANGED Readers!vars
    BY <2>1, NothingReported DEF Unreported, Superseded
  <2>2. ASSUME NEW s \in Starts, StartImport(s) PROVE UNCHANGED Readers!vars
    <3>1. facts' = facts /\ \A f \in Files : batch'[f].status = "superseded" <=>
                                             batch[f].status = "superseded"
      BY <2>2, StartedIs
    <3> QED BY <3>1, NothingReported DEF Superseded
  <2>3. ASSUME NEW b \in Files, PromoteWrite(b) PROVE Readers!Next \/ UNCHANGED Readers!vars
    <3>1. CASE UNCHANGED <<facts, batch>>
      BY <3>1, NothingReported DEF Superseded
    <3>2. CASE ~ UNCHANGED <<facts, batch>> /\ batch[b].corrects = None
      BY <2>3, <3>2, FirstReport DEF Readers!Next
    <3>3. CASE ~ UNCHANGED <<facts, batch>> /\ batch[b].corrects # None
      BY <2>3, <3>3, CorrectionReported DEF Readers!Next
    <3> QED BY <3>1, <3>2, <3>3
  <2> QED BY <2>1, <2>2, <2>3, QuietTables DEF DbfNext
<1> QED BY <1>1, <1>2, <1>3, <1>4, DbfInvariant, PTL
        DEF DbfSpec, ImplementsReportedFigures, Readers!Spec

=============================================================================
