--------------------------- MODULE ServicesProofs ---------------------------
(***************************************************************************)
(* Theorems about the services around the run engine, for any number of    *)
(* requests, rows and servers: the authorization of tool calls (ToolGate), *)
(* the session of an MCP server (McpLifecycle), the pool of connections to *)
(* it (McpPool), the change of the vault's master key (VaultKeys), forks   *)
(* of conversations (Conversations), the activity ledger (TaskBoard) and   *)
(* the books, their chunks and the search for them (Library).              *)
(* Each section has the inductive invariant of its module, a lemma for     *)
(* each action that can disturb it, and the theorem.                       *)
(***************************************************************************)
EXTENDS ToolGate, McpLifecycle, McpPool, VaultKeys, Conversations, TaskBoard, Library,
        SequenceTheorems, FunctionTheorems, FiniteSetTheorems, WellFoundedInduction, TLAPS

(***************************************************************************)
(* ToolGate                                                                *)
(***************************************************************************)
Verdicts == Decisions \cup {"none"}
CallType == [id : Nat, name : GateTools \cup {"none"},
             pc : {"idle", "cache", "policies", "insert", "audit", "decided", "ended"},
             decision : Verdicts, reason : {"none", "cache", "matrix"}]

GateTypes ==
    /\ policy \in [GateProfiles -> [Actions -> Verdicts]]
    /\ cache \in [Actions -> Verdicts]
    /\ call \in [GateRuns -> CallType]
    /\ said \in [Actions -> SUBSET Decisions]
    /\ gateCalls \in Nat

\* A decision that is on its way, in the cache or in a call, was given for
\* its action.
DecisionsGiven ==
    /\ \A a \in Actions : "ALLOW" \in said[a]
    /\ \A p \in GateProfiles, a \in Actions : policy[p][a] # "none" => policy[p][a] \in said[a]
    /\ \A a \in Actions : cache[a] # "none" => cache[a] \in said[a]
    /\ \A row \in audits : row.action \in Actions
    /\ \A r \in GateRuns : call[r].pc \in {"insert", "audit", "decided"}
                             => call[r].decision \in said[ActionKey(call[r].name)]

\* A call that is decided has its row.
Recorded(c) == \E row \in audits : /\ row.id = c.id /\ row.action = ActionKey(c.name)
                                   /\ row.decision = c.decision
DecidedIsRecorded == \A r \in GateRuns : call[r].pc = "decided" => Recorded(call[r])

GateInv == GateTypes /\ DecisionsGiven /\ DecidedIsRecorded /\ GatedByPolicy

LEMMA ActionOfCall == \A name : ActionKey(name) \in Actions
  BY DEF ActionKey, Actions

LEMMA GateInitInv == GateInit => GateInv
<1> SUFFICES ASSUME GateInit PROVE GateInv OBVIOUS
<1>1. DecidedIsRecorded BY DEF GateInit, DecidedIsRecorded, NoCall
<1>2. GatedByPolicy BY DEF GateInit, GatedByPolicy
<1> QED
  BY <1>1, <1>2 DEF GateInv, GateInit, DecisionsGiven, DefaultMatrixDecision, NoCall, GateTypes, Decisions, Verdicts,
    CallType

\* A call that takes a step, when the rows and what was said stay.
LEMMA CallMoves ==
  ASSUME GateInv, NEW r \in GateRuns, NEW c \in CallType, call' = [call EXCEPT ![r] = c],
         UNCHANGED <<policy, cache, said, audits, acted>>, gateCalls' \in Nat,
         c.pc \in {"insert", "audit", "decided"} => c.decision \in said[ActionKey(c.name)],
         c.pc = "decided" => Recorded(c)
  PROVE  GateInv'
<1>1. GateTypes /\ DecisionsGiven /\ DecidedIsRecorded /\ GatedByPolicy BY DEF GateInv
<1>2. call'[r] = c /\ \A q \in GateRuns : q # r => call'[q] = call[q] BY <1>1 DEF GateTypes
<1>3. DecidedIsRecorded' BY <1>1, <1>2 DEF DecidedIsRecorded, Recorded
<1>4. GatedByPolicy' BY <1>1 DEF GatedByPolicy
<1> QED BY <1>3, <1>4, <1>1, <1>2 DEF GateInv, GateTypes, DecisionsGiven

LEMMA CallFields ==
  ASSUME GateInv, NEW r \in GateRuns
  PROVE  /\ call[r] \in CallType
         /\ \A pc \in {"idle", "cache", "policies", "insert", "audit", "decided", "ended"} :
              LET c == [call[r] EXCEPT !.pc = pc] IN
              /\ c \in CallType /\ c.pc = pc
              /\ c.id = call[r].id /\ c.name = call[r].name /\ c.decision = call[r].decision
  BY DEF CallType, GateInv, GateTypes

Given(c, d, why, pc) == [c EXCEPT !.decision = d, !.reason = why, !.pc = pc]

LEMMA CallDecided ==
  ASSUME GateInv, NEW r \in GateRuns, NEW d \in Verdicts, NEW w \in {"cache", "matrix"},
         NEW pc \in {"audit", "insert"}
  PROVE  /\ Given(call[r], d, w, pc) \in CallType
         /\ Given(call[r], d, w, pc).pc = pc
         /\ Given(call[r], d, w, pc).name = call[r].name
         /\ Given(call[r], d, w, pc).decision = d
  BY DEF CallType, Given, GateInv, GateTypes

LEMMA GateStep ==
  ASSUME GateInv, [GateNext]_gatevars
  PROVE  GateInv'
<1>1. GateTypes /\ DecisionsGiven /\ DecidedIsRecorded /\ GatedByPolicy BY DEF GateInv
<1>2. ASSUME NEW r \in GateRuns, NEW name \in GateTools, CallTool(r, name) PROVE GateInv'
  <2> DEFINE c == [NoCall EXCEPT !.id = gateCalls', !.name = name, !.pc = "cache"]
  <2>1. gateCalls' \in Nat BY <1>1, <1>2 DEF CallTool, GateTypes
  <2>2. c \in CallType /\ c.pc = "cache" BY <2>1 DEF NoCall, CallType, Verdicts
  <2>3. call' = [call EXCEPT ![r] = c] /\ UNCHANGED <<policy, cache, said, audits, acted>> BY <1>2 DEF CallTool
  <2> HIDE DEF c
  <2> QED BY <2>1, <2>2, <2>3, CallMoves
<1>3. ASSUME NEW r \in GateRuns, CheckCache(r) PROVE GateInv'
  <2> DEFINE a == ActionKey(call[r].name)
             moved == [call[r] EXCEPT !.pc = "policies"]
             given == Given(call[r], cache[a], "cache", "audit")
  <2>1. UNCHANGED <<policy, cache, said, audits, acted>> /\ gateCalls' \in Nat BY <1>1, <1>3 DEF CheckCache, GateTypes
  <2>2. CASE cache[a] = "none"
    <3>1. call' = [call EXCEPT ![r] = moved] BY <1>1, <1>3, <2>2 DEF CheckCache, CacheKey, Move, GateTypes
    <3>2. moved \in CallType /\ moved.pc = "policies" BY CallFields
    <3> HIDE DEF moved
    <3> QED BY <2>1, <3>1, <3>2, CallMoves
  <2>3. CASE cache[a] # "none"
    <3>1. call' = [call EXCEPT ![r] = given] BY <1>1, <1>3, <2>3 DEF CheckCache, CacheKey, Decides, Given, GateTypes
    <3>2. cache[a] \in Verdicts /\ cache[a] \in said[a] BY <1>1, <2>3, ActionOfCall DEF GateTypes, DecisionsGiven
    <3>3. given \in CallType /\ given.pc = "audit" /\ given.name = call[r].name
          /\ given.decision = cache[a]
      <4> HIDE DEF a
      <4> QED BY <3>2, CallDecided
    <3> HIDE DEF given
    <3> QED BY <2>1, <3>1, <3>3, CallMoves, <3>2
  <2> QED BY <2>2, <2>3
<1>4. ASSUME NEW r \in GateRuns, QueryPolicies(r) PROVE GateInv'
  <2> DEFINE a == ActionKey(call[r].name)
             d == Decide(GateProfile[r], a)
             given == Given(call[r], d, "matrix", "insert")
  <2>1. a \in Actions /\ GateProfile[r] \in GateProfiles BY ActionOfCall DEF GateProfiles
  <2>2. d \in said[a] /\ d \in Verdicts
    <3> HIDE DEF a
    <3> QED BY <1>1, <2>1 DEF Decide, DefaultMatrixDecision, Verdicts, Decisions, GateTypes, DecisionsGiven
  <2>3. call' = [call EXCEPT ![r] = given] BY <1>1, <1>4 DEF QueryPolicies, Decides, Given, GateTypes
  <2>4. given \in CallType /\ given.pc = "insert" /\ given.name = call[r].name
        /\ given.decision = d
    <3> HIDE DEF a, d
    <3> QED BY <2>2, CallDecided
  <2>5. given.decision \in said[ActionKey(given.name)] BY <2>2, <2>4
  <2> HIDE DEF given
  <2> QED BY <2>3, <2>4, <2>5, CallMoves, <1>1, <1>4 DEF QueryPolicies, GateTypes
<1>5. ASSUME NEW r \in GateRuns, UpdateCache(r) PROVE GateInv'
  <2> DEFINE a == ActionKey(call[r].name)
             c == [call[r] EXCEPT !.pc = "audit"]
  <2>1. a \in Actions BY ActionOfCall
  <2>2. call[r].decision \in said[a] /\ call[r].decision \in Verdicts
    BY <1>1, <1>5, CallFields DEF UpdateCache, DecisionsGiven, CallType
  <2>3. cache' = [cache EXCEPT ![a] = call[r].decision] /\ UNCHANGED <<policy, said, audits, acted>>
        /\ gateCalls' = gateCalls BY <1>5 DEF UpdateCache, CacheKey
  <2>4. call' = [call EXCEPT ![r] = c] BY <1>1, <1>5 DEF UpdateCache, Move, GateTypes
  <2>5. c \in CallType /\ c.pc = "audit" /\ c.decision = call[r].decision /\ c.name = call[r].name BY CallFields
  <2> HIDE DEF c, a
  <2>6. call'[r] = c /\ \A q \in GateRuns : q # r => call'[q] = call[q] BY <1>1, <2>4 DEF GateTypes
  <2>7. DecisionsGiven' BY <1>1, <2>2, <2>3, <2>5, <2>6, <2>1 DEF DecisionsGiven, a, GateTypes
  <2>8. GatedByPolicy' BY <1>1, <2>3 DEF GatedByPolicy
  <2> QED BY <2>7, <2>8, <1>1, <2>2, <2>3, <2>4, <2>5, <2>6 DEF GateInv, GateTypes, DecidedIsRecorded, Recorded
<1>6. ASSUME NEW r \in GateRuns, AuditDecision(r) PROVE GateInv'
  <2> DEFINE row == [id |-> call[r].id, action |-> ActionKey(call[r].name),
                     decision |-> call[r].decision, reason |-> call[r].reason]
             c == [call[r] EXCEPT !.pc = "decided"]
  <2>1. row.id = call[r].id /\ row.action = ActionKey(call[r].name)
        /\ row.decision = call[r].decision OBVIOUS
  <2>2. audits' = audits \cup {row} /\ UNCHANGED <<policy, cache, said, acted, gateCalls>> BY <1>6 DEF AuditDecision
  <2>3. call' = [call EXCEPT ![r] = c] BY <1>1, <1>6 DEF AuditDecision, Move, GateTypes
  <2>4. /\ c \in CallType /\ c.pc = "decided" /\ c.id = call[r].id /\ c.name = call[r].name
        /\ c.decision = call[r].decision BY CallFields
  <2>5. call[r].decision \in said[ActionKey(call[r].name)] BY <1>1, <1>6 DEF AuditDecision, DecisionsGiven
  <2> HIDE DEF row, c
  <2>6. call'[r] = c /\ \A q \in GateRuns : q # r => call'[q] = call[q] BY <1>1, <2>3 DEF GateTypes
  <2>7. DecisionsGiven' BY <1>1, <2>1, <2>2, <2>4, <2>5, <2>6, ActionOfCall DEF DecisionsGiven
  <2>8. GatedByPolicy' BY <1>1, <2>1, <2>2, <2>5 DEF GatedByPolicy
  <2> QED BY <2>7, <2>8, <1>1, <2>2, <2>3, <2>4, <2>1, <2>6 DEF GateInv, GateTypes, DecidedIsRecorded, Recorded
<1>7. ASSUME NEW r \in GateRuns, AuthorizeFails(r) PROVE GateInv'
  <2> DEFINE c == [call[r] EXCEPT !.pc = "ended"]
  <2>1. call' = [call EXCEPT ![r] = c] /\ UNCHANGED <<policy, cache, said, audits, acted>>
        /\ gateCalls' \in Nat BY <1>1, <1>7 DEF AuthorizeFails, Move, GateTypes
  <2>2. c \in CallType /\ c.pc = "ended" BY CallFields
  <2> HIDE DEF c
  <2> QED BY <2>1, <2>2, CallMoves
<1>8. NoCall \in CallType /\ NoCall.pc = "idle" BY DEF NoCall, CallType, Verdicts
<1>9. ASSUME NEW r \in GateRuns, Refuse(r) PROVE GateInv' BY <1>8, CallMoves, <1>1, <1>9 DEF Refuse, GateTypes
<1>10. ASSUME NEW r \in GateRuns, Dispatch(r) PROVE GateInv'
  <2> DEFINE act == [id |-> call[r].id, name |-> call[r].name]
  <2>1. /\ call' = [call EXCEPT ![r] = NoCall] /\ UNCHANGED <<policy, cache, said, audits, gateCalls>>
        /\ acted' \in {acted, acted \cup {act}} BY <1>10 DEF Dispatch
  <2>2. act.id = call[r].id /\ act.name = call[r].name OBVIOUS
  <2>3. PICK row \in audits : /\ row.id = call[r].id /\ row.action = ActionKey(call[r].name)
                              /\ row.decision = call[r].decision
    BY <1>1, <1>10 DEF Dispatch, DecidedIsRecorded, Recorded
  <2> HIDE DEF act
  <2>4. call'[r] = NoCall /\ \A q \in GateRuns : q # r => call'[q] = call[q] BY <1>1, <2>1 DEF GateTypes
  <2>5. DecidedIsRecorded' BY <1>1, <1>8, <2>1, <2>4 DEF DecidedIsRecorded, Recorded
  <2>6. GatedByPolicy' BY <1>1, <2>1, <2>2, <2>3, <1>10 DEF GatedByPolicy, Dispatch, Passes
  <2> QED BY <2>5, <2>6, <1>1, <1>8, <2>1, <2>4 DEF GateInv, GateTypes, DecisionsGiven
<1>11. ASSUME NEW p \in GateProfiles, NEW a \in Actions, NEW d \in Decisions, EditPolicy(p, a, d)
       PROVE  GateInv'
  <2>1. /\ policy' = [policy EXCEPT ![p][a] = d] /\ said' = [said EXCEPT ![a] = @ \cup {d}]
        /\ UNCHANGED <<cache, call, audits, acted, gateCalls>> BY <1>11 DEF EditPolicy
  <2>2. \A b \in Actions : said[b] \subseteq said'[b] /\ (b = a => d \in said'[b]) BY <1>1, <2>1 DEF GateTypes
  <2>3. DecidedIsRecorded' BY <1>1, <2>1 DEF DecidedIsRecorded, Recorded
  <2>4. GatedByPolicy' BY <1>1, <2>1, <2>2 DEF GatedByPolicy, DecisionsGiven
  <2> QED BY <2>3, <2>4, <1>1, <2>1, <2>2, ActionOfCall DEF GateInv, GateTypes, Verdicts, DecisionsGiven
<1>12. CASE UNCHANGED gatevars
  BY <1>1, <1>12 DEF gatevars, GateInv, GateTypes, DecisionsGiven, DecidedIsRecorded, Recorded, GatedByPolicy
<1> QED BY <1>2, <1>3, <1>4, <1>5, <1>6, <1>7, <1>9, <1>10, <1>11, <1>12 DEF GateNext

\* No tool runs and no book reaches a context without an audit row of a decision
\* that lets it through, and every recorded decision was given for that action
\* (authorize, the tool loop of execute_inner).
THEOREM ToolsAreGated == GateSpec => []GatedByPolicy
<1>1. GateInit => GateInv BY GateInitInv
<1>2. GateInv /\ [GateNext]_gatevars => GateInv' BY GateStep
<1>3. GateInv => GatedByPolicy BY DEF GateInv
<1> QED BY <1>1, <1>2, <1>3, PTL DEF GateSpec

(***************************************************************************)
(* McpLifecycle                                                            *)
(***************************************************************************)
\* Request ids are drawn in order, so that a new token was never handed back.
TokensNumbered ==
    /\ nextRequest \in Nat
    /\ \A token \in tokens : token.id \in Nat /\ token.id <= nextRequest

LifecycleInv == TokensNumbered /\ PendingIsFenced

LEMMA LifecycleInitInv == LifecycleInit => LifecycleInv
  BY DEF LifecycleInit, LifecycleInv, TokensNumbered, PendingIsFenced, Down

LEMMA LifecycleStep ==
  ASSUME LifecycleInv, [LifecycleNext]_lvars
  PROVE  LifecycleInv'
<1>1. TokensNumbered /\ PendingIsFenced BY DEF LifecycleInv
<1> USE DEF LifecycleInv, Goes, Down
\* The connection comes up: nothing waits, or what waits goes on waiting.
<1>2. CASE BeginConnect
  BY <1>1, <1>2 DEF BeginConnect, BeginConnectInner, ClearSession, TokensNumbered, PendingIsFenced
<1>3. CASE BeginDiscovery BY <1>1, <1>3 DEF BeginDiscovery, TokensNumbered, PendingIsFenced
<1>4. CASE BeginInitialize BY <1>1, <1>4 DEF BeginInitialize, TokensNumbered, PendingIsFenced
<1>5. CASE BindNegotiation BY <1>1, <1>5 DEF BindNegotiation, TokensNumbered, PendingIsFenced
<1>6. CASE MarkLegacyInitialized BY <1>1, <1>6 DEF MarkLegacyInitialized, TokensNumbered, PendingIsFenced
<1>7. CASE MarkReady BY <1>1, <1>7 DEF MarkReady, TokensNumbered, PendingIsFenced
\* Requests.
<1>8. CASE AllocateAndReserve
  <2> DEFINE token == [generation |-> generation, id |-> nextRequest + 1]
  <2>1. token.generation = generation /\ token.id = nextRequest + 1 OBVIOUS
  <2>2. /\ sessionState = "Ready" /\ nextRequest' = nextRequest + 1
        /\ pending' = pending \cup {token} /\ tokens' = tokens \cup {token}
        /\ UNCHANGED <<sessionState, generation, era, capabilities, legacy_initialized, closed>>
    BY <1>8 DEF AllocateAndReserve
  <2> HIDE DEF token
  <2> QED BY <1>1, <2>1, <2>2 DEF TokensNumbered, PendingIsFenced
<1>9. ASSUME NEW token \in tokens, Reserve(token) PROVE LifecycleInv'
  BY <1>1, <1>9 DEF Reserve, TokensNumbered, PendingIsFenced
<1>10. ASSUME NEW token \in tokens, Complete(token) PROVE LifecycleInv'
  BY <1>1, <1>10 DEF Complete, TokensNumbered, PendingIsFenced
\* The connection goes, and what waited is handed back.
<1>11. CASE BeginClose BY <1>1, <1>11 DEF BeginClose, DrainPending, TokensNumbered, PendingIsFenced
<1>12. CASE FinishClose BY <1>1, <1>12 DEF FinishClose, ClearSession, TokensNumbered, PendingIsFenced
<1>13. CASE Disconnect BY <1>1, <1>13 DEF Disconnect, ClearSession, DrainPending, TokensNumbered, PendingIsFenced
<1>14. CASE SessionFails BY <1>1, <1>14 DEF SessionFails, ClearSession, DrainPending, TokensNumbered, PendingIsFenced
<1>15. CASE BeginReconnect
  BY <1>1, <1>15 DEF TokensNumbered, PendingIsFenced, BeginReconnect, DrainPending, BeginConnectInner
<1>16. CASE UNCHANGED lvars BY <1>1, <1>16 DEF lvars, TokensNumbered, PendingIsFenced
<1> QED
  BY <1>2, <1>3, <1>4, <1>5, <1>6, <1>7, <1>8, <1>9, <1>10, <1>11, <1>12, <1>13, <1>14, <1>15, <1>16 DEF LifecycleNext

\* A request waits only in the generation that sent it and while its connection
\* is up, and every token that was handed out waits or was handed back
\* (SessionLifecycle).
THEOREM RequestsAreFenced == LifecycleSpec => []PendingIsFenced
<1>1. LifecycleInit => LifecycleInv BY LifecycleInitInv
<1>2. LifecycleInv /\ [LifecycleNext]_lvars => LifecycleInv' BY LifecycleStep
<1>3. LifecycleInv => PendingIsFenced BY DEF LifecycleInv
<1> QED BY <1>1, <1>2, <1>3, PTL DEF LifecycleSpec

(***************************************************************************)
(* VaultKeys                                                               *)
(***************************************************************************)
HostSets == {{"public"}, {"public", "private"}}
SecretRow == [version : Nat, purpose : {"none", "provider", "mcp"},
              hosts : HostSets \cup {{}}]
Values == [purpose : {"none", "provider", "mcp"}, hosts : HostSets]
WriteTx == [pc : {"fence", "store"}, i : VaultServers, s : Secrets, value : Values]
StartTx == [pc : {"insert", "check"}, i : VaultServers, s : {0}, from : Nat]
RotateTx == [pc : {"lock"}, i : VaultServers, s : {0}, from : Nat, rows : SUBSET Secrets]
Transactions == {NoTx} \cup WriteTx \cup StartTx \cup RotateTx

VaultTypes ==
    /\ secret \in [Secrets -> SecretRow]
    /\ keyState \in Nat
    /\ stateLock \in VaultRequests \cup {"free"}
    /\ secretLock \in [Secrets -> VaultRequests \cup {"free"}]
    /\ vreq \in [VaultRequests -> Transactions]

\* What a transaction may rely on, given the row of vault_key_state with its
\* lock, and the secrets: the one that has the lock and is about to store has
\* the key of the row, and one that rotates has every secret under another key
\* in its rows.
TxFits(h, tx, lock, key, table) ==
    /\ tx.pc \in {"store", "check", "lock"} => lock = h
    /\ tx.pc = "store" => key \in {0, CurrentKey[tx.i]}
    /\ tx.pc \in {"fence", "store"} => MetadataOk(tx.value.purpose, tx.value.hosts)
    /\ tx.pc = "lock" =>
         \A s \in Secrets : table[s].version \in {0, CurrentKey[tx.i]} \/ s \in tx.rows

TransactionsFit == \A h \in VaultRequests : TxFits(h, vreq[h], stateLock, keyState, secret)

SecretsHold(table) ==
    \A s \in Secrets : /\ MetadataOk(table[s].purpose, table[s].hosts)
                       /\ table[s].purpose = "provider" => "public" \in table[s].hosts
OneKey(table, key) == key # 0 /\ \A s \in Secrets : table[s].version \in {0, key}

VaultInv ==
    /\ VaultTypes /\ TransactionsFit
    /\ SecretsHold(secret) /\ (rotated => OneKey(secret, keyState))

LEMMA VaultInitInv == VaultInit => VaultInv
<1> SUFFICES ASSUME VaultInit PROVE VaultInv OBVIOUS
<1> USE VaultAssumption
<1>1. PICK v \in {0} \cup {CurrentKey[i] : i \in VaultServers} :
        secret = [s \in Secrets |-> IF v # 0 /\ s = 1
                     THEN [version |-> v, purpose |-> "provider", hosts |-> {"public"}] ELSE NoSecret]
  BY DEF VaultInit
<1>2. VaultTypes BY <1>1 DEF VaultInit, VaultTypes, Transactions, SecretRow, HostSets, NoSecret
<1> QED BY <1>2, <1>1 DEF VaultInit, VaultInv, TransactionsFit, TxFits, NoTx, SecretsHold, MetadataOk, NoSecret

\* A transaction that goes on, or ends, and leaves the rows as they are.
LEMMA TxMoves ==
  ASSUME VaultInv, NEW h \in VaultRequests, NEW tx \in Transactions,
         vreq' = [vreq EXCEPT ![h] = tx], UNCHANGED <<secret, keyState, rotated>>,
         stateLock' \in VaultRequests \cup {"free"},
         \A g \in VaultRequests : g # h /\ stateLock = g => stateLock' = g,
         secretLock' \in [Secrets -> VaultRequests \cup {"free"}],
         TxFits(h, tx, stateLock', keyState, secret)
  PROVE  VaultInv'
<1>1. VaultTypes /\ TransactionsFit BY DEF VaultInv
<1>2. ASSUME NEW g \in VaultRequests PROVE TxFits(g, vreq'[g], stateLock', keyState', secret')
  <2>1. CASE g = h BY <1>1, <2>1 DEF VaultTypes
  <2>2. CASE g # h BY <2>2, <1>1 DEF TxFits, VaultTypes, TransactionsFit
  <2> QED BY <2>1, <2>2
<1> QED BY <1>1, <1>2 DEF VaultInv, VaultTypes, TransactionsFit

\* Of two transactions, at most one has the row of vault_key_state.
LEMMA ReleaseFacts ==
  ASSUME VaultInv, NEW h \in VaultRequests, Release(h)
  PROVE  /\ vreq' = [vreq EXCEPT ![h] = NoTx] /\ NoTx \in Transactions /\ NoTx.pc = "idle"
         /\ stateLock' \in VaultRequests \cup {"free"}
         /\ \A g \in VaultRequests : g # h /\ stateLock = g => stateLock' = g
         /\ secretLock' \in [Secrets -> VaultRequests \cup {"free"}]
  BY DEF Release, VaultTypes, VaultInv, Transactions, NoTx

LEMMA RollBackInv ==
  ASSUME VaultInv, NEW h \in VaultRequests, RollBack(h)
  PROVE  VaultInv'
  BY ReleaseFacts, TxMoves DEF TxFits, RollBack

\* A transaction that has the row of vault_key_state commits: no other relies
\* on that row.
LEMMA TxCommits ==
  ASSUME VaultInv, NEW h \in VaultRequests, Release(h), stateLock = h,
         secret' \in [Secrets -> SecretRow], keyState' \in Nat, SecretsHold(secret'),
         rotated' => OneKey(secret', keyState')
  PROVE  VaultInv'
<1>1. VaultTypes /\ TransactionsFit BY DEF VaultInv
<1>2. ASSUME NEW g \in VaultRequests PROVE TxFits(g, vreq'[g], stateLock', keyState', secret')
  <2>1. CASE g = h BY <1>1, <2>1, ReleaseFacts DEF TxFits, VaultTypes
  <2>2. CASE g # h BY <2>2, <1>1, ReleaseFacts DEF TxFits, VaultTypes, TransactionsFit
  <2> QED BY <2>1, <2>2
<1> QED BY <1>1, ReleaseFacts, <1>2 DEF VaultInv, VaultTypes, TransactionsFit

\* What the place of a transaction says of its fields.
LEMMA TxFields ==
  ASSUME VaultInv, NEW h \in VaultRequests
  PROVE  /\ vreq[h].pc \in {"fence", "store"} => vreq[h] \in WriteTx
         /\ vreq[h].pc \in {"insert", "check"} => vreq[h] \in StartTx
         /\ vreq[h].pc = "lock" => vreq[h] \in RotateTx
         /\ TxFits(h, vreq[h], stateLock, keyState, secret)
<1>1. NoTx.pc = "idle" BY DEF NoTx
<1>2. (\A tx \in WriteTx : tx.pc \in {"fence", "store"})
      /\ (\A tx \in StartTx : tx.pc \in {"insert", "check"})
      /\ (\A tx \in RotateTx : tx.pc = "lock") BY DEF WriteTx, StartTx, RotateTx
<1> QED BY <1>1, <1>2 DEF Transactions, VaultInv, VaultTypes, TransactionsFit

LEMMA CreateSecretInv ==
  ASSUME VaultInv, NEW h \in VaultRequests, NEW i \in VaultServers, NEW s \in Secrets,
         NEW in \in Inputs, CreateSecret(h, i, s, in)
  PROVE  VaultInv'
<1> DEFINE tx == [pc |-> "fence", i |-> i, s |-> s, value |-> in]
<1>1. vreq' = [vreq EXCEPT ![h] = tx] /\ UNCHANGED <<secret, keyState, rotated, stateLock, secretLock>>
      /\ MetadataOk(in.purpose, in.hosts) BY DEF CreateSecret, Begin, vlocks
<1>2. tx \in WriteTx /\ tx.pc = "fence" /\ tx.value = in BY DEF WriteTx, Inputs, Values, HostSets
<1> HIDE DEF tx
<1>3. TxFits(h, tx, stateLock', keyState, secret) BY <1>1, <1>2 DEF TxFits
<1> QED BY <1>1, <1>3, TxMoves, <1>2 DEF VaultTypes, VaultInv, Transactions

LEMMA ReplaceSecretInv ==
  ASSUME VaultInv, NEW h \in VaultRequests, NEW i \in VaultServers, NEW s \in Secrets,
         NEW in \in Inputs, ReplaceSecret(h, i, s, in.hosts)
  PROVE  VaultInv'
<1> DEFINE value == [purpose |-> secret[s].purpose, hosts |-> in.hosts]
           tx == [pc |-> "fence", i |-> i, s |-> s, value |-> value]
<1>1. VaultTypes BY DEF VaultInv
<1>2. /\ vreq' = [vreq EXCEPT ![h] = tx] /\ UNCHANGED <<secret, keyState, rotated, stateLock>>
      /\ MetadataOk(secret[s].purpose, in.hosts)
      /\ secretLock' = [secretLock EXCEPT ![s] = h] BY DEF ReplaceSecret, Begin
<1>3. value \in Values /\ value.purpose = secret[s].purpose /\ value.hosts = in.hosts
  BY <1>1 DEF Values, Inputs, HostSets, SecretRow, VaultTypes
<1> HIDE DEF value
<1>4. tx \in WriteTx /\ tx.pc = "fence" /\ tx.value = value BY <1>3 DEF WriteTx
<1> HIDE DEF tx
<1>5. secretLock' \in [Secrets -> VaultRequests \cup {"free"}] BY <1>1, <1>2 DEF VaultTypes
<1> QED BY <1>1, <1>2, <1>5, TxMoves, <1>4, <1>3 DEF VaultTypes, Transactions, TxFits

LEMMA FenceCurrentKeyInv ==
  ASSUME VaultInv, NEW h \in VaultRequests, FenceCurrentKey(h)
  PROVE  VaultInv'
<1>1. VaultTypes BY DEF VaultInv
<1>2. CASE RollBack(h) BY <1>2, RollBackInv
<1>3. CASE ~RollBack(h)
  <2> DEFINE tx == [vreq[h] EXCEPT !.pc = "store"]
  <2>1. /\ keyState \in {0, CurrentKey[vreq[h].i]} /\ stateLock = "free" /\ stateLock' = h
        /\ vreq[h].pc = "fence" /\ UNCHANGED <<secret, keyState, rotated, secretLock>>
        /\ vreq' = [vreq EXCEPT ![h] = tx] BY <1>1, <1>3 DEF FenceCurrentKey, StateFree, VaultTypes
  <2>2. vreq[h] \in WriteTx /\ MetadataOk(vreq[h].value.purpose, vreq[h].value.hosts) BY <2>1, TxFields DEF TxFits
  <2>3. tx \in WriteTx /\ tx.pc = "store" /\ tx.i = vreq[h].i /\ tx.value = vreq[h].value BY <2>2 DEF WriteTx
  <2> HIDE DEF tx
  <2> QED BY <1>1, <2>1, TxMoves, VaultAssumption, <2>3, <2>2 DEF VaultTypes, Transactions, TxFits
<1> QED BY <1>2, <1>3

LEMMA StoreSecretInv ==
  ASSUME VaultInv, NEW h \in VaultRequests, StoreSecret(h)
  PROVE  VaultInv'
<1> DEFINE tx == vreq[h]
           key == CurrentKey[tx.i]
           row == [version |-> key, purpose |-> tx.value.purpose, hosts |-> tx.value.hosts]
<1>1. VaultTypes /\ SecretsHold(secret) BY DEF VaultInv
<1>2. /\ tx.i \in VaultServers /\ tx.s \in Secrets /\ tx.value \in Values
      /\ MetadataOk(tx.value.purpose, tx.value.hosts) /\ stateLock = h /\ keyState \in {0, key}
  BY TxFields DEF WriteTx, TxFits, StoreSecret
<1>3. key \in Nat /\ key # 0 BY <1>2, VaultAssumption
<1>4. /\ secret' = [secret EXCEPT ![tx.s] = row] /\ Release(h) /\ rotated' = rotated
      /\ keyState' = key BY <1>2 DEF StoreSecret
<1>5. tx.value.purpose \in {"none", "provider", "mcp"} /\ tx.value.hosts \in HostSets BY <1>2 DEF Values
<1> HIDE DEF tx, key
<1>6. row \in SecretRow /\ row.version = key /\ row.purpose = tx.value.purpose
      /\ row.hosts = tx.value.hosts BY <1>3, <1>5 DEF SecretRow
<1> HIDE DEF row
<1>7. secret'[tx.s] = row /\ \A s \in Secrets : s # tx.s => secret'[s] = secret[s] BY <1>1, <1>2, <1>4 DEF VaultTypes
<1>8. rotated' => OneKey(secret', keyState')
  <2> SUFFICES ASSUME rotated PROVE OneKey(secret', keyState') BY <1>4
  <2> QED BY <1>3, <1>4, <1>6, <1>7, <1>2 DEF OneKey, VaultInv
<1> QED BY <1>2, <1>3, <1>4, <1>8, TxCommits, <1>1, <1>6, <1>5, <1>7 DEF VaultTypes, SecretsHold, HostSets

LEMMA DeleteSecretInv ==
  ASSUME VaultInv, NEW h \in VaultRequests, NEW s \in Secrets, DeleteSecret(h, s)
  PROVE  VaultInv'
<1>1. VaultTypes /\ TransactionsFit /\ SecretsHold(secret) /\ (rotated => OneKey(secret, keyState)) BY DEF VaultInv
<1>2. secret' = [secret EXCEPT ![s] = NoSecret]
      /\ UNCHANGED <<keyState, stateLock, secretLock, vreq, rotated>> BY DEF DeleteSecret, vlocks
<1>3. NoSecret \in SecretRow /\ NoSecret.version = 0 /\ NoSecret.purpose = "none" BY DEF NoSecret, SecretRow
<1>4. secret'[s] = NoSecret /\ \A t \in Secrets : t # s => secret'[t] = secret[t] BY <1>1, <1>2 DEF VaultTypes
<1>5. ASSUME NEW g \in VaultRequests PROVE TxFits(g, vreq'[g], stateLock', keyState', secret')
  BY <1>2, <1>3, <1>4, <1>1 DEF TxFits, TransactionsFit
<1>6. SecretsHold(secret') BY <1>1, <1>3, <1>4 DEF SecretsHold, MetadataOk
<1>7. rotated' => OneKey(secret', keyState') BY <1>1, <1>2, <1>3, <1>4 DEF OneKey
<1> QED BY <1>6, <1>7, <1>1, <1>2, <1>3, <1>5 DEF VaultInv, VaultTypes, TransactionsFit

\* The lowest version stands for a row that is missing.
LEMMA LowestVersion ==
  ASSUME VaultInv, Stored # {}
  PROVE  Lowest \in Nat
<1> DEFINE V == {secret[s].version : s \in Stored}
           R == OpToRel(<, Nat)
<1>1. V \in SUBSET Nat /\ V # {}
  <2>1. \A s \in Secrets : secret[s] \in SecretRow BY DEF VaultInv, VaultTypes
  <2> QED BY <2>1 DEF Stored, SecretRow
<1>2. IsWellFoundedOn(R, Nat) BY NatLessThanWellFounded
<1>3. \A x, y \in Nat : <<y, x>> \in R <=> y < x BY DEF OpToRel
<1> HIDE DEF R
<1>4. PICK v \in V : \A w \in V : ~(<<w, v>> \in R)
  <2> HIDE DEF V
  <2> QED BY <1>1, <1>2, WFMin
<1>5. \A s \in Stored : v <= secret[s].version
  <2>1. \A s \in Stored : secret[s].version \in V OBVIOUS
  <2> HIDE DEF V
  <2>2. v \in Nat /\ \A w \in V : w \in Nat BY <1>1, <1>4
  <2>3. \A w \in V : ~(w < v) BY <1>3, <1>4, <2>2
  <2>4. \A w \in V : v <= w BY <2>2, <2>3
  <2> QED BY <2>1, <2>4
<1> QED BY <1>1, <1>4, <1>5 DEF Lowest

LEMMA RotateSecretsInv ==
  ASSUME VaultInv, NEW h \in VaultRequests, NEW i \in VaultServers, RotateSecrets(h, i)
  PROVE  VaultInv'
<1> DEFINE from == IF keyState # 0 THEN keyState
                   ELSE IF Stored = {} THEN CurrentKey[i] ELSE Lowest
           pc == IF keyState = 0 THEN "insert" ELSE "check"
           tx == [pc |-> pc, i |-> i, s |-> 0, from |-> from]
<1>1. VaultTypes BY DEF VaultInv
<1>2. /\ vreq' = [vreq EXCEPT ![h] = tx] /\ UNCHANGED <<secret, keyState, rotated, secretLock>>
      /\ keyState = 0 \/ stateLock = "free"
      /\ stateLock' = IF keyState = 0 THEN stateLock ELSE h BY DEF RotateSecrets, Begin
<1>3. from \in Nat BY <1>1, LowestVersion, VaultAssumption DEF VaultTypes
<1>4. pc \in {"insert", "check"} /\ (pc = "check" => stateLock' = h) BY <1>2
<1> HIDE DEF from, pc
<1>5. tx \in StartTx /\ tx.pc = pc BY <1>3, <1>4 DEF StartTx
<1> HIDE DEF tx
<1>6. /\ stateLock' \in VaultRequests \cup {"free"}
      /\ \A g \in VaultRequests : g # h /\ stateLock = g => stateLock' = g
  BY <1>1, <1>2, VaultAssumption DEF VaultTypes
<1> QED BY <1>1, <1>2, <1>6, TxMoves, <1>5, <1>4 DEF VaultTypes, Transactions, TxFits

LEMMA InsertKeyStateInv ==
  ASSUME VaultInv, NEW h \in VaultRequests, InsertKeyState(h)
  PROVE  VaultInv'
<1>1. VaultTypes BY DEF VaultInv
<1>2. CASE RollBack(h) BY <1>2, RollBackInv
<1>3. CASE ~RollBack(h)
  <2> DEFINE tx == [vreq[h] EXCEPT !.pc = "check"]
  <2>1. /\ stateLock = "free" /\ stateLock' = h /\ vreq[h].pc = "insert"
        /\ UNCHANGED <<secret, keyState, rotated, secretLock>>
        /\ vreq' = [vreq EXCEPT ![h] = tx] BY <1>1, <1>3 DEF InsertKeyState, VaultTypes
  <2>2. tx \in StartTx /\ tx.pc = "check" BY <2>1, TxFields DEF StartTx
  <2> HIDE DEF tx
  <2> QED BY <1>1, <2>1, TxMoves, VaultAssumption, <2>2 DEF VaultTypes, Transactions, TxFits
<1> QED BY <1>2, <1>3

LEMMA SelectOldSecretsInv ==
  ASSUME VaultInv, NEW h \in VaultRequests, SelectOldSecrets(h)
  PROVE  VaultInv'
<1>1. VaultTypes BY DEF VaultInv
<1>2. CASE RollBack(h) BY <1>2, RollBackInv
<1>3. CASE ~RollBack(h)
  <2> DEFINE old == vreq[h]
             found == {s \in Stored : secret[s].version # CurrentKey[old.i]}
             tx == [pc |-> "lock", i |-> old.i, s |-> 0, from |-> old.from, rows |-> found]
  <2>1. /\ old.pc = "check" /\ UNCHANGED <<secret, keyState, rotated, secretLock, stateLock>>
        /\ vreq' = [vreq EXCEPT ![h] = tx] BY <1>1, <1>3 DEF SelectOldSecrets, VaultTypes, vlocks
  <2>2. old \in StartTx /\ stateLock = h BY <2>1, TxFields DEF TxFits
  <2>3. found \in SUBSET Secrets
        /\ \A s \in Secrets : secret[s].version \in {0, CurrentKey[old.i]} \/ s \in found BY DEF Stored
  <2> HIDE DEF old, found
  <2>4. tx \in RotateTx /\ tx.pc = "lock" /\ tx.i = old.i /\ tx.rows = found BY <2>3, <2>2 DEF RotateTx, StartTx
  <2> HIDE DEF tx
  <2> QED BY <1>1, <2>1, TxMoves, <2>4, <2>2, <2>3 DEF VaultTypes, Transactions, TxFits
<1> QED BY <1>2, <1>3

LEMMA LockOldSecretInv ==
  ASSUME VaultInv, NEW h \in VaultRequests, LockOldSecret(h)
  PROVE  VaultInv'
<1>1. VaultTypes BY DEF VaultInv
<1> DEFINE old == vreq[h]
<1>2. old.pc = "lock" BY DEF LockOldSecret
<1>3. old \in RotateTx /\ TxFits(h, old, stateLock, keyState, secret) BY <1>2, TxFields
<1>4. PICK s \in {r \in old.rows : secretLock[r] # h} :
        IF secret[s].version \in {0, CurrentKey[old.i]}
        THEN vreq' = [vreq EXCEPT ![h].rows = @ \ {s}]
             /\ UNCHANGED <<secret, keyState, vlocks, rotated, vaultOps>>
        ELSE IF CipherFor(old.i, secret[s].version)
        THEN secretLock' = [secretLock EXCEPT ![s] = h]
             /\ UNCHANGED <<secret, keyState, stateLock, vreq, rotated, vaultOps>>
        ELSE RollBack(h) BY DEF LockOldSecret
<1>5. CASE RollBack(h) BY <1>5, RollBackInv
<1>6. CASE /\ secret[s].version \in {0, CurrentKey[old.i]}
           /\ vreq' = [vreq EXCEPT ![h].rows = @ \ {s}]
           /\ UNCHANGED <<secret, keyState, vlocks, rotated, vaultOps>>
  <2> DEFINE tx == [old EXCEPT !.rows = @ \ {s}]
  <2>1. vreq' = [vreq EXCEPT ![h] = tx] /\ UNCHANGED <<secret, keyState, rotated, stateLock, secretLock>>
    BY <1>1, <1>6 DEF VaultTypes, vlocks
  <2> HIDE DEF old
  <2>2. tx \in RotateTx /\ tx.pc = "lock" /\ tx.i = old.i /\ tx.rows = old.rows \ {s} BY <1>3 DEF RotateTx
  <2> HIDE DEF tx
  <2> QED BY <1>1, <2>1, TxMoves, <2>2, <1>2, <1>3, <1>6 DEF VaultTypes, Transactions, TxFits
<1>7. CASE secretLock' = [secretLock EXCEPT ![s] = h]
           /\ UNCHANGED <<secret, keyState, stateLock, vreq, rotated, vaultOps>>
  <2>1. vreq' = [vreq EXCEPT ![h] = old] BY <1>1, <1>7 DEF VaultTypes
  <2>2. secretLock' \in [Secrets -> VaultRequests \cup {"free"}] BY <1>1, <1>7 DEF VaultTypes
  <2> HIDE DEF old
  <2> QED BY <1>1, <1>3, <1>7, <2>1, <2>2, TxMoves DEF VaultTypes, Transactions, RotateTx
<1> QED BY <1>4, <1>5, <1>6, <1>7

LEMMA RotationCommitInv ==
  ASSUME VaultInv, NEW h \in VaultRequests, RotationCommit(h)
  PROVE  VaultInv'
<1> DEFINE tx == vreq[h]
           key == CurrentKey[tx.i]
<1>1. VaultTypes /\ SecretsHold(secret) BY DEF VaultInv
<1>2. /\ tx.i \in VaultServers /\ stateLock = h
      /\ \A s \in Secrets : secret[s].version \in {0, key} \/ s \in tx.rows
  BY TxFields DEF RotateTx, TxFits, RotationCommit
<1>3. key \in Nat /\ key # 0 BY <1>2, VaultAssumption
<1>4. /\ secret' = [s \in Secrets |-> IF s \in tx.rows
                       THEN [secret[s] EXCEPT !.version = key] ELSE secret[s]]
      /\ keyState' = key /\ Release(h) /\ \A s \in tx.rows : secretLock[s] = h BY DEF RotationCommit
<1> HIDE DEF tx, key
<1>5. ASSUME NEW s \in Secrets
      PROVE  /\ secret'[s] \in SecretRow /\ secret'[s].purpose = secret[s].purpose
             /\ secret'[s].hosts = secret[s].hosts
             /\ secret'[s].version = IF s \in tx.rows THEN key ELSE secret[s].version
  BY <1>3, <1>1, <1>4 DEF SecretRow, VaultTypes
<1>6. SecretsHold(secret') BY <1>1, <1>5 DEF SecretsHold
<1> QED BY <1>2, <1>3, <1>4, <1>6, TxCommits, <1>5 DEF OneKey

LEMMA VaultStep ==
  ASSUME VaultInv, [VaultNext]_vvars
  PROVE  VaultInv'
<1>1. ASSUME NEW h \in VaultRequests, BreakDeadlock(h) PROVE VaultInv' BY <1>1, RollBackInv DEF BreakDeadlock
<1>2. CASE UNCHANGED vvars BY <1>2 DEF vvars, VaultInv, VaultTypes, TransactionsFit
<1> QED
  BY <1>1, <1>2, FenceCurrentKeyInv, StoreSecretInv, InsertKeyStateInv, SelectOldSecretsInv, LockOldSecretInv,
    RotationCommitInv, DeleteSecretInv, RotateSecretsInv, CreateSecretInv, ReplaceSecretInv DEF VaultNext

\* From the first rotation on every secret is under the key version that
\* vault_key_state names, although servers with the older key keep writing, and
\* an MCP secret keeps its one public host (fence_current_key, rotate_profile).
THEOREM OneKeyForAll == VaultSpec => []OneKeyAfterRotation
<1>1. VaultInit => VaultInv BY VaultInitInv
<1>2. VaultInv /\ [VaultNext]_vvars => VaultInv' BY VaultStep
<1>3. VaultInv => OneKeyAfterRotation
  <2> SUFFICES ASSUME VaultInv PROVE OneKeyAfterRotation OBVIOUS
  <2>1. SecretsHold(secret) /\ (rotated => OneKey(secret, keyState)) BY DEF VaultInv
  <2>2. rotated => \A s \in Stored : secret[s].version = keyState BY <2>1 DEF OneKey, Stored
  <2>3. ASSUME rotated, NEW i \in VaultServers, NEW s \in Stored, CipherFor(i, keyState),
               secret[s].purpose = "provider"
        PROVE  ReadableSecret(i, s, "public") BY <2>1, <2>2, <2>3 DEF ReadableSecret, SecretsHold, Stored
  <2> QED BY <2>2, <2>3, <2>1 DEF OneKeyAfterRotation, SecretsHold, Stored
<1> QED BY <1>1, <1>2, <1>3, PTL DEF VaultSpec

(***************************************************************************)
(* Conversations                                                           *)
(***************************************************************************)
BookTexts == Seq(ConvIds \X Nat)
ConvRow == [live : BOOLEAN, used : BOOLEAN, space : SpaceIds \cup {NoSpace},
            creator : ConvUsers \cup {"none"}, from : ConvIds \cup {NoConv}, at : Nat,
            copied : Nat]
RequestRow == [pc : {"idle", "delete_space", "create", "fork", "pin"},
               user : ConvUsers \cup {"none"}, conv : ConvIds \cup {NoConv},
               space : SpaceIds \cup {NoSpace}, at : Nat \cup ConvIds]

ConvTypes ==
    /\ DOMAIN space \subseteq SpaceIds
    /\ convo \in [ConvIds -> ConvRow]
    /\ texts \in [ConvIds -> BookTexts]
    /\ book \in [ConvIds -> [there : BOOLEAN, body : BookTexts]]
    /\ creq \in [ConvRequests -> RequestRow]

\* What the row lock of a fork in progress keeps true of its source: the row
\* is there, the boundary is one of its messages, and without a boundary there
\* is still no message.
LocksSource(request) ==
    request.pc = "fork" =>
      /\ request.conv \in ConvIds /\ convo[request.conv].used
      /\ request.at \in Nat /\ request.at <= Len(texts[request.conv])
      /\ request.at = 0 => texts[request.conv] = <<>>

\* A row of a fork against the row it was copied from
CopiesOrigin(row, copy) ==
    row.from # NoConv =>
      /\ row.copied = row.at /\ row.at <= Len(copy)
      /\ row.from \in ConvIds /\ convo[row.from].used
      /\ row.at <= Len(texts[row.from])
      /\ \A i \in 1..row.at : copy[i] = texts[row.from][i]

ConvRowFits(c) ==
    /\ convo[c].live => convo[c].used
    /\ CopiesOrigin(convo[c], texts[c])
    /\ book[c].there => book[c].body = texts[c]

ConvInv ==
    /\ ConvTypes
    /\ \A q \in ConvRequests : LocksSource(creq[q])
    /\ \A c \in ConvIds : ConvRowFits(c)

\* The first messages of a conversation, as fork_conversation selects them
LEMMA FirstMessages ==
  ASSUME NEW s \in BookTexts, NEW n \in Nat, n <= Len(s)
  PROVE  /\ SubSeq(s, 1, n) \in BookTexts /\ Len(SubSeq(s, 1, n)) = n
         /\ \A i \in 1..n : SubSeq(s, 1, n)[i] = s[i]
<1>1. s \in Seq(ConvIds \X Nat) BY DEF BookTexts
<1>2. 1 \in Int /\ n \in Int OBVIOUS
<1>3. /\ SubSeq(s, 1, n) \in Seq(ConvIds \X Nat)
      /\ Len(SubSeq(s, 1, n)) = IF 1 <= n THEN n - 1 + 1 ELSE 0
      /\ \A i \in 1..(n - 1 + 1) : SubSeq(s, 1, n)[i] = s[1 + i - 1]
  BY <1>2, SubSeqProperties, <1>1, ElementOfSeq, LenProperties
<1> QED BY <1>3 DEF BookTexts

LEMMA IdleFits == IdleRequest \in RequestRow /\ IdleRequest.pc # "fork"
  BY DEF IdleRequest, RequestRow, NoConv, NoSpace

LEMMA ConvInitInv == ConversationsInit => ConvInv
<1> SUFFICES ASSUME ConversationsInit PROVE ConvInv OBVIOUS
<1>1. NoConvRow \in ConvRow /\ ~NoConvRow.live /\ NoConvRow.from = NoConv BY DEF NoConvRow, ConvRow, NoSpace, NoConv
<1>2. NoBookRow \in [there : BOOLEAN, body : BookTexts] /\ ~NoBookRow.there BY EmptySeq DEF NoBookRow, BookTexts
<1>3. \A q \in ConvRequests : LocksSource(creq[q]) BY IdleFits DEF ConversationsInit, LocksSource
<1> QED
  BY <1>3, <1>1, <1>2, IdleFits, EmptySeq DEF ConvInv, ConversationsInit, ConvRowFits, CopiesOrigin, ConvTypes,
    BookTexts

\* Handlers that touch no conversation: workspaces, memberships, pins
LEMMA ConversationsStay ==
  ASSUME ConvInv, DOMAIN space' \subseteq SpaceIds, UNCHANGED <<convo, texts, book, creq>>
  PROVE  ConvInv'
<1>1. \A c \in ConvIds : ConvRowFits(c)' BY DEF ConvInv, ConvRowFits, CopiesOrigin
<1> QED BY <1>1 DEF ConvInv, ConvTypes, LocksSource

\* Handlers that only go on to their next statement
LEMMA RequestGoesOn ==
  ASSUME ConvInv, DOMAIN space' \subseteq SpaceIds, UNCHANGED <<convo, texts, book>>,
         NEW q \in ConvRequests, NEW row \in RequestRow, LocksSource(row),
         creq' = [creq EXCEPT ![q] = row]
  PROVE  ConvInv'
<1>1. creq' \in [ConvRequests -> RequestRow]
      /\ \A p \in ConvRequests : creq'[p] = IF p = q THEN row ELSE creq[p] BY DEF ConvInv, ConvTypes
<1>2. ASSUME NEW p \in ConvRequests PROVE LocksSource(creq[p])'
  <2>1. CASE p = q BY <2>1, <1>1 DEF LocksSource
  <2>2. CASE p # q BY <2>2, <1>1 DEF LocksSource, ConvInv
  <2> QED BY <2>1, <2>2
<1> QED BY <1>2, <1>1 DEF ConvInv, ConvTypes, ConvRowFits, CopiesOrigin

LEMMA RequestEnds ==
  ASSUME ConvInv, DOMAIN space' \subseteq SpaceIds, UNCHANGED <<convo, texts, book>>,
         NEW q \in ConvRequests, Answer(q)
  PROVE  ConvInv'
  BY IdleFits, RequestGoesOn DEF Answer, LocksSource

\* A new row, of create_conversation or fork_conversation, with its messages
\* and its book: no other row has its id, so nothing refers to it yet
LEMMA Inserted ==
  ASSUME ConvInv, NEW q \in ConvRequests, NEW c \in ConvIds, Answer(q),
         NEW user \in ConvUsers \cup {"none"}, NEW w \in SpaceIds \cup {NoSpace},
         NEW from \in ConvIds \cup {NoConv}, NEW at \in Nat, NEW copy \in BookTexts,
         InsertConversation(c, user, w, from, at, copy), UNCHANGED space,
         book' = [book EXCEPT ![c] = [there |-> TRUE, body |-> copy]],
         from # NoConv => /\ Len(copy) = at
                          /\ from \in ConvIds /\ convo[from].used
                          /\ at <= Len(texts[from])
                          /\ \A i \in 1..at : copy[i] = texts[from][i]
  PROVE  ConvInv'
<1>1. ConvTypes BY DEF ConvInv
<1> DEFINE row == [live |-> TRUE, used |-> TRUE, space |-> w, creator |-> user,
                   from |-> from, at |-> at, copied |-> Len(copy)]
           leaf == [there |-> TRUE, body |-> copy]
<1>2. /\ ~convo[c].used /\ convo' = [convo EXCEPT ![c] = row]
      /\ texts' = [texts EXCEPT ![c] = copy] /\ book' = [book EXCEPT ![c] = leaf] BY DEF InsertConversation
<1>3. Len(copy) \in Nat BY LenProperties DEF BookTexts
<1>4. /\ row \in ConvRow /\ row.live /\ row.used /\ row.from = from /\ row.at = at
      /\ row.copied = Len(copy) BY <1>3 DEF ConvRow
<1>5. leaf \in [there : BOOLEAN, body : BookTexts] /\ leaf.body = copy OBVIOUS
<1> HIDE DEF row, leaf
<1>6. creq' \in [ConvRequests -> RequestRow]
      /\ \A p \in ConvRequests : creq'[p] = IF p = q THEN IdleRequest ELSE creq[p]
  BY <1>1, IdleFits DEF ConvTypes, Answer
<1>7. \A d \in ConvIds : d # c => /\ convo'[d] = convo[d] /\ texts'[d] = texts[d]
                                  /\ book'[d] = book[d] BY <1>1, <1>2 DEF ConvTypes
<1>8. ASSUME NEW p \in ConvRequests PROVE LocksSource(creq[p])'
  <2>1. CASE p = q BY <2>1, <1>6, IdleFits DEF LocksSource
  <2>2. CASE p # q BY <2>2, <1>2, <1>6, <1>7 DEF LocksSource, ConvInv
  <2> QED BY <2>1, <2>2
<1>9. ASSUME NEW d \in ConvIds PROVE ConvRowFits(d)'
  <2>1. CASE d # c BY <2>1, <1>7, <1>2 DEF ConvRowFits, CopiesOrigin, ConvInv
  <2>2. CASE d = c BY <2>2, <1>4, <1>5, <1>1, <1>2, <1>3, <1>7 DEF ConvRowFits, ConvTypes, CopiesOrigin
  <2> QED BY <2>1, <2>2
<1> QED BY <1>8, <1>9, <1>1, <1>6, <1>2, <1>4, <1>5 DEF ConvInv, ConvTypes

LEMMA CreateConversationInv ==
  ASSUME ConvInv, NEW q \in ConvRequests, NEW c \in ConvIds, CreateConversation(q, c)
  PROVE  ConvInv'
<1>1. /\ InsertConversation(c, creq[q].user, creq[q].space, NoConv, 0, <<>>)
      /\ book' = [book EXCEPT ![c] = [there |-> TRUE, body |-> <<>>]]
      /\ Answer(q) /\ UNCHANGED space BY DEF CreateConversation
<1> QED BY <1>1, Inserted, EmptySeq DEF BookTexts, RequestRow, ConvInv, ConvTypes

LEMMA ForkConversationInv ==
  ASSUME ConvInv, NEW q \in ConvRequests, NEW c \in ConvIds, ForkConversation(q, c)
  PROVE  ConvInv'
<1> DEFINE source == creq[q].conv
           at == creq[q].at
           copy == Copied(source, at)
<1>1. ConvTypes /\ LocksSource(creq[q]) BY DEF ConvInv
<1>2. creq[q] \in RequestRow /\ creq[q].pc = "fork" BY <1>1 DEF ConvTypes, ForkConversation
<1>3. /\ source \in ConvIds /\ convo[source].used /\ at \in Nat /\ at <= Len(texts[source])
      /\ at = 0 => texts[source] = <<>> BY <1>1, <1>2 DEF LocksSource
<1>4. convo[source] \in ConvRow /\ texts[source] \in BookTexts BY <1>1, <1>3 DEF ConvTypes
<1>5. /\ InsertConversation(c, creq[q].user, convo[source].space, source, at, copy)
      /\ book' = [book EXCEPT ![c] = [there |-> TRUE, body |-> texts'[c]]]
      /\ Answer(q) /\ UNCHANGED space BY DEF ForkConversation, RebuildProjection
<1>6. copy \in BookTexts /\ Len(copy) = at /\ \A i \in 1..at : copy[i] = texts[source][i]
  <2>1. CASE at = 0 BY <2>1, <1>4, <1>3, EmptySeq DEF Copied
  <2>2. CASE at # 0 BY <1>3, <1>4, FirstMessages, <2>2 DEF Copied
  <2> QED BY <2>1, <2>2
<1> HIDE DEF source, at, copy
<1>7. book' = [book EXCEPT ![c] = [there |-> TRUE, body |-> copy]] BY <1>5, <1>1 DEF InsertConversation, ConvTypes
<1>8. source \in ConvIds \cup {NoConv} BY <1>3
<1> QED BY <1>3, <1>5, <1>6, <1>7, <1>8, Inserted, <1>2, <1>4 DEF RequestRow, ConvRow

LEMMA BeginForkInv ==
  ASSUME ConvInv, NEW q \in ConvRequests, NEW u \in ConvUsers, NEW c \in ConvIds,
         NEW at \in 0..MaxConvMessages, BeginFork(q, u, c, at)
  PROVE  ConvInv'
<1> DEFINE row == [IdleRequest EXCEPT !.pc = "fork", !.user = u, !.conv = c, !.at = at]
<1>1. ConvTypes /\ ConvRowFits(c) BY DEF ConvInv
<1>2. /\ creq' = [creq EXCEPT ![q] = row] /\ UNCHANGED <<space, convo, texts, book>>
      /\ convo[c].live /\ (at \in 1..Len(texts[c]) \/ (at = 0 /\ texts[c] = <<>>)) BY DEF BeginFork, Wait, Reaches
<1>3. at \in Nat /\ at <= Len(texts[c]) /\ (at = 0 => texts[c] = <<>>)
  BY <1>2, EmptySeq, <1>1, LenProperties DEF ConvTypes, BookTexts
<1>4. row \in RequestRow /\ row.pc = "fork" /\ row.conv = c /\ row.at = at BY <1>3, IdleFits DEF RequestRow
<1> HIDE DEF row
<1> QED BY <1>2, <1>4, RequestGoesOn, <1>1, <1>3 DEF ConvTypes, LocksSource, ConvRowFits, BeginFork, Reaches

\* append_message: a source that a fork has locked is not appended to, and what
\* was copied before stays the beginning of what is there
LEMMA AppendTextInv ==
  ASSUME ConvInv, NEW q \in ConvRequests, NEW u \in ConvUsers, NEW c \in ConvIds,
         AppendText(q, u, c)
  PROVE  ConvInv'
<1> DEFINE n == Len(texts[c]) + 1
           longer == Append(texts[c], <<c, n>>)
<1>1. ConvTypes BY DEF ConvInv
<1>2. /\ texts' = [texts EXCEPT ![c] = longer] /\ ConversationFree(c)
      /\ book' = [book EXCEPT ![c].body = texts'[c]] /\ UNCHANGED <<space, convo, creq>>
  BY <1>1 DEF AppendText, RebuildProjection, ConvTypes
<1>3. texts[c] \in Seq(ConvIds \X Nat) BY <1>1 DEF ConvTypes, BookTexts
<1>4. Len(texts[c]) \in Nat /\ n \in Nat BY <1>3, LenProperties
<1>5. /\ longer \in BookTexts /\ Len(longer) = n
      /\ \A i \in 1..Len(texts[c]) : longer[i] = texts[c][i] BY <1>3, AppendProperties, <1>4 DEF BookTexts
<1> HIDE DEF longer
<1>6. texts'[c] = longer /\ \A d \in ConvIds : d # c => texts'[d] = texts[d] BY <1>1, <1>2 DEF ConvTypes
<1>7. PICK leaf \in [there : BOOLEAN, body : BookTexts] :
        leaf.there = book[c].there /\ leaf.body = longer /\ book' = [book EXCEPT ![c] = leaf]
  <2>1. book' = [book EXCEPT ![c] = [book[c] EXCEPT !.body = longer]] BY <1>1, <1>2, <1>6 DEF ConvTypes
  <2> QED BY <2>1, <1>5, <1>1 DEF ConvTypes
<1>8. ASSUME NEW p \in ConvRequests PROVE LocksSource(creq[p])'
  BY <1>2, <1>6 DEF LocksSource, ConvInv, ConversationFree
<1>9. ASSUME NEW d \in ConvIds PROVE ConvRowFits(d)'
  <2>1. ConvRowFits(d) /\ convo[d] \in ConvRow BY <1>1 DEF ConvInv, ConvTypes
  <2>2. ASSUME NEW e \in ConvIds
        PROVE  /\ \A i \in 1..Len(texts[e]) : texts'[e][i] = texts[e][i]
               /\ Len(texts[e]) \in Nat /\ Len(texts'[e]) \in Nat
               /\ Len(texts[e]) <= Len(texts'[e])
    <3>1. Len(texts[e]) \in Nat BY <1>1, LenProperties DEF ConvTypes, BookTexts
    <3>2. CASE e = c BY <3>2, <1>4, <1>5, <1>6
    <3>3. CASE e # c BY <3>1, <3>3, <1>6
    <3> QED BY <3>2, <3>3
  <2>3. CopiesOrigin(convo[d], texts[d])'
    <3>1. CASE convo[d].from = NoConv BY <3>1, <1>2 DEF CopiesOrigin
    <3>2. CASE convo[d].from # NoConv
      <4> DEFINE from == convo[d].from
                 at == convo[d].at
      <4>1. /\ convo[d].copied = at /\ at <= Len(texts[d]) /\ from \in ConvIds
            /\ convo[from].used /\ at <= Len(texts[from]) /\ at \in Nat
            /\ \A i \in 1..at : texts[d][i] = texts[from][i] BY <2>1, <3>2 DEF ConvRowFits, CopiesOrigin, ConvRow
      <4>2. \A i \in 1..at : texts'[d][i] = texts'[from][i] BY <4>1, <2>2, SMTT(40)
      <4> QED BY <4>1, <4>2, <1>2, <2>2 DEF CopiesOrigin
    <3> QED BY <3>1, <3>2
  <2> QED BY <2>1, <2>3, <1>2, <1>6, <1>7, <1>1 DEF ConvRowFits, ConvTypes
<1> QED BY <1>8, <1>9, <1>1, <1>2, <1>5, <1>7 DEF ConvInv, ConvTypes

\* delete_conversation: forks of the row keep their messages and forget where
\* they began, and a fork in progress keeps its source from being deleted
LEMMA DeleteConversationInv ==
  ASSUME ConvInv, NEW q \in ConvRequests, NEW u \in ConvUsers, NEW c \in ConvIds,
         DeleteConversation(q, u, c)
  PROVE  ConvInv'
<1>1. ConvTypes BY DEF ConvInv
<1>2. /\ convo' = [d \in ConvIds |->
            IF d = c THEN [NoConvRow EXCEPT !.used = TRUE]
            ELSE IF convo[d].from = c THEN [convo[d] EXCEPT !.from = NoConv, !.at = 0]
            ELSE convo[d]]
      /\ texts' = [texts EXCEPT ![c] = <<>>] /\ book' = [book EXCEPT ![c] = NoBookRow]
      /\ UNCHANGED <<space, creq>> /\ ConversationFree(c) BY DEF DeleteConversation
<1>3. <<>> \in BookTexts BY EmptySeq DEF BookTexts
<1>4. NoBookRow \in [there : BOOLEAN, body : BookTexts] /\ ~NoBookRow.there BY <1>3 DEF NoBookRow
<1>5. convo'[c] \in ConvRow /\ convo'[c].used /\ convo'[c].from = NoConv
  <2> DEFINE row == [NoConvRow EXCEPT !.used = TRUE]
  <2> QED BY <1>2 DEF ConvRow, NoConvRow, NoSpace, NoConv
<1>6. ASSUME NEW d \in ConvIds, d # c
      PROVE  /\ convo'[d] \in ConvRow /\ convo'[d].used = convo[d].used
             /\ convo'[d].live = convo[d].live
             /\ \/ convo'[d].from = NoConv
                \/ convo'[d] = convo[d] /\ convo[d].from # c
  <2>1. convo[d] \in ConvRow BY <1>1 DEF ConvTypes
  <2>2. CASE convo[d].from = c
    <3> DEFINE row == [convo[d] EXCEPT !.from = NoConv, !.at = 0]
    <3> QED BY <1>2, <1>6, <2>2, <2>1 DEF ConvRow
  <2>3. CASE convo[d].from # c BY <1>2, <1>6, <2>1, <2>3
  <2> QED BY <2>2, <2>3
<1>7. \A d \in ConvIds : d # c => texts'[d] = texts[d] /\ book'[d] = book[d] BY <1>1, <1>2 DEF ConvTypes
<1>8. ASSUME NEW p \in ConvRequests PROVE LocksSource(creq[p])'
  <2>1. LocksSource(creq[p]) /\ (creq[p].pc = "fork" => creq[p].conv # c) BY <1>2 DEF ConvInv, ConversationFree
  <2>2. creq'[p] = creq[p] BY <1>2
  <2>3. CASE creq[p].pc # "fork" BY <2>2, <2>3 DEF LocksSource
  <2>4. CASE creq[p].pc = "fork"
    <3> DEFINE source == creq[p].conv
    <3> QED BY <2>1, <2>2, <2>4, <1>6, <1>7 DEF LocksSource
  <2> QED BY <2>3, <2>4
<1>9. ASSUME NEW d \in ConvIds PROVE ConvRowFits(d)'
  <2>1. ConvRowFits(d) BY DEF ConvInv
  <2>2. CASE d = c BY <2>2, <1>4, <1>5, <1>1, <1>2 DEF ConvRowFits, CopiesOrigin, ConvTypes
  <2>3. CASE d # c
    <3>1. CopiesOrigin(convo[d], texts[d])'
      <4>1. CASE convo'[d].from = NoConv BY <4>1 DEF CopiesOrigin
      <4>2. CASE convo'[d] = convo[d] /\ convo[d].from # c /\ convo[d].from # NoConv
        BY <2>1, <4>2, <2>3, <1>6, <1>7 DEF ConvRowFits, CopiesOrigin
      <4> QED BY <4>1, <4>2, <1>6, <2>3
    <3> QED BY <2>1, <2>3, <3>1, <1>6, <1>7 DEF ConvRowFits
  <2> QED BY <2>2, <2>3
<1> QED BY <1>8, <1>9, <1>1, <1>2, <1>3, <1>4, <1>5, <1>6 DEF ConvInv, ConvTypes

\* delete_workspace: its conversations stay, without a workspace and a book
LEMMA DeleteWorkspaceInv ==
  ASSUME ConvInv, NEW q \in ConvRequests, DeleteWorkspace(q)
  PROVE  ConvInv'
<1>1. ConvTypes BY DEF ConvInv
<1>2. PICK w \in SpaceIds \cup {NoSpace}, orphans \in SUBSET ConvIds :
        /\ space' = [v \in DOMAIN space \ {w} |-> space[v]]
        /\ convo' = [c \in ConvIds |-> IF c \in orphans THEN [convo[c] EXCEPT !.space = NoSpace]
                                       ELSE convo[c]]
        /\ book' = [c \in ConvIds |-> IF c \in orphans THEN NoBookRow ELSE book[c]]
  <2> DEFINE w == creq[q].space
             orphans == {c \in ConvIds : convo[c].live /\ convo[c].space = w}
  <2> QED BY <1>1 DEF DeleteWorkspace, RequestRow, ConvTypes
<1>3. Answer(q) /\ UNCHANGED texts BY DEF DeleteWorkspace
<1>4. NoBookRow \in [there : BOOLEAN, body : BookTexts] /\ ~NoBookRow.there BY EmptySeq DEF NoBookRow, BookTexts
<1>5. ASSUME NEW c \in ConvIds
      PROVE  /\ convo'[c] \in ConvRow /\ convo'[c].live = convo[c].live
             /\ convo'[c].used = convo[c].used /\ convo'[c].from = convo[c].from
             /\ convo'[c].at = convo[c].at /\ convo'[c].copied = convo[c].copied
  <2> DEFINE row == [convo[c] EXCEPT !.space = NoSpace]
  <2>1. convo[c] \in ConvRow BY <1>1 DEF ConvTypes
  <2>2. /\ row \in ConvRow /\ row.live = convo[c].live /\ row.used = convo[c].used
        /\ row.from = convo[c].from /\ row.at = convo[c].at /\ row.copied = convo[c].copied BY <2>1 DEF ConvRow
  <2>3. convo'[c] = row \/ convo'[c] = convo[c] BY <1>2
  <2> HIDE DEF row
  <2> QED BY <2>1, <2>2, <2>3
<1>6. creq' \in [ConvRequests -> RequestRow]
      /\ \A p \in ConvRequests : creq'[p] = IF p = q THEN IdleRequest ELSE creq[p]
  BY <1>1, <1>3, IdleFits DEF ConvTypes, Answer
<1>7. ConvTypes' BY <1>1, <1>2, <1>3, <1>6, <1>5, <1>4 DEF ConvTypes
<1>8. ASSUME NEW p \in ConvRequests PROVE LocksSource(creq[p])'
  <2>1. CASE p = q BY <2>1, <1>6, IdleFits DEF LocksSource
  <2>2. CASE p # q BY <2>2, <1>3, <1>5, <1>6 DEF LocksSource, ConvInv
  <2> QED BY <2>1, <2>2
<1>9. ASSUME NEW c \in ConvIds PROVE ConvRowFits(c)'
  <2>1. ConvRowFits(c) BY DEF ConvInv
  <2> QED BY <2>1, <1>3, <1>4, <1>5, <1>2 DEF ConvRowFits, CopiesOrigin
<1> QED BY <1>7, <1>8, <1>9 DEF ConvInv

\* The first statements of delete_workspace, create_conversation and pin_book
LEMMA ChecksInv ==
  ASSUME ConvInv, NEW q \in ConvRequests, NEW u \in ConvUsers,
         \/ \E w \in SpaceIds : CountConversations(q, u, w)
         \/ \E w \in SpaceIds \cup {NoSpace} : CheckCreate(q, u, w)
         \/ \E c \in ConvIds, b \in ConvIds : CheckPin(q, u, c, b)
  PROVE  ConvInv'
<1>1. ConvTypes BY DEF ConvInv
<1>2. ASSUME NEW w \in SpaceIds, CountConversations(q, u, w) PROVE ConvInv'
  <2> DEFINE row == [IdleRequest EXCEPT !.pc = "delete_space", !.space = w]
  <2>1. creq' = [creq EXCEPT ![q] = row] /\ UNCHANGED <<space, convo, texts, book>>
    BY <1>2 DEF CountConversations, Wait
  <2>2. row \in RequestRow /\ row.pc # "fork" BY IdleFits DEF RequestRow
  <2> HIDE DEF row
  <2> QED BY <2>1, <2>2, RequestGoesOn, <1>1 DEF LocksSource, ConvTypes
<1>3. ASSUME NEW w \in SpaceIds \cup {NoSpace}, CheckCreate(q, u, w) PROVE ConvInv'
  <2> DEFINE row == [IdleRequest EXCEPT !.pc = "create", !.user = u, !.space = w]
  <2>1. creq' = [creq EXCEPT ![q] = row] /\ UNCHANGED <<space, convo, texts, book>> BY <1>3 DEF CheckCreate, Wait
  <2>2. row \in RequestRow /\ row.pc # "fork" BY IdleFits DEF RequestRow
  <2> HIDE DEF row
  <2> QED BY <2>1, <2>2, RequestGoesOn, <1>1 DEF LocksSource, ConvTypes
<1>4. ASSUME NEW c \in ConvIds, NEW b \in ConvIds, CheckPin(q, u, c, b) PROVE ConvInv'
  <2> DEFINE row == [IdleRequest EXCEPT !.pc = "pin", !.conv = c, !.at = b]
  <2>1. creq' = [creq EXCEPT ![q] = row] /\ UNCHANGED <<space, convo, texts, book>> BY <1>4 DEF CheckPin, Wait
  <2>2. row \in RequestRow /\ row.pc # "fork" BY IdleFits DEF RequestRow
  <2> HIDE DEF row
  <2> QED BY <2>1, <2>2, RequestGoesOn, <1>1 DEF LocksSource, ConvTypes
<1> QED BY <1>2, <1>3, <1>4

LEMMA ConversationsStep ==
  ASSUME ConvInv, [ConversationsNext]_cvars
  PROVE  ConvInv'
<1>1. ConvTypes /\ DOMAIN space \subseteq SpaceIds BY DEF ConvInv, ConvTypes
<1>2. CASE UNCHANGED cvars BY <1>1, <1>2, ConversationsStay DEF cvars
<1>3. ASSUME NEW q \in ConvRequests, CreateRefused(q) \/ ForkFails(q) \/ PinBook(q)
      PROVE  ConvInv' BY <1>1, RequestEnds, <1>3 DEF CreateRefused, ForkFails, PinBook
<1>4. ASSUME NEW q \in ConvRequests, NEW u \in ConvUsers, NEW w \in SpaceIds,
             CreateWorkspace(q, u, w) \/ \E d \in {"", "d"} : UpdateWorkspace(q, u, w, d)
      PROVE  ConvInv'
  <2>1. UNCHANGED <<convo, texts, book, creq>> BY <1>4 DEF CreateWorkspace, UpdateWorkspace
  <2>2. CASE CreateWorkspace(q, u, w) BY <1>1, <2>1, ConversationsStay, <2>2 DEF CreateWorkspace
  <2>3. ASSUME NEW d \in {"", "d"}, UpdateWorkspace(q, u, w, d) PROVE ConvInv'
    BY <1>1, <2>1, ConversationsStay, <2>3 DEF UpdateWorkspace
  <2> QED BY <1>4, <2>2, <2>3
<1>5. ASSUME NEW q \in ConvRequests, NEW u \in ConvUsers, NEW c \in ConvIds, NEW b \in ConvIds,
             UnpinBook(q, u, c, b)
      PROVE  ConvInv' BY <1>1, ConversationsStay, <1>5 DEF UnpinBook
<1>6. ASSUME NEW w \in SpaceIds, NEW u \in ConvUsers, NEW level \in {"none", "VIEWER"},
             EditMember(w, u, level)
      PROVE  ConvInv' BY <1>1, ConversationsStay, <1>6 DEF EditMember
<1> QED
  BY <1>2, <1>3, <1>4, <1>5, <1>6, DeleteWorkspaceInv, CreateConversationInv, ForkConversationInv, ChecksInv,
    AppendTextInv, DeleteConversationInv, BeginForkInv DEF ConversationsNext

\* A fork has the messages of its source up to the one it names and no other,
\* whatever is appended to the source, deleted or moved between the statements
\* of fork_conversation and afterwards; and the library's book of a
\* conversation holds what the conversation holds (append_message).
THEOREM ForksAreCopies == ConversationsSpec => []ForkIsPrefix
<1>1. ConversationsInit => ConvInv BY ConvInitInv
<1>2. ConvInv /\ [ConversationsNext]_cvars => ConvInv' BY ConversationsStep
<1>3. ConvInv => ForkIsPrefix
  <2> SUFFICES ASSUME ConvInv, NEW c \in ConvIds, convo[c].from # NoConv
               PROVE  /\ convo[c].copied = convo[c].at
                      /\ SubSeq(texts[c], 1, convo[c].at)
                           = SubSeq(texts[convo[c].from], 1, convo[c].at) BY DEF ForkIsPrefix, ConvInv, ConvRowFits
  <2> DEFINE from == convo[c].from
             at == convo[c].at
  <2>1. ConvTypes /\ convo[c] \in ConvRow BY DEF ConvInv, ConvTypes
  <2>2. /\ convo[c].copied = at /\ at <= Len(texts[c]) /\ from \in ConvIds /\ at \in Nat
        /\ at <= Len(texts[from]) /\ \A i \in 1..at : texts[c][i] = texts[from][i]
    BY <2>1 DEF ConvInv, ConvRowFits, CopiesOrigin, ConvRow
  <2>3. texts[c] \in BookTexts /\ texts[from] \in BookTexts BY <2>1, <2>2 DEF ConvTypes
  <2> HIDE DEF from, at
  <2>4. /\ SubSeq(texts[from], 1, at) \in BookTexts /\ Len(SubSeq(texts[from], 1, at)) = at
        /\ \A i \in 1..at : SubSeq(texts[from], 1, at)[i] = texts[from][i] BY <2>2, <2>3, FirstMessages
  <2>5. SubSeq(texts[c], 1, at) = SubSeq(texts[from], 1, at)
    BY <2>4, SeqEqual, <2>2, <2>3, FirstMessages DEF BookTexts
  <2> QED BY <2>2, <2>5 DEF from, at
<1> QED BY <1>1, <1>2, <1>3, PTL DEF ConversationsSpec

(***************************************************************************)
(* TaskBoard                                                               *)
(***************************************************************************)
MoveKinds == {"TASK_CREATED", "TASK_STATE_CHANGED"}
TreeKinds == {"WORKTREE_CREATED", "WORKTREE_DELETED"}
EventKinds == MoveKinds \cup TreeKinds \cup {"TASK_UPDATED", "HUMAN_NOTE", "FILES_CHANGED"}

RowState == TaskStates \cup {"none"}
TreeState == {"none", "clean", "changed"}
LedgerEvent == [id : Nat, board : Boards, t : BoardTasks, kind : EventKinds, to : RowState]
EffectType == [ok : BOOLEAN, state : RowState, tree : TreeState, after : SUBSET BoardTasks,
               kinds : Seq(EventKinds)]
TaskOp == UNION {TaskOps(t) : t \in BoardTasks}

LockTx == [pc : {"lock", "write"}, op : TaskOp]
CommitTx == [pc : {"commit"}, op : TaskOp, eff : EffectType, events : SUBSET LedgerEvent]

RowTypes ==
    /\ task \in [BoardTasks -> RowState] /\ tree \in [BoardTasks -> TreeState]
    /\ depends \in [BoardTasks -> SUBSET BoardTasks]

\* What a handler writes to the row of its task and to the ledger belong
\* together: an event of each sort at most, and each tells what happens.
Tells(t, eff) ==
    LET Says(tag) == \E i \in DOMAIN eff.kinds : eff.kinds[i] = tag IN
    /\ eff \in EffectType
    /\ \A i, j \in DOMAIN eff.kinds :
          \/ eff.kinds[i] \in MoveKinds /\ eff.kinds[j] \in MoveKinds
          \/ eff.kinds[i] \in TreeKinds /\ eff.kinds[j] \in TreeKinds
          => i = j
    /\ Says("TASK_CREATED") =>
          /\ task[t] = "none" /\ eff.state \in TaskStates
          /\ \A d \in eff.after : d # t /\ BoardOf[d] = BoardOf[t] /\ task[d] # "none"
    /\ Says("TASK_STATE_CHANGED") => <<task[t], eff.state>> \in Transitions
    /\ ~Says("TASK_CREATED") => eff.after = depends[t]
    /\ ~Says("TASK_CREATED") /\ ~Says("TASK_STATE_CHANGED") => eff.state = task[t]
    /\ Says("WORKTREE_CREATED") => eff.tree # "none"
    /\ Says("WORKTREE_DELETED") => eff.tree = "none"
    /\ ~Says("WORKTREE_CREATED") /\ ~Says("WORKTREE_DELETED") =>
          (eff.tree = "none") = (tree[t] = "none")

LEMMA UnchangedRow ==
  ASSUME RowTypes, NEW t \in BoardTasks
  PROVE  /\ NoChange(t) \in EffectType /\ NoChange(t).state = task[t]
         /\ NoChange(t).tree = tree[t] /\ NoChange(t).after = depends[t]
         /\ NoChange(t).kinds = <<>>
  BY EmptySeq DEF NoChange, EffectType, RowTypes

\* A handler that appends one event
LEMMA OneEvent ==
  ASSUME NEW tag \in EventKinds
  PROVE  /\ <<tag>> \in Seq(EventKinds) /\ DOMAIN <<tag>> = {1} /\ <<tag>>[1] = tag
  OBVIOUS

LEMMA CreateTells ==
  ASSUME RowTypes, NEW t \in BoardTasks, NEW state \in TaskInputs, NEW after \in SUBSET BoardTasks,
         NEW op, op.t = t, op.state = state, op.after = after, CreateTask(op).ok
  PROVE  Tells(t, CreateTask(op))
<1> DEFINE ok == task[t] = "none" /\ References(t, after)
           eff == [NoChange(t) EXCEPT !.ok = ok, !.state = state, !.after = after,
                                      !.kinds = <<"TASK_CREATED">>]
<1>1. CreateTask(op) = eff BY DEF CreateTask
<1>2. NoChange(t) \in EffectType /\ NoChange(t).tree = tree[t] BY UnchangedRow
<1>3. state \in RowState /\ state \in TaskStates BY BoardAssumption DEF RowState
<1>4. /\ <<"TASK_CREATED">> \in Seq(EventKinds) /\ DOMAIN <<"TASK_CREATED">> = {1}
      /\ <<"TASK_CREATED">>[1] = "TASK_CREATED" BY OneEvent DEF EventKinds, MoveKinds
<1>5. ok \in BOOLEAN BY DEF References
<1> DEFINE kinds == <<"TASK_CREATED">>
<1> HIDE DEF kinds, ok
<1>6. /\ eff \in EffectType /\ eff.ok = ok /\ eff.state = state /\ eff.after = after
      /\ eff.kinds = <<"TASK_CREATED">> /\ eff.tree = tree[t] BY <1>2, <1>3, <1>4, <1>5 DEF EffectType
<1> HIDE DEF eff
<1>7. task[t] = "none" /\ \A d \in after : d # t /\ BoardOf[d] = BoardOf[t] /\ task[d] # "none"
  BY <1>1, <1>6 DEF ok, References
<1> QED BY <1>1, <1>3, <1>4, <1>6, <1>7 DEF Tells, MoveKinds, TreeKinds

\* Notes and worktrees: the task keeps its state and its dependencies
LEMMA OtherTells ==
  ASSUME NEW t \in BoardTasks, NEW eff \in EffectType, NEW tag \in EventKinds \ MoveKinds,
         eff.state = task[t], eff.after = depends[t], eff.kinds = <<tag>>,
         tag = "WORKTREE_CREATED" => eff.tree # "none",
         tag = "WORKTREE_DELETED" => eff.tree = "none",
         tag \notin TreeKinds => (eff.tree = "none") = (tree[t] = "none")
  PROVE  Tells(t, eff)
  BY OneEvent DEF Tells, MoveKinds, TreeKinds

LEMMA ActivityTells ==
  ASSUME RowTypes, NEW t \in BoardTasks, NEW op, op.t = t
  PROVE  Tells(t, CreateActivity(op))
<1> DEFINE ok == task[t] # "none"
           eff == [NoChange(t) EXCEPT !.ok = ok, !.kinds = <<"HUMAN_NOTE">>]
<1>1. CreateActivity(op) = eff BY DEF CreateActivity
<1>2. "HUMAN_NOTE" \in EventKinds \ MoveKinds /\ "HUMAN_NOTE" \notin TreeKinds BY DEF EventKinds, MoveKinds, TreeKinds
<1>3. ok \in BOOLEAN /\ <<"HUMAN_NOTE">> \in Seq(EventKinds) BY <1>2, OneEvent
<1> HIDE DEF ok
<1>4. /\ eff \in EffectType /\ eff.state = task[t] /\ eff.after = depends[t]
      /\ eff.tree = tree[t] /\ eff.kinds = <<"HUMAN_NOTE">> BY <1>3, UnchangedRow DEF EffectType
<1> HIDE DEF eff
<1>5. Tells(t, eff) BY <1>2, <1>4, OtherTells DEF TreeKinds
<1> QED BY <1>1, <1>5

LEMMA CreateTreeTells ==
  ASSUME RowTypes, NEW t \in BoardTasks, NEW op, op.t = t
  PROVE  Tells(t, CreateWorktree(op))
<1> DEFINE ok == task[t] # "none" /\ tree[t] = "none"
           eff == [NoChange(t) EXCEPT !.ok = ok, !.tree = "clean", !.kinds = <<"WORKTREE_CREATED">>]
<1>1. CreateWorktree(op) = eff BY DEF CreateWorktree
<1>2. "WORKTREE_CREATED" \in EventKinds \ MoveKinds BY DEF EventKinds, MoveKinds, TreeKinds
<1>3. ok \in BOOLEAN /\ <<"WORKTREE_CREATED">> \in Seq(EventKinds) BY <1>2, OneEvent
<1> HIDE DEF ok
<1>4. /\ eff \in EffectType /\ eff.state = task[t] /\ eff.after = depends[t]
      /\ eff.tree = "clean" /\ eff.kinds = <<"WORKTREE_CREATED">>
  BY <1>3, UnchangedRow, ZenonT(40) DEF EffectType, TreeState
<1> HIDE DEF eff
<1> QED BY <1>1, <1>2, <1>4, OtherTells DEF TreeKinds

LEMMA ChangeTreeTells ==
  ASSUME RowTypes, NEW t \in BoardTasks, NEW op, op.t = t, UpdateWorktree(op).ok
  PROVE  Tells(t, UpdateWorktree(op))
<1> DEFINE ok == tree[t] = "clean"
           eff == [NoChange(t) EXCEPT !.ok = ok, !.tree = "changed", !.kinds = <<"FILES_CHANGED">>]
<1>1. UpdateWorktree(op) = eff BY DEF UpdateWorktree
<1>2. "FILES_CHANGED" \in EventKinds \ MoveKinds /\ "FILES_CHANGED" \notin TreeKinds
  BY DEF EventKinds, MoveKinds, TreeKinds
<1>3. ok \in BOOLEAN /\ <<"FILES_CHANGED">> \in Seq(EventKinds) BY <1>2, OneEvent
<1> HIDE DEF ok
<1>4. /\ eff \in EffectType /\ eff.state = task[t] /\ eff.after = depends[t] /\ eff.ok = ok
      /\ eff.tree = "changed" /\ eff.kinds = <<"FILES_CHANGED">>
  BY <1>3, UnchangedRow, ZenonT(40) DEF EffectType, TreeState
<1> HIDE DEF eff
<1> QED BY <1>1, <1>2, <1>4, OtherTells DEF TreeKinds, ok

LEMMA DeleteTreeTells ==
  ASSUME RowTypes, NEW t \in BoardTasks, NEW op, op.t = t
  PROVE  Tells(t, DeleteWorktree(op))
<1> DEFINE ok == tree[t] # "none"
           eff == [NoChange(t) EXCEPT !.ok = ok, !.tree = "none", !.kinds = <<"WORKTREE_DELETED">>]
<1>1. DeleteWorktree(op) = eff BY DEF DeleteWorktree
<1>2. "WORKTREE_DELETED" \in EventKinds \ MoveKinds BY DEF EventKinds, MoveKinds, TreeKinds
<1>3. ok \in BOOLEAN /\ <<"WORKTREE_DELETED">> \in Seq(EventKinds) BY <1>2, OneEvent
<1> HIDE DEF ok
<1>4. /\ eff \in EffectType /\ eff.state = task[t] /\ eff.after = depends[t]
      /\ eff.tree = "none" /\ eff.kinds = <<"WORKTREE_DELETED">>
  BY <1>3, UnchangedRow, ZenonT(40) DEF EffectType, TreeState
<1> HIDE DEF eff
<1> QED BY <1>1, <1>2, <1>4, OtherTells DEF TreeKinds

LEMMA UpdateTells ==
  ASSUME RowTypes, NEW t \in BoardTasks, NEW state \in TaskInputs \cup {"keep"},
         NEW text \in BOOLEAN, NEW op, op.t = t, op.state = state, op.text = text,
         UpdateTask(op).ok
  PROVE  Tells(t, UpdateTask(op))
<1> DEFINE old == task[t]
           next == IF state = "keep" THEN old ELSE state
           ok == old # "none" /\ (state # "keep" \/ text)
                 /\ (next = old \/ <<old, next>> \in Transitions)
           moved == IF next # old THEN <<"TASK_STATE_CHANGED">> ELSE <<>>
           edited == IF text THEN <<"TASK_UPDATED">> ELSE <<>>
           kinds == moved \o edited
           eff == [NoChange(t) EXCEPT !.ok = ok, !.state = next, !.kinds = kinds]
<1>1. UpdateTask(op) = eff BY DEF UpdateTask
<1>2. next \in RowState BY BoardAssumption DEF RowState, RowTypes
<1> HIDE DEF next
<1>3. /\ kinds \in Seq(EventKinds)
      /\ \A i \in DOMAIN kinds : kinds[i] \in {"TASK_STATE_CHANGED", "TASK_UPDATED"}
      /\ \A i, j \in DOMAIN kinds : kinds[i] = kinds[j] => i = j
      /\ (\E i \in DOMAIN kinds : kinds[i] = "TASK_STATE_CHANGED") = (next # old)
  <2> DEFINE m == IF next # old THEN 1 ELSE 0
  <2>1. /\ moved \in Seq(EventKinds) /\ Len(moved) = m
        /\ next # old => moved[1] = "TASK_STATE_CHANGED"
    <3>1. CASE next # old BY <3>1 DEF EventKinds, MoveKinds
    <3>2. CASE next = old BY <3>2, EmptySeq
    <3> QED BY <3>1, <3>2
  <2>2. /\ edited \in Seq(EventKinds) /\ Len(edited) = IF text THEN 1 ELSE 0
        /\ text => edited[1] = "TASK_UPDATED"
    <3>1. CASE text BY <3>1 DEF EventKinds
    <3>2. CASE ~text BY <3>2, EmptySeq
    <3> QED BY <3>1, <3>2
  <2> HIDE DEF moved, edited
  <2>3. /\ kinds \in Seq(EventKinds) /\ Len(kinds) = Len(moved) + Len(edited)
        /\ \A i \in 1..(Len(moved) + Len(edited)) :
             kinds[i] = IF i <= Len(moved) THEN moved[i] ELSE edited[i - Len(moved)] BY <2>1, <2>2, ConcatProperties
  <2>4. DOMAIN kinds = 1..Len(kinds) BY <2>3, LenProperties
  <2> HIDE DEF kinds
  <2>5. ASSUME NEW i \in DOMAIN kinds
        PROVE  \/ next # old /\ i = 1 /\ kinds[i] = "TASK_STATE_CHANGED"
               \/ text /\ i = m + 1 /\ kinds[i] = "TASK_UPDATED" BY <2>1, <2>2, <2>3, <2>4
  <2>6. next # old => 1 \in DOMAIN kinds /\ kinds[1] = "TASK_STATE_CHANGED" BY <2>1, <2>2, <2>3, <2>4
  <2> HIDE DEF m
  <2> QED BY <2>3, <2>5, <2>6
<1> HIDE DEF kinds
<1>4. ok \in BOOLEAN OBVIOUS
<1> HIDE DEF ok
<1>5. /\ eff \in EffectType /\ eff.ok = ok /\ eff.state = next /\ eff.after = depends[t]
      /\ eff.tree = tree[t] /\ eff.kinds = kinds BY <1>2, <1>3, <1>4, UnchangedRow, ZenonT(40) DEF EffectType
<1> HIDE DEF eff
<1>6. \A i \in DOMAIN kinds : kinds[i] \in {"TASK_STATE_CHANGED", "TASK_UPDATED"} BY <1>3
<1>7. ASSUME NEW i \in DOMAIN kinds, NEW j \in DOMAIN kinds,
             \/ kinds[i] \in MoveKinds /\ kinds[j] \in MoveKinds
             \/ kinds[i] \in TreeKinds /\ kinds[j] \in TreeKinds
      PROVE  i = j BY <1>3, <1>6, <1>7 DEF MoveKinds, TreeKinds
<1>8. IF \E i \in DOMAIN kinds : kinds[i] = "TASK_STATE_CHANGED"
      THEN <<old, next>> \in Transitions ELSE next = old BY <1>3, <1>1, <1>5 DEF ok
<1>9. Tells(t, eff) BY <1>5, <1>7, <1>8, <1>6 DEF Tells
<1> QED BY <1>1, <1>9

LEMMA EffectTells ==
  ASSUME RowTypes, NEW op \in TaskOp, Effect(op).ok
  PROVE  op.t \in BoardTasks /\ Tells(op.t, Effect(op))
<1>1. PICK t \in BoardTasks : op \in TaskOps(t) BY DEF TaskOp
<1>2. CASE op \in [kind : {"create"}, t : {t}, state : TaskInputs, after : SUBSET BoardTasks]
  BY CreateTells, <1>2 DEF Effect
<1>3. CASE op \in [kind : {"update"}, t : {t}, state : TaskInputs \cup {"keep"}, text : BOOLEAN]
  BY UpdateTells, <1>3 DEF Effect
<1>4. CASE op \in [kind : {"note", "tree", "files", "rmtree"}, t : {t}]
  <2>1. op.kind \in {"note", "tree", "files", "rmtree"} /\ op.t = t BY <1>4
  <2>2. CASE op.kind = "note" BY <2>1, ActivityTells, <2>2 DEF Effect
  <2>3. CASE op.kind = "tree" BY <2>1, CreateTreeTells, <2>3 DEF Effect
  <2>4. CASE op.kind = "files" BY <2>1, ChangeTreeTells, <2>4 DEF Effect
  <2>5. CASE op.kind = "rmtree" BY <2>1, DeleteTreeTells, <2>5 DEF Effect
  <2> QED BY <2>1, <2>2, <2>3, <2>4, <2>5
<1> QED BY <1>1, <1>2, <1>3, <1>4 DEF TaskOps

\* A transaction that has written its rows: its events are those its rows
\* tell of, and their numbers, drawn under the advisory lock, follow every
\* number of the ledger of the workspace.
RecordFits(t, eff, events) ==
    LET Says(tag) == \E e \in events : e.kind = tag IN
    /\ \A e \in events :
          /\ e.t = t /\ e.board = BoardOf[t] /\ e.to = eff.state
          /\ 0 < e.id /\ e.id <= sequenceNo
          /\ \A f \in ledger : f.board = BoardOf[t] => f.id < e.id
    /\ \A e, f \in events :
          \/ e.id = f.id
          \/ e.kind \in MoveKinds /\ f.kind \in MoveKinds
          \/ e.kind \in TreeKinds /\ f.kind \in TreeKinds
          => e = f
    /\ Says("TASK_CREATED") =>
          /\ task[t] = "none" /\ eff.state \in TaskStates
          /\ \A d \in eff.after : d # t /\ BoardOf[d] = BoardOf[t] /\ task[d] # "none"
    /\ Says("TASK_STATE_CHANGED") => <<task[t], eff.state>> \in Transitions
    /\ ~Says("TASK_CREATED") => eff.after = depends[t]
    /\ ~Says("TASK_CREATED") /\ ~Says("TASK_STATE_CHANGED") => eff.state = task[t]
    /\ Says("WORKTREE_CREATED") => eff.tree # "none"
    /\ Says("WORKTREE_DELETED") => eff.tree = "none"
    /\ ~Says("WORKTREE_CREATED") /\ ~Says("WORKTREE_DELETED") =>
          (eff.tree = "none") = (tree[t] = "none")

BoardTxs == {BoardIdle} \cup LockTx \cup CommitTx

TxHolds(u, tx) ==
    /\ tx.pc \in {"write", "commit"} => boardLock[BoardOf[tx.op.t]] = u
    /\ tx.pc = "commit" => RecordFits(tx.op.t, tx.eff, tx.events)

BoardTypes ==
    /\ RowTypes /\ ledger \subseteq LedgerEvent /\ sequenceNo \in Nat
    /\ boardLock \in [Boards -> BoardUsers \cup {"free"}] /\ btx \in [BoardUsers -> BoardTxs]
    /\ cursor \in [Boards -> Nat] /\ pagedEvents \in [Boards -> SUBSET Nat]

\* Numbers are unique in a workspace, and a reader's is one of the ledger's.
NumbersDrawn ==
    /\ \A e \in ledger : e.board = BoardOf[e.t] /\ 0 < e.id /\ e.id <= sequenceNo
    /\ \A e, f \in ledger : e.board = f.board /\ e.id = f.id => e = f
    /\ \A b \in Boards : cursor[b] = 0 \/ \E e \in ledger : e.board = b /\ e.id = cursor[b]
    /\ \A b \in Boards :
          pagedEvents[b] = {e.id : e \in {f \in ledger : f.board = b /\ f.id <= cursor[b]}}

EventsOf(t, kinds) == {e \in ledger : e.t = t /\ e.kind \in kinds}
IsLast(e, t, kinds) == e \in EventsOf(t, kinds) /\ \A f \in EventsOf(t, kinds) : f.id <= e.id

TaskHistory(t) ==
    /\ \/ task[t] = "none" /\ EventsOf(t, MoveKinds) = {}
       \/ task[t] # "none" /\ \E e \in ledger : IsLast(e, t, MoveKinds) /\ e.to = task[t]
    /\ task[t] # "none" => \E e \in ledger : e.t = t /\ e.kind = "TASK_CREATED"
    /\ \A e, f \in EventsOf(t, MoveKinds) :
          e.id < f.id /\ ~(\E g \in EventsOf(t, MoveKinds) : e.id < g.id /\ g.id < f.id)
              => <<e.to, f.to>> \in Transitions
    /\ \/ tree[t] = "none" /\ EventsOf(t, TreeKinds) = {}
       \/ \E e \in ledger : /\ IsLast(e, t, TreeKinds)
                            /\ (e.kind = "WORKTREE_CREATED") = (tree[t] # "none")
    /\ \A d \in depends[t] : \E e, f \in ledger :
          e.t = d /\ f.t = t /\ e.kind = f.kind /\ e.kind = "TASK_CREATED"
          /\ e.board = f.board /\ e.id < f.id

BoardInv ==
    /\ BoardTypes /\ NumbersDrawn
    /\ \A u \in BoardUsers : TxHolds(u, btx[u])
    /\ \A t \in BoardTasks : TaskHistory(t)

LEMMA BoardTxShapes ==
  ASSUME NEW tx \in BoardTxs
  PROVE  /\ tx.pc \in {"idle", "lock", "write", "commit"}
         /\ tx.pc = "idle" => tx = BoardIdle
         /\ tx.pc \in {"lock", "write"} => tx \in LockTx
         /\ tx.pc = "commit" => tx \in CommitTx
         /\ tx.pc # "idle" => tx.op \in TaskOp /\ tx.op.t \in BoardTasks
<1>1. CASE tx = BoardIdle BY <1>1 DEF BoardIdle
<1>2. \A op \in TaskOp : op.t \in BoardTasks BY DEF TaskOp, TaskOps
<1>3. CASE tx \in LockTx BY <1>2, <1>3 DEF LockTx
<1>4. CASE tx \in CommitTx BY <1>2, <1>4 DEF CommitTx
<1> QED BY <1>1, <1>3, <1>4 DEF BoardTxs

LEMMA BoardInitInv == BoardInit => BoardInv
<1> SUFFICES ASSUME BoardInit PROVE BoardInv OBVIOUS
<1>1. \A u \in BoardUsers : TxHolds(u, btx[u]) BY DEF BoardInit, TxHolds, BoardIdle
<1>2. \A t \in BoardTasks : TaskHistory(t) BY DEF BoardInit, TaskHistory, EventsOf
<1> QED BY <1>1, <1>2 DEF BoardInv, BoardInit, BoardTypes, RowTypes, RowState, TreeState, BoardTxs, NumbersDrawn

\* A transaction goes on without its COMMIT: the rows and the ledger stay,
\* numbers may be drawn, and the locks of the others are not touched.
LEMMA BoardTxMoves ==
  ASSUME BoardInv, UNCHANGED boardRows, NEW u \in BoardUsers, NEW tx \in BoardTxs,
         btx' = [btx EXCEPT ![u] = tx], TxHolds(u, tx)',
         sequenceNo' \in Nat, sequenceNo <= sequenceNo',
         boardLock' \in [Boards -> BoardUsers \cup {"free"}],
         \A b \in Boards : \A v \in BoardUsers : v # u /\ boardLock[b] = v => boardLock'[b] = v
  PROVE  BoardInv'
<1>1. BoardTypes /\ NumbersDrawn BY DEF BoardInv
<1>2. UNCHANGED <<task, tree, depends, ledger, cursor, pagedEvents>> BY DEF boardRows
<1>3. btx' \in [BoardUsers -> BoardTxs]
      /\ \A v \in BoardUsers : btx'[v] = IF v = u THEN tx ELSE btx[v] BY <1>1 DEF BoardTypes
<1>4. ASSUME NEW v \in BoardUsers PROVE TxHolds(v, btx[v])'
  <2>1. CASE v = u BY <2>1, <1>3 DEF TxHolds, RecordFits
  <2>2. CASE v # u
    <3> DEFINE old == btx[v]
    <3>1. TxHolds(v, old) /\ old \in BoardTxs BY <1>1 DEF BoardInv, BoardTypes
    <3>2. btx'[v] = old BY <1>3, <2>2
    <3>3. ASSUME old.pc = "commit" PROVE RecordFits(old.op.t, old.eff, old.events)'
      BY <3>2, <1>2, <3>1, <3>3, <1>1, BoardTxShapes DEF RecordFits, TxHolds, BoardTypes, CommitTx, LedgerEvent
    <3> QED BY <3>2, <3>3, <3>1, <2>2, BoardTxShapes, BoardAssumption DEF TxHolds
  <2> QED BY <2>1, <2>2
<1>5. \A t \in BoardTasks : TaskHistory(t)' BY <1>2 DEF BoardInv, TaskHistory, EventsOf, IsLast
<1> QED BY <1>4, <1>5, <1>1, <1>2, <1>3 DEF BoardInv, BoardTypes, RowTypes, NumbersDrawn, LedgerEvent

LEMMA LocksStay ==
  ASSUME BoardTypes, UNCHANGED <<sequenceNo, boardLock>>
  PROVE  /\ sequenceNo' \in Nat /\ sequenceNo <= sequenceNo'
         /\ boardLock' \in [Boards -> BoardUsers \cup {"free"}]
         /\ \A u \in BoardUsers, b \in Boards : boardLock[b] = u => boardLock'[b] = u
  BY DEF BoardTypes

\* The advisory lock goes to a transaction while it is free, or comes back
LEMMA LockPasses ==
  ASSUME BoardTypes, NEW u \in BoardUsers, NEW b \in Boards,
         NEW to \in BoardUsers \cup {"free"}, boardLock[b] \in {"free", u},
         boardLock' = [boardLock EXCEPT ![b] = to]
  PROVE  /\ boardLock' \in [Boards -> BoardUsers \cup {"free"}] /\ boardLock'[b] = to
         /\ \A a \in Boards : \A v \in BoardUsers :
                v # u /\ boardLock[a] = v => boardLock'[a] = v
  BY BoardAssumption DEF BoardTypes

LEMMA SubmitTaskInv ==
  ASSUME BoardInv, NEW u \in BoardUsers, NEW t \in BoardTasks, NEW op \in TaskOps(t),
         SubmitTask(u, op)
  PROVE  BoardInv'
<1>1. PICK tx \in BoardTxs : tx.pc = "lock" /\ btx' = [btx EXCEPT ![u] = tx]
  <2> DEFINE tx == [pc |-> "lock", op |-> op]
  <2>1. tx \in BoardTxs /\ tx.pc = "lock" BY DEF BoardTxs, LockTx, TaskOp
  <2>2. btx' = [btx EXCEPT ![u] = tx] BY DEF SubmitTask
  <2> HIDE DEF tx
  <2> QED BY <2>1, <2>2
<1>2. TxHolds(u, tx)' BY <1>1 DEF TxHolds
<1> QED BY <1>1, <1>2, LocksStay, BoardTxMoves DEF BoardInv, SubmitTask

LEMMA AuthorizeWriteInv ==
  ASSUME BoardInv, NEW u \in BoardUsers, AuthorizeWrite(u)
  PROVE  BoardInv'
<1> DEFINE old == btx[u]
           b == BoardOf[old.op.t]
<1>1. BoardTypes /\ old \in BoardTxs BY DEF BoardInv, BoardTypes
<1>2. old.pc = "lock" /\ UNCHANGED boardRows /\ UNCHANGED sequenceNo BY DEF AuthorizeWrite
<1>3. old \in LockTx /\ old.op.t \in BoardTasks BY <1>1, <1>2, BoardTxShapes
<1>4. b \in Boards /\ boardLock[b] = "free" BY <1>3, BoardAssumption DEF AuthorizeWrite, BoardFree
<1>5. CASE access[u] = "EDITOR"
  <2>1. boardLock' = [boardLock EXCEPT ![b] = u] BY <1>5 DEF AuthorizeWrite
  <2>2. PICK tx \in BoardTxs : /\ tx.pc = "write" /\ tx.op = old.op
                               /\ btx' = [btx EXCEPT ![u] = tx]
    <3> DEFINE tx == [old EXCEPT !.pc = "write"]
    <3>1. tx \in LockTx /\ tx.pc = "write" /\ tx.op = old.op BY <1>3 DEF LockTx
    <3>2. btx' = [btx EXCEPT ![u] = tx] BY <1>1, <1>5 DEF AuthorizeWrite, BoardTypes
    <3> HIDE DEF tx
    <3> QED BY <3>1, <3>2 DEF BoardTxs
  <2> HIDE DEF b, old
  <2>3. /\ boardLock' \in [Boards -> BoardUsers \cup {"free"}] /\ boardLock'[b] = u
        /\ \A a \in Boards : \A v \in BoardUsers : v # u /\ boardLock[a] = v => boardLock'[a] = v
    BY <2>1, <1>1, <1>4, LockPasses
  <2>4. sequenceNo' \in Nat /\ sequenceNo <= sequenceNo' BY <1>1, <1>2 DEF BoardTypes
  <2> QED BY <1>2, <2>2, <2>3, <2>4, BoardTxMoves DEF TxHolds, b, old
<1>6. CASE access[u] # "EDITOR"
  BY <1>1, <1>2, LocksStay, BoardTxMoves, <1>6 DEF AuthorizeWrite, BoardTxs, TxHolds, BoardIdle
<1> QED BY <1>5, <1>6

\* append_activity draws the numbers while the transaction holds the lock, so
\* they follow those of every event of the workspace.
LEMMA AppendActivityInv ==
  ASSUME BoardInv, NEW u \in BoardUsers, AppendActivity(u)
  PROVE  BoardInv'
<1> DEFINE old == btx[u]
           op == old.op
           t == op.t
           eff == Effect(op)
<1>1. BoardTypes /\ NumbersDrawn /\ old \in BoardTxs /\ TxHolds(u, old) BY DEF BoardInv, BoardTypes
<1>2. old.pc = "write" /\ UNCHANGED boardRows BY DEF AppendActivity
<1>3. op \in TaskOp /\ t \in BoardTasks BY <1>1, <1>2, BoardTxShapes
<1>4. BoardOf[t] \in Boards /\ boardLock[BoardOf[t]] = u BY <1>1, <1>2, <1>3, BoardAssumption DEF TxHolds
<1>5. CASE eff.ok
  <2> DEFINE Event(k) == [id |-> sequenceNo + k, board |-> BoardOf[t], t |-> t,
                          kind |-> eff.kinds[k], to |-> eff.state]
             events == {Event(k) : k \in DOMAIN eff.kinds}
             tx == [pc |-> "commit", op |-> op, eff |-> eff, events |-> events]
  <2>1. /\ sequenceNo' = sequenceNo + Len(eff.kinds) /\ UNCHANGED boardLock
        /\ btx' = [btx EXCEPT ![u] = tx] BY <1>5 DEF AppendActivity
  <2>2. Tells(t, eff) BY <1>1, <1>3, <1>5, EffectTells DEF BoardTypes
  <2>3. eff \in EffectType BY <2>2 DEF Tells
  <2>4. eff.kinds \in Seq(EventKinds) /\ eff.state \in RowState BY <2>3 DEF EffectType
  <2>5. Len(eff.kinds) \in Nat /\ DOMAIN eff.kinds = 1..Len(eff.kinds) BY <2>4, LenProperties
  <2> HIDE DEF eff, t, op
  <2>6. ASSUME NEW k \in DOMAIN eff.kinds
        PROVE  /\ Event(k) \in LedgerEvent /\ Event(k).kind = eff.kinds[k]
               /\ Event(k).id = sequenceNo + k /\ k \in Nat /\ 0 < k /\ k <= Len(eff.kinds)
               /\ Event(k).t = t /\ Event(k).board = BoardOf[t] /\ Event(k).to = eff.state
    <3>1. sequenceNo \in Nat BY <1>1 DEF BoardTypes
    <3> QED BY <3>1, <1>3, <1>4, <2>4, <2>5, ElementOfSeq DEF LedgerEvent
  <2> HIDE DEF Event
  <2>7. tx \in BoardTxs /\ tx.pc = "commit" /\ tx.op.t = t /\ tx.eff = eff /\ tx.events = events
    BY <1>3, <2>3, <2>6 DEF BoardTxs, CommitTx, t
  <2>8. sequenceNo \in Nat /\ sequenceNo' \in Nat /\ sequenceNo <= sequenceNo' BY <1>1, <2>1, <2>5 DEF BoardTypes
  <2>9. \A tag : (\E e \in events : e.kind = tag) <=> (\E i \in DOMAIN eff.kinds : eff.kinds[i] = tag) BY <2>6
  <2>10. ASSUME NEW e \in events
         PROVE  /\ e.t = t /\ e.board = BoardOf[t] /\ e.to = eff.state
                /\ 0 < e.id /\ e.id <= sequenceNo'
                /\ \A f \in ledger : f.board = BoardOf[t] => f.id < e.id
    <3>1. PICK k \in DOMAIN eff.kinds : e = Event(k) BY <2>10
    <3> QED BY <2>1, <2>5, <2>8, <3>1, <2>6, <1>1 DEF BoardTypes, NumbersDrawn, LedgerEvent
  <2>11. ASSUME NEW e \in events, NEW f \in events,
                \/ e.id = f.id
                \/ e.kind \in MoveKinds /\ f.kind \in MoveKinds
                \/ e.kind \in TreeKinds /\ f.kind \in TreeKinds
         PROVE  e = f
    <3>1. PICK i \in DOMAIN eff.kinds : e = Event(i) BY <2>11
    <3>2. PICK j \in DOMAIN eff.kinds : f = Event(j) BY <2>11
    <3>3. /\ e.id = sequenceNo + i /\ f.id = sequenceNo + j /\ i \in Nat /\ j \in Nat
          /\ e.kind = eff.kinds[i] /\ f.kind = eff.kinds[j] BY <3>1, <3>2, <2>6
    <3>4. i = j
      <4>1. CASE e.id = f.id
        <5>1. sequenceNo + i = sequenceNo + j BY <4>1, <3>3
        <5> QED BY <5>1, <2>8, <3>3
      <4>2. CASE e.id # f.id BY <4>2, <2>11, <3>3, <2>2 DEF Tells
      <4> QED BY <4>1, <4>2
    <3> QED BY <3>1, <3>2, <3>4
  <2> HIDE DEF events, tx
  <2>12. PICK row \in BoardTxs : row = tx BY <2>7
  <2>13. RecordFits(row.op.t, row.eff, row.events)'
    <3>1. PICK s, given, written :
            /\ s = t /\ given = eff /\ written = events
            /\ row.op.t = s /\ row.eff = given /\ row.events = written BY <2>7, <2>12
    <3> DEFINE Says(tag) == \E e \in written : e.kind = tag
    <3>2. /\ Says("TASK_CREATED") =>
                /\ task[s] = "none" /\ given.state \in TaskStates
                /\ \A d \in given.after : d # s /\ BoardOf[d] = BoardOf[s] /\ task[d] # "none"
          /\ Says("TASK_STATE_CHANGED") => <<task[s], given.state>> \in Transitions
          /\ ~Says("TASK_CREATED") => given.after = depends[s]
          /\ ~Says("TASK_CREATED") /\ ~Says("TASK_STATE_CHANGED") => given.state = task[s]
          /\ Says("WORKTREE_CREATED") => given.tree # "none"
          /\ Says("WORKTREE_DELETED") => given.tree = "none"
          /\ ~Says("WORKTREE_CREATED") /\ ~Says("WORKTREE_DELETED") =>
                (given.tree = "none") = (tree[s] = "none")
      <4>1. \A tag : Says(tag) <=> (\E i \in DOMAIN given.kinds : given.kinds[i] = tag) BY <2>9, <3>1
      <4> HIDE DEF Says
      <4> QED BY <4>1, <2>2, <3>1 DEF Tells
    <3>3. RecordFits(s, given, written)' BY <3>2, <1>2, <2>10, <2>11, <3>1 DEF RecordFits, boardRows
    <3> QED BY <3>1, <3>3
  <2>14. boardLock' \in [Boards -> BoardUsers \cup {"free"}] BY <2>1, <1>1 DEF BoardTypes
  <2> QED BY <1>2, <2>1, <2>8, <2>12, <2>14, BoardTxMoves, <2>7, <2>13, <1>4 DEF TxHolds
<1>6. CASE ~eff.ok
  <2>1. /\ btx' = [btx EXCEPT ![u] = BoardIdle] /\ UNCHANGED sequenceNo
        /\ boardLock' = [boardLock EXCEPT ![BoardOf[t]] = "free"] BY <1>6 DEF AppendActivity
  <2>2. /\ boardLock' \in [Boards -> BoardUsers \cup {"free"}]
        /\ \A b \in Boards : \A v \in BoardUsers : v # u /\ boardLock[b] = v => boardLock'[b] = v
    BY <2>1, <1>1, <1>4, LockPasses
  <2>3. sequenceNo' \in Nat /\ sequenceNo <= sequenceNo' BY <1>1, <2>1 DEF BoardTypes
  <2> QED BY <1>2, <2>1, <2>2, <2>3, BoardTxMoves DEF BoardTxs, TxHolds, BoardIdle
<1> QED BY <1>5, <1>6

LEMMA RealStates ==
  /\ "none" \notin TaskStates
  /\ \A p \in Transitions : p[1] \in TaskStates /\ p[2] \in TaskStates
  BY DEF TaskStates, Transitions

\* The history of the task that a COMMIT is about
LEMMA HistoryGrows ==
  ASSUME BoardInv, NEW t \in BoardTasks, NEW eff \in EffectType,
         NEW events \in SUBSET LedgerEvent, RecordFits(t, eff, events),
         ledger' = ledger \cup events, task'[t] = eff.state, tree'[t] = eff.tree,
         depends'[t] = eff.after
  PROVE  TaskHistory(t)'
<1>1. BoardTypes /\ NumbersDrawn /\ TaskHistory(t) BY DEF BoardInv
<1>2. \A e \in events : e.t = t /\ e.board = BoardOf[t] /\ e.to = eff.state BY DEF RecordFits
<1>3. \A f \in ledger : f.t = t => f.board = BoardOf[t] BY <1>1 DEF NumbersDrawn
<1>4. \A e \in events : \A f \in ledger : f.board = BoardOf[t] => f.id < e.id BY DEF RecordFits
<1>5. \A e \in ledger \cup events : e.id \in Nat BY <1>1 DEF BoardTypes, LedgerEvent
<1>6. \A kinds : EventsOf(t, kinds)' = EventsOf(t, kinds) \cup {e \in events : e.kind \in kinds} BY <1>2 DEF EventsOf
<1>7. \A kinds : \A f \in EventsOf(t, kinds) : f \in ledger /\ f.t = t /\ f.kind \in kinds BY DEF EventsOf
<1>8. ASSUME NEW m \in events, NEW kinds, m.kind \in kinds,
             \A e \in events : e.kind \in kinds => e = m
      PROVE  /\ EventsOf(t, kinds)' = EventsOf(t, kinds) \cup {m}
             /\ IsLast(m, t, kinds)' /\ \A f \in EventsOf(t, kinds) : f.id < m.id
  <2>1. \A f \in EventsOf(t, kinds) : f.id < m.id BY <1>3, <1>4, <1>7, <1>8
  <2> QED BY <2>1, <1>6, <1>8, <1>5, <1>7 DEF IsLast
<1>9. ASSUME NEW kinds, \A e \in events : e.kind \notin kinds
      PROVE  /\ EventsOf(t, kinds)' = EventsOf(t, kinds)
             /\ \A e \in ledger : IsLast(e, t, kinds) => IsLast(e, t, kinds)' BY <1>6, <1>9 DEF IsLast
<1>10. (\E e \in events : e.kind \in MoveKinds) => eff.state # "none"
  <2>1. <<task[t], eff.state>> \in Transitions => eff.state \in TaskStates BY RealStates
  <2> QED BY <2>1, RealStates DEF MoveKinds, RecordFits
<1>11. (\E e \in events : e.kind = "TASK_STATE_CHANGED") => task[t] # "none" BY RealStates DEF RecordFits
<1> DEFINE Moved == \/ task[t] = "none" /\ EventsOf(t, MoveKinds) = {}
                    \/ /\ task[t] # "none"
                       /\ \E e \in ledger : IsLast(e, t, MoveKinds) /\ e.to = task[t]
           Steps == \A e, f \in EventsOf(t, MoveKinds) :
                       e.id < f.id /\ ~(\E g \in EventsOf(t, MoveKinds) : e.id < g.id /\ g.id < f.id)
                           => <<e.to, f.to>> \in Transitions
           Trees == \/ tree[t] = "none" /\ EventsOf(t, TreeKinds) = {}
                    \/ \E e \in ledger : /\ IsLast(e, t, TreeKinds)
                                         /\ (e.kind = "WORKTREE_CREATED") = (tree[t] # "none")
<1>12. Moved /\ Steps /\ Trees BY <1>1 DEF TaskHistory
<1>13. Moved' /\ Steps'
  <2>1. CASE \A e \in events : e.kind \notin MoveKinds
    <3>1. /\ EventsOf(t, MoveKinds)' = EventsOf(t, MoveKinds) /\ task'[t] = task[t]
          /\ \A e \in ledger : IsLast(e, t, MoveKinds) => IsLast(e, t, MoveKinds)'
      BY <2>1, <1>9 DEF RecordFits, MoveKinds
    <3>2. Moved' BY <3>1, <1>12
    <3>3. Steps' BY <3>1, <1>12
    <3> QED BY <3>2, <3>3
  <2>2. ASSUME NEW m \in events, m.kind \in MoveKinds PROVE Moved' /\ Steps'
    <3>1. /\ EventsOf(t, MoveKinds)' = EventsOf(t, MoveKinds) \cup {m}
          /\ IsLast(m, t, MoveKinds)' /\ \A f \in EventsOf(t, MoveKinds) : f.id < m.id BY <2>2, <1>8 DEF RecordFits
    <3>2. Moved' BY <3>1, <2>2, <1>2, <1>10
    <3>3. ASSUME NEW e \in EventsOf(t, MoveKinds), NEW f \in EventsOf(t, MoveKinds) \cup {m},
                 e.id < f.id,
                 ~(\E g \in EventsOf(t, MoveKinds) \cup {m} : e.id < g.id /\ g.id < f.id)
          PROVE  <<e.to, f.to>> \in Transitions
      <4>1. CASE f \in EventsOf(t, MoveKinds) BY <4>1, <3>3, <1>12
      <4>2. CASE f = m
        <5>1. task[t] # "none" BY <1>12, <3>3
        <5>2. PICK l \in ledger : IsLast(l, t, MoveKinds) /\ l.to = task[t] BY <1>12, <5>1
        <5>3. l \in EventsOf(t, MoveKinds) /\ l.id < m.id /\ e.id <= l.id BY <5>2, <3>1 DEF IsLast
        <5>4. e = l
          <6>1. e \in ledger /\ e.t = t /\ l.t = t BY <1>7, <5>3
          <6> QED BY <6>1, <1>1, <5>3, <3>3, <4>2, <1>5, <1>7, <1>3 DEF NumbersDrawn
        <5> QED BY <4>2, <5>2, <5>4, <1>2, <2>2, <5>1 DEF RecordFits, MoveKinds
      <4> QED BY <4>1, <4>2
    <3> QED BY <3>2, <3>1, <3>3, <1>5, <1>7
  <2> QED BY <2>1, <2>2
<1>14. Trees'
  <2>1. CASE \A e \in events : e.kind \notin TreeKinds BY <1>12, <2>1, <1>9 DEF RecordFits, TreeKinds
  <2>2. ASSUME NEW m \in events, m.kind \in TreeKinds PROVE Trees' BY <2>2, <1>8 DEF RecordFits, TreeKinds
  <2> QED BY <2>1, <2>2
<1>15. task'[t] # "none" => \E e \in ledger' : e.t = t /\ e.kind = "TASK_CREATED"
  <2>1. CASE \E e \in events : e.kind = "TASK_CREATED" BY <2>1, <1>2
  <2>2. CASE ~\E e \in events : e.kind = "TASK_CREATED"
    <3>1. task'[t] # "none" => task[t] # "none"
      <4>1. CASE \E e \in events : e.kind = "TASK_STATE_CHANGED" BY <4>1, <1>11
      <4>2. CASE ~\E e \in events : e.kind = "TASK_STATE_CHANGED" BY <4>2, <2>2 DEF RecordFits
      <4> QED BY <4>1, <4>2
    <3> QED BY <3>1, <1>1 DEF TaskHistory
  <2> QED BY <2>1, <2>2
<1>16. ASSUME NEW d \in depends'[t]
       PROVE  \E e, f \in ledger' : e.t = d /\ f.t = t /\ e.kind = f.kind /\ e.kind = "TASK_CREATED"
                                    /\ e.board = f.board /\ e.id < f.id
  <2>1. ASSUME NEW m \in events, m.kind = "TASK_CREATED"
        PROVE  \E e, f \in ledger' : e.t = d /\ f.t = t /\ e.kind = f.kind /\ e.kind = "TASK_CREATED"
                                     /\ e.board = f.board /\ e.id < f.id
    <3>1. d \in BoardTasks /\ BoardOf[d] = BoardOf[t] /\ task[d] # "none" BY <2>1, <1>16 DEF RecordFits, EffectType
    <3>2. PICK e \in ledger : e.t = d /\ e.kind = "TASK_CREATED" BY <3>1 DEF BoardInv, TaskHistory
    <3> QED BY <2>1, <3>2, <1>2, <1>4, <3>1, <1>1 DEF NumbersDrawn
  <2>2. CASE ~\E m \in events : m.kind = "TASK_CREATED" BY <1>1, <2>2, <1>16 DEF TaskHistory, RecordFits
  <2> QED BY <2>1, <2>2
<1> QED BY <1>13, <1>14, <1>15, <1>16 DEF TaskHistory

\* The COMMIT of a write: the other transactions are of other workspaces,
\* because they hold the locks of theirs.
LEMMA CommitWriteInv ==
  ASSUME BoardInv, NEW u \in BoardUsers, EndWriteTx(u, TRUE)
  PROVE  BoardInv'
<1>1. BoardTypes /\ NumbersDrawn BY DEF BoardInv
<1>2. PICK tx \in BoardTxs : tx = btx[u] BY <1>1 DEF BoardTypes
<1>3. tx.pc = "commit" /\ TxHolds(u, tx) BY <1>2 DEF EndWriteTx, BoardInv
<1>4. tx \in CommitTx /\ tx.op.t \in BoardTasks BY <1>3, BoardTxShapes
<1> DEFINE t == tx.op.t
           eff == tx.eff
           events == tx.events
<1>5. eff \in EffectType /\ events \in SUBSET LedgerEvent BY <1>4 DEF CommitTx
<1>6. RecordFits(t, eff, events) /\ boardLock[BoardOf[t]] = u BY <1>3 DEF TxHolds
<1>7. /\ ledger' = ledger \cup events /\ task' = [task EXCEPT ![t] = eff.state]
      /\ tree' = [tree EXCEPT ![t] = eff.tree] /\ depends' = [depends EXCEPT ![t] = eff.after]
      /\ boardLock' = [b \in Boards |-> IF boardLock[b] = u THEN "free" ELSE boardLock[b]]
      /\ btx' = [btx EXCEPT ![u] = BoardIdle]
      /\ UNCHANGED <<cursor, pagedEvents, sequenceNo>> BY <1>2 DEF EndWriteTx
<1>8. t \in BoardTasks /\ BoardOf[t] \in Boards BY <1>4, BoardAssumption
<1> HIDE DEF t, eff, events
<1>9. /\ RowTypes' /\ task'[t] = eff.state /\ tree'[t] = eff.tree /\ depends'[t] = eff.after
      /\ \A s \in BoardTasks : s # t => task'[s] = task[s] /\ tree'[s] = tree[s]
                                         /\ depends'[s] = depends[s]
  BY <1>1, <1>7, <1>8, <1>5 DEF BoardTypes, RowTypes, EffectType
<1>10. btx' \in [BoardUsers -> BoardTxs]
       /\ \A v \in BoardUsers : btx'[v] = IF v = u THEN BoardIdle ELSE btx[v] BY <1>1, <1>7 DEF BoardTypes, BoardTxs
<1>11. \A e \in events : /\ e.t = t /\ e.board = BoardOf[t] /\ 0 < e.id /\ e.id <= sequenceNo
                         /\ \A f \in ledger : f.board = BoardOf[t] => f.id < e.id BY <1>6 DEF RecordFits
<1>12. \A e \in ledger \cup events : e.id \in Nat BY <1>1, <1>5 DEF BoardTypes, LedgerEvent
<1>13. NumbersDrawn'
  <2>1. ASSUME NEW e \in ledger', NEW f \in ledger', e.board = f.board, e.id = f.id
        PROVE  e = f
    <3>1. CASE e \in ledger /\ f \in ledger BY <2>1, <3>1, <1>1 DEF NumbersDrawn
    <3>2. CASE e \in events /\ f \in events BY <2>1, <3>2, <1>6 DEF RecordFits
    <3>3. CASE e \in ledger /\ f \in events BY <2>1, <3>3, <1>11, <1>12
    <3>4. CASE e \in events /\ f \in ledger BY <2>1, <3>4, <1>11, <1>12
    <3> QED BY <2>1, <3>1, <3>2, <3>3, <3>4, <1>7
  <2>2. ASSUME NEW b \in Boards
        PROVE  pagedEvents'[b] = {e.id : e \in {f \in ledger' : f.board = b /\ f.id <= cursor'[b]}}
    <3>1. \A e \in events : e.board = b => ~(e.id <= cursor[b]) BY <1>11, <1>12, <1>1 DEF NumbersDrawn, BoardTypes
    <3> QED BY <1>7, <3>1, <1>1 DEF NumbersDrawn
  <2> QED BY <2>1, <2>2, <1>1, <1>7, <1>11 DEF NumbersDrawn
<1>14. ASSUME NEW v \in BoardUsers PROVE TxHolds(v, btx[v])'
  <2>1. CASE v = u BY <2>1, <1>10 DEF TxHolds, BoardIdle
  <2>2. CASE v # u
    <3>1. PICK old \in BoardTxs : old = btx[v] BY <1>1 DEF BoardTypes
    <3>2. TxHolds(v, old) /\ btx'[v] = old BY <3>1, <2>2, <1>10 DEF BoardInv
    <3>3. ASSUME old.pc \in {"write", "commit"}
          PROVE  /\ boardLock'[BoardOf[old.op.t]] = v
                 /\ BoardOf[old.op.t] # BoardOf[t] /\ old.op.t \in BoardTasks
      BY <2>2, <1>6, <1>7, <3>2, <3>3, BoardAssumption, BoardTxShapes DEF TxHolds
    <3>4. ASSUME old.pc = "commit" PROVE RecordFits(old.op.t, old.eff, old.events)'
      <4>1. /\ BoardOf[old.op.t] # BoardOf[t] /\ old.op.t # t /\ old.op.t \in BoardTasks BY <3>3, <3>4
      <4>2. \A d \in old.eff.after : BoardOf[d] = BoardOf[old.op.t] => task'[d] = task[d]
        BY <4>1, <1>9, <3>4, BoardTxShapes DEF CommitTx, EffectType
      <4>3. \A f \in ledger' : f.board = BoardOf[old.op.t] => f \in ledger BY <4>1, <1>7, <1>11
      <4> QED BY <4>2, <4>3, <1>7, <3>2, <3>4, <4>1, <1>9 DEF RecordFits, TxHolds
    <3> QED BY <3>2, <3>3, <3>4 DEF TxHolds
  <2> QED BY <2>1, <2>2
<1>15. ASSUME NEW s \in BoardTasks PROVE TaskHistory(s)'
  <2>1. CASE s = t BY <2>1, <1>5, <1>6, <1>7, <1>8, <1>9, HistoryGrows
  <2>2. CASE s # t
    <3>1. \A kinds : EventsOf(s, kinds)' = EventsOf(s, kinds) BY <2>2, <1>7, <1>11 DEF EventsOf
    <3>2. ledger \subseteq ledger' BY <1>7
    <3>3. \A kinds : \A e : IsLast(e, s, kinds)' <=> IsLast(e, s, kinds) BY <3>1 DEF IsLast
    <3> QED BY <3>1, <3>2, <3>3, <2>2, <1>9 DEF TaskHistory, BoardInv
  <2> QED BY <2>1, <2>2
<1> QED BY <1>13, <1>14, <1>15, <1>1, <1>5, <1>7, <1>9, <1>10 DEF BoardInv, BoardTypes

LEMMA LoseWriteInv ==
  ASSUME BoardInv, NEW u \in BoardUsers, EndWriteTx(u, FALSE)
  PROVE  BoardInv'
<1>1. BoardTypes BY DEF BoardInv
<1>2. /\ UNCHANGED boardRows /\ UNCHANGED sequenceNo /\ btx' = [btx EXCEPT ![u] = BoardIdle]
      /\ boardLock' = [b \in Boards |-> IF boardLock[b] = u THEN "free" ELSE boardLock[b]]
  BY DEF EndWriteTx, boardRows
<1>3. sequenceNo' \in Nat /\ sequenceNo <= sequenceNo' BY <1>1, <1>2 DEF BoardTypes
<1> QED BY <1>2, <1>3, BoardTxMoves, <1>1 DEF BoardTxs, TxHolds, BoardIdle, BoardTypes

\* list_activity takes the next number of the ledger.
LEMMA ListActivityInv ==
  ASSUME BoardInv, NEW b \in Boards, ListActivity(b)
  PROVE  BoardInv'
<1>1. BoardTypes /\ NumbersDrawn BY DEF BoardInv
<1>2. PICK e \in ledger :
        /\ e.board = b /\ e.id > cursor[b]
        /\ \A f \in ledger : f.board = b /\ f.id > cursor[b] => e.id <= f.id
        /\ cursor' = [cursor EXCEPT ![b] = e.id]
        /\ pagedEvents' = [pagedEvents EXCEPT ![b] = @ \cup {e.id}] BY DEF ListActivity
<1>3. UNCHANGED <<task, tree, depends, ledger, sequenceNo, boardLock, btx>> BY DEF ListActivity
<1>4. \A f \in ledger : f.id \in Nat BY <1>1 DEF BoardTypes, LedgerEvent
<1>5. /\ cursor'[b] = e.id /\ pagedEvents'[b] = pagedEvents[b] \cup {e.id}
      /\ \A a \in Boards : a # b => cursor'[a] = cursor[a] /\ pagedEvents'[a] = pagedEvents[a]
  BY <1>1, <1>2 DEF BoardTypes
<1>6. ASSUME NEW a \in Boards
      PROVE  pagedEvents'[a] = {f.id : f \in {g \in ledger' : g.board = a /\ g.id <= cursor'[a]}}
  <2>1. pagedEvents[a] = {f.id : f \in {g \in ledger : g.board = a /\ g.id <= cursor[a]}} BY <1>1 DEF NumbersDrawn
  <2>2. CASE a # b BY <2>1, <2>2, <1>3, <1>5
  <2>3. CASE a = b
    <3>1. ASSUME NEW g \in ledger, g.board = b
          PROVE  g.id <= e.id <=> (g.id <= cursor[b] \/ g.id = e.id)
      <4>1. g.id > cursor[b] => e.id <= g.id BY <1>2, <3>1
      <4> QED BY <4>1, <1>1, <1>2, <1>4 DEF BoardTypes
    <3>2. {f.id : f \in {g \in ledger : g.board = b /\ g.id <= e.id}}
            = {f.id : f \in {g \in ledger : g.board = b /\ g.id <= cursor[b]}} \cup {e.id} BY <3>1, <1>2
    <3> QED BY <2>1, <2>3, <3>2, <1>3, <1>5
  <2> QED BY <2>2, <2>3
<1>7. NumbersDrawn' BY <1>1, <1>3, <1>6, <1>2, <1>5 DEF NumbersDrawn
<1>8. \A t \in BoardTasks : TaskHistory(t)' BY <1>3 DEF BoardInv, TaskHistory, EventsOf, IsLast
<1> QED BY <1>7, <1>8, <1>3, <1>1, <1>2, <1>4 DEF BoardInv, TxHolds, RecordFits, BoardTypes, RowTypes

LEMMA RowsAndLedgerStay ==
  ASSUME BoardInv, UNCHANGED boardRows, UNCHANGED <<sequenceNo, boardLock, btx>>
  PROVE  BoardInv'
<1>1. UNCHANGED <<task, tree, depends, ledger, cursor, pagedEvents>> BY DEF boardRows
<1>2. \A u \in BoardUsers : TxHolds(u, btx[u])' BY <1>1 DEF BoardInv, TxHolds, RecordFits
<1>3. \A t \in BoardTasks : TaskHistory(t)' BY <1>1 DEF BoardInv, TaskHistory, EventsOf, IsLast
<1> QED BY <1>2, <1>3, <1>1 DEF BoardInv, BoardTypes, RowTypes, NumbersDrawn

LEMMA BoardStep ==
  ASSUME BoardInv, [BoardNext]_bvars
  PROVE  BoardInv'
<1>1. CASE UNCHANGED bvars BY <1>1, RowsAndLedgerStay DEF bvars, boardRows
<1>2. ASSUME NEW u \in BoardUsers, ChangeAccess(u) PROVE BoardInv' BY <1>2, RowsAndLedgerStay DEF ChangeAccess
<1> QED
  BY <1>1, <1>2, SubmitTaskInv, AuthorizeWriteInv, AppendActivityInv, CommitWriteInv, LoseWriteInv, ListActivityInv
    DEF BoardNext

\* The event that LedgerIsHistory chooses is the one that the invariant has.
LEMMA LastEventIs ==
  ASSUME BoardInv, NEW t \in BoardTasks, NEW kinds, NEW e \in ledger, IsLast(e, t, kinds)
  PROVE  LastEvent(t, kinds) = e
<1> DEFINE Latest(f) == f.t = t /\ f.kind \in kinds
                        /\ \A g \in ledger : g.t = t /\ g.kind \in kinds => g.id <= f.id
           last == LastEvent(t, kinds)
<1>1. BoardTypes /\ NumbersDrawn BY DEF BoardInv
<1>2. e \in ledger /\ Latest(e) BY DEF IsLast, EventsOf
<1>3. last \in ledger /\ Latest(last) BY <1>2 DEF LastEvent
<1> HIDE DEF last
<1>4. last = e BY <1>1, <1>2, <1>3 DEF NumbersDrawn, BoardTypes, LedgerEvent
<1> QED BY <1>4 DEF last

\* The ledger of a workspace, read in the order of its numbers, ends with the
\* state of every task and worktree; its task events are transitions that
\* TaskState allows; dependencies are older tasks of the workspace; and a
\* reader that pages with the last number it has seen misses nothing, although
\* all workspaces share one sequence (append_activity, list_activity).
THEOREM HistoryIsWritten == BoardSpec => []LedgerIsHistory
<1>1. BoardInit => BoardInv BY BoardInitInv
<1>2. BoardInv /\ [BoardNext]_bvars => BoardInv' BY BoardStep
<1>3. BoardInv => LedgerIsHistory
  <2> SUFFICES ASSUME BoardInv PROVE LedgerIsHistory OBVIOUS
  <2>1. ASSUME NEW t \in BoardTasks
        PROVE  LET moves == {"TASK_CREATED", "TASK_STATE_CHANGED"}
                   mine  == {e \in ledger : e.t = t /\ e.kind \in moves}
                   trees == {"WORKTREE_CREATED", "WORKTREE_DELETED"} IN
               /\ IF mine = {} THEN task[t] = "none" ELSE task[t] = LastEvent(t, moves).to
               /\ \A e, f \in mine :
                     e.id < f.id /\ ~(\E g \in mine : e.id < g.id /\ g.id < f.id)
                         => <<e.to, f.to>> \in Transitions
               /\ (tree[t] # "none") =
                     (\E e \in ledger : e.t = t /\ e.kind \in trees
                                        /\ LastEvent(t, trees).kind = "WORKTREE_CREATED")
               /\ \A d \in depends[t] : \E e, f \in ledger :
                     e.t = d /\ f.t = t /\ e.kind = f.kind /\ e.kind = "TASK_CREATED"
                     /\ e.board = f.board /\ e.id < f.id
    <3> USE DEF MoveKinds, TreeKinds
    <3>1. TaskHistory(t) BY DEF BoardInv
    <3>2. IF EventsOf(t, MoveKinds) = {} THEN task[t] = "none"
          ELSE task[t] = LastEvent(t, MoveKinds).to
      <4>1. CASE task[t] = "none" /\ EventsOf(t, MoveKinds) = {} BY <4>1
      <4>2. CASE \E e \in ledger : IsLast(e, t, MoveKinds) /\ e.to = task[t] BY <4>2, LastEventIs DEF IsLast
      <4> QED BY <4>1, <4>2, <3>1 DEF TaskHistory
    <3>3. (tree[t] # "none") =
             (\E e \in ledger : e.t = t /\ e.kind \in TreeKinds
                                /\ LastEvent(t, TreeKinds).kind = "WORKTREE_CREATED")
      <4>1. CASE tree[t] = "none" /\ EventsOf(t, TreeKinds) = {} BY <4>1 DEF EventsOf
      <4>2. ASSUME NEW e \in ledger, IsLast(e, t, TreeKinds),
                   (e.kind = "WORKTREE_CREATED") = (tree[t] # "none")
            PROVE  (tree[t] # "none") =
                      (\E f \in ledger : f.t = t /\ f.kind \in TreeKinds
                                /\ LastEvent(t, TreeKinds).kind = "WORKTREE_CREATED")
        BY <4>2, LastEventIs DEF IsLast, EventsOf
      <4> QED BY <4>1, <4>2, <3>1 DEF TaskHistory
    <3> QED BY <3>1, <3>2, <3>3 DEF TaskHistory, EventsOf
  <2> QED BY <2>1 DEF LedgerIsHistory, NumbersDrawn, BoardInv
<1> QED BY <1>1, <1>2, <1>3, PTL DEF BoardSpec

(***************************************************************************)
(* McpPool.  A connection is its maker's alone until it is in the pool,    *)
(* and nobody uses one that was killed; so the ids of the requests on a    *)
(* connection count its calls, and an answer with the id of a request is   *)
(* the answer to that call.                                                *)
(***************************************************************************)
LoadRows == [pc : {"idle", "pool", "row", "secret", "spawn", "send", "wait", "insert", "lock", "done"},
             c : 0..MaxProcesses,
             method : {"server/discover", "initialize", "tools/list", "tools/call"},
             id : Nat, frames : Nat, connected : BOOLEAN, got : Nat, ok : BOOLEAN]

Negotiations == {"pristine", "staged", "modern", "legacy", "rejected"}
ProcessStates == {"none", "up", "exited", "killed"}
\* A row of process, whatever its pipes carry.
Piped(p) == /\ p = [x \in DOMAIN p |-> p[x]]
            /\ DOMAIN p = {"state", "peer", "negotiation", "era", "next_id", "stdin", "stdout", "holder"}
            /\ p.negotiation \in Negotiations /\ p.state \in ProcessStates

PoolTypes ==
    /\ load \in [Loads -> LoadRows] /\ mcpPool \in 0..MaxProcesses
    /\ asked \in [Connections -> Seq(Loads)]
    /\ process = [c \in Connections |-> process[c]] /\ \A c \in Connections : Piped(process[c])

Running(c) == c \in Connections /\ process[c].state \notin {"none", "killed"}
Using(l) == load[l].pc \in {"send", "wait", "insert", "lock"}

\* Ids are given out in the order of the calls.
IdsCounted == \A c \in Connections : process[c].state # "killed" => process[c].next_id = Len(asked[c])
\* What callers use and what the pool holds runs or has exited, and is not killed.
UsedRuns == /\ \A l \in Loads : Using(l) => Running(load[l].c)
            /\ mcpPool # 0 => Running(mcpPool)
\* A connection that is not in the pool yet is its maker's alone.
MakersAlone ==
    \A l \in Loads :
        /\ load[l].pc \in {"idle", "pool", "row", "secret", "spawn", "insert"} => ~load[l].connected
        /\ load[l].pc = "lock" => load[l].connected
        /\ load[l].pc \in {"send", "wait"} /\ load[l].connected => load[l].method \in {"tools/list", "tools/call"}
        /\ Using(l) /\ ~load[l].connected =>
              /\ mcpPool # load[l].c
              /\ \A m \in Loads \ {l} : Using(m) => load[m].c # load[l].c
\* Who asked what is recorded under the id of the request.
OwnRequest(l, i) == load[l].c \in Connections /\ i \in 1..Len(asked[load[l].c]) /\ asked[load[l].c][i] = l
AskedOwn ==
    \A l \in Loads : /\ load[l].pc = "wait" => OwnRequest(l, load[l].id)
                     /\ load[l].pc = "done" /\ load[l].ok => OwnRequest(l, load[l].got)
                     /\ load[l].ok => load[l].pc = "done"

PoolInv == PoolTypes /\ IdsCounted /\ UsedRuns /\ MakersAlone /\ AskedOwn

LEMMA NoProcessPiped == Piped(NoProcess) /\ NoProcess.state = "none" /\ NoProcess.next_id = 0
BY DEF Piped, NoProcess, Negotiations, ProcessStates

LEMMA PoolInitInv == McpInit => PoolInv
<1> SUFFICES ASSUME McpInit PROVE PoolInv OBVIOUS
<1>1. NoLoad \in LoadRows /\ NoLoad.pc = "idle" /\ ~NoLoad.connected /\ ~NoLoad.ok
  BY McpAssumption DEF NoLoad, LoadRows
<1>2. IdsCounted BY NoProcessPiped DEF McpInit, IdsCounted
<1>3. mcpPool = 0 BY DEF McpInit
<1> HIDE DEF McpInit
<1> QED
  BY <1>2, <1>3, <1>1, NoProcessPiped, McpAssumption DEF PoolInv, UsedRuns, MakersAlone, AskedOwn, McpInit, PoolTypes,
    Using

\* Who holds it, or whether it runs, is written into a row of process.
LEMMA FieldWritten ==
  ASSUME NEW p, Piped(p), NEW v
  PROVE  /\ Piped([p EXCEPT !.holder = v]) /\ [p EXCEPT !.holder = v].state = p.state
         /\ [p EXCEPT !.holder = v].next_id = p.next_id
         /\ v \in ProcessStates => Piped([p EXCEPT !.state = v]) /\ [p EXCEPT !.state = v].state = v
         /\ [p EXCEPT !.state = v].next_id = p.next_id
BY DEF Piped

LEMMA WrittenProcess ==
  ASSUME PoolInv, NEW c \in Connections, NEW r, process' = [process EXCEPT ![c] = r]
  PROVE  /\ process'[c] = r /\ \A d \in Connections \ {c} : process'[d] = process[d]
         /\ process' = [d \in Connections |-> process'[d]]
BY DEF PoolInv, PoolTypes

\* A process goes on: the callers do not notice.
LEMMA ProcessStep ==
  ASSUME PoolInv, NEW c \in Connections, NEW r, Piped(r), Running(c),
         r.state \notin {"none", "killed"}, r.next_id = process[c].next_id,
         process' = [process EXCEPT ![c] = r], UNCHANGED <<load, mcpPool, asked>>
  PROVE  PoolInv'
<1>1. process'[c] = r /\ \A d \in Connections \ {c} : process'[d] = process[d] BY DEF PoolInv, PoolTypes
<1>2. UsedRuns' /\ MakersAlone' /\ AskedOwn'
  BY <1>1 DEF PoolInv, UsedRuns, MakersAlone, AskedOwn, OwnRequest, Using, Running
<1> QED BY <1>2, <1>1 DEF PoolInv, PoolTypes, IdsCounted, Running

\* A caller moves on without a connection.
LEMMA CallerStep ==
  ASSUME PoolInv, NEW l \in Loads, NEW x \in LoadRows, load' = [load EXCEPT ![l] = x],
         UNCHANGED <<process, asked>>, mcpPool' \in {mcpPool, 0},
         x.pc \in {"pool", "row", "secret", "spawn", "done"}, ~x.ok,
         x.pc # "done" => ~x.connected
  PROVE  PoolInv'
<1>1. load'[l] = x /\ \A m \in Loads \ {l} : load'[m] = load[m] BY DEF PoolInv, PoolTypes
<1>2. ~Using(l)' /\ \A m \in Loads \ {l} : Using(m)' <=> Using(m) BY <1>1 DEF Using
<1>3. UsedRuns' BY <1>1, <1>2 DEF PoolInv, UsedRuns, Running
<1>4. MakersAlone' BY <1>1, <1>2, McpAssumption DEF PoolInv, MakersAlone, UsedRuns, Running, Connections
<1>5. AskedOwn' BY <1>1 DEF PoolInv, AskedOwn, OwnRequest
<1> QED BY <1>3, <1>4, <1>5, <1>1, McpAssumption DEF PoolInv, PoolTypes, IdsCounted

LEMMA LookStep ==
  ASSUME PoolInv, NEW l \in Loads,
         StartLoad(l) \/ ConnectRow(l) \/ ResolveSecret(l)
  PROVE  PoolInv'
<1>1. load[l] \in LoadRows /\ load[l].pc \in {"idle", "row", "secret"} /\ ~load[l].connected /\ ~load[l].ok
  BY DEF PoolInv, PoolTypes, MakersAlone, AskedOwn, StartLoad, ConnectRow, ResolveSecret
<1>2. PICK pc \in {"pool", "secret", "spawn", "done"} : load' = [load EXCEPT ![l].pc = pc]
  BY DEF StartLoad, ConnectRow, ResolveSecret
<1>3. PICK x \in LoadRows : x = [load[l] EXCEPT !.pc = pc] BY <1>1 DEF LoadRows
<1>4. UNCHANGED <<process, asked>> /\ mcpPool' \in {mcpPool, 0} BY DEF StartLoad, ConnectRow, ResolveSecret
<1> QED BY <1>4, CallerStep, <1>1, <1>3, <1>2 DEF LoadRows

\* A caller that uses a connection, with the row it leaves and the connection.
LEMMA UserStep ==
  ASSUME PoolInv, NEW l \in Loads, NEW c \in Connections, NEW x \in LoadRows, NEW r, Piped(r),
         load' = [load EXCEPT ![l] = x], process' = [process EXCEPT ![c] = r],
         x.pc \in {"send", "wait", "insert"}, x.c = c, ~x.ok,
         r.state \notin {"none", "killed"}, r.next_id = Len(asked'[c]),
         asked' \in [Connections -> Seq(Loads)],
         \A d \in Connections : /\ d # c => asked'[d] = asked[d]
                                /\ \A i \in 1..Len(asked[d]) : i \in 1..Len(asked'[d]) /\ asked'[d][i] = asked[d][i],
         x.pc = "wait" => x.id \in 1..Len(asked'[c]) /\ asked'[c][x.id] = l,
         x.pc = "insert" => ~x.connected,
         x.connected => x.method \in {"tools/list", "tools/call"} /\ Running(c)
                        /\ \A m \in Loads \ {l} : Using(m) /\ load[m].c = c => load[m].connected,
         ~x.connected => mcpPool # c /\ \A m \in Loads \ {l} : Using(m) => load[m].c # c,
         UNCHANGED mcpPool
  PROVE  PoolInv'
<1>1. load'[l] = x /\ \A m \in Loads \ {l} : load'[m] = load[m] BY DEF PoolInv, PoolTypes
<1>2. process'[c] = r /\ \A d \in Connections \ {c} : process'[d] = process[d] BY DEF PoolInv, PoolTypes
<1>3. IdsCounted' BY <1>2 DEF PoolInv, IdsCounted
<1>4. /\ Using(l)' /\ \A m \in Loads \ {l} : Using(m)' <=> Using(m) BY <1>1 DEF Using
<1>5. UsedRuns' BY <1>1, <1>4, <1>2 DEF PoolInv, UsedRuns, Running
<1>6. MakersAlone'
  <2>1. ASSUME NEW m \in Loads \ {l}, Using(m), ~load[m].connected PROVE load[m].c # c
    <3>1. CASE x.connected BY <2>1, <3>1
    <3>2. CASE ~x.connected BY <2>1, <3>2
    <3> QED BY <3>1, <3>2
  <2> QED BY <1>1, <1>4, <2>1 DEF PoolInv, MakersAlone
<1>7. AskedOwn'
  <2>1. ASSUME NEW m \in Loads \ {l}, NEW i, OwnRequest(m, i) PROVE OwnRequest(m, i)' BY <1>1, <2>1 DEF OwnRequest
  <2> QED BY <1>1, <2>1 DEF PoolInv, AskedOwn, OwnRequest
<1> QED BY <1>3, <1>5, <1>6, <1>7, <1>1, <1>2 DEF PoolInv, PoolTypes

\* A call ends: its connection goes back to the pool, or is killed.
LEMMA CallEndsStep ==
  ASSUME PoolInv, NEW l \in Loads, load[l].pc \in {"send", "wait"}, NEW answer \in Nat, NEW p, Piped(p),
         EndsLoad(l, answer, load[l].c, p), UNCHANGED mcpPool,
         p.state = process[load[l].c].state, load[l].connected => p.next_id = Len(asked'[load[l].c]),
         asked' \in [Connections -> Seq(Loads)],
         \A d \in Connections : /\ d # load[l].c \/ ~load[l].connected => asked'[d] = asked[d]
                                /\ \A i \in 1..Len(asked[d]) : i \in 1..Len(asked'[d]) /\ asked'[d][i] = asked[d][i],
         answer # 0 => OwnRequest(l, answer)
  PROVE  PoolInv'
<1> DEFINE c == load[l].c
<1>1. load \in [Loads -> LoadRows] /\ load[l] \in LoadRows BY DEF PoolInv, PoolTypes
<1>2. c \in Connections /\ Running(c) /\ c # 0 BY McpAssumption DEF PoolInv, UsedRuns, Using, Running, Connections
<1>3. PICK ok \in BOOLEAN : ok <=> answer # 0 OBVIOUS
<1>4. PICK x \in LoadRows : x = [load[l] EXCEPT !.pc = "done", !.ok = ok, !.got = answer] BY <1>1 DEF LoadRows
<1>5. x.pc = "done" /\ (x.ok <=> answer # 0) /\ x.got = answer /\ x.c = c BY <1>1, <1>3, <1>4 DEF LoadRows
<1>6. load' = [load EXCEPT ![l] = x] BY <1>1, <1>4, <1>3 DEF EndsLoad
<1>7. load'[l] = x /\ \A m \in Loads \ {l} : load'[m] = load[m] BY <1>1, <1>6
<1> DEFINE r == process'[c]
<1>8. /\ Piped(r) /\ \A d \in Connections \ {c} : process'[d] = process[d]
      /\ process' = [d \in Connections |-> process'[d]]
      /\ IF load[l].connected THEN r.state = process[c].state /\ r.next_id = Len(asked'[c])
         ELSE r.state = "killed"
  <2>1. CASE load[l].connected
    <3>1. Piped([p EXCEPT !.holder = "nobody"]) /\ [p EXCEPT !.holder = "nobody"].state = process[c].state
          /\ [p EXCEPT !.holder = "nobody"].next_id = Len(asked'[c])
      <4> DEFINE q == [p EXCEPT !.holder = "nobody"]
      <4>1. Piped(q) /\ q.state = p.state /\ q.next_id = p.next_id BY FieldWritten
      <4> HIDE DEF q
      <4> QED BY <2>1, <4>1 DEF q
    <3> QED BY <1>2, <2>1, <3>1, WrittenProcess DEF EndsLoad
  <2>2. CASE ~load[l].connected
    <3>1. Piped([NoProcess EXCEPT !.state = "killed"]) /\ [NoProcess EXCEPT !.state = "killed"].state = "killed"
      BY FieldWritten, NoProcessPiped DEF ProcessStates
    <3> QED BY <1>2, <2>2, <3>1, WrittenProcess DEF EndsLoad
  <2> QED BY <2>1, <2>2
<1> HIDE DEF c, r
<1>9. IdsCounted'
  <2>1. ASSUME NEW d \in Connections, process'[d].state # "killed" PROVE process'[d].next_id = Len(asked'[d])
    <3>1. CASE d = c BY <1>8, <2>1, <3>1 DEF r
    <3>2. CASE d # c BY <1>8, <2>1, <3>2 DEF PoolInv, IdsCounted, c
    <3> QED BY <3>1, <3>2
  <2> QED BY <2>1 DEF IdsCounted
<1>10. ~Using(l)' /\ \A m \in Loads \ {l} : Using(m)' <=> Using(m) BY <1>5, <1>7 DEF Using
<1>11. \A d : Running(d) /\ (d = c => load[l].connected) => Running(d)' BY <1>8 DEF Running, r
<1>12. UsedRuns' BY <1>7, <1>10, <1>11 DEF PoolInv, UsedRuns, MakersAlone, c, Using
<1>13. MakersAlone' BY <1>5, <1>7, <1>10 DEF PoolInv, MakersAlone
<1>14. AskedOwn'
  <2>1. ASSUME NEW m \in Loads \ {l}, NEW i, OwnRequest(m, i) PROVE OwnRequest(m, i)' BY <1>7, <2>1 DEF OwnRequest
  <2>2. x.ok => OwnRequest(l, x.got)' BY <1>5, <1>7, <1>2 DEF OwnRequest, c
  <2> QED BY <1>5, <1>7, <2>1, <2>2 DEF PoolInv, AskedOwn
<1> QED BY <1>9, <1>12, <1>13, <1>14, <1>1, <1>6, <1>8, <1>2 DEF PoolInv, PoolTypes, r

LEMMA NewLoadTyped ==
  ASSUME PoolInv, NEW l \in Loads
  PROVE  load[l] \in LoadRows /\ load \in [Loads -> LoadRows]
BY DEF PoolInv, PoolTypes

\* What a caller in the middle of a request knows of its connection.
LEMMA Caller ==
  ASSUME PoolInv, NEW l \in Loads, Using(l)
  PROVE  /\ load[l].c \in Connections /\ Running(load[l].c) /\ ~load[l].ok
         /\ Piped(process[load[l].c]) /\ process[load[l].c].next_id = Len(asked[load[l].c])
         /\ load[l].connected => \A m \in Loads \ {l} : Using(m) /\ load[m].c = load[l].c => load[m].connected
         /\ ~load[l].connected => /\ mcpPool # load[l].c
                                  /\ \A m \in Loads \ {l} : Using(m) => load[m].c # load[l].c
  BY DEF PoolInv, PoolTypes, IdsCounted, Running, MakersAlone, UsedRuns, AskedOwn, Using

\* A call that ends with no id more given out.
LEMMA AnswersStep ==
  ASSUME PoolInv, NEW l \in Loads, load[l].pc \in {"send", "wait"}, NEW answer \in Nat, NEW p, Piped(p),
         EndsLoad(l, answer, load[l].c, p), UNCHANGED <<mcpPool, asked>>,
         p.state = process[load[l].c].state, p.next_id = process[load[l].c].next_id,
         answer # 0 => OwnRequest(l, answer)
  PROVE  PoolInv'
<1>1. Using(l) BY DEF Using
<1> QED BY CallEndsStep, <1>1, Caller DEF PoolInv, PoolTypes

LEMMA FailsStep ==
  ASSUME PoolInv, NEW l \in Loads, load[l].pc \in {"send", "wait"}, Fails(l), UNCHANGED <<mcpPool, asked>>
  PROVE  PoolInv'
<1>1. PICK p : p = process[load[l].c] OBVIOUS
<1> QED BY <1>1, AnswersStep, Caller DEF Fails, Using

\* A caller takes the connection of the pool.
LEMMA PoolTakenStep ==
  ASSUME PoolInv, NEW l \in Loads, NEW x \in LoadRows, load' = [load EXCEPT ![l] = x],
         UNCHANGED <<mcpPool, process, asked>>, mcpPool # 0,
         x.pc = "lock", ~x.ok, x.connected, x.c = mcpPool
  PROVE  PoolInv'
<1>1. load'[l] = x /\ \A m \in Loads \ {l} : load'[m] = load[m] BY NewLoadTyped
<1>2. Using(l)' /\ \A m \in Loads \ {l} : Using(m)' <=> Using(m) BY <1>1 DEF Using
<1>3. UsedRuns' BY <1>1, <1>2 DEF PoolInv, UsedRuns, Running
<1>4. MakersAlone' BY <1>1, <1>2 DEF PoolInv, MakersAlone
<1>5. AskedOwn' BY <1>1 DEF PoolInv, AskedOwn, OwnRequest
<1> QED BY <1>3, <1>4, <1>5, NewLoadTyped DEF PoolInv, PoolTypes, IdsCounted

LEMMA PoolLookupStep ==
  ASSUME PoolInv, NEW l \in Loads, PoolLookup(l)
  PROVE  PoolInv'
<1>1. load[l].pc = "pool" /\ ~load[l].connected /\ ~load[l].ok /\ UNCHANGED <<mcpPool, process, asked>>
  BY DEF PoolLookup, PoolInv, MakersAlone, AskedOwn
<1>2. CASE mcpPool = 0
  <2>1. PICK x \in LoadRows : x = [load[l] EXCEPT !.pc = "row"] BY NewLoadTyped DEF LoadRows
  <2> QED BY <1>1, CallerStep, <2>1, NewLoadTyped, <1>2 DEF LoadRows, PoolLookup
<1>3. CASE mcpPool # 0
  <2>1. PICK x \in LoadRows : x = [load[l] EXCEPT !.pc = "lock", !.c = mcpPool, !.connected = TRUE]
    BY NewLoadTyped DEF LoadRows, PoolInv, PoolTypes
  <2> QED BY <1>1, <1>3, PoolTakenStep, <2>1, NewLoadTyped DEF LoadRows, PoolLookup
<1> QED BY <1>2, <1>3

LEMMA PoolInsertStep ==
  ASSUME PoolInv, NEW l \in Loads, PoolInsert(l)
  PROVE  PoolInv'
<1> DEFINE own == load[l].c
<1>1. /\ load[l].pc = "insert" /\ ~load[l].connected /\ ~load[l].ok /\ UNCHANGED asked
      /\ own \in Connections /\ Running(own) /\ mcpPool # own
      /\ \A m \in Loads \ {l} : Using(m) => load[m].c # own
  BY DEF PoolInsert, PoolInv, MakersAlone, AskedOwn, UsedRuns, Using, Running
<1>2. CASE mcpPool = 0
  <2>1. PICK x \in LoadRows : x = [load[l] EXCEPT !.pc = "lock", !.connected = TRUE] BY NewLoadTyped DEF LoadRows
  <2>2. x.pc = "lock" /\ ~x.ok /\ x.connected /\ x.c = own BY <1>1, <2>1, NewLoadTyped DEF LoadRows
  <2>3. load' = [load EXCEPT ![l] = x] /\ mcpPool' = own /\ UNCHANGED process BY <1>2, <2>1 DEF PoolInsert
  <2>4. load'[l] = x /\ \A m \in Loads \ {l} : load'[m] = load[m] BY <2>3, NewLoadTyped
  <2> HIDE DEF own
  <2>5. Using(l)' /\ \A m \in Loads \ {l} : Using(m)' <=> Using(m) BY <2>2, <2>4 DEF Using
  <2>6. UsedRuns' BY <1>1, <2>2, <2>3, <2>4, <2>5 DEF PoolInv, UsedRuns, Running
  <2>7. MakersAlone' BY <1>1, <2>2, <2>3, <2>4, <2>5 DEF PoolInv, MakersAlone
  <2>8. AskedOwn' BY <1>1, <2>2, <2>4 DEF PoolInv, AskedOwn, OwnRequest
  <2> QED BY <2>6, <2>7, <2>8, <1>1, <2>3, NewLoadTyped, McpAssumption DEF PoolInv, PoolTypes, Connections, IdsCounted
<1>3. CASE mcpPool # 0
  <2>1. PICK x \in LoadRows : x = [load[l] EXCEPT !.pc = "lock", !.c = mcpPool, !.connected = TRUE]
    BY NewLoadTyped DEF LoadRows, PoolInv, PoolTypes
  <2>2. x.pc = "lock" /\ ~x.ok /\ x.connected /\ x.c = mcpPool BY <1>1, <2>1, NewLoadTyped DEF LoadRows
  <2>3. load' = [load EXCEPT ![l] = x] /\ UNCHANGED mcpPool BY <1>3, <2>1 DEF PoolInsert
  <2>4. load'[l] = x /\ \A m \in Loads \ {l} : load'[m] = load[m] BY <2>3, NewLoadTyped
  <2>5. process' = [process EXCEPT ![own] = [NoProcess EXCEPT !.state = "killed"]] BY <1>3 DEF PoolInsert
  <2>6. Piped([NoProcess EXCEPT !.state = "killed"]) /\ [NoProcess EXCEPT !.state = "killed"].state = "killed"
    BY FieldWritten, NoProcessPiped DEF ProcessStates
  <2>7. /\ Piped(process'[own]) /\ process'[own].state = "killed"
        /\ \A d \in Connections \ {own} : process'[d] = process[d]
        /\ process' = [d \in Connections |-> process'[d]] BY <1>1, <2>5, <2>6, WrittenProcess
  <2> HIDE DEF own
  <2>8. Using(l)' /\ \A m \in Loads \ {l} : Using(m)' <=> Using(m) BY <2>2, <2>4 DEF Using
  <2>9. UsedRuns' BY <1>1, <1>3, <2>2, <2>3, <2>4, <2>8, <2>7 DEF PoolInv, UsedRuns, Running
  <2>10. MakersAlone' BY <1>1, <2>2, <2>3, <2>4, <2>8 DEF PoolInv, MakersAlone
  <2>11. AskedOwn' BY <1>1, <2>2, <2>4 DEF PoolInv, AskedOwn, OwnRequest
  <2> QED BY <2>9, <2>10, <2>11, <1>1, <2>3, <2>7, NewLoadTyped DEF PoolInv, PoolTypes, IdsCounted
<1> QED BY <1>2, <1>3

\* A caller goes on with its connection; ids and answers stay as they are.
LEMMA GoesOn ==
  ASSUME PoolInv, NEW l \in Loads, Using(l), NEW x \in LoadRows, load' = [load EXCEPT ![l] = x],
         x.c = load[l].c, x.id = load[l].id, x.connected = load[l].connected, x.ok = load[l].ok,
         x.pc \in {"send", "wait", "insert"}, x.pc = "wait" => load[l].pc = "wait",
         x.connected => x.pc # "insert" /\ x.method \in {"tools/list", "tools/call"},
         NEW r, Piped(r), r.state = process[load[l].c].state, r.next_id = process[load[l].c].next_id,
         process' = [process EXCEPT ![load[l].c] = r], UNCHANGED <<mcpPool, asked>>
  PROVE  PoolInv'
<1> DEFINE c == load[l].c
<1>1. c \in Connections /\ Running(c) /\ ~x.ok /\ process[c].next_id = Len(asked[c]) BY Caller
<1>2. /\ x.connected => \A m \in Loads \ {l} : Using(m) /\ load[m].c = c => load[m].connected
      /\ ~x.connected => mcpPool # c /\ \A m \in Loads \ {l} : Using(m) => load[m].c # c BY Caller
<1>3. process' = [process EXCEPT ![c] = r] /\ x.c = c /\ r.next_id = process[c].next_id OBVIOUS
<1> HIDE DEF c
<1>4. /\ asked' \in [Connections -> Seq(Loads)] /\ r.next_id = Len(asked'[c])
      /\ x.pc = "wait" => x.id \in 1..Len(asked'[c]) /\ asked'[c][x.id] = l
      /\ \A d \in Connections : /\ d # c => asked'[d] = asked[d]
                                /\ \A i \in 1..Len(asked[d]) : i \in 1..Len(asked'[d]) /\ asked'[d][i] = asked[d][i]
  BY <1>1, <1>3 DEF PoolInv, AskedOwn, OwnRequest, PoolTypes
<1>5. x.pc = "insert" => ~x.connected OBVIOUS
<1> QED BY <1>1, <1>2, <1>3, <1>4, <1>5, UserStep DEF Running

LEMMA LockClientStep ==
  ASSUME PoolInv, NEW l \in Loads, LockClient(l)
  PROVE  PoolInv'
<1>1. load[l].pc = "lock" /\ load[l].connected /\ Using(l) /\ UNCHANGED <<mcpPool, asked>>
  BY DEF LockClient, Using, PoolInv, MakersAlone
<1>2. PICK m \in {"tools/list", "tools/call"} : load' = [load EXCEPT ![l].pc = "send", ![l].method = m]
  BY DEF LockClient
<1>3. PICK x \in LoadRows : x = [load[l] EXCEPT !.pc = "send", !.method = m] BY NewLoadTyped DEF LoadRows
<1>4. load' = [load EXCEPT ![l] = x] BY <1>2, <1>3
<1>5. PICK p : p = process[load[l].c] OBVIOUS
<1> DEFINE r == [p EXCEPT !.holder = l]
<1>6. Piped(r) /\ r.state = process[load[l].c].state /\ r.next_id = process[load[l].c].next_id
  BY <1>5, <1>1, Caller DEF Piped
<1>7. process' = [process EXCEPT ![load[l].c] = r] BY <1>5 DEF LockClient
<1> HIDE DEF r
<1> QED BY <1>1, <1>4, <1>6, <1>7, GoesOn, <1>3, NewLoadTyped DEF LoadRows

LEMMA SpawnServerStep ==
  ASSUME PoolInv, NEW l \in Loads, SpawnServer(l)
  PROVE  PoolInv'
<1>1. load[l].pc = "spawn" /\ ~load[l].connected /\ ~load[l].ok /\ UNCHANGED <<mcpPool, asked>>
  BY DEF SpawnServer, PoolInv, MakersAlone, AskedOwn
<1>2. CASE load' = [load EXCEPT ![l].pc = "done"] /\ UNCHANGED process
  <2>1. PICK x \in LoadRows : x = [load[l] EXCEPT !.pc = "done"] BY NewLoadTyped DEF LoadRows
  <2> QED BY <1>1, <1>2, CallerStep, <2>1, NewLoadTyped DEF LoadRows
<1>3. ASSUME NEW c \in Connections, NEW peer, process[c].state = "none",
             process' = [process EXCEPT ![c].state = "up", ![c].peer = peer],
             load' = [load EXCEPT ![l].pc = "send", ![l].c = c]
      PROVE  PoolInv'
  <2>1. PICK x \in LoadRows : x = [load[l] EXCEPT !.pc = "send", !.c = c]
    <3>1. c \in 0..MaxProcesses BY McpAssumption DEF Connections
    <3> QED BY <3>1, NewLoadTyped DEF LoadRows
  <2>2. load' = [load EXCEPT ![l] = x] BY <1>3, <2>1
  <2> DEFINE r == [process[c] EXCEPT !.state = "up", !.peer = peer]
             q == [process[c] EXCEPT !.state = "up"]
  <2>3. Piped(process[c]) /\ process[c].next_id = Len(asked[c]) BY <1>3 DEF PoolInv, PoolTypes, IdsCounted
  <2>4. Piped(q) /\ q.state = "up" /\ q.next_id = Len(asked[c])
    <3>1. PICK p : p = process[c] OBVIOUS
    <3>2. q = [p EXCEPT !.state = "up"] BY <3>1
    <3> HIDE DEF q, r
    <3> QED BY <2>3, <3>1, <3>2 DEF Piped, ProcessStates
  <2>5. Piped(r) /\ r.state = "up" /\ r.next_id = Len(asked[c])
    <3> DEFINE w(p) == [p EXCEPT !.peer = peer]
    <3>1. w(q) = r BY <2>3 DEF Piped
    <3> HIDE DEF q, r
    <3> QED BY <3>1, <2>4 DEF Piped
  <2>6. process' = [process EXCEPT ![c] = r] BY <1>3, <2>3
  <2>7. mcpPool # c /\ \A m \in Loads \ {l} : Using(m) => load[m].c # c
    BY <1>3, McpAssumption DEF PoolInv, UsedRuns, Running, Connections
  <2> HIDE DEF r
  <2>8. asked' \in [Connections -> Seq(Loads)] /\ r.state \notin {"none", "killed"} /\ r.next_id = Len(asked'[c])
    BY <1>1, <2>5 DEF PoolInv, PoolTypes
  <2> QED BY <1>1, <2>2, <2>5, <2>6, <2>7, <2>8, UserStep, <2>1, NewLoadTyped DEF LoadRows
<1> QED BY <1>2, <1>3 DEF SpawnServer

\* An id more is given out for a connection.
LEMMA AskedMore ==
  ASSUME PoolInv, NEW l \in Loads, NEW c \in Connections, asked' = [asked EXCEPT ![c] = Append(@, l)]
  PROVE  /\ asked' \in [Connections -> Seq(Loads)]
         /\ Len(asked[c]) \in Nat /\ Len(asked'[c]) = Len(asked[c]) + 1 /\ asked'[c][Len(asked[c]) + 1] = l
         /\ \A d \in Connections :
               /\ d # c => asked'[d] = asked[d]
               /\ \A i \in 1..Len(asked[d]) : i \in 1..Len(asked'[d]) /\ asked'[d][i] = asked[d][i]
<1>1. asked \in [Connections -> Seq(Loads)] /\ asked[c] \in Seq(Loads) BY DEF PoolInv, PoolTypes
<1> QED BY <1>1, AppendProperties

LEMMA SendRequestStep ==
  ASSUME PoolInv, NEW l \in Loads, SendRequest(l)
  PROVE  PoolInv'
<1> DEFINE c == load[l].c
           id == process[c].next_id + 1
<1>1. load[l].pc = "send" /\ Using(l) /\ UNCHANGED mcpPool BY DEF SendRequest, Using
<1>2. CASE process[c].state = "exited" BY <1>1, FailsStep, <1>2 DEF SendRequest
<1>3. CASE process[c].state # "exited"
  <2>1. PICK f : /\ process' = [process EXCEPT ![c].next_id = id, ![c].stdin = Append(@, f)]
                 /\ load' = [load EXCEPT ![l].pc = "wait", ![l].id = id, ![l].frames = 0]
                 /\ asked' = [asked EXCEPT ![c] = Append(@, l)] BY <1>3 DEF SendRequest
  <2>2. c \in Connections /\ Running(c) /\ process[c].next_id = Len(asked[c]) /\ Piped(process[c])
        /\ Len(asked[c]) \in Nat BY <1>1, Caller DEF PoolInv, PoolTypes
  <2>3. PICK n \in Nat : n = id BY <2>2
  <2>4. PICK x \in LoadRows : x = [load[l] EXCEPT !.pc = "wait", !.id = n, !.frames = 0] BY NewLoadTyped DEF LoadRows
  <2>5. /\ x.pc = "wait" /\ x.id = n /\ ~x.ok /\ x.c = c /\ x.connected = load[l].connected
        /\ x.method = load[l].method BY <1>1, <2>4, NewLoadTyped, Caller DEF LoadRows
  <2>6. load' = [load EXCEPT ![l] = x] BY <2>1, <2>3, <2>4
  <2>7. PICK p : p = process[c] OBVIOUS
  <2> DEFINE r == [p EXCEPT !.next_id = n, !.stdin = Append(p.stdin, f)]
  <2>8. process' = [process EXCEPT ![c] = r] BY <2>1, <2>2, <2>3, <2>7 DEF Piped
  <2>9. Piped(r) /\ r.state = process[c].state /\ r.next_id = n BY <2>7, <2>2 DEF Piped
  <2>10. /\ load[l].connected => load[l].method \in {"tools/list", "tools/call"}
         /\ load[l].connected => \A m \in Loads \ {l} : Using(m) /\ load[m].c = c => load[m].connected
         /\ ~load[l].connected => mcpPool # c /\ \A m \in Loads \ {l} : Using(m) => load[m].c # c
    BY <1>1, Caller DEF PoolInv, MakersAlone
  <2>11. n = Len(asked[c]) + 1 BY <2>2, <2>3
  <2> HIDE DEF c, id, r
  <2>12. /\ asked' \in [Connections -> Seq(Loads)] /\ r.next_id = Len(asked'[c])
         /\ x.id \in 1..Len(asked'[c]) /\ asked'[c][x.id] = l
         /\ \A d \in Connections :
               /\ d # c => asked'[d] = asked[d]
               /\ \A i \in 1..Len(asked[d]) : i \in 1..Len(asked'[d]) /\ asked'[d][i] = asked[d][i]
    <3>1. /\ asked' \in [Connections -> Seq(Loads)]
          /\ Len(asked'[c]) = Len(asked[c]) + 1 /\ asked'[c][Len(asked[c]) + 1] = l
          /\ \A d \in Connections :
                /\ d # c => asked'[d] = asked[d]
                /\ \A i \in 1..Len(asked[d]) : i \in 1..Len(asked'[d]) /\ asked'[d][i] = asked[d][i]
      BY <2>1, <2>2, AskedMore
    <3>2. x.id = Len(asked[c]) + 1 /\ r.next_id = Len(asked[c]) + 1 BY <2>5, <2>9, <2>11
    <3> QED BY <3>1, <3>2, <2>2
  <2> QED BY <1>1, <2>2, <2>5, <2>6, <2>8, <2>9, <2>10, <2>12, UserStep DEF Running
<1> QED BY <1>2, <1>3

LEMMA ReceiveStep ==
  ASSUME PoolInv, NEW l \in Loads, Receive(l)
  PROVE  PoolInv'
<1>1. load[l].pc = "wait" /\ Using(l) /\ ~load[l].ok /\ UNCHANGED <<mcpPool, asked>> BY Caller DEF Receive, Using
<1>2. PICK c : c = load[l].c OBVIOUS
<1>3. PICK f : f = Head(process[c].stdout) OBVIOUS
<1>4. PICK p : p = [process[c] EXCEPT !.stdout = Tail(@)] OBVIOUS
<1>5. Piped(p) /\ p.state = process[c].state /\ p.next_id = process[c].next_id BY <1>4, <1>1, <1>2, Caller DEF Piped
<1>6. ASSUME EndsLoad(l, 0, c, p) PROVE PoolInv' BY <1>1, <1>2, <1>5, <1>6, AnswersStep
<1>7. ASSUME NEW pc \in {"send", "wait", "insert"}, NEW method \in {load[l].method, "initialize"}, NEW n \in Nat,
             load' = [load EXCEPT ![l] = [@ EXCEPT !.pc = pc, !.method = method, !.frames = n]],
             pc = "insert" \/ method # load[l].method => load[l].method \in {"server/discover", "initialize"},
             NEW r, Piped(r), r.state = p.state, r.next_id = p.next_id,
             process' = [process EXCEPT ![c] = r]
      PROVE  PoolInv'
  <2>1. PICK x \in LoadRows : x = [load[l] EXCEPT !.pc = pc, !.method = method, !.frames = n]
    BY NewLoadTyped DEF LoadRows
  <2>2. /\ x.pc = pc /\ x.method = method /\ x.c = load[l].c /\ x.id = load[l].id
        /\ x.connected = load[l].connected /\ x.ok = load[l].ok BY <2>1, NewLoadTyped DEF LoadRows
  <2>3. x.connected => x.pc # "insert" /\ x.method \in {"tools/list", "tools/call"}
    BY <1>7, <2>2, <1>1 DEF PoolInv, MakersAlone
  <2> QED BY <1>1, <1>2, <1>5, <1>7, <2>2, <2>3, GoesOn, <2>1
<1>8. load[l] \in LoadRows /\ load[l].frames \in Nat BY NewLoadTyped DEF LoadRows
<1>9. CASE Fails(l) BY <1>1, <1>9, FailsStep
<1>10. CASE OwnAnswer(f, load[l].id) /\ HandleAnswer(l, c, p, f)
  <2>1. PICK answer : answer = f.id OBVIOUS
  <2>2. CASE EndsLoad(l, 0, c, p) BY <1>6, <2>2
  <2>3. CASE ToolsListed(l, c, p, f) \/ Called(l, c, p, f)
    <3>1. PICK a \in {answer, 0} : EndsLoad(l, a, c, p) BY <2>1, <2>3 DEF ToolsListed, Called
    <3> QED BY <1>1, <1>2, <1>5, <3>1, AnswersStep, <1>8, <1>10, <2>1 DEF OwnAnswer, PoolInv, AskedOwn, LoadRows
  <2>4. CASE load[l].method = "server/discover" /\ Discovered(l, c, p, f)
    <3>1. CASE /\ load' = [load EXCEPT ![l].pc = "insert"]
               /\ process' = [process EXCEPT ![c] = [p EXCEPT !.era = Modern]]
      <4> DEFINE r == [p EXCEPT !.era = Modern]
      <4>1. Piped(r) /\ r.state = p.state /\ r.next_id = p.next_id BY <1>5 DEF Piped
      <4>2. load' = [load EXCEPT ![l] = [@ EXCEPT !.pc = "insert", !.method = load[l].method,
                                                  !.frames = load[l].frames]] BY <1>8, <3>1 DEF LoadRows
      <4>3. process' = [process EXCEPT ![c] = r] BY <3>1
      <4> HIDE DEF r
      <4> QED BY <1>7, <1>8, <2>4, <4>1, <4>2, <4>3
    <3>2. CASE /\ load' = [load EXCEPT ![l].pc = "send", ![l].method = "initialize"]
               /\ process' = [process EXCEPT ![c] = p]
      <4>1. load' = [load EXCEPT ![l] = [@ EXCEPT !.pc = "send", !.method = "initialize",
                                                  !.frames = load[l].frames]] BY <1>8, <3>2 DEF LoadRows
      <4> QED BY <1>5, <1>7, <1>8, <2>4, <3>2, <4>1
    <3> QED BY <2>4, <3>1, <3>2 DEF Discovered
  <2>5. CASE load[l].method = "initialize" /\ Initialized(l, c, p, f)
    <3>1. CASE EndsLoad(l, 0, c, p) BY <1>6, <3>1
    <3>2. ASSUME NEW g, load' = [load EXCEPT ![l].pc = "insert"],
                 process' = [process EXCEPT ![c] = [p EXCEPT !.era = Legacy, !.stdin = Append(@, g)]]
          PROVE  PoolInv'
      <4> DEFINE r == [p EXCEPT !.era = Legacy, !.stdin = Append(@, g)]
      <4>1. Piped(r) /\ r.state = p.state /\ r.next_id = p.next_id BY <1>5 DEF Piped
      <4>2. load' = [load EXCEPT ![l] = [@ EXCEPT !.pc = "insert", !.method = load[l].method,
                                                  !.frames = load[l].frames]] BY <1>8, <3>2 DEF LoadRows
      <4>3. process' = [process EXCEPT ![c] = r] BY <3>2
      <4> HIDE DEF r
      <4> QED BY <1>7, <1>8, <2>5, <4>1, <4>2, <4>3
    <3> QED BY <2>5, <3>1, <3>2 DEF Initialized
  <2> QED BY <1>10, <2>2, <2>3, <2>4, <2>5 DEF HandleAnswer
<1>11. CASE load' = [load EXCEPT ![l].frames = @ + 1] /\ process' = [process EXCEPT ![c] = p]
  <2>1. PICK n \in Nat : n = load[l].frames + 1 BY <1>8
  <2>2. load' = [load EXCEPT ![l] = [@ EXCEPT !.pc = "wait", !.method = load[l].method, !.frames = n]]
    BY <1>1, <1>8, <1>11, <2>1 DEF LoadRows
  <2> QED BY <1>5, <1>7, <1>11, <2>2
<1> QED BY <1>2, <1>3, <1>4, <1>6, <1>9, <1>10, <1>11 DEF Receive

LEMMA RequestTimeoutStep ==
  ASSUME PoolInv, NEW l \in Loads, RequestTimeout(l)
  PROVE  PoolInv'
<1>1. load[l].pc \in {"send", "wait"} /\ Using(l) /\ UNCHANGED mcpPool BY DEF RequestTimeout, Using
<1>2. PICK c : c = load[l].c OBVIOUS
<1>3. PICK p : p = process[c] OBVIOUS
<1>4. Piped(p) /\ c \in Connections /\ p.next_id = Len(asked[c]) /\ Len(asked[c]) \in Nat
  BY <1>1, <1>2, <1>3, Caller DEF PoolInv, PoolTypes
<1>5. asked' = [asked EXCEPT ![c] = IF load[l].pc = "send" /\ load[l].connected
                                        /\ process'[c].next_id > p.next_id THEN Append(@, l) ELSE @]
  BY <1>2, <1>3 DEF RequestTimeout
<1>6. asked \in [Connections -> Seq(Loads)] BY DEF PoolInv, PoolTypes
<1>7. ASSUME NEW q, EndsLoad(l, 0, c, q), load[l].connected PROVE process'[c] = [q EXCEPT !.holder = "nobody"]
  <2>1. process' = [process EXCEPT ![c] = [q EXCEPT !.holder = "nobody"]]
    <3>1. c # 0 BY <1>4, McpAssumption DEF Connections
    <3> QED BY <1>2, <1>7, <3>1 DEF EndsLoad
  <2> QED BY <1>4, <2>1, WrittenProcess
<1>8. ASSUME NEW q, Piped(q), q.state = p.state, q.next_id = p.next_id, EndsLoad(l, 0, c, q) PROVE PoolInv'
  <2>1. load[l].connected => process'[c].next_id = p.next_id
    <3>1. [q EXCEPT !.holder = "nobody"].next_id = p.next_id BY <1>8 DEF Piped
    <3> QED BY <1>7, <1>8, <3>1
  <2>2. asked' = asked BY <1>5, <1>6, <1>4, <2>1
  <2> QED BY <1>1, <1>2, <1>3, <1>8, <2>2, AnswersStep
<1>9. ASSUME load[l].pc = "send", EndsLoad(l, 0, c, [p EXCEPT !.stdin = Append(@, Torn), !.next_id = @ + 1])
      PROVE  PoolInv'
  <2> DEFINE q == [p EXCEPT !.stdin = Append(@, Torn), !.next_id = @ + 1]
  <2>1. Piped(q) /\ q.state = p.state /\ q.next_id = p.next_id + 1 BY <1>4 DEF Piped
  <2>2. EndsLoad(l, 0, c, q) BY <1>9
  <2> HIDE DEF q
  <2>3. CASE load[l].connected
    <3>1. process'[c].next_id > p.next_id
      <4>1. process'[c] = [q EXCEPT !.holder = "nobody"] BY <1>7, <2>2, <2>3
      <4>2. process'[c].next_id = p.next_id + 1 BY <4>1, <2>1 DEF Piped
      <4> QED BY <1>4, <4>2
    <3>2. /\ asked' \in [Connections -> Seq(Loads)] /\ q.next_id = Len(asked'[c])
          /\ \A d \in Connections :
                /\ d # c => asked'[d] = asked[d]
                /\ \A i \in 1..Len(asked[d]) : i \in 1..Len(asked'[d]) /\ asked'[d][i] = asked[d][i]
      BY <1>4, AskedMore, <1>5, <1>9, <2>3, <3>1, <2>1
    <3> QED BY <1>1, <1>2, <1>3, <2>1, <2>2, <2>3, <3>2, CallEndsStep
  <2>4. CASE ~load[l].connected BY <1>1, <1>2, <1>3, <1>6, <2>1, <2>2, <2>4, CallEndsStep, <1>5
  <2> QED BY <2>3, <2>4
<1>10. CASE EndsLoad(l, 0, c, p) BY <1>4, <1>8, <1>10
<1>11. CASE EndsLoad(l, 0, c, [p EXCEPT !.stdout = <<Torn>> \o Tail(@)])
  <2> DEFINE q == [p EXCEPT !.stdout = <<Torn>> \o Tail(@)]
  <2>1. Piped(q) /\ q.state = p.state /\ q.next_id = p.next_id BY <1>4 DEF Piped
  <2>2. EndsLoad(l, 0, c, q) BY <1>11
  <2> HIDE DEF q
  <2> QED BY <1>8, <2>1, <2>2
<1> QED BY <1>9, <1>10, <1>11, <1>1, <1>2, <1>3 DEF RequestTimeout

\* What the dispatcher makes of a request, and of a reply that does not fit.
LEMMA Negotiated ==
  ASSUME NEW neg \in Negotiations, NEW h, NEW v, NEW method, NEW caps
  PROVE  /\ DispatchReply(neg, DispatchRequest(neg, method, h, v, caps), h).negotiation \in Negotiations
         /\ Notify(neg, method) \in Negotiations
<1>1. \A n \in Negotiations : RefuseRequest(n).negotiation = n /\ OutOfOrder(n) \in Negotiations
  BY DEF RefuseRequest, Reply, OutOfOrder, Negotiations
<1>2. DispatchDiscover(neg, h, v).negotiation \in Negotiations BY <1>1 DEF DispatchDiscover, Reply, Negotiations
<1>3. DispatchInitialize(neg, h).negotiation \in Negotiations BY <1>1 DEF DispatchInitialize, Reply, Negotiations
<1>4. DispatchMethod(neg, method, h, caps).negotiation \in Negotiations BY <1>1 DEF DispatchMethod, Reply
<1>5. DispatchRequest(neg, method, h, v, caps).negotiation \in Negotiations
  BY <1>2, <1>3, <1>4, Zenon DEF DispatchRequest
<1>6. PICK r : r = DispatchRequest(neg, method, h, v, caps) OBVIOUS
<1> QED BY <1>6, <1>1, <1>5 DEF DispatchReply, Negotiations, Notify

LEMMA DispatcherSteps ==
  ASSUME PoolInv, NEW c \in Connections, Serve(c) \/ Notice(c) \/ ProcessExits(c)
  PROVE  PoolInv'
<1>1. process[c].state = "up" /\ UNCHANGED <<load, mcpPool, asked>> BY DEF Serve, Notice, ProcessExits
<1>2. Running(c) /\ Piped(process[c]) BY <1>1 DEF Running, PoolInv, PoolTypes
<1>3. PICK p : p = process[c] OBVIOUS
<1>4. Piped(p) /\ p.state = "up" BY <1>1, <1>2, <1>3
<1>5. ASSUME NEW r, Piped(r), r.state \in {"up", "exited"}, r.next_id = p.next_id,
             process' = [process EXCEPT ![c] = r]
      PROVE  PoolInv' BY <1>1, <1>2, <1>3, <1>5, ProcessStep
<1>6. CASE Serve(c)
  <2>1. \/ \E v : \E g \in Negotiations : process' = [process EXCEPT ![c].stdin = v, ![c].negotiation = g]
        \/ \E v, o : \E g \in Negotiations : process' = [process EXCEPT ![c].stdin = v, ![c].negotiation = g, ![c].stdout = Append(@, o)]
        \/ \E v, o : process' = [process EXCEPT ![c].stdin = v, ![c].stdout = Append(@, o)]
    <3> DEFINE f == Head(process[c].stdin)
               rest == IF f = Torn THEN Tail(Tail(process[c].stdin)) ELSE Tail(process[c].stdin)
               Answers(q, size) == [Answered(f.id, q.result, IF q.result = "absent" THEN "good" ELSE "absent")
                                      EXCEPT !.versions = q.versions, !.size = size]
             caps == {"tools"}
             reply(h, v) == DispatchReply(process[c].negotiation,
                              DispatchRequest(process[c].negotiation, f.method, h, v, caps), h)
    <3>1. \/ process' = [process EXCEPT ![c].stdin = rest,
                                        ![c].negotiation = IF f = Torn THEN @ ELSE Notify(@, f.method)]
          \/ \E h, v, size :
               process' = [process EXCEPT ![c].stdin = rest, ![c].negotiation = reply(h, v).negotiation,
                                          ![c].stdout = Append(@, Answers(reply(h, v), size))]
          \/ \E q : process' = [process EXCEPT ![c].stdin = rest, ![c].stdout = Append(@, Answers(q, "ok"))]
      <4> USE <1>6 DEF Serve
      <4>1. CASE /\ Decode(f) \in {"invalid", "notification"}
                 /\ process' = [process EXCEPT ![c].stdin = rest,
                                               ![c].negotiation = IF f = Torn THEN @ ELSE Notify(@, f.method)] BY <4>1
      <4>2. CASE /\ Decode(f) = "request" /\ process[c].peer = "gobrowse"
                 /\ \E h \in Handlers, v \in Advertised, size \in {"ok", "large"} :
                       /\ h # "good" => size = "ok" /\ v = {Modern}
                       /\ f.method # "server/discover" => v = {Modern}
                       /\ size = "large" => f.method \in {"tools/list", "tools/call"}
                       /\ LET r == DispatchReply(process[c].negotiation,
                                     DispatchRequest(process[c].negotiation, f.method, h, v, {"tools"}), h)
                          IN  process' = [process EXCEPT ![c].stdin = rest, ![c].negotiation = r.negotiation,
                                                         ![c].stdout = Append(@, Answers(r, size))]
        <5> HIDE <1>6 DEF Serve
        <5>1. PICK h \in Handlers, v \in Advertised, size \in {"ok", "large"} :
                       /\ h # "good" => size = "ok" /\ v = {Modern}
                       /\ f.method # "server/discover" => v = {Modern}
                       /\ size = "large" => f.method \in {"tools/list", "tools/call"}
                       /\ LET r == DispatchReply(process[c].negotiation,
                                     DispatchRequest(process[c].negotiation, f.method, h, v, {"tools"}), h)
                          IN  process' = [process EXCEPT ![c].stdin = rest, ![c].negotiation = r.negotiation,
                                                         ![c].stdout = Append(@, Answers(r, size))] BY <4>2, Zenon
        <5>2. process' = [process EXCEPT ![c].stdin = rest, ![c].negotiation = reply(h, v).negotiation,
                                          ![c].stdout = Append(@, Answers(reply(h, v), size))] BY <5>1
        <5> HIDE DEF f, rest, Answers, reply, caps
        <5> QED BY <5>2, Zenon
      <4>3. CASE /\ Decode(f) = "request" /\ process[c].peer = "other"
                 /\ \E r \in {RefuseRequest(process[c].negotiation), Reply(process[c].negotiation, f.method, {Legacy}),
                              Reply(process[c].negotiation, f.method, {Modern, "2099-01-01"}),
                              Reply(process[c].negotiation, "bad", {})} :
                       process' = [process EXCEPT ![c].stdin = rest, ![c].stdout = Append(@, Answers(r, "ok"))]
        <5> HIDE DEF f, rest, Answers, reply, caps, Serve
        <5> QED BY <4>3, Zenon
      <4> QED BY <4>1, <4>2, <4>3, Zenon
    <3>2. process[c].negotiation \in Negotiations BY <1>3, <1>4 DEF Piped
    <3>3. \A h, v : reply(h, v).negotiation \in Negotiations BY <3>2, Negotiated
    <3> DEFINE noted == IF f = Torn THEN process[c].negotiation ELSE Notify(process[c].negotiation, f.method)
    <3>4. ASSUME process' = [process EXCEPT ![c].stdin = rest,
                                            ![c].negotiation = IF f = Torn THEN @ ELSE Notify(@, f.method)]
          PROVE  process' = [process EXCEPT ![c].stdin = rest, ![c].negotiation = noted]
      <4> HIDE DEF f, rest, Answers, reply, caps
      <4> QED BY <3>4
    <3>5. noted \in Negotiations BY <3>2, Negotiated
    <3> HIDE DEF f, rest, Answers, reply, caps, noted
    <3> QED BY <3>1, <3>3, <3>4, <3>5, Zenon
  <2>2. ASSUME NEW v, NEW g \in Negotiations, process' = [process EXCEPT ![c].stdin = v, ![c].negotiation = g] PROVE PoolInv'
    <3> DEFINE r == [p EXCEPT !.stdin = v, !.negotiation = g]
    <3>1. Piped(r) /\ r.state = "up" /\ r.next_id = p.next_id BY <1>4 DEF Piped
    <3>2. process' = [process EXCEPT ![c] = r] BY <1>3, <2>2
    <3> HIDE DEF r
    <3> QED BY <1>5, <3>1, <3>2
  <2>3. ASSUME NEW v, NEW g \in Negotiations, NEW o,
               process' = [process EXCEPT ![c].stdin = v, ![c].negotiation = g, ![c].stdout = Append(@, o)]
        PROVE  PoolInv'
    <3> DEFINE r == [p EXCEPT !.stdin = v, !.negotiation = g, !.stdout = Append(@, o)]
    <3>1. Piped(r) /\ r.state = "up" /\ r.next_id = p.next_id BY <1>4 DEF Piped
    <3>2. process' = [process EXCEPT ![c] = r] BY <1>3, <2>3
    <3> HIDE DEF r
    <3> QED BY <1>5, <3>1, <3>2
  <2>4. ASSUME NEW v, NEW o, process' = [process EXCEPT ![c].stdin = v, ![c].stdout = Append(@, o)] PROVE PoolInv'
    <3> DEFINE r == [p EXCEPT !.stdin = v, !.stdout = Append(@, o)]
    <3>1. Piped(r) /\ r.state = "up" /\ r.next_id = p.next_id BY <1>4 DEF Piped
    <3>2. process' = [process EXCEPT ![c] = r] BY <1>3, <2>4
    <3> HIDE DEF r
    <3> QED BY <1>5, <3>1, <3>2
  <2> QED BY <2>1, <2>2, <2>3, <2>4
<1>7. CASE Notice(c)
  <2>1. PICK o : process' = [process EXCEPT ![c].stdout = Append(@, o)] BY <1>7 DEF Notice
  <2> DEFINE r == [p EXCEPT !.stdout = Append(@, o)]
  <2>2. Piped(r) /\ r.state = "up" /\ r.next_id = p.next_id BY <1>4 DEF Piped
  <2>3. process' = [process EXCEPT ![c] = r] BY <1>3, <2>1
  <2> HIDE DEF r
  <2> QED BY <1>5, <2>2, <2>3
<1>8. CASE ProcessExits(c)
  <2> DEFINE r == [p EXCEPT !.state = "exited", !.stdin = <<>>]
  <2>1. Piped(r) /\ r.state = "exited" /\ r.next_id = p.next_id BY <1>4 DEF Piped, ProcessStates
  <2>2. process' = [process EXCEPT ![c] = r] BY <1>3, <1>8 DEF ProcessExits
  <2> HIDE DEF r
  <2> QED BY <1>5, <2>1, <2>2
<1> QED BY <1>6, <1>7, <1>8

LEMMA PoolAlways == McpSpec => [](McpAnswerIsOwn /\ McpTypeOK)
<1>1. PoolInv /\ [McpNext]_mcpvars => PoolInv'
  <2> SUFFICES ASSUME PoolInv, [McpNext]_mcpvars PROVE PoolInv' OBVIOUS
  <2>1. CASE UNCHANGED <<mcpPool, process, load, asked>>
    BY <2>1 DEF PoolInv, PoolTypes, IdsCounted, UsedRuns, Running, Using, MakersAlone, AskedOwn, OwnRequest
  <2>2. McpCreate \/ McpUpdate \/ McpDelete \/ UNCHANGED mcpvars => UNCHANGED <<mcpPool, process, load, asked>>
    BY DEF McpCreate, McpUpdate, McpDelete, McpEdit, mcpvars
  <2> QED
    BY <2>1, <2>2, LookStep, PoolLookupStep, SpawnServerStep, SendRequestStep, ReceiveStep, RequestTimeoutStep,
      PoolInsertStep, LockClientStep, DispatcherSteps DEF McpNext
<1>2. PoolInv => McpAnswerIsOwn BY DEF PoolInv, AskedOwn, OwnRequest, McpAnswerIsOwn
<1>3. PoolInv => McpTypeOK
  <2>1. ASSUME PoolInv, NEW c \in Connections
        PROVE  process[c].negotiation \in Negotiations /\ process[c].state \in ProcessStates
    BY <2>1 DEF PoolInv, PoolTypes, Piped
  <2>2. ASSUME PoolInv
        PROVE  mcpPool \in 0..MaxProcesses /\ \A l \in Loads : load[l].c \in 0..MaxProcesses
    BY <2>2 DEF PoolInv, PoolTypes, LoadRows
  <2> QED BY <2>1, <2>2 DEF McpTypeOK, Negotiations, ProcessStates
<1> QED BY <1>1, <1>2, <1>3, PoolInitInv, PTL DEF McpSpec

(***************************************************************************)
(* Library.  The chunks of a text: every multiple of the stride that is    *)
(* followed by more than an overlap starts one, so the greatest start      *)
(* before a character is the start of a chunk with it.  The rows: a book   *)
(* that somebody wrote is indexed as it is and a personal one is its       *)
(* writer's.  A search: whatever changes what a user may read disturbs it. *)
(***************************************************************************)
Stride == ChunkChars - ChunkOverlap
ChunkStarts(n) == {s \in {k * Stride : k \in 0..n} : s = 0 \/ s + ChunkOverlap < n}

LEMMA StrideTimes ==
  /\ Stride \in Nat \ {0} /\ ChunkChars = Stride + ChunkOverlap
  /\ \A k \in Nat : k * Stride \in Nat /\ (k + 1) * Stride = k * Stride + Stride /\ k <= k * Stride
<1>1. ASSUME NEW k \in Nat, NEW s \in Nat \ {0}
      PROVE  k * s \in Nat /\ (k + 1) * s = k * s + s /\ k <= k * s OBVIOUS
<1> QED BY <1>1, ChunkAssumption DEF Stride

LEMMA ChunkTextIs ==
  ASSUME NEW n \in Nat, n # 0
  PROVE  ChunkText(n) = {<<s, Least(s + ChunkChars, n)>> : s \in ChunkStarts(n)}
BY DEF ChunkText, ChunkStarts, Stride

LEMMA ChunkStartsTyped ==
  ASSUME NEW n \in Nat
  PROVE  /\ ChunkStarts(n) \subseteq Nat /\ IsFiniteSet(ChunkStarts(n))
         /\ n # 0 => \A s \in ChunkStarts(n) : s < n
<1>1. ChunkStarts(n) \subseteq Nat BY StrideTimes DEF ChunkStarts
<1>2. \A s \in ChunkStarts(n) : s <= n BY <1>1, ChunkAssumption DEF ChunkStarts
<1>3. n # 0 => \A s \in ChunkStarts(n) : s < n BY <1>1, ChunkAssumption DEF ChunkStarts
<1> QED BY <1>1, <1>2, <1>3, FS_BoundedSetOfNaturals

LEMMA LeastIs ==
  ASSUME NEW m \in Nat, NEW n \in Nat
  PROVE  Least(m, n) \in {m, n} /\ Least(m, n) <= m /\ Least(m, n) <= n
BY DEF Least

\* The chunks of a text cover it, and overlap.
LEMMA ChunksCover ==
  ASSUME NEW n \in Nat, NEW p \in 1..n
  PROVE  \E c \in ChunkText(n) : c[1] < p /\ p <= c[2]
<1> DEFINE before == {j \in 0..n : \E k \in 0..n : j = n - k /\ k * Stride \in ChunkStarts(n) /\ k * Stride < p}
           R == OpToRel(<, Nat)
<1>1. before # {} /\ before \subseteq Nat
  <2>1. n \in before BY StrideTimes DEF ChunkStarts
  <2> QED BY <2>1
<1>2. IsWellFoundedOn(R, Nat) BY NatLessThanWellFounded
<1>3. \A x, y \in Nat : <<y, x>> \in R <=> y < x BY DEF OpToRel
<1> HIDE DEF R, before
<1>4. PICK j \in before : \A i \in before : ~(<<i, j>> \in R) BY <1>1, <1>2, WFMin
<1>5. \A i \in before : ~(i < j) BY <1>1, <1>3, <1>4
<1>6. PICK k \in 0..n : j = n - k /\ k * Stride \in ChunkStarts(n) /\ k * Stride < p BY <1>4 DEF before
<1>7. PICK s \in Nat : s = k * Stride /\ (k + 1) * Stride = s + Stride BY <1>6, StrideTimes
<1>8. p <= s + ChunkChars
  <2> SUFFICES ASSUME s + ChunkChars < p PROVE FALSE BY <1>7, StrideTimes
  <2>1. s + Stride + ChunkOverlap < n /\ s + Stride < p BY StrideTimes, ChunkAssumption
  <2>2. k + 1 \in 0..n BY <1>6, <1>7, <2>1, StrideTimes, ChunkAssumption
  <2>3. (k + 1) * Stride \in ChunkStarts(n) BY <1>7, <2>1, <2>2, StrideTimes DEF ChunkStarts
  <2>4. n - (k + 1) \in before BY <1>7, <2>1, <2>2, <2>3 DEF before
  <2> QED BY <1>5, <1>6, <2>2, <2>4
<1>9. <<s, Least(s + ChunkChars, n)>> \in ChunkText(n) BY <1>6, <1>7, ChunkTextIs
<1> QED BY <1>6, <1>7, <1>9, <1>8, ChunkAssumption, LeastIs

LEMMA ChunksOverlap ==
  ASSUME NEW n \in Nat, NEW c \in ChunkText(n)
  PROVE  /\ c[1] < c[2] /\ c[2] <= n /\ c[2] - c[1] <= ChunkChars
         /\ c[1] # 0 => \E d \in ChunkText(n) : d[1] < c[1] /\ d[2] = c[1] + ChunkOverlap
<1>1. n # 0 BY DEF ChunkText
<1>2. PICK s \in ChunkStarts(n) : c = <<s, Least(s + ChunkChars, n)>> BY <1>1, ChunkTextIs
<1>3. s \in Nat /\ s < n BY <1>1, ChunkStartsTyped
<1>4. PICK e \in Nat : e = Least(s + ChunkChars, n) BY <1>3, ChunkAssumption, LeastIs
<1>5. ASSUME s # 0 PROVE \E d \in ChunkText(n) : d[1] < s /\ d[2] = s + ChunkOverlap
  <2>1. PICK k \in 0..n : s = k * Stride BY DEF ChunkStarts
  <2>2. s + ChunkOverlap < n BY <1>5 DEF ChunkStarts
  <2>3. k # 0 BY <1>5, <2>1, StrideTimes
  <2>4. PICK r \in Nat : r = (k - 1) * Stride /\ s = r + Stride BY <2>1, StrideTimes, <2>3
  <2>5. r \in ChunkStarts(n) BY <2>4, <2>1, <2>2, <2>3, StrideTimes, ChunkAssumption DEF ChunkStarts
  <2>6. r < s /\ Least(r + ChunkChars, n) = s + ChunkOverlap BY <2>2, <2>4, StrideTimes, ChunkAssumption DEF Least
  <2>7. <<r, Least(r + ChunkChars, n)>> \in ChunkText(n) BY <1>1, <2>5, ChunkTextIs
  <2> QED BY <2>6, <2>7
<1> QED BY <1>2, <1>4, <1>5, <1>3, ChunkAssumption, LeastIs

LEMMA ChunksDistinct ==
  ASSUME NEW n \in Nat
  PROVE  Cardinality(ChunkText(n)) = Cardinality({c[1] : c \in ChunkText(n)})
<1>1. CASE n = 0 BY <1>1 DEF ChunkText
<1>2. CASE n # 0
  <2> DEFINE starts == ChunkStarts(n)
             f == [s \in starts |-> <<s, Least(s + ChunkChars, n)>>]
  <2>1. ChunkText(n) = {<<s, Least(s + ChunkChars, n)>> : s \in starts} BY <1>2, ChunkTextIs
  <2>2. {c[1] : c \in ChunkText(n)} = starts
    <3>1. ASSUME NEW s \in starts PROVE s \in {c[1] : c \in ChunkText(n)}
      <4>1. <<s, Least(s + ChunkChars, n)>> \in ChunkText(n) /\ <<s, Least(s + ChunkChars, n)>>[1] = s BY <2>1
      <4> HIDE DEF starts
      <4> QED BY <4>1
    <3>2. ASSUME NEW c \in ChunkText(n) PROVE c[1] \in starts BY <2>1
    <3> HIDE DEF starts
    <3> QED BY <3>1, <3>2
  <2>3. f \in Bijection(starts, ChunkText(n))
    <3>1. f \in [starts -> ChunkText(n)] BY <2>1
    <3>2. \A s, t \in starts : f[s] = f[t] => s = t OBVIOUS
    <3>3. \A c \in ChunkText(n) : \E s \in starts : f[s] = c BY <2>1
    <3> HIDE DEF f, starts
    <3> QED BY <3>1, <3>2, <3>3, Fun_IsBij
  <2>4. IsFiniteSet(starts) BY ChunkStartsTyped
  <2> HIDE DEF f, starts
  <2> QED BY <2>2, <2>4, FS_Bijection, <2>3 DEF ExistsBijection
<1> QED BY <1>1, <1>2

BookRows == [kind : {"none", "SOURCE"} \cup Companions, scope : Scopes, restricted : BOOLEAN,
             owner : LibUsers \cup {"nobody"}, creator : LibUsers \cup {"nobody"}, ws : BOOLEAN,
             conv : {"none", "private", "workspace"}, user_provided : BOOLEAN,
             length : Lengths \cup {0}, revision : Nat, chunks : SUBSET (Nat \X Nat)]
SearchRows == [pc : {"idle", "embed", "answered"}, lexical : SUBSET BookIds, semantic : SUBSET BookIds,
               undisturbed : BOOLEAN]

LibTypes == shelf \in [BookIds -> BookRows] /\ search \in [LibUsers -> SearchRows]

\* A book that somebody wrote is indexed as it is, and a personal one is its
\* writer's.
WrittenRow(r) ==
    r.kind = "SOURCE" => /\ r.chunks = ChunkText(r.length)
                         /\ r.scope \in {"USER", "PRIVATE"} => r.owner = r.creator
\* The first query of a search that nothing disturbed still stands, and the
\* second has found no other books.
SearchStands(u) ==
    search[u].pc # "idle" /\ search[u].undisturbed
        => search[u].lexical = Listed(u) /\ search[u].semantic \subseteq Listed(u)

LibInv ==
    /\ LibTypes /\ \A b \in BookIds : WrittenRow(shelf[b])
    /\ \A u \in LibUsers : SearchStands(u)

LEMMA ChunkTextTyped ==
  ASSUME NEW n \in Nat
  PROVE  ChunkText(n) \in SUBSET (Nat \X Nat)
<1>1. CASE n = 0 BY <1>1 DEF ChunkText
<1>2. CASE n # 0 BY <1>2, ChunkTextIs, ChunkStartsTyped, ChunkAssumption, LeastIs
<1> QED BY <1>1, <1>2

LEMMA NoBookTyped == NoBook \in BookRows /\ NoBook.kind = "none"
BY DEF NoBook, BookRows, Scopes

LEMMA LibraryInitInv == LibraryInit => LibInv
<1> SUFFICES ASSUME LibraryInit PROVE LibInv OBVIOUS
<1>1. NoSearch \in SearchRows /\ NoSearch.pc = "idle" BY DEF NoSearch, SearchRows
<1>2. \A b \in BookIds : WrittenRow(shelf[b]) BY NoBookTyped DEF LibraryInit, WrittenRow
<1> QED BY <1>1, <1>2, NoBookTyped DEF LibInv, SearchStands, LibraryInit, LibTypes

\* Whoever changes what somebody may read disturbs every search under way.
LEMMA Disturbed ==
  ASSUME LibInv, Disturb
  PROVE  search' \in [LibUsers -> SearchRows] /\ \A u \in LibUsers : SearchStands(u)'
<1>1. ASSUME NEW u \in LibUsers
      PROVE  /\ search'[u] \in SearchRows /\ (search'[u].pc = "idle" \/ ~search'[u].undisturbed)
  <2>1. PICK b \in BOOLEAN : b = (search[u].pc = "idle") OBVIOUS
  <2> QED BY <2>1 DEF SearchRows, LibInv, LibTypes, Disturb
<1> QED BY <1>1 DEF SearchStands, Disturb

LEMMA StandsStill ==
  ASSUME LibInv, UNCHANGED <<shelf, libRole, membership, search>>
  PROVE  LibInv'
  BY DEF LibInv, LibTypes, SearchStands, Listed, Readable, IsAdmin, OwnConversation, SharedConversation, Member

\* A row is written.
LEMMA RowWritten ==
  ASSUME LibInv, NEW b \in BookIds, NEW r \in BookRows, WrittenRow(r),
         shelf' = [shelf EXCEPT ![b] = r], Disturb
  PROVE  LibInv'
  BY Disturbed DEF LibInv, LibTypes

LEMMA CreateBookStep ==
  ASSUME LibInv, NEW u \in LibUsers, NEW b \in BookIds, NEW row \in Rows, CreateBook(u, b, row)
  PROVE  LibInv'
<1>1. row.length \in Lengths /\ row.length \in Nat /\ row.scope \in Scopes /\ row.kind = "SOURCE"
  BY ChunkAssumption DEF Rows
<1>2. PICK cs \in SUBSET (Nat \X Nat) : cs = ChunkText(row.length) BY <1>1, ChunkTextTyped
<1>3. PICK o \in LibUsers \cup {"nobody"} : o = OwnerOf(u, row.scope) BY DEF OwnerOf
<1>4. PICK r \in BookRows : r = [row EXCEPT !.owner = o, !.creator = u, !.chunks = cs]
  <2>1. row \in BookRows BY DEF Rows, BookRows
  <2> QED BY <2>1 DEF BookRows
<1> QED BY RowWritten, <1>2, <1>3, <1>4, <1>1 DEF CreateBook, Write, WrittenRow, OwnerOf, Rows

LEMMA UpdateBookStep ==
  ASSUME LibInv, NEW u \in LibUsers, NEW b \in BookIds, NEW l \in Lengths, NEW n, UpdateBook(u, b, l, n)
  PROVE  LibInv'
<1>1. shelf[b] \in BookRows /\ WrittenRow(shelf[b]) /\ l \in Nat BY ChunkAssumption DEF LibInv, LibTypes
<1>2. PICK cs \in SUBSET (Nat \X Nat) : cs = ChunkText(l) BY <1>1, ChunkTextTyped
<1>3. PICK v \in Nat : v = shelf[b].revision + 1 BY <1>1 DEF BookRows
<1>4. PICK r \in BookRows : r = [shelf[b] EXCEPT !.length = l, !.revision = v, !.chunks = cs] BY <1>1 DEF BookRows
<1>5. WrittenRow(r) BY <1>1, <1>2, <1>4 DEF WrittenRow, BookRows
<1> QED BY <1>5, RowWritten, <1>2, <1>3, <1>4 DEF UpdateBook, Write

LEMMA CompanionSteps ==
  ASSUME LibInv, NEW b \in BookIds, NEW k \in Companions,
         CompanionInsert(b, k) \/ CompanionDelete(b, k) \/ \E l \in Lengths : CompanionSync(b, k, l)
  PROVE  LibInv'
<1>1. k # "SOURCE" /\ k # "none" BY DEF Companions
<1>2. CASE CompanionInsert(b, k)
  <2>1. PICK w \in BOOLEAN : w = (k = "SKILL") OBVIOUS
  <2>2. PICK s \in Scopes : s = IF k = "SKILL" THEN "WORKSPACE" ELSE "PROFILE" BY DEF Scopes
  <2>3. PICK r \in BookRows : r = [NoBook EXCEPT !.kind = k, !.revision = 1, !.ws = w, !.scope = s]
    BY NoBookTyped DEF BookRows
  <2> QED BY <1>1, RowWritten, <2>3, <1>2, <2>1, <2>2 DEF WrittenRow, NoBook, CompanionInsert, Write
<1>3. CASE CompanionDelete(b, k)
  <2>1. CASE shelf' = [shelf EXCEPT ![b] = NoBook] /\ Disturb BY <2>1, NoBookTyped, RowWritten DEF WrittenRow
  <2>2. CASE UNCHANGED <<shelf, libRole, membership, search>> BY <2>2, StandsStill
  <2> QED BY <1>3, <2>1, <2>2 DEF CompanionDelete, Write
<1>4. ASSUME NEW l \in Lengths, CompanionSync(b, k, l) PROVE LibInv'
  <2>1. shelf[b] \in BookRows /\ shelf[b].kind = k BY <1>4 DEF LibInv, LibTypes, CompanionSync
  <2>2. PICK r \in BookRows : r = [shelf[b] EXCEPT !.length = l] BY <2>1 DEF BookRows
  <2> QED BY <1>1, RowWritten, <2>1, <2>2, <1>4 DEF WrittenRow, BookRows, CompanionSync
<1> QED BY <1>2, <1>3, <1>4

\* A search goes on.
LEMMA SearchSteps ==
  ASSUME LibInv, NEW u \in LibUsers,
         LexicalQuery(u) \/ SemanticQuery(u) \/ LexicalOnly(u) \/ SearchDone(u)
  PROVE  LibInv'
<1>1. UNCHANGED <<shelf, libRole, membership>> BY DEF LexicalQuery, SemanticQuery, LexicalOnly, SearchDone
<1>2. search[u] \in SearchRows /\ SearchStands(u) BY DEF LibInv, LibTypes
<1>3. PICK x \in SearchRows :
         /\ search' = [search EXCEPT ![u] = x]
         /\ x.pc # "idle" /\ x.undisturbed => x.lexical = Listed(u) /\ x.semantic \subseteq Listed(u)
  <2>1. CASE LexicalQuery(u)
    <3>1. PICK bs \in SUBSET BookIds : bs = Listed(u) BY DEF Listed
    <3>2. PICK x \in SearchRows : x = [pc |-> "embed", semantic |-> {}, undisturbed |-> TRUE, lexical |-> bs]
      BY DEF SearchRows
    <3> QED BY <3>1, <3>2, <2>1 DEF LexicalQuery, Listed
  <2>2. CASE SemanticQuery(u)
    <3>1. PICK bs \in SUBSET BookIds : bs = {b \in BookIds : Readable(u, shelf[b]) /\ embedded[b] # 0
                                                             /\ embedded[b] = shelf[b].revision} OBVIOUS
    <3>2. PICK x \in SearchRows : x = [search[u] EXCEPT !.pc = "answered", !.semantic = bs] BY <1>2 DEF SearchRows
    <3>3. search' = [search EXCEPT ![u] = x] /\ search[u].pc = "embed" BY <2>2, <3>1, <3>2 DEF SemanticQuery
    <3> QED BY <1>2, <3>3, <3>1, <3>2 DEF SearchStands, Listed, SearchRows
  <2>3. CASE LexicalOnly(u)
    <3>1. PICK x \in SearchRows : x = [search[u] EXCEPT !.pc = "answered"] BY <1>2 DEF SearchRows
    <3> QED BY <1>2, <3>1, <2>3 DEF SearchStands, SearchRows, LexicalOnly
  <2>4. CASE SearchDone(u)
    <3>1. PICK x \in SearchRows : x = NoSearch BY DEF NoSearch, SearchRows
    <3> QED BY <3>1, <2>4 DEF NoSearch, SearchDone
  <2> QED BY <2>1, <2>2, <2>3, <2>4
<1>4. search' \in [LibUsers -> SearchRows] /\ search'[u] = x /\ \A v \in LibUsers \ {u} : search'[v] = search[v]
  BY <1>3 DEF LibInv, LibTypes
<1> QED
  BY <1>1, <1>4, <1>3 DEF LibInv, LibTypes, SearchStands, Listed, Readable, IsAdmin, OwnConversation,
    SharedConversation, Member

LEMMA LibraryStep == LibInv /\ [LibraryNext]_libvars => LibInv'
<1> SUFFICES ASSUME LibInv, [LibraryNext]_libvars PROVE LibInv' OBVIOUS
<1>1. ASSUME NEW u \in LibUsers, NEW r, NEW m, ChangeRole(u, r, m) PROVE LibInv'
  BY Disturbed, <1>1 DEF LibInv, LibTypes, ChangeRole
<1>2. ASSUME NEW u \in LibUsers, NEW b \in BookIds, DeleteBook(u, b) PROVE LibInv'
  BY NoBookTyped, RowWritten, <1>2 DEF WrittenRow, DeleteBook, Write
<1>3. CASE \/ UNCHANGED libvars \/ NewExecutor \/ \E k \in Companions : ActivateTarget(k)
           \/ \E b \in BookIds : Embed(b)
           \/ \E u \in LibUsers : LibraryAdd(u) \/ \E b \in BookIds : LibraryLoad(u, b)
  BY StandsStill, <1>3 DEF libvars, NewExecutor, ActivateTarget, Embed, LibraryAdd, LibraryLoad
<1>4. ASSUME NEW u \in LibUsers, NEW b \in BookIds,
             \/ \E row \in Rows : CreateBook(u, b, row)
             \/ \E l \in Lengths, n \in 1 .. MaxLibOps : UpdateBook(u, b, l, n)
      PROVE  LibInv' BY <1>4, CreateBookStep, UpdateBookStep
<1>5. ASSUME NEW k \in Companions, NEW b \in BookIds,
             CompanionInsert(b, k) \/ CompanionDelete(b, k) \/ \E l \in Lengths : CompanionSync(b, k, l)
      PROVE  LibInv' BY <1>5, CompanionSteps
<1>6. ASSUME NEW u \in LibUsers, LexicalQuery(u) \/ SemanticQuery(u) \/ LexicalOnly(u) \/ SearchDone(u)
      PROVE  LibInv' BY <1>6, SearchSteps
<1>7. CASE LibraryNext
  <2>1. CASE \E u \in LibUsers : LexicalQuery(u) \/ SemanticQuery(u) \/ LexicalOnly(u) \/ SearchDone(u) BY <1>6, <2>1
  <2>2. CASE \E u \in LibUsers : \E r, m : ChangeRole(u, r, m) BY <1>1, <2>2
  <2>3. CASE \E u \in LibUsers, b \in BookIds : DeleteBook(u, b) BY <1>2, <2>3
  <2>4. CASE \E u \in LibUsers, b \in BookIds :
                \/ \E row \in Rows : CreateBook(u, b, row)
                \/ \E l \in Lengths, n \in 1 .. MaxLibOps : UpdateBook(u, b, l, n) BY <1>4, <2>4
  <2>5. CASE \E k \in Companions, b \in BookIds :
                CompanionInsert(b, k) \/ CompanionDelete(b, k) \/ \E l \in Lengths : CompanionSync(b, k, l)
    BY <1>5, <2>5
  <2>6. CASE \/ UNCHANGED libvars \/ NewExecutor \/ \E k \in Companions : ActivateTarget(k)
             \/ \E b \in BookIds : Embed(b)
             \/ \E u \in LibUsers : LibraryAdd(u) \/ \E b \in BookIds : LibraryLoad(u, b) BY <1>3, <2>6
  <2> QED BY <2>1, <2>2, <2>3, <2>4, <2>5, <2>6, <1>7 DEF LibraryNext
<1> QED BY <1>3, <1>7

LEMMA LibInvAgrees == LibInv => RightsAgree /\ ChunksCoverText
<1> SUFFICES ASSUME LibInv PROVE RightsAgree /\ ChunksCoverText OBVIOUS
<1>1. ASSUME NEW u \in LibUsers, NEW b \in BookIds,
             shelf[b].kind = "SOURCE", shelf[b].creator = u, MayCreate(u, shelf[b])
      PROVE  /\ Readable(u, shelf[b])
             /\ shelf[b].user_provided \/ IsAdmin(u) => Updatable(u, shelf[b])
  <2>1. /\ libRole[u] # "VIEWER" /\ shelf[b].scope # "AGENT" /\ ValidBook(shelf[b])
        /\ shelf[b].scope = "GLOBAL" \/ shelf[b].restricted => IsAdmin(u)
        /\ shelf[b].ws => IsAdmin(u) \/ Editor(u)
        /\ shelf[b].conv # "none" => IsAdmin(u) \/ OwnConversation(u, shelf[b])
                                     \/ (SharedConversation(shelf[b]) /\ Editor(u))
    BY <1>1 DEF MayCreate, AuthorizeBookWorkspace, AuthorizeBookConversation
  <2> QED BY <1>1, <2>1 DEF ValidBook, Readable, Updatable, LibInv, WrittenRow, Editor, Member
<1>2. ASSUME NEW u \in LibUsers, NEW b \in BookIds, Updatable(u, shelf[b]) \/ ToolFinds(u, shelf[b])
      PROVE  Readable(u, shelf[b]) BY <1>2 DEF Updatable, ToolFinds, Readable, Editor, Member
<1>3. ASSUME NEW u \in LibUsers, search[u].pc = "answered", search[u].undisturbed
      PROVE  Results(u) = Listed(u) BY <1>3 DEF LibInv, SearchStands, Results
<1>4. ASSUME NEW b \in BookIds, shelf[b].kind = "SOURCE"
      PROVE  LET cs == shelf[b].chunks IN
             /\ \A p \in 1 .. shelf[b].length : \E c \in cs : c[1] < p /\ p <= c[2]
             /\ \A c \in cs : /\ c[1] < c[2] /\ c[2] <= shelf[b].length /\ c[2] - c[1] <= ChunkChars
                              /\ c[1] # 0 => \E d \in cs : d[1] < c[1] /\ d[2] = c[1] + ChunkOverlap
             /\ Cardinality(cs) = Cardinality({c[1] : c \in cs})
  <2>1. shelf[b].chunks = ChunkText(shelf[b].length) /\ shelf[b].length \in Nat
    <3>1. shelf[b] \in BookRows /\ WrittenRow(shelf[b]) BY DEF LibInv, LibTypes
    <3>2. shelf[b].length \in Nat
      <4>1. \A x \in Lengths : x \in Nat BY ChunkAssumption
      <4> QED BY <4>1, <3>1 DEF BookRows
    <3> QED BY <3>2, <1>4, <3>1 DEF WrittenRow
  <2> QED BY <2>1, ChunksCover, ChunksOverlap, ChunksDistinct
<1> QED BY <1>1, <1>2, <1>3, <1>4 DEF RightsAgree, ChunksCoverText

LEMMA LibraryAlways == LibrarySpec => [](RightsAgree /\ ChunksCoverText)
BY LibraryInitInv, LibraryStep, LibInvAgrees, PTL DEF LibrarySpec

-----------------------------------------------------------------------------
(* What the rows hold, beside what the invariants above say *)

\* vault_key_state names a key of a server.
KeyOfServer == keyState \in {0} \cup {CurrentKey[i] : i \in VaultServers}

LEMMA ServerOfTx ==
  ASSUME NEW tx \in Transactions, tx.pc # "idle"
  PROVE  tx.i \in VaultServers
<1>1. CASE tx = NoTx BY <1>1 DEF NoTx
<1>2. CASE tx \in WriteTx BY <1>2 DEF WriteTx
<1>3. CASE tx \in StartTx BY <1>3 DEF StartTx
<1>4. CASE tx \in RotateTx BY <1>4 DEF RotateTx
<1> QED BY <1>1, <1>2, <1>3, <1>4 DEF Transactions

LEMMA KeyStays ==
  ASSUME VaultInv, KeyOfServer, [VaultNext]_vvars
  PROVE  KeyOfServer'
<1>1. ASSUME NEW h \in VaultRequests, vreq[h].pc # "idle" PROVE vreq[h].i \in VaultServers
  BY <1>1, ServerOfTx DEF VaultInv, VaultTypes
<1>2. ASSUME NEW h \in VaultRequests, StoreSecret(h) \/ RotationCommit(h) PROVE KeyOfServer'
  BY <1>1, <1>2 DEF KeyOfServer, StoreSecret, RotationCommit
<1>3. CASE UNCHANGED keyState BY <1>3 DEF KeyOfServer
<1>4. CASE UNCHANGED vvars BY <1>3, <1>4 DEF vvars
<1>5. ASSUME NEW h \in VaultRequests,
             FenceCurrentKey(h) \/ InsertKeyState(h) \/ SelectOldSecrets(h) \/ LockOldSecret(h) \/ BreakDeadlock(h)
      PROVE  UNCHANGED keyState
  BY <1>5 DEF FenceCurrentKey, InsertKeyState, SelectOldSecrets, LockOldSecret, BreakDeadlock, RollBack
<1>6. ASSUME NEW h \in VaultRequests, NEW s \in Secrets, NEW i \in VaultServers, NEW in \in Inputs,
             \/ DeleteSecret(h, s) \/ RotateSecrets(h, i)
             \/ CreateSecret(h, i, s, in) \/ ReplaceSecret(h, i, s, in.hosts)
      PROVE  UNCHANGED keyState BY <1>6 DEF DeleteSecret, RotateSecrets, CreateSecret, ReplaceSecret
<1>7. ASSUME NEW h \in VaultRequests, NEW s \in Secrets, DeleteSecret(h, s) PROVE UNCHANGED keyState
  BY <1>7 DEF DeleteSecret
<1>8. ASSUME NEW h \in VaultRequests, NEW i \in VaultServers, RotateSecrets(h, i) PROVE UNCHANGED keyState
  BY <1>8 DEF RotateSecrets
<1> QED BY <1>2, <1>3, <1>4, <1>5, <1>6, <1>7, <1>8 DEF VaultNext

LEMMA VaultShapes == VaultSpec => []VaultTypeOK
<1>1. VaultInit => VaultInv /\ KeyOfServer BY VaultInitInv DEF VaultInit, KeyOfServer
<1>2. VaultInv /\ KeyOfServer /\ [VaultNext]_vvars => (VaultInv /\ KeyOfServer)' BY VaultStep, KeyStays
<1>3. VaultInv /\ KeyOfServer => VaultTypeOK BY DEF VaultInv, VaultTypes, KeyOfServer, VaultTypeOK
<1> QED BY <1>1, <1>2, <1>3, PTL DEF VaultSpec

LEMMA GateShapes == GateSpec => []GateTypeOK
<1>1. GateInit => GateInv /\ activated \in [GateRuns -> BOOLEAN] BY GateInitInv DEF GateInit
<1>2. ASSUME GateInv, activated \in [GateRuns -> BOOLEAN], [GateNext]_gatevars
      PROVE  activated' \in [GateRuns -> BOOLEAN]
  <2>1. ASSUME NEW r \in GateRuns, Dispatch(r) PROVE activated' \in [GateRuns -> BOOLEAN]
    <3>1. (activated[r] \/ call[r].name \in SandboxTools) \in BOOLEAN OBVIOUS
    <3> QED BY <1>2, <2>1, <3>1, Zenon DEF Dispatch
  <2>2. CASE UNCHANGED activated BY <1>2, <2>2
  <2>3. CASE UNCHANGED gatevars BY <2>2, <2>3 DEF gatevars
  <2>4. ASSUME NEW r \in GateRuns,
               \/ CheckCache(r) \/ QueryPolicies(r) \/ UpdateCache(r) \/ AuditDecision(r)
               \/ AuthorizeFails(r) \/ Refuse(r)
        PROVE  UNCHANGED activated
    BY <2>4 DEF CheckCache, QueryPolicies, UpdateCache, AuditDecision, AuthorizeFails, Refuse
  <2>5. ASSUME NEW r \in GateRuns, NEW name \in GateTools, CallTool(r, name) PROVE UNCHANGED activated
    BY <2>5 DEF CallTool
  <2>6. ASSUME NEW p \in GateProfiles, NEW a \in Actions, NEW d \in Decisions, EditPolicy(p, a, d)
        PROVE  UNCHANGED activated BY <2>6 DEF EditPolicy
  <2> QED BY <1>2, <2>1, <2>2, <2>3, <2>4, <2>5, <2>6 DEF GateNext
<1>3. GateInv /\ activated \in [GateRuns -> BOOLEAN] => GateTypeOK
  <2> SUFFICES ASSUME GateInv, activated \in [GateRuns -> BOOLEAN] PROVE GateTypeOK OBVIOUS
  <2>1. \A r \in GateRuns : call[r].decision \in Decisions \cup {"none"} BY DEF CallType, Verdicts, GateInv, GateTypes
  <2> QED BY <2>1, GateAssumption DEF GateTypeOK, GateInv, GateTypes, Verdicts, ActiveToolDefs, ToolDescriptors
<1>4. GateInv /\ activated \in [GateRuns -> BOOLEAN] /\ [GateNext]_gatevars
      => (GateInv /\ activated \in [GateRuns -> BOOLEAN])' BY <1>2, GateStep
<1> QED BY <1>1, <1>3, <1>4, PTL DEF GateSpec

LEMMA LifecycleShapes == LifecycleSpec => []LifecycleTypeOK
<1> DEFINE Shapes == /\ sessionState \in States /\ era \in {"none", "modern", "legacy"}
                     /\ reconnect_attempts \in 0..MAX_RECONNECT_ATTEMPTS
<1>1. LifecycleInit => LifecycleInv /\ Shapes BY LifecycleInitInv, LifecycleAssumption DEF LifecycleInit, States
<1>2. ASSUME Shapes, [LifecycleNext]_lvars PROVE Shapes'
  <2> USE DEF Goes, ClearSession, States
  <2>1. CASE BeginReconnect
    <3>1. CASE reconnect_attempts >= MAX_RECONNECT_ATTEMPTS BY <1>2, <2>1, <3>1 DEF BeginReconnect
    <3>2. CASE ~(reconnect_attempts >= MAX_RECONNECT_ATTEMPTS)
      BY <1>2, <2>1, <3>2, LifecycleAssumption DEF BeginReconnect, BeginConnectInner
    <3> QED BY <3>1, <3>2
  <2>2. CASE BeginConnect BY <1>2, <2>2, LifecycleAssumption DEF BeginConnect, BeginConnectInner
  <2>3. CASE BeginDiscovery \/ BeginInitialize \/ MarkLegacyInitialized \/ MarkReady \/ AllocateAndReserve
    BY <1>2, <2>3 DEF BeginDiscovery, BeginInitialize, MarkLegacyInitialized, MarkReady, AllocateAndReserve
  <2>4. CASE BindNegotiation BY <1>2, <2>4 DEF BindNegotiation
  <2>5. CASE BeginClose \/ FinishClose \/ Disconnect \/ SessionFails
    BY <1>2, <2>5 DEF BeginClose, FinishClose, Disconnect, SessionFails
  <2>6. ASSUME NEW token \in tokens, Reserve(token) \/ Complete(token) PROVE Shapes'
    BY <1>2, <2>6 DEF Reserve, Complete
  <2>7. CASE UNCHANGED lvars BY <1>2, <2>7 DEF lvars
  <2> QED BY <1>2, <2>1, <2>2, <2>3, <2>4, <2>5, <2>6, <2>7 DEF LifecycleNext
<1>3. LifecycleInv /\ Shapes => LifecycleTypeOK BY DEF LifecycleInv, PendingIsFenced, LifecycleTypeOK
<1>4. LifecycleInv /\ Shapes /\ [LifecycleNext]_lvars => (LifecycleInv /\ Shapes)'
  <2> HIDE DEF Shapes
  <2> QED BY <1>2, LifecycleStep
<1> HIDE DEF Shapes
<1> QED BY <1>1, <1>3, <1>4, PTL DEF LifecycleSpec

\* A conversation is in a workspace that is there, a book or a pin is of a
\* conversation that is there, and a fork has no more messages than its source.
Accesses == {"none", "VIEWER", "EDITOR", "OWNER"}
MembersTyped == member \in [SpaceIds -> [ConvUsers -> Accesses]]
RowStands(c) ==
    /\ convo[c].space \in DOMAIN space \cup {NoSpace}
    /\ ~convo[c].live => convo[c].space = NoSpace
    /\ book[c].there => convo[c].live
    /\ Len(texts[c]) <= MaxConvMessages
PinStands(p) == p \in ConvIds \X ConvIds /\ convo[p[1]].live /\ book[p[2]].there
AsksPin(row) == row.pc = "pin" => row.conv \in ConvIds /\ row.at \in ConvIds
RowsStand == \A c \in ConvIds : RowStands(c)
PinsStand == (\A p \in pins : PinStands(p)) /\ (\A q \in ConvRequests : AsksPin(creq[q]))
ConvStands == MembersTyped /\ RowsStand /\ PinsStand

LEMMA ConvStandsFirst == ConversationsInit => ConvStands
<1> SUFFICES ASSUME ConversationsInit PROVE ConvStands OBVIOUS
<1>1. NoConvRow.space = NoSpace /\ ~NoBookRow.there /\ IdleRequest.pc # "pin" BY DEF NoConvRow, NoBookRow, IdleRequest
<1>2. PinsStand BY <1>1 DEF ConversationsInit, PinsStand, AsksPin
<1> QED
  BY <1>2, <1>1, ConversationsAssumption DEF ConvStands, ConversationsInit, MembersTyped, Accesses, RowsStand,
    RowStands

LEMMA OneAsks ==
  ASSUME ConvInv, ConvStands, NEW q \in ConvRequests, NEW row, AsksPin(row),
         creq' = [creq EXCEPT ![q] = row]
  PROVE  \A p \in ConvRequests : AsksPin(creq'[p])
<1>1. creq \in [ConvRequests -> RequestRow] /\ \A p \in ConvRequests : AsksPin(creq[p])
  BY DEF ConvInv, ConvTypes, ConvStands, PinsStand
<1> TAKE p \in ConvRequests
<1>2. creq'[p] = IF p = q THEN row ELSE creq[p] BY <1>1
<1>3. CASE p = q BY <1>2, <1>3
<1>4. CASE p # q BY <1>1, <1>2, <1>4
<1> QED BY <1>3, <1>4

LEMMA OneAnswered ==
  ASSUME ConvInv, ConvStands, NEW q \in ConvRequests, Answer(q)
  PROVE  \A p \in ConvRequests : AsksPin(creq'[p])
  BY OneAsks DEF AsksPin, IdleRequest, Answer

\* Handlers that write no row of a conversation.
LEMMA RowsLeft ==
  ASSUME ConvStands, MembersTyped', UNCHANGED <<convo, texts, book>>, DOMAIN space \subseteq DOMAIN space',
         \A p \in pins' : p \in pins \/ PinStands(p),
         \A p \in ConvRequests : AsksPin(creq'[p])
  PROVE  ConvStands'
  BY DEF ConvStands, RowsStand, RowStands, PinsStand, AsksPin, PinStands

\* A row that was not there, and its book.
LEMMA InsertedStands ==
  ASSUME ConvInv, ConvStands, NEW q \in ConvRequests, NEW c \in ConvIds, Answer(q), NEW user, NEW w,
         NEW from, NEW at, NEW copy, InsertConversation(c, user, w, from, at, copy),
         UNCHANGED <<space, member, pins>>, Len(copy) <= MaxConvMessages, NEW body,
         book' = [book EXCEPT ![c] = [there |-> TRUE, body |-> body]]
  PROVE  ConvStands'
<1> DEFINE row == [live |-> TRUE, used |-> TRUE, space |-> w, creator |-> user,
                   from |-> from, at |-> at, copied |-> Len(copy)]
           leaf == [there |-> TRUE, body |-> body]
<1>1. ConvTypes BY DEF ConvInv
<1>2. /\ convo' = [convo EXCEPT ![c] = row] /\ texts' = [texts EXCEPT ![c] = copy]
      /\ book' = [book EXCEPT ![c] = leaf] /\ w \in DOMAIN space \cup {NoSpace} BY DEF InsertConversation
<1>3. row.live /\ row.space = w /\ leaf.there OBVIOUS
<1> HIDE DEF row, leaf
<1>4. \A d \in ConvIds : d # c => convo'[d] = convo[d] /\ texts'[d] = texts[d] /\ book'[d] = book[d]
  BY <1>1, <1>2 DEF ConvTypes
<1>5. convo'[c] = row /\ texts'[c] = copy /\ book'[c] = leaf BY <1>1, <1>2 DEF ConvTypes
<1>6. RowsStand'
  <2>1. ASSUME NEW d \in ConvIds PROVE RowStands(d)'
    <3>1. CASE d = c BY <1>2, <1>3, <1>5, <3>1 DEF RowStands
    <3>2. CASE d # c BY <1>4, <3>2 DEF RowStands, ConvStands, RowsStand
    <3> QED BY <3>1, <3>2
  <2> QED BY <2>1 DEF RowsStand
<1>7. ASSUME NEW p \in pins' PROVE PinStands(p)' BY <1>3, <1>4, <1>5 DEF PinStands, ConvStands, PinsStand
<1> QED BY <1>6, <1>7, OneAnswered DEF ConvStands, PinsStand, MembersTyped

LEMMA ForkStands ==
  ASSUME ConvInv, ConvStands, NEW q \in ConvRequests, NEW c \in ConvIds, ForkConversation(q, c)
  PROVE  ConvStands'
<1> DEFINE source == creq[q].conv
           copy == Copied(source, creq[q].at)
<1>1. /\ InsertConversation(c, creq[q].user, convo[source].space, source, creq[q].at, copy)
      /\ book' = [book EXCEPT ![c] = [there |-> TRUE, body |-> texts'[c]]]
      /\ Answer(q) /\ UNCHANGED <<space, member, pins>> BY DEF ForkConversation, RebuildProjection
<1>2. LocksSource(creq[q]) /\ creq[q].pc = "fork" BY DEF ConvInv, ForkConversation
<1>3. PICK n \in Nat : n = creq[q].at BY <1>2 DEF LocksSource
<1>4. source \in ConvIds /\ n <= Len(texts[source]) BY <1>2, <1>3 DEF LocksSource
<1>5. texts[source] \in BookTexts /\ Len(texts[source]) <= MaxConvMessages
  BY <1>4 DEF ConvInv, ConvTypes, ConvStands, RowsStand, RowStands
<1>6. Len(copy) <= MaxConvMessages
  <2>1. CASE n = 0 BY <1>3, <1>5, <2>1 DEF Copied
  <2>2. CASE n # 0
    <3>1. copy = SubSeq(texts[source], 1, n) BY <1>3, <2>2 DEF Copied
    <3> HIDE DEF copy, source
    <3>2. n <= MaxConvMessages BY <1>4, <1>5, ConversationsAssumption, LenProperties DEF BookTexts
    <3> QED BY <3>1, <3>2, <1>4, <1>5, FirstMessages
  <2> QED BY <2>1, <2>2
<1> HIDE DEF source, copy
<1> QED BY <1>1, <1>6, InsertedStands

LEMMA AppendStands ==
  ASSUME ConvInv, ConvStands, NEW q \in ConvRequests, NEW u \in ConvUsers, NEW c \in ConvIds,
         AppendText(q, u, c)
  PROVE  ConvStands'
<1>1. ConvTypes BY DEF ConvInv
<1> DEFINE more == Append(texts[c], <<c, Len(texts[c]) + 1>>)
<1>2. /\ Len(texts[c]) < MaxConvMessages /\ texts' = [texts EXCEPT ![c] = more]
      /\ book' = [book EXCEPT ![c].body = texts'[c]]
      /\ UNCHANGED <<space, member, convo, pins, creq>> BY DEF AppendText, RebuildProjection
<1>3. Len(more) <= MaxConvMessages
  <2>1. Len(more) = Len(texts[c]) + 1 /\ Len(texts[c]) \in Nat
    BY AppendProperties, LenProperties, <1>1 DEF ConvTypes, BookTexts
  <2> HIDE DEF more
  <2> QED BY <1>2, <2>1, ConversationsAssumption
<1> HIDE DEF more
<1>4. \A d \in ConvIds : book'[d].there = book[d].there BY <1>1, <1>2 DEF ConvTypes
<1> QED
  BY <1>2, <1>4, <1>1, <1>3 DEF ConvStands, PinsStand, MembersTyped, AsksPin, PinStands, RowsStand, RowStands,
    ConvTypes

LEMMA DeleteStands ==
  ASSUME ConvInv, ConvStands, NEW q \in ConvRequests, NEW u \in ConvUsers, NEW c \in ConvIds,
         DeleteConversation(q, u, c)
  PROVE  ConvStands'
<1>1. ConvTypes BY DEF ConvInv
<1>2. /\ convo' = [d \in ConvIds |->
                    IF d = c THEN [NoConvRow EXCEPT !.used = TRUE]
                    ELSE IF convo[d].from = c THEN [convo[d] EXCEPT !.from = NoConv, !.at = 0]
                    ELSE convo[d]]
      /\ texts' = [texts EXCEPT ![c] = <<>>] /\ book' = [book EXCEPT ![c] = NoBookRow]
      /\ pins' = {p \in pins : p[1] # c /\ p[2] # c} /\ UNCHANGED <<space, member, creq>> BY DEF DeleteConversation
<1>3. ASSUME NEW d \in ConvIds, d # c
      PROVE  /\ convo'[d].live = convo[d].live /\ convo'[d].space = convo[d].space
             /\ texts'[d] = texts[d] /\ book'[d] = book[d]
  <2>1. convo'[d].live = convo[d].live /\ convo'[d].space = convo[d].space BY <1>1, <1>2, <1>3 DEF ConvRow, ConvTypes
  <2> QED BY <1>1, <1>2, <1>3, <2>1 DEF ConvTypes
<1>4. Len(<<>>) <= MaxConvMessages BY ConversationsAssumption
<1>5. RowsStand'
  <2>1. ASSUME NEW d \in ConvIds PROVE RowStands(d)'
    <3>1. CASE d = c BY <1>4, <3>1, <1>1, <1>2 DEF RowStands, ConvTypes, NoConvRow, NoBookRow
    <3>2. CASE d # c BY <1>2, <1>3, <3>2 DEF RowStands, ConvStands, RowsStand
    <3> QED BY <3>1, <3>2
  <2> QED BY <2>1 DEF RowsStand
<1>6. ASSUME NEW p \in pins' PROVE PinStands(p)' BY <1>3, <1>2 DEF PinStands, ConvStands, PinsStand
<1> QED BY <1>2, <1>5, <1>6 DEF ConvStands, PinsStand, MembersTyped, AsksPin

LEMMA SpaceGoes ==
  ASSUME ConvInv, ConvStands, NEW q \in ConvRequests, DeleteWorkspace(q)
  PROVE  ConvStands'
<1> DEFINE w == creq[q].space
           orphans == {c \in ConvIds : convo[c].live /\ convo[c].space = w}
           none == [u \in ConvUsers |-> "none"]
<1>1. /\ space' = [v \in DOMAIN space \ {w} |-> space[v]]
      /\ member' = [member EXCEPT ![w] = none]
      /\ convo' = [c \in ConvIds |-> IF c \in orphans THEN [convo[c] EXCEPT !.space = NoSpace] ELSE convo[c]]
      /\ book' = [c \in ConvIds |-> IF c \in orphans THEN NoBookRow ELSE book[c]]
      /\ pins' = {p \in pins : p[2] \notin orphans} /\ Answer(q) /\ UNCHANGED texts BY DEF DeleteWorkspace
<1>2. MembersTyped'
  <2>1. none \in [ConvUsers -> Accesses] BY DEF Accesses
  <2> HIDE DEF none
  <2> QED BY <1>1, <2>1 DEF ConvStands, MembersTyped
<1>3. ASSUME NEW c \in ConvIds
      PROVE  /\ convo'[c].live = convo[c].live
             /\ c \in orphans => convo'[c].space = NoSpace /\ ~book'[c].there
             /\ c \notin orphans => convo'[c] = convo[c] /\ book'[c] = book[c]
  <2> HIDE DEF orphans
  <2>1. CASE c \in orphans BY <2>1, <1>1 DEF ConvRow, NoBookRow, ConvTypes, ConvInv
  <2>2. CASE c \notin orphans BY <1>1, <2>2
  <2> QED BY <2>1, <2>2
<1>4. RowsStand'
  <2>1. ASSUME NEW c \in ConvIds PROVE RowStands(c)'
    <3>1. RowStands(c) BY DEF ConvStands, RowsStand
    <3>2. CASE c \in orphans BY <1>1, <1>3, <3>1, <3>2 DEF RowStands
    <3>3. CASE c \notin orphans BY <1>1, <1>3, <3>1, <3>3 DEF RowStands
    <3> QED BY <3>2, <3>3
  <2> QED BY <2>1 DEF RowsStand
<1>5. ASSUME NEW p \in pins' PROVE PinStands(p)'
  <2>1. p \in ConvIds \X ConvIds /\ convo[p[1]].live /\ book[p[2]].there /\ p[2] \notin orphans
    BY <1>1 DEF ConvStands, PinsStand, PinStands
  <2> QED BY <2>1, <1>3 DEF PinStands
<1> QED BY <1>1, <1>2, <1>4, <1>5, OneAnswered DEF ConvStands, PinsStand

LEMMA AsksStand ==
  ASSUME ConvInv, ConvStands, NEW q \in ConvRequests, NEW row, AsksPin(row), Wait(q, row),
         UNCHANGED <<space, member, convo, texts, book, pins>>
  PROVE  ConvStands'
  BY RowsLeft, OneAsks DEF Wait, ConvStands, MembersTyped

LEMMA HandlersStand ==
  ASSUME ConvInv, ConvStands, NEW q \in ConvRequests
  PROVE  /\ CreateRefused(q) \/ ForkFails(q) \/ PinBook(q) => ConvStands'
         /\ \A u \in ConvUsers, w \in SpaceIds :
               CreateWorkspace(q, u, w) \/ CountConversations(q, u, w) => ConvStands'
         /\ \A u \in ConvUsers, w \in SpaceIds, d \in {"", "d"} : UpdateWorkspace(q, u, w, d) => ConvStands'
         /\ \A u \in ConvUsers, w \in SpaceIds \cup {NoSpace} : CheckCreate(q, u, w) => ConvStands'
         /\ \A u \in ConvUsers, c \in ConvIds, at \in 0..MaxConvMessages : BeginFork(q, u, c, at) => ConvStands'
         /\ \A u \in ConvUsers, c, b \in ConvIds : CheckPin(q, u, c, b) \/ UnpinBook(q, u, c, b) => ConvStands'
<1>1. /\ MembersTyped /\ \A p \in ConvRequests : AsksPin(creq[p]) BY DEF ConvStands, PinsStand
<1>2. ASSUME CreateRefused(q) \/ ForkFails(q) PROVE ConvStands'
  BY <1>1, OneAnswered, RowsLeft, <1>2 DEF MembersTyped, CreateRefused, ForkFails
<1>3. ASSUME PinBook(q) PROVE ConvStands'
  <2>1. /\ creq[q].pc = "pin" /\ Answer(q) /\ UNCHANGED <<space, member, convo, texts, book>>
        /\ pins' = IF convo[creq[q].conv].live /\ book[creq[q].at].there
                   THEN pins \cup {<<creq[q].conv, creq[q].at>>} ELSE pins BY <1>3 DEF PinBook
  <2> QED BY <1>1, <2>1, OneAnswered, RowsLeft DEF MembersTyped, PinStands, AsksPin
<1>4. ASSUME NEW u \in ConvUsers, NEW w \in SpaceIds, CreateWorkspace(q, u, w) PROVE ConvStands'
  BY <1>1, RowsLeft, <1>4 DEF CreateWorkspace, MembersTyped, Accesses
<1>5. ASSUME NEW u \in ConvUsers, NEW w \in SpaceIds, CountConversations(q, u, w) PROVE ConvStands'
  BY <1>5, AsksStand DEF CountConversations, AsksPin, IdleRequest
<1>6. ASSUME NEW u \in ConvUsers, NEW w \in SpaceIds, NEW d \in {"", "d"}, UpdateWorkspace(q, u, w, d)
      PROVE  ConvStands' BY <1>1, RowsLeft, <1>6 DEF MembersTyped, UpdateWorkspace
<1>7. ASSUME NEW u \in ConvUsers, NEW w \in SpaceIds \cup {NoSpace}, CheckCreate(q, u, w) PROVE ConvStands'
  BY <1>7, AsksStand DEF CheckCreate, AsksPin, IdleRequest
<1>8. ASSUME NEW u \in ConvUsers, NEW c \in ConvIds, NEW at \in 0..MaxConvMessages, BeginFork(q, u, c, at)
      PROVE  ConvStands' BY <1>8, AsksStand DEF BeginFork, AsksPin, IdleRequest
<1>9. ASSUME NEW u \in ConvUsers, NEW c \in ConvIds, NEW b \in ConvIds, CheckPin(q, u, c, b) PROVE ConvStands'
  BY <1>9, AsksStand DEF CheckPin, AsksPin, IdleRequest
<1>10. ASSUME NEW u \in ConvUsers, NEW c \in ConvIds, NEW b \in ConvIds, UnpinBook(q, u, c, b) PROVE ConvStands'
  BY <1>1, RowsLeft, <1>10 DEF MembersTyped, UnpinBook
<1> QED BY <1>2, <1>3, <1>4, <1>5, <1>6, <1>7, <1>8, <1>9, <1>10

LEMMA ConvStandsStep ==
  ASSUME ConvInv, ConvStands, [ConversationsNext]_cvars
  PROVE  ConvStands'
<1>1. CASE UNCHANGED cvars
  BY <1>1 DEF cvars, ConvStands, MembersTyped, RowsStand, RowStands, PinsStand, PinStands, AsksPin
<1>2. ASSUME NEW q \in ConvRequests, NEW c \in ConvIds, CreateConversation(q, c) PROVE ConvStands'
  <2>1. Len(<<>>) <= MaxConvMessages BY ConversationsAssumption
  <2> QED BY <2>1, InsertedStands, <1>2 DEF CreateConversation
<1>3. ASSUME NEW w \in SpaceIds, NEW u \in ConvUsers, NEW a \in {"none", "VIEWER"}, EditMember(w, u, a)
      PROVE  ConvStands' BY RowsLeft, <1>3 DEF ConvStands, PinsStand, MembersTyped, Accesses, EditMember
<1> QED BY <1>1, <1>2, <1>3, HandlersStand, ForkStands, AppendStands, DeleteStands, SpaceGoes DEF ConversationsNext

LEMMA ConversationShapes == ConversationsSpec => []ConversationsTypeOK
<1>1. ConversationsInit => ConvInv /\ ConvStands BY ConvInitInv, ConvStandsFirst
<1>2. ConvInv /\ ConvStands /\ [ConversationsNext]_cvars => (ConvInv /\ ConvStands)'
  BY ConversationsStep, ConvStandsStep
<1>3. ConvInv /\ ConvStands => ConversationsTypeOK
  <2> SUFFICES ASSUME ConvInv, ConvStands PROVE ConversationsTypeOK OBVIOUS
  <2> QED
    BY DEF ConvInv, ConvTypes, ConvStands, MembersTyped, Accesses, RowsStand, RowStands, ConversationsTypeOK,
      PinsStand, PinStands
<1> QED BY <1>1, <1>2, <1>3, PTL DEF ConversationsSpec

\* A transaction that writes has read the right of its user to write.
EditorsWrite ==
    /\ DOMAIN access = BoardUsers
    /\ \A u \in BoardUsers : btx[u].pc \in {"write", "commit"} => access[u] = "EDITOR"

LEMMA EditorsStay ==
  ASSUME BoardInv, EditorsWrite, [BoardNext]_bvars
  PROVE  EditorsWrite'
<1>1. btx \in [BoardUsers -> BoardTxs] BY DEF BoardInv, BoardTypes
<1>2. ASSUME NEW u \in BoardUsers, NEW tx, btx' = [btx EXCEPT ![u] = tx], UNCHANGED access,
             tx.pc \in {"write", "commit"} => access[u] = "EDITOR"
      PROVE  EditorsWrite' BY <1>1, <1>2 DEF EditorsWrite
<1>3. CASE UNCHANGED <<access, btx>> BY <1>3 DEF EditorsWrite
<1>4. CASE UNCHANGED bvars BY <1>3, <1>4 DEF bvars
<1>5. ASSUME NEW u \in BoardUsers, NEW t \in BoardTasks, NEW op \in TaskOps(t), SubmitTask(u, op)
      PROVE  EditorsWrite' BY <1>2, <1>5 DEF SubmitTask
<1>6. ASSUME NEW u \in BoardUsers, AuthorizeWrite(u)
      PROVE  EditorsWrite'
  <2>1. CASE access[u] = "EDITOR" BY <2>1, <1>1, <1>6 DEF EditorsWrite, AuthorizeWrite
  <2>2. CASE access[u] # "EDITOR" BY <1>2, <1>6, <2>2 DEF BoardIdle, AuthorizeWrite
  <2> QED BY <2>1, <2>2
<1>7. ASSUME NEW u \in BoardUsers, AppendActivity(u)
      PROVE  EditorsWrite'
  <2>1. PICK tx : btx' = [btx EXCEPT ![u] = tx] BY <1>7 DEF AppendActivity
  <2> QED BY <1>2, <2>1, <1>7 DEF AppendActivity, EditorsWrite
<1>8. ASSUME NEW u \in BoardUsers, EndWriteTx(u, TRUE) \/ EndWriteTx(u, FALSE)
      PROVE  EditorsWrite' BY <1>2, <1>8 DEF BoardIdle, EndWriteTx
<1>9. ASSUME NEW u \in BoardUsers, ChangeAccess(u)
      PROVE  EditorsWrite' BY <1>9 DEF EditorsWrite, ChangeAccess
<1>10. ASSUME NEW b \in Boards, ListActivity(b)
       PROVE  EditorsWrite' BY <1>3, <1>10 DEF ListActivity
<1> QED BY <1>4, <1>5, <1>6, <1>7, <1>8, <1>9, <1>10 DEF BoardNext

LEMMA BoardShapes == BoardSpec => []BoardTypeOK
<1>1. BoardInit => BoardInv /\ EditorsWrite BY BoardInitInv DEF BoardInit, EditorsWrite, BoardIdle
<1>2. BoardInv /\ EditorsWrite /\ [BoardNext]_bvars => (BoardInv /\ EditorsWrite)' BY BoardStep, EditorsStay
<1>3. BoardInv /\ EditorsWrite => BoardTypeOK
  BY DEF BoardInv, BoardTypes, RowTypes, RowState, TreeState, EditorsWrite, BoardTypeOK
<1> QED BY <1>1, <1>2, <1>3, PTL DEF BoardSpec

\* The vectors of a book are of a revision that it has or had; an executor
\* counts what it loads.
LoadCounts == [source : Nat, skill : Nat, mcp : Nat, plugin : Nat, books_loaded : Nat]
LibraryCounts ==
    /\ embedded \in [BookIds -> Nat] /\ \A b \in BookIds : embedded[b] <= shelf[b].revision
    /\ loads \in LoadCounts /\ loads.books_loaded <= MAX_LOADS
    /\ loads.books_loaded = loads.source + loads.skill + loads.mcp + loads.plugin

LEMMA CountedLoad ==
  ASSUME NEW l \in LoadCounts, NEW c \in {"source", "skill", "mcp", "plugin"}, NEW m,
         l.books_loaded = l.source + l.skill + l.mcp + l.plugin,
         m = [l EXCEPT !.books_loaded = @ + 1, ![c] = @ + 1]
  PROVE  /\ m \in LoadCounts /\ m.books_loaded = l.books_loaded + 1
         /\ m.books_loaded = m.source + m.skill + m.mcp + m.plugin
<1>1. PICK a \in Nat, k \in Nat, x \in Nat, p \in Nat, n \in Nat :
         l = [source |-> a, skill |-> k, mcp |-> x, plugin |-> p, books_loaded |-> n] BY DEF LoadCounts
<1>2. m \in {[source |-> a + 1, skill |-> k, mcp |-> x, plugin |-> p, books_loaded |-> n + 1],
             [source |-> a, skill |-> k + 1, mcp |-> x, plugin |-> p, books_loaded |-> n + 1],
             [source |-> a, skill |-> k, mcp |-> x + 1, plugin |-> p, books_loaded |-> n + 1],
             [source |-> a, skill |-> k, mcp |-> x, plugin |-> p + 1, books_loaded |-> n + 1]}
  <2>1. CASE c = "source" BY <1>1, <2>1
  <2>2. CASE c = "skill" BY <1>1, <2>2
  <2>3. CASE c = "mcp" BY <1>1, <2>3
  <2>4. CASE c = "plugin" BY <1>1, <2>4
  <2> QED BY <2>1, <2>2, <2>3, <2>4
<1> QED BY <1>1, <1>2 DEF LoadCounts

LEMMA CountsStay ==
  ASSUME LibInv, LibraryCounts, [LibraryNext]_libvars
  PROVE  LibraryCounts'
<1>1. shelf \in [BookIds -> BookRows] /\ \A b \in BookIds : shelf[b].revision \in Nat
  BY DEF LibInv, LibTypes, BookRows
<1>2. CASE UNCHANGED <<shelf, embedded, loads>> BY <1>2 DEF LibraryCounts
<1>3. ASSUME NEW b \in BookIds, NEW row, row.revision \in Nat, Write(b, row)
      PROVE  LibraryCounts'
  <2>1. /\ shelf' = [shelf EXCEPT ![b] = row] /\ embedded' = [embedded EXCEPT ![b] = 0]
        /\ UNCHANGED loads BY <1>3 DEF Write
  <2>2. ASSUME NEW c \in BookIds
        PROVE  embedded'[c] <= shelf'[c].revision
    <3>1. CASE c = b BY <1>3, <1>1, <2>1, <3>1 DEF LibraryCounts
    <3>2. CASE c # b BY <1>1, <2>1, <3>2 DEF LibraryCounts
    <3> QED BY <3>1, <3>2
  <2> QED BY <2>1, <2>2 DEF LibraryCounts
<1>4. NoBook.revision \in Nat BY DEF NoBook
<1>5. ASSUME NEW u \in LibUsers,
             LexicalQuery(u) \/ SemanticQuery(u) \/ LexicalOnly(u) \/ SearchDone(u) \/ LibraryAdd(u)
      PROVE  LibraryCounts'
  BY <1>5, <1>2 DEF LexicalQuery, SemanticQuery, LexicalOnly, SearchDone, LibraryAdd, libvars
<1>6. ASSUME NEW u \in LibUsers, NEW b \in BookIds, NEW row \in Rows, CreateBook(u, b, row)
      PROVE  LibraryCounts'
  <2> DEFINE new == [row EXCEPT !.owner = OwnerOf(u, row.scope), !.creator = u, !.chunks = ChunkText(row.length)]
  <2>1. new.revision = 1 BY DEF Rows
  <2>2. Write(b, new) BY <1>6 DEF CreateBook
  <2> HIDE DEF new
  <2> QED BY <1>3, <2>1, <2>2
<1>7. ASSUME NEW u \in LibUsers, NEW b \in BookIds, NEW l \in Lengths, NEW n, UpdateBook(u, b, l, n)
      PROVE  LibraryCounts'
  <2> DEFINE new == [shelf[b] EXCEPT !.length = l, !.revision = @ + 1, !.chunks = ChunkText(l)]
  <2>1. Write(b, new) BY <1>7 DEF UpdateBook
  <2>2. new.revision \in Nat BY <1>1 DEF BookRows
  <2> HIDE DEF new
  <2> QED BY <1>3, <2>1, <2>2
<1>8. ASSUME NEW u \in LibUsers, NEW b \in BookIds, DeleteBook(u, b)
      PROVE  LibraryCounts' BY <1>8, <1>3, <1>4 DEF DeleteBook
<1>9. ASSUME NEW u \in LibUsers, NEW b \in BookIds, LibraryLoad(u, b)
      PROVE  LibraryCounts'
  <2> DEFINE c == Counter(shelf[b].kind)
  <2>1. c \in {"source", "skill", "mcp", "plugin"} BY DEF Counter
  <2>2. /\ loads.books_loaded < MAX_LOADS /\ UNCHANGED <<shelf, embedded>>
        /\ loads' = [loads EXCEPT !.books_loaded = @ + 1, ![c] = @ + 1] BY <1>9 DEF LibraryLoad, LoadLeft
  <2>3. /\ loads \in LoadCounts
        /\ loads.books_loaded = loads.source + loads.skill + loads.mcp + loads.plugin BY DEF LibraryCounts
  <2> HIDE DEF c
  <2>4. /\ loads' \in LoadCounts /\ loads'.books_loaded = loads.books_loaded + 1
        /\ loads'.books_loaded = loads'.source + loads'.skill + loads'.mcp + loads'.plugin
    BY <2>1, <2>2, <2>3, CountedLoad
  <2> QED BY <2>2, <2>4, LoadsAssumption, <2>3 DEF LibraryCounts, LoadCounts
<1>10. ASSUME NEW k \in Companions, NEW b \in BookIds, CompanionInsert(b, k)
       PROVE  LibraryCounts'
  <2> DEFINE new == [NoBook EXCEPT !.kind = k, !.revision = 1, !.ws = k = "SKILL",
                                   !.scope = IF k = "SKILL" THEN "WORKSPACE" ELSE "PROFILE"]
  <2>1. new.revision = 1 BY DEF NoBook
  <2>2. Write(b, new) BY <1>10 DEF CompanionInsert
  <2> HIDE DEF new
  <2> QED BY <1>3, <2>1, <2>2
<1>11. ASSUME NEW k \in Companions, NEW b \in BookIds, CompanionDelete(b, k)
       PROVE  LibraryCounts' BY <1>11, <1>2, <1>3, <1>4 DEF CompanionDelete
<1>12. ASSUME NEW k \in Companions, NEW b \in BookIds, NEW l \in Lengths, CompanionSync(b, k, l)
       PROVE  LibraryCounts'
  <2>1. shelf' = [shelf EXCEPT ![b].length = l] /\ UNCHANGED <<embedded, loads>> BY <1>12 DEF CompanionSync
  <2>2. ASSUME NEW c \in BookIds
        PROVE  shelf'[c].revision = shelf[c].revision BY <1>1, <2>1 DEF BookRows
  <2> QED BY <2>1, <2>2 DEF LibraryCounts
<1>13. ASSUME NEW b \in BookIds, Embed(b)
       PROVE  LibraryCounts'
  <2>1. embedded' = [embedded EXCEPT ![b] = shelf[b].revision] /\ UNCHANGED <<shelf, loads>> BY <1>13 DEF Embed
  <2>2. ASSUME NEW c \in BookIds
        PROVE  embedded'[c] <= shelf[c].revision
    <3>1. CASE c = b BY <1>1, <2>1, <3>1 DEF LibraryCounts
    <3>2. CASE c # b BY <2>1, <3>2 DEF LibraryCounts
    <3> QED BY <3>1, <3>2
  <2> QED BY <2>1, <2>2, <1>1 DEF LibraryCounts
<1>14. CASE NewExecutor
  <2>1. 0 <= MAX_LOADS BY LoadsAssumption
  <2> QED BY <2>1, <1>14 DEF LibraryCounts, NewExecutor, NoLoads, LoadCounts
<1>15. ASSUME NEW u \in LibUsers, NEW r, NEW m, ChangeRole(u, r, m)
      PROVE  LibraryCounts' BY <1>15, <1>2 DEF ChangeRole
<1>16. ASSUME NEW k \in Companions, ActivateTarget(k)
      PROVE  LibraryCounts' BY <1>16, <1>2 DEF ActivateTarget
<1>17. CASE UNCHANGED libvars BY <1>17, <1>2 DEF libvars
<1> QED BY <1>5, <1>6, <1>7, <1>8, <1>9, <1>10, <1>11, <1>12, <1>13, <1>14, <1>15, <1>16, <1>17 DEF LibraryNext

LEMMA LibraryShapes == LibrarySpec => []LibraryTypeOK
<1>1. LibraryInit => LibInv /\ LibraryCounts
  <2>1. ASSUME LibraryInit PROVE LibraryCounts
    <3>1. 0 <= MAX_LOADS BY LoadsAssumption
    <3> QED BY <3>1, <2>1 DEF LibraryCounts, LibraryInit, NoLoads, LoadCounts, NoBook
  <2> QED BY <2>1, LibraryInitInv
<1>2. LibInv /\ LibraryCounts /\ [LibraryNext]_libvars => (LibInv /\ LibraryCounts)' BY LibraryStep, CountsStay
<1>3. LibInv /\ LibraryCounts => LibraryTypeOK
  <2>1. ASSUME LibInv, LibraryCounts, NEW b \in BookIds
        PROVE  shelf[b].scope \in Scopes /\ embedded[b] \in 0 .. shelf[b].revision
    BY <2>1 DEF LibraryCounts, BookRows, LibInv, LibTypes
  <2> QED BY <2>1 DEF LibraryCounts, LibraryTypeOK
<1> QED BY <1>1, <1>2, <1>3, PTL DEF LibrarySpec
=============================================================================
