---------------------------- MODULE McpLifecycle ---------------------------
(***************************************************************************)
(* SessionLifecycle (gobrowse-core mcp/lifecycle.rs): the state of one MCP *)
(* session, the generation that fences its requests, and the requests that *)
(* wait for an answer.  Its user may call any operation at any time and    *)
(* keep tokens for as long as it likes; each operation refuses what is out *)
(* of order and changes nothing then, except begin_reconnect, which fails  *)
(* the session once its attempts are used up.                              *)
(***************************************************************************)
EXTENDS Naturals, FiniteSets
CONSTANTS MAX_PENDING_REQUESTS, MAX_RECONNECT_ATTEMPTS,
          MaxGeneration,   \* bound: the generation (checked_add in the code)
          MaxRequestId     \* bound: the request ids
ASSUME LifecycleAssumption == MAX_RECONNECT_ATTEMPTS \in Nat

VARIABLES sessionState, generation, era, capabilities, legacy_initialized, pending,
          reconnect_attempts, nextRequest,
          tokens,   \* history: tokens given out
          closed    \* history: tokens answered, cancelled or drained
lvars == <<sessionState, generation, era, capabilities, legacy_initialized, pending,
           reconnect_attempts, nextRequest, tokens, closed>>

States == {"Disconnected", "Connecting", "Discovering", "Initializing", "Ready", "Closing", "Closed", "Failed"}
Down   == {"Disconnected", "Closed", "Failed"}

LifecycleInit ==
    /\ sessionState = "Disconnected" /\ generation = 0 /\ era = "none" /\ capabilities = FALSE
    /\ legacy_initialized = FALSE /\ pending = {} /\ reconnect_attempts = 0 /\ nextRequest = 0
    /\ tokens = {} /\ closed = {}

ClearSession == era' = "none" /\ capabilities' = FALSE /\ legacy_initialized' = FALSE
\* Mutant: the requests of the old connection go on waiting.
DrainNothing == UNCHANGED <<pending, closed>>
DrainPending == pending' = {} /\ closed' = closed \cup pending
Goes(s) == sessionState' = s

BeginConnectInner(from) ==
    /\ from \in Down /\ generation < MaxGeneration
    /\ generation' = generation + 1 /\ Goes("Connecting") /\ ClearSession
BeginConnect ==
    /\ pending = {} /\ BeginConnectInner(sessionState) /\ reconnect_attempts' = 0
    /\ UNCHANGED <<pending, nextRequest, tokens, closed>>
BeginDiscovery ==
    /\ sessionState = "Connecting" /\ Goes("Discovering")
    /\ UNCHANGED <<generation, era, capabilities, legacy_initialized, pending, reconnect_attempts,
                   nextRequest, tokens, closed>>
BeginInitialize ==
    /\ sessionState = "Connecting" /\ Goes("Initializing")
    /\ UNCHANGED <<generation, era, capabilities, legacy_initialized, pending, reconnect_attempts,
                   nextRequest, tokens, closed>>
BindNegotiation ==
    /\ era' = CASE sessionState = "Discovering"  -> "modern"
                [] sessionState = "Initializing" -> "legacy"
                [] OTHER                         -> era
    /\ sessionState \in {"Discovering", "Initializing"} /\ capabilities' = TRUE
    /\ UNCHANGED <<sessionState, generation, legacy_initialized, pending, reconnect_attempts,
                   nextRequest, tokens, closed>>
MarkLegacyInitialized ==
    /\ sessionState = "Initializing" /\ era = "legacy" /\ capabilities /\ ~legacy_initialized
    /\ legacy_initialized' = TRUE
    /\ UNCHANGED <<sessionState, generation, era, capabilities, pending, reconnect_attempts,
                   nextRequest, tokens, closed>>
MarkReady ==
    /\ era # "none" /\ capabilities /\ (era = "legacy" => legacy_initialized)
    /\ sessionState \in {"Discovering", "Initializing"} /\ Goes("Ready")
    /\ UNCHANGED <<generation, era, capabilities, legacy_initialized, pending, reconnect_attempts,
                   nextRequest, tokens, closed>>

Room == Cardinality(pending) < MAX_PENDING_REQUESTS
AllocateAndReserve ==
    LET token == [generation |-> generation, id |-> nextRequest + 1]
    IN  /\ sessionState = "Ready" /\ nextRequest < MaxRequestId /\ Room
        /\ nextRequest' = nextRequest + 1 /\ pending' = pending \cup {token}
        /\ tokens' = tokens \cup {token}
        /\ UNCHANGED <<sessionState, generation, era, capabilities, legacy_initialized,
                       reconnect_attempts, closed>>
\* A token that was given out before is made to wait again.
Reserve(token) ==
    /\ sessionState \in {"Ready", "Initializing"} /\ token.generation = generation
    /\ token \notin pending /\ Room
    /\ pending' = pending \cup {token} /\ closed' = closed \ {token}
    /\ UNCHANGED <<sessionState, generation, era, capabilities, legacy_initialized,
                   reconnect_attempts, nextRequest, tokens>>
\* An answer, or the caller gives up (cancel).
Complete(token) ==
    /\ sessionState \notin Down \cup {"Closing"} /\ token \in pending
    /\ pending' = pending \ {token} /\ closed' = closed \cup {token}
    /\ UNCHANGED <<sessionState, generation, era, capabilities, legacy_initialized,
                   reconnect_attempts, nextRequest, tokens>>

\* From Closing and Closed it answers with nothing to drain.
BeginClose ==
    /\ sessionState \in {"Connecting", "Discovering", "Initializing", "Ready", "Failed"}
    /\ Goes("Closing") /\ DrainPending
    /\ UNCHANGED <<generation, era, capabilities, legacy_initialized, reconnect_attempts,
                   nextRequest, tokens>>
FinishClose ==
    /\ sessionState = "Closing" /\ Goes("Closed") /\ ClearSession
    /\ UNCHANGED <<generation, pending, reconnect_attempts, nextRequest, tokens, closed>>
Disconnect ==
    /\ Goes("Disconnected") /\ ClearSession /\ DrainPending
    /\ UNCHANGED <<generation, reconnect_attempts, nextRequest, tokens>>
SessionFails ==
    /\ Goes("Failed") /\ ClearSession /\ DrainPending
    /\ UNCHANGED <<generation, reconnect_attempts, nextRequest, tokens>>
BeginReconnect ==
    /\ sessionState \in Down \cup {"Ready"} /\ DrainPending
    /\ IF reconnect_attempts >= MAX_RECONNECT_ATTEMPTS
       THEN Goes("Failed") /\ ClearSession /\ UNCHANGED <<generation, reconnect_attempts>>
       ELSE reconnect_attempts' = reconnect_attempts + 1 /\ BeginConnectInner("Disconnected")
    /\ UNCHANGED <<nextRequest, tokens>>

LifecycleNext ==
    \/ BeginConnect \/ BeginDiscovery \/ BeginInitialize \/ BindNegotiation \/ MarkLegacyInitialized
    \/ MarkReady \/ AllocateAndReserve \/ BeginClose \/ FinishClose \/ Disconnect \/ SessionFails
    \/ BeginReconnect
    \/ \E token \in tokens : Reserve(token) \/ Complete(token)
LifecycleSpec == LifecycleInit /\ [][LifecycleNext]_lvars
-----------------------------------------------------------------------------
LifecycleTypeOK ==
    /\ sessionState \in States /\ era \in {"none", "modern", "legacy"}
    /\ pending \subseteq tokens /\ reconnect_attempts \in 0..MAX_RECONNECT_ATTEMPTS

(***************************************************************************)
(* The fence: a request waits only in the generation that sent it and only *)
(* while that connection is up, so that no answer of an older connection   *)
(* is ever accepted; a token handed out either waits or was handed back    *)
(* (answered, cancelled or drained), so that no caller is forgotten; and a *)
(* session carries requests only once a version is negotiated.             *)
(***************************************************************************)
PendingIsFenced ==
    /\ \A token \in pending : token.generation = generation
    /\ pending # {} => sessionState \notin Down \cup {"Closing"}
    /\ tokens = pending \cup closed /\ pending \cap closed = {}
    /\ sessionState = "Ready" => era # "none" /\ capabilities /\ (era = "legacy" => legacy_initialized)
=============================================================================
