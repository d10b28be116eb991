--------------------------- MODULE ModelRegistry ----------------------------
(***************************************************************************)
(* The chat models of a profile (model_api.rs), and the way a run finds    *)
(* the models it may use (model_limits of run_api.rs, load_routes of       *)
(* chat.rs): the requested model or the default, then its fallbacks.       *)
(*                                                                         *)
(* A run reads its limits first, builds its context for them, and reads    *)
(* the routes later: models are created, activated and deleted meanwhile.  *)
(* Every created model brings a provider row of its own.                   *)
(***************************************************************************)
EXTENDS Naturals, Sequences, FiniteSets, FiniteSetsExt, SequencesExt, ListOps

CONSTANTS ChatModels,       \* model ids, numbers; a larger one has the higher priority
          WindowOf,         \* context_window - output_limit of each
          CostOf,           \* cost_ranking of each, set in the database
          ModelRequests,    \* concurrent delete handlers
          TaskClasses,      \* classes with a route of their own
          MaxRegistryOps    \* bound: creations, activations, route edits, deletions

NoModel == 0
ASSUME RegistryAssumption == /\ ChatModels \subseteq Nat \ {NoModel}
                             /\ WindowOf \in [ChatModels -> Nat]

VARIABLES registered,    \* the models that exist
          providers,     \* the models whose provider row exists
          fallbacks,     \* fallbacks[m]: model_fallback_routes of m by position
          active,        \* active_chat_model_id
          taskRoute,     \* model_task_routes: the preferred model of a class
          deletion,      \* deletion[q]: a delete handler between check and delete
          turn,          \* the run: its requested model, limits, routes, answer
          registryOps

mrvars == <<registered, providers, fallbacks, active, taskRoute, deletion, turn, registryOps>>

Fresh == [pc |-> "idle", requested |-> NoModel, named |-> FALSE, budget |-> 0,
          routes |-> <<>>, selected |-> NoModel]

RegistryInit ==
    /\ registered = {} /\ providers = {} /\ active = NoModel
    /\ fallbacks = [m \in ChatModels |-> <<>>]
    /\ taskRoute = [c \in TaskClasses |-> NoModel]
    /\ deletion = [q \in ModelRequests |-> [pc |-> "idle", model |-> NoModel, whole |-> FALSE]]
    /\ turn = Fresh
    /\ registryOps = 0

Counted == registryOps < MaxRegistryOps /\ registryOps' = registryOps + 1

(***************************************************************************)
(* model_api                                                               *)
(***************************************************************************)
(* At most five distinct fallbacks, all of them models of the profile *)
ValidFallbacks(list) == Len(list) <= 5 /\ IsInjective(list) /\ ToSet(list) \subseteq registered

CreateChatModel(m, list, activate) ==
    /\ Counted
    /\ m \notin providers \cup registered /\ ValidFallbacks(list)
    /\ registered' = registered \cup {m} /\ providers' = providers \cup {m}
    /\ fallbacks' = [fallbacks EXCEPT ![m] = list]
    /\ active' = IF activate THEN m ELSE active
    /\ UNCHANGED <<taskRoute, deletion, turn>>

ActivateChatModel(m) ==
    /\ Counted
    /\ m \in registered
    /\ active' = m
    /\ UNCHANGED <<registered, providers, fallbacks, taskRoute, deletion, turn>>

UpsertTaskRoute(c, m) ==
    /\ Counted
    /\ m \in registered
    /\ taskRoute' = [taskRoute EXCEPT ![c] = m]
    /\ UNCHANGED <<registered, providers, fallbacks, active, deletion, turn>>

DeleteTaskRoute(c) ==
    /\ Counted
    /\ taskRoute[c] # NoModel
    /\ taskRoute' = [taskRoute EXCEPT ![c] = NoModel]
    /\ UNCHANGED <<registered, providers, fallbacks, active, deletion, turn>>

(* delete_model and delete_provider (`whole`) read the active model in their
   transaction, without a lock, and then delete                            *)
CheckDelete(q, m, whole) ==
    /\ Counted
    /\ deletion[q].pc = "idle"
    /\ m \in registered /\ active # m
    /\ deletion' = [deletion EXCEPT ![q] = [pc |-> "checked", model |-> m, whole |-> whole]]
    /\ UNCHANGED <<registered, providers, fallbacks, active, taskRoute, turn>>

(* The foreign keys of what refers to the model: routes cascade, the active
   model and the requested model of a run's row are set to NULL; an executor
   that has read the row keeps what it read                                *)
Without(m, list) == Picked(list, {i \in DOMAIN list : list[i] # m})

FinishDelete(q) ==
    LET m == deletion[q].model
        gone(other) == IF other = m THEN NoModel ELSE other
    IN /\ deletion[q].pc = "checked"
       /\ deletion' = [deletion EXCEPT ![q].pc = "idle"]
       /\ registered' = registered \ {m}
       /\ providers' = IF deletion[q].whole THEN providers \ {m} ELSE providers
       /\ fallbacks' = [other \in ChatModels |-> IF other = m THEN <<>> ELSE Without(m, fallbacks[other])]
       /\ taskRoute' = [c \in TaskClasses |-> gone(taskRoute[c])]
       /\ active' = gone(active)
       /\ turn' = [turn EXCEPT !.requested = IF turn.pc = "queued" THEN gone(@) ELSE @,
                               !.named = @ /\ turn.requested # m]
       /\ UNCHANGED registryOps

(***************************************************************************)
(* The run                                                                 *)
(***************************************************************************)
(* primary_model: the requested one, if it exists; for a run that requests
   none the active one, else by priority                                   *)
Primary ==
    IF turn.requested # NoModel THEN IF turn.requested \in registered THEN turn.requested ELSE NoModel
    ELSE IF active # NoModel THEN active
    ELSE IF registered = {} THEN NoModel ELSE Max(registered)

Chain == IF Primary = NoModel THEN <<>> ELSE <<Primary>> \o fallbacks[Primary]

(* start_turn: the requested model, or else the active one, must exist *)
Submit(m) ==
    /\ turn.pc = "idle"
    /\ (IF m = NoModel THEN active ELSE m) \in registered
    /\ turn' = [Fresh EXCEPT !.pc = "queued", !.requested = m, !.named = (m # NoModel)]
    /\ UNCHANGED <<registered, providers, fallbacks, active, taskRoute, deletion, registryOps>>

(* execute_inner reads the row of the run once *)
ReadRow ==
    /\ turn.pc = "queued"
    /\ turn' = [turn EXCEPT !.pc = "limits"]
    /\ UNCHANGED <<registered, providers, fallbacks, active, taskRoute, deletion, registryOps>>

Limits(chain) == Min({WindowOf[chain[i]] : i \in DOMAIN chain})

ReadLimits ==
    /\ turn.pc = "limits"
    /\ turn' = IF Chain = <<>> THEN [turn EXCEPT !.pc = "failed"]
               ELSE [turn EXCEPT !.pc = "routes", !.budget = Limits(Chain)]
    /\ UNCHANGED <<registered, providers, fallbacks, active, taskRoute, deletion, registryOps>>

(* The primary first, then the cheaper ones, then by position; a route
   whose credential or network policy is not in order is skipped           *)
Before(chain, i, j) ==
    IF 1 \in {i, j} THEN i < j
    ELSE \/ CostOf[chain[i]] < CostOf[chain[j]]
         \/ CostOf[chain[i]] = CostOf[chain[j]] /\ i < j
Orders(chain) ==
    {order \in [DOMAIN chain -> DOMAIN chain] :
        \A i, j \in DOMAIN chain : i < j => Before(chain, order[i], order[j])}

LoadRoutes(usable) ==
    /\ turn.pc = "routes"
    /\ \E order \in Orders(Chain) :
         LET inOrder == [i \in DOMAIN Chain |-> Chain[order[i]]]
             routes == Picked(inOrder, {i \in DOMAIN Chain : inOrder[i] \in usable})
         IN turn' = IF routes = <<>> THEN [turn EXCEPT !.pc = "failed"]
                    ELSE [turn EXCEPT !.pc = "open", !.routes = routes]
    /\ UNCHANGED <<registered, providers, fallbacks, active, taskRoute, deletion, registryOps>>

(* open_with_fallback used the i-th route; the model's row is looked up to
   record it, and the run fails if it is gone                              *)
OpenRoute(i) ==
    /\ turn.pc = "open" /\ i \in DOMAIN turn.routes
    /\ turn' = IF turn.routes[i] \in registered
               THEN [turn EXCEPT !.pc = "answering", !.selected = turn.routes[i]]
               ELSE [turn EXCEPT !.pc = "failed"]
    /\ UNCHANGED <<registered, providers, fallbacks, active, taskRoute, deletion, registryOps>>

Lists == UNION {[1 .. n -> ChatModels] : n \in 0 .. 2}

RegistryNext ==
    \/ \E m \in ChatModels, list \in Lists, a \in BOOLEAN : CreateChatModel(m, list, a)
    \/ \E m \in ChatModels : ActivateChatModel(m)
    \/ \E m \in ChatModels, c \in TaskClasses : UpsertTaskRoute(c, m)
    \/ \E c \in TaskClasses : DeleteTaskRoute(c)
    \/ \E q \in ModelRequests, m \in ChatModels, whole \in BOOLEAN : CheckDelete(q, m, whole)
    \/ \E q \in ModelRequests : FinishDelete(q)
    \/ \E m \in ChatModels \cup {NoModel} : Submit(m)
    \/ ReadRow \/ ReadLimits
    \/ \E usable \in SUBSET ChatModels : LoadRoutes(usable)
    \/ \E i \in 1 .. 6 : OpenRoute(i)

RegistrySpec == RegistryInit /\ [][RegistryNext]_mrvars

RegistryTypeOK ==
    /\ registered \subseteq providers
    /\ active \in registered \cup {NoModel}
    /\ \A c \in TaskClasses : taskRoute[c] \in registered \cup {NoModel}
    /\ \A m \in ChatModels : /\ ToSet(fallbacks[m]) \subseteq registered
                             /\ IsInjective(fallbacks[m]) /\ m \notin ToSet(fallbacks[m])
    /\ turn.named => turn.requested \in registered

(***************************************************************************)
(* The context of a run fits the model that answers: for a run that names  *)
(* its model, and if that model is not deleted meanwhile (one created anew  *)
(* with its id may have other fallbacks), whichever route is opened has a  *)
(* window at least as large as the budget the context was built for,       *)
(* though limits and routes are read at different times (model_limits and  *)
(* load_routes).                                                           *)
(***************************************************************************)
RequestFits ==
    turn.pc = "answering" /\ turn.named => turn.budget <= WindowOf[turn.selected]
=============================================================================
