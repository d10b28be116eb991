------------------------------ MODULE ToolGate ------------------------------
(***************************************************************************)
(* What stands between a model's tool call and the tool (authorize.rs, the *)
(* tool loop of execute_inner in run_api.rs, the definitions of            *)
(* run_tools.rs), and between a book and the context of a run: the risk    *)
(* class of the tool, the decision cache of the server, the policies of    *)
(* the profile, the default matrix and the audit row of every decision.    *)
(*                                                                         *)
(* The runs of a server share one cache; the policies live in the database *)
(* and are edited there, by no handler of this code.                       *)
(***************************************************************************)
EXTENDS Naturals, FiniteSets

CONSTANTS GateRuns,        \* runs in flight on this server
          GateProfile,     \* the profile of each run
          GateTools,       \* the names, of Calls, that the models call
          MaxGateCalls,    \* bound: calls of all runs
          MaxPolicyEdits   \* bound: edits of the policy table

VARIABLES policy,      \* policy[profile][action]: the row that applies, or "none"
          cache,       \* cache[action]: AuthPolicyCache, empty or a decision
          call,        \* call[run]: the call being authorized
          activated,   \* activated[run]: sandbox_activated
          sandboxed,   \* a sandbox client is configured
          audits,      \* the audit_events rows of decisions
          acted,       \* history: calls that reached their tool or their book
          said,        \* history: what policies or matrix said since the start
          gateCalls, policyEdits

gatevars == <<policy, cache, call, activated, sandboxed, audits, acted, said, gateCalls, policyEdits>>

GateProfiles == {GateProfile[r] : r \in GateRuns}

(***************************************************************************)
(* The tools: the three of the library, one that reads the sandbox, one    *)
(* listed as EXECUTE, one that is not in the list and a name that is no    *)
(* tool.  "book" stands for a book that the context of a run retrieves.    *)
(***************************************************************************)
LibraryTools == {"library_search", "library_add", "library_load"}
SandboxTools == {"sandbox_stat", "sandbox_exec", "terminal_input"}
ToolDescriptors == LibraryTools \cup IF sandboxed THEN SandboxTools ELSE {}
ActiveToolDefs(r) == IF activated[r] THEN ToolDescriptors ELSE ToolDescriptors \cap LibraryTools
Calls == LibraryTools \cup SandboxTools \cup {"no_such_tool", "book"}
ASSUME GateAssumption == GateTools \subseteq Calls

RiskClassForTool(name) ==
    CASE name \in {"library_search", "library_load", "sandbox_stat"} -> "read"
      [] name = "sandbox_exec"                                       -> "execute"
      [] OTHER                                                       -> "write"

(* A risk class it does not know is a write *)
FromToolRisk(risk) == IF risk \in {"read", "write", "destructive", "system"} THEN risk ELSE "write"

Actions == {"EXECUTE:read", "EXECUTE:write", "CONTEXT_RETRIEVE"}
ActionKey(name) ==
    CASE name = "book" -> "CONTEXT_RETRIEVE"
      [] FromToolRisk(RiskClassForTool(name)) = "read" -> "EXECUTE:read"
      [] OTHER -> "EXECUTE:write"

Decisions == {"ALLOW", "ASK", "DENY"}

(* The matrix's rows for an agent: nothing it executes here is destructive *)
DefaultMatrixDecision(action) == "ALLOW"

Decide(profile, action) ==
    IF policy[profile][action] = "none" THEN DefaultMatrixDecision(action) ELSE policy[profile][action]

(* Mutant: the cache is keyed by the actor alone *)
CacheKeyNoAction(action) == "EXECUTE:read"

CacheKey(action) == action

NoCall == [id |-> 0, name |-> "none", pc |-> "idle", decision |-> "none", reason |-> "none"]

GateInit ==
    /\ policy = [p \in GateProfiles |-> [a \in Actions |-> "none"]]
    /\ cache = [a \in Actions |-> "none"]
    /\ call = [r \in GateRuns |-> NoCall]
    /\ activated = [r \in GateRuns |-> FALSE]
    /\ sandboxed \in BOOLEAN
    /\ audits = {} /\ acted = {}
    /\ said = [a \in Actions |-> {DefaultMatrixDecision(a)}]
    /\ gateCalls = 0 /\ policyEdits = 0

Move(r, pc) == call' = [call EXCEPT ![r].pc = pc]
Decides(r, decision, reason, pc) ==
    call' = [call EXCEPT ![r].decision = decision, ![r].reason = reason, ![r].pc = pc]

(* The model names any tool, advertised to it or not; a build of the
   context asks for each book it found                                    *)
CallTool(r, name) ==
    /\ call[r].pc = "idle" /\ gateCalls < MaxGateCalls
    /\ gateCalls' = gateCalls + 1
    /\ call' = [call EXCEPT ![r] = [NoCall EXCEPT !.id = gateCalls', !.name = name, !.pc = "cache"]]
    /\ UNCHANGED <<policy, cache, activated, sandboxed, audits, acted, said, policyEdits>>

(***************************************************************************)
(* authorize                                                               *)
(***************************************************************************)
CheckCache(r) ==
    LET hit == cache[CacheKey(ActionKey(call[r].name))]
    IN /\ call[r].pc = "cache"
       /\ IF hit = "none" THEN Move(r, "policies") ELSE Decides(r, hit, "cache", "audit")
       /\ UNCHANGED <<policy, cache, activated, sandboxed, audits, acted, said, gateCalls, policyEdits>>

QueryPolicies(r) ==
    /\ call[r].pc = "policies"
    /\ Decides(r, Decide(GateProfile[r], ActionKey(call[r].name)), "matrix", "insert")
    /\ UNCHANGED <<policy, cache, activated, sandboxed, audits, acted, said, gateCalls, policyEdits>>

UpdateCache(r) ==
    /\ call[r].pc = "insert"
    /\ cache' = [cache EXCEPT ![CacheKey(ActionKey(call[r].name))] = call[r].decision]
    /\ Move(r, "audit")
    /\ UNCHANGED <<policy, activated, sandboxed, audits, acted, said, gateCalls, policyEdits>>

AuditDecision(r) ==
    /\ call[r].pc = "audit"
    /\ audits' = audits \cup {[id |-> call[r].id, action |-> ActionKey(call[r].name),
                               decision |-> call[r].decision, reason |-> call[r].reason]}
    /\ Move(r, "decided")
    /\ UNCHANGED <<policy, cache, activated, sandboxed, acted, said, gateCalls, policyEdits>>

(* A statement fails: the run, or the build of its context, ends *)
AuthorizeFails(r) ==
    /\ call[r].pc \in {"policies", "audit"}
    /\ Move(r, "ended")
    /\ UNCHANGED <<policy, cache, activated, sandboxed, audits, acted, said, gateCalls, policyEdits>>

(***************************************************************************)
(* The caller: a tool needs ALLOW, a book only that it is not denied       *)
(***************************************************************************)
Passes(c) == IF c.name = "book" THEN c.decision # "DENY" ELSE c.decision = "ALLOW"
IsTool(name) == name \in LibraryTools \/ (sandboxed /\ name \in SandboxTools) \/ name = "book"

Refuse(r) ==
    /\ call[r].pc = "decided" /\ ~Passes(call[r])
    /\ call' = [call EXCEPT ![r] = NoCall]
    /\ UNCHANGED <<policy, cache, activated, sandboxed, audits, acted, said, gateCalls, policyEdits>>

(* The tool runs, or the name is none or its sandbox is not configured *)
Dispatch(r) ==
    /\ call[r].pc = "decided" /\ Passes(call[r])
    /\ call' = [call EXCEPT ![r] = NoCall]
    /\ IF IsTool(call[r].name)
       THEN /\ acted' = acted \cup {[id |-> call[r].id, name |-> call[r].name]}
            /\ activated' = [activated EXCEPT ![r] = @ \/ call[r].name \in SandboxTools]
       ELSE UNCHANGED <<acted, activated>>
    /\ UNCHANGED <<policy, cache, sandboxed, audits, said, gateCalls, policyEdits>>

EditPolicy(p, action, decision) ==
    /\ policyEdits < MaxPolicyEdits
    /\ policyEdits' = policyEdits + 1
    /\ policy' = [policy EXCEPT ![p][action] = decision]
    /\ said' = [said EXCEPT ![action] = @ \cup {decision}]
    /\ UNCHANGED <<cache, call, activated, sandboxed, audits, acted, gateCalls>>

GateNext ==
    \/ \E r \in GateRuns, name \in GateTools : CallTool(r, name)
    \/ \E r \in GateRuns : \/ CheckCache(r) \/ QueryPolicies(r) \/ UpdateCache(r)
                           \/ AuditDecision(r) \/ AuthorizeFails(r) \/ Refuse(r) \/ Dispatch(r)
    \/ \E p \in GateProfiles, a \in Actions, d \in Decisions : EditPolicy(p, a, d)

GateSpec == GateInit /\ [][GateNext]_gatevars

GateTypeOK ==
    /\ GateTools \subseteq Calls
    /\ cache \in [Actions -> Decisions \cup {"none"}]
    /\ \A r \in GateRuns : /\ call[r].decision \in Decisions \cup {"none"}
                           /\ ActiveToolDefs(r) \subseteq LibraryTools \cup SandboxTools
    /\ activated \in [GateRuns -> BOOLEAN] /\ said \in [Actions -> SUBSET Decisions]

(***************************************************************************)
(* Nothing happens on a decision that was not made and recorded: a call    *)
(* that reached its tool, or a book that reached a context, has an audit   *)
(* row whose decision lets it through, and every recorded decision is one  *)
(* that the policies of some profile, or the matrix, really gave for that  *)
(* very action since the server started (authorize.rs: "Every decision is  *)
(* audited").                                                              *)
(***************************************************************************)
GatedByPolicy ==
    /\ \A row \in audits : row.decision \in said[row.action]
    /\ \A a \in acted : \E row \in audits :
           /\ row.id = a.id /\ row.action = ActionKey(a.name)
           /\ Passes([name |-> a.name, decision |-> row.decision])

=============================================================================
