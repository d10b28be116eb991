----------------------------- MODULE MCServices -----------------------------
(***************************************************************************)
(* The services around the run engine, for TLC.  Each has rows of its own: *)
(* a behaviour follows one service, chosen at the start, and the others    *)
(* stay as they are.                                                       *)
(***************************************************************************)
EXTENDS Plugins, UiPackages, VaultKeys, Sessions, RateLimiter, TaskBoard, Skills,
        McpPool, McpLifecycle, Autobiography, Library, ProviderStream, ToolGate,
        RunContext, ModelRegistry, Conversations, WebChat, TLC

CONSTANTS t1, t2, b1,  \* two tasks of one workspace
          g1, g2,      \* runs of two profiles
          u1, u2       \* an owner and a member

VARIABLE part

\* Server 1 knows key 1; server 2 rotates from key 1 to key 2
CurrentKeys == <<1, 2>>
PreviousKeys == <<0, 1>>
TasksOfBoard == (t1 :> b1) @@ (t2 :> b1)
ProfileOfRun == (g1 :> "p") @@ (g2 :> "q")
RoleOfUser == (u1 :> "OWNER") @@ (u2 :> "MEMBER")
Windows == <<2, 3, 1>>
Costs == <<0, 1, 0>>

services == <<pvars, uvars, vvars, avars, rlvars, bvars, svars, mcpvars, lvars,
             abvars, libvars, psvars, gatevars, ctxvars, mrvars, cvars, chatvars>>

\* The services that do not run have one state
Init ==
  /\ part \in {"plugins", "ui", "vault", "sessions", "limiter", "board",
               "skills", "mcp", "lifecycle", "autobiography", "library",
               "stream", "gate", "context", "registry", "conversations", "chat"}
  /\ PluginsInit /\ UiInit /\ LimiterInit /\ BoardInit
  /\ SkillsInit /\ McpInit /\ LifecycleInit /\ AutobiographyInit /\ LibraryInit
  /\ RegistryInit /\ ConversationsInit /\ ChatInit
  /\ SessionsInit /\ (part # "sessions" => users = 0)
  /\ VaultInit /\ (part # "vault" => \A s \in Secrets : secret[s] = NoSecret)
  /\ StreamInit /\ (part # "stream" => kind = "sse" /\ body = <<>>)
  /\ GateInit /\ (part # "gate" => ~sandboxed)
  /\ ContextInit
  /\ part # "context" => /\ history = <<CHOOSE n \in Sizes : TRUE>>
                         /\ budget = CHOOSE n \in Budgets : TRUE

Next ==
  /\ UNCHANGED part
  /\ \/ /\ part = "plugins" /\ PluginsNext
        /\ UNCHANGED <<uvars, vvars, avars, rlvars, bvars, svars, mcpvars,
                       lvars, abvars, libvars, psvars, gatevars, ctxvars,
                       mrvars, cvars, chatvars>>
     \/ /\ part = "ui" /\ UiNext
        /\ UNCHANGED <<pvars, vvars, avars, rlvars, bvars, svars, mcpvars,
                       lvars, abvars, libvars, psvars, gatevars, ctxvars,
                       mrvars, cvars, chatvars>>
     \/ /\ part = "vault" /\ VaultNext
        /\ UNCHANGED <<pvars, uvars, avars, rlvars, bvars, svars, mcpvars,
                       lvars, abvars, libvars, psvars, gatevars, ctxvars,
                       mrvars, cvars, chatvars>>
     \/ /\ part = "sessions" /\ SessionsNext
        /\ UNCHANGED <<pvars, uvars, vvars, rlvars, bvars, svars, mcpvars,
                       lvars, abvars, libvars, psvars, gatevars, ctxvars,
                       mrvars, cvars, chatvars>>
     \/ /\ part = "limiter" /\ LimiterNext
        /\ UNCHANGED <<pvars, uvars, vvars, avars, bvars, svars, mcpvars,
                       lvars, abvars, libvars, psvars, gatevars, ctxvars,
                       mrvars, cvars, chatvars>>
     \/ /\ part = "board" /\ BoardNext
        /\ UNCHANGED <<pvars, uvars, vvars, avars, rlvars, svars, mcpvars,
                       lvars, abvars, libvars, psvars, gatevars, ctxvars,
                       mrvars, cvars, chatvars>>
     \/ /\ part = "skills" /\ SkillsNext
        /\ UNCHANGED <<pvars, uvars, vvars, avars, rlvars, bvars, mcpvars,
                       lvars, abvars, libvars, psvars, gatevars, ctxvars,
                       mrvars, cvars, chatvars>>
     \/ /\ part = "mcp" /\ McpNext
        /\ UNCHANGED <<pvars, uvars, vvars, avars, rlvars, bvars, svars,
                       lvars, abvars, libvars, psvars, gatevars, ctxvars,
                       mrvars, cvars, chatvars>>
     \/ /\ part = "lifecycle" /\ LifecycleNext
        /\ UNCHANGED <<pvars, uvars, vvars, avars, rlvars, bvars, svars,
                       mcpvars, abvars, libvars, psvars, gatevars, ctxvars,
                       mrvars, cvars, chatvars>>
     \/ /\ part = "autobiography" /\ AutobiographyNext
        /\ UNCHANGED <<pvars, uvars, vvars, avars, rlvars, bvars, svars,
                       mcpvars, lvars, libvars, psvars, gatevars, ctxvars,
                       mrvars, cvars, chatvars>>
     \/ /\ part = "library" /\ LibraryNext
        /\ UNCHANGED <<pvars, uvars, vvars, avars, rlvars, bvars, svars,
                       mcpvars, lvars, abvars, psvars, gatevars, ctxvars,
                       mrvars, cvars, chatvars>>
     \/ /\ part = "stream" /\ StreamNext
        /\ UNCHANGED <<pvars, uvars, vvars, avars, rlvars, bvars, svars,
                       mcpvars, lvars, abvars, libvars, gatevars, ctxvars,
                       mrvars, cvars, chatvars>>
     \/ /\ part = "gate" /\ GateNext
        /\ UNCHANGED <<pvars, uvars, vvars, avars, rlvars, bvars, svars,
                       mcpvars, lvars, abvars, libvars, psvars, ctxvars,
                       mrvars, cvars, chatvars>>
     \/ /\ part = "context" /\ ContextNext
        /\ UNCHANGED <<pvars, uvars, vvars, avars, rlvars, bvars, svars,
                       mcpvars, lvars, abvars, libvars, psvars, gatevars,
                       mrvars, cvars, chatvars>>
     \/ /\ part = "registry" /\ RegistryNext
        /\ UNCHANGED <<pvars, uvars, vvars, avars, rlvars, bvars, svars,
                       mcpvars, lvars, abvars, libvars, psvars, gatevars,
                       ctxvars, cvars, chatvars>>
     \/ /\ part = "conversations" /\ ConversationsNext
        /\ UNCHANGED <<pvars, uvars, vvars, avars, rlvars, bvars, svars,
                       mcpvars, lvars, abvars, libvars, psvars, gatevars,
                       ctxvars, mrvars, chatvars>>
     \/ /\ part = "chat" /\ ChatNext
        /\ UNCHANGED <<pvars, uvars, vvars, avars, rlvars, bvars, svars,
                       mcpvars, lvars, abvars, libvars, psvars, gatevars,
                       ctxvars, mrvars, cvars>>

Spec == Init /\ [][Next]_<<part, services>>

-----------------------------------------------------------------------------
(* Properties.  A service that stays as it is need not be looked at again. *)
While(service, P) == part = service => P

\* The rows of every service have the shapes its tables and locals have.
ServicesTypeOK ==
  /\ While("plugins", PluginsTypeOK) /\ While("ui", UiTypeOK)
  /\ While("vault", VaultTypeOK) /\ While("sessions", SessionsTypeOK)
  /\ While("limiter", LimiterTypeOK) /\ While("board", BoardTypeOK)
  /\ While("skills", SkillsTypeOK) /\ While("mcp", McpTypeOK)
  /\ While("lifecycle", LifecycleTypeOK) /\ While("autobiography", AutobiographyTypeOK)
  /\ While("library", LibraryTypeOK) /\ While("stream", StreamTypeOK)
  /\ While("gate", GateTypeOK) /\ While("context", ContextTypeOK)
  /\ While("registry", RegistryTypeOK) /\ While("conversations", ConversationsTypeOK)

\* What is installed, activated and served is what was approved: plugins
\* (PluginAsApproved) and UI packages (UiServesActive).
PackagesAsApproved == While("plugins", PluginAsApproved) /\ While("ui", UiServesActive)

\* Nobody stays signed in who was signed out: a session that was revoked,
\* rotated away, logged out or expired is not accepted again.
SignInsHeld == While("sessions", EndedSessionsStayEnded)

\* An answer from an MCP server goes to the request it answers, over the
\* pool's pipes (McpAnswerIsOwn) and in the session (PendingIsFenced).
McpAnswersFenced == While("mcp", McpAnswerIsOwn) /\ While("lifecycle", PendingIsFenced)

\* What is counted stays within its limit: the hits that the rate limiter lets
\* through (RateHeld), the tokens that build_messages puts into a context
\* (ContextFits), and the request against the window of its route (RequestFits).
LimitsHeld ==
  /\ While("limiter", RateHeld)
  /\ While("context", ContextFits) /\ While("registry", RequestFits)

\* Who may change a book may read it and finds it (RightsAgree), and it can
\* be found by every part of its text (ChunksCoverText).
LibraryConsistent == While("library", RightsAgree /\ ChunksCoverText)

\* What agents learn stays on record and undoes no choice unseen: where an
\* administrator chose a revision of a skill, automatic promotions are never
\* worse (AutomaticNeverWorse), and an accepted proposal for the autobiography
\* changed the text it was made for (ProposalsInPlace).  A first automatic
\* promotion, over nothing chosen, and the update after a run need no review.
LearningOnRecord == While("skills", AutomaticNeverWorse) /\ While("autobiography", ProposalsInPlace)

\* The chat page shows what is selected (ChatShowsSelection), waits for nothing
\* that has gone (NothingOrphaned) and finds everything again after a reload
\* (ReloadFindsAll).
ChatPageTrue == While("chat", ChatShowsSelection /\ NothingOrphaned /\ ReloadFindsAll)
=============================================================================
