-------------------------- MODULE CompositeProofs --------------------------
(***************************************************************************)
(* Theorems about the composed services (MCServices), for any values of    *)
(* the services' constants: what ServicesProofs, GatewayProofs and         *)
(* ApprovalProofs prove of each service, put together.  A step of the      *)
(* composed specification is, for each service, a step of that service or  *)
(* leaves it alone.                                                        *)
(***************************************************************************)
EXTENDS MCServices, ServicesProofs, GatewayProofs, ApprovalProofs

(***************************************************************************)
(* However evaluations, promotions, proposals, edits and updates after     *)
(* runs interleave, no automatic promotion leaves a skill worse than what  *)
(* an administrator chose for it, an accepted proposal changed the text it *)
(* was made for, and the history has every text there was (skills_api.rs,  *)
(* autobiography_api.rs, autobiography_update.rs).  It is no theorem that  *)
(* all of it was reviewed: a first automatic promotion, and the update     *)
(* after a run, are not.                                                   *)
(***************************************************************************)
THEOREM LearningIsOnRecord == Spec => []LearningOnRecord
<1>1. Init => SkillsInit /\ AutobiographyInit BY DEF Init
<1>2. [Next]_<<part, services>> => [SkillsNext]_svars BY DEF Next, services, svars
<1>3. [Next]_<<part, services>> => [AutobiographyNext]_abvars BY DEF Next, services, abvars
<1>4. AutomaticNeverWorse /\ ProposalsInPlace => LearningOnRecord BY DEF LearningOnRecord, While
<1> QED BY <1>1, <1>2, <1>3, <1>4, SkillsAlways, AutobiographyAlways, PTL DEF Spec, SkillsSpec, AutobiographySpec

(***************************************************************************)
(* What is installed, activated and served is what was approved, although  *)
(* releases are published again and requests interleave with the COMMITs,  *)
(* the writes of active_ui and the removal of directories (plugin_api.rs,  *)
(* ui_api.rs).  Excepted are the UI packages after a handler that was      *)
(* dropped behind its COMMIT, which nothing in the code makes up for       *)
(* before a restart, and the version a plugin's row carries.               *)
(***************************************************************************)
THEOREM PackagesAreApproved == Spec => []PackagesAsApproved
<1>1. Init => PluginsInit /\ UiInit BY DEF Init
<1>2. [Next]_<<part, services>> => [PluginsNext]_pvars BY DEF Next, services, pvars
<1>3. [Next]_<<part, services>> => [UiNext]_uvars BY DEF Next, services, uvars
<1>4. PluginAsApproved /\ UiServesActive => PackagesAsApproved BY DEF PackagesAsApproved, While
<1> QED BY <1>1, <1>2, <1>3, <1>4, PluginsAlways, UiAlways, PTL DEF Spec, PluginsSpec, UiSpec

(***************************************************************************)
(* A session that was revoked, rotated away, logged out or expired is not  *)
(* accepted again, and there is one owner, although logins and setups      *)
(* check first and write later (auth.rs, session_manager.rs, webauthn.rs). *)
(***************************************************************************)
THEOREM EndedStayEnded == Spec => []SignInsHeld
<1>1. Init => SessionsInit BY DEF Init
<1>2. [Next]_<<part, services>> => [SessionsNext]_avars BY DEF Next, services, avars
<1>3. EndedSessionsStayEnded => SignInsHeld BY DEF SignInsHeld, While
<1> QED BY <1>1, <1>2, <1>3, SessionsAlways, PTL DEF Spec, SessionsSpec

(***************************************************************************)
(* An answer from an MCP server goes to the request it answers: over the   *)
(* pipes that calls share (mcp_client.rs) and in the session, whose        *)
(* generation fences its requests (mcp/lifecycle.rs).                      *)
(***************************************************************************)
THEOREM AnswersAreFenced == Spec => []McpAnswersFenced
<1>1. Init => McpInit /\ LifecycleInit BY DEF Init
<1>2. [Next]_<<part, services>> => [McpNext]_mcpvars BY DEF Next, services, mcpvars
<1>3. [Next]_<<part, services>> => [LifecycleNext]_lvars BY DEF Next, services, lvars
<1>4. McpAnswerIsOwn /\ PendingIsFenced => McpAnswersFenced BY DEF McpAnswersFenced, While
<1> QED BY <1>1, <1>2, <1>3, <1>4, PoolAlways, RequestsAreFenced, PTL DEF Spec, McpSpec, LifecycleSpec

(***************************************************************************)
(* The rights that each query of the Library spells out for itself agree,  *)
(* a search that nothing disturbed finds what is listed, and the chunks of *)
(* a book cover its text (library_api.rs, library.rs, run_tools.rs).       *)
(***************************************************************************)
THEOREM LibraryIsConsistent == Spec => []LibraryConsistent
<1>1. Init => LibraryInit BY DEF Init
<1>2. [Next]_<<part, services>> => [LibraryNext]_libvars BY DEF Next, services, libvars
<1>3. RightsAgree /\ ChunksCoverText => LibraryConsistent BY DEF LibraryConsistent, While
<1> QED BY <1>1, <1>2, <1>3, LibraryAlways, PTL DEF Spec, LibrarySpec

(***************************************************************************)
(* The same of the composed services: what the chat page shows, waits for  *)
(* and stores (app.rs, ChatPage) is right while the other services stand.  *)
(***************************************************************************)
THEOREM ChatPageIsTrue == Spec => []ChatPageTrue
<1>1. Init => ChatInit BY DEF Init
<1>2. [Next]_<<part, services>> => [ChatNext]_chatvars BY DEF Next, services, chatvars
<1>3. ChatShowsSelection /\ NothingOrphaned /\ ReloadFindsAll => ChatPageTrue BY DEF ChatPageTrue, While
<1> QED BY <1>1, <1>2, <1>3, ChatIsTrue, PTL DEF Spec, ChatSpec

(***************************************************************************)
(* What is counted stays within its limit: the hits that the rate limiter  *)
(* lets pass with times of one window, the tokens of a context, and the    *)
(* request of a turn against the windows of its model and fallbacks        *)
(* (rate_limiter.rs, run_api.rs, chat.rs).                                 *)
(***************************************************************************)
THEOREM LimitsAreHeld == Spec => []LimitsHeld
<1>1. Init => LimiterInit /\ ContextInit /\ RegistryInit BY DEF Init
<1>2. [Next]_<<part, services>> => [LimiterNext]_rlvars BY DEF Next, services, rlvars
<1>3. [Next]_<<part, services>> => [ContextNext]_ctxvars BY DEF Next, services, ctxvars
<1>4. [Next]_<<part, services>> => [RegistryNext]_mrvars BY DEF Next, services, mrvars
<1>5. RateHeld /\ ContextFits /\ RequestFits => LimitsHeld BY DEF LimitsHeld, While
<1> QED
  BY <1>1, <1>2, <1>3, <1>4, <1>5, RateIsHeld, ContextsAreBest, RequestsFit, PTL DEF Spec, LimiterSpec, ContextSpec,
    RegistrySpec

(***************************************************************************)
(* What each of the others promises holds of the composed services as      *)
(* well: one key after a rotation (vault.rs), a ledger that is the history *)
(* of the rows (activity.rs), tools that are gated (authorize.rs), forks   *)
(* that are prefixes (conversation_api.rs), and answers of the providers   *)
(* read to their end (chat.rs, gobrowse-core's model.rs).                  *)
(***************************************************************************)
THEOREM OthersKeepTheirWord ==
  Spec => [](/\ OneKeyAfterRotation /\ LedgerIsHistory /\ GatedByPolicy
             /\ ForkIsPrefix /\ RoundReadToItsEnd)
<1>1. Init => VaultInit /\ BoardInit /\ GateInit /\ ConversationsInit /\ StreamInit BY DEF Init
<1>2. [Next]_<<part, services>> => [VaultNext]_vvars BY DEF Next, services, vvars
<1>3. [Next]_<<part, services>> => [BoardNext]_bvars BY DEF Next, services, bvars
<1>4. [Next]_<<part, services>> => [GateNext]_gatevars BY DEF Next, services, gatevars
<1>5. [Next]_<<part, services>> => [ConversationsNext]_cvars BY DEF Next, services, cvars
<1>6. [Next]_<<part, services>> => [StreamNext]_psvars BY DEF Next, services, psvars
<1> QED
  BY <1>1, <1>2, <1>3, <1>4, <1>5, <1>6, OneKeyForAll, HistoryIsWritten, ToolsAreGated, ForksAreCopies,
    RoundsReadToTheEnd, PTL DEF Spec, VaultSpec, BoardSpec, GateSpec, ConversationsSpec, StreamSpec

(***************************************************************************)
(* The rows of every service have the shapes its tables and locals have:   *)
(* among them, that only an account that exists is locked (auth.rs), that  *)
(* the loads of an executor add up and stay in their limit (run_tools.rs), *)
(* that only an editor's transaction writes (activity.rs) and that the     *)
(* text about the user fits its limit (autobiography_update.rs).           *)
(***************************************************************************)
THEOREM ServicesShapes == Spec => []ServicesTypeOK
<1>1. Init => /\ PluginsInit /\ UiInit /\ VaultInit /\ SessionsInit /\ LimiterInit /\ BoardInit
              /\ SkillsInit /\ McpInit /\ LifecycleInit /\ AutobiographyInit /\ LibraryInit
              /\ StreamInit /\ GateInit /\ ContextInit /\ RegistryInit /\ ConversationsInit BY DEF Init
<1>2. [Next]_<<part, services>> => [PluginsNext]_pvars BY DEF Next, services, pvars
<1>3. [Next]_<<part, services>> => [UiNext]_uvars BY DEF Next, services, uvars
<1>4. [Next]_<<part, services>> => [VaultNext]_vvars BY DEF Next, services, vvars
<1>5. [Next]_<<part, services>> => [SessionsNext]_avars BY DEF Next, services, avars
<1>6. [Next]_<<part, services>> => [LimiterNext]_rlvars BY DEF Next, services, rlvars
<1>7. [Next]_<<part, services>> => [BoardNext]_bvars BY DEF Next, services, bvars
<1>8. [Next]_<<part, services>> => [SkillsNext]_svars BY DEF Next, services, svars
<1>9. [Next]_<<part, services>> => [McpNext]_mcpvars BY DEF Next, services, mcpvars
<1>10. [Next]_<<part, services>> => [LifecycleNext]_lvars BY DEF Next, services, lvars
<1>11. [Next]_<<part, services>> => [AutobiographyNext]_abvars BY DEF Next, services, abvars
<1>12. [Next]_<<part, services>> => [LibraryNext]_libvars BY DEF Next, services, libvars
<1>13. [Next]_<<part, services>> => [StreamNext]_psvars BY DEF Next, services, psvars
<1>14. [Next]_<<part, services>> => [GateNext]_gatevars BY DEF Next, services, gatevars
<1>15. [Next]_<<part, services>> => [ContextNext]_ctxvars BY DEF Next, services, ctxvars
<1>16. [Next]_<<part, services>> => [RegistryNext]_mrvars BY DEF Next, services, mrvars
<1>17. [Next]_<<part, services>> => [ConversationsNext]_cvars BY DEF Next, services, cvars
<1>18. Spec => [](PluginsTypeOK /\ UiTypeOK /\ SkillsTypeOK /\ SessionsTypeOK /\ AutobiographyTypeOK)
  BY <1>1, <1>2, <1>3, <1>5, <1>8, <1>11, PluginsAlways, UiAlways, SkillsAlways, SessionsAlways, AutobiographyAlways,
    PTL DEF Spec, PluginsSpec, UiSpec, SkillsSpec, SessionsSpec, AutobiographySpec
<1>19. Spec => [](LimiterTypeOK /\ StreamTypeOK /\ ContextTypeOK /\ RegistryTypeOK)
  BY <1>1, <1>6, <1>13, <1>15, <1>16, RateIsHeld, RoundsReadToTheEnd, ContextsAreBest, RequestsFit, PTL DEF Spec,
    LimiterSpec, StreamSpec, ContextSpec, RegistrySpec
<1>20. Spec => [](VaultTypeOK /\ BoardTypeOK /\ McpTypeOK /\ LifecycleTypeOK)
  BY <1>1, <1>4, <1>7, <1>9, <1>10, VaultShapes, BoardShapes, PoolAlways, LifecycleShapes, PTL DEF Spec, VaultSpec,
    BoardSpec, McpSpec, LifecycleSpec
<1>21. Spec => [](LibraryTypeOK /\ GateTypeOK /\ ConversationsTypeOK)
  BY <1>1, <1>12, <1>14, <1>17, LibraryShapes, GateShapes, ConversationShapes, PTL DEF Spec, LibrarySpec, GateSpec,
    ConversationsSpec
<1>22. (PluginsTypeOK /\ UiTypeOK /\ SkillsTypeOK /\ SessionsTypeOK /\ AutobiographyTypeOK)
       /\ (LimiterTypeOK /\ StreamTypeOK /\ ContextTypeOK /\ RegistryTypeOK)
       /\ (VaultTypeOK /\ BoardTypeOK /\ McpTypeOK /\ LifecycleTypeOK)
       /\ (LibraryTypeOK /\ GateTypeOK /\ ConversationsTypeOK) => ServicesTypeOK BY DEF ServicesTypeOK, While
<1> QED BY <1>18, <1>19, <1>20, <1>21, <1>22, PTL

=============================================================================
