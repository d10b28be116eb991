----------------------------- MODULE UiPackages ----------------------------
(***************************************************************************)
(* Interface packages of a profile (ui_api.rs): the rows of ui_packages,   *)
(* the directories on disk and active_ui, the copy in memory that the      *)
(* server answers from (lib.rs, csp.rs).  Activation and rollback are one  *)
(* transaction under an advisory lock and write active_ui after it has     *)
(* committed; deletion locks its own row only.                             *)
(***************************************************************************)
EXTENDS Naturals, FiniteSets

CONSTANTS Packages, UiRequests,
          Themes,         \* the packages that are themes; the others are FULL_UI
          MaxUiRequests,  \* bound: requests served
          MaxUiRestarts   \* bound: restarts of the server

\* The ids of packages are UUIDs: none is a name the server gives to a page.
ASSUME UiAssumption == {"none", "builtin", "recovery"} \cap Packages = {}

VARIABLES pkg,       \* state of each row, "none" when there is no row
          dirs,      \* install directories
          active_ui, \* the package served, or "none"
          req,       \* requests in progress
          page,      \* a page a browser loads: its policy and what it shows
          astray,    \* history: the last commit's write was lost, or may be overtaken
          handled, uiRestarts

uvars == <<pkg, dirs, active_ui, req, page, astray, handled, uiRestarts>>

Quiet == [pc |-> "idle"]
NoPage == [pc |-> "none", policy |-> "none", shows |-> "none", moved |-> FALSE]
UiInit ==
    /\ pkg = [p \in Packages |-> "none"] /\ dirs = {} /\ active_ui = "none"
    /\ req = [h \in UiRequests |-> Quiet]
    /\ page = NoPage
    /\ astray = FALSE /\ handled = 0 /\ uiRestarts = 0

In(s)      == {p \in Packages : pkg[p] = s}
Present    == {p \in Packages : pkg[p] # "none"}
Writing    == {h \in UiRequests : req[h].pc = "write"}
RowLocked(p) == \E h \in UiRequests : req[h].pc = "delete" /\ req[h].p = p
Accepts(h) == req[h].pc = "idle" /\ handled < MaxUiRequests
CountRequest    == handled' = handled + 1

\* The files first, then the rows; two installs of one name: the second
\* transaction fails and leaves its directory (another package id).
InstallUi(h, p) ==
    /\ Accepts(h) /\ CountRequest /\ pkg[p] = "none" /\ p \notin dirs
    /\ dirs' = dirs \cup {p}
    /\ req' = [req EXCEPT ![h] = [pc |-> "insert", p |-> p]]
    /\ UNCHANGED <<pkg, active_ui, page, astray, uiRestarts>>

InsertUi(h) ==
    /\ req[h].pc = "insert"
    /\ \/ pkg' = [pkg EXCEPT ![req[h].p] = "candidate"]
       \/ UNCHANGED pkg
    /\ req' = [req EXCEPT ![h] = Quiet]
    /\ UNCHANGED <<dirs, active_ui, page, astray, handled, uiRestarts>>

-----------------------------------------------------------------------------
Activatable == {"candidate", "validated", "staged", "previous", "failed"}

\* What the transaction of activate does to the rows: older anchors are swept
\* before the active package becomes the anchor.
Demote(p) ==
    [q \in Packages |-> IF q = p THEN "active"
                        ELSE IF pkg[q] = "previous" THEN "rolled_back"
                        ELSE IF pkg[q] = "active" THEN "previous"
                        ELSE pkg[q]]

Commits(h, p) ==
    /\ req' = [req EXCEPT ![h] = [pc |-> "write", p |-> p]]
    /\ astray' = (Writing # {})
    /\ UNCHANGED <<dirs, active_ui, page, uiRestarts>>

ActivateUi(h, p) ==
    /\ Accepts(h) /\ CountRequest /\ pkg[p] \in Activatable
    /\ \A q \in {p} \cup In("previous") \cup In("active") : ~RowLocked(q)
    /\ pkg' = Demote(p)
    /\ Commits(h, p)

\* rollback, and rollback_by_id of the active package (rollback_by_id of the
\* previous one is ActivateUi).
RollbackUi(h) ==
    /\ Accepts(h) /\ CountRequest
    /\ \E p \in In("previous") :
          /\ \A q \in {p} \cup In("active") : ~RowLocked(q)
          /\ pkg' = [q \in Packages |-> IF q = p THEN "active"
                                        ELSE IF pkg[q] = "active" THEN "rolled_back"
                                        ELSE pkg[q]]
          /\ Commits(h, p)

\* *state.active_ui.write().await = Some(new_active), after the commit.
WriteActive(h) ==
    /\ req[h].pc = "write"
    /\ active_ui' = req[h].p
    /\ page' = [page EXCEPT !.moved = @ \/ page.pc = "policy"]
    /\ req' = [req EXCEPT ![h] = Quiet]
    /\ UNCHANGED <<pkg, dirs, astray, handled, uiRestarts>>

-----------------------------------------------------------------------------
\* The row is locked and the others are counted; the last one stays.
DeletablePackage(p) == pkg[p] # "active" /\ Present # {p}
DeleteUi(h, p) ==
    /\ Accepts(h) /\ CountRequest /\ p \in Present /\ ~RowLocked(p)
    /\ DeletablePackage(p)
    /\ req' = [req EXCEPT ![h] = [pc |-> "delete", p |-> p]]
    /\ UNCHANGED <<pkg, dirs, active_ui, page, astray, uiRestarts>>

DeleteCommit(h) ==
    /\ req[h].pc = "delete"
    /\ pkg' = [pkg EXCEPT ![req[h].p] = "none"]
    /\ req' = [req EXCEPT ![h] = [pc |-> "rmdir", p |-> req[h].p]]
    /\ UNCHANGED <<dirs, active_ui, page, astray, handled, uiRestarts>>

DeleteFiles(h) ==
    /\ req[h].pc = "rmdir"
    /\ dirs' = dirs \ {req[h].p}
    /\ req' = [req EXCEPT ![h] = Quiet]
    /\ UNCHANGED <<pkg, active_ui, page, astray, handled, uiRestarts>>

\* The client leaves, and the handler is dropped, or the answer to its COMMIT is
\* lost and it fails: a transaction is rolled back, files stay, and after a
\* commit active_ui is not written.
DropUi(h) ==
    /\ req[h].pc # "idle"
    /\ req' = [req EXCEPT ![h] = Quiet]
    /\ astray' = (astray \/ req[h].pc = "write")
    /\ UNCHANGED <<pkg, dirs, active_ui, page, handled, uiRestarts>>

\* load_active_ui_state.  Mutant: it finds nothing.
LoadNoUi == "none"
LoadActiveUi == IF In("active") = {} THEN "none" ELSE CHOOSE p \in In("active") : TRUE

\* The server starts again
RestartUi ==
    /\ uiRestarts < MaxUiRestarts /\ uiRestarts' = uiRestarts + 1
    /\ req' = [h \in UiRequests |-> Quiet]
    /\ active_ui' = LoadActiveUi
    /\ page' = NoPage
    /\ astray' = FALSE
    /\ UNCHANGED <<pkg, dirs, handled>>

-----------------------------------------------------------------------------
\* csp_middleware_async builds the policy of the response before the request
\* goes on to its handler: the scripts it allows are those of the package.
BuildPolicy ==
    /\ page.pc # "policy"
    /\ page' = [NoPage EXCEPT !.pc = "policy", !.policy = active_ui]
    /\ UNCHANGED <<pkg, dirs, active_ui, req, astray, handled, uiRestarts>>

\* fallback_handler reads active_ui again: the files of a FULL_UI package, the
\* redirect to /recovery when they are gone, or the built-in interface.
Shown == IF active_ui = "none" \/ active_ui \in Themes THEN "builtin"
         ELSE IF active_ui \in dirs THEN active_ui ELSE "recovery"

ServePage ==
    /\ page.pc = "policy"
    /\ page' = [page EXCEPT !.pc = "served", !.shows = Shown]
    /\ UNCHANGED <<pkg, dirs, active_ui, req, astray, handled, uiRestarts>>

UiNext ==
    \/ \E h \in UiRequests :
          \/ InsertUi(h) \/ RollbackUi(h) \/ WriteActive(h) \/ DeleteCommit(h) \/ DeleteFiles(h)
          \/ DropUi(h)
          \/ \E p \in Packages : InstallUi(h, p) \/ ActivateUi(h, p) \/ DeleteUi(h, p)
    \/ RestartUi \/ BuildPolicy \/ ServePage

UiSpec == UiInit /\ [][UiNext]_uvars

-----------------------------------------------------------------------------
UiTypeOK ==
    /\ pkg \in [Packages -> {"none", "candidate", "active", "previous", "rolled_back"}]
    /\ dirs \subseteq Packages /\ active_ui \in Packages \cup {"none"}

(***************************************************************************)
(* Once a package is active one always is, with at most one package to     *)
(* roll back to.  Between requests the server serves the package that the  *)
(* database calls active, and its files exist.  Excepted, until the next   *)
(* activation or restart: the handler of the last activation was dropped   *)
(* after its commit, or it committed while an earlier one had not written  *)
(* active_ui yet, and the earlier write may then come last.  A page of a   *)
(* package comes with the policy that allows that package's scripts,       *)
(* unless active_ui was written between the middleware and the handler.    *)
(***************************************************************************)
UiServesActive ==
    /\ Cardinality(In("active")) <= 1 /\ Cardinality(In("previous")) <= 1
    /\ In("previous") # {} => In("active") # {}
    /\ In("active") \subseteq dirs
    /\ (\A h \in UiRequests : req[h].pc = "idle") /\ ~astray
          => IF In("active") = {} THEN active_ui = "none"
             ELSE active_ui \in In("active") \cap dirs
    /\ page.shows \in Packages /\ ~page.moved => page.policy = page.shows
=============================================================================
