----------------------------- MODULE TaskBoard -----------------------------
(***************************************************************************)
(* Tasks, worktree records and the activity ledger of workspaces           *)
(* (task_api.rs, worktree_api.rs, activity.rs).  Every write is a          *)
(* transaction that takes the advisory lock of its workspace, locks the    *)
(* membership of the user, changes rows and appends to the ledger.  The    *)
(* numbers of the ledger come from one sequence for all workspaces;        *)
(* readers page through a workspace with the last number they have seen.   *)
(***************************************************************************)
EXTENDS Naturals, Sequences, FiniteSets

CONSTANTS Boards,      \* workspaces
          BoardTasks,  \* tasks
          BoardOf,     \* BoardOf[t]: the workspace of a task
          BoardUsers,  \* users, each with one request at a time
          TaskInputs,  \* states that requests ask for
          MaxBoardOps, \* bound: write requests
          MaxAccessChanges  \* bound: changes of a membership

VARIABLES task,     \* task[t]: state of the row, "none" when there is none
          tree,     \* tree[t]: the worktree record of a task: "none", or its files
          depends,  \* depends[t]: the tasks its row names
          ledger,   \* committed events: number, workspace, task, kind, what
          sequenceNo,      \* last number drawn
          boardLock,       \* boardLock[b]: who has the advisory lock
          access,   \* access[u]: membership of a user in the workspaces
          btx,      \* the transactions
          cursor, pagedEvents,    \* a reader of every workspace
          boardOps, accessChanges

bvars == <<task, tree, depends, ledger, sequenceNo, boardLock, access, btx, cursor, pagedEvents,
           boardOps, accessChanges>>
boardRows == <<task, tree, depends, ledger, cursor, pagedEvents>>

BoardIdle == [pc |-> "idle"]
BoardInit ==
    /\ task = [t \in BoardTasks |-> "none"] /\ tree = [t \in BoardTasks |-> "none"]
    /\ depends = [t \in BoardTasks |-> {}]
    /\ ledger = {} /\ sequenceNo = 0 /\ boardLock = [b \in Boards |-> "free"]
    /\ access = [u \in BoardUsers |-> "EDITOR"] /\ btx = [u \in BoardUsers |-> BoardIdle]
    /\ cursor = [b \in Boards |-> 0] /\ pagedEvents = [b \in Boards |-> {}]
    /\ boardOps = 0 /\ accessChanges = 0

\* TaskState::can_transition_to
Transitions ==
    ({"BACKLOG"} \X {"READY", "CANCELED"})
    \cup ({"READY"} \X {"RUNNING", "BLOCKED", "CANCELED"})
    \cup ({"RUNNING"} \X {"BLOCKED", "REVIEW", "DONE", "FAILED", "CANCELED"})
    \cup ({"BLOCKED"} \X {"READY", "RUNNING", "CANCELED"})
    \cup ({"REVIEW"} \X {"RUNNING", "DONE", "CANCELED"})
    \cup ({"FAILED"} \X {"READY", "CANCELED"})
TaskStates == {p[1] : p \in Transitions} \cup {p[2] : p \in Transitions}

\* tasks.workspace_id references a workspace; TaskState is an enum.
ASSUME BoardAssumption ==
    /\ BoardOf \in [BoardTasks -> Boards] /\ TaskInputs \subseteq TaskStates
    /\ "free" \notin BoardUsers

-----------------------------------------------------------------------------
\* What each handler does to the rows of its task: whether it may, the state
\* and the worktree afterwards, the task it depends on and the kinds of the
\* events it appends, in order.
NoChange(t) == [ok |-> FALSE, state |-> task[t], tree |-> tree[t], after |-> depends[t], kinds |-> <<>>]

\* A parent or a dependency is a task of the same workspace.
References(t, after) ==
    after # {} => \A d \in after : d # t /\ BoardOf[d] = BoardOf[t] /\ task[d] # "none"
CreateTask(op) ==
    [NoChange(op.t) EXCEPT !.ok = task[op.t] = "none" /\ References(op.t, op.after),
        !.state = op.state, !.after = op.after, !.kinds = <<"TASK_CREATED">>]
\* Every field is optional; a state that stays the same appends nothing.
UpdateTask(op) ==
    LET old  == task[op.t]
        next == IF op.state = "keep" THEN old ELSE op.state IN
    [NoChange(op.t) EXCEPT
        !.ok = old # "none" /\ (op.state # "keep" \/ op.text)
               /\ (next = old \/ <<old, next>> \in Transitions),
        !.state = next,
        !.kinds = (IF next # old THEN <<"TASK_STATE_CHANGED">> ELSE <<>>)
                  \o (IF op.text THEN <<"TASK_UPDATED">> ELSE <<>>)]
CreateActivity(op) ==
    [NoChange(op.t) EXCEPT !.ok = task[op.t] # "none", !.kinds = <<"HUMAN_NOTE">>]
\* UNIQUE on the path and the branch: one worktree for a task.
CreateWorktree(op) ==
    [NoChange(op.t) EXCEPT !.ok = task[op.t] # "none" /\ tree[op.t] = "none",
        !.tree = "clean", !.kinds = <<"WORKTREE_CREATED">>]
\* The inventory has to differ from the one recorded.
UpdateWorktree(op) ==
    [NoChange(op.t) EXCEPT !.ok = tree[op.t] = "clean",
        !.tree = "changed", !.kinds = <<"FILES_CHANGED">>]
DeleteWorktree(op) ==
    [NoChange(op.t) EXCEPT !.ok = tree[op.t] # "none",
        !.tree = "none", !.kinds = <<"WORKTREE_DELETED">>]
Effect(op) ==
    CASE op.kind = "create" -> CreateTask(op)
      [] op.kind = "update" -> UpdateTask(op)
      [] op.kind = "note"   -> CreateActivity(op)
      [] op.kind = "tree"   -> CreateWorktree(op)
      [] op.kind = "files"  -> UpdateWorktree(op)
      [] op.kind = "rmtree" -> DeleteWorktree(op)

TaskOps(t) == [kind : {"create"}, t : {t}, state : TaskInputs, after : SUBSET BoardTasks]
              \cup [kind : {"update"}, t : {t}, state : TaskInputs \cup {"keep"}, text : BOOLEAN]
              \cup [kind : {"note", "tree", "files", "rmtree"}, t : {t}]

\* require_user, and the workspace of the task, before any lock.
SubmitTask(u, op) ==
    /\ btx[u].pc = "idle" /\ boardOps < MaxBoardOps
    /\ op.kind # "create" => task[op.t] # "none"
    /\ boardOps' = boardOps + 1
    /\ btx' = [btx EXCEPT ![u] = [pc |-> "lock", op |-> op]]
    /\ UNCHANGED <<boardRows, sequenceNo, boardLock, access, accessChanges>>

\* Mutant: writers do not take the advisory lock.
BoardFreeAlways(b) == TRUE
BoardFree(b) == boardLock[b] = "free"

\* authorize_workspace_in_transaction: advisory lock, workspace, membership;
\* without the right to write the transaction ends.
AuthorizeWrite(u) ==
    /\ btx[u].pc = "lock"
    /\ LET b == BoardOf[btx[u].op.t] IN
       /\ BoardFree(b)
       /\ IF access[u] = "EDITOR"
          THEN /\ boardLock' = [boardLock EXCEPT ![b] = u]
               /\ btx' = [btx EXCEPT ![u].pc = "write"]
          ELSE btx' = [btx EXCEPT ![u] = BoardIdle] /\ UNCHANGED boardLock
    /\ UNCHANGED <<boardRows, sequenceNo, access, boardOps, accessChanges>>

\* The rows are checked and written and append_activity draws the numbers of
\* the events; a request that the rows do not allow rolls back.
AppendActivity(u) ==
    /\ btx[u].pc = "write"
    /\ LET op  == btx[u].op
           eff == Effect(op) IN
       IF eff.ok
       THEN /\ sequenceNo' = sequenceNo + Len(eff.kinds)
            /\ btx' = [btx EXCEPT ![u] = [pc |-> "commit", op |-> op, eff |-> eff,
                  events |-> {[id |-> sequenceNo + k, board |-> BoardOf[op.t], t |-> op.t,
                               kind |-> eff.kinds[k], to |-> eff.state] : k \in DOMAIN eff.kinds}]]
            /\ UNCHANGED boardLock
       ELSE /\ btx' = [btx EXCEPT ![u] = BoardIdle]
            /\ boardLock' = [boardLock EXCEPT ![BoardOf[op.t]] = "free"]
            /\ UNCHANGED sequenceNo
    /\ UNCHANGED <<boardRows, access, boardOps, accessChanges>>

\* Audit row and commit, or the transaction is lost and its numbers with it.
EndWriteTx(u, commits) ==
    /\ btx[u].pc = "commit"
    /\ LET t == btx[u].op.t IN
       IF commits
       THEN /\ ledger' = ledger \cup btx[u].events
            /\ task' = [task EXCEPT ![t] = btx[u].eff.state]
            /\ tree' = [tree EXCEPT ![t] = btx[u].eff.tree]
            /\ depends' = [depends EXCEPT ![t] = btx[u].eff.after]
       ELSE UNCHANGED <<ledger, task, tree, depends>>
    /\ boardLock' = [b \in Boards |-> IF boardLock[b] = u THEN "free" ELSE boardLock[b]]
    /\ btx' = [btx EXCEPT ![u] = BoardIdle]
    /\ UNCHANGED <<cursor, pagedEvents, sequenceNo, access, boardOps, accessChanges>>

\* A membership changes outside of these handlers; the row is locked by a
\* transaction that has read it.
ChangeAccess(u) ==
    /\ accessChanges < MaxAccessChanges /\ accessChanges' = accessChanges + 1
    /\ btx[u].pc \notin {"write", "commit"}
    /\ access' = [access EXCEPT ![u] = IF @ = "EDITOR" THEN "VIEWER" ELSE "EDITOR"]
    /\ UNCHANGED <<boardRows, sequenceNo, boardLock, btx, boardOps>>

\* list_activity: the events after the cursor, a page of one.
ListActivity(b) ==
    /\ \E e \in ledger :
          /\ e.board = b /\ e.id > cursor[b]
          /\ \A f \in ledger : f.board = b /\ f.id > cursor[b] => e.id <= f.id
          /\ cursor' = [cursor EXCEPT ![b] = e.id]
          /\ pagedEvents' = [pagedEvents EXCEPT ![b] = @ \cup {e.id}]
    /\ UNCHANGED <<task, tree, depends, ledger, sequenceNo, boardLock, access, btx, boardOps, accessChanges>>

BoardNext ==
    \/ \E u \in BoardUsers :
          \/ \E t \in BoardTasks : \E op \in TaskOps(t) : SubmitTask(u, op)
          \/ AuthorizeWrite(u) \/ AppendActivity(u) \/ EndWriteTx(u, TRUE) \/ EndWriteTx(u, FALSE)
          \/ ChangeAccess(u)
    \/ \E b \in Boards : ListActivity(b)

BoardSpec == BoardInit /\ [][BoardNext]_bvars

-----------------------------------------------------------------------------
BoardTypeOK ==
    /\ task \in [BoardTasks -> {"none"} \cup TaskStates]
    /\ tree \in [BoardTasks -> {"none", "clean", "changed"}]
    /\ \A u \in BoardUsers : btx[u].pc \in {"write", "commit"} => access[u] = "EDITOR"

LastEvent(t, kinds) ==
    CHOOSE e \in ledger : e.t = t /\ e.kind \in kinds
        /\ \A f \in ledger : f.t = t /\ f.kind \in kinds => f.id <= e.id

(***************************************************************************)
(* The ledger is the history of the rows: read in the order of its numbers *)
(* it ends with the state of every task and worktree, each task event is a *)
(* transition that TaskState allows, a task depends only on tasks of its   *)
(* workspace that were created before it (so never on itself), and a       *)
(* reader that pages with the last number it has seen misses no event.     *)
(***************************************************************************)
LedgerIsHistory ==
    /\ \A t \in BoardTasks :
          LET moves == {"TASK_CREATED", "TASK_STATE_CHANGED"}
              mine  == {e \in ledger : e.t = t /\ e.kind \in moves}
              trees == {"WORKTREE_CREATED", "WORKTREE_DELETED"} IN
          /\ IF mine = {} THEN task[t] = "none" ELSE task[t] = LastEvent(t, moves).to
          /\ \A e, f \in mine :
                e.id < f.id /\ ~(\E g \in mine : e.id < g.id /\ g.id < f.id)
                    => <<e.to, f.to>> \in Transitions
          /\ (tree[t] # "none") =
                (\E e \in ledger : e.t = t /\ e.kind \in trees
                                   /\ LastEvent(t, trees).kind = "WORKTREE_CREATED")
          /\ \A d \in depends[t] : \E e, f \in ledger :
                e.t = d /\ f.t = t /\ e.kind = f.kind /\ e.kind = "TASK_CREATED"
                /\ e.board = f.board /\ e.id < f.id
    /\ \A b \in Boards : pagedEvents[b] = {e.id : e \in {f \in ledger : f.board = b /\ f.id <= cursor[b]}}
=============================================================================
