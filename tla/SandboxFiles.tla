---------------------------- MODULE SandboxFiles ----------------------------
(***************************************************************************)
(* Files of a workspace in the sandbox daemon (filesystem.rs): copy, move, *)
(* delete and search, each a sequence of system calls on descriptors.      *)
(*                                                                         *)
(* Between two calls a container of the workspace may change the same      *)
(* directory, and the daemon may be killed.  A copy is built in a staging  *)
(* directory and published by one rename; a deletion is a rename into the  *)
(* staging directory; what was published is checked by its inode and taken *)
(* back when another entry is found in its place.                          *)
(*                                                                         *)
(* Trees have two levels: entries of the workspace, and their children.    *)
(* write, patch and mkdir are actions of SandboxWorkspace.                 *)
(***************************************************************************)
EXTENDS Naturals, FiniteSets

CONSTANTS FileNames,          \* entries of the workspace directory
          Children,           \* names of entries below them
          Matching,           \* the names a search query is part of
          MaxInodes,          \* bound: files and directories ever made
          MaxCopyEntries,     \* MAX_INTERNAL_COPY_ENTRIES
          MaxScanned,         \* MAX_FILESYSTEM_SCANNED_ENTRIES
          MaxContainerSteps,  \* bound: changes a container makes
          MaxFileOps,         \* bound: operations of the daemon
          MaxFileCrashes      \* bound: crashes of the daemon

\* There are inodes for the entries the workspace begins with.
ASSUME FilesAssumption ==
    /\ IsFiniteSet(FileNames) /\ IsFiniteSet(Children)
    /\ MaxInodes \in Nat /\ Cardinality(FileNames) <= MaxInodes

NoNode == 0
Unused == [kind |-> "none", kids |-> [c \in Children |-> "none"]]

VARIABLES dirent,     \* dirent[n]: the inode a name of the workspace refers to
          node,       \* node[i]: kind of inode i, and its children
          made,       \* inodes made so far
          staging,    \* inodes in the staging directory
          op,         \* the mutation in progress; mutate_workspace runs one
          look,       \* the search in progress
          before,     \* history: the trees when the mutation began
          calm,       \* history: no container has acted since then
          moves, fileOps, fileCrashes

fvars == <<dirent, node, made, staging, op, look, before, calm, moves, fileOps, fileCrashes>>

NoOp == [pc |-> "idle", what |-> "none", from |-> "none", to |-> "none",
         id |-> NoNode, kind |-> "none", staged |-> NoNode, todo |-> {}, count |-> 0,
         answer |-> "none"]
NoLook == [pc |-> "idle", todo |-> {}, scanned |-> 0, found |-> {}, calm |-> TRUE,
           truth |-> {}, answer |-> "none"]

(* What a name stands for, whatever its inode *)
Tree(n) == IF dirent[n] = NoNode THEN Unused ELSE node[dirent[n]]
Trees == [n \in FileNames |-> Tree(n)]

(* Trees of files and directories, numbered *)
Shapes == {t \in [kind : {"none", "file", "dir"}, kids : [Children -> {"none", "file"}]] :
             t.kind # "dir" => t.kids = Unused.kids}
Inode == CHOOSE f \in [FileNames -> 1..Cardinality(FileNames)] :
           \A n, m \in FileNames : f[n] = f[m] => n = m

FilesInit ==
    /\ \E trees \in [FileNames -> Shapes] :
         /\ dirent = [n \in FileNames |-> IF trees[n].kind = "none" THEN NoNode ELSE Inode[n]]
         /\ node = [i \in 1..MaxInodes |->
              IF \E n \in FileNames : Inode[n] = i
              THEN trees[CHOOSE n \in FileNames : Inode[n] = i] ELSE Unused]
    /\ made = Cardinality(FileNames)
    /\ staging = {} /\ op = NoOp /\ look = NoLook
    /\ before = Trees /\ calm = TRUE
    /\ moves = 0 /\ fileOps = 0 /\ fileCrashes = 0

(***************************************************************************)
(* What the operations test                                                *)
(***************************************************************************)
(* Regular files with one link, and directories *)
SafeKind(kind) == kind \in {"file", "dir"}

KidsOf(i) == {c \in Children : node[i].kids[c] # "none"}

(* Every entry below is safe, and there are not too many of them *)
ValidateTree(i) ==
    /\ \A c \in KidsOf(i) : SafeKind(node[i].kids[c])
    /\ Cardinality(KidsOf(i)) <= MaxScanned

(* The entry is the one expected, and still a safe tree *)
VerifyPublished(i) ==
    /\ i = op.id
    /\ SafeKind(node[i].kind) /\ node[i].kind = op.kind
    /\ op.kind = "dir" => ValidateTree(i)

(* add_entry, add_file *)
WithinBudget(count) == count <= MaxCopyEntries

(* Mutant: the rename replaces what it finds *)
VacantAlways(n) == TRUE
Vacant(n) == dirent[n] = NoNode

(* A search under way no longer sees one and the same tree *)
Disturb == look' = [look EXCEPT !.calm = FALSE]

Reply(answer) == op' = [op EXCEPT !.pc = "idle", !.answer = answer, !.todo = {}, !.staged = NoNode]

(***************************************************************************)
(* copy, move and delete                                                   *)
(***************************************************************************)
BeginFileOp(what, from, to) ==
    /\ op.pc = "idle" /\ fileOps < MaxFileOps /\ fileOps' = fileOps + 1
    /\ dirent[from] # NoNode /\ SafeKind(Tree(from).kind)
    /\ what # "delete" /\ Tree(from).kind = "dir" => to # from
    /\ what = "move" /\ Tree(from).kind = "dir" => ValidateTree(dirent[from])
    /\ op' = [NoOp EXCEPT !.pc = what, !.what = what, !.from = from, !.to = to,
                          !.id = dirent[from], !.kind = Tree(from).kind]
    /\ before' = Trees /\ calm' = TRUE
    /\ UNCHANGED <<dirent, node, made, staging, look, moves, fileCrashes>>

(* The source is opened a second time, by its name, and a file of its kind *)
(* made in the staging directory                                           *)
StageCopy ==
    /\ op.pc = "copy"
    /\ LET source == dirent[op.from]
           fresh == made + 1
       IN IF source = NoNode \/ Tree(op.from).kind # op.kind
          THEN Reply("error") /\ UNCHANGED <<node, made, staging>>
          ELSE /\ fresh <= MaxInodes
               /\ made' = fresh /\ staging' = staging \cup {fresh}
               /\ node' = [node EXCEPT ![fresh] = [Unused EXCEPT !.kind = op.kind]]
               /\ op' = [op EXCEPT !.pc = "copying", !.staged = fresh, !.id = source,
                           !.todo = IF op.kind = "dir" THEN Children ELSE {},
                           !.count = IF op.kind = "file" THEN 1 ELSE 0]
    /\ UNCHANGED <<dirent, look, before, calm, moves, fileOps, fileCrashes>>

(* remove_tree_best_effort on what was staged *)
CopyFails(answer) == Reply(answer) /\ staging' = staging \ {op.staged} /\ UNCHANGED node

(* One entry of the source directory *)
CopyEntry(c) ==
    /\ op.pc = "copying" /\ c \in op.todo
    /\ LET kid == node[op.id].kids[c]
           more == op.count + 1
       IN \/ /\ kid = "none"
             /\ op' = [op EXCEPT !.todo = @ \ {c}] /\ UNCHANGED <<node, staging>>
          \/ /\ kid # "none"
             /\ IF SafeKind(kid) /\ WithinBudget(more)
                THEN /\ node' = [node EXCEPT ![op.staged].kids[c] = kid]
                     /\ op' = [op EXCEPT !.todo = @ \ {c}, !.count = more]
                     /\ UNCHANGED staging
                ELSE CopyFails("error")
    /\ UNCHANGED <<dirent, made, look, before, calm, moves, fileOps, fileCrashes>>

(* renameat_with(NOREPLACE) into the workspace *)
PublishCopy ==
    /\ op.pc = "copying" /\ op.todo = {}
    /\ IF ~Vacant(op.to) THEN CopyFails("error") /\ UNCHANGED dirent
       ELSE /\ dirent' = [dirent EXCEPT ![op.to] = op.staged]
            /\ staging' = staging \ {op.staged}
            /\ op' = [op EXCEPT !.pc = "verify", !.id = op.staged]
            /\ UNCHANGED node
    /\ Disturb
    /\ UNCHANGED <<made, before, calm, moves, fileOps, fileCrashes>>

RenameEntry ==
    /\ op.pc = "move"
    /\ IF dirent[op.from] = NoNode \/ ~Vacant(op.to)
       THEN Reply("error") /\ UNCHANGED dirent
       ELSE /\ dirent' = [dirent EXCEPT ![op.to] = dirent[op.from], ![op.from] = NoNode]
            /\ op' = [op EXCEPT !.pc = "verify"]
    /\ Disturb
    /\ UNCHANGED <<node, made, staging, before, calm, moves, fileOps, fileCrashes>>

(* What was published is not what was meant: quarantine_and_remove *)
VerifyOrQuarantine ==
    /\ op.pc = "verify"
    /\ IF dirent[op.to] # NoNode /\ VerifyPublished(dirent[op.to])
       THEN Reply("ok") /\ UNCHANGED dirent
       ELSE Reply("error") /\ dirent' = [dirent EXCEPT ![op.to] = NoNode]
    /\ Disturb
    /\ UNCHANGED <<node, made, staging, before, calm, moves, fileOps, fileCrashes>>

StageDelete ==
    /\ op.pc = "delete"
    /\ IF dirent[op.from] = NoNode THEN Reply("error") /\ UNCHANGED <<dirent, staging>>
       ELSE /\ dirent' = [dirent EXCEPT ![op.from] = NoNode]
            /\ staging' = staging \cup {dirent[op.from]}
            /\ op' = [op EXCEPT !.pc = "remove", !.staged = dirent[op.from]]
    /\ Disturb
    /\ UNCHANGED <<node, made, before, calm, moves, fileOps, fileCrashes>>

(* The staged tree goes in any case; the answer says if it was the one *)
RemoveStaged ==
    /\ op.pc = "remove"
    /\ staging' = staging \ {op.staged}
    /\ Reply(IF VerifyPublished(op.staged) THEN "ok" ELSE "error")
    /\ UNCHANGED <<dirent, node, made, look, before, calm, moves, fileOps, fileCrashes>>

(***************************************************************************)
(* search; list is a search of one level for any name                      *)
(***************************************************************************)
(* The paths whose last name contains the query; "." has no child *)
Matches ==
    {p \in FileNames \X (Children \cup {"."}) :
        /\ dirent[p[1]] # NoNode
        /\ IF p[2] = "." THEN p[1] \in Matching
           ELSE p[2] \in Matching /\ p[2] \in KidsOf(dirent[p[1]])}

BeginSearch ==
    /\ look.pc = "idle" /\ fileOps < MaxFileOps /\ fileOps' = fileOps + 1
    /\ look' = [NoLook EXCEPT !.pc = "search", !.todo = FileNames, !.truth = Matches]
    /\ UNCHANGED <<dirent, node, made, staging, op, before, calm, moves, fileCrashes>>

FoundAt(n) == {p \in Matches : p[1] = n}

(* search_directory takes one entry and descends into it; an entry that is *)
(* not safe, and one too many, end the search                              *)
SearchEntry(n) ==
    /\ look.pc = "search" /\ n \in look.todo
    /\ LET scanned == look.scanned + (IF dirent[n] = NoNode THEN 0
                                      ELSE 1 + Cardinality(KidsOf(dirent[n])))
       IN IF dirent[n] = NoNode THEN look' = [look EXCEPT !.todo = @ \ {n}]
          ELSE IF /\ SafeKind(Tree(n).kind) /\ scanned <= MaxScanned
                  /\ \A c \in KidsOf(dirent[n]) : SafeKind(Tree(n).kids[c])
          THEN look' = [look EXCEPT !.todo = @ \ {n}, !.scanned = scanned,
                                    !.found = @ \cup FoundAt(n)]
          ELSE look' = [look EXCEPT !.pc = "idle", !.todo = {}, !.answer = "error"]
    /\ UNCHANGED <<dirent, node, made, staging, op, before, calm, moves, fileOps, fileCrashes>>

SearchDone ==
    /\ look.pc = "search" /\ look.todo = {}
    /\ look' = [look EXCEPT !.pc = "idle", !.answer = "ok"]
    /\ UNCHANGED <<dirent, node, made, staging, op, before, calm, moves, fileOps, fileCrashes>>

(***************************************************************************)
(* Containers, and the end of the daemon                                   *)
(***************************************************************************)
ContainerActs ==
    /\ moves < MaxContainerSteps /\ moves' = moves + 1
    /\ calm' = FALSE
    /\ Disturb

(* A name gets another entry, or none *)
ContainerReplaces(n, kind) ==
    /\ ContainerActs
    /\ IF kind = "none" THEN dirent' = [dirent EXCEPT ![n] = NoNode] /\ UNCHANGED <<node, made>>
       ELSE /\ made < MaxInodes /\ made' = made + 1
            /\ dirent' = [dirent EXCEPT ![n] = made + 1]
            /\ node' = [node EXCEPT ![made + 1] = [Unused EXCEPT !.kind = kind]]
    /\ UNCHANGED <<staging, op, before, fileOps, fileCrashes>>

ContainerEdits(n, c, kind) ==
    /\ ContainerActs
    /\ Tree(n).kind = "dir" /\ Tree(n).kids[c] # kind
    /\ node' = [node EXCEPT ![dirent[n]].kids[c] = kind]
    /\ UNCHANGED <<dirent, made, staging, op, before, fileOps, fileCrashes>>

(* Filesystem::new empties the staging directory *)
RestartFiles ==
    /\ fileCrashes < MaxFileCrashes /\ fileCrashes' = fileCrashes + 1
    /\ staging' = {}
    /\ op' = [op EXCEPT !.pc = "idle", !.answer = "lost", !.todo = {}, !.staged = NoNode]
    /\ look' = NoLook
    /\ UNCHANGED <<dirent, node, made, before, calm, moves, fileOps>>

FilesNext ==
    \/ \E from, to \in FileNames, what \in {"copy", "move"} : BeginFileOp(what, from, to)
    \/ \E from \in FileNames : BeginFileOp("delete", from, from)
    \/ StageCopy \/ PublishCopy \/ RenameEntry \/ VerifyOrQuarantine
    \/ StageDelete \/ RemoveStaged
    \/ \E c \in Children : CopyEntry(c)
    \/ BeginSearch \/ SearchDone
    \/ \E n \in FileNames : SearchEntry(n)
    \/ \E n \in FileNames, kind \in {"none", "file", "link"} : ContainerReplaces(n, kind)
    \/ \E n \in FileNames, c \in Children, kind \in {"none", "link"} : ContainerEdits(n, c, kind)
    \/ RestartFiles

FilesSpec == FilesInit /\ [][FilesNext]_fvars

(***************************************************************************)
(* Properties                                                              *)
(***************************************************************************)
(* Names and staged entries refer to inodes that were made, none to two *)
FilesTypeOK ==
    /\ dirent \in [FileNames -> 0..made] /\ made \in 0..MaxInodes
    /\ staging \subseteq 1..made
    /\ op.pc \in {"idle", "copy", "move", "delete", "copying", "verify", "remove"}
    /\ \A n, m \in FileNames : dirent[n] = dirent[m] => n = m \/ dirent[n] = NoNode
    /\ \A n \in FileNames : dirent[n] \notin staging

(* What an operation that succeeds makes of the trees it began with *)
Effect ==
    CASE op.what = "copy" -> [before EXCEPT ![op.to] = before[op.from]]
      [] op.what = "move" -> [before EXCEPT ![op.to] = before[op.from], ![op.from] = Unused]
      [] op.what = "delete" -> [before EXCEPT ![op.from] = Unused]
      [] OTHER -> before

(* copy, move_entry and delete, when no container interferes: one that     *)
(* succeeds did all of its work and replaced nothing, one that is refused  *)
(* did none of it, one that a crash cut short did all or none.  (A delete  *)
(* that fails has removed the tree before it found it unsafe.)  The        *)
(* staging directory is left empty; and a search of a tree that holds      *)
(* still finds every match or answers with an error.                       *)
FilesAllOrNothing ==
    /\ op.pc = "idle" =>
         /\ staging = {}
         /\ calm /\ op.answer # "none" =>
              /\ Trees \in {before, Effect}
              /\ op.answer = "ok" =>
                   Trees = Effect /\ (op.what # "delete" => before[op.to] = Unused)
              /\ op.answer = "error" /\ op.what # "delete" => Trees = before
    /\ look.answer = "ok" /\ look.calm => look.found = look.truth
=============================================================================
