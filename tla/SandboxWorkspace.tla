-------------------------- MODULE SandboxWorkspace -------------------------
(***************************************************************************)
(* A change of a workspace's files by the sandbox daemon while containers  *)
(* use the same files: mutate_workspace of daemon.rs, pausing, resuming    *)
(* and recovery of runtime.rs, the recovery store and the publishing of a  *)
(* file of filesystem.rs.                                                  *)
(*                                                                         *)
(* One workspace and one path.  Task n is the n-th request: it takes the   *)
(* workspace lock, pauses the containers under a recovery record, changes  *)
(* the file and resumes them.  A request that reaches its deadline lets go *)
(* of the lock, but the task it spawned to pause, or the one its guard     *)
(* spawns to resume, goes on without it; the guard also spawns one when    *)
(* the request's own resume failed.                                        *)
(***************************************************************************)
EXTENDS Naturals, FiniteSets

CONSTANTS Containers,
          MaxOps,      \* bound: requests
          MaxWrites,   \* bound: writes and deletions by containers
          MaxDrops,    \* bound: requests that reach their deadline
          MaxFaults,   \* bound: podman calls that fail
          MaxReboots   \* bound: restarts of the daemon

ASSUME WorkspaceAssumption == MaxOps \in Nat

VARIABLES cont,       \* each container: "absent", "running" or "paused"
          record,     \* the workspace's file in the recovery store
          litter,     \* a temporary file left in the recovery directory
          task,       \* the requests
          holder,     \* the task whose request holds the workspace lock, or 0
          file,       \* content of the path
          stranded,   \* history: paused, not confirmed, and not resumed
          overlap,    \* history: a request began beside a dropped one that still changes
          served, writes, drops, podfaults, reboots

wvars == <<cont, record, litter, task, holder, file, stranded,
           overlap, served, writes, drops, podfaults, reboots>>
counters == <<writes, drops, podfaults, reboots>>
hist == <<overlap, served>>

Ops      == 1 .. MaxOps
Kinds    == {"write", "patch", "create", "delete"}
NoRecord == [id |-> 0, conts |-> {}]
NoTask   == [pc |-> "idle", kind |-> "none", todo |-> {}, paused |-> {},
             resuming |-> {}, clears |-> 0, tries |-> 0, swap |-> FALSE,
             seen |-> "none", then |-> "none", res |-> "none"]

WorkspaceInit ==
    /\ cont \in [Containers -> {"absent", "running"}]
    /\ record = NoRecord /\ litter = FALSE
    /\ task = [n \in Ops |-> NoTask]
    /\ holder = 0 /\ file = "base" /\ stranded = {} /\ overlap = FALSE
    /\ served = 0 /\ writes = 0 /\ drops = 0 /\ podfaults = 0 /\ reboots = 0

TaskAt(n, p) == task[n].pc = p
OnlyTask == UNCHANGED <<cont, record, litter, file, stranded, hist, counters>>

\* The request ends: the lock is released if it still holds it.
Unlock(n) == holder' = IF holder = n THEN 0 ELSE holder
Finish(n, r) ==
    /\ task' = [task EXCEPT ![n] = [NoTask EXCEPT !.pc = "done", !.kind = task[n].kind,
                                       !.swap = task[n].swap, !.seen = task[n].seen, !.res = r]]
    /\ Unlock(n)

\* Go and resume the containers in s, clear record c, and continue with p.
ResumeThen(t, s, c, p) ==
    [t EXCEPT !.pc = "resume", !.resuming = s, !.clears = c, !.tries = 0, !.then = p]

-----------------------------------------------------------------------------
(* mutate_workspace, up to the pause *)

\* ensure_workspace_recovered: the containers of a record that is still there
\* are resumed before anything else.
EnsureRecovered(t) ==
    IF record.id = 0 THEN [t EXCEPT !.pc = "list"]
    ELSE ResumeThen(t, record.conts, record.id, "list")

\* A task that is to write the record or the files, or is about to clear the
\* record of an earlier one; not one that only resumes what it paused itself.
Changing(t) ==
    \/ t.pc \in {"list", "persist", "pause", "chown", "look", "publish", "validate", "post"}
    \/ t.pc = "resume" /\ t.then = "list"

\* The lock; then pause_workspace spawns pause_workspace_owned.
BeginOp(n, k) ==
    /\ n = served + 1 /\ holder = 0 /\ ~litter
    /\ served' = n /\ holder' = n
    /\ overlap' = (overlap \/ \E m \in Ops : Changing(task[m]))
    /\ task' = [task EXCEPT ![n] = EnsureRecovered([NoTask EXCEPT !.kind = k])]
    /\ UNCHANGED <<cont, record, litter, file, stranded, counters>>

ListContainers(n) ==
    LET live == {c \in Containers : cont[c] # "absent"}
    IN  /\ TaskAt(n, "list")
        /\ task' = [task EXCEPT ![n].todo = live,
                       ![n].pc = IF live = {} THEN "chown" ELSE "persist"]
        /\ UNCHANGED holder /\ OnlyTask

\* RecoveryStore::persist: one record per workspace, renamed into place.
Persist(n) ==
    /\ TaskAt(n, "persist")
    /\ record' = [id |-> n, conts |-> task[n].todo]
    /\ task' = [task EXCEPT ![n].pc = "pause"]
    /\ UNCHANGED <<cont, litter, holder, file, stranded, hist, counters>>

PauseOne(n, c) ==
    /\ TaskAt(n, "pause") /\ c \in task[n].todo /\ cont[c] = "running"
    /\ cont' = [cont EXCEPT ![c] = "paused"]
    /\ task' = [task EXCEPT ![n].todo = @ \ {c}, ![n].paused = @ \cup {c}]
    /\ UNCHANGED <<record, litter, holder, file, stranded, hist, counters>>

\* podman pause fails, or succeeds and is not confirmed.  Only the containers
\* paused before it are resumed; with none of them the record is kept.
PauseFails(n, c) ==
    /\ TaskAt(n, "pause") /\ c \in task[n].todo
    /\ \/ cont[c] # "running" /\ UNCHANGED <<cont, stranded, podfaults>>
       \/ /\ cont[c] = "running" /\ podfaults < MaxFaults /\ podfaults' = podfaults + 1
          /\ \/ UNCHANGED <<cont, stranded>>
             \/ /\ cont' = [cont EXCEPT ![c] = "paused"]
                /\ stranded' = IF task[n].paused = {} THEN stranded ELSE stranded \cup {c}
    /\ IF task[n].paused = {}
       THEN Finish(n, "error")
       ELSE /\ task' = [task EXCEPT ![n] = ResumeThen(@, @.paused, n, "failed")]
            /\ UNCHANGED holder
    /\ UNCHANGED <<record, litter, file, hist, writes, drops, reboots>>

\* All are paused.  When the request has gone meanwhile the task resumes them.
AllPaused(n) ==
    /\ TaskAt(n, "pause") /\ task[n].todo = {}
    /\ task' = [task EXCEPT ![n] =
          IF holder = n THEN [@ EXCEPT !.pc = "chown"] ELSE ResumeThen(@, @.paused, n, "gone")]
    /\ UNCHANGED holder /\ OnlyTask

-----------------------------------------------------------------------------
(* resume_workspace_owned *)

ResumeOne(n, c) ==
    /\ TaskAt(n, "resume") /\ c \in task[n].resuming
    /\ cont' = [cont EXCEPT ![c] = IF @ = "paused" THEN "running" ELSE @]
    /\ stranded' = stranded \ {c}
    /\ task' = [task EXCEPT ![n].resuming = @ \ {c}]
    /\ UNCHANGED <<record, litter, holder, file, hist, counters>>

\* The call fails.  When it was the request's own, the request ends with an
\* error and WorkspaceResumeGuard's Drop spawns another for the same pause.
ResumeGivesUp(n) ==
    IF task[n].then \in {"ok", "error"}
    THEN /\ task' = [task EXCEPT ![n] =
                        ResumeThen([@ EXCEPT !.res = "error"], @.paused, n, "gone")]
         /\ Unlock(n)
    ELSE Finish(n, "error")

\* An attempt leaves a container unresolved; after three the call fails.
ResumeFails(n) ==
    /\ TaskAt(n, "resume") /\ task[n].resuming # {}
    /\ podfaults < MaxFaults /\ podfaults' = podfaults + 1
    /\ \/ /\ task[n].tries < 2
          /\ task' = [task EXCEPT ![n].tries = @ + 1] /\ UNCHANGED holder
       \/ ResumeGivesUp(n)       \* listing the containers failed, or the third try
    /\ UNCHANGED <<cont, record, litter, file, stranded, hist, writes, drops, reboots>>

\* RecoveryStore::clear checks that the record is still this operation's.
ResumeClear(n) ==
    LET none == task[n].paused = {} /\ task[n].then # "list"   \* nothing was paused
        ok   == none \/ record.id = task[n].clears
    IN  /\ TaskAt(n, "resume") /\ task[n].resuming = {}
        /\ record' = IF ok /\ ~none THEN NoRecord ELSE record
        /\ CASE ok /\ task[n].then = "list" ->
                    task' = [task EXCEPT ![n].pc = "list"] /\ UNCHANGED holder
             [] ok /\ task[n].then # "list" ->
                    Finish(n, IF task[n].then = "ok" THEN "ok" ELSE "error")
             [] ~ok -> ResumeGivesUp(n)
        /\ UNCHANGED <<cont, litter, file, stranded, hist, counters>>

-----------------------------------------------------------------------------
(* The change itself: atomic_write, patch, mkdir, move_entry, copy, delete *)

\* The ownership fix before the change; then the path is looked at, and a
\* patch compares the hash of what it finds.
Check(n) ==
    LET k  == task[n].kind
        ok == CASE k = "patch"  -> file = "base"      \* expected_sha256
                [] k = "create" -> file = "none"      \* RENAME_NOREPLACE
                [] k = "delete" -> file # "none"
                [] k = "write"  -> TRUE
        to == IF k \in {"write", "patch"} THEN "look" ELSE "publish"
    IN  /\ TaskAt(n, "chown")
        /\ task' = [task EXCEPT ![n] = IF ok THEN [@ EXCEPT !.pc = to, !.swap = k = "delete"]
                                       ELSE [@ EXCEPT !.pc = "post", !.res = "error"]]
        /\ UNCHANGED holder /\ OnlyTask

\* atomic_write looks a second time, whether there is a target to exchange.
Look(n) ==
    /\ TaskAt(n, "look")
    /\ task' = [task EXCEPT ![n].pc = "publish", ![n].swap = file # "none"]
    /\ UNCHANGED holder /\ OnlyTask

\* The rename: it takes the entry that is there, or, with RENAME_NOREPLACE,
\* needs that there is none.
PublishPatch(n) ==
    /\ TaskAt(n, "publish")
    /\ IF task[n].swap = (file # "none")
       THEN /\ file' = IF task[n].kind = "delete" THEN "none" ELSE "mine"
            /\ task' = [task EXCEPT ![n].pc = "validate", ![n].seen = file]
       ELSE /\ task' = [task EXCEPT ![n].pc = "post", ![n].res = "error"]
            /\ UNCHANGED file
    /\ UNCHANGED <<cont, record, litter, holder, stranded, hist, counters>>

\* verify_published and, for a patch that was exchanged with what was there,
\* the hash of that; on a mismatch the exchange is undone.
\* Mutant: the displaced content is not compared.
DisplacedUnchecked(t) == TRUE
DisplacedExpected(t) == t.kind = "patch" /\ t.swap => t.seen = "base"
Validate(n) ==
    /\ TaskAt(n, "validate")
    /\ IF DisplacedExpected(task[n])
       THEN task' = [task EXCEPT ![n].pc = "post", ![n].res = "ok"] /\ UNCHANGED file
       ELSE /\ task' = [task EXCEPT ![n].pc = "post", ![n].res = "error"]
            /\ file' = task[n].seen
    /\ UNCHANGED <<cont, record, litter, holder, stranded, hist, counters>>

\* ContainmentFailure: an unsafe entry cannot be removed, so the containers are
\* terminated; the record is left for the next request to clear.
Contain(n) ==
    /\ TaskAt(n, "validate") /\ podfaults < MaxFaults /\ podfaults' = podfaults + 1
    /\ cont' = [c \in Containers |-> IF c \in task[n].paused THEN "absent" ELSE cont[c]]
    /\ stranded' = stranded \ task[n].paused
    /\ Finish(n, "error")
    /\ UNCHANGED <<record, litter, file, hist, writes, drops, reboots>>

\* The ownership fix after the change, and the resume.
Post(n) ==
    /\ TaskAt(n, "post")
    /\ task' = [task EXCEPT ![n] = ResumeThen(@, @.paused, n, @.res)]
    /\ UNCHANGED holder /\ OnlyTask

\* The operation deadline drops the request at one of its awaits.  While it
\* waits for the pause the spawned task goes on; between the pause and the
\* guard nothing remembers the pause but the record; afterwards the guard
\* spawns a resume of its own.
DropRequest(n) ==
    /\ holder = n /\ holder' = 0 /\ drops < MaxDrops /\ drops' = drops + 1
    /\ \/ /\ task[n].pc \in {"list", "persist", "pause"} \/ task[n].then \in {"list", "failed"}
          /\ UNCHANGED task
       \/ /\ TaskAt(n, "chown")
          /\ task' = [task EXCEPT ![n] = [NoTask EXCEPT !.pc = "done", !.res = "error"]]
       \/ /\ TaskAt(n, "post") \/ task[n].then \in {"ok", "error"}
          /\ task' = [task EXCEPT ![n] = ResumeThen(@, @.paused, n, "gone")]
    /\ UNCHANGED <<cont, record, litter, file, stranded, hist, writes, podfaults, reboots>>

-----------------------------------------------------------------------------
(* The containers and the daemon *)

\* A container that runs writes the file, or deletes it ("none").
ContainerWrites(c, v) ==
    /\ cont[c] = "running" /\ writes < MaxWrites /\ writes' = writes + 1
    /\ file' = v
    /\ UNCHANGED <<cont, record, litter, task, holder, stranded, hist, drops, podfaults,
                   reboots>>

\* A restart: reconcile_recoveries removes every container, then every record.
\* A temporary file that persist had not renamed yet makes listing the records
\* fail, and with it the start.
Reboot ==
    /\ reboots < MaxReboots /\ reboots' = reboots + 1
    /\ litter' \in {l \in BOOLEAN : l => \E n \in Ops : TaskAt(n, "persist")}
    /\ task' = [n \in Ops |-> IF task[n].pc \in {"idle", "done"} THEN task[n]
                              ELSE [NoTask EXCEPT !.pc = "done", !.kind = task[n].kind,
                                                  !.res = "error"]]
    /\ holder' = 0
    /\ IF litter' THEN UNCHANGED <<cont, record, stranded>>
       ELSE /\ cont' = [c \in Containers |-> "absent"]
            /\ record' = NoRecord /\ stranded' = {}
    /\ UNCHANGED <<file, hist, writes, drops, podfaults>>

TaskSteps(n) ==
    \/ ListContainers(n) \/ Persist(n) \/ AllPaused(n) \/ ResumeClear(n) \/ Check(n)
    \/ Look(n) \/ PublishPatch(n) \/ Validate(n) \/ Post(n)
    \/ \E c \in Containers : PauseOne(n, c) \/ ResumeOne(n, c)
WorkspaceNext ==
    \/ \E n \in Ops :
          \/ \E k \in Kinds : BeginOp(n, k)
          \/ TaskSteps(n) \/ ResumeFails(n) \/ Contain(n) \/ DropRequest(n)
          \/ \E c \in Containers : PauseFails(n, c)
    \/ \E c \in Containers, v \in {"base", "theirs", "none"} : ContainerWrites(c, v)
    \/ Reboot

WorkspaceSpec == WorkspaceInit /\ [][WorkspaceNext]_wvars

-----------------------------------------------------------------------------
WorkspaceTypeOK ==
    /\ cont \in [Containers -> {"absent", "running", "paused"}]
    /\ record.id \in 0 .. MaxOps /\ record.conts \subseteq Containers
    /\ holder \in 0 .. MaxOps /\ stranded \subseteq Containers
    /\ file \in {"none", "base", "mine", "theirs"}
    /\ \A n \in Ops : task[n].pc \in {"idle", "list", "persist", "pause", "resume", "chown",
                                      "look", "publish", "validate", "post", "done"}

(***************************************************************************)
(* A patch that is reported as applied has overwritten nothing but the     *)
(* content it was made for, also when a container is running and writes or *)
(* deletes the file between the first look and the rename.  When the       *)
(* second look found the file, the exchange displaced exactly that content *)
(* (atomic_write reads it once more).  When it did not, the file was       *)
(* deleted after its hash was compared: the patch then puts it back with   *)
(* RENAME_NOREPLACE, and succeeds though there is nothing left to patch,   *)
(* but a file written there meanwhile is not replaced.                     *)
(***************************************************************************)
Displaced(t) == t.seen = IF t.swap THEN "base" ELSE "none"
PatchConditional ==
    \A n \in Ops : task[n].kind = "patch" /\ task[n].res = "ok" => Displaced(task[n])

(***************************************************************************)
(* No container is left paused and forgotten: when no request and no task  *)
(* is at work, a paused container is named by the workspace's recovery     *)
(* record, from which the next request resumes it.  Excepted are the       *)
(* containers whose pause was not confirmed after another one had been     *)
(* paused: pause_workspace_owned resumes the others only and clears the    *)
(* record; and workspaces where a request began beside the task of a       *)
(* dropped one that was still pausing, because each of the two overwrites  *)
(* and clears the other's record.  A task that only resumes, spawned by    *)
(* the guard of a request that was dropped or failed to resume, may go on  *)
(* beside the next request and undo its pause, but forgets nothing.        *)
(* (While a temporary file keeps the daemon from starting there is nobody  *)
(* to resume them.)                                                        *)
(***************************************************************************)
PausedIsRecorded ==
    ~litter /\ ~overlap /\ (\A n \in Ops : task[n].pc \in {"idle", "done"})
        => \A c \in Containers : cont[c] = "paused" => c \in record.conts \cup stranded

=============================================================================
