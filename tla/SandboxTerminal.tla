-------------------------- MODULE SandboxTerminal --------------------------
(***************************************************************************)
(* The life of a terminal inside the sandbox daemon (runtime.rs): the task *)
(* that starts its container, the task that drains the pseudo terminal     *)
(* into the journal, the monitor that waits for the process, the ones that *)
(* clean up (a Terminate request, the execution timeout, a failed start,   *)
(* the background retry), and the clients that write input.  They share    *)
(* the session, the registry and the row of the terminals table.           *)
(*                                                                         *)
(* The state of a terminal is one record, so that an action names what it  *)
(* changes.  Bytes of output are counted, not kept; a container is         *)
(* external and is running or not.                                         *)
(***************************************************************************)
EXTENDS Naturals, Sequences, FiniteSets, Functions

CONSTANTS Terminals,
          Workspace,      \* the workspace of each terminal
          Inputs,         \* input ids a client uses
          MaxActive, MaxActivePerWorkspace, MaxRetained,  \* SessionLimits
          MaxOutputBytes, \* MAX_TERMINAL_OUTPUT_BYTES
          MaxProduced,    \* bound: bytes a process writes
          MaxOthers,      \* bound: sessions of other terminals at a time
          MaxRestarts,    \* bound: times the daemon is restarted
          MaxTries        \* bound: times an input is sent

ASSUME LimitsAssumption == {MaxActive, MaxActivePerWorkspace} \subseteq Nat \ {0}
\* Sessions of other terminals appear in the registry as "other".
ASSUME TerminalAssumption ==
    /\ IsFiniteSet(Terminals) /\ "other" \notin Terminals
    /\ {MaxRetained, MaxOutputBytes} \subseteq Nat

VARIABLES term,       \* per terminal: journal row, session and its tasks
          sessions,   \* Registry.sessions
          active,     \* Registry.active
          activeIn,   \* Registry.active_by_workspace
          completed,  \* Registry.completed
          others,     \* sessions of other terminals, by workspace
          restarts

tvars == <<term, sessions, active, activeIn, completed, others, restarts>>
registry == <<sessions, active, activeIn, completed>>

Workspaces == {Workspace[t] : t \in Terminals}
Cleaners   == {"start", "user", "timer"}
Ended      == {"EXITED", "TERMINATED"}
Settled    == Ended \cup {"LOST"}

NoSession == [life |-> "none", req |-> FALSE, pty |-> FALSE, starter |-> "none",
              monitor |-> "none", drain |-> "none", final |-> "none",
              timer |-> FALSE, background |-> FALSE,
              clean |-> [k \in Cleaners |-> "idle"],
              writer |-> [i \in Inputs |-> "idle"]]
Absent == [state |-> "none", complete |-> TRUE, end |-> 0,
           input |-> [i \in Inputs |-> "none"],
           child |-> "none", produced |-> 0,
           written |-> [i \in Inputs |-> 0], tries |-> 0, mem |-> NoSession]

TerminalInit ==
    /\ term = [t \in Terminals |-> Absent]
    /\ sessions = {} /\ active = 0 /\ activeIn = [w \in Workspaces |-> 0]
    /\ completed = << >> /\ others = [w \in Workspaces |-> 0] /\ restarts = 0

Mem(t)   == term[t].mem
Life(t)  == term[t].mem.life
Starter(t, p) == term[t].mem.starter = p
rest == <<others, restarts>>
OnlyTerm == UNCHANGED <<registry, rest>>

-----------------------------------------------------------------------------
(* Session *)

IsTerminal(l) == l \in Ended

\* Session::transition.
Transition(l, next) ==
    IF IsTerminal(l) THEN l
    ELSE CASE next = "RUNNING" -> IF l = "STARTING" THEN next ELSE l
           [] next = "TERMINATING" ->
                IF l \in {"STARTING", "RUNNING", "UNRECOVERABLE"} THEN next ELSE l
           [] next = "UNRECOVERABLE" ->
                IF l \in {"STARTING", "RUNNING", "TERMINATING"} THEN next ELSE l
           [] OTHER -> next

\* Session::begin_termination, on the memory of a terminal.
BeginTermination(m) ==
    IF IsTerminal(m.life) THEN m
    ELSE [m EXCEPT !.req = TRUE, !.life = Transition(@, "TERMINATING")]

\* LifecycleState::terminal_state, the state record_output_failure journals.
TerminalState(l) == IF l \in {"STARTING", "RUNNING"} THEN "RUNNING" ELSE l

-----------------------------------------------------------------------------
(* Registry *)

HasRoom(w) == active < MaxActive /\ activeIn[w] < MaxActivePerWorkspace
Occupy(w) ==
    /\ active' = active + 1
    /\ activeIn' = [activeIn EXCEPT ![w] = @ + 1]

Reserve(t) ==
    /\ Occupy(Workspace[t])
    /\ sessions' = sessions \cup {t}
    /\ UNCHANGED completed

Dec(n) == IF n = 0 THEN 0 ELSE n - 1   \* saturating_sub
Release(w) ==
    /\ active' = Dec(active)
    /\ activeIn' = [activeIn EXCEPT ![w] = Dec(@)]

\* The records Registry::complete keeps, and those it expires.
Retain(id) ==
    LET q    == Append(completed, id)
        drop == IF Len(q) > MaxRetained THEN Len(q) - MaxRetained ELSE 0
    IN  /\ completed' = SubSeq(q, drop + 1, Len(q))
        /\ sessions' = sessions \ {q[n] : n \in 1 .. drop}

RegistryComplete(t) ==
    IF t \notin sessions THEN UNCHANGED registry
    ELSE Release(Workspace[t]) /\ Retain(t)

\* The other terminals of the daemon, seen through the registry only.
OtherStarts(w) ==
    /\ HasRoom(w) /\ others[w] < MaxOthers
    /\ Occupy(w)
    /\ others' = [others EXCEPT ![w] = @ + 1]
    /\ UNCHANGED <<term, sessions, completed, restarts>>

OtherEnds(w) ==
    /\ others[w] > 0
    /\ Release(w) /\ Retain("other")
    /\ others' = [others EXCEPT ![w] = @ - 1]
    /\ UNCHANGED <<term, restarts>>

\* The list of completed sessions without a session (VecDeque::retain), by the
\* recursion a proof can follow.
WithoutSession(list, t) ==
    LET kept[n \in 0 .. Len(list)] ==
            IF n = 0 THEN << >>
            ELSE IF list[n] = t THEN kept[n - 1] ELSE Append(kept[n - 1], list[n])
    IN  kept[Len(list)]

RemoveCompleted(t) ==
    /\ sessions' = sessions \ {t}
    /\ completed' = WithoutSession(completed, t)
    /\ UNCHANGED <<active, activeIn>>

CancelReservation(t) ==
    IF t \notin sessions THEN UNCHANGED registry
    ELSE Release(Workspace[t]) /\ sessions' = sessions \ {t} /\ UNCHANGED completed

-----------------------------------------------------------------------------
(* PodmanRuntime::start *)

\* begin_start inserts the row; a later Start of the terminal finds it and
\* changes nothing.
Start(t) ==
    /\ term[t].state = "none"
    /\ term' = [term EXCEPT ![t].state = "STARTING", ![t].mem.starter = "reserve"]
    /\ OnlyTerm

StartReserve(t) ==
    /\ Starter(t, "reserve")
    /\ \/ /\ HasRoom(Workspace[t])
          /\ Reserve(t)
          /\ term' = [term EXCEPT ![t].mem.starter = "spawn", ![t].mem.life = "STARTING"]
       \/ /\ ~HasRoom(Workspace[t])
          /\ term' = [term EXCEPT ![t].state = "TERMINATED", ![t].complete = FALSE,
                                  ![t].mem.starter = "none"]
          /\ UNCHANGED registry
    /\ UNCHANGED rest

\* The PTY, the process and the two tasks that follow it.
StartSpawn(t) ==
    /\ Starter(t, "spawn")
    /\ term' = [term EXCEPT ![t].child = "running", ![t].mem.pty = TRUE,
                            ![t].mem.monitor = "wait", ![t].mem.drain = "reading",
                            ![t].mem.starter = "ready"]
    /\ OnlyTerm

\* The PTY or the process fails: the start waits for the registry's lock and
\* then gives its place back.  A Terminate that found the session meanwhile
\* keeps it, and goes on cleaning up what never ran.
StartSpawnFails(t) ==
    /\ Starter(t, "spawn")
    /\ term' = [term EXCEPT ![t].mem.starter = "cancel"]
    /\ OnlyTerm

HeldByCleaner(m) == m.background \/ \E k \in Cleaners : m.clean[k] # "idle"
StartCancelled(t) ==
    /\ Starter(t, "cancel")
    /\ CancelReservation(t)
    /\ term' = [term EXCEPT ![t].state = "TERMINATED", ![t].complete = FALSE,
                            ![t].mem = IF HeldByCleaner(@) THEN [@ EXCEPT !.starter = "none"]
                                       ELSE NoSession]
    /\ UNCHANGED rest

\* await_readiness: a normal exit counts as ready, whoever sees it first.
ExitedNormally(t) == term[t].state = "EXITED"
StartReady(t) ==
    /\ Starter(t, "ready")
    /\ \/ /\ IF IsTerminal(Life(t)) THEN ExitedNormally(t)
             ELSE Life(t) = "STARTING" \/ ExitedNormally(t)
          /\ term' = [term EXCEPT ![t].mem.starter =
                         IF IsTerminal(Life(t)) \/ ExitedNormally(t)
                         THEN "running" ELSE "resize"]
       \/ term' = [term EXCEPT ![t].mem.starter = "failed"]   \* or its timeout
    /\ OnlyTerm

StartResize(t) ==
    /\ Starter(t, "resize")
    /\ \/ /\ term[t].child = "running"
          /\ term' = [term EXCEPT
                 ![t].mem.life = Transition(@, "RUNNING"),
                 ![t].mem.starter = IF Life(t) = "STARTING" THEN "running" ELSE "failed"]
       \/ term' = [term EXCEPT ![t].mem.starter =
                      IF ExitedNormally(t) THEN "running" ELSE "failed"]
    /\ OnlyTerm

\* set_running, which leaves a record that has moved on alone.
\* Mutant: it writes RUNNING whatever the record says.
StartRunningAlways(t) ==
    /\ Starter(t, "running")
    /\ term' = [term EXCEPT ![t].state = "RUNNING", ![t].mem.starter = "none",
                            ![t].mem.timer = TRUE]
    /\ OnlyTerm

StartRunning(t) ==
    /\ Starter(t, "running")
    /\ term' = [term EXCEPT
           ![t].state = IF @ \in {"STARTING", "RUNNING"} THEN "RUNNING" ELSE @,
           ![t].mem.starter = "none", ![t].mem.timer = TRUE]
    /\ OnlyTerm

StartFailed(t) ==
    /\ Starter(t, "failed")
    /\ term' = [term EXCEPT ![t].mem.starter = "cleaning", ![t].mem.clean["start"] = "begin"]
    /\ OnlyTerm

\* After cleanup_until: the session is forgotten and the row closed.
StartCleaned(t) ==
    /\ Starter(t, "cleaning") /\ Mem(t).clean["start"] \in {"true", "false"}
    /\ IF Mem(t).clean["start"] = "true" THEN RemoveCompleted(t) ELSE UNCHANGED registry
    /\ term' = [term EXCEPT ![t].state = "TERMINATED", ![t].complete = FALSE,
                            ![t].mem.starter = "none", ![t].mem.clean["start"] = "idle"]
    /\ UNCHANGED rest

\* The request's deadline drops the future: CleanupOnDrop hands the container
\* to the background task, once the tasks run; before that nothing is undone,
\* and a start that waits to cancel its reservation leaves it behind.
\* Mutant: the guard is not armed.
GuardForgets(m) == m
Guard(m) ==
    IF m.monitor = "none" \/ IsTerminal(m.life) THEN m
    ELSE [BeginTermination(m) EXCEPT !.background = TRUE]
Dropped(m) == [Guard(m) EXCEPT !.clean["start"] = "idle",
                               !.starter = IF m.starter = "cancel" THEN "leaked" ELSE "none"]
StartDropped(t) ==
    /\ Mem(t).starter \in {"reserve", "cancel", "ready", "resize", "cleaning"}
    /\ term' = [term EXCEPT ![t].mem = Dropped(@)]
    /\ OnlyTerm

-----------------------------------------------------------------------------
(* The process, drain_pty_output and the monitor *)

Produce(t) ==
    /\ term[t].child = "running" /\ term[t].produced < MaxProduced
    /\ term' = [term EXCEPT ![t].produced = @ + 1]
    /\ OnlyTerm

Exit(t) ==
    /\ term[t].child = "running"
    /\ term' = [term EXCEPT ![t].child = "gone"]
    /\ OnlyTerm

\* append_output: past the limit, or once the output is incomplete, nothing
\* is taken any more.
Append1(t) ==
    /\ Mem(t).drain = "reading" /\ term[t].end < term[t].produced
    /\ IF term[t].complete /\ term[t].end < MaxOutputBytes
       THEN term' = [term EXCEPT ![t].end = @ + 1]
       ELSE term' = [term EXCEPT ![t].complete = FALSE, ![t].mem.drain = "failing"]
    /\ OnlyTerm

DrainEnd(t) ==
    /\ Mem(t).drain = "reading"
    /\ term[t].child = "gone" /\ term[t].end = term[t].produced
    /\ term' = [term EXCEPT ![t].mem.drain = "complete"]
    /\ OnlyTerm

\* A read of the PTY or a write of the journal fails.
DrainError(t) ==
    /\ Mem(t).drain = "reading"
    /\ term' = [term EXCEPT ![t].mem.drain = "failing"]
    /\ OnlyTerm

DrainFails(t) ==
    /\ Mem(t).drain = "failing"
    /\ term' = [term EXCEPT ![t].mem = [BeginTermination(@) EXCEPT
                                !.background = TRUE, !.drain = "record"]]
    /\ OnlyTerm

\* record_output_failure.
DrainRecord(t) ==
    /\ Mem(t).drain = "record"
    /\ term' = [term EXCEPT ![t].state = TerminalState(Life(t)), ![t].complete = FALSE,
                            ![t].mem.drain = "failed"]
    /\ OnlyTerm

MonitorWait(t) ==
    /\ Mem(t).monitor = "wait" /\ term[t].child = "gone"
    /\ term' = [term EXCEPT ![t].mem.monitor = "drain", ![t].mem.pty = FALSE]
    /\ OnlyTerm

\* The monitor records the end only after the output task has ended.
OutputDrained(t) == Mem(t).drain \in {"complete", "failed"}
MonitorRecord(t) ==
    LET final == IF Mem(t).req THEN "TERMINATED" ELSE "EXITED"
    IN  /\ Mem(t).monitor = "drain" /\ OutputDrained(t)
        /\ term' = [term EXCEPT ![t].state = final,
                 ![t].complete = @ /\ Mem(t).drain # "failed",
                 ![t].mem.final = final, ![t].mem.monitor = "registry"]
        /\ OnlyTerm

MonitorComplete(t) ==
    /\ Mem(t).monitor = "registry"
    /\ RegistryComplete(t)
    /\ term' = [term EXCEPT ![t].mem.monitor = "transition"]
    /\ UNCHANGED rest

MonitorTransition(t) ==
    /\ Mem(t).monitor = "transition"
    /\ term' = [term EXCEPT ![t].mem.monitor = "done",
                            ![t].mem.life = Transition(@, Mem(t).final)]
    /\ OnlyTerm

-----------------------------------------------------------------------------
(* terminate, spawn_timeout, cleanup_until and the background cleanup *)

Clean(t, k) == Mem(t).clean[k]

Terminate(t) ==
    /\ t \in sessions /\ ~IsTerminal(Life(t)) /\ Clean(t, "user") = "idle"
    /\ term' = [term EXCEPT ![t].mem = [BeginTermination(@) EXCEPT
                                          !.clean["user"] = "request"]]
    /\ OnlyTerm

TerminateRecord(t) ==
    /\ Clean(t, "user") = "request"
    /\ term' = [term EXCEPT ![t].state = "TERMINATING", ![t].mem.clean["user"] = "begin"]
    /\ OnlyTerm

TimeoutFires(t) ==
    /\ Mem(t).timer
    /\ term' = [term EXCEPT ![t].mem.timer = FALSE, ![t].mem.clean["timer"] = "begin"]
    /\ OnlyTerm

\* What cleanup_until returns; its callers other than start end here.
Returns(m, k, cleaned) ==
    [m EXCEPT !.clean[k] = IF k # "start" THEN "idle"
                           ELSE IF cleaned THEN "true" ELSE "false",
              !.background = @ \/ ~cleaned]

CleanBegin(t, k) ==
    /\ Clean(t, k) = "begin"
    /\ term' = [term EXCEPT ![t].mem =
           IF IsTerminal(@.life) THEN Returns(@, k, TRUE)
           ELSE [BeginTermination(@) EXCEPT !.clean[k] = "mark"]]
    /\ OnlyTerm

\* The row is marked whatever it holds: the monitor may have closed it since.
CleanMark(t, k) ==
    /\ Clean(t, k) = "mark"
    /\ term' = [term EXCEPT ![t].state = "TERMINATING", ![t].mem.clean[k] = "loop"]
    /\ OnlyTerm

CleanSeesEnd(t, k) ==
    /\ Clean(t, k) = "loop" /\ IsTerminal(Life(t))
    /\ term' = [term EXCEPT ![t].mem = Returns(@, k, TRUE)]
    /\ OnlyTerm

CleanDeadline(t, k) ==
    /\ Clean(t, k) = "loop" /\ ~IsTerminal(Life(t))
    /\ term' = [term EXCEPT ![t].mem.life = Transition(@, "UNRECOVERABLE"),
                            ![t].mem.clean[k] = "late"]
    /\ OnlyTerm

CleanLate(t, k) ==
    /\ Clean(t, k) = "late"
    /\ term' = [term EXCEPT ![t].state = "UNRECOVERABLE", ![t].mem = Returns(@, k, FALSE)]
    /\ OnlyTerm

\* cleanup_attempt, by a cleaner or by the background task: podman stop, or
\* podman rm --force, succeeds.  A failed attempt changes nothing.
CleanupAttempt(t) ==
    /\ Mem(t).background \/ \E k \in Cleaners : Clean(t, k) = "loop"
    /\ ~IsTerminal(Life(t)) /\ term[t].child = "running"
    /\ term' = [term EXCEPT ![t].child = "gone"]
    /\ OnlyTerm

-----------------------------------------------------------------------------
(* input *)

\* begin_input: only an input that was never seen is written.
\* Mutant: one whose outcome is not known is written again.
MayWriteAgain(status) == status # "APPLIED"
MayWrite(status) == status = "none"
Input(t, i) ==
    /\ t \in sessions /\ Life(t) = "RUNNING" /\ Mem(t).writer[i] = "idle"
    /\ term[t].tries < MaxTries
    /\ MayWrite(term[t].input[i])
    /\ term' = [term EXCEPT ![t].input[i] = "PENDING", ![t].tries = @ + 1,
                            ![t].mem.writer[i] = "locked"]
    /\ OnlyTerm

\* Under the PTY lock: not running any more, a complete write, or a write that
\* failed or timed out after some or none of the bytes.
InputWrite(t, i) ==
    /\ Mem(t).writer[i] = "locked"
    /\ \/ /\ Life(t) # "RUNNING" \/ ~Mem(t).pty
          /\ term' = [term EXCEPT ![t].input[i] = "UNKNOWN", ![t].mem.writer[i] = "idle"]
       \/ /\ Life(t) = "RUNNING" /\ Mem(t).pty
          /\ term' = [term EXCEPT ![t].written[i] = @ + 1, ![t].mem.writer[i] = "wrote"]
       \/ /\ Life(t) = "RUNNING" /\ Mem(t).pty
          /\ \E n \in {0, 1} :
                term' = [term EXCEPT ![t].written[i] = @ + n, ![t].input[i] = "UNKNOWN",
                                    ![t].mem.writer[i] = "idle"]
    /\ OnlyTerm

\* The request's deadline drops the writer: the row stays PENDING.
InputDropped(t, i) ==
    /\ Mem(t).writer[i] = "locked"
    /\ \E n \in {0, 1} :
          term' = [term EXCEPT ![t].written[i] = @ + n, ![t].mem.writer[i] = "idle"]
    /\ OnlyTerm

InputComplete(t, i) ==
    /\ Mem(t).writer[i] = "wrote"
    /\ \E st \in {IF term[t].input[i] = "PENDING" THEN "APPLIED" ELSE "UNKNOWN", "UNKNOWN"} :
          term' = [term EXCEPT ![t].input[i] = st, ![t].mem.writer[i] = "idle"]
    /\ OnlyTerm

-----------------------------------------------------------------------------
\* reconcile_recoveries on a start of the daemon: reconcile_restart marks what
\* was alive as lost, and every managed container is removed.
RestartDaemon ==
    /\ restarts < MaxRestarts /\ restarts' = restarts + 1
    /\ term' = [t \in Terminals |-> LET r == term[t] IN
          [r EXCEPT !.state = IF @ \in Ended \cup {"none", "LOST"} THEN @ ELSE "LOST",
                    !.complete = @ /\ r.state \in Ended \cup {"none"},
                    !.input = [i \in Inputs |-> IF @[i] = "PENDING" THEN "UNKNOWN" ELSE @[i]],
                    !.child = IF @ = "running" THEN "gone" ELSE @,
                    !.mem = NoSession]]
    /\ sessions' = {} /\ active' = 0 /\ completed' = << >>
    /\ activeIn' = [w \in Workspaces |-> 0] /\ others' = activeIn'

StarterStep(t) ==
    \/ StartReserve(t) \/ StartSpawn(t) \/ StartSpawnFails(t) \/ StartCancelled(t)
    \/ StartReady(t) \/ StartResize(t) \/ StartRunning(t) \/ StartFailed(t) \/ StartCleaned(t)
TaskStep(t) ==
    \/ Append1(t) \/ DrainEnd(t) \/ DrainFails(t) \/ DrainRecord(t)
    \/ MonitorWait(t) \/ MonitorRecord(t) \/ MonitorComplete(t) \/ MonitorTransition(t)
CleanStep(t, k) ==
    CleanBegin(t, k) \/ CleanMark(t, k) \/ CleanSeesEnd(t, k) \/ CleanLate(t, k)

TerminalNext ==
    \/ \E t \in Terminals :
          \/ Start(t) \/ StarterStep(t) \/ StartDropped(t) \/ Produce(t) \/ Exit(t)
          \/ DrainError(t)
          \/ TaskStep(t) \/ Terminate(t) \/ TerminateRecord(t) \/ TimeoutFires(t)
          \/ CleanupAttempt(t)
          \/ \E k \in Cleaners : CleanStep(t, k) \/ CleanDeadline(t, k)
          \/ \E i \in Inputs :
                Input(t, i) \/ InputWrite(t, i) \/ InputDropped(t, i) \/ InputComplete(t, i)
    \/ \E w \in Workspaces : OtherStarts(w) \/ OtherEnds(w)
    \/ RestartDaemon

TerminalSpec == TerminalInit /\ [][TerminalNext]_tvars

-----------------------------------------------------------------------------
TerminalTypeOK ==
    /\ sessions \subseteq Terminals /\ active \in Nat
    /\ activeIn \in [Workspaces -> Nat] /\ completed \in Seq(Terminals \cup {"other"})
    /\ Len(completed) <= MaxRetained
    /\ \A t \in Terminals :
          /\ term[t].state \in {"none", "STARTING", "RUNNING", "TERMINATING",
                               "UNRECOVERABLE"} \cup Settled
          /\ Life(t) \in {"none", "STARTING", "RUNNING", "TERMINATING",
                          "UNRECOVERABLE"} \cup Ended
          /\ term[t].end <= term[t].produced /\ term[t].end <= MaxOutputBytes
          /\ term[t].child \in {"none", "running", "gone"}
          /\ Mem(t).monitor \in {"none", "wait", "drain", "registry", "transition", "done"}

(***************************************************************************)
(* The bytes of an input id reach the process at most once, however often  *)
(* it is sent again after a timeout, a failed write or a restart, and an   *)
(* input that is reported as applied did reach it (begin_input, input).    *)
(***************************************************************************)
InputOnce ==
    \A t \in Terminals, i \in Inputs :
        /\ term[t].written[i] <= 1
        /\ term[t].input[i] = "APPLIED" => term[t].written[i] = 1

(***************************************************************************)
(* A row that says the terminal has ended and its output is complete holds *)
(* every byte the process wrote (the monitor against the drain task, the   *)
(* output limit, failed starts and restarts).                              *)
(***************************************************************************)
CompleteMeansAll ==
    \A t \in Terminals :
        term[t].state \in Ended /\ term[t].complete => term[t].end = term[t].produced

(***************************************************************************)
(* The registry counts exactly the sessions that were reserved and have    *)
(* not ended, so the session limits hold for the processes that run        *)
(* (reserve, complete, cancel_reservation and remove_completed are called  *)
(* by different tasks of one terminal).  It also counts, until the daemon  *)
(* is restarted, the starts that were dropped while they waited to cancel  *)
(* their reservation: these run nothing and never end.                     *)
(***************************************************************************)
Occupies(t) == \/ Mem(t).starter \in {"spawn", "cancel", "leaked"}
               \/ Mem(t).monitor \in {"wait", "drain", "registry"}
Occupied(w) == others[w] + Cardinality({t \in Terminals : Occupies(t) /\ Workspace[t] = w})
RegistryExact ==
    /\ active <= MaxActive
    /\ active = SumFunction([w \in Workspaces |-> Occupied(w)])
    /\ \A w \in Workspaces : activeIn[w] = Occupied(w) /\ activeIn[w] <= MaxActivePerWorkspace
    /\ \A t \in Terminals : term[t].child = "running" => Occupies(t)

(***************************************************************************)
(* A terminal whose row says that it has ended or was lost is never        *)
(* presented as starting or running again, whichever of the starter, the   *)
(* drain task, the cleaners and the monitor writes the row last            *)
(* (set_running: "never resurrect an EXITED/TERMINATED/etc. record").      *)
(***************************************************************************)
NeverRevived ==
    [][\A t \in Terminals : term[t].state \in Settled
                              => term'[t].state \notin {"STARTING", "RUNNING"}]_tvars

(***************************************************************************)
(* Every session ends whose process was spawned: a start that fails, is    *)
(* abandoned by its request or runs out its execution time is stopped in   *)
(* the end, also when podman stop fails until the deadline.  Tasks are     *)
(* polled, the execution timer fires, and a stop that is tried for ever    *)
(* succeeds at last.  One without a process that its start left behind has *)
(* nobody to end it.                                                       *)
(***************************************************************************)
TasksPolled ==
    \A t \in Terminals :
        /\ WF_tvars(StarterStep(t)) /\ WF_tvars(TaskStep(t)) /\ WF_tvars(TimeoutFires(t))
        /\ WF_tvars(TerminateRecord(t)) /\ WF_tvars(CleanupAttempt(t))
        /\ \A k \in Cleaners : WF_tvars(CleanStep(t, k)) /\ WF_tvars(CleanDeadline(t, k))
NothingToEnd(m) == m.monitor = "none" /\ m.starter \in {"none", "leaked"}
TerminalsEnd ==
    TasksPolled =>
        \A t \in Terminals : Life(t) # "none" ~>
            (IsTerminal(Life(t)) \/ Life(t) = "none" \/ NothingToEnd(Mem(t)))
=============================================================================
