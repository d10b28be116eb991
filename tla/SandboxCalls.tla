---------------------------- MODULE SandboxCalls ---------------------------
(***************************************************************************)
(* The server's side of the sandbox: the handlers of sandbox_api.rs and    *)
(* the sandbox tools of a run (run_tools.rs) over sandbox_client.rs.  A    *)
(* call checks its caller, provisions the workspace, sends its operation   *)
(* and, through the API, writes an audit row afterwards.  A send is one    *)
(* connection and one line each way without a retry: the request may be    *)
(* lost, and so may the answer to one that the daemon has carried out.     *)
(* exec is a terminal of its own that the call reads, inspects and ends.   *)
(* A call is dropped when its HTTP client goes away or the tool's time is  *)
(* over.                                                                   *)
(***************************************************************************)
EXTENDS Naturals, FiniteSets
CONSTANTS Calls,           \* calls, each made once
          MaxCommandOutput,   \* bound: what a command prints
          MaxSendFaults,   \* bound: lost messages, refusals, failed statements
          MaxCallDrops         \* bound: calls that are dropped

VARIABLES call,      \* call[c]: where a call is
          applied,   \* calls whose operation the daemon has carried out
          command,   \* command[c]: the terminal an exec has started
          audited,   \* rows of the audit log: call and outcome
          sendFaults, callDrops
scvars == <<call, applied, command, audited, sendFaults, callDrops>>

\* What a handler asks for: the right it needs and whether the daemon changes
\* anything.  Input that does not decode or is too long never gets here.
Op(name, write, changes) == [name |-> name, write |-> write, changes |-> changes]
Exec              == Op("exec", TRUE, TRUE)
ReadFile          == Op("read", FALSE, FALSE)
WriteFile         == Op("write", TRUE, TRUE)
ListFiles         == Op("list", FALSE, FALSE)
StatFile          == Op("stat", FALSE, FALSE)
Mkdir             == Op("mkdir", TRUE, TRUE)
Remove            == Op("remove", TRUE, TRUE)
TerminalStart     == Op("terminal start", TRUE, TRUE)
TerminalWrite     == Op("terminal write", TRUE, TRUE)
TerminalRead      == Op("terminal read", FALSE, FALSE)
TerminalResize    == Op("terminal resize", TRUE, TRUE)
TerminalInterrupt == Op("terminal interrupt", TRUE, TRUE)
TerminalClose     == Op("terminal close", TRUE, TRUE)
Processes         == Op("processes", FALSE, FALSE)
KillProcess       == Op("kill", TRUE, TRUE)
FileOps     == {ReadFile, WriteFile, ListFiles, StatFile, Mkdir, Remove}
TerminalOps == {TerminalStart, TerminalWrite, TerminalRead, TerminalResize, TerminalInterrupt,
                TerminalClose}
ProcessOps  == {Processes, KillProcess}
ApiOps      == {Exec} \cup FileOps \cup TerminalOps \cup ProcessOps
\* execute_sandbox_op offers the same operations to a run, without a check of
\* its own (the run's policy decides) and without an audit row.
ToolOps     == ApiOps

NotCalled == [pc |-> "new", op |-> Exec, api |-> TRUE, ok |-> FALSE, expired |-> FALSE, got |-> 0]
NoCommand == [state |-> "none", out |-> 0, output_complete |-> TRUE]
SandboxCallsInit ==
    /\ call = [c \in Calls |-> NotCalled] /\ applied = {}
    /\ command = [c \in Calls |-> NoCommand] /\ audited = {}
    /\ sendFaults = 0 /\ callDrops = 0
-----------------------------------------------------------------------------
Moves(c, pc) == call' = [call EXCEPT ![c].pc = pc]
Faulty == sendFaults < MaxSendFaults /\ sendFaults' = sendFaults + 1
\* Through the API a call that ends has its row first.
Ends(c, ok) == call' = [call EXCEPT ![c].pc = IF ~call[c].api THEN "answered" ELSE "audit",
                                    ![c].ok = ok]

\* require_user, authorize_sandbox_workspace, the validation of the input.
CallApi(c, op, access) ==
    /\ call[c].pc = "new"
    /\ call' = [call EXCEPT ![c] = [NotCalled EXCEPT !.op = op,
          !.pc = IF access = "EDITOR" \/ (access = "VIEWER" /\ ~op.write) THEN "provision" ELSE "refused"]]
    /\ UNCHANGED <<applied, command, audited, sendFaults, callDrops>>
CallTool(c, op) ==
    /\ call[c].pc = "new"
    /\ call' = [call EXCEPT ![c] = [NotCalled EXCEPT !.op = op, !.api = FALSE, !.pc = "provision"]]
    /\ UNCHANGED <<applied, command, audited, sendFaults, callDrops>>
\* Idempotent at the daemon; without it there is no operation and no row.
Provision(c) ==
    /\ call[c].pc = "provision"
    /\ \/ Moves(c, "send") /\ UNCHANGED sendFaults
       \/ Faulty /\ Moves(c, "refused")
    /\ UNCHANGED <<applied, command, audited, callDrops>>

\* What the daemon does with an operation that reaches it.
Carry(c) ==
    /\ applied' = applied \cup {c}
    /\ command' = IF call[c].op = Exec THEN [command EXCEPT ![c].state = "running"] ELSE command
\* send: carried out and answered; not carried out (connection, refusal of the
\* daemon); or carried out and the answer lost.
Send(c) ==
    /\ call[c].pc = "send"
    /\ \/ /\ Carry(c) /\ UNCHANGED sendFaults
          /\ IF call[c].op = Exec THEN Moves(c, "drain") ELSE Ends(c, TRUE)
       \/ Faulty /\ Ends(c, FALSE) /\ UNCHANGED <<applied, command>>
       \/ Faulty /\ Ends(c, FALSE) /\ Carry(c)
    /\ UNCHANGED <<audited, callDrops>>
-----------------------------------------------------------------------------
\* The command of an exec.  output_complete is true from the first row of the
\* journal on and becomes false when output is dropped.
CommandPrints(c) ==
    /\ command[c].state = "running" /\ command[c].out < MaxCommandOutput
    /\ \E kept \in BOOLEAN :
          command' = [command EXCEPT ![c].output_complete = @ /\ kept,
                ![c].out = IF command[c].output_complete /\ kept THEN @ + 1 ELSE @]
    /\ UNCHANGED <<call, applied, audited, sendFaults, callDrops>>
CommandExits(c) ==
    /\ command[c].state = "running" /\ command' = [command EXCEPT ![c].state = "exited"]
    /\ UNCHANGED <<call, applied, audited, sendFaults, callDrops>>
TimeoutPasses(c) ==
    /\ call[c].pc = "drain" /\ ~call[c].expired
    /\ call' = [call EXCEPT ![c].expired = TRUE]
    /\ UNCHANGED <<applied, command, audited, sendFaults, callDrops>>

\* drain_terminal and sandbox_exec.  A read that fails ends the call without
\* ending the terminal.
DrainRead(c) ==
    /\ call[c].pc = "drain" /\ ~call[c].expired
    /\ \/ /\ call' = [call EXCEPT ![c].got = command[c].out,
                ![c].pc = IF command[c].output_complete \/ command[c].state # "running"
                          THEN "inspect" ELSE "drain"]
          /\ UNCHANGED sendFaults
       \/ Faulty /\ Ends(c, FALSE)
    /\ UNCHANGED <<applied, command, audited, callDrops>>
DrainExpired(c) ==
    /\ call[c].pc = "drain" /\ call[c].expired /\ Moves(c, "inspect")
    /\ UNCHANGED <<applied, command, audited, sendFaults, callDrops>>
\* terminal_inspect and terminal_terminate; what they answer is optional.
TerminateLeft(c) ==
    /\ call[c].pc = "inspect"
    /\ \/ /\ command' = [command EXCEPT ![c].state = IF @ = "running" THEN "terminated" ELSE @]
          /\ UNCHANGED sendFaults
       \/ Faulty /\ UNCHANGED command
    /\ Ends(c, TRUE)
    /\ UNCHANGED <<applied, audited, callDrops>>

AuditOutcome(c) == IF call[c].ok THEN "success" ELSE "failure"
\* run_sandbox_op: the row in a transaction of its own, then the answer; when
\* it fails the caller gets an error for an operation that was carried out.
Audit(c) ==
    /\ call[c].pc = "audit"
    /\ \/ /\ audited' = audited \cup {[c |-> c, outcome |-> AuditOutcome(c)]}
          /\ Moves(c, "answered") /\ UNCHANGED sendFaults
       \/ /\ Faulty /\ call' = [call EXCEPT ![c].pc = "answered", ![c].ok = FALSE]
          /\ UNCHANGED audited
    /\ UNCHANGED <<applied, command, callDrops>>

\* The future is dropped where it waits; a request under way may still arrive.
DropCall(c) ==
    /\ callDrops < MaxCallDrops /\ callDrops' = callDrops + 1
    /\ call[c].pc \in {"provision", "send", "drain", "inspect", "audit"}
    /\ \/ UNCHANGED <<applied, command>>
       \/ call[c].pc = "send" /\ Carry(c)
       \/ /\ call[c].pc = "inspect" /\ command[c].state = "running" /\ UNCHANGED applied
          /\ command' = [command EXCEPT ![c].state = "terminated"]
    /\ Moves(c, "dropped")
    /\ UNCHANGED <<audited, sendFaults>>
\* The daemon ends every terminal at its deadline.
DaemonDeadline(c) ==
    /\ command[c].state = "running" /\ call[c].pc \in {"dropped", "answered", "audit"}
    /\ command' = [command EXCEPT ![c].state = "terminated"]
    /\ UNCHANGED <<call, applied, audited, sendFaults, callDrops>>

SandboxCallsNext ==
    \E c \in Calls :
        \/ \E op \in ApiOps, a \in {"EDITOR", "VIEWER", "none"} : CallApi(c, op, a)
        \/ \E op \in ToolOps : CallTool(c, op)
        \/ Provision(c) \/ Send(c) \/ DrainRead(c) \/ DrainExpired(c) \/ TerminateLeft(c) \/ Audit(c)
        \/ CommandPrints(c) \/ CommandExits(c) \/ TimeoutPasses(c) \/ DropCall(c) \/ DaemonDeadline(c)
SandboxCallsSpec == SandboxCallsInit /\ [][SandboxCallsNext]_scvars
-----------------------------------------------------------------------------
SandboxCallsTypeOK ==
    /\ \A c \in Calls :
          /\ call[c].pc \in {"new", "refused", "provision", "send", "drain", "inspect", "audit",
                             "answered", "dropped"}
          /\ command[c].state \in {"none", "running", "exited", "terminated"}
    /\ applied \subseteq Calls
(***************************************************************************)
(* What the log and the answers say of the sandbox is true, although       *)
(* requests and answers are lost and calls dropped: success, to a caller   *)
(* or in the log, is an operation the daemon carried out; an API caller is *)
(* told success only with a row that says so; a change without such a row  *)
(* needs a fault, a drop or a run; and a command that outlives its exec    *)
(* needs one too.                                                          *)
(***************************************************************************)
SandboxLogTrue ==
    /\ \A row \in audited : row.outcome = "success" => row.c \in applied
    /\ \A c \in Calls :
          LET rows == {r.outcome : r \in {q \in audited : q.c = c}} IN
          /\ call[c].pc = "answered" /\ call[c].ok =>
                c \in applied /\ (call[c].api => rows = {"success"})
          /\ c \in applied /\ call[c].op.changes /\ call[c].api /\ call[c].pc \in {"answered", "dropped"} =>
                "success" \in rows \/ sendFaults > 0 \/ callDrops > 0
          /\ call[c].pc = "answered" /\ command[c].state = "running" => sendFaults > 0
=============================================================================
