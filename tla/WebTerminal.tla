---------------------------- MODULE WebTerminal ----------------------------
(***************************************************************************)
(* The terminals page of the web application (app.rs, TerminalsPage): it   *)
(* starts a terminal, reads its output in a loop, sends lines, resizes,    *)
(* interrupts and closes it, and offers to close a terminal of an earlier  *)
(* visit and to start a fresh one.  Every click spawns a task that waits   *)
(* for the server while the user goes on.  A start and the loop that       *)
(* follows it stop when a later start or close has moved the generation    *)
(* on; the tasks of the other buttons look at nothing when they go on.     *)
(*                                                                         *)
(* The server and its sandbox are external; SandboxCalls, SandboxTerminal  *)
(* and TerminalOutput model them.  Bytes of output are numbered, and what  *)
(* is printed is text in UTF-8 whose characters have one or two bytes.     *)
(* The file pane beside the terminal is left out.                          *)
(***************************************************************************)
EXTENDS Naturals, Sequences, FiniteSets
CONSTANTS MaxTerminals,   \* bound: terminals that are started
          MaxPrinted,     \* bound: bytes a terminal prints
          ReadLimit,      \* TERMINAL_MAX_READ_BYTES
          TwoByte,        \* the bytes of output that begin a character of two
          MaxTtyClicks,   \* bound: what the user does
          MaxVisits,      \* bound: visits to the page and reloads
          MaxTtyFaults    \* bound: requests or answers that are lost or refused

ASSUME PageAssumption ==
    /\ MaxTerminals \in Nat /\ ReadLimit \in Nat
    /\ TwoByte \subseteq Nat \ {0} /\ \A n \in TwoByte : n + 1 \notin TwoByte

VARIABLES tty,        \* the signals of the mounted page
          saved,      \* OPEN_TERMINAL_KEY of the session storage: a terminal, or 0
          ttyTasks,   \* the tasks of this tab
          remote,     \* remote[t]: terminal t of the server
          mixed,    \* history: a task of an earlier terminal touched a later one
          lost,       \* history: terminals whose loop gave up (401, 403, 404)
          ttyClicks, visits, ttyFaults
ttyvars == <<tty, saved, ttyTasks, remote, mixed, lost, ttyClicks, visits, ttyFaults>>
ttyBudget == <<ttyClicks, visits, ttyFaults>>

TerminalIds == 1 .. MaxTerminals
\* A page that has just been mounted; load_open_terminal fills the banner.
FreshPage(life) ==
    [life |-> life, mounted |-> TRUE, generation |-> 0, session |-> 0, output |-> <<>>, cursor |-> 0,
     ended |-> FALSE, starting |-> FALSE, sending |-> FALSE, busy |-> FALSE, target |-> saved]

WebTerminalInit ==
    /\ saved = 0 /\ ttyTasks = {} /\ tty = FreshPage(1)
    /\ remote = [t \in TerminalIds |-> [state |-> "none", out |-> 0]]
    /\ mixed = FALSE /\ lost = {}
    /\ ttyClicks = 0 /\ visits = 1 /\ ttyFaults = 0

TtyClick == tty.mounted /\ ttyClicks < MaxTtyClicks /\ ttyClicks' = ttyClicks + 1
            /\ UNCHANGED <<visits, ttyFaults>>
TtyFault == ttyFaults < MaxTtyFaults /\ ttyFaults' = ttyFaults + 1 /\ UNCHANGED <<ttyClicks, visits>>

\* t: the terminal a task is about; after: the cursor its read asks from.
TtyTask(kind, gen, t) == [kind |-> kind, life |-> tty.life, gen |-> gen, t |-> t, after |-> 0]
OnPage(k) == tty.mounted /\ k.life = tty.life
TaskEnds(k) == ttyTasks' = ttyTasks \ {k}
-----------------------------------------------------------------------------
\* The page is left: its loops stop, its other tasks go on and write signals
\* that nobody shows, and the session storage of the tab.
LeavePage ==
    /\ TtyClick
    /\ tty' = [tty EXCEPT !.mounted = FALSE]
    /\ UNCHANGED <<saved, ttyTasks, remote, mixed, lost>>
VisitPage ==
    /\ ~tty.mounted /\ visits < MaxVisits /\ visits' = visits + 1
    /\ tty' = FreshPage(tty.life + 1)
    /\ UNCHANGED <<saved, ttyTasks, remote, mixed, lost, ttyClicks, ttyFaults>>
ReloadTab ==
    /\ visits < MaxVisits /\ visits' = visits + 1
    /\ tty' = FreshPage(tty.life + 1) /\ ttyTasks' = {}
    /\ UNCHANGED <<saved, remote, mixed, lost, ttyClicks, ttyFaults>>
-----------------------------------------------------------------------------
(***************************************************************************)
(* start_terminal, called by the form and at the end of a reconnection     *)
(***************************************************************************)
Starting(p) == [p EXCEPT !.starting = TRUE, !.generation = @ + 1]
SubmitStart ==
    /\ tty.session = 0 /\ ~tty.starting /\ TtyClick
    /\ tty' = Starting(tty)
    /\ ttyTasks' = ttyTasks \cup {TtyTask("start", tty'.generation, 0)}
    /\ UNCHANGED <<saved, remote, mixed, lost>>

\* The banner, until a terminal is open: the old one is closed first, with
\* whatever result, and nothing keeps the button from being clicked again.
ClickReconnect ==
    /\ tty.target # 0 /\ tty.session = 0 /\ TtyClick
    /\ ttyTasks' = ttyTasks \cup {[TtyTask("reconnect", 0, tty.target) EXCEPT !.after = ttyClicks']}
    /\ UNCHANGED <<tty, saved, remote, mixed, lost>>
Dismiss ==
    /\ tty.target # 0 /\ tty.session = 0 /\ TtyClick
    /\ tty' = [tty EXCEPT !.target = 0]
    /\ UNCHANGED <<saved, ttyTasks, remote, mixed, lost>>

Terminated(t) == [remote EXCEPT ![t].state = IF @ = "running" THEN "ended" ELSE @]
ReconnectClosed(k) ==
    /\ k.kind = "reconnect"
    /\ \/ remote' = Terminated(k.t) /\ UNCHANGED ttyBudget
       \/ TtyFault /\ remote' \in {remote, Terminated(k.t)}
    /\ tty' = IF OnPage(k) THEN Starting(tty) ELSE tty
    /\ mixed' = (mixed \/ (OnPage(k) /\ tty.session # 0))
    /\ ttyTasks' = (ttyTasks \ {k}) \cup {[TtyTask("start", tty'.generation, 0) EXCEPT !.life = k.life]}
    /\ UNCHANGED <<saved, lost>>

NextTerminal == CHOOSE t \in TerminalIds : remote[t].state = "none" /\ \A u \in 1 .. t - 1 : remote[u].state # "none"
CanStart == \E t \in TerminalIds : remote[t].state = "none"
Created == [remote EXCEPT ![NextTerminal] = [state |-> "running", out |-> 0]]
StartIsCurrent(k) == OnPage(k) /\ k.gen = tty.generation

Opened(p, t) ==
    [p EXCEPT !.target = 0, !.session = t, !.output = <<>>, !.cursor = 0, !.ended = FALSE, !.starting = FALSE]
\* A start that is no longer current is dropped with the terminal it made.
StartAnswered(k) ==
    /\ k.kind = "start" /\ CanStart /\ remote' = Created
    /\ IF StartIsCurrent(k)
       THEN /\ saved' = NextTerminal /\ tty' = Opened(tty, NextTerminal)
            /\ ttyTasks' = (ttyTasks \ {k}) \cup {[k EXCEPT !.kind = "loop", !.t = NextTerminal]}
       ELSE TaskEnds(k) /\ UNCHANGED <<saved, tty>>
    /\ UNCHANGED <<mixed, lost, ttyBudget>>
StartRefused(k) ==
    /\ k.kind = "start" /\ TtyFault
    /\ \/ UNCHANGED remote
       \/ CanStart /\ remote' = Created
    /\ tty' = IF StartIsCurrent(k) THEN [tty EXCEPT !.starting = FALSE] ELSE tty
    /\ TaskEnds(k) /\ UNCHANGED <<saved, mixed, lost>>
-----------------------------------------------------------------------------
(***************************************************************************)
(* The loop                                                                *)
(***************************************************************************)
Poll(k) ==
    /\ k.kind = "loop"
    /\ ttyTasks' = (ttyTasks \ {k}) \cup
          IF StartIsCurrent(k) /\ tty.session = k.t THEN {[k EXCEPT !.kind = "read", !.after = tty.cursor]} ELSE {}
    /\ UNCHANGED <<tty, saved, remote, mixed, lost, ttyBudget>>

\* base64_decode_utf8, of one read at a time: a byte whose character another
\* read has the rest of becomes U+FFFD.  The base64 itself is the server's and
\* always decodes.
Garbled == <<0, 0>>
Torn(n, after, upto) == (n = upto /\ n \in TwoByte) \/ (n = after + 1 /\ after \in TwoByte)
Decoded(t, after, upto) ==
    [i \in 1 .. upto - after |-> IF Torn(after + i, after, upto) THEN Garbled ELSE <<t, after + i>>]
\* The answer is of any moment since the request.  The page is not looked at
\* again: whatever it shows by now is what the answer is written to.
ReadAnswered(k) ==
    /\ k.kind = "read"
    /\ \E upto \in k.after .. k.after + ReadLimit, over \in BOOLEAN :
          /\ upto <= remote[k.t].out
          /\ over => remote[k.t].state = "ended"
          /\ tty' = IF OnPage(k)
                    THEN [tty EXCEPT !.output = @ \o Decoded(k.t, k.after, upto), !.cursor = upto, !.ended = over]
                    ELSE tty
          /\ ttyTasks' = (ttyTasks \ {k}) \cup IF over THEN {} ELSE {[k EXCEPT !.kind = "loop", !.after = 0]}
    /\ mixed' = (mixed \/ (OnPage(k) /\ ~(StartIsCurrent(k) /\ tty.session = k.t)))
    /\ UNCHANGED <<saved, remote, lost, ttyBudget>>
\* No answer or another error: the next round.  Access lost: the end.
ReadFailed(k) ==
    /\ k.kind = "read" /\ TtyFault
    /\ \/ ttyTasks' = (ttyTasks \ {k}) \cup {[k EXCEPT !.kind = "loop", !.after = 0]} /\ UNCHANGED lost
       \/ TaskEnds(k) /\ lost' = lost \cup {k.t}
    /\ UNCHANGED <<tty, saved, remote, mixed>>
-----------------------------------------------------------------------------
(***************************************************************************)
(* The buttons of an open terminal                                         *)
(***************************************************************************)
SendLine ==
    /\ tty.session # 0 /\ ~tty.sending /\ TtyClick
    /\ tty' = [tty EXCEPT !.sending = TRUE]
    /\ ttyTasks' = ttyTasks \cup {TtyTask("write", 0, tty.session)}
    /\ UNCHANGED <<saved, remote, mixed, lost>>
\* apply_resize and interrupt
ResizeOrInterrupt ==
    /\ tty.session # 0 /\ ~tty.busy /\ TtyClick
    /\ tty' = [tty EXCEPT !.busy = TRUE]
    /\ ttyTasks' = ttyTasks \cup {TtyTask("control", 0, tty.session)}
    /\ UNCHANGED <<saved, remote, mixed, lost>>
LineAnswered(k) ==
    /\ k.kind = "write"
    /\ tty' = IF OnPage(k) THEN [tty EXCEPT !.sending = FALSE] ELSE tty
    /\ TaskEnds(k) /\ UNCHANGED <<saved, remote, mixed, lost, ttyBudget>>
ControlAnswered(k) ==
    /\ k.kind = "control"
    /\ tty' = IF OnPage(k) THEN [tty EXCEPT !.busy = FALSE] ELSE tty
    /\ TaskEnds(k) /\ UNCHANGED <<saved, remote, mixed, lost, ttyBudget>>

CloseTerminal ==
    /\ tty.session # 0 /\ ~tty.busy /\ TtyClick
    /\ tty' = [tty EXCEPT !.busy = TRUE]
    /\ ttyTasks' = ttyTasks \cup {TtyTask("close", 0, tty.session)}
    /\ UNCHANGED <<saved, remote, mixed, lost>>
ClosedPage(p) == [p EXCEPT !.generation = @ + 1, !.session = 0, !.output = <<>>, !.busy = FALSE]
CloseAnswered(k) ==
    /\ k.kind = "close" /\ remote' = Terminated(k.t)
    /\ saved' = 0
    /\ tty' = IF OnPage(k) THEN ClosedPage(tty) ELSE tty
    /\ mixed' = (mixed \/ (tty.session # 0 /\ tty.session # k.t))
    /\ TaskEnds(k) /\ UNCHANGED <<lost, ttyBudget>>
CloseFailed(k) ==
    /\ k.kind = "close" /\ TtyFault /\ remote' \in {remote, Terminated(k.t)}
    /\ tty' = IF OnPage(k) THEN [tty EXCEPT !.busy = FALSE] ELSE tty
    /\ TaskEnds(k) /\ UNCHANGED <<saved, mixed, lost>>
-----------------------------------------------------------------------------
(* What runs in the sandbox *)
ShellPrints(t) ==
    /\ remote[t].state = "running" /\ remote[t].out < MaxPrinted
    /\ remote' = [remote EXCEPT ![t].out = @ + 1]
    /\ UNCHANGED <<tty, saved, ttyTasks, mixed, lost, ttyBudget>>
ShellExits(t) ==
    /\ remote[t].state = "running" /\ remote' = Terminated(t)
    /\ UNCHANGED <<tty, saved, ttyTasks, mixed, lost, ttyBudget>>

WebTerminalNext ==
    \/ LeavePage \/ VisitPage \/ ReloadTab \/ SubmitStart \/ ClickReconnect \/ Dismiss
    \/ SendLine \/ ResizeOrInterrupt \/ CloseTerminal
    \/ \E t \in TerminalIds : ShellPrints(t) \/ ShellExits(t)
    \/ \E k \in ttyTasks : \/ ReconnectClosed(k) \/ StartAnswered(k) \/ StartRefused(k)
                           \/ Poll(k) \/ ReadAnswered(k) \/ ReadFailed(k)
                           \/ LineAnswered(k) \/ ControlAnswered(k) \/ CloseAnswered(k) \/ CloseFailed(k)
WebTerminalSpec == WebTerminalInit /\ [][WebTerminalNext]_ttyvars
-----------------------------------------------------------------------------
(***************************************************************************)
(* As long as no task of an earlier terminal has touched a later one, the  *)
(* page and its terminal agree: what is on the screen is the beginning of  *)
(* that terminal's output, up to the cursor of the next read and without a *)
(* gap or a repetition, but for characters whose two bytes two reads have  *)
(* brought, and these are marks of both; one loop reads it until it has    *)
(* ended or access was lost; the tab's storage names it, so that a later   *)
(* visit can close it; and a button is disabled only while one task is at  *)
(* work that will enable it again.                                         *)
(***************************************************************************)
Shown(output, t, upto) ==
    /\ Len(output) = upto
    /\ \A n \in 1 .. upto :
          /\ output[n] = <<t, n>> \/ (output[n] = Garbled /\ (n \in TwoByte \/ n - 1 \in TwoByte))
          /\ n \in TwoByte => (output[n] = Garbled <=> (n = upto \/ output[n + 1] = Garbled))
TerminalPageTrue ==
    tty.mounted /\ ~mixed =>
        LET working(kinds) == Cardinality({k \in ttyTasks : k.kind \in kinds /\ OnPage(k)})
            loops == {k \in ttyTasks : k.kind \in {"loop", "read"} /\ StartIsCurrent(k) /\ k.t = tty.session}
            flag(b) == IF b THEN 1 ELSE 0
        IN /\ tty.session # 0 =>
                /\ Shown(tty.output, tty.session, tty.cursor)
                /\ tty.cursor <= remote[tty.session].out
                /\ saved = tty.session
                /\ Cardinality(loops) = flag(~tty.ended /\ tty.session \notin lost)
           /\ Cardinality({k \in ttyTasks : k.kind = "start" /\ StartIsCurrent(k)}) = flag(tty.starting)
           /\ working({"write"}) = flag(tty.sending)
           /\ working({"control", "close"}) = flag(tty.busy)
=============================================================================
