----------------------------- MODULE MCProgress -----------------------------
(***************************************************************************)
(* Loops and tasks that must come to an end, for TLC: the delivery of run  *)
(* events, the webhook scheduler, the daemon's request handlers and its    *)
(* terminals.  They share no state: a behaviour follows one of them, which *)
(* is chosen at the start.                                                 *)
(***************************************************************************)
EXTENDS EventLog, WebhookDelivery, SandboxRequests, SandboxTerminal, TLC

VARIABLE part

\* Two transactions of one run, the second of which ends it, followed over a
\* socket and by polling
OneRun == [w \in Writers |-> "r1"]
OneProfile == [r \in Runs |-> "p1"]
RunOfAll == [k \in Clients |-> "r1"]
OneWorkspace == [t \in Terminals |-> "w"]

PartInit ==
  /\ part \in {"events", "webhooks", "requests", "terminal"}
  /\ Init /\ WebhookInit /\ RequestsInit /\ TerminalInit

PartNext ==
  /\ UNCHANGED part
  /\ \/ part = "events" /\ Next /\ UNCHANGED <<whvars, rvars, tvars>>
     \/ part = "webhooks" /\ WebhookNext /\ UNCHANGED <<vars, rvars, tvars>>
     \/ part = "requests" /\ RequestsNext /\ UNCHANGED <<vars, whvars, tvars>>
     \/ part = "terminal" /\ TerminalNext /\ UNCHANGED <<vars, whvars, rvars>>

PartSpec == PartInit /\ [][PartNext]_<<part, vars, whvars, rvars, tvars>>
=============================================================================
