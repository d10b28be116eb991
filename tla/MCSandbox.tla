----------------------------- MODULE MCSandbox -----------------------------
(***************************************************************************)
(* The sandbox daemon and its callers, for TLC.  The modules are about     *)
(* different state of the daemon: a behaviour follows one of them, chosen  *)
(* at the start, because the product of all would only multiply states     *)
(* that do not influence each other.                                       *)
(***************************************************************************)
EXTENDS SandboxRequests, SandboxTerminal, SandboxWorkspace, SandboxFiles,
        TerminalOutput, SandboxCalls, WebTerminal

OneWorkspace == [t \in Terminals |-> "w"]

VARIABLE part

partVars == <<part, rvars, tvars, wvars, fvars, ovars, scvars, ttyvars>>

Init ==
  /\ part \in {"requests", "terminal", "workspace", "files", "output", "calls",
               "page"}
  /\ RequestsInit /\ TerminalInit /\ WorkspaceInit /\ FilesInit /\ OutputInit
  /\ SandboxCallsInit /\ WebTerminalInit
  /\ part # "files" => dirent = [n \in FileNames |-> NoNode]
  /\ part # "workspace" => cont = [c \in Containers |-> "absent"]

Next ==
  /\ UNCHANGED part
  /\ \/ part = "requests" /\ RequestsNext /\ UNCHANGED <<tvars, wvars, fvars, ovars, scvars, ttyvars>>
     \/ part = "terminal" /\ TerminalNext /\ UNCHANGED <<rvars, wvars, fvars, ovars, scvars, ttyvars>>
     \/ part = "workspace" /\ WorkspaceNext /\ UNCHANGED <<rvars, tvars, fvars, ovars, scvars, ttyvars>>
     \/ part = "files" /\ FilesNext /\ UNCHANGED <<rvars, tvars, wvars, ovars, scvars, ttyvars>>
     \/ part = "output" /\ OutputNext /\ UNCHANGED <<rvars, tvars, wvars, fvars, scvars, ttyvars>>
     \/ part = "calls" /\ SandboxCallsNext /\ UNCHANGED <<rvars, tvars, wvars, fvars, ovars, ttyvars>>
     \/ part = "page" /\ WebTerminalNext /\ UNCHANGED <<rvars, tvars, wvars, fvars, ovars, scvars>>

Spec == Init /\ [][Next]_partVars

\* The rows, sessions, locks and tables of every module have their shapes.
SandboxTypeOK ==
  /\ RequestsTypeOK /\ TerminalTypeOK /\ WorkspaceTypeOK /\ FilesTypeOK
  /\ OutputTypeOK /\ SandboxCallsTypeOK

\* A request is carried out once (AtMostOnce) and its copies are told one
\* outcome (StableAnswers).
OncePerRequest == AtMostOnce /\ StableAnswers

\* What is recorded of a terminal is what happened: its input (InputOnce), its
\* output (CompleteMeansAll), what its readers were given of it
\* (OutputIsStream), the sessions that count (RegistryExact), the audit row
\* and answer of a call through the API (SandboxLogTrue), and the page that
\* follows it in the browser (TerminalPageTrue).
TerminalRecordsTrue ==
  /\ InputOnce /\ CompleteMeansAll /\ OutputIsStream /\ RegistryExact
  /\ SandboxLogTrue /\ TerminalPageTrue

\* A patch replaces only the text it was made for (PatchConditional), and the
\* containers it pauses can be found again (PausedIsRecorded).
PatchesRecoverable == PatchConditional /\ PausedIsRecorded
=============================================================================
