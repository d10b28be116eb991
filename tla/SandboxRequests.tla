-------------------------- MODULE SandboxRequests --------------------------
(***************************************************************************)
(* The request path of the sandbox daemon: the connections it serves, the  *)
(* bounded replay cache in memory and the mutation journal on disk, which  *)
(* together keep a retried request from being executed twice.              *)
(*                                                                         *)
(* A line names a request id and an operation; the operation stands for    *)
(* its SHA-256 fingerprint.  An operation is of one of three classes       *)
(* (terminal_mutation and is_non_idempotent of daemon.rs): Durable ones go *)
(* through the replay cache and the journal, Volatile ones through the     *)
(* replay cache alone, and the others are executed whenever they arrive.   *)
(*                                                                         *)
(* One action is one critical section: a call on the cache's mutex, a      *)
(* transaction of the journal, or the stretch between two of them.         *)
(***************************************************************************)
EXTENDS Naturals, Sequences, FiniteSets

CONSTANTS Conns,        \* connection permits, max_connections
          Ids,          \* request ids the clients use
          Durable,      \* terminal mutations
          Volatile,     \* the other non-idempotent operations
          Idempotent,   \* the rest
          Capacity,     \* replay_capacity
          MaxLines,     \* bound: lines received
          MaxCrashes,   \* bound: times the daemon goes down
          MaxJournalFaults     \* bound: journal failures and panics

ASSUME CapacityAssumption == Capacity \in Nat \ {0}
ASSUME ClassAssumption ==
    /\ Durable \cap Volatile = {}
    /\ (Durable \cup Volatile) \cap Idempotent = {}

VARIABLES
    mode,      \* "serving", "draining" (shutdown seen) or "down"
    conn,      \* the task behind each permit
    replay,    \* ReplayInner.entries
    order,     \* ReplayInner.order
    mutation,  \* the protocol_mutations table
    executed,  \* history: dispatches of a durable operation, by request id
    told,   \* history: <<id, operation, outcome>> told to a client
    lines, crashes, faults

rvars == <<mode, conn, replay, order, mutation, executed, told,
          lines, crashes, faults>>
budget == <<lines, crashes, faults>>
cache  == <<replay, order>>

NonIdempotent == Durable \cup Volatile
Operations    == NonIdempotent \cup Idempotent
Results       == {"ok", "failed", "timeout"}
DispatchOutcomes      == Results \cup {"unknown"}
Responses     == DispatchOutcomes \cup {"journal", "conflict", "limit"}

Closed  == [pc |-> "closed", id |-> "none", op |-> "none", resp |-> "none",
            note |-> "none", woken |-> FALSE]
Reading == [Closed EXCEPT !.pc = "reading"]
NoEntry == [status |-> "none", op |-> "none", resp |-> "none"]

RequestsInit ==
    /\ mode = "serving"
    /\ conn = [c \in Conns |-> Closed]
    /\ replay = [i \in Ids |-> NoEntry]
    /\ order = << >>
    /\ mutation = [i \in Ids |-> NoEntry]
    /\ executed = [i \in Ids |-> 0]
    /\ told = {}
    /\ lines = 0 /\ crashes = 0 /\ faults = 0

-----------------------------------------------------------------------------
At(c, p)    == conn[c].pc = p
Goto(c, p)  == conn' = [conn EXCEPT ![c].pc = p]

\* handle_connection writes the response; a timed out operation closes it.
Written(c, r) ==
    told \cup (IF conn[c].op \in Durable /\ r \in DispatchOutcomes
                  THEN {<<conn[c].id, conn[c].op, r>>} ELSE {})
AfterWrite(r) == IF r = "timeout" THEN Closed ELSE Reading
Answer(c, r) ==
    /\ conn' = [conn EXCEPT ![c] = AfterWrite(r)]
    /\ told' = Written(c, r)

\* ReplayCache::begin.  The decision it returns ...
Cached    == {i \in Ids : replay[i].status # "none"}
Evictable == {n \in DOMAIN order : replay[order[n]].status = "complete"}

Decision(i, o) ==
    CASE replay[i].status # "none" /\ replay[i].op # o -> "conflict"
      [] replay[i].status = "pending" /\ replay[i].op = o -> "wait"
      [] replay[i].status = "complete" /\ replay[i].op = o -> "cached"
      [] OTHER -> IF Cardinality(Cached) = Capacity /\ Evictable = {}
                  THEN "full" ELSE "execute"

\* ... and, when that is "execute", the entry it inserts, at capacity in the
\* place of the oldest complete one.
\* Mutant: nothing makes room for it.
InsertBeyond(i, o) ==
    /\ replay' = [replay EXCEPT ![i] = [status |-> "pending", op |-> o, resp |-> "none"]]
    /\ order' = Append(order, i)
InsertEntry(i, o) ==
    LET full   == Cardinality(Cached) = Capacity
        victim == CHOOSE n \in Evictable : \A m \in Evictable : n <= m
        kept   == [n \in 1 .. Len(order) - 1 |->
                      IF n < victim THEN order[n] ELSE order[n + 1]]
        freed  == IF full THEN [replay EXCEPT ![order[victim]] = NoEntry]
                  ELSE replay
    IN  /\ replay' = [freed EXCEPT ![i] =
                          [status |-> "pending", op |-> o, resp |-> "none"]]
        /\ order' = Append(IF full THEN kept ELSE order, i)

\* ReplayCache::complete, with notify_waiters: a waiter that has registered
\* is woken, one that has only been handed the Notify holds a spent one.
Waiter(c, i) == conn[c].id = i /\ conn[c].pc \in {"register", "recheck", "await"}
Woken(c) ==
    IF At(c, "register") THEN [conn[c] EXCEPT !.note = "spent"]
    ELSE IF conn[c].note = "live" THEN [conn[c] EXCEPT !.woken = TRUE]
    ELSE conn[c]

Publish(i, o, r) ==
    IF replay[i].status = "pending" /\ replay[i].op = o
    THEN [replay EXCEPT ![i].status = "complete", ![i].resp = r]
    ELSE replay
\* Mutant: the entry is completed and nobody is notified.
WakeNobody(i, o) == conn

Wake(i, o) ==
    [c \in Conns |-> IF Waiter(c, i) /\ replay[i].status = "pending" /\ replay[i].op = o
                     THEN Woken(c) ELSE conn[c]]

-----------------------------------------------------------------------------
(* serve_until and handle_connection *)

Accept(c) ==
    /\ mode = "serving" /\ At(c, "closed")
    /\ lines < MaxLines
    /\ conn' = [conn EXCEPT ![c] = Reading]
    /\ UNCHANGED <<mode, cache, mutation, executed, told, budget>>

\* End of file, a deadline, an over-long line, or a line that is malformed or
\* not authenticated: the connection is closed and nothing else happens.
Hangup(c) ==
    /\ At(c, "reading")
    /\ conn' = [conn EXCEPT ![c] = Closed]
    /\ UNCHANGED <<mode, cache, mutation, executed, told, budget>>

ReadLine(c, i, o) ==
    /\ At(c, "reading") /\ lines < MaxLines
    /\ conn' = [conn EXCEPT ![c] = [Reading EXCEPT
                    !.pc = IF o \in NonIdempotent THEN "begin" ELSE "dispatch",
                    !.id = i, !.op = o]]
    /\ lines' = lines + 1
    /\ UNCHANGED <<mode, cache, mutation, executed, told, crashes, faults>>

\* SIGTERM: the listener is dropped; open connections go on reading lines.
Shutdown ==
    /\ mode = "serving" /\ crashes < MaxCrashes
    /\ mode' = "draining"
    /\ UNCHANGED <<conn, cache, mutation, executed, told, budget>>

\* All permits are back: the runtime is shut down and the process exits.
Drained ==
    /\ mode = "draining" /\ \A c \in Conns : At(c, "closed")
    /\ mode' = "down" /\ crashes' = crashes + 1
    /\ replay' = [i \in Ids |-> NoEntry] /\ order' = << >>
    /\ UNCHANGED <<conn, mutation, executed, told, lines, faults>>

\* The process dies: its memory and its connections go, the journal stays.
Crash ==
    /\ mode # "down" /\ crashes < MaxCrashes
    /\ mode' = "down" /\ crashes' = crashes + 1
    /\ conn' = [c \in Conns |-> Closed]
    /\ replay' = [i \in Ids |-> NoEntry] /\ order' = << >>
    /\ UNCHANGED <<mutation, executed, told, lines, faults>>

Restart ==
    /\ mode = "down"
    /\ mode' = "serving"
    /\ UNCHANGED <<conn, cache, mutation, executed, told, budget>>

-----------------------------------------------------------------------------
(* handle_line *)

Begin(c) ==
    LET i == conn[c].id
        o == conn[c].op
        d == Decision(i, o)
    IN  /\ At(c, "begin")
        /\ \/ /\ d \in {"conflict", "full", "cached"}
              /\ Answer(c, CASE d = "conflict" -> "conflict"
                             [] d = "full"     -> "limit"
                             [] d = "cached"   -> replay[i].resp)
              /\ UNCHANGED cache
           \/ /\ d = "wait"
              /\ conn' = [conn EXCEPT ![c].pc = "register", ![c].note = "live",
                                      ![c].woken = FALSE]
              /\ UNCHANGED <<cache, told>>
           \/ /\ d = "execute"
              /\ InsertEntry(i, o)
              /\ Goto(c, IF o \in Durable THEN "journal" ELSE "dispatch")
              /\ UNCHANGED told
        /\ UNCHANGED <<mode, mutation, executed, budget>>

\* notify.notified() and enable().
Register(c) ==
    /\ At(c, "register")
    /\ Goto(c, "recheck")
    /\ UNCHANGED <<mode, cache, mutation, executed, told, budget>>

\* The second begin: only its Wait is looked at.  An Execute it returns is
\* thrown away, and the pending entry it has inserted has no owner.
Recheck(c) ==
    LET i == conn[c].id
        o == conn[c].op
    IN  /\ At(c, "recheck")
        /\ IF Decision(i, o) = "wait" THEN Goto(c, "await") ELSE Goto(c, "begin")
        /\ IF Decision(i, o) = "execute" THEN InsertEntry(i, o) ELSE UNCHANGED cache
        /\ UNCHANGED <<mode, mutation, executed, told, budget>>

Await(c) ==
    /\ At(c, "await") /\ conn[c].woken
    /\ Goto(c, "begin")
    /\ UNCHANGED <<mode, cache, mutation, executed, told, budget>>

\* What TerminalJournal::begin_mutation decides for a stored row.
\* Mutant: a row that is still PENDING after a restart is executed again.
MutationDecisionRetry(m, o) ==
    IF m.status \in {"none", "PENDING"} THEN "execute"
    ELSE IF m.op # o THEN "conflict" ELSE m.resp

MutationDecision(m, o) ==
    IF m.status = "none" THEN "execute"
    ELSE IF m.op # o THEN "conflict"
    ELSE IF m.status = "COMPLETE" THEN m.resp ELSE "unknown"

BeginMutation(c) ==
    LET i == conn[c].id
        o == conn[c].op
        d == MutationDecision(mutation[i], o)
    IN  /\ At(c, "journal")
        /\ \/ /\ d = "execute"
              /\ mutation' = [mutation EXCEPT ![i] =
                                 [status |-> "PENDING", op |-> o, resp |-> "none"]]
              /\ Goto(c, "dispatch")
              /\ UNCHANGED faults
           \/ /\ d # "execute"
              /\ conn' = [conn EXCEPT ![c].pc = "complete", ![c].resp = d]
              /\ UNCHANGED <<mutation, faults>>
           \/ /\ faults < MaxJournalFaults /\ faults' = faults + 1
              /\ conn' = [conn EXCEPT ![c].pc = "complete", ![c].resp = "journal"]
              /\ UNCHANGED mutation
        /\ UNCHANGED <<mode, cache, executed, told, lines, crashes>>

\* response_for: the operation starts and may take effect from here on.
Dispatch(c) ==
    /\ At(c, "dispatch")
    /\ Goto(c, "running")
    /\ executed' = IF conn[c].op \in Durable
                   THEN [executed EXCEPT ![conn[c].id] = @ + 1] ELSE executed
    /\ UNCHANGED <<mode, cache, mutation, told, budget>>

Return(c, r) ==
    LET o == conn[c].op
    IN  /\ At(c, "running")
        /\ \/ /\ o \in Idempotent
              /\ Answer(c, r)
           \/ /\ o \notin Idempotent
              /\ conn' = [conn EXCEPT ![c].resp = r,
                             ![c].pc = IF o \in Durable THEN "store" ELSE "complete"]
              /\ UNCHANGED told
        /\ UNCHANGED <<mode, cache, mutation, executed, budget>>

\* complete_mutation; when it fails the client is told the outcome is unknown.
Store(c) ==
    LET i == conn[c].id
    IN  /\ At(c, "store")
        /\ \/ /\ mutation[i].status = "PENDING"
              /\ mutation' = [mutation EXCEPT ![i].status = "COMPLETE",
                                               ![i].resp = conn[c].resp]
              /\ Goto(c, "complete")
              /\ UNCHANGED faults
           \/ /\ faults < MaxJournalFaults /\ faults' = faults + 1
              /\ conn' = [conn EXCEPT ![c].pc = "complete", ![c].resp = "unknown"]
              /\ UNCHANGED mutation
        /\ UNCHANGED <<mode, cache, executed, told, lines, crashes>>

Complete(c) ==
    LET i == conn[c].id
        o == conn[c].op
        r == conn[c].resp
    IN  /\ At(c, "complete")
        /\ replay' = Publish(i, o, r)
        /\ conn' = [Wake(i, o) EXCEPT ![c] = AfterWrite(r)]
        /\ told' = Written(c, r)
        /\ UNCHANGED <<mode, order, mutation, executed, budget>>

\* The task is dropped while the operation runs (a panic unwinds it): the
\* guard completes the entry with a timeout and the connection goes away.
Drop(c) ==
    LET i == conn[c].id
        o == conn[c].op
    IN  /\ At(c, "running") /\ o \in NonIdempotent
        /\ faults < MaxJournalFaults /\ faults' = faults + 1
        /\ replay' = Publish(i, o, "timeout")
        /\ conn' = [Wake(i, o) EXCEPT ![c] = Closed]
        /\ UNCHANGED <<mode, order, mutation, executed, told, lines, crashes>>

Handle(c) ==
    \/ Begin(c) \/ Register(c) \/ Recheck(c) \/ Await(c) \/ BeginMutation(c)
    \/ Dispatch(c) \/ Store(c) \/ Complete(c)
    \/ \E r \in Results : Return(c, r)

RequestsNext ==
    \/ \E c \in Conns : \/ Accept(c) \/ Hangup(c) \/ Handle(c) \/ Drop(c)
                        \/ \E i \in Ids, o \in Operations : ReadLine(c, i, o)
    \/ Shutdown \/ Drained \/ Crash \/ Restart

RequestsSpec == RequestsInit /\ [][RequestsNext]_rvars

-----------------------------------------------------------------------------
RequestsTypeOK ==
    /\ mode \in {"serving", "draining", "down"}
    /\ conn \in [Conns -> [pc : {"closed", "reading", "begin", "register",
                                "recheck", "await", "journal", "dispatch",
                                "running", "store", "complete"},
                          id : Ids \cup {"none"}, op : Operations \cup {"none"},
                          resp : Responses \cup {"none"},
                          note : {"none", "live", "spent"}, woken : BOOLEAN]]
    /\ replay \in [Ids -> [status : {"none", "pending", "complete"},
                           op : NonIdempotent \cup {"none"},
                           resp : Responses \cup {"none"}]]
    /\ order \in Seq(Ids)
    /\ {order[n] : n \in DOMAIN order} = Cached /\ Len(order) = Cardinality(Cached)
    /\ Len(order) <= Capacity
    /\ mutation \in [Ids -> [status : {"none", "PENDING", "COMPLETE"},
                             op : Durable \cup {"none"},
                             resp : Responses \cup {"none"}]]

(***************************************************************************)
(* A terminal mutation is dispatched at most once per request id, however  *)
(* often the client retries it, while the first copy runs, after its entry *)
(* was evicted from the replay cache and after the daemon was restarted,   *)
(* and a success is only ever reported for one that was dispatched         *)
(* (handle_line, begin_mutation).                                          *)
(***************************************************************************)
AtMostOnce ==
    /\ \A i \in Ids : executed[i] <= 1
    /\ \A i \in Ids, o \in Durable : <<i, o, "ok">> \in told => executed[i] = 1

(***************************************************************************)
(* The copies of a terminal mutation are never told different outcomes: of *)
(* success, failure and "not known" (a timeout or an unknown outcome) only *)
(* one is ever answered for a request id and a fingerprint, across         *)
(* eviction and restart (complete_mutation, ReplayExecutionGuard).         *)
(***************************************************************************)
Told(i, o) == {r \in Responses : <<i, o, r>> \in told}
StableAnswers ==
    \A i \in Ids, o \in Durable :
        Cardinality({"ok", "failed"} \cap Told(i, o))
          + (IF Told(i, o) \cap {"timeout", "unknown"} = {} THEN 0 ELSE 1) <= 1

(***************************************************************************)
(* Every line that was read is answered, or its connection is gone.  The   *)
(* runtime polls every ready task and every operation has a deadline,      *)
(* which is the weak fairness assumed.  Excepted are the lines the second  *)
(* begin of the wait loop betrays: when the entry completes and is evicted *)
(* between the two calls, the new entry it inserts is completed by nobody  *)
(* and the line, with every later copy of it, waits for ever; so does a    *)
(* copy that registered on a Notify that had already fired.                *)
(***************************************************************************)
Owner(c, i) == conn[c].id = i /\ conn[c].pc \in {"journal", "dispatch", "running",
                                                 "store", "complete"}
Betrayed(c) ==
    \/ /\ conn[c].pc \in {"begin", "register", "recheck", "await"}
       /\ replay[conn[c].id].status = "pending"
       /\ \A d \in Conns : ~Owner(d, conn[c].id)
    \/ At(c, "await") /\ conn[c].note = "spent"
HandlersPolled == \A c \in Conns : WF_rvars(Handle(c))
EveryLineAnswered ==
    HandlersPolled =>
        \A c \in Conns : conn[c].pc \notin {"closed", "reading"}
            ~> (conn[c].pc \in {"closed", "reading"} \/ Betrayed(c))
=============================================================================
