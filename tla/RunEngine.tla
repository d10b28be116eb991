----------------------------- MODULE RunEngine -----------------------------
(***************************************************************************)
(* The conversation run engine of gobrowse-server: run_api.rs and the      *)
(* message handlers of conversation_api.rs that share its rows.            *)
(*                                                                         *)
(* A run is a row of agent_runs.  A worker claims it, which writes a fresh *)
(* execution token and a lease into the row and spawns an executor that    *)
(* reads the conversation, calls a model and publishes events, and at the  *)
(* end one assistant message.  An executor whose lease ran out is not      *)
(* stopped by anybody: it goes on until one of its writes is refused,      *)
(* possibly long after another executor took the run over.                 *)
(*                                                                         *)
(* A token is the number of the claim that wrote it (the code draws a      *)
(* random UUID), 0 is NULL.  An executor is the pair <<run, token>>.       *)
(* A lease is the number of ticks it still has, 0 is expired or NULL.      *)
(* Every transaction that appends events is three steps: BEGIN, which      *)
(* fixes what its now() says of the lease, the advisory lock with the      *)
(* guarded statement, and COMMIT.  A single statement is one step.         *)
(***************************************************************************)
EXTENDS Integers, Sequences

CONSTANTS
  Runs,            \* run ids
  Conversations,   \* conversation ids, all of one profile
  Submissions,     \* client_submission_id values
  Fingerprints,    \* request fingerprints (text and model of a turn)
  CallIds,         \* tool call ids a provider may choose
  LeaseTicks,      \* RUN_LEASE_SECONDS in ticks
  BatchSize,       \* text fragments of one append_events_batched call
  MaxDeltaEvents,  \* MAX_DELTA_EVENTS: text fragments of one model round
  MaxRounds,       \* max_rounds: model rounds of one execution
  MaxToolCalls,    \* max_tool_calls: tool calls of one execution
  ReportsUsage,    \* does the provider send a usage event in each round
  Deletable,       \* conversations somebody may delete
  Revocable,       \* may the requester lose the access
  MaxAttempts,     \* bound: claims of one run
  MaxChunks,       \* bound: text fragments a provider sends one executor
  MaxMessages      \* bound: messages of one conversation

ASSUME LeaseAssumption == LeaseTicks \in Nat \ {0}
ASSUME LimitsAssumption == /\ BatchSize \in Nat \ {0}
                           /\ MaxDeltaEvents \in Nat
                           /\ MaxRounds \in Nat \ {0}
                           /\ MaxToolCalls \in Nat
ASSUME EnvironmentAssumption == /\ ReportsUsage \in BOOLEAN
                                /\ Deletable \subseteq Conversations
                                /\ Revocable \in BOOLEAN
ASSUME BoundsAssumption == /\ MaxAttempts \in Nat
                           /\ MaxChunks \in Nat
                           /\ MaxMessages \in Nat

ASSUME NullAssumption == "none" \notin Conversations \cup Submissions  \* NULL is no id

VARIABLES
  conv,       \* conv[c]: is the conversation "active" or "deleted"
  messages,   \* messages[c]: the rows of messages in ordinal order
  projected,  \* projected[c]: messages in the conversation's library book
  run,        \* run[r]: the row of agent_runs
  log,        \* log[r]: the rows of run_events in sequence order
  toolCalls,  \* the rows of tool_calls
  replies,    \* what start_turn answered to its clients
  deletes,    \* delete_conversation statements under way, with the runs
              \* their snapshot shows
  access,     \* may the requester still use the conversation
  pc,         \* pc[e]: where executor e is in execute / execute_inner
  tx,         \* tx[e]: the transaction e has open
  mem,        \* mem[e]: the locals of execute_inner
  lock        \* the holder of the profile's advisory lock, if any

vars == <<conv, messages, projected, run, log, toolCalls, replies, deletes,
          access, pc, tx, mem, lock>>

----------------------------------------------------------------------------
(* Values *)

None == "none"
Attempts == 1..MaxAttempts
Executors == Runs \X Attempts

TerminalStates == {"completed", "failed", "canceled"}
ActiveStates == {"queued", "building_context", "awaiting_model"}
RunStates == TerminalStates \cup ActiveStates \cup {"absent", "deleted"}

TerminalEvents == {"run.completed", "run.failed", "run.canceled"}

\* Steps of an executor that append one event under append_event_owned,
\* with the event and the step after it.
Appends ==
  [reset          |-> [event |-> "run.output_reset",   next |-> "check_start"],
   context_built  |-> [event |-> "run.context_built",  next |-> "check_context"],
   model_selected |-> [event |-> "run.model_selected", next |-> "stream"],
   usage          |-> [event |-> "model.usage",        next |-> "stream"],
   tool_call      |-> [event |-> "tool.call",          next |-> "authorize"],
   tool_denied    |-> [event |-> "tool.authorization_denied",
                       next  |-> "next_tool"],
   tool_result    |-> [event |-> "tool.result",        next |-> "tool_row"]]

\* The two calls of transition(): state written, event, the step after it.
Transitions ==
  [building   |-> [state |-> "building_context",
                   event |-> "run.context_building", next |-> "prepare"],
   requesting |-> [state |-> "awaiting_model",
                   event |-> "run.model_requested",  next |-> "routes"]]

\* The three calls of flush_text_events and the steps after them.
Flushes == [flush_timer |-> "stream", flush_usage |-> "usage",
            flush_end   |-> "decide"]

\* The three calls of check_canceled in execute_inner's straight line.
Checks == [check_start |-> "building", check_context |-> "requesting",
           check_final |-> "access_final"]

AppendPcs == DOMAIN Appends
TransitionPcs == DOMAIN Transitions
FlushPcs == DOMAIN Flushes
CheckPcs == DOMAIN Checks
FinishPcs == {"complete", "cancel", "fail"}
TxPcs == AppendPcs \cup TransitionPcs \cup FlushPcs \cup FinishPcs
PlainPcs == CheckPcs \cup {"prepare", "snapshot", "routes", "access_route", "open",
                           "select_model", "stream", "decide", "access_final",
                           "authorize", "tool_run", "tool_row", "next_tool"}
\* Inside execute_inner: what a shutdown drops and what an error leaves.
InnerPcs == (TxPcs \cup PlainPcs) \ {"reset", "fail"}
PCs == TxPcs \cup PlainPcs \cup {"none", "release", "done"}

FreshMem == [recv |-> 0, pub |-> 0, count |-> 0, round |-> 0,
             calls |-> 0, todo |-> << >>, usage |-> FALSE]

AbsentRun == [state |-> "absent", conv |-> None, input |-> 0, sub |-> None,
              print |-> None, token |-> 0, lease |-> 0, cancel |-> FALSE,
              attempts |-> 0]

Event(type, by, chunks) == [type |-> type, by |-> by, chunks |-> chunks]
Message(role, r, chunks) == [role |-> role, run |-> r, chunks |-> chunks]

----------------------------------------------------------------------------
(* Reading the rows *)

Active(r) == run[r].state \in ActiveStates
Terminal(r) == run[r].state \in TerminalStates
Exists(r) == Active(r) \/ Terminal(r)

\* WHERE execution_token=$token AND cancellation_requested_at IS NULL.
Fenced(e) == run[e[1]].token = e[2] /\ ~run[e[1]].cancel

\* ... AND lease_expires_at>now(), in a statement of its own
OwnsNow(e) == Fenced(e) /\ run[e[1]].lease > 0

\* ... AND lease_expires_at>now(), in a transaction: now() is its BEGIN
OwnsInTx(e) == Fenced(e) /\ tx[e] = "live"

\* A transaction that passed its guard keeps the run's row locked, so
\* FOR UPDATE SKIP LOCKED passes over it and a DELETE waits for it.
RowLocked(r) == \E a \in Attempts : <<r, a>> \in lock

\* The joins with conversations and users: requester enabled, conversation
\* there, membership there.
Accessible(r) == access /\ run[r].conv # None

ActiveIn(c) == \E r \in Runs : run[r].conv = c /\ Active(r)

\* execution_token IS NULL OR lease_expires_at<=clock_timestamp()
Abandoned(r) == run[r].token = 0 \/ run[r].lease = 0

----------------------------------------------------------------------------
(* Writing the rows *)

\* append_event_tx and the INSERTs of the owned appends
Publish(r, events) == log' = [log EXCEPT ![r] = @ \o events]

\* rebuild_projection: the library book is rebuilt from every message
RebuildProjection(c) == projected' = [projected EXCEPT ![c] = Len(messages'[c])]

\* UPDATE agent_runs SET ... WHERE id=r
Update(r, row) == run' = [run EXCEPT ![r] = row]

\* state=..., execution_token=NULL, lease_expires_at=NULL
Finish(r, state) ==
  Update(r, [run[r] EXCEPT !.state = state, !.token = 0, !.lease = 0])

\* the variables of the executors, of the clients' rows, and of both
execVars == <<pc, tx, mem, lock>>
clientVars == <<conv, replies, deletes, access>>

SetMem(e, locals) == mem' = [mem EXCEPT ![e] = locals]
Goto(e, next) == pc' = [pc EXCEPT ![e] = next]

\* execute() returns, its heartbeat stopped and its locals gone
End(e) == /\ Goto(e, "done")
          /\ SetMem(e, FreshMem)

\* BEGIN, rollback or COMMIT
SetTx(e, value) == tx' = [tx EXCEPT ![e] = value]
CloseTx(e) == /\ SetTx(e, None)
              /\ lock' = lock \ {e}

Init ==
  /\ conv = [c \in Conversations |-> "active"]
  /\ messages = [c \in Conversations |-> << >>]
  /\ projected = [c \in Conversations |-> 0]
  /\ run = [r \in Runs |-> AbsentRun]
  /\ log = [r \in Runs |-> << >>]
  /\ toolCalls = {}
  /\ replies = {}
  /\ deletes = {}
  /\ access = TRUE
  /\ pc = [e \in Executors |-> None]
  /\ tx = [e \in Executors |-> None]
  /\ mem = [e \in Executors |-> FreshMem]
  /\ lock = {}

----------------------------------------------------------------------------
(* Requests of the clients.  A refused request changes nothing.            *)

\* The row start_turn and start_run insert, and its first event.
InsertRun(r, c, ordinal, sub, print) ==
  /\ run[r].state = "absent"
  /\ Update(r, [AbsentRun EXCEPT !.state = "queued", !.conv = c, !.input = ordinal,
                                 !.sub = sub, !.print = print])
  /\ Publish(r, <<Event("run.queued", 0, 0)>>)

InsertMessage(c, message) ==
  /\ messages' = [messages EXCEPT ![c] = Append(@, message)]
  /\ RebuildProjection(c)

Reply(c, sub, print, r) ==
  replies' = replies \cup {[conv |-> c, sub |-> sub, print |-> print, run |-> r]}

\* start_turn of a submission the conversation has not seen
StartTurn(c, r, sub, print) ==
  /\ lock = {}
  /\ conv[c] = "active" /\ access
  /\ ~\E q \in Runs : run[q].conv = c /\ run[q].sub = sub
  /\ ~ActiveIn(c)
  /\ Len(messages[c]) < MaxMessages
  /\ InsertMessage(c, Message("user", None, 0))
  /\ InsertRun(r, c, Len(messages[c]) + 1, sub, print)
  /\ Reply(c, sub, print, r)
  /\ UNCHANGED <<conv, toolCalls, deletes, access, execVars>>

\* The run of a submission sent again, unless its content differs.
SameTurn(r, c, sub, print) == /\ run[r].conv = c /\ run[r].sub = sub
                              /\ run[r].print = print

\* start_turn sent again
RepeatTurn(c, r, sub, print) ==
  /\ lock = {}
  /\ conv[c] = "active" /\ access
  /\ SameTurn(r, c, sub, print)
  /\ Reply(c, sub, print, r)
  /\ UNCHANGED <<conv, messages, projected, run, log, toolCalls, deletes, access,
                 execVars>>

\* append_message refuses while a run is active.  Mutant: it does not.
TakesMessagesAlways(c) == conv[c] = "active" /\ access
TakesMessages(c) == conv[c] = "active" /\ access /\ ~ActiveIn(c)

AppendMessage(c) ==
  /\ TakesMessages(c)
  /\ Len(messages[c]) < MaxMessages
  /\ InsertMessage(c, Message("user", None, 0))
  /\ UNCHANGED <<run, log, toolCalls, clientVars, execVars>>

\* start_run: a run for a message append_message stored before.  That the
\* conversation has no other active run is the index
\* one_active_conversation_turn.
StartRun(c, r) ==
  LET last == Len(messages[c]) IN
  /\ lock = {}
  /\ conv[c] = "active" /\ access
  /\ last > 0 /\ messages[c][last].role = "user"
  /\ ~\E q \in Runs : run[q].conv = c /\ run[q].input = last
  /\ ~ActiveIn(c)
  /\ InsertRun(r, c, last, None, None)
  /\ UNCHANGED <<messages, projected, toolCalls, clientVars, execVars>>

\* Mutant: the state of the run is not looked at.
CancelableAlways(r) == Accessible(r) /\ Exists(r) /\ ~run[r].cancel
Cancelable(r) == Accessible(r) /\ Active(r) /\ ~run[r].cancel

\* cancel_run; a second request finds cancellation_requested_at set
CancelRun(r) ==
  /\ lock = {}
  /\ Cancelable(r)
  /\ IF Abandoned(r)
     THEN /\ Update(r, [run[r] EXCEPT !.cancel = TRUE, !.state = "canceled",
                                      !.token = 0, !.lease = 0])
          /\ Publish(r, <<Event("run.cancel_requested", 0, 0),
                          Event("run.canceled", 0, 0)>>)
     ELSE /\ Update(r, [run[r] EXCEPT !.cancel = TRUE])
          /\ Publish(r, <<Event("run.cancel_requested", 0, 0)>>)
  /\ UNCHANGED <<messages, projected, toolCalls, clientVars, execVars>>

\* delete_conversation is one statement whose snapshot is taken when it
\* starts; the conversation's row lock may come later.
BeginDelete(c) ==
  /\ c \in Deletable /\ conv[c] = "active" /\ access
  /\ deletes = {}
  /\ deletes' = {[conv |-> c, seen |-> {r \in Runs : run[r].conv = c}]}
  /\ UNCHANGED <<conv, messages, projected, run, log, toolCalls, replies, access,
                 execVars>>

\* The row locks a DELETE waits for.  Mutant: an open append holds none.
DeleteAtOnce(runs) == TRUE
DeleteMayGo(runs) == \A r \in runs : ~RowLocked(r)

\* It takes no advisory lock but waits for the row locks.  Events and tool
\* calls go with the runs it deletes; a run its snapshot does not show keeps
\* its row with conversation_id and input_message_id SET NULL.
ApplyDelete(d) ==
  LET orphans == {r \in Runs \ d.seen : run[r].conv = d.conv} IN
  /\ DeleteMayGo(d.seen \cup orphans)
  /\ deletes' = deletes \ {d}
  /\ conv' = [conv EXCEPT ![d.conv] = "deleted"]
  /\ messages' = [messages EXCEPT ![d.conv] = << >>]
  /\ RebuildProjection(d.conv)
  /\ run' = [r \in Runs |->
              IF r \in d.seen THEN [AbsentRun EXCEPT !.state = "deleted"]
              ELSE IF r \in orphans
              THEN [run[r] EXCEPT !.conv = None, !.input = 0]
              ELSE run[r]]
  /\ log' = [r \in Runs |-> IF r \in d.seen THEN << >> ELSE log[r]]
  /\ toolCalls' = {row \in toolCalls : row.run \notin d.seen}
  /\ UNCHANGED <<replies, access, execVars>>

\* complete_run reads the access FOR SHARE.  Mutant: without it.
RevokeAtOnce == TRUE
AccessUnlocked == \A e \in lock : pc[e] # "complete"

\* An administrator disables the requester or takes the membership away
RevokeAccess ==
  /\ Revocable /\ access
  /\ AccessUnlocked
  /\ access' = FALSE
  /\ UNCHANGED <<conv, messages, projected, run, log, toolCalls, replies, deletes,
                 execVars>>

----------------------------------------------------------------------------
(* The worker: claims, the reaper of canceled runs, the clock              *)

\* The candidates of claim_runs.  Mutants: locked rows are not skipped; a lease
\* that ran out is not taken over.
ClaimableLocked(r) == Active(r) /\ ~run[r].cancel /\ Abandoned(r)
ClaimableReleased(r) == Active(r) /\ ~run[r].cancel /\ run[r].token = 0 /\ ~RowLocked(r)
Claimable(r) == Active(r) /\ ~run[r].cancel /\ Abandoned(r) /\ ~RowLocked(r)

\* takeover is execution_attempts>0 before the claim.  Mutant: it is ignored.
FirstStepAlways(attempt) == "check_start"
FirstStep(attempt) == IF attempt > 1 THEN "reset" ELSE "check_start"

\* claim_runs for one row, and the executor it spawns
Claim(r) ==
  LET a == run[r].attempts + 1
      e == <<r, a>> IN
  /\ Claimable(r)
  /\ a \in Attempts
  /\ Update(r, [run[r] EXCEPT !.token = a, !.attempts = a, !.lease = LeaseTicks])
  /\ Goto(e, FirstStep(a))
  /\ SetMem(e, FreshMem)
  /\ UNCHANGED <<messages, projected, log, toolCalls, clientVars, tx, lock>>

CancelPending(r) == Active(r) /\ run[r].cancel /\ Abandoned(r)

\* finalize_expired_cancellations, one row
FinalizeCancellation(r) ==
  /\ lock = {}
  /\ CancelPending(r)
  /\ Finish(r, "canceled")
  /\ Publish(r, <<Event("run.canceled", 0, 0)>>)
  /\ UNCHANGED <<messages, projected, toolCalls, clientVars, execVars>>

\* time passes: lease_expires_at comes nearer
Tick(r) ==
  /\ run[r].lease > 0
  /\ Update(r, [run[r] EXCEPT !.lease = @ - 1])
  /\ UNCHANGED <<messages, projected, log, toolCalls, clientVars, execVars>>

\* What renew_lease looks at, and the lease it writes.  Mutant: the
\* cancellation is not looked at.
RenewableCanceled(e) == /\ run[e[1]].token = e[2] /\ run[e[1]].lease > 0
                        /\ Active(e[1])
Renewable(e) == OwnsNow(e) /\ Active(e[1])
Renewed(e) == LeaseTicks

\* maintain_lease, as long as execute() runs.  A renewal waits while a
\* transaction has updated the row (an append only holds FOR KEY SHARE).  The
\* first one refused or failed ends the heartbeat for good, which is a
\* behaviour where Renew(e) is not taken any more.
Renew(e) ==
  /\ pc[e] \notin {"none", "done"} /\ Renewable(e)
  /\ ~\E f \in lock : f[1] = e[1] /\ pc[f] \notin AppendPcs \cup FlushPcs
  /\ run[e[1]].lease < LeaseTicks
  /\ Update(e[1], [run[e[1]] EXCEPT !.lease = Renewed(e)])
  /\ UNCHANGED <<messages, projected, log, toolCalls, clientVars, execVars>>

----------------------------------------------------------------------------
(* Transactions of an executor.  rowVars is what a refused one leaves.     *)

rowVars == <<conv, messages, projected, run, log, toolCalls, replies, deletes,
             access>>

Pending(e) == mem[e].recv - mem[e].pub

\* the fragments flush_text_events puts into its next batch
NextBatch(e) == IF Pending(e) < BatchSize THEN Pending(e) ELSE BatchSize

\* BEGIN.  A flush with nothing pending opens no transaction, and one that
\* reaches the fragment limit while it fills a batch fails without it.
Begin(e) ==
  /\ pc[e] \in TxPcs /\ tx[e] = None
  /\ pc[e] \in FlushPcs => /\ Pending(e) > 0
                           /\ mem[e].count + NextBatch(e) <= MaxDeltaEvents
  /\ SetTx(e, IF run[e[1]].lease > 0 THEN "live" ELSE "expired")
  /\ UNCHANGED <<rowVars, pc, mem, lock>>

\* The statement that checks the lease.  check_canceled's and fail_run's
\* differ from the others: the first does not look at the cancellation, the
\* second turns into a cancellation, with clock_timestamp() for now().
Guard(e) ==
  LET row == run[e[1]] IN
  CASE pc[e] = "cancel" -> row.token = e[2] /\ tx[e] = "live"
    [] pc[e] = "complete" -> OwnsInTx(e) /\ Active(e[1]) /\ Accessible(e[1])
    [] pc[e] = "fail" -> \/ OwnsInTx(e) /\ row.state \notin {"completed", "canceled"}
                         \/ /\ row.token = e[2] /\ row.lease > 0
                            /\ row.cancel /\ Active(e[1])
    [] OTHER -> OwnsInTx(e)

\* lock_event_sequence and the guarded statement
Acquire(e) ==
  /\ tx[e] \in {"live", "expired"}
  /\ lock = {}
  /\ Guard(e)
  /\ lock' = {e}
  /\ SetTx(e, "held")
  /\ UNCHANGED <<rowVars, pc, mem>>

\* What an error does to the executor: execute() releases the lease
\* when the reset failed, only logs an error of fail_run or release_lease, and
\* calls fail_run for every error of execute_inner.
Abort(e) ==
  \/ pc[e] = "reset" /\ Goto(e, "release") /\ UNCHANGED mem
  \/ pc[e] \in {"fail", "release"} /\ End(e)
  \/ pc[e] \in InnerPcs /\ Goto(e, "fail") /\ UNCHANGED mem

\* require_lease fails, or complete_run finds the access revoked: rollback
Refused(e) ==
  /\ tx[e] \in {"live", "expired"}
  /\ lock = {}
  /\ ~Guard(e)
  /\ CloseTx(e)
  /\ Abort(e)
  /\ UNCHANGED rowVars

\* COMMIT of an append, a transition and a batch of text.  When the answer to
\* COMMIT is lost (ack FALSE) the rows are written and the executor sees an
\* error.
Continue(e, ack, next) == IF ack THEN Goto(e, next) /\ UNCHANGED mem ELSE Abort(e)

CommitAppend(e, ack) ==
  /\ pc[e] \in AppendPcs /\ tx[e] = "held"
  /\ Publish(e[1], <<Event(Appends[pc[e]].event, e[2], 0)>>)
  /\ Continue(e, ack, Appends[pc[e]].next)
  /\ CloseTx(e)
  /\ UNCHANGED <<messages, projected, run, toolCalls, clientVars>>

CommitTransition(e, ack) ==
  /\ pc[e] \in TransitionPcs /\ tx[e] = "held"
  /\ Update(e[1], [run[e[1]] EXCEPT !.state = Transitions[pc[e]].state])
  /\ Publish(e[1], <<Event(Transitions[pc[e]].event, e[2], 0)>>)
  /\ Continue(e, ack, Transitions[pc[e]].next)
  /\ CloseTx(e)
  /\ UNCHANGED <<messages, projected, toolCalls, clientVars>>

\* append_events_batched; flush_text_events goes on while text is pending
CommitFlush(e, ack) ==
  /\ pc[e] \in FlushPcs /\ tx[e] = "held"
  /\ Publish(e[1], <<Event("model.text_delta", e[2], NextBatch(e))>>)
  /\ SetMem(e, [mem[e] EXCEPT !.pub = @ + NextBatch(e), !.count = @ + NextBatch(e)])
  /\ Goto(e, IF ack THEN pc[e] ELSE "fail")
  /\ CloseTx(e)
  /\ UNCHANGED <<messages, projected, run, toolCalls, clientVars>>

\* complete_run: the assistant message, the terminal row, its two events
CommitComplete(e, ack) ==
  LET c == run[e[1]].conv IN
  /\ pc[e] = "complete" /\ tx[e] = "held"
  /\ InsertMessage(c, Message("assistant", e[1], mem[e].recv))
  /\ Finish(e[1], "completed")
  /\ Publish(e[1], <<Event("run.completed", e[2], 0), Event("token_metrics", e[2], 0)>>)
  /\ IF ack THEN End(e) ELSE Abort(e)
  /\ CloseTx(e)
  /\ UNCHANGED <<toolCalls, clientVars>>

\* check_canceled's write; fail_run does nothing for the code "canceled"
CommitCancel(e, ack) ==
  /\ pc[e] = "cancel" /\ tx[e] = "held"
  /\ Finish(e[1], "canceled")
  /\ Publish(e[1], <<Event("run.canceled", e[2], 0)>>)
  /\ IF ack THEN End(e) ELSE Abort(e)
  /\ CloseTx(e)
  /\ UNCHANGED <<messages, projected, toolCalls, clientVars>>

\* fail_run; whatever it returns is only logged
CommitFail(e) ==
  /\ pc[e] = "fail" /\ tx[e] = "held"
  /\ Finish(e[1], IF run[e[1]].cancel THEN "canceled" ELSE "failed")
  /\ Publish(e[1], <<Event(IF run[e[1]].cancel THEN "run.canceled" ELSE "run.failed", e[2], 0)>>)
  /\ End(e)
  /\ CloseTx(e)
  /\ UNCHANGED <<messages, projected, toolCalls, clientVars>>

----------------------------------------------------------------------------
(* The other steps of an executor: queries, the provider, the tools        *)

\* A step that only moves the executor on
Step(e, from, next) ==
  /\ pc[e] = from
  /\ Goto(e, next)
  /\ UNCHANGED <<rowVars, tx, lock>>

\* check_canceled reads the row, which must be there
CheckCanceled(e) ==
  /\ pc[e] \in CheckPcs /\ Exists(e[1])
  /\ Step(e, pc[e], IF run[e[1]].cancel THEN "cancel" ELSE Checks[pc[e]])
  /\ UNCHANGED mem

\* check_canceled while a provider is opened or streams: the two-second poll,
\* the process-local signal, or before an event is taken
PollCanceled(e) ==
  /\ pc[e] \in {"open", "stream"} /\ Exists(e[1]) /\ run[e[1]].cancel
  /\ Step(e, pc[e], "cancel")
  /\ UNCHANGED mem

\* The requester's row, the model limits and build_messages; then, past
\* load_routes, check_execution_access, again before complete_run
ReadAccess(e) ==
  /\ Accessible(e[1])
  /\ \/ Step(e, "prepare", "snapshot")
     \/ Step(e, "access_route", "open")
     \/ Step(e, "access_final", "complete")
  /\ UNCHANGED mem

LoadRoutes(e) == Step(e, "routes", "access_route") /\ UNCHANGED mem

\* The fenced UPDATEs of context_snapshot and selected_model_id
WriteOwned(e) ==
  /\ OwnsNow(e)
  /\ \/ Step(e, "snapshot", "context_built")
     \/ Step(e, "select_model", "model_selected")
  /\ UNCHANGED mem

OpenProvider(e) ==
  /\ Step(e, "open", IF mem[e].round = 0 THEN "select_model" ELSE "stream")
  /\ SetMem(e, [mem[e] EXCEPT !.count = 0, !.usage = FALSE])

\* check_canceled before an event is taken found the row and no cancellation
NotCanceled(e) == Exists(e[1]) /\ ~run[e[1]].cancel

\* ModelEvent::TextDelta, Usage, ToolCall and Completed, or the stream's end
ReceiveText(e) ==
  /\ NotCanceled(e) /\ mem[e].recv < MaxChunks
  /\ Step(e, "stream", "stream")
  /\ SetMem(e, [mem[e] EXCEPT !.recv = @ + 1])

ReceiveUsage(e) ==
  /\ NotCanceled(e) /\ ReportsUsage /\ ~mem[e].usage
  /\ Step(e, "stream", "flush_usage")
  /\ SetMem(e, [mem[e] EXCEPT !.usage = TRUE])

ReceiveToolCall(e, call) ==
  /\ NotCanceled(e) /\ mem[e].calls < MaxToolCalls
  /\ Step(e, "stream", "stream")
  /\ SetMem(e, [mem[e] EXCEPT !.calls = @ + 1, !.todo = Append(@, call)])

StreamEnds(e) == Step(e, "stream", "flush_end") /\ UNCHANGED mem

\* the 100 ms timer
FlushTimer(e) ==
  /\ Pending(e) > 0
  /\ Step(e, "stream", "flush_timer")
  /\ UNCHANGED mem

\* Mutant: flush_text_events ends after its first batch.
FlushedOnce(e) == TRUE
Flushed(e) == Pending(e) = 0

FlushDone(e) ==
  /\ pc[e] \in FlushPcs /\ tx[e] = None /\ Flushed(e)
  /\ Step(e, pc[e], Flushes[pc[e]])
  /\ UNCHANGED mem

\* A round without tool calls ends the execution, if there is any text
Decide(e) ==
  /\ \/ mem[e].todo = << >> /\ mem[e].recv > 0 /\ Step(e, "decide", "check_final")
     \/ mem[e].todo # << >> /\ Step(e, "decide", "tool_call")
  /\ UNCHANGED mem

\* authorize() allows the call, or asks or denies
Authorize(e) ==
  /\ \/ Step(e, "authorize", "tool_run")
     \/ Step(e, "authorize", "tool_denied")
  /\ UNCHANGED mem

\* The tool answers or times out; an oversized answer is dropped in silence.
\* Mutant: the result is stored and not published.
RunToolUnpublished(e) ==
  /\ Step(e, "tool_run", "tool_row") \/ Step(e, "tool_run", "next_tool")
  /\ UNCHANGED mem
RunTool(e) ==
  /\ Step(e, "tool_run", "tool_result") \/ Step(e, "tool_run", "next_tool")
  /\ UNCHANGED mem

\* INSERT INTO tool_calls ... ON CONFLICT (idempotency_key) DO NOTHING, the one
\* write of an executor that is not fenced; the run's row must be there
StoreToolCall(e) ==
  LET call == Head(mem[e].todo) IN
  /\ pc[e] = "tool_row" /\ Exists(e[1])
  /\ toolCalls' = IF \E row \in toolCalls : row.run = e[1] /\ row.call = call
                  THEN toolCalls
                  ELSE toolCalls \cup {[run |-> e[1], call |-> call, by |-> e[2]]}
  /\ Goto(e, "next_tool")
  /\ UNCHANGED <<messages, projected, run, log, clientVars, tx, mem, lock>>

\* The next call of the round, or the next round while one is left
NextTool(e) ==
  LET rest == Tail(mem[e].todo) IN
  \/ /\ Step(e, "next_tool", "tool_call")
     /\ rest # << >>
     /\ SetMem(e, [mem[e] EXCEPT !.todo = rest])
  \/ /\ Step(e, "next_tool", "open")
     /\ rest = << >> /\ mem[e].round + 1 < MaxRounds
     /\ SetMem(e, [mem[e] EXCEPT !.todo = rest, !.round = @ + 1])

\* Any await of the executor fails: the database, the provider, a timeout, a
\* limit, a check that finds the access gone or no row.  Its transaction, if
\* one is open, is rolled back.
StepFails(e) ==
  /\ pc[e] \in TxPcs \cup PlainPcs \cup {"release"}
  /\ Abort(e)
  /\ CloseTx(e)
  /\ UNCHANGED rowVars

\* The shutdown drops execute_inner, rolling its transaction back
Shutdown(e) ==
  /\ pc[e] \in InnerPcs
  /\ Goto(e, "release")
  /\ CloseTx(e)
  /\ UNCHANGED <<rowVars, mem>>

\* release_lease
Release(e) ==
  /\ pc[e] = "release"
  /\ IF run[e[1]].token = e[2] /\ Active(e[1])
     THEN Update(e[1], [run[e[1]] EXCEPT !.token = 0, !.lease = 0])
     ELSE UNCHANGED run
  /\ End(e)
  /\ UNCHANGED <<messages, projected, log, toolCalls, clientVars, tx, lock>>

\* The process dies
Crash(e) ==
  /\ pc[e] \notin {"none", "done"}
  /\ End(e)
  /\ CloseTx(e)
  /\ UNCHANGED rowVars

----------------------------------------------------------------------------

Client ==
  \/ \E c \in Conversations, r \in Runs, s \in Submissions, f \in Fingerprints :
       StartTurn(c, r, s, f) \/ RepeatTurn(c, r, s, f)
  \/ \E c \in Conversations : AppendMessage(c) \/ BeginDelete(c)
  \/ \E c \in Conversations, r \in Runs : StartRun(c, r)
  \/ \E r \in Runs : CancelRun(r)
  \/ \E d \in deletes : ApplyDelete(d)
  \/ RevokeAccess

Worker == \E r \in Runs : Claim(r) \/ FinalizeCancellation(r) \/ Tick(r)

Transact(e) ==
  \/ Begin(e) \/ Acquire(e) \/ Refused(e)
  \/ \E ack \in BOOLEAN : \/ CommitAppend(e, ack) \/ CommitTransition(e, ack)
                          \/ CommitFlush(e, ack) \/ CommitComplete(e, ack)
                          \/ CommitCancel(e, ack)
  \/ CommitFail(e)

Proceed(e) ==
  \/ CheckCanceled(e) \/ PollCanceled(e) \/ ReadAccess(e) \/ LoadRoutes(e)
  \/ WriteOwned(e) \/ OpenProvider(e) \/ ReceiveText(e) \/ ReceiveUsage(e)
  \/ \E call \in CallIds : ReceiveToolCall(e, call)
  \/ StreamEnds(e) \/ FlushTimer(e) \/ FlushDone(e) \/ Decide(e)
  \/ Authorize(e) \/ RunTool(e) \/ StoreToolCall(e) \/ NextTool(e)
  \/ StepFails(e) \/ Release(e)

Interrupt(e) == Shutdown(e) \/ Crash(e) \/ Renew(e)

Next ==
  \/ Client
  \/ Worker
  \/ \E e \in Executors : Transact(e) \/ Proceed(e) \/ Interrupt(e)

Spec == Init /\ [][Next]_vars

\* A transaction that holds the lock ends, one way or the other
EndTx(e) == /\ tx[e] = "held"
            /\ Transact(e) \/ StepFails(e) \/ Crash(e)

\* Time passes, the scan of run_worker comes back to the reaper (on a server
\* with fewer than four executors), and the database does not keep a
\* transaction open for ever.  Nothing is assumed of the run's own executor.
ReaperFairness ==
  /\ \A r \in Runs : WF_vars(Tick(r)) /\ WF_vars(FinalizeCancellation(r))
  /\ \A e \in Executors : WF_vars(EndTx(e))

\* The scan claims what it can, and an executor that is not dead goes on:
\* every wait of execute_inner has a timeout.
WorkerFairness ==
  /\ ReaperFairness
  /\ \A r \in Runs : WF_vars(Claim(r))
  /\ \A e \in Executors : WF_vars(Transact(e) \/ Proceed(e))

----------------------------------------------------------------------------
(* Properties *)

RunRows == [state : RunStates, conv : Conversations \cup {None}, input : Nat,
            sub : Submissions \cup {None}, print : Fingerprints \cup {None},
            token : 0..MaxAttempts, lease : 0..LeaseTicks, cancel : BOOLEAN,
            attempts : 0..MaxAttempts]
EventTypes == {Appends[p].event : p \in AppendPcs}
              \cup {Transitions[p].event : p \in TransitionPcs}
              \cup TerminalEvents
              \cup {"run.queued", "run.cancel_requested", "model.text_delta",
                    "token_metrics"}
Events == [type : EventTypes, by : 0..MaxAttempts, chunks : Nat]
Messages == [role : {"user", "assistant"}, run : Runs \cup {None}, chunks : Nat]
ToolRows == [run : Runs, call : CallIds, by : Attempts]
Replies == [conv : Conversations, sub : Submissions, print : Fingerprints, run : Runs]
Deletes == [conv : Conversations, seen : SUBSET Runs]
Mems == [recv : Nat, pub : Nat, count : Nat, round : Nat,
         calls : Nat, todo : Seq(CallIds), usage : BOOLEAN]

\* Every row, log, executor and lock is of the shape the tables and the
\* locals of execute_inner have.
TypeOK ==
  /\ conv \in [Conversations -> {"active", "deleted"}]
  /\ messages \in [Conversations -> Seq(Messages)]
  /\ projected \in [Conversations -> Nat]
  /\ run \in [Runs -> RunRows]
  /\ log \in [Runs -> Seq(Events)]
  /\ toolCalls \subseteq ToolRows
  /\ replies \subseteq Replies
  /\ deletes \subseteq Deletes
  /\ access \in BOOLEAN
  /\ pc \in [Executors -> PCs]
  /\ tx \in [Executors -> {None, "live", "expired", "held"}]
  /\ mem \in [Executors -> Mems]
  /\ lock \subseteq Executors

\* The guard an owned transaction checked stays true until it commits: while
\* it is open no claim, cancellation, reaper, deletion or revocation gets past
\* the advisory lock and the row lock (append_event_owned, complete_run).
OwnedUntilCommit ==
  \A e \in Executors : tx[e] = "held" =>
    /\ lock = {e}
    /\ run[e[1]].token = e[2]
    /\ Active(e[1])
    /\ pc[e] \notin {"cancel", "fail"} => ~run[e[1]].cancel
    /\ pc[e] = "complete" => Accessible(e[1])

\* What the locals of execute_inner say while it runs: no more text published
\* than received, a tool call at hand wherever one is worked on, and a
\* transaction only at the steps that have one.
ToolPcs == {"tool_call", "authorize", "tool_run", "tool_denied", "tool_result",
            "tool_row", "next_tool"}
LocalsOK ==
  \A e \in Executors :
    /\ mem[e].pub <= mem[e].recv
    /\ pc[e] \in ToolPcs => mem[e].todo # << >>
    /\ tx[e] # None => pc[e] \in TxPcs

\* A token is on active rows only, a lease only beside a token, and no
\* executor exists of a claim that is still to come.
RowsOK ==
  \A r \in Runs :
    /\ run[r].token # 0 => Active(r)
    /\ run[r].lease # 0 => run[r].token # 0
    /\ run[r].state = "absent" => run[r].attempts = 0
    /\ run[r].state # "deleted" =>
         \A a \in Attempts : a > run[r].attempts => pc[<<r, a>>] = "none"

\* A run whose cancellation was accepted neither completes nor fails
\* (cancel_run against complete_run and fail_run).
CancelWins == \A r \in Runs : run[r].cancel => run[r].state \notin {"completed", "failed"}

\* The inductive invariant behind the theorems of RunEngineProofs.
FencingInv == TypeOK /\ LocalsOK /\ OwnedUntilCommit /\ RowsOK /\ CancelWins

\* The run.* terminal event of a log says what the row says, there is one of
\* them however complete_run, fail_run, check_canceled, cancel_run and the
\* reaper race, and only token_metrics follows it.
TerminalEventOf ==
  [completed |-> "run.completed", failed |-> "run.failed", canceled |-> "run.canceled"]
OneTerminalEvent ==
  \A r \in Runs :
    LET ends == {i \in DOMAIN log[r] : log[r][i].type \in TerminalEvents} IN
    IF Terminal(r)
    THEN \E i \in ends : /\ ends = {i}
                        /\ log[r][i].type = TerminalEventOf[run[r].state]
                        /\ \A j \in DOMAIN log[r] :
                             j > i => log[r][j].type = "token_metrics"
    ELSE ends = {}

\* Events of an older claim never follow events of a newer one, and what a
\* takeover publishes begins with run.output_reset (execute).
GenerationsInOrder ==
  \A r \in Runs : \A j \in DOMAIN log[r] :
    /\ \A i \in 1..(j - 1) : log[r][j].by # 0 => log[r][i].by <= log[r][j].by
    /\ log[r][j].by > 1 =>
         \E i \in 1..j : log[r][i].by = log[r][j].by
                         /\ log[r][i].type = "run.output_reset"

\* Both: the log of a run reads as one history.
EventsInOrder == OneTerminalEvent /\ GenerationsInOrder

\* One event on the screen of a client (the event loop of the web app), in
\* text fragments.
OnScreen(event, shown) ==
  CASE event.type \in {"run.output_reset", "run.failed", "run.canceled"} -> 0
    [] event.type = "model.text_delta" -> shown + event.chunks
    [] OTHER -> shown

\* What a client that replays a log has on its screen.
Screen(l) ==
  LET screen[i \in 0..Len(l)] == IF i = 0 THEN 0 ELSE OnScreen(l[i], screen[i - 1])
  IN  screen[Len(l)]
Shown(r) == Screen(log[r])

\* The assistant message complete_run stores is the text its client has seen
\* streaming, whatever earlier executions of the run published before.
AnswerIsWhatWasShown ==
  \A c \in Conversations : \A i \in DOMAIN messages[c] :
    messages[c][i].role = "assistant" =>
      messages[c][i].chunks > 0 /\ messages[c][i].chunks = Shown(messages[c][i].run)

\* The engine implements the turns of a conversation: workers, takeovers,
\* retries, cancellations and crashes do not show except as text withdrawn
\* (run.output_reset).  This is Turns!TurnSpec; the first disjunct, under which
\* the mapped variables cannot change, only spares TLC their evaluation.
Turns == INSTANCE ConversationTurns WITH
  Fragments <- 1..BatchSize,
  transcript <- messages,
  phase <- [r \in Runs |-> IF Active(r) THEN "open" ELSE run[r].state],
  about <- [r \in Runs |-> run[r].conv],
  screen <- [r \in Runs |-> Shown(r)]
ImplementsTurns ==
  Turns!TurnInit /\ [][UNCHANGED <<run, messages, log>> \/ Turns!TurnNext]_(Turns!turnVars)

\* A conversation has at most one active run, which is about its latest
\* message, and an answer directly follows the message it answers
\* (start_turn, start_run, append_message, complete_run).
TurnsInOrder ==
  \A c \in Conversations :
    /\ \A q, r \in Runs : run[q].conv = c /\ run[r].conv = c /\ Active(q) /\ Active(r)
                          => q = r
    /\ \A r \in Runs : run[r].conv = c /\ Active(r) => run[r].input = Len(messages[c])
    /\ \A i \in DOMAIN messages[c] : messages[c][i].role = "assistant" =>
         /\ i > 1 /\ messages[c][i - 1].role = "user"
         /\ run[messages[c][i].run].state = "completed"
         /\ run[messages[c][i].run].input = i - 1
    /\ \A r \in Runs : run[r].conv = c /\ run[r].state = "completed" =>
         \E i \in DOMAIN messages[c] : messages[c][i].run = r
    /\ projected[c] = Len(messages[c])

\* Whatever order copies of a submission arrive in, its client is told of one
\* run, made for the content it sent (start_turn).
SubmissionIdempotent ==
  \A p, q \in replies : p.conv = q.conv /\ p.sub = q.sub =>
                        p.run = q.run /\ p.print = q.print

\* Both: a turn is taken once and in its place.
TurnsSound == TurnsInOrder /\ SubmissionIdempotent

\* A finished run is never claimed, written or published to again; only
\* delete_conversation touches it.
TerminalIsFinal ==
  [][\A r \in Runs : Terminal(r) =>
       \/ run'[r].state = "deleted"
       \/ /\ log'[r] = log[r]
          /\ [run'[r] EXCEPT !.conv = run[r].conv, !.input = run[r].input] = run[r]]_vars

\* No answer is stored once the requester's access is gone (complete_run).
NoAnswerAfterRevocation ==
  [][\A c \in Conversations : ~access => Len(messages'[c]) <= Len(messages[c])]_vars

\* A deleted conversation gets no message any more, and no event or tool call
\* of its deleted runs appears, whatever their executors still do
\* (delete_conversation against complete_run and the tool_calls INSERT).
DeletedStaysEmpty ==
  /\ \A c \in Conversations : conv[c] = "deleted" =>
       messages[c] = << >> /\ \A r \in Runs : run[r].conv # c
  /\ \A r \in Runs : run[r].state = "deleted" =>
       log[r] = << >> /\ \A row \in toolCalls : row.run # r

\* Only the execution that holds the run records its tool calls.
ToolCallsFenced ==
  [][\A row \in toolCalls' \ toolCalls : run[row.run].token = row.by]_vars

\* A tool_calls row has its tool.result event in the run's log.
ToolCallsPublished ==
  \A row \in toolCalls : \E i \in DOMAIN log[row.run] :
    log[row.run][i].type = "tool.result" /\ log[row.run][i].by = row.by

\* Before the model is asked again every tool call of the round has been
\* answered in the log, by its result or by a denial ("Truncate oversized
\* tool output" in execute_inner).
ToolCallsAnswered ==
  \A e \in Executors : pc[e] = "open" =>
    \A i \in {n \in DOMAIN log[e[1]] : log[e[1]][n].type = "tool.call"
                                       /\ log[e[1]][n].by = e[2]} :
      \E j \in DOMAIN log[e[1]] :
        /\ j > i /\ log[e[1]][j].by = e[2]
        /\ log[e[1]][j].type \in {"tool.result", "tool.authorization_denied"}
        /\ \A n \in (i + 1)..j : log[e[1]][n].type # "tool.call"

\* An accepted cancellation takes effect even when the executor that holds the
\* run never looks again: its lease cannot be renewed any more and the reaper
\* finds it expired (cancel_run, renew_lease, finalize_expired_cancellations).
CancelTakesEffect ==
  ReaperFairness => \A r \in Runs : run[r].cancel ~> run[r].state \in {"canceled", "deleted"}

\* Every run comes to an end, through crashes, failed writes and lost answers,
\* as long as it may be claimed again.
Exhausted(r) == /\ run[r].attempts = MaxAttempts
                /\ \A a \in Attempts : pc[<<r, a>>] = "done"
EveryRunEnds ==
  WorkerFairness => \A r \in Runs : Active(r) ~> ~Active(r) \/ Exhausted(r)
=============================================================================
