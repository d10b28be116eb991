-------------------------- MODULE RunEngineProofs --------------------------
(***************************************************************************)
(* Theorems about RunEngine, for any number of runs, conversations,        *)
(* executions, clients and messages.                                       *)
(*                                                                         *)
(* The first half is about who may write.  FencingInv is the inductive     *)
(* invariant.  OwnedUntilCommit needs RowsOK: that a claim makes an        *)
(* executor that did not exist, and that a finished row carries no token,  *)
(* is what keeps an old executor from holding a run again.  RowsOK and     *)
(* CancelWins need OwnedUntilCommit: a COMMIT writes a row its guard was   *)
(* checked on one step earlier.  TypeOK and LocalsOK give the rest its     *)
(* types.                                                                  *)
(*                                                                         *)
(* The second half is about what is written: the logs, the tool calls, the *)
(* transcripts and the answers.  Kinds sums up what a step that writes     *)
(* does to the rows, the log and the messages; the invariants follow from  *)
(* it, without looking at the executors' many steps again, except where an *)
(* executor says what it published before.  What a client sees is a        *)
(* recursive function of the log, AnswerInv relates it to the locals of    *)
(* the executor that holds the run, and the refinement of                  *)
(* ConversationTurns follows.                                              *)
(***************************************************************************)
EXTENDS RunEngine, WellFoundedInduction, TLAPS

\* The steps that append one event (append_event_owned), with the steps and
\* events they lead to.
LEMMA AppendFacts ==
  /\ AppendPcs = {"reset", "context_built", "model_selected", "usage", "tool_call",
                  "tool_denied", "tool_result"}
  /\ \A p \in AppendPcs : Appends[p].next \in PCs /\ Appends[p].event \in EventTypes
  BY DEF AppendPcs, Appends, PCs, TxPcs, PlainPcs, CheckPcs, Checks, EventTypes

\* The two calls of transition() write active states only.
LEMMA TransitionFacts ==
  /\ TransitionPcs = {"building", "requesting"}
  /\ \A p \in TransitionPcs : /\ Transitions[p].next \in PCs
                              /\ Transitions[p].event \in EventTypes
                              /\ Transitions[p].state \in ActiveStates
  BY DEF TransitionPcs, Transitions, PCs, TxPcs, PlainPcs, EventTypes, ActiveStates

\* The three calls of flush_text_events.
LEMMA FlushFacts ==
  /\ FlushPcs = {"flush_timer", "flush_usage", "flush_end"}
  /\ \A p \in FlushPcs : Flushes[p] \in PCs
  BY DEF FlushPcs, Flushes, PCs, TxPcs, PlainPcs, AppendPcs, Appends

\* The three straight-line calls of check_canceled.
LEMMA CheckFacts ==
  /\ CheckPcs = {"check_start", "check_context", "check_final"}
  /\ \A p \in CheckPcs : Checks[p] \in PCs
  BY DEF CheckPcs, Checks, PCs, TxPcs, PlainPcs, TransitionPcs, Transitions

\* Appending events (append_event_tx) keeps the logs' type.
LEMMA PublishType ==
  ASSUME TypeOK, NEW r \in Runs, NEW events \in Seq(Events), Publish(r, events)
  PROVE  log' \in [Runs -> Seq(Events)]
  BY DEF TypeOK, Publish

\* What a statement publishes is a sequence of events.
LEMMA EventType ==
  ASSUME NEW type \in EventTypes, NEW by \in 0..MaxAttempts, NEW chunks \in Nat
  PROVE  <<Event(type, by, chunks)>> \in Seq(Events)
  BY DEF Event, Events

\* Storing a message with its projection keeps their types.
LEMMA InsertMessageType ==
  ASSUME TypeOK, NEW c \in Conversations, NEW m \in Messages, InsertMessage(c, m)
  PROVE  /\ messages' \in [Conversations -> Seq(Messages)]
         /\ projected' \in [Conversations -> Nat]
  BY DEF TypeOK, InsertMessage, RebuildProjection

\* The bounds of tokens, attempts and leases.
LEMMA Ranges == /\ 0 \in 0..MaxAttempts /\ 0 \in 0..LeaseTicks
                /\ LeaseTicks \in 0..LeaseTicks
  BY BoundsAssumption, LeaseAssumption

\* An UPDATE with a well-typed row keeps the table well typed.
LEMMA UpdateType ==
  ASSUME TypeOK, NEW r \in Runs, NEW row \in RunRows, Update(r, row)
  PROVE  run' \in [Runs -> RunRows]
  BY DEF TypeOK, Update

\* So does the UPDATE that ends a run.
LEMMA FinishType ==
  ASSUME TypeOK, NEW r \in Runs, NEW state \in TerminalStates, Finish(r, state)
  PROVE  run' \in [Runs -> RunRows]
<1>1. run[r] \in RunRows /\ state \in RunStates BY DEF TypeOK, RunStates
<1> QED BY UpdateType, <1>1, Ranges DEF Finish, RunRows

\* The row of a run nobody has started.
LEMMA AbsentRunType == AbsentRun \in RunRows
  BY Ranges DEF AbsentRun, RunRows, RunStates

\* The INSERT of start_turn and start_run.
LEMMA InsertRunType ==
  ASSUME TypeOK, NEW r \in Runs, NEW c \in Conversations, NEW ordinal \in Nat,
         NEW sub \in Submissions \cup {None}, NEW print \in Fingerprints \cup {None},
         InsertRun(r, c, ordinal, sub, print)
  PROVE  run' \in [Runs -> RunRows] /\ log' \in [Runs -> Seq(Events)]
  BY UpdateType, PublishType, EventType, Ranges, AbsentRunType DEF InsertRun, EventTypes, RunRows, RunStates,
    ActiveStates

\* An executor is a run and a claim of it.
LEMMA ExecutorParts ==
  ASSUME NEW e \in Executors
  PROVE  e[1] \in Runs /\ e[2] \in Attempts /\ e = <<e[1], e[2]>> /\ e[2] \in 1..MaxAttempts
  BY DEF Executors, Attempts

\* Moving an executor on keeps pc's type.
LEMMA GotoType ==
  ASSUME TypeOK, NEW e \in Executors, NEW p \in PCs, Goto(e, p)
  PROVE  pc' \in [Executors -> PCs]
  BY DEF TypeOK, Goto

\* The locals execute_inner starts with.
LEMMA FreshMemType == FreshMem \in Mems
  BY DEF FreshMem, Mems

\* Assigning the locals of one executor keeps mem's type.
LEMMA SetMemType ==
  ASSUME TypeOK, NEW e \in Executors, NEW locals \in Mems, SetMem(e, locals)
  PROVE  mem' \in [Executors -> Mems]
  BY DEF TypeOK, SetMem

\* The fields of the locals, and the updates the stream loop makes.
LEMMA MemParts ==
  ASSUME NEW m \in Mems
  PROVE  /\ m.recv \in Nat /\ m.pub \in Nat /\ m.count \in Nat /\ m.round \in Nat
         /\ m.calls \in Nat /\ m.todo \in Seq(CallIds) /\ m.usage \in BOOLEAN
         /\ m = [recv |-> m.recv, pub |-> m.pub, count |-> m.count, round |-> m.round,
                 calls |-> m.calls, todo |-> m.todo, usage |-> m.usage]
  BY DEF Mems

\* The locals after a batch of text was committed.
LEMMA FlushedMem ==
  ASSUME NEW m \in Mems, NEW n \in Nat
  PROVE  [m EXCEPT !.pub = @ + n, !.count = @ + n] \in Mems
<1>1. m.pub + n \in Nat /\ m.count + n \in Nat BY MemParts
<1> QED BY <1>1, MemParts DEF Mems

\* The locals after the provider asked for a tool.
LEMMA CalledMem ==
  ASSUME NEW m \in Mems, NEW call \in CallIds
  PROVE  [m EXCEPT !.calls = @ + 1, !.todo = Append(@, call)] \in Mems
<1>1. m.calls + 1 \in Nat /\ Append(m.todo, call) \in Seq(CallIds) BY MemParts
<1> QED BY <1>1, MemParts DEF Mems

\* The locals after a tool call is done, and at the next round.
LEMMA NextToolMem ==
  ASSUME NEW m \in Mems, NEW todo \in Seq(CallIds)
  PROVE  /\ [m EXCEPT !.todo = todo] \in Mems
         /\ [m EXCEPT !.todo = todo, !.round = @ + 1] \in Mems
<1>1. m.round + 1 \in Nat BY MemParts
<1> QED BY MemParts, <1>1 DEF Mems

\* The end of execute() keeps the executors' types.
LEMMA EndType ==
  ASSUME TypeOK, NEW e \in Executors, End(e)
  PROVE  pc' \in [Executors -> PCs] /\ mem' \in [Executors -> Mems]
  BY FreshMemType, SetMemType, GotoType DEF End, PCs

\* An error of an await keeps pc's and mem's types.
LEMMA AbortType ==
  ASSUME TypeOK, NEW e \in Executors, Abort(e)
  PROVE  pc' \in [Executors -> PCs] /\ mem' \in [Executors -> Mems]
  BY EndType DEF Abort, Goto, TypeOK, PCs, TxPcs, FinishPcs

\* A step that only moves the executor keeps every type.
LEMMA StepType ==
  ASSUME TypeOK, NEW e \in Executors, NEW from, NEW next \in PCs, Step(e, from, next),
         mem' \in [Executors -> Mems]
  PROVE  TypeOK'
  BY GotoType DEF Step, rowVars, TypeOK

\* Where the steps of execute_inner lie.
LEMMA PlainFacts ==
  /\ PlainPcs \subseteq PCs /\ TxPcs \subseteq PCs
  /\ {"flush_usage", "flush_end", "flush_timer", "tool_call", "tool_result", "tool_denied",
      "complete", "cancel", "context_built", "model_selected", "fail", "release"} \subseteq PCs
  BY AppendFacts, FlushFacts DEF PCs, TxPcs, FinishPcs

\* flush_text_events publishes what is pending and no more.
LEMMA NextBatchType ==
  ASSUME TypeOK, LocalsOK, NEW e \in Executors
  PROVE  /\ NextBatch(e) \in Nat
         /\ mem[e].pub + NextBatch(e) <= mem[e].recv
  BY LimitsAssumption DEF NextBatch, Pending, TypeOK, Mems, LocalsOK

\* COMMIT and rollback keep the transactions' types.
LEMMA CloseTxType ==
  ASSUME TypeOK, NEW e \in Executors, CloseTx(e)
  PROVE  /\ tx' \in [Executors -> {None, "live", "expired", "held"}]
         /\ lock' \subseteq Executors
  BY DEF TypeOK, CloseTx, SetTx

\* Every step of the engine keeps TypeOK.
LEMMA TypeStep ==
  ASSUME TypeOK, LocalsOK, OwnedUntilCommit, [Next]_vars
  PROVE  TypeOK'
<1> USE DEF execVars, clientVars, rowVars, Claimable, FirstStep, Cancelable, CancelPending,
            Renewable, Renewed, DeleteMayGo, AccessUnlocked
<1>1. ASSUME NEW c \in Conversations, NEW r \in Runs, NEW sub \in Submissions,
             NEW print \in Fingerprints, StartTurn(c, r, sub, print)
      PROVE  TypeOK'
  <2>1. Len(messages[c]) + 1 \in Nat BY DEF TypeOK
  <2>2. replies' \subseteq Replies BY <1>1 DEF StartTurn, Reply, Replies, TypeOK
  <2> QED BY <1>1, <2>1, <2>2, InsertMessageType, InsertRunType DEF StartTurn, TypeOK, Message, Messages
<1>2. ASSUME NEW c \in Conversations, NEW r \in Runs, NEW sub \in Submissions,
             NEW print \in Fingerprints, RepeatTurn(c, r, sub, print)
      PROVE  TypeOK' BY <1>2 DEF RepeatTurn, Reply, Replies, TypeOK
<1>3. ASSUME NEW c \in Conversations, AppendMessage(c)
      PROVE  TypeOK' BY <1>3, InsertMessageType DEF AppendMessage, TypeOK, Message, Messages
<1>4. ASSUME NEW c \in Conversations, NEW r \in Runs, StartRun(c, r)
      PROVE  TypeOK'
  <2>1. Len(messages[c]) \in Nat BY DEF TypeOK
  <2> QED BY <1>4, <2>1, InsertRunType DEF StartRun, TypeOK
<1>5. ASSUME NEW r \in Runs, CancelRun(r)
      PROVE  TypeOK'
  <2>1. run[r] \in RunRows /\ "canceled" \in RunStates BY DEF TypeOK, RunStates, TerminalStates
  <2>2. Event("run.cancel_requested", 0, 0) \in Events /\ Event("run.canceled", 0, 0) \in Events
    BY Ranges DEF Event, Events, EventTypes, TerminalEvents
  <2>3. <<Event("run.cancel_requested", 0, 0)>> \in Seq(Events) BY <2>2
  <2>4. <<Event("run.cancel_requested", 0, 0), Event("run.canceled", 0, 0)>> \in Seq(Events) BY <2>2
  <2>5. run' \in [Runs -> RunRows] BY <1>5, UpdateType, <2>1, Ranges DEF CancelRun, RunRows
  <2>6. log' \in [Runs -> Seq(Events)] BY <1>5, <2>3, <2>4, PublishType DEF CancelRun
  <2> QED BY <1>5, <2>5, <2>6 DEF CancelRun, TypeOK
<1>6. ASSUME NEW c \in Conversations, BeginDelete(c)
      PROVE  TypeOK' BY <1>6 DEF BeginDelete, Deletes, TypeOK
<1>7. ASSUME NEW d \in deletes, ApplyDelete(d)
      PROVE  TypeOK'
  <2>1. d.conv \in Conversations /\ d.seen \subseteq Runs BY DEF TypeOK, Deletes
  <2>2. [AbsentRun EXCEPT !.state = "deleted"] \in RunRows BY AbsentRunType DEF RunRows, RunStates
  <2>3. \A r \in Runs : run[r] \in RunRows BY DEF TypeOK
  <2>4. run' \in [Runs -> RunRows]
    <3> DEFINE gone == [AbsentRun EXCEPT !.state = "deleted"]
               orphan(r) == [run[r] EXCEPT !.conv = None, !.input = 0]
               orphans == {r \in Runs \ d.seen : run[r].conv = d.conv}
    <3>1. run' = [r \in Runs |-> IF r \in d.seen THEN gone
                                ELSE IF r \in orphans THEN orphan(r) ELSE run[r]] BY <1>7 DEF ApplyDelete
    <3>2. gone \in RunRows /\ \A r \in Runs : orphan(r) \in RunRows BY <2>2, <2>3 DEF RunRows
    <3> HIDE DEF gone, orphan, orphans
    <3> QED BY <3>1, <3>2, <2>3
  <2>5. messages' = [messages EXCEPT ![d.conv] = << >>] BY <1>7 DEF ApplyDelete
  <2>6. messages' \in [Conversations -> Seq(Messages)] BY <2>1, <2>5 DEF TypeOK
  <2>7. log' \in [Runs -> Seq(Events)]
    <3>1. log' = [r \in Runs |-> IF r \in d.seen THEN << >> ELSE log[r]] BY <1>7 DEF ApplyDelete
    <3> QED BY <3>1 DEF TypeOK
  <2>8. /\ conv' = [conv EXCEPT ![d.conv] = "deleted"]
        /\ toolCalls' = {row \in toolCalls : row.run \notin d.seen}
        /\ deletes' = deletes \ {d}
        /\ UNCHANGED <<replies, access, pc, tx, mem, lock>> BY <1>7 DEF ApplyDelete
  <2> QED BY <2>1, <2>8, <2>4, <2>6, <2>7, <1>7 DEF TypeOK, ApplyDelete, RebuildProjection
<1>8. CASE RevokeAccess BY <1>8 DEF RevokeAccess, TypeOK
<1>9. ASSUME NEW r \in Runs, Claim(r)
      PROVE  TypeOK'
  <2> DEFINE a == run[r].attempts + 1
  <2>1. a \in Attempts /\ <<r, a>> \in Executors BY <1>9 DEF Claim, Executors
  <2>2. run[r] \in RunRows /\ a \in 0..MaxAttempts BY <2>1 DEF TypeOK, Attempts
  <2>3. pc' \in [Executors -> PCs]
    BY <1>9, <2>1, AppendFacts, CheckFacts DEF Claim, Goto, TypeOK, PCs, TxPcs, PlainPcs
  <2>4. mem' \in [Executors -> Mems] BY <1>9, <2>1, SetMemType, FreshMemType DEF Claim
  <2> QED BY <1>9, <2>3, <2>4, UpdateType, <2>2, Ranges DEF Claim, TypeOK, RunRows
<1>10. ASSUME NEW r \in Runs, FinalizeCancellation(r)
       PROVE  TypeOK'
  BY <1>10, FinishType, PublishType, EventType, Ranges DEF FinalizeCancellation, TypeOK, TerminalStates, EventTypes,
    TerminalEvents
<1>11. ASSUME NEW r \in Runs, Tick(r)
       PROVE  TypeOK'
  <2>1. run[r] \in RunRows /\ run[r].lease - 1 \in 0..LeaseTicks BY <1>11, LeaseAssumption DEF Tick, TypeOK, RunRows
  <2> QED BY <1>11, UpdateType, <2>1 DEF Tick, TypeOK, RunRows
<1>12. ASSUME NEW e \in Executors, Renew(e)
       PROVE  TypeOK'
  <2>1. run[e[1]] \in RunRows BY ExecutorParts DEF TypeOK
  <2> QED BY <1>12, UpdateType, ExecutorParts, <2>1, Ranges DEF Renew, TypeOK, RunRows
<1>13. ASSUME NEW e \in Executors, Begin(e)
       PROVE  TypeOK' BY <1>13 DEF Begin, SetTx, TypeOK
<1>14. ASSUME NEW e \in Executors, Acquire(e)
       PROVE  TypeOK' BY <1>14 DEF Acquire, SetTx, TypeOK
<1>15. ASSUME NEW e \in Executors, Refused(e)
       PROVE  TypeOK' BY <1>15, AbortType, CloseTxType DEF Refused, TypeOK
<1>16. ASSUME NEW e \in Executors, NEW ack \in BOOLEAN, CommitAppend(e, ack)
       PROVE  TypeOK'
  <2>1. <<Event(Appends[pc[e]].event, e[2], 0)>> \in Seq(Events)
    BY <1>16, AppendFacts, EventType, ExecutorParts, BoundsAssumption DEF CommitAppend
  <2> QED
    BY <1>16, CloseTxType, AppendFacts, GotoType, AbortType, <2>1, PublishType, ExecutorParts DEF CommitAppend,
      TypeOK, Continue
<1>17. ASSUME NEW e \in Executors, NEW ack \in BOOLEAN, CommitTransition(e, ack)
       PROVE  TypeOK'
  <2>1. log' \in [Runs -> Seq(Events)]
    BY <1>17, PublishType, ExecutorParts, TransitionFacts, EventType, BoundsAssumption DEF CommitTransition
  <2>2. run[e[1]] \in RunRows /\ Transitions[pc[e]].state \in RunStates
    BY <1>17, TransitionFacts, ExecutorParts DEF CommitTransition, TypeOK, RunStates
  <2>3. run' \in [Runs -> RunRows] BY <1>17, UpdateType, ExecutorParts, <2>2 DEF CommitTransition, RunRows
  <2> QED
    BY <1>17, <2>1, <2>3, CloseTxType, TransitionFacts, GotoType, AbortType DEF CommitTransition, TypeOK, Continue
<1>18. ASSUME NEW e \in Executors, NEW ack \in BOOLEAN, CommitFlush(e, ack)
       PROVE  TypeOK'
  <2>1. "model.text_delta" \in EventTypes BY DEF EventTypes
  <2>2. <<Event("model.text_delta", e[2], NextBatch(e))>> \in Seq(Events)
    BY <2>1, NextBatchType, EventType, ExecutorParts, BoundsAssumption
  <2>3. mem' \in [Executors -> Mems] BY <1>18, SetMemType, FlushedMem, NextBatchType DEF CommitFlush, TypeOK
  <2> QED BY <1>18, <2>3, CloseTxType, <2>2, PublishType, ExecutorParts, PlainFacts DEF CommitFlush, TypeOK, Goto
<1>19. ASSUME NEW e \in Executors, NEW ack \in BOOLEAN, CommitComplete(e, ack)
       PROVE  TypeOK'
  <2>1. e[1] \in Runs BY ExecutorParts
  <2>2. <<Event("run.completed", e[2], 0), Event("token_metrics", e[2], 0)>> \in Seq(Events)
    BY ExecutorParts, BoundsAssumption DEF Event, Events, EventTypes, TerminalEvents
  <2>3. run' \in [Runs -> RunRows] BY <1>19, <2>1, FinishType DEF CommitComplete, TerminalStates
  <2>4. messages' \in [Conversations -> Seq(Messages)] /\ projected' \in [Conversations -> Nat]
    BY <1>19, InsertMessageType, <2>1 DEF CommitComplete, OwnedUntilCommit, Accessible, TypeOK, RunRows, Message,
      Messages, Mems
  <2>5. pc' \in [Executors -> PCs] /\ mem' \in [Executors -> Mems] BY <1>19, EndType, AbortType DEF CommitComplete
  <2> QED BY <1>19, <2>3, <2>4, <2>5, CloseTxType, <2>1, <2>2, PublishType DEF CommitComplete, TypeOK
<1>20. ASSUME NEW e \in Executors, NEW ack \in BOOLEAN, CommitCancel(e, ack)
       PROVE  TypeOK'
  <2>1. e[1] \in Runs BY ExecutorParts
  <2>2. <<Event("run.canceled", e[2], 0)>> \in Seq(Events)
    <3>1. e[2] \in 0..MaxAttempts BY ExecutorParts, BoundsAssumption
    <3> QED BY <3>1, EventType DEF EventTypes, TerminalEvents
  <2>3. pc' \in [Executors -> PCs] /\ mem' \in [Executors -> Mems] BY <1>20, EndType, AbortType DEF CommitCancel
  <2> QED BY <1>20, <2>3, CloseTxType, <2>1, <2>2, PublishType, FinishType DEF CommitCancel, TypeOK, TerminalStates
<1>21. ASSUME NEW e \in Executors, CommitFail(e)
       PROVE  TypeOK'
  <2>1. e[1] \in Runs BY ExecutorParts
  <2> DEFINE type == IF run[e[1]].cancel THEN "run.canceled" ELSE "run.failed"
             state == IF run[e[1]].cancel THEN "canceled" ELSE "failed"
  <2>2. type \in EventTypes /\ state \in TerminalStates BY DEF EventTypes, TerminalEvents, TerminalStates
  <2>3. log' \in [Runs -> Seq(Events)]
    BY <1>21, <2>1, PublishType, <2>2, EventType, ExecutorParts, BoundsAssumption DEF CommitFail
  <2> QED BY <1>21, <2>3, CloseTxType, <2>1, <2>2, FinishType, EndType DEF CommitFail, TypeOK
<1>22. ASSUME NEW e \in Executors,
              \/ CheckCanceled(e) \/ PollCanceled(e) \/ ReadAccess(e) \/ LoadRoutes(e)
              \/ WriteOwned(e) \/ StreamEnds(e) \/ FlushTimer(e) \/ FlushDone(e)
              \/ Decide(e) \/ Authorize(e) \/ RunTool(e)
       PROVE  TypeOK'
  <2>1. mem' \in [Executors -> Mems]
    BY <1>22 DEF CheckCanceled, PollCanceled, ReadAccess, LoadRoutes, WriteOwned, StreamEnds, FlushTimer, FlushDone,
      Decide, Authorize, RunTool, TypeOK
  <2>2. \E from, next : next \in PCs /\ Step(e, from, next)
    BY <1>22, CheckFacts, FlushFacts, PlainFacts DEF CheckCanceled, PollCanceled, ReadAccess, LoadRoutes, WriteOwned,
      StreamEnds, FlushTimer, FlushDone, Decide, Authorize, RunTool, PlainPcs
  <2> QED BY <2>1, <2>2, StepType
<1>23. ASSUME NEW e \in Executors, OpenProvider(e)
       PROVE  TypeOK'
  <2>1. [mem[e] EXCEPT !.count = 0, !.usage = FALSE] \in Mems BY DEF Mems, TypeOK
  <2> QED BY <1>23, StepType, PlainFacts, <2>1, SetMemType DEF OpenProvider, PlainPcs
<1>24. ASSUME NEW e \in Executors, ReceiveText(e)
       PROVE  TypeOK'
  <2>1. mem[e] \in Mems BY DEF TypeOK
  <2>2. [mem[e] EXCEPT !.recv = @ + 1] \in Mems BY <2>1 DEF Mems
  <2> QED BY <1>24, StepType, PlainFacts, <2>2, SetMemType DEF ReceiveText, PlainPcs
<1>25. ASSUME NEW e \in Executors, ReceiveUsage(e)
       PROVE  TypeOK'
  <2>1. [mem[e] EXCEPT !.usage = TRUE] \in Mems BY DEF Mems, TypeOK
  <2> QED BY <1>25, StepType, PlainFacts, <2>1, SetMemType DEF ReceiveUsage
<1>26. ASSUME NEW e \in Executors, NEW call \in CallIds, ReceiveToolCall(e, call)
       PROVE  TypeOK' BY <1>26, StepType, PlainFacts, SetMemType, CalledMem DEF ReceiveToolCall, PlainPcs, TypeOK
<1>27. ASSUME NEW e \in Executors, StoreToolCall(e)
       PROVE  TypeOK'
  <2>1. Head(mem[e].todo) \in CallIds BY <1>27 DEF StoreToolCall, LocalsOK, ToolPcs, TypeOK, Mems
  <2>2. pc' \in [Executors -> PCs] BY <1>27, GotoType, PlainFacts DEF StoreToolCall, PlainPcs
  <2> QED BY <1>27, <2>2, <2>1, ExecutorParts DEF StoreToolCall, TypeOK, ToolRows
<1>28. ASSUME NEW e \in Executors, NextTool(e)
       PROVE  TypeOK'
  <2>1. mem[e] \in Mems /\ mem[e].todo \in Seq(CallIds) /\ mem[e].todo # << >>
    BY <1>28 DEF LocalsOK, ToolPcs, TypeOK, Mems, NextTool, Step
  <2>2. Tail(mem[e].todo) \in Seq(CallIds) BY <2>1
  <2> QED BY <1>28, StepType, PlainFacts, SetMemType, <2>1, <2>2, NextToolMem DEF NextTool, PlainPcs
<1>29. ASSUME NEW e \in Executors, StepFails(e)
       PROVE  TypeOK' BY <1>29, AbortType, CloseTxType DEF StepFails, TypeOK
<1>30. ASSUME NEW e \in Executors, Shutdown(e)
       PROVE  TypeOK' BY <1>30, GotoType, PlainFacts, CloseTxType DEF Shutdown, TypeOK
<1>31. ASSUME NEW e \in Executors, Release(e)
       PROVE  TypeOK'
  <2>1. run[e[1]] \in RunRows BY ExecutorParts DEF TypeOK
  <2> QED BY <1>31, EndType, UpdateType, ExecutorParts, <2>1, Ranges DEF Release, TypeOK, RunRows
<1>32. ASSUME NEW e \in Executors, Crash(e)
       PROVE  TypeOK' BY <1>32, EndType, CloseTxType DEF Crash, TypeOK
<1>33. CASE UNCHANGED vars BY <1>33 DEF vars, TypeOK
<1> QED
  BY <1>1, <1>2, <1>3, <1>4, <1>5, <1>6, <1>7, <1>8, <1>9, <1>10, <1>11, <1>12, <1>13, <1>14, <1>15, <1>16, <1>17,
    <1>18, <1>19, <1>20, <1>21, <1>22, <1>23, <1>24, <1>25, <1>26, <1>27, <1>28, <1>29, <1>30, <1>31, <1>32, <1>33
DEF Next, Client, Worker, Transact, Proceed, Interrupt

(***************************************************************************)
(* The locals of the executors                                             *)
(***************************************************************************)
\* A step that only moves the executor keeps LocalsOK, if it has a tool call at
\* hand where one is worked on.
LEMMA StepLocals ==
  ASSUME TypeOK, LocalsOK, NEW e \in Executors, NEW from \in PlainPcs, NEW next \in PCs,
         Step(e, from, next), UNCHANGED mem,
         next \in ToolPcs => mem[e].todo # << >>
  PROVE  LocalsOK'
  BY AppendFacts, TransitionFacts, FlushFacts, CheckFacts DEF LocalsOK, Step, Goto, TypeOK, PlainPcs, TxPcs, FinishPcs

\* What an executor's step leaves of the other executors
Alone(e) == \A f \in Executors : f # e => /\ pc'[f] = pc[f]
                                         /\ mem'[f] = mem[f]
                                         /\ tx'[f] = tx[f]

\* An error ends the executor, or leaves its locals and moves it out of the tools.
LEMMA AbortEffect ==
  ASSUME TypeOK, NEW e \in Executors, Abort(e)
  PROVE  /\ pc'[e] \in {"release", "fail", "done"}
         /\ mem'[e] = mem[e] \/ mem'[e] = FreshMem
         /\ \A f \in Executors : f # e => pc'[f] = pc[f] /\ mem'[f] = mem[f]
  BY DEF TypeOK, Abort, End, Goto, SetMem

\* COMMIT and rollback change one executor's transaction.
LEMMA CloseTxEffect ==
  ASSUME TypeOK, NEW e \in Executors, CloseTx(e)
  PROVE  /\ tx'[e] = None
         /\ \A f \in Executors : f # e => tx'[f] = tx[f]
         /\ lock' = lock \ {e}
  BY DEF TypeOK, CloseTx, SetTx

\* LocalsOK holds after a step of e if it holds of e.
LEMMA LocalsAt ==
  ASSUME LocalsOK, NEW e \in Executors, Alone(e),
         mem'[e].pub <= mem'[e].recv,
         pc'[e] \in ToolPcs => mem'[e].todo # << >>,
         tx'[e] # None => pc'[e] \in TxPcs
  PROVE  LocalsOK'
  BY DEF LocalsOK, Alone

\* An execution starts with nothing published.
LEMMA FreshLocals == FreshMem.pub <= FreshMem.recv
  BY DEF FreshMem

\* The executor a claim spawns does not exist before it
LEMMA ClaimIsFresh ==
  ASSUME TypeOK, LocalsOK, RowsOK, NEW r \in Runs, Claim(r)
  PROVE  /\ run[r].attempts + 1 \in Attempts
         /\ <<r, run[r].attempts + 1>> \in Executors
         /\ pc[<<r, run[r].attempts + 1>>] = "none"
         /\ tx[<<r, run[r].attempts + 1>>] = None
<1> USE DEF Claimable
<1>1. PICK a \in Attempts : a = run[r].attempts + 1 BY DEF Claim
<1>2. a > run[r].attempts BY <1>1 DEF RunRows, TypeOK
<1>3. pc[<<r, a>>] = "none" BY <1>2 DEF RowsOK, Claim, Active, ActiveStates
<1> QED BY <1>1, <1>3, AppendFacts, TransitionFacts, FlushFacts DEF LocalsOK, TxPcs, FinishPcs, Executors

\* Every step of the engine keeps LocalsOK.
LEMMA LocalsStep ==
  ASSUME TypeOK, LocalsOK, RowsOK, [Next]_vars
  PROVE  LocalsOK'
<1> USE DEF execVars, clientVars, rowVars, Claimable, FirstStep, Cancelable, CancelPending,
            Renewable, Renewed, DeleteMayGo, AccessUnlocked
<1>1. ASSUME UNCHANGED <<pc, mem, tx>> PROVE LocalsOK' BY <1>1 DEF LocalsOK
<1>2. ASSUME NEW r \in Runs, Claim(r) PROVE LocalsOK'
  <2> DEFINE e == <<r, run[r].attempts + 1>>
  <2>1. e \in Executors /\ tx[e] = None BY <1>2, ClaimIsFresh
  <2>2. Alone(e) /\ mem'[e] = FreshMem /\ pc'[e] \in {"reset", "check_start"} /\ tx'[e] = None
    BY <1>2, <2>1 DEF Claim, Alone, Goto, SetMem, TypeOK
  <2> HIDE DEF e
  <2> QED BY <2>1, <2>2, LocalsAt, FreshLocals DEF ToolPcs
<1>3. ASSUME NEW e \in Executors, Begin(e) \/ Acquire(e) PROVE LocalsOK'
  BY LocalsAt, <1>3 DEF LocalsOK, Begin, Acquire, SetTx, TypeOK, Alone, None
<1>4. ASSUME NEW e \in Executors, Abort(e), CloseTx(e) PROVE LocalsOK'
  BY LocalsAt, <1>4, AbortEffect, CloseTxEffect, FreshLocals DEF ToolPcs, Alone, LocalsOK
<1>5. ASSUME NEW e \in Executors, End(e), CloseTx(e) \/ (UNCHANGED tx /\ tx[e] = None)
      PROVE  LocalsOK'
  <2>1. Alone(e) /\ tx'[e] = None /\ pc'[e] = "done" /\ mem'[e] = FreshMem
    BY <1>5, CloseTxEffect DEF Alone, End, Goto, SetMem, TypeOK
  <2> QED BY <2>1, LocalsAt, FreshLocals DEF ToolPcs
<1>6. ASSUME NEW e \in Executors, Shutdown(e) PROVE LocalsOK'
  BY LocalsAt, <1>6, CloseTxEffect DEF ToolPcs, LocalsOK, Shutdown, Alone, Goto, TypeOK
<1>7. ASSUME NEW e \in Executors, NEW ack \in BOOLEAN,
             CommitAppend(e, ack) \/ CommitTransition(e, ack)
      PROVE  LocalsOK'
  <2>1. CASE ~ack BY <1>7, <2>1, <1>4 DEF CommitAppend, CommitTransition, Continue
  <2>2. CASE ack
    <3>1. Alone(e) /\ tx'[e] = None /\ mem'[e] = mem[e]
      BY <1>7, <2>2, CloseTxEffect DEF CommitAppend, CommitTransition, Continue, Alone, Goto, TypeOK
    <3>2. CASE pc[e] \in AppendPcs
      <4>1. Appends[pc[e]].next \in ToolPcs => pc[e] \in ToolPcs BY <3>2, AppendFacts DEF Appends, ToolPcs
      <4> QED
        BY <3>1, <4>1, LocalsAt, <1>7, <2>2, <3>2, AppendFacts, TransitionFacts DEF LocalsOK, CommitAppend,
          CommitTransition, Continue, Goto, TypeOK
    <3>3. CASE pc[e] \in TransitionPcs
      <4>1. Transitions[pc[e]].next \notin ToolPcs BY <3>3, TransitionFacts DEF Transitions, ToolPcs
      <4> QED
        BY <3>1, <4>1, LocalsAt, <1>7, <2>2, <3>3, AppendFacts, TransitionFacts DEF LocalsOK, CommitAppend,
          CommitTransition, Continue, Goto, TypeOK
    <3> QED BY <1>7, <3>2, <3>3 DEF CommitAppend, CommitTransition
  <2> QED BY <2>1, <2>2
<1>8. ASSUME NEW e \in Executors, NEW ack \in BOOLEAN, CommitFlush(e, ack) PROVE LocalsOK'
  <2>1. mem'[e].pub = mem[e].pub + NextBatch(e) /\ mem'[e].recv = mem[e].recv
    BY <1>8 DEF Mems, TypeOK, CommitFlush, SetMem
  <2> QED
    BY <2>1, NextBatchType, LocalsAt, FlushFacts, <1>8, CloseTxEffect DEF ToolPcs, CommitFlush, SetMem, Goto, TypeOK,
      Alone
<1>9. ASSUME NEW e \in Executors,
             \/ CheckCanceled(e) \/ PollCanceled(e) \/ ReadAccess(e) \/ LoadRoutes(e)
             \/ WriteOwned(e) \/ StreamEnds(e) \/ FlushTimer(e)
             \/ Decide(e) \/ Authorize(e) \/ RunTool(e)
      PROVE  LocalsOK'
  <2>1. \E from \in PlainPcs, next \in PCs :
          Step(e, from, next) /\ (next \in ToolPcs => mem[e].todo # << >>)
    <3>1. CASE CheckCanceled(e) BY <3>1, CheckFacts, PlainFacts DEF CheckCanceled, PlainPcs, Checks, ToolPcs
    <3>2. CASE PollCanceled(e) \/ ReadAccess(e) \/ LoadRoutes(e) \/ WriteOwned(e)
               \/ StreamEnds(e) \/ FlushTimer(e)
      BY <3>2, PlainFacts DEF PollCanceled, ReadAccess, LoadRoutes, WriteOwned, StreamEnds, FlushTimer, PlainPcs,
        ToolPcs
    <3>3. CASE Decide(e) BY <3>3, CheckFacts, PlainFacts DEF Decide, PlainPcs, ToolPcs
    <3>4. CASE Authorize(e) \/ RunTool(e)
      BY <3>4, PlainFacts DEF Authorize, RunTool, Step, PlainPcs, ToolPcs, LocalsOK
    <3> QED BY <1>9, <3>1, <3>2, <3>3, <3>4
  <2> QED
    BY <2>1, StepLocals, <1>9 DEF CheckCanceled, PollCanceled, ReadAccess, LoadRoutes, WriteOwned, StreamEnds,
      FlushTimer, Decide, Authorize, RunTool
<1>10. ASSUME NEW e \in Executors, FlushDone(e) PROVE LocalsOK'
  BY LocalsAt, <1>10, FlushFacts DEF LocalsOK, FlushDone, Step, Goto, TypeOK, Alone, Flushes, ToolPcs
<1>11. ASSUME NEW e \in Executors,
              \/ OpenProvider(e) \/ ReceiveText(e) \/ ReceiveUsage(e)
              \/ \E call \in CallIds : ReceiveToolCall(e, call)
       PROVE  LocalsOK'
  <2>1. pc[e] \in {"open", "stream"} /\ pc'[e] \in {"select_model", "stream", "flush_usage"}
    BY <1>11 DEF OpenProvider, ReceiveText, ReceiveUsage, ReceiveToolCall, Step, Goto, TypeOK
  <2>2. tx[e] = None BY <2>1, AppendFacts, TransitionFacts, FlushFacts DEF LocalsOK, TxPcs, FinishPcs
  <2>3. mem[e] \in Mems /\ mem[e].pub <= mem[e].recv BY DEF TypeOK, LocalsOK
  <2>4. mem'[e].pub = mem[e].pub /\ (mem'[e].recv = mem[e].recv \/ mem'[e].recv = mem[e].recv + 1)
    <3>1. CASE OpenProvider(e) BY <2>3, <3>1, MemParts DEF OpenProvider, SetMem, TypeOK
    <3>2. CASE ReceiveText(e) BY <2>3, <3>2, MemParts DEF ReceiveText, SetMem, TypeOK
    <3>3. CASE ReceiveUsage(e) BY <2>3, <3>3, MemParts DEF ReceiveUsage, SetMem, TypeOK
    <3>4. CASE \E call \in CallIds : ReceiveToolCall(e, call)
      BY <2>3, <3>4, MemParts DEF ReceiveToolCall, SetMem, TypeOK
    <3> QED BY <1>11, <3>1, <3>2, <3>3, <3>4
  <2>5. mem'[e].pub <= mem'[e].recv BY <2>3, <2>4, MemParts
  <2> QED
    BY <2>1, <2>2, <2>5, LocalsAt, <1>11 DEF ToolPcs, OpenProvider, ReceiveText, ReceiveUsage, ReceiveToolCall, Step,
      SetMem, Goto, TypeOK, Alone
<1>12. ASSUME NEW e \in Executors, StoreToolCall(e) PROVE LocalsOK'
  BY LocalsAt, AppendFacts, TransitionFacts, FlushFacts, <1>12 DEF LocalsOK, TxPcs, FinishPcs, ToolPcs, StoreToolCall,
    Goto, TypeOK, Alone
<1>13. ASSUME NEW e \in Executors, NextTool(e) PROVE LocalsOK'
  <2>1. Alone(e) /\ tx'[e] = tx[e] /\ pc[e] = "next_tool" BY <1>13 DEF NextTool, Step, Goto, SetMem, TypeOK, Alone
  <2>2. mem[e] \in Mems /\ mem[e].pub <= mem[e].recv BY DEF TypeOK, LocalsOK
  <2>3. mem'[e].pub <= mem'[e].recv BY <1>13, <2>2, MemParts DEF NextTool, SetMem, TypeOK
  <2>4. pc'[e] \in ToolPcs => mem'[e].todo # << >>
    BY <1>13, <2>2, MemParts DEF NextTool, Step, Goto, SetMem, TypeOK, ToolPcs
  <2> QED BY <2>1, <2>3, <2>4, LocalsAt, AppendFacts, TransitionFacts, FlushFacts DEF LocalsOK, TxPcs, FinishPcs
<1>14. ASSUME NEW e \in Executors, Release(e) PROVE LocalsOK'
  BY <1>14, <1>5, AppendFacts, TransitionFacts, FlushFacts DEF Release, LocalsOK, TxPcs, FinishPcs
<1>15. CASE Client \/ UNCHANGED vars
  <2>1. UNCHANGED <<pc, mem, tx>>
    BY <1>15, ZenonT(40) DEF Client, StartTurn, RepeatTurn, AppendMessage, StartRun, CancelRun, BeginDelete,
      ApplyDelete, RevokeAccess, vars
  <2> QED BY <2>1, <1>1
<1>16. CASE Worker BY <1>16, <1>1, <1>2 DEF Worker, FinalizeCancellation, Tick
<1>17. ASSUME NEW e \in Executors, Transact(e) PROVE LocalsOK'
  BY <1>17, <1>3, <1>4, <1>5, <1>7, <1>8 DEF Transact, Refused, CommitComplete, CommitCancel, CommitFail
<1>18. ASSUME NEW e \in Executors, Proceed(e) PROVE LocalsOK'
  BY <1>18, <1>4, <1>9, <1>10, <1>11, <1>12, <1>13, <1>14 DEF Proceed, StepFails
<1>19. ASSUME NEW e \in Executors, Interrupt(e) PROVE LocalsOK' BY <1>19, <1>1, <1>5, <1>6 DEF Interrupt, Crash, Renew
<1> QED BY <1>15, <1>16, <1>17, <1>18, <1>19 DEF Next

(***************************************************************************)
(* The ownership of an open transaction                                    *)
(***************************************************************************)
\* The part of OwnedUntilCommit about one transaction
Owned(e) == /\ lock = {e}
            /\ run[e[1]].token = e[2]
            /\ Active(e[1])
            /\ pc[e] \notin {"cancel", "fail"} => ~run[e[1]].cancel
            /\ pc[e] = "complete" => Accessible(e[1])

\* Ownership is kept while the row, the lock, the access and the executor stay
LEMMA OwnedKept ==
  ASSUME NEW e \in Executors, Owned(e), lock' = lock, pc'[e] = pc[e], access' = access,
         run'[e[1]].token = run[e[1]].token, run'[e[1]].state = run[e[1]].state,
         run'[e[1]].cancel = run[e[1]].cancel, run'[e[1]].conv = run[e[1]].conv
  PROVE  Owned(e)'
  BY DEF Owned, Active, Accessible

\* A statement that waits for the advisory lock meets no open transaction
LEMMA NobodyHolds ==
  ASSUME OwnedUntilCommit, lock = {}, UNCHANGED tx
  PROVE  OwnedUntilCommit'
  BY DEF OwnedUntilCommit

\* Every step keeps OwnedUntilCommit: it either waits for the lock, leaves the
\* owner's row alone, or is the owner's own.
LEMMA OwnedStep ==
  ASSUME TypeOK, LocalsOK, RowsOK, OwnedUntilCommit, [Next]_vars
  PROVE  OwnedUntilCommit'
<1> USE DEF execVars, clientVars, rowVars, Claimable, FirstStep, Cancelable, CancelPending,
            Renewable, Renewed, DeleteMayGo, AccessUnlocked
<1>1. \A e \in Executors : tx[e] = "held" => Owned(e) /\ lock = {e} BY DEF OwnedUntilCommit, Owned
<1>2. ASSUME UNCHANGED <<run, access, pc, tx, lock>> PROVE OwnedUntilCommit'
  BY <1>2 DEF OwnedUntilCommit, Active, Accessible
<1>3. ASSUME NEW r \in Runs, NEW row, Update(r, row),
             row.token = run[r].token, row.state = run[r].state,
             row.cancel = run[r].cancel, row.conv = run[r].conv,
             UNCHANGED <<access, pc, tx, lock>>
      PROVE  OwnedUntilCommit'
  <2> SUFFICES ASSUME NEW f \in Executors, tx'[f] = "held" PROVE Owned(f)' BY DEF OwnedUntilCommit, Owned
  <2> QED BY <1>3, OwnedKept, <1>1, ExecutorParts DEF Update, TypeOK
<1>4. ASSUME NEW d \in deletes, ApplyDelete(d) PROVE OwnedUntilCommit'
  <2> SUFFICES ASSUME NEW f \in Executors, tx'[f] = "held" PROVE Owned(f)' BY DEF OwnedUntilCommit, Owned
  <2>1. Owned(f) /\ lock = {f} BY <1>1, <1>4 DEF ApplyDelete
  <2>2. RowLocked(f[1]) BY <2>1, ExecutorParts DEF RowLocked
  <2> DEFINE orphans == {r \in Runs \ d.seen : run[r].conv = d.conv}
  <2> QED BY <1>4, <2>1, OwnedKept, ExecutorParts, <2>2 DEF ApplyDelete
<1>5. ASSUME NEW r \in Runs, Claim(r) PROVE OwnedUntilCommit'
  <2> SUFFICES ASSUME NEW f \in Executors, tx'[f] = "held" PROVE Owned(f)' BY DEF OwnedUntilCommit, Owned
  <2>1. Owned(f) /\ lock = {f} BY <1>1, <1>5 DEF Claim
  <2>2. f[1] # r BY <1>5, <2>1, ExecutorParts DEF Claim, RowLocked
  <2>3. pc'[f] = pc[f] BY <1>5, <2>2, ExecutorParts DEF Claim, Goto, TypeOK
  <2> QED BY <1>5, <2>1, <2>3, OwnedKept, <2>2, ExecutorParts DEF Claim, Update, TypeOK
<1>6. CASE RevokeAccess
  <2> SUFFICES ASSUME NEW f \in Executors, tx'[f] = "held" PROVE Owned(f)' BY DEF OwnedUntilCommit, Owned
  <2> QED BY <1>6, <1>1 DEF RevokeAccess, Owned, Active
<1>7. ASSUME NEW e \in Executors, Begin(e) PROVE OwnedUntilCommit'
  <2> SUFFICES ASSUME NEW f \in Executors, tx'[f] = "held" PROVE Owned(f)' BY DEF OwnedUntilCommit, Owned
  <2> QED BY <1>1, <1>7, OwnedKept DEF Begin, SetTx, TypeOK
<1>8. ASSUME NEW e \in Executors, Acquire(e) PROVE OwnedUntilCommit'
  <2> SUFFICES ASSUME NEW f \in Executors, tx'[f] = "held" PROVE Owned(f)' BY DEF OwnedUntilCommit, Owned
  <2>1. run[e[1]].token = e[2] BY <1>8 DEF Acquire, Guard, OwnsInTx, Fenced
  <2>2. pc[e] \notin {"cancel", "fail"} => ~run[e[1]].cancel BY <1>8 DEF Acquire, Guard, OwnsInTx, Fenced
  <2>3. pc[e] = "complete" => Accessible(e[1]) BY <1>8 DEF Acquire, Guard
  <2> QED BY <1>8, <2>1, <2>2, <2>3, <1>1, ExecutorParts DEF Acquire, Owned, Active, Accessible, SetTx, TypeOK, RowsOK
<1>9. ASSUME NEW e \in Executors, CloseTx(e), UNCHANGED <<run, access>>,
             \A f \in Executors : f # e => pc'[f] = pc[f]
      PROVE  OwnedUntilCommit'
  <2> SUFFICES ASSUME NEW f \in Executors, tx'[f] = "held" PROVE Owned(f)' BY DEF OwnedUntilCommit, Owned
  <2> QED BY <1>9, OwnedKept, <1>1, CloseTxEffect DEF None
<1>10. ASSUME NEW e \in Executors, tx[e] = "held", CloseTx(e) PROVE OwnedUntilCommit'
  <2> SUFFICES ASSUME NEW f \in Executors, tx'[f] = "held" PROVE FALSE BY DEF OwnedUntilCommit, Owned
  <2> QED BY <1>1, <1>10, CloseTxEffect DEF None
<1>11. ASSUME NEW e \in Executors, tx[e] # "held", UNCHANGED <<run, access, tx, lock>>,
              \A f \in Executors : f # e => pc'[f] = pc[f]
       PROVE  OwnedUntilCommit'
  <2> SUFFICES ASSUME NEW f \in Executors, tx'[f] = "held" PROVE Owned(f)' BY DEF OwnedUntilCommit, Owned
  <2> QED BY <1>1, <1>11, OwnedKept
<1>12. ASSUME NEW e \in Executors, NEW from \in PlainPcs, NEW next, Step(e, from, next)
       PROVE  OwnedUntilCommit'
  BY <1>11, <1>12, AppendFacts, TransitionFacts, FlushFacts, CheckFacts DEF Step, Goto, TypeOK, LocalsOK, None,
    PlainPcs, TxPcs, FinishPcs
<1>13. ASSUME NEW e \in Executors, Release(e) PROVE OwnedUntilCommit'
  <2> SUFFICES ASSUME NEW f \in Executors, tx'[f] = "held" PROVE Owned(f)' BY DEF OwnedUntilCommit, Owned
  <2>1. f # e /\ Owned(f)
    BY <1>1, <1>13, AppendFacts, TransitionFacts, FlushFacts DEF Release, LocalsOK, TxPcs, FinishPcs, None
  <2>2. run'[f[1]] = run[f[1]]
    <3>1. CASE f[1] = e[1] BY <1>13, <2>1, <3>1, ExecutorParts DEF Release, Owned
    <3>2. CASE f[1] # e[1] BY <1>13, <3>2, ExecutorParts DEF Release, Update, TypeOK
    <3> QED BY <3>1, <3>2
  <2> QED BY <1>13, <2>1, <2>2, OwnedKept DEF Release, End, Goto, TypeOK
<1>14. CASE Client
  <2>1. ASSUME NEW c \in Conversations, NEW r \in Runs, NEW s \in Submissions,
               NEW f \in Fingerprints, StartTurn(c, r, s, f) \/ RepeatTurn(c, r, s, f)
        PROVE  OwnedUntilCommit' BY <2>1, NobodyHolds DEF StartTurn, RepeatTurn
  <2>2. ASSUME NEW c \in Conversations, AppendMessage(c) \/ BeginDelete(c)
        PROVE  OwnedUntilCommit' BY <2>2, <1>2 DEF AppendMessage, BeginDelete
  <2>3. ASSUME NEW c \in Conversations, NEW r \in Runs, StartRun(c, r)
        PROVE  OwnedUntilCommit' BY <2>3, NobodyHolds DEF StartRun
  <2>4. ASSUME NEW r \in Runs, CancelRun(r) PROVE OwnedUntilCommit' BY <2>4, NobodyHolds DEF CancelRun
  <2> QED BY <1>4, <1>6, <1>14, <2>1, <2>2, <2>3, <2>4 DEF Client
<1>15. CASE Worker
  <2>1. ASSUME NEW r \in Runs, FinalizeCancellation(r) PROVE OwnedUntilCommit'
    BY <2>1, NobodyHolds DEF FinalizeCancellation
  <2>2. ASSUME NEW r \in Runs, Tick(r) PROVE OwnedUntilCommit'
    <3> DEFINE row == [run[r] EXCEPT !.lease = @ - 1]
    <3>1. /\ row.token = run[r].token /\ row.state = run[r].state
          /\ row.cancel = run[r].cancel /\ row.conv = run[r].conv BY DEF RunRows, TypeOK
    <3>2. Update(r, row) /\ UNCHANGED <<access, pc, tx, lock>> BY <2>2 DEF Tick
    <3> HIDE DEF row
    <3> QED BY <1>3, <3>1, <3>2
  <2> QED BY <1>5, <1>15, <2>1, <2>2 DEF Worker
<1>16. ASSUME NEW e \in Executors, Transact(e) PROVE OwnedUntilCommit'
  <2>1. CASE Refused(e) BY <2>1, <1>9, AbortEffect DEF Refused
  <2>2. CASE CommitFail(e) BY <2>2, <1>10 DEF CommitFail
  <2>3. ASSUME NEW ack \in BOOLEAN,
               \/ CommitAppend(e, ack) \/ CommitTransition(e, ack) \/ CommitFlush(e, ack)
               \/ CommitComplete(e, ack) \/ CommitCancel(e, ack)
        PROVE  OwnedUntilCommit'
    BY <1>10, <2>3 DEF CommitAppend, CommitTransition, CommitFlush, CommitComplete, CommitCancel
  <2> QED BY <1>7, <1>8, <1>16, <2>1, <2>2, <2>3 DEF Transact
<1>17. ASSUME NEW e \in Executors, Proceed(e) PROVE OwnedUntilCommit'
  <2>1. CASE CheckCanceled(e) BY <2>1, <1>12 DEF CheckCanceled, PlainPcs
  <2>2. CASE \/ PollCanceled(e) \/ ReadAccess(e) \/ LoadRoutes(e) \/ WriteOwned(e)
             \/ OpenProvider(e) \/ ReceiveText(e) \/ ReceiveUsage(e)
             \/ \E call \in CallIds : ReceiveToolCall(e, call)
    BY <1>12, <2>2 DEF PollCanceled, ReadAccess, LoadRoutes, WriteOwned, OpenProvider, ReceiveText, ReceiveUsage,
      ReceiveToolCall, PlainPcs
  <2>3. CASE \/ StreamEnds(e) \/ FlushTimer(e) \/ Decide(e) \/ Authorize(e)
             \/ RunTool(e) \/ NextTool(e)
    BY <1>12, <2>3 DEF StreamEnds, FlushTimer, Decide, Authorize, RunTool, NextTool, PlainPcs
  <2>4. CASE FlushDone(e) BY <2>4, <1>11 DEF FlushDone, Step, Goto, TypeOK, None
  <2>5. CASE StoreToolCall(e)
    BY <2>5, <1>11, AppendFacts, TransitionFacts, FlushFacts DEF StoreToolCall, Goto, TypeOK, LocalsOK, TxPcs,
      FinishPcs, None
  <2>6. CASE StepFails(e) BY <2>6, <1>9, AbortEffect DEF StepFails
  <2> QED BY <1>13, <1>17, <2>1, <2>2, <2>3, <2>4, <2>5, <2>6 DEF Proceed
<1>18. ASSUME NEW e \in Executors, Interrupt(e) PROVE OwnedUntilCommit'
  <2>1. CASE Shutdown(e) \/ Crash(e) BY <2>1, <1>9 DEF Shutdown, Crash, End, Goto, TypeOK
  <2>2. CASE Renew(e)
    <3> DEFINE row == [run[e[1]] EXCEPT !.lease = LeaseTicks]
    <3>1. e[1] \in Runs /\ run[e[1]] \in RunRows BY ExecutorParts DEF TypeOK
    <3>2. /\ row.token = run[e[1]].token /\ row.state = run[e[1]].state
          /\ row.cancel = run[e[1]].cancel /\ row.conv = run[e[1]].conv BY <3>1 DEF RunRows
    <3>3. Update(e[1], row) /\ UNCHANGED <<access, pc, tx, lock>> BY <2>2 DEF Renew
    <3> HIDE DEF row
    <3> QED BY <1>3, <3>1, <3>2, <3>3
  <2> QED BY <1>18, <2>1, <2>2 DEF Interrupt
<1>19. CASE UNCHANGED vars BY <1>19, <1>2 DEF vars
<1> QED BY <1>14, <1>15, <1>16, <1>17, <1>18, <1>19 DEF Next

(***************************************************************************)
(* The rows of agent_runs                                                  *)
(***************************************************************************)
\* What one step may do to a row: nothing; insert it; delete it; cut it from
\* its conversation; or, while it is active, write it so that a token is kept
\* on an active row only and a cancellation is neither completed nor failed.
RowChange(r) ==
  \/ run'[r] = run[r]
  \/ /\ run[r].state = "absent" /\ run'[r].state = "queued"
     /\ run'[r].token = 0 /\ run'[r].lease = 0 /\ run'[r].attempts = 0 /\ ~run'[r].cancel
  \/ run'[r].state = "deleted" /\ run'[r].token = 0 /\ run'[r].lease = 0
  \/ run'[r] = [run[r] EXCEPT !.conv = None, !.input = 0]
  \/ /\ Active(r)
     /\ run'[r].state \in ActiveStates \cup TerminalStates
     /\ run'[r].attempts >= run[r].attempts
     /\ run'[r].token # 0 => run'[r].state \in ActiveStates
     /\ run'[r].lease # 0 => run'[r].token # 0
     /\ run'[r].cancel => run'[r].state \notin {"completed", "failed"}

\* The fields of a row of agent_runs.
LEMMA RowParts ==
  ASSUME NEW row \in RunRows
  PROVE  /\ row.state \in RunStates /\ row.token \in 0..MaxAttempts
         /\ row.lease \in 0..LeaseTicks /\ row.cancel \in BOOLEAN
         /\ row.attempts \in 0..MaxAttempts
         /\ row.attempts >= row.attempts
         /\ DOMAIN row = {"state", "conv", "input", "sub", "print", "token", "lease",
                          "cancel", "attempts"}
  BY BoundsAssumption, LeaseAssumption DEF RunRows

\* A step that writes one row, or none
LEMMA RowChangeAt ==
  ASSUME TypeOK, NEW r \in Runs, NEW row, Update(r, row), RowChange(r)
  PROVE  \A q \in Runs : RowChange(q)
<1> SUFFICES ASSUME NEW q \in Runs, q # r PROVE RowChange(q) OBVIOUS
<1> QED BY DEF RowChange, Update, TypeOK

\* A step that writes no row.
LEMMA RowsUnchanged ==
  ASSUME UNCHANGED run
  PROVE  \A q \in Runs : RowChange(q)
  BY DEF RowChange

\* Ending an active run is a change RowChange allows.
LEMMA FinishChange ==
  ASSUME TypeOK, NEW r \in Runs, NEW state \in TerminalStates, Active(r), Finish(r, state),
         run[r].cancel => state = "canceled"
  PROVE  \A q \in Runs : RowChange(q)
<1>1. RowChange(r) BY RowParts DEF RowChange, TerminalStates, Finish, Update, TypeOK
<1> QED BY <1>1, RowChangeAt DEF Finish

\* So is starting a run.
LEMMA InsertChange ==
  ASSUME TypeOK, NEW r \in Runs, NEW c, NEW ordinal, NEW sub, NEW print,
         InsertRun(r, c, ordinal, sub, print)
  PROVE  \A q \in Runs : RowChange(q)
  BY RowChangeAt DEF InsertRun, Update, AbsentRun, RowChange, TypeOK

\* Every step changes every row in one of the ways of RowChange.
LEMMA RowStep ==
  ASSUME TypeOK, LocalsOK, RowsOK, OwnedUntilCommit, CancelWins, [Next]_vars
  PROVE  \A q \in Runs : RowChange(q)
<1> USE DEF execVars, clientVars, rowVars, Claimable, FirstStep, Cancelable, CancelPending,
            Renewable, Renewed, DeleteMayGo, AccessUnlocked
<1>1. \A r \in Runs : run[r] \in RunRows BY DEF TypeOK
<1>2. ASSUME NEW r \in Runs, CancelRun(r) PROVE \A q \in Runs : RowChange(q)
  <2>1. CASE run[r].token = 0 \/ run[r].lease = 0
    <3>1. Update(r, [run[r] EXCEPT !.cancel = TRUE, !.state = "canceled", !.token = 0,
                                   !.lease = 0]) BY <1>2, <2>1 DEF CancelRun, Abandoned
    <3>2. RowChange(r) BY <1>1, <1>2, RowParts, <3>1 DEF RowChange, TerminalStates, CancelRun, Update, TypeOK
    <3> QED BY <3>1, <3>2, RowChangeAt
  <2>2. CASE ~(run[r].token = 0 \/ run[r].lease = 0)
    <3>1. Update(r, [run[r] EXCEPT !.cancel = TRUE]) BY <1>2, <2>2 DEF CancelRun, Abandoned
    <3>2. RowChange(r)
      BY <1>1, <1>2, <2>2, RowParts, <3>1 DEF RowChange, CancelRun, Active, ActiveStates, Update, TypeOK
    <3> QED BY <3>1, <3>2, RowChangeAt
  <2> QED BY <2>1, <2>2
<1>3. ASSUME NEW d \in deletes, ApplyDelete(d) PROVE \A q \in Runs : RowChange(q)
  <2> SUFFICES ASSUME NEW q \in Runs PROVE RowChange(q) OBVIOUS
  <2> QED BY <1>3 DEF RowChange, AbsentRun, ApplyDelete
<1>4. ASSUME NEW r \in Runs, Claim(r) PROVE \A q \in Runs : RowChange(q)
  <2>1. PICK a \in Attempts : a = run[r].attempts + 1 BY <1>4 DEF Claim
  <2>2. Update(r, [run[r] EXCEPT !.token = a, !.attempts = a, !.lease = LeaseTicks]) BY <1>4, <2>1 DEF Claim
  <2>3. RowChange(r) BY <1>4, <1>1, <2>2, RowParts, <2>1 DEF RowChange, Claim, Active, Update, TypeOK, Attempts
  <2> QED BY <2>2, <2>3, RowChangeAt
<1>5. ASSUME NEW r \in Runs, NEW lease, Update(r, [run[r] EXCEPT !.lease = lease]),
             run[r].token # 0
      PROVE  \A q \in Runs : RowChange(q)
  <2>1. run[r].attempts >= run[r].attempts BY <1>1, RowParts
  <2>2. RowChange(r) BY <1>5, <2>1, <1>1, RowParts DEF RowChange, Active, ActiveStates, Update, TypeOK, RowsOK
  <2> QED BY <1>5, <2>2, RowChangeAt
<1>6. ASSUME NEW e \in Executors, Release(e) PROVE \A q \in Runs : RowChange(q)
  <2>1. CASE run[e[1]].token = e[2] /\ Active(e[1])
    <3>1. e[1] \in Runs /\ run[e[1]] \in RunRows BY <1>1, ExecutorParts
    <3>2. Update(e[1], [run[e[1]] EXCEPT !.token = 0, !.lease = 0]) BY <1>6, <2>1 DEF Release
    <3>3. RowChange(e[1]) BY <2>1, <3>1, RowParts, <3>2 DEF RowChange, Active, ActiveStates, Update, TypeOK
    <3> QED BY <3>1, <3>2, <3>3, RowChangeAt
  <2>2. CASE ~(run[e[1]].token = e[2] /\ Active(e[1])) BY <1>6, <2>2, RowsUnchanged DEF Release
  <2> QED BY <2>1, <2>2
<1>7. ASSUME NEW e \in Executors, NEW ack \in BOOLEAN, CommitTransition(e, ack)
      PROVE  \A q \in Runs : RowChange(q)
  <2>1. e[1] \in Runs /\ run[e[1]] \in RunRows BY <1>1, ExecutorParts
  <2>2. PICK state \in ActiveStates : Update(e[1], [run[e[1]] EXCEPT !.state = state])
    BY <1>7, TransitionFacts DEF CommitTransition
  <2>3. RowChange(e[1])
    BY <2>1, RowParts, <1>7, <2>2 DEF RowChange, ActiveStates, RowsOK, CommitTransition, OwnedUntilCommit, Update,
      TypeOK
  <2> QED BY <2>1, <2>2, <2>3, RowChangeAt
<1>8. ASSUME NEW e \in Executors, NEW ack \in BOOLEAN,
             CommitComplete(e, ack) \/ CommitCancel(e, ack) \/ CommitFail(e)
      PROVE  \A q \in Runs : RowChange(q)
  <2>1. e[1] \in Runs /\ Active(e[1])
    BY <1>8, ExecutorParts DEF CommitComplete, CommitCancel, CommitFail, OwnedUntilCommit
  <2>2. PICK state \in TerminalStates :
          Finish(e[1], state) /\ (run[e[1]].cancel => state = "canceled")
    BY <1>8, <2>1 DEF CommitComplete, CommitCancel, CommitFail, OwnedUntilCommit, TerminalStates
  <2> QED BY <2>1, <2>2, FinishChange
<1>9. ASSUME NEW r \in Runs, FinalizeCancellation(r) PROVE \A q \in Runs : RowChange(q)
  BY <1>9, FinishChange DEF FinalizeCancellation, TerminalStates
<1>10. CASE Client
  <2>1. ASSUME NEW c \in Conversations, NEW r \in Runs, NEW s \in Submissions,
               NEW f \in Fingerprints, StartTurn(c, r, s, f) \/ RepeatTurn(c, r, s, f)
        PROVE  \A q \in Runs : RowChange(q) BY <2>1, InsertChange, RowsUnchanged DEF StartTurn, RepeatTurn
  <2>2. ASSUME NEW c \in Conversations, AppendMessage(c) \/ BeginDelete(c)
        PROVE  \A q \in Runs : RowChange(q) BY <2>2, RowsUnchanged DEF AppendMessage, BeginDelete
  <2>3. ASSUME NEW c \in Conversations, NEW r \in Runs, StartRun(c, r)
        PROVE  \A q \in Runs : RowChange(q) BY <2>3, InsertChange DEF StartRun
  <2>4. CASE RevokeAccess BY <2>4, RowsUnchanged DEF RevokeAccess
  <2> QED BY <1>2, <1>3, <1>10, <2>1, <2>2, <2>3, <2>4 DEF Client
<1>11. CASE Worker
  <2>1. ASSUME NEW r \in Runs, Tick(r) PROVE \A q \in Runs : RowChange(q)
    BY <1>5, <2>1, <1>1, RowParts DEF Tick, RowsOK
  <2> QED BY <1>4, <1>9, <1>11, <2>1 DEF Worker
<1>12. ASSUME NEW e \in Executors, Renew(e) PROVE \A q \in Runs : RowChange(q)
  BY <1>5, <1>12, ExecutorParts DEF Renew, OwnsNow, Fenced
<1>13. ASSUME NEW e \in Executors, Transact(e) PROVE \A q \in Runs : RowChange(q)
  <2>1. CASE Begin(e) \/ Acquire(e) \/ Refused(e) BY <2>1, RowsUnchanged DEF Begin, Acquire, Refused
  <2>2. CASE \E ack \in BOOLEAN : CommitAppend(e, ack) \/ CommitFlush(e, ack)
    BY <2>2, RowsUnchanged DEF CommitAppend, CommitFlush
  <2> QED BY <1>7, <1>8, <1>13, <2>1, <2>2 DEF Transact
<1>14. ASSUME NEW e \in Executors, Proceed(e) PROVE \A q \in Runs : RowChange(q)
  <2>1. CASE Release(e) BY <1>6, <2>1
  <2>2. CASE ~Release(e)
    <3>1. UNCHANGED run
      BY <1>14, <2>2 DEF Proceed, CheckCanceled, PollCanceled, ReadAccess, LoadRoutes, WriteOwned, OpenProvider,
        ReceiveText, ReceiveUsage, ReceiveToolCall, StreamEnds, FlushTimer, FlushDone, Decide, Authorize, RunTool,
        StoreToolCall, NextTool, StepFails, Step
    <3> QED BY <3>1, RowsUnchanged
  <2> QED BY <2>1, <2>2
<1>15. ASSUME NEW e \in Executors, Interrupt(e) PROVE \A q \in Runs : RowChange(q)
  BY <1>12, <1>15, RowsUnchanged DEF Interrupt, Shutdown, Crash
<1>16. CASE UNCHANGED vars BY <1>16, RowsUnchanged DEF vars
<1> QED BY <1>10, <1>11, <1>13, <1>14, <1>15, <1>16 DEF Next

\* An executor comes into being only by the claim it is named after
LEMMA NewExecutor ==
  ASSUME TypeOK, LocalsOK, RowsOK, [Next]_vars
  PROVE  \A f \in Executors : pc[f] = "none" => pc'[f] = "none" \/ run'[f[1]].attempts = f[2]
<1> USE DEF execVars, clientVars, rowVars, Claimable, FirstStep, Cancelable, CancelPending,
            Renewable, Renewed, DeleteMayGo, AccessUnlocked
<1>1. ASSUME NEW e \in Executors, pc[e] # "none", NEW p, Goto(e, p)
      PROVE  \A f \in Executors : pc[f] = "none" => pc'[f] = "none" BY <1>1 DEF Goto, TypeOK
<1>2. ASSUME NEW r \in Runs, Claim(r)
      PROVE  \A f \in Executors :
               pc[f] = "none" => pc'[f] = "none" \/ run'[f[1]].attempts = f[2]
  <2>1. PICK a \in Attempts : a = run[r].attempts + 1 BY <1>2 DEF Claim
  <2>2. <<r, a>> \in Executors /\ run[r] \in RunRows BY DEF Executors, TypeOK
  <2> QED BY <1>2, <2>1, <2>2, RowParts DEF Claim, Goto, TypeOK, Update
<1>3. CASE Client \/ UNCHANGED vars
  <2>1. UNCHANGED pc
    BY <1>3, ZenonT(40) DEF Client, StartTurn, RepeatTurn, AppendMessage, StartRun, CancelRun, BeginDelete,
      ApplyDelete, RevokeAccess, vars
  <2> QED BY <2>1
<1>4. CASE Worker BY <1>2, <1>4 DEF Worker, FinalizeCancellation, Tick
<1>5. "none" \notin TxPcs \cup PlainPcs \cup InnerPcs
  BY AppendFacts, TransitionFacts, FlushFacts, CheckFacts DEF TxPcs, PlainPcs, FinishPcs, InnerPcs
<1>6. ASSUME NEW e \in Executors, Abort(e) \/ (pc[e] # "none" /\ End(e))
      PROVE  \A f \in Executors : pc[f] = "none" => pc'[f] = "none" BY <1>1, <1>5, <1>6 DEF Abort, End
<1>7. ASSUME NEW e \in Executors, Transact(e)
      PROVE  \A f \in Executors : pc[f] = "none" => pc'[f] = "none"
  <2>1. CASE Begin(e) \/ Acquire(e) \/ Refused(e) BY <1>6, <2>1 DEF Begin, Acquire, Refused
  <2>2. ASSUME NEW ack \in BOOLEAN, CommitAppend(e, ack) \/ CommitTransition(e, ack)
        PROVE  \A f \in Executors : pc[f] = "none" => pc'[f] = "none"
    BY <1>1, <1>5, <1>6, <2>2 DEF CommitAppend, CommitTransition, Continue, TxPcs
  <2>3. ASSUME NEW ack \in BOOLEAN, CommitFlush(e, ack)
        PROVE  \A f \in Executors : pc[f] = "none" => pc'[f] = "none" BY <1>1, <1>5, <2>3 DEF CommitFlush, TxPcs
  <2>4. ASSUME NEW ack \in BOOLEAN, CommitComplete(e, ack) \/ CommitCancel(e, ack)
        PROVE  \A f \in Executors : pc[f] = "none" => pc'[f] = "none" BY <1>6, <2>4 DEF CommitComplete, CommitCancel
  <2>5. CASE CommitFail(e) BY <1>6, <2>5 DEF CommitFail
  <2> QED BY <1>7, <2>1, <2>2, <2>3, <2>4, <2>5 DEF Transact
<1>8. ASSUME NEW e \in Executors, NEW from, NEW next, from # "none", Step(e, from, next)
      PROVE  \A f \in Executors : pc[f] = "none" => pc'[f] = "none" BY <1>1, <1>8 DEF Step
<1>9. ASSUME NEW e \in Executors, Proceed(e)
      PROVE  \A f \in Executors : pc[f] = "none" => pc'[f] = "none"
  <2>1. CASE CheckCanceled(e) \/ PollCanceled(e) \/ FlushDone(e)
    BY <1>5, <1>8, <2>1 DEF CheckCanceled, PollCanceled, FlushDone, TxPcs, PlainPcs
  <2>2. CASE ReadAccess(e) \/ LoadRoutes(e) \/ WriteOwned(e) \/ OpenProvider(e)
    BY <1>8, <2>2 DEF ReadAccess, LoadRoutes, WriteOwned, OpenProvider
  <2>3. CASE \/ ReceiveText(e) \/ ReceiveUsage(e)
             \/ \E call \in CallIds : ReceiveToolCall(e, call)
    BY <1>8, <2>3 DEF ReceiveText, ReceiveUsage, ReceiveToolCall
  <2>4. CASE \/ StreamEnds(e) \/ FlushTimer(e) \/ Decide(e) \/ Authorize(e)
             \/ RunTool(e) \/ NextTool(e)
    BY <1>8, <2>4 DEF StreamEnds, FlushTimer, Decide, Authorize, RunTool, NextTool
  <2>5. CASE StoreToolCall(e) \/ StepFails(e) \/ Release(e) BY <1>1, <1>6, <2>5 DEF StoreToolCall, StepFails, Release
  <2> QED BY <1>9, <2>1, <2>2, <2>3, <2>4, <2>5 DEF Proceed
<1>10. ASSUME NEW e \in Executors, Interrupt(e)
       PROVE  \A f \in Executors : pc[f] = "none" => pc'[f] = "none"
  BY <1>1, <1>5, <1>6, <1>10 DEF Interrupt, Shutdown, Crash, Renew
<1> QED BY <1>3, <1>4, <1>7, <1>9, <1>10 DEF Next

\* Every step keeps RowsOK and CancelWins.
LEMMA RowsStep ==
  ASSUME TypeOK, LocalsOK, RowsOK, OwnedUntilCommit, CancelWins, [Next]_vars
  PROVE  RowsOK' /\ CancelWins'
<1>1. ASSUME NEW r \in Runs
      PROVE  /\ run'[r].token # 0 => run'[r].state \in ActiveStates
             /\ run'[r].lease # 0 => run'[r].token # 0
             /\ run'[r].state = "absent" => run'[r].attempts = 0
             /\ run'[r].state # "deleted" =>
                  run[r].state # "deleted" /\ run'[r].attempts >= run[r].attempts
             /\ run'[r].cancel => run'[r].state \notin {"completed", "failed"}
  <2>1. run[r] \in RunRows BY DEF TypeOK
  <2>2. /\ run[r].token # 0 => run[r].state \in ActiveStates
        /\ run[r].lease # 0 => run[r].token # 0
        /\ run[r].state = "absent" => run[r].attempts = 0
        /\ run[r].cancel => run[r].state \notin {"completed", "failed"}
        /\ run[r].attempts >= run[r].attempts BY <2>1, RowParts DEF RowsOK, CancelWins, Active
  <2>3. CASE run'[r] = run[r] BY <2>2, <2>3
  <2>4. CASE /\ run[r].state = "absent" /\ run'[r].state = "queued"
             /\ run'[r].token = 0 /\ run'[r].lease = 0 /\ run'[r].attempts = 0
             /\ ~run'[r].cancel BY <2>2, <2>4
  <2>5. CASE run'[r].state = "deleted" /\ run'[r].token = 0 /\ run'[r].lease = 0 BY <2>5
  <2>6. CASE run'[r] = [run[r] EXCEPT !.conv = None, !.input = 0] BY <2>2, <2>1, <2>6, RowParts
  <2>7. CASE /\ Active(r)
             /\ run'[r].state \in ActiveStates \cup TerminalStates
             /\ run'[r].attempts >= run[r].attempts
             /\ run'[r].token # 0 => run'[r].state \in ActiveStates
             /\ run'[r].lease # 0 => run'[r].token # 0
             /\ run'[r].cancel => run'[r].state \notin {"completed", "failed"}
    BY <2>7 DEF Active, ActiveStates, TerminalStates
  <2> QED BY <2>3, <2>4, <2>5, <2>6, <2>7, RowStep DEF RowChange
<1>2. ASSUME NEW r \in Runs, run'[r].state # "deleted", NEW a \in Attempts,
             a > run'[r].attempts
      PROVE  pc'[<<r, a>>] = "none"
  <2>1. a > run[r].attempts /\ a # run'[r].attempts BY <1>1, <1>2, RowParts, TypeStep DEF Attempts, TypeOK
  <2> QED BY <2>1, NewExecutor, <1>1, <1>2 DEF Executors, RowsOK
<1> QED BY <1>1, <1>2 DEF RowsOK, CancelWins, Active

(***************************************************************************)
(* The theorems                                                            *)
(***************************************************************************)
\* The inductive invariant holds before anything happened.
LEMMA FencingInit == Init => FencingInv
<1> SUFFICES ASSUME Init PROVE FencingInv OBVIOUS
<1>1. OwnedUntilCommit BY DEF Init, OwnedUntilCommit, None
<1>2. RowsOK /\ CancelWins BY DEF Init, RowsOK, CancelWins, AbsentRun, Executors, None
<1> QED
  BY <1>1, <1>2, FreshLocals, AbsentRunType, FreshMemType DEF FencingInv, Init, LocalsOK, ToolPcs, None, TypeOK, PCs

\* FencingInv is inductive: every step of the engine, of any client and of any
\* executor, old or new, keeps it.
THEOREM Fencing == Spec => []FencingInv
<1>1. FencingInv /\ [Next]_vars => FencingInv' BY TypeStep, LocalsStep, OwnedStep, RowsStep DEF FencingInv
<1> QED BY <1>1, FencingInit, PTL DEF Spec

\* Every row, log, executor and lock keeps its type through every interleaving
\* of clients, worker and executors.
THEOREM TypeCorrect == Spec => []TypeOK
<1>1. FencingInv => TypeOK BY DEF FencingInv
<1> QED BY <1>1, Fencing, PTL

\* The guard an owned transaction checked (append_event_owned, transition,
\* complete_run, check_canceled, fail_run) stays true until it commits: no
\* claim, cancellation, reaper, deletion or revocation comes in between.
THEOREM Ownership == Spec => []OwnedUntilCommit
<1>1. FencingInv => OwnedUntilCommit BY DEF FencingInv
<1> QED BY <1>1, Fencing, PTL

\* A run whose cancellation cancel_run accepted is never completed or failed,
\* whatever executor was about to do so.
THEOREM CancellationWins == Spec => []CancelWins
<1>1. FencingInv => CancelWins BY DEF FencingInv
<1> QED BY <1>1, Fencing, PTL

\* What one step may do to the log of a run
LogChange(r) == log'[r] = log[r] \/ ~Terminal(r) \/ run'[r].state = "deleted"

\* Publishing to a run that is not over changes no finished log.
LEMMA PublishChange ==
  ASSUME TypeOK, NEW r \in Runs, NEW events, Publish(r, events), ~Terminal(r)
  PROVE  \A q \in Runs : LogChange(q)
  BY DEF Publish, LogChange, TypeOK

\* Every step changes every log in one of the ways of LogChange.
LEMMA LogStep ==
  ASSUME FencingInv, [Next]_vars
  PROVE  \A q \in Runs : LogChange(q)
<1> USE DEF execVars, clientVars, rowVars, Claimable, FirstStep, Cancelable, CancelPending,
            Renewable, Renewed, DeleteMayGo, AccessUnlocked
<1>1. TypeOK BY DEF FencingInv
<1>2. \A r \in Runs : Active(r) => ~Terminal(r) BY DEF Active, Terminal, ActiveStates, TerminalStates
<1>3. ASSUME UNCHANGED log PROVE \A q \in Runs : LogChange(q) BY <1>3 DEF LogChange
<1>4. ASSUME NEW r \in Runs, NEW c, NEW ordinal, NEW sub, NEW print,
             InsertRun(r, c, ordinal, sub, print)
      PROVE  \A q \in Runs : LogChange(q) BY <1>1, <1>4, PublishChange DEF InsertRun, Terminal, TerminalStates
<1>5. ASSUME NEW d \in deletes, ApplyDelete(d) PROVE \A q \in Runs : LogChange(q)
  <2> SUFFICES ASSUME NEW q \in Runs PROVE LogChange(q) OBVIOUS
  <2>1. CASE q \in d.seen BY <1>5, <2>1 DEF LogChange, AbsentRun, ApplyDelete
  <2>2. CASE q \notin d.seen BY <1>5, <2>2 DEF LogChange, ApplyDelete
  <2> QED BY <2>1, <2>2
<1>6. CASE Client
  <2>1. ASSUME NEW c \in Conversations, NEW r \in Runs, NEW s \in Submissions,
               NEW f \in Fingerprints, StartTurn(c, r, s, f) \/ RepeatTurn(c, r, s, f)
        PROVE  \A q \in Runs : LogChange(q) BY <1>3, <1>4, <2>1 DEF StartTurn, RepeatTurn
  <2>2. ASSUME NEW c \in Conversations, AppendMessage(c) \/ BeginDelete(c)
        PROVE  \A q \in Runs : LogChange(q) BY <1>3, <2>2 DEF AppendMessage, BeginDelete
  <2>3. ASSUME NEW c \in Conversations, NEW r \in Runs, StartRun(c, r)
        PROVE  \A q \in Runs : LogChange(q) BY <1>4, <2>3 DEF StartRun
  <2>4. ASSUME NEW r \in Runs, CancelRun(r) PROVE \A q \in Runs : LogChange(q)
    BY <1>1, <1>2, PublishChange, <2>4 DEF CancelRun
  <2>5. CASE RevokeAccess BY <1>3, <2>5 DEF RevokeAccess
  <2> QED BY <1>5, <1>6, <2>1, <2>2, <2>3, <2>4, <2>5 DEF Client
<1>7. CASE Worker
  <2>1. ASSUME NEW r \in Runs, FinalizeCancellation(r) PROVE \A q \in Runs : LogChange(q)
    BY <1>1, <1>2, <2>1, PublishChange DEF FinalizeCancellation
  <2> QED BY <1>3, <1>7, <2>1 DEF Worker, Claim, Tick
<1>8. ASSUME NEW e \in Executors, Transact(e) PROVE \A q \in Runs : LogChange(q)
  <2>1. CASE tx[e] = "held"
    <3>1. UNCHANGED log \/ \E events : Publish(e[1], events)
      BY <1>8 DEF Transact, Begin, Acquire, Refused, CommitAppend, CommitTransition, CommitFlush, CommitComplete,
        CommitCancel, CommitFail
    <3> QED BY <1>1, <1>3, <3>1, PublishChange, <1>2, <2>1, ExecutorParts DEF FencingInv, OwnedUntilCommit
  <2>2. CASE tx[e] # "held"
    BY <1>3, <1>8, <2>2 DEF Transact, Begin, Acquire, Refused, CommitAppend, CommitTransition, CommitFlush,
      CommitComplete, CommitCancel, CommitFail
  <2> QED BY <2>1, <2>2
<1>9. ASSUME NEW e \in Executors, Proceed(e) PROVE \A q \in Runs : LogChange(q)
  <2>1. UNCHANGED log
    BY <1>9 DEF Proceed, CheckCanceled, PollCanceled, ReadAccess, LoadRoutes, WriteOwned, OpenProvider, ReceiveText,
      ReceiveUsage, ReceiveToolCall, StreamEnds, FlushTimer, FlushDone, Decide, Authorize, RunTool, StoreToolCall,
      NextTool, StepFails, Release, Step
  <2> QED BY <1>3, <2>1
<1>10. ASSUME NEW e \in Executors, Interrupt(e) PROVE \A q \in Runs : LogChange(q)
  BY <1>3, <1>10 DEF Interrupt, Shutdown, Crash, Renew
<1>11. CASE UNCHANGED vars BY <1>3, <1>11 DEF vars
<1> QED BY <1>6, <1>7, <1>8, <1>9, <1>10, <1>11 DEF Next

\* Losing its conversation is all that happens to a finished row.
LEMMA SameRow ==
  ASSUME NEW row \in RunRows
  PROVE  /\ [row EXCEPT !.conv = row.conv, !.input = row.input] = row
         /\ [[row EXCEPT !.conv = None, !.input = 0]
               EXCEPT !.conv = row.conv, !.input = row.input] = row
  BY DEF RunRows

\* Once a run is completed, failed or canceled nothing but delete_conversation
\* writes its row or its log again, whichever of complete_run, fail_run,
\* check_canceled, cancel_run and the reaper ended it.
THEOREM TerminalRunsAreFinal == Spec => TerminalIsFinal
<1>1. ASSUME FencingInv, [Next]_vars, NEW r \in Runs, Terminal(r)
      PROVE  \/ run'[r].state = "deleted"
             \/ /\ log'[r] = log[r]
                /\ [run'[r] EXCEPT !.conv = run[r].conv, !.input = run[r].input] = run[r]
  <2>1. \/ run'[r].state = "deleted"
        \/ [run'[r] EXCEPT !.conv = run[r].conv, !.input = run[r].input] = run[r]
    BY SameRow, <1>1, RowStep DEF FencingInv, TypeOK, RowChange, Terminal, TerminalStates, Active, ActiveStates
  <2> QED BY <1>1, <2>1, LogStep DEF LogChange
<1>2. FencingInv /\ [Next]_vars =>
        [\A r \in Runs : Terminal(r) =>
           \/ run'[r].state = "deleted"
           \/ /\ log'[r] = log[r]
              /\ [run'[r] EXCEPT !.conv = run[r].conv, !.input = run[r].input]
                   = run[r]]_vars BY <1>1
<1> QED BY <1>2, Fencing, PTL DEF Spec, TerminalIsFinal

(***************************************************************************)
(* What a step does to the rows, the logs and the messages                 *)
(***************************************************************************)
\* What a claim, a lease or a transition leaves of a row.
SameTurnRow(q) ==
  /\ run'[q].conv = run[q].conv /\ run'[q].input = run[q].input
  /\ run'[q].sub = run[q].sub /\ run'[q].print = run[q].print
SamePhase(q) == SameTurnRow(q) /\ run'[q].state = run[q].state

\* Everything but the runs and their logs.
turnRows == <<conv, messages, projected, toolCalls, replies, deletes, access>>

\* A step that nobody outside sees.
Internal == UNCHANGED <<turnRows, log>> /\ \A q \in Runs : SamePhase(q)

\* An active run publishes an event and stays active: cancel_run, or an
\* executor that holds the run.
SpeaksAs(e, ev) ==
  /\ tx[e] = "held" /\ ev.by = e[2]
  /\ \/ pc[e] \in AppendPcs /\ ev = Event(Appends[pc[e]].event, e[2], 0)
     \/ pc[e] \in TransitionPcs /\ ev = Event(Transitions[pc[e]].event, e[2], 0)
     \/ /\ pc[e] \in FlushPcs /\ ev = Event("model.text_delta", e[2], NextBatch(e))
        /\ mem' = [mem EXCEPT ![e].pub = @ + NextBatch(e), ![e].count = @ + NextBatch(e)]
Speaks(r, ev) ==
  /\ Active(r) /\ run'[r].state \in ActiveStates
  /\ SameTurnRow(r) /\ \A q \in Runs \ {r} : SamePhase(q)
  /\ log' = [log EXCEPT ![r] = @ \o <<ev>>]
  /\ \/ ev = Event("run.cancel_requested", 0, 0)
     \/ \E e \in Executors : e[1] = r /\ SpeaksAs(e, ev)
  /\ UNCHANGED turnRows

\* An active run ends without an answer.
GivesUp(r, by, outcome) ==
  /\ Active(r) /\ run'[r].state = outcome
  /\ SameTurnRow(r) /\ \A q \in Runs \ {r} : SamePhase(q)
  /\ \/ log' = [log EXCEPT ![r] = @ \o <<Event(TerminalEventOf[outcome], by, 0)>>]
     \/ /\ log' = [log EXCEPT ![r] = @ \o <<Event("run.cancel_requested", 0, 0),
                                            Event("run.canceled", 0, 0)>>]
        /\ outcome = "canceled" /\ by = 0
  /\ by = 0 \/ \E e \in Executors : /\ e = <<r, by>> /\ tx[e] = "held"
                                    /\ pc[e] \in {"cancel", "fail"}
  /\ UNCHANGED turnRows

\* A row that loses nothing but its token, lease and cancellation, or gets them.
LEMMA SamePhaseRow ==
  ASSUME TypeOK, NEW r \in Runs, NEW row, Update(r, row),
         row.conv = run[r].conv, row.input = run[r].input, row.sub = run[r].sub,
         row.print = run[r].print
  PROVE  /\ SameTurnRow(r) /\ \A q \in Runs \ {r} : SamePhase(q)
         /\ run'[r].state = row.state
         /\ row.state = run[r].state => \A q \in Runs : SamePhase(q)
  BY DEF SameTurnRow, SamePhase, Update, TypeOK

\* The steps of an executor that publish nothing and store nothing.
LEMMA QuietStep ==
  ASSUME TypeOK, NEW e \in Executors,
         \/ Begin(e) \/ Acquire(e) \/ Refused(e) \/ Interrupt(e)
         \/ Proceed(e) /\ ~StoreToolCall(e)
  PROVE  Internal
<1> USE DEF execVars, clientVars, rowVars, turnRows
<1>1. ASSUME UNCHANGED <<rowVars>> PROVE Internal BY <1>1 DEF Internal, SamePhase, SameTurnRow
<1>2. CASE Begin(e) \/ Acquire(e) \/ Refused(e) \/ Shutdown(e) \/ Crash(e)
  BY <1>1, <1>2 DEF Begin, Acquire, Refused, Shutdown, Crash
<1>3. e[1] \in Runs /\ run[e[1]] \in RunRows BY ExecutorParts DEF TypeOK
<1>4. CASE Renew(e)
  <2> DEFINE row == [run[e[1]] EXCEPT !.lease = Renewed(e)]
  <2>1. /\ row.conv = run[e[1]].conv /\ row.input = run[e[1]].input
        /\ row.sub = run[e[1]].sub /\ row.print = run[e[1]].print
        /\ row.state = run[e[1]].state BY <1>3, RowParts
  <2>2. Update(e[1], row) /\ UNCHANGED <<turnRows, log>> BY <1>4 DEF Renew
  <2> HIDE DEF row
  <2> QED BY <1>3, <2>1, <2>2, SamePhaseRow DEF Internal
<1>5. CASE Release(e)
  <2> DEFINE row == [run[e[1]] EXCEPT !.token = 0, !.lease = 0]
  <2>1. /\ row.conv = run[e[1]].conv /\ row.input = run[e[1]].input
        /\ row.sub = run[e[1]].sub /\ row.print = run[e[1]].print
        /\ row.state = run[e[1]].state BY <1>3, RowParts
  <2>2. (Update(e[1], row) \/ UNCHANGED run) /\ UNCHANGED <<turnRows, log>> BY <1>5 DEF Release
  <2> HIDE DEF row
  <2>3. CASE Update(e[1], row) BY <1>3, <2>1, <2>2, <2>3, SamePhaseRow DEF Internal
  <2>4. CASE UNCHANGED run BY <1>1, <2>2, <2>4
  <2> QED BY <2>2, <2>3, <2>4
<1>6. CASE Proceed(e) /\ ~StoreToolCall(e) /\ ~Release(e)
  BY <1>1, <1>6 DEF Proceed, CheckCanceled, PollCanceled, ReadAccess, LoadRoutes, WriteOwned, OpenProvider,
    ReceiveText, ReceiveUsage, ReceiveToolCall, StreamEnds, FlushTimer, FlushDone, Decide, Authorize, RunTool,
    NextTool, StepFails, Step
<1> QED BY <1>2, <1>4, <1>5, <1>6 DEF Interrupt

\* A transaction that publishes one event and lets the run go on.
LEMMA SpeakStep ==
  ASSUME FencingInv, NEW e \in Executors, NEW ack \in BOOLEAN,
         CommitAppend(e, ack) \/ CommitTransition(e, ack) \/ CommitFlush(e, ack)
  PROVE  \E ev : Speaks(e[1], ev)
<1> USE DEF execVars, clientVars, turnRows
<1>1. /\ e[1] \in Runs /\ run[e[1]] \in RunRows /\ tx[e] = "held" /\ Active(e[1])
      /\ TypeOK BY ExecutorParts DEF FencingInv, OwnedUntilCommit, TypeOK, CommitAppend, CommitTransition, CommitFlush
<1>2. CASE CommitAppend(e, ack) \/ CommitFlush(e, ack)
  <2>1. UNCHANGED <<run, turnRows>> BY <1>2 DEF CommitAppend, CommitFlush
  <2>2. run'[e[1]].state \in ActiveStates /\ SameTurnRow(e[1])
        /\ \A q \in Runs \ {e[1]} : SamePhase(q) BY <1>1, <2>1 DEF Active, SameTurnRow, SamePhase
  <2>3. CASE CommitAppend(e, ack)
    <3> DEFINE ev == Event(Appends[pc[e]].event, e[2], 0)
    <3> QED BY <1>1, <2>1, <2>2, <2>3 DEF Speaks, SpeaksAs, Event, CommitAppend, Publish
  <2>4. CASE CommitFlush(e, ack)
    <3> DEFINE ev == Event("model.text_delta", e[2], NextBatch(e))
    <3> QED BY <1>1, <2>1, <2>2, <2>4 DEF Speaks, SpeaksAs, Event, CommitFlush, Publish, SetMem, TypeOK, Mems
  <2> QED BY <1>2, <2>3, <2>4
<1>3. CASE CommitTransition(e, ack)
  <2>1. pc[e] \in TransitionPcs BY <1>3 DEF CommitTransition
  <2>2. PICK state \in ActiveStates : state = Transitions[pc[e]].state BY <2>1, TransitionFacts
  <2> DEFINE row == [run[e[1]] EXCEPT !.state = state]
             ev == Event(Transitions[pc[e]].event, e[2], 0)
  <2>3. /\ row.conv = run[e[1]].conv /\ row.input = run[e[1]].input
        /\ row.sub = run[e[1]].sub /\ row.print = run[e[1]].print
        /\ row.state = state BY <1>1, RowParts
  <2>4. Update(e[1], row) /\ UNCHANGED turnRows BY <1>3, <2>2 DEF CommitTransition
  <2>5. log' = [log EXCEPT ![e[1]] = @ \o <<ev>>] BY <1>3 DEF CommitTransition, Publish
  <2>6. SpeaksAs(e, ev) BY <1>1, <2>1 DEF SpeaksAs, Event
  <2> HIDE DEF row, ev
  <2>7. /\ SameTurnRow(e[1]) /\ \A q \in Runs \ {e[1]} : SamePhase(q)
        /\ run'[e[1]].state = state BY <1>1, <2>3, <2>4, SamePhaseRow
  <2> QED BY <1>1, <2>2, <2>4, <2>5, <2>6, <2>7 DEF Speaks
<1> QED BY <1>2, <1>3

\* An UPDATE that ends a run without an answer.
LEMMA FinishPhase ==
  ASSUME TypeOK, NEW r \in Runs, NEW state, Finish(r, state)
  PROVE  /\ SameTurnRow(r) /\ \A q \in Runs \ {r} : SamePhase(q)
         /\ run'[r].state = state
<1> DEFINE row == [run[r] EXCEPT !.state = state, !.token = 0, !.lease = 0]
<1>1. /\ row.conv = run[r].conv /\ row.input = run[r].input
      /\ row.sub = run[r].sub /\ row.print = run[r].print /\ row.state = state BY RowParts DEF TypeOK
<1>2. Update(r, row) BY DEF Finish
<1> HIDE DEF row
<1> QED BY <1>1, <1>2, SamePhaseRow

LEMMA GiveUpStep ==
  ASSUME FencingInv,
         \/ \E e \in Executors : CommitFail(e) \/ \E ack \in BOOLEAN : CommitCancel(e, ack)
         \/ \E r \in Runs : FinalizeCancellation(r)
  PROVE  \E r \in Runs, by \in 0..MaxAttempts, outcome \in {"failed", "canceled"} :
           GivesUp(r, by, outcome)
<1> USE DEF execVars, clientVars, turnRows, CancelPending
<1>1. TypeOK BY DEF FencingInv
<1>2. TerminalEventOf["canceled"] = "run.canceled" /\ TerminalEventOf["failed"] = "run.failed" BY DEF TerminalEventOf
<1>3. ASSUME NEW r \in Runs, FinalizeCancellation(r) PROVE GivesUp(r, 0, "canceled")
  BY <1>2, <1>3, <1>1, FinishPhase DEF FinalizeCancellation, GivesUp, Publish
<1>4. ASSUME NEW e \in Executors, NEW ack \in BOOLEAN, CommitCancel(e, ack)
      PROVE  GivesUp(e[1], e[2], "canceled") /\ e[1] \in Runs /\ e[2] \in 0..MaxAttempts
  <2>1. e = <<e[1], e[2]>> /\ e[2] \in 0..MaxAttempts BY ExecutorParts, BoundsAssumption
  <2> QED
    BY <1>2, <1>4, <2>1, <1>1, FinishPhase, ExecutorParts DEF CommitCancel, GivesUp, Publish, FencingInv,
      OwnedUntilCommit
<1>5. ASSUME NEW e \in Executors, CommitFail(e)
      PROVE  \E outcome \in {"failed", "canceled"} :
               GivesUp(e[1], e[2], outcome) /\ e[1] \in Runs /\ e[2] \in 0..MaxAttempts
  <2>1. PICK outcome \in {"failed", "canceled"} :
          outcome = IF run[e[1]].cancel THEN "canceled" ELSE "failed" OBVIOUS
  <2>2. e = <<e[1], e[2]>> /\ e[2] \in 0..MaxAttempts BY ExecutorParts, BoundsAssumption
  <2>3. log' = [log EXCEPT ![e[1]] = @ \o <<Event(TerminalEventOf[outcome], e[2], 0)>>]
    BY <1>2, <1>5, <2>1 DEF CommitFail, Publish
  <2>4. UNCHANGED turnRows BY <1>5 DEF CommitFail
  <2> QED
    BY <2>2, <2>3, <2>4, <1>1, <1>5, <2>1, FinishPhase, ExecutorParts DEF GivesUp, CommitFail, FencingInv,
      OwnedUntilCommit
<1> QED BY <1>3, <1>4, <1>5, BoundsAssumption

\* cancel_run ends an abandoned run and asks the executor of any other.
LEMMA CancelStep ==
  ASSUME FencingInv, NEW r \in Runs, CancelRun(r)
  PROVE  GivesUp(r, 0, "canceled") \/ \E ev : Speaks(r, ev)
<1> USE DEF execVars, clientVars, turnRows, Cancelable
<1>1. TypeOK /\ run[r] \in RunRows /\ Active(r) BY DEF FencingInv, TypeOK, CancelRun
<1>2. UNCHANGED turnRows BY DEF CancelRun
<1>3. CASE Abandoned(r)
  <2> DEFINE row == [run[r] EXCEPT !.cancel = TRUE, !.state = "canceled",
                                   !.token = 0, !.lease = 0]
  <2>1. /\ row.conv = run[r].conv /\ row.input = run[r].input
        /\ row.sub = run[r].sub /\ row.print = run[r].print /\ row.state = "canceled" BY <1>1, RowParts
  <2>2. /\ Update(r, row)
        /\ log' = [log EXCEPT ![r] = @ \o <<Event("run.cancel_requested", 0, 0),
                                            Event("run.canceled", 0, 0)>>] BY <1>3 DEF CancelRun, Publish
  <2> HIDE DEF row
  <2> QED BY <1>1, <1>2, <2>2, <2>1, SamePhaseRow DEF GivesUp
<1>4. CASE ~Abandoned(r)
  <2> DEFINE row == [run[r] EXCEPT !.cancel = TRUE]
  <2>1. /\ row.conv = run[r].conv /\ row.input = run[r].input
        /\ row.sub = run[r].sub /\ row.print = run[r].print /\ row.state = run[r].state BY <1>1, RowParts
  <2>2. /\ Update(r, row)
        /\ log' = [log EXCEPT ![r] = @ \o <<Event("run.cancel_requested", 0, 0)>>] BY <1>4 DEF CancelRun, Publish
  <2> HIDE DEF row
  <2> QED BY <1>1, <1>2, <2>2, <2>1, SamePhaseRow DEF Speaks, Active
<1> QED BY <1>3, <1>4

\* A claim and the clock.
LEMMA ClockStep ==
  ASSUME TypeOK, NEW r \in Runs, Claim(r) \/ Tick(r)
  PROVE  Internal
<1> USE DEF execVars, clientVars, turnRows
<1>1. run[r] \in RunRows BY DEF TypeOK
<1>2. CASE Claim(r)
  <2> DEFINE a == run[r].attempts + 1
             row == [run[r] EXCEPT !.token = a, !.attempts = a, !.lease = LeaseTicks]
  <2>1. Update(r, row) /\ UNCHANGED <<turnRows, log>> BY <1>2 DEF Claim
  <2> HIDE DEF a
  <2>2. /\ row.conv = run[r].conv /\ row.input = run[r].input
        /\ row.sub = run[r].sub /\ row.print = run[r].print /\ row.state = run[r].state BY <1>1, RowParts
  <2> HIDE DEF row
  <2> QED BY <2>1, <2>2, SamePhaseRow DEF Internal
<1>3. CASE Tick(r)
  <2> DEFINE row == [run[r] EXCEPT !.lease = @ - 1]
  <2>1. Update(r, row) /\ UNCHANGED <<turnRows, log>> BY <1>3 DEF Tick
  <2>2. /\ row.conv = run[r].conv /\ row.input = run[r].input
        /\ row.sub = run[r].sub /\ row.print = run[r].print /\ row.state = run[r].state BY <1>1, RowParts
  <2> HIDE DEF row
  <2> QED BY <2>1, <2>2, SamePhaseRow DEF Internal
<1> QED BY <1>2, <1>3

\* complete_run: the answer of a run whose conversation is there.
Answers(e) ==
  LET r == e[1]
      c == run[r].conv
  IN  /\ tx[e] = "held" /\ pc[e] = "complete" /\ access
      /\ Active(r) /\ run'[r].state = "completed"
      /\ SameTurnRow(r) /\ \A q \in Runs \ {r} : SamePhase(q)
      /\ c \in Conversations
      /\ InsertMessage(c, Message("assistant", r, mem[e].recv))
      /\ log' = [log EXCEPT ![r] = @ \o <<Event("run.completed", e[2], 0),
                                          Event("token_metrics", e[2], 0)>>]
      /\ UNCHANGED <<conv, toolCalls, replies, deletes, access>>

LEMMA AnswerStep ==
  ASSUME FencingInv, NEW e \in Executors, NEW ack \in BOOLEAN, CommitComplete(e, ack)
  PROVE  Answers(e)
<1> USE DEF execVars, clientVars
<1>1. /\ e[1] \in Runs /\ run[e[1]] \in RunRows /\ TypeOK /\ Active(e[1])
      /\ Accessible(e[1]) /\ tx[e] = "held" /\ pc[e] = "complete"
  BY ExecutorParts DEF FencingInv, TypeOK, OwnedUntilCommit, CommitComplete
<1> QED BY <1>1, FinishPhase DEF CommitComplete, Answers, Publish, Accessible, RunRows

\* What a step may be, for those who read rows, logs and messages.
Kind ==
  \/ Internal
  \/ \E c \in Conversations, r \in Runs, s \in Submissions, f \in Fingerprints :
       StartTurn(c, r, s, f) \/ RepeatTurn(c, r, s, f)
  \/ \E c \in Conversations : AppendMessage(c) \/ BeginDelete(c)
  \/ \E c \in Conversations, r \in Runs : StartRun(c, r)
  \/ \E d \in deletes : ApplyDelete(d)
  \/ RevokeAccess
  \/ \E r \in Runs : \E ev : Speaks(r, ev)
  \/ \E r \in Runs, by \in 0..MaxAttempts, outcome \in {"failed", "canceled"} :
       GivesUp(r, by, outcome)
  \/ \E e \in Executors : Answers(e) \/ StoreToolCall(e)

\* Every step is of one of these kinds.
LEMMA Kinds ==
  ASSUME FencingInv, [Next]_vars
  PROVE  Kind
<1>1. TypeOK /\ 0 \in 0..MaxAttempts BY BoundsAssumption DEF FencingInv
<1>2. CASE Client
  <2>1. ASSUME NEW r \in Runs, CancelRun(r) PROVE Kind BY <1>1, <2>1, CancelStep DEF Kind
  <2> QED BY <1>2, <2>1 DEF Client, Kind
<1>3. CASE Worker BY <1>1, <1>3, ClockStep, GiveUpStep DEF Worker, Kind
<1>4. ASSUME NEW e \in Executors, Transact(e) PROVE Kind
  <2>1. CASE Begin(e) \/ Acquire(e) \/ Refused(e) BY <1>1, <2>1, QuietStep DEF Kind
  <2>2. ASSUME NEW ack \in BOOLEAN,
               CommitAppend(e, ack) \/ CommitTransition(e, ack) \/ CommitFlush(e, ack)
        PROVE  Kind BY <2>2, SpeakStep, ExecutorParts DEF Kind
  <2>3. ASSUME NEW ack \in BOOLEAN, CommitComplete(e, ack) PROVE Kind BY <2>3, AnswerStep DEF Kind
  <2>4. CASE CommitFail(e) \/ \E ack \in BOOLEAN : CommitCancel(e, ack) BY <2>4, GiveUpStep DEF Kind
  <2> QED BY <1>4, <2>1, <2>2, <2>3, <2>4 DEF Transact
<1>5. ASSUME NEW e \in Executors, Proceed(e) PROVE Kind BY <1>1, <1>5, QuietStep DEF Kind
<1>6. ASSUME NEW e \in Executors, Interrupt(e) PROVE Kind BY <1>1, <1>6, QuietStep DEF Kind
<1>7. CASE UNCHANGED vars BY <1>7 DEF Kind, vars, Internal, turnRows, SamePhase, SameTurnRow
<1> QED BY <1>2, <1>3, <1>4, <1>5, <1>6, <1>7 DEF Next

(***************************************************************************)
(* Turns                                                                   *)
(***************************************************************************)
\* Rows that stand for no turn have no conversation, and no row has one that
\* is deleted.
RowsPlaced ==
  /\ \A r \in Runs : run[r].state \in {"absent", "deleted"} => run[r].conv = None
  /\ \A c \in Conversations : conv[c] = "deleted" =>
       messages[c] = << >> /\ \A r \in Runs : run[r].conv # c

\* An active run is about a question, and an answer is in the conversation of
\* its run.
QuestionsAsked ==
  /\ \A r \in Runs : Active(r) /\ run[r].conv # None =>
       /\ run[r].input \in DOMAIN messages[run[r].conv]
       /\ messages[run[r].conv][run[r].input].role = "user"
  /\ \A c \in Conversations : \A i \in DOMAIN messages[c] :
       messages[c][i].role = "assistant" =>
         messages[c][i].run \in Runs /\ run[messages[c][i].run].conv = c

\* There is one DELETE at a time in the model, and the runs it saw stay in its
\* conversation until it is done.
DeletesKnow ==
  /\ \A d \in deletes : \A r \in d.seen : run[r].conv = d.conv
  /\ \A d, x \in deletes : d = x

\* A reply names the run that has its submission, and no two runs of a
\* conversation have the same.
RepliesKept ==
  /\ \A p \in replies : conv[p.conv] = "active" => SameTurn(p.run, p.conv, p.sub, p.print)
  /\ \A q, r \in Runs : run[q].conv = run[r].conv /\ run[q].sub = run[r].sub
                        /\ run[q].conv # None /\ run[q].sub # None => q = r

TurnInv == RowsPlaced /\ TurnsInOrder /\ QuestionsAsked /\ DeletesKnow /\ RepliesKept
           /\ SubmissionIdempotent

LEMMA TurnInit == Init => TurnInv
  BY DEF Init, TurnInv, RowsPlaced, TurnsInOrder, QuestionsAsked, DeletesKnow, RepliesKept, SubmissionIdempotent,
    SameTurn, AbsentRun, Active, ActiveStates

\* A step that stores no message and starts and completes no run.
NoTurn ==
  /\ UNCHANGED <<conv, messages, projected>>
  /\ \A q \in Runs :
       /\ SameTurnRow(q)
       /\ run'[q].state \in ActiveStates => Active(q)
       /\ run'[q].state = "completed" <=> run[q].state = "completed"
       /\ run'[q].state \in {"absent", "deleted"} => run[q].state \in {"absent", "deleted"}

LEMMA TurnsKept ==
  ASSUME TypeOK, TurnInv, NoTurn
  PROVE  RowsPlaced' /\ TurnsInOrder' /\ QuestionsAsked'
<1>1. \A c \in Conversations : \A i \in DOMAIN messages[c] :
        messages[c][i].role = "assistant" => messages[c][i].run \in Runs BY DEF TurnInv, QuestionsAsked
<1>2. QuestionsAsked' BY <1>1 DEF TurnInv, QuestionsAsked, NoTurn, SameTurnRow, Active
<1> QED BY <1>2, <1>1 DEF TurnInv, RowsPlaced, NoTurn, SameTurnRow, TurnsInOrder, Active

LEMMA RepliesStay ==
  ASSUME TypeOK, TurnInv, NoTurn, UNCHANGED replies
  PROVE  RepliesKept' /\ SubmissionIdempotent'
<1>1. \A p \in replies : p.run \in Runs BY DEF TypeOK, Replies
<1> QED BY <1>1 DEF TurnInv, SubmissionIdempotent, RepliesKept, NoTurn, SameTurnRow, SameTurn

LEMMA DeletesStay ==
  ASSUME TypeOK, TurnInv, NoTurn, UNCHANGED deletes
  PROVE  DeletesKnow'
  BY DEF TurnInv, DeletesKnow, NoTurn, SameTurnRow, TypeOK, Deletes

\* Most steps take no turn.
LEMMA QuietTurns ==
  ASSUME TypeOK, TurnInv,
         \/ Internal
         \/ \E r \in Runs : \E ev : Speaks(r, ev)
         \/ \E r \in Runs, by \in 0..MaxAttempts, outcome \in {"failed", "canceled"} :
              GivesUp(r, by, outcome)
         \/ \E e \in Executors : StoreToolCall(e)
         \/ RevokeAccess
  PROVE  TurnInv'
<1>1. \A r \in Runs : Active(r) => run[r].state \notin {"absent", "deleted", "completed"} BY DEF Active, ActiveStates
<1>2. NoTurn /\ UNCHANGED <<replies, deletes>>
  <2>1. CASE Internal BY <2>1 DEF Internal, turnRows, SamePhase, NoTurn, Active
  <2>2. ASSUME NEW r \in Runs, NEW ev, Speaks(r, ev)
        PROVE  NoTurn /\ UNCHANGED <<replies, deletes>>
    BY <1>1, <2>2 DEF Speaks, turnRows, SamePhase, NoTurn, Active, ActiveStates
  <2>3. ASSUME NEW r \in Runs, NEW by \in 0..MaxAttempts,
               NEW outcome \in {"failed", "canceled"}, GivesUp(r, by, outcome)
        PROVE  NoTurn /\ UNCHANGED <<replies, deletes>> BY <1>1, <2>3 DEF GivesUp, turnRows, SamePhase, NoTurn, Active
  <2>4. ASSUME UNCHANGED <<conv, messages, projected, run, replies, deletes>>
        PROVE  NoTurn /\ UNCHANGED <<replies, deletes>> BY <2>4 DEF NoTurn, SameTurnRow, Active
  <2> QED BY <2>1, <2>2, <2>3, <2>4 DEF StoreToolCall, RevokeAccess, clientVars
<1> QED BY <1>2, TurnsKept, RepliesStay, DeletesStay DEF TurnInv

\* start_turn sent again answers with the run of the first time.
LEMMA RepeatTurns ==
  ASSUME TypeOK, TurnInv, NEW c \in Conversations, NEW r \in Runs, NEW s \in Submissions,
         NEW f \in Fingerprints, RepeatTurn(c, r, s, f)
  PROVE  TurnInv'
<1> DEFINE reply == [conv |-> c, sub |-> s, print |-> f, run |-> r]
<1>1. /\ replies' = replies \cup {reply} /\ UNCHANGED <<run, conv>>
      /\ conv[c] = "active" /\ SameTurn(r, c, s, f) BY DEF RepeatTurn, Reply
<1>2. reply.conv = c /\ reply.sub = s /\ reply.print = f /\ reply.run = r OBVIOUS
<1> HIDE DEF reply
<1>3. ASSUME NEW p \in replies, p.conv = c, p.sub = s PROVE p.run = r /\ p.print = f
  <2>1. SameTurn(p.run, c, s, p.print) /\ p.run \in Runs BY <1>1, <1>3 DEF TurnInv, RepliesKept, TypeOK, Replies
  <2> QED BY <1>1, <2>1, NullAssumption DEF TurnInv, RepliesKept, SameTurn, None
<1>4. SubmissionIdempotent' BY <1>1, <1>2, <1>3 DEF TurnInv, SubmissionIdempotent
<1> QED
  BY <1>4, TurnsKept, DeletesStay, <1>1, <1>2 DEF TurnInv, RepeatTurn, NoTurn, SameTurnRow, Active, RepliesKept,
    SameTurn

\* delete_conversation takes its snapshot.
LEMMA BeginTurns ==
  ASSUME TypeOK, TurnInv, NEW c \in Conversations, BeginDelete(c)
  PROVE  TurnInv'
  BY TurnsKept, RepliesStay DEF TurnInv, BeginDelete, NoTurn, SameTurnRow, Active, DeletesKnow

\* A message at the end of a conversation.
LEMMA AppendParts ==
  ASSUME TypeOK, NEW c \in Conversations, NEW m, InsertMessage(c, m)
  PROVE  /\ Len(messages'[c]) = Len(messages[c]) + 1
         /\ DOMAIN messages[c] = 1..Len(messages[c])
         /\ DOMAIN messages'[c] = 1..(Len(messages[c]) + 1)
         /\ \A i \in DOMAIN messages[c] : messages'[c][i] = messages[c][i]
         /\ messages'[c][Len(messages[c]) + 1] = m
         /\ Len(messages[c]) \in Nat
         /\ projected'[c] = Len(messages'[c])
         /\ \A x \in Conversations \ {c} :
              messages'[x] = messages[x] /\ projected'[x] = projected[x]
<1>1. messages[c] \in Seq(Messages) /\ messages' = [messages EXCEPT ![c] = Append(@, m)]
      /\ projected' = [projected EXCEPT ![c] = Len(messages'[c])] BY DEF TypeOK, InsertMessage, RebuildProjection
<1>2. projected'[c] = Len(messages'[c]) BY <1>1 DEF TypeOK
<1> QED BY <1>1, <1>2 DEF TypeOK

\* The row start_turn and start_run insert.
LEMMA InsertParts ==
  ASSUME TypeOK, NEW c \in Conversations, NEW r \in Runs, NEW ordinal \in Nat, NEW s, NEW f,
         InsertRun(r, c, ordinal, s, f)
  PROVE  /\ run[r].state = "absent" /\ run'[r].state = "queued"
         /\ run'[r].conv = c /\ run'[r].input = ordinal
         /\ run'[r].sub = s /\ run'[r].print = f
         /\ \A q \in Runs \ {r} : run'[q] = run[q]
  BY DEF InsertRun, Update, TypeOK, AbsentRun

\* What TurnsInOrder asks of one conversation after a step.
OrderedNext(x) ==
  /\ \A q, r \in Runs : run'[q].conv = x /\ run'[r].conv = x /\ Active(q)' /\ Active(r)'
                        => q = r
  /\ \A r \in Runs : run'[r].conv = x /\ Active(r)' => run'[r].input = Len(messages'[x])
  /\ \A i \in DOMAIN messages'[x] : messages'[x][i].role = "assistant" =>
       /\ i > 1 /\ messages'[x][i - 1].role = "user"
       /\ run'[messages'[x][i].run].state = "completed"
       /\ run'[messages'[x][i].run].input = i - 1
  /\ \A r \in Runs : run'[r].conv = x /\ run'[r].state = "completed" =>
       \E i \in DOMAIN messages'[x] : messages'[x][i].run = r
  /\ projected'[x] = Len(messages'[x])

\* append_message: a question joins a conversation without active run.
LEMMA AppendTurns ==
  ASSUME TypeOK, TurnInv, NEW c \in Conversations, AppendMessage(c)
  PROVE  TurnInv'
<1> DEFINE m == Message("user", None, 0)
<1>1. m.role = "user" BY DEF Message
<1>2. InsertMessage(c, m) /\ UNCHANGED <<run, conv, replies, deletes>>
      /\ conv[c] = "active" /\ \A r \in Runs : run[r].conv = c => ~Active(r)
  BY DEF AppendMessage, TakesMessages, ActiveIn, clientVars
<1> HIDE DEF m
<1>3. \A x \in Conversations : \A i \in DOMAIN messages'[x] :
        messages'[x][i].role = "assistant" =>
          i \in DOMAIN messages[x] /\ messages'[x][i] = messages[x][i] BY <1>1, <1>2, AppendParts
<1>4. \A x \in Conversations : \A i \in DOMAIN messages[x] :
        i \in DOMAIN messages'[x] /\ messages'[x][i] = messages[x][i] BY <1>2, AppendParts
<1>5. TurnsInOrder'
  <2> SUFFICES ASSUME NEW x \in Conversations PROVE OrderedNext(x) BY DEF TurnsInOrder, OrderedNext
  <2>1. \A i \in DOMAIN messages'[x] : messages'[x][i].role = "assistant" =>
          /\ i > 1 /\ messages'[x][i - 1].role = "user"
          /\ run'[messages'[x][i].run].state = "completed"
          /\ run'[messages'[x][i].run].input = i - 1 BY <1>2, <1>3, <1>4 DEF TurnInv, TurnsInOrder, TypeOK
  <2>2. \A r \in Runs : run'[r].conv = x /\ run'[r].state = "completed" =>
          \E i \in DOMAIN messages'[x] : messages'[x][i].run = r BY <1>2, <1>4 DEF TurnInv, TurnsInOrder
  <2>3. projected'[x] = Len(messages'[x]) BY <1>2, AppendParts DEF TurnInv, TurnsInOrder
  <2> QED BY <2>1, <2>2, <2>3, <1>2, AppendParts DEF OrderedNext, TurnInv, TurnsInOrder, Active
<1>6. QuestionsAsked'
  BY <1>2, <1>3, <1>4, NullAssumption, SMTT(40) DEF TurnInv, QuestionsAsked, Active, TypeOK, RunRows
<1> QED
  BY <1>5, <1>6, <1>2, AppendParts DEF TurnInv, RowsPlaced, DeletesKnow, RepliesKept, SubmissionIdempotent, SameTurn

\* start_turn: a question and its run, in a conversation without active run.
LEMMA StartTurns ==
  ASSUME TypeOK, TurnInv, NEW c \in Conversations, NEW r \in Runs, NEW s \in Submissions,
         NEW f \in Fingerprints, StartTurn(c, r, s, f)
  PROVE  TurnInv'
<1> DEFINE m == Message("user", None, 0)
           n == Len(messages[c])
           reply == [conv |-> c, sub |-> s, print |-> f, run |-> r]
<1>1. m.role = "user" /\ n \in Nat BY DEF Message, TypeOK
<1>2. /\ InsertMessage(c, m) /\ InsertRun(r, c, n + 1, s, f)
      /\ UNCHANGED <<conv, deletes>> /\ replies' = replies \cup {reply}
      /\ conv[c] = "active" /\ \A q \in Runs : run[q].conv = c => ~Active(q)
      /\ \A q \in Runs : run[q].conv = c => run[q].sub # s BY DEF StartTurn, ActiveIn, Reply
<1>3. reply.conv = c /\ reply.sub = s /\ reply.print = f /\ reply.run = r OBVIOUS
<1>4. /\ run[r].state = "absent" /\ run'[r].state = "queued" /\ run'[r].conv = c
      /\ run'[r].input = n + 1 /\ run'[r].sub = s /\ run'[r].print = f
      /\ \A q \in Runs \ {r} : run'[q] = run[q]
  <2> HIDE DEF m, n
  <2> QED BY InsertParts, <1>1, <1>2
<1>5. c # None /\ s # None /\ None \notin Conversations BY NullAssumption DEF None
<1>6. run[r].conv = None BY <1>4 DEF TurnInv, RowsPlaced
<1>7. Len(messages'[c]) = n + 1 /\ DOMAIN messages'[c] = 1..(n + 1)
      /\ messages'[c][n + 1] = m /\ DOMAIN messages[c] = 1..n BY <1>2, AppendParts
<1> HIDE DEF m, reply
<1>8. \A x \in Conversations : \A i \in DOMAIN messages'[x] :
        messages'[x][i].role = "assistant" =>
          i \in DOMAIN messages[x] /\ messages'[x][i] = messages[x][i] BY <1>1, <1>2, AppendParts
<1>9. \A x \in Conversations : \A i \in DOMAIN messages[x] :
        i \in DOMAIN messages'[x] /\ messages'[x][i] = messages[x][i] BY <1>2, AppendParts
<1>10. \A x \in Conversations : \A i \in DOMAIN messages[x] :
         i > 1 => i - 1 \in DOMAIN messages[x] BY DEF TypeOK
<1>11. \A x \in Conversations \ {c} : messages'[x] = messages[x] BY <1>2, AppendParts
<1> HIDE DEF n
<1>12. TurnsInOrder'
  <2> SUFFICES ASSUME NEW x \in Conversations PROVE OrderedNext(x) BY DEF TurnsInOrder, OrderedNext
  <2>1. \A i \in DOMAIN messages'[x] : messages'[x][i].role = "assistant" =>
          /\ i > 1 /\ messages'[x][i - 1].role = "user"
          /\ run'[messages'[x][i].run].state = "completed"
          /\ run'[messages'[x][i].run].input = i - 1
    BY <1>4, <1>8, <1>9, <1>10 DEF TurnInv, TurnsInOrder, QuestionsAsked
  <2>2. \A q \in Runs : run'[q].conv = x /\ run'[q].state = "completed" =>
          \E i \in DOMAIN messages'[x] : messages'[x][i].run = q BY <1>4, <1>9 DEF TurnInv, TurnsInOrder
  <2>3. projected'[x] = Len(messages'[x]) BY <1>2, AppendParts DEF TurnInv, TurnsInOrder
  <2> QED BY <2>1, <2>2, <2>3, <1>2, <1>4, <1>7, <1>11 DEF OrderedNext, TurnInv, TurnsInOrder, Active
<1>13. QuestionsAsked'
  <2>1. ASSUME NEW q \in Runs, Active(q)', run'[q].conv # None
        PROVE  /\ run'[q].input \in DOMAIN messages'[run'[q].conv]
               /\ messages'[run'[q].conv][run'[q].input].role = "user"
    <3>1. CASE q = r BY <1>1, <1>4, <1>7, <3>1
    <3>2. CASE q # r
      <4>1. Active(q) /\ run'[q] = run[q] BY <1>4, <2>1, <3>2 DEF Active
      <4>2. run[q].conv \in Conversations BY <2>1, <4>1 DEF TypeOK, RunRows
      <4> QED BY <1>9, <2>1, <4>1, <4>2 DEF TurnInv, QuestionsAsked
    <3> QED BY <3>1, <3>2
  <2>2. ASSUME NEW x \in Conversations, NEW i \in DOMAIN messages'[x],
               messages'[x][i].role = "assistant"
        PROVE  messages'[x][i].run \in Runs /\ run'[messages'[x][i].run].conv = x
    BY <1>4, <1>5, <1>6, <1>8, <2>2 DEF TurnInv, QuestionsAsked
  <2> QED BY <2>1, <2>2 DEF QuestionsAsked
<1>14. DeletesKnow'
  <2>1. \A d \in deletes : d.seen \subseteq Runs /\ d.conv \in Conversations BY DEF TypeOK, Deletes
  <2> QED BY <1>2, <1>4, <1>5, <1>6, <2>1 DEF TurnInv, DeletesKnow
<1>15. \A p \in replies : p.conv \in Conversations /\ p.run \in Runs BY DEF TypeOK, Replies
<1>16. RepliesKept'
  <2>1. ASSUME NEW p \in replies', conv'[p.conv] = "active"
        PROVE  SameTurn(p.run, p.conv, p.sub, p.print)'
    <3>1. CASE p = reply BY <1>3, <1>4, <3>1 DEF SameTurn
    <3>2. CASE p # reply BY <1>4, <1>5, <1>6, <1>15, <1>2, <2>1, <3>2 DEF SameTurn, TurnInv, RepliesKept
    <3> QED BY <3>1, <3>2
  <2>2. ASSUME NEW q \in Runs, NEW p \in Runs, run'[q].conv = run'[p].conv,
               run'[q].sub = run'[p].sub, run'[q].conv # None, run'[q].sub # None
        PROVE  q = p BY <1>2, <1>4, <2>2 DEF TurnInv, RepliesKept
  <2> QED BY <2>1, <2>2 DEF RepliesKept
<1>17. SubmissionIdempotent'
  <2>1. ASSUME NEW p \in replies, p.conv = c PROVE p.sub # s BY <1>2, <1>15, <2>1 DEF TurnInv, RepliesKept, SameTurn
  <2> QED BY <1>2, <1>3, <2>1 DEF TurnInv, SubmissionIdempotent
<1> QED BY <1>12, <1>13, <1>14, <1>16, <1>17, <1>2, <1>4, <1>11 DEF TurnInv, RowsPlaced

\* start_run: a run for the last message, a question nobody has asked for yet.
LEMMA StartRuns ==
  ASSUME TypeOK, TurnInv, NEW c \in Conversations, NEW r \in Runs, StartRun(c, r)
  PROVE  TurnInv'
<1> DEFINE n == Len(messages[c])
<1>1. /\ InsertRun(r, c, n, None, None) /\ n \in Nat
      /\ n \in DOMAIN messages[c] /\ messages[c][n].role = "user"
      /\ UNCHANGED <<conv, messages, projected, deletes, replies>>
      /\ conv[c] = "active" /\ \A q \in Runs : run[q].conv = c => ~Active(q)
  BY DEF StartRun, ActiveIn, clientVars, TypeOK
<1>2. /\ run[r].state = "absent" /\ run'[r].state = "queued" /\ run'[r].conv = c
      /\ run'[r].input = n /\ run'[r].sub = None
      /\ \A q \in Runs \ {r} : run'[q] = run[q] BY <1>1, InsertParts
<1> HIDE DEF n
<1>3. c # None /\ None \notin Conversations BY NullAssumption DEF None
<1>4. run[r].conv = None BY <1>2 DEF TurnInv, RowsPlaced
<1>5. n = Len(messages'[c]) BY <1>1 DEF n
<1>6. TurnsInOrder' BY <1>1, <1>2, <1>5, SMTT(40) DEF TurnInv, TurnsInOrder, QuestionsAsked, Active
<1>7. DeletesKnow'
  <2>1. \A d \in deletes : d.seen \subseteq Runs /\ d.conv \in Conversations BY DEF TypeOK, Deletes
  <2> QED BY <1>1, <1>2, <1>3, <1>4, <2>1 DEF TurnInv, DeletesKnow
<1>8. RepliesKept'
  <2>1. \A p \in replies : p.conv \in Conversations /\ p.run \in Runs BY DEF TypeOK, Replies
  <2> QED BY <1>1, <1>2, <1>3, <1>4, <2>1 DEF TurnInv, RepliesKept, SameTurn
<1>9. SubmissionIdempotent' BY <1>1 DEF TurnInv, SubmissionIdempotent
<1> QED BY <1>6, <1>7, <1>8, <1>9, <1>1, <1>2, <1>3, <1>4 DEF TurnInv, RowsPlaced, QuestionsAsked, Active

\* What a DELETE leaves: the rows of other conversations as they are, and none
\* of its own.
LEMMA DeleteParts ==
  ASSUME TypeOK, TurnInv, NEW d \in deletes, ApplyDelete(d)
  PROVE  /\ d.conv \in Conversations /\ d.seen \subseteq Runs
         /\ conv' = [conv EXCEPT ![d.conv] = "deleted"] /\ deletes' = {}
         /\ replies' = replies
         /\ messages'[d.conv] = << >> /\ projected'[d.conv] = 0
         /\ \A x \in Conversations \ {d.conv} :
              messages'[x] = messages[x] /\ projected'[x] = projected[x]
         /\ \A q \in Runs : IF run[q].conv = d.conv THEN run'[q].conv = None
                                                    ELSE run'[q] = run[q]
         /\ \A q \in d.seen : run[q].conv = d.conv /\ run'[q].state = "deleted"
         /\ \A q \in Runs \ d.seen : run'[q].state = run[q].state
<1>1. /\ d.conv \in Conversations /\ d.seen \subseteq Runs
      /\ \A q \in d.seen : run[q].conv = d.conv /\ \A x \in deletes : x = d
  BY DEF TypeOK, Deletes, TurnInv, DeletesKnow
<1>2. /\ conv' = [conv EXCEPT ![d.conv] = "deleted"] /\ deletes' = deletes \ {d}
      /\ replies' = replies /\ messages' = [messages EXCEPT ![d.conv] = << >>]
      /\ projected' = [projected EXCEPT ![d.conv] = Len(messages'[d.conv])] BY DEF ApplyDelete, RebuildProjection
<1>3. messages'[d.conv] = << >> BY <1>1, <1>2 DEF TypeOK
<1>4. \A x \in Conversations \ {d.conv} :
        messages'[x] = messages[x] /\ projected'[x] = projected[x] BY <1>2 DEF TypeOK
<1>5. ASSUME NEW q \in Runs
      PROVE  /\ IF run[q].conv = d.conv THEN run'[q].conv = None ELSE run'[q] = run[q]
             /\ q \in d.seen => run'[q].state = "deleted"
             /\ q \notin d.seen => run'[q].state = run[q].state
  <2> DEFINE gone == [AbsentRun EXCEPT !.state = "deleted"]
             orphan == [run[q] EXCEPT !.conv = None, !.input = 0]
  <2>1. orphan.conv = None /\ orphan.state = run[q].state BY RowParts DEF TypeOK
  <2>2. run'[q] = IF q \in d.seen THEN gone
                  ELSE IF run[q].conv = d.conv THEN orphan ELSE run[q] BY DEF ApplyDelete
  <2>3. gone.conv = None /\ gone.state = "deleted" BY DEF AbsentRun
  <2> HIDE DEF gone, orphan
  <2> QED BY <1>1, <2>1, <2>2, <2>3
<1> QED BY <1>1, <1>2, <1>3, <1>4, <1>5 DEF TurnInv, DeletesKnow, TypeOK

\* delete_conversation.
LEMMA DeleteTurns ==
  ASSUME TypeOK, TurnInv, NEW d \in deletes, ApplyDelete(d)
  PROVE  TurnInv'
<1>1. /\ d.conv \in Conversations /\ d.seen \subseteq Runs
      /\ conv' = [conv EXCEPT ![d.conv] = "deleted"] /\ deletes' = {}
      /\ replies' = replies
      /\ messages'[d.conv] = << >> /\ projected'[d.conv] = 0
      /\ \A x \in Conversations \ {d.conv} :
           messages'[x] = messages[x] /\ projected'[x] = projected[x]
      /\ \A q \in Runs : IF run[q].conv = d.conv THEN run'[q].conv = None
                                                 ELSE run'[q] = run[q]
      /\ \A q \in d.seen : run[q].conv = d.conv /\ run'[q].state = "deleted"
      /\ \A q \in Runs \ d.seen : run'[q].state = run[q].state BY DeleteParts
<1>2. None \notin Conversations BY NullAssumption DEF None
<1>3. conv'[d.conv] = "deleted" /\ \A x \in Conversations \ {d.conv} : conv'[x] = conv[x] BY <1>1 DEF TypeOK
<1>4. \A q \in Runs : run'[q].conv = None \/ (run'[q] = run[q] /\ run[q].conv # d.conv) BY <1>1
<1>5. RowsPlaced'
  <2>1. ASSUME NEW x \in Conversations, conv'[x] = "deleted"
        PROVE  messages'[x] = << >> /\ \A r \in Runs : run'[r].conv # x
    BY <1>1, <1>2, <1>3, <1>4, <2>1 DEF TurnInv, RowsPlaced
  <2> QED BY <2>1, <1>4 DEF RowsPlaced, TurnInv
<1>6. ASSUME NEW x \in Conversations, NEW i \in DOMAIN messages'[x],
             messages'[x][i].role = "assistant"
      PROVE  /\ x # d.conv /\ messages'[x] = messages[x] /\ messages[x][i].run \in Runs
             /\ run[messages[x][i].run].conv = x
             /\ run'[messages[x][i].run] = run[messages[x][i].run] BY <1>1, <1>6 DEF TurnInv, QuestionsAsked
<1>7. TurnsInOrder'
  <2> SUFFICES ASSUME NEW x \in Conversations PROVE OrderedNext(x) BY DEF TurnsInOrder, OrderedNext
  <2>1. \A q \in Runs : run'[q].conv = x => run'[q] = run[q] /\ x # d.conv BY <1>2, <1>4
  <2>2. \A i \in DOMAIN messages'[x] : messages'[x][i].role = "assistant" =>
          /\ i > 1 /\ messages'[x][i - 1].role = "user"
          /\ run'[messages'[x][i].run].state = "completed"
          /\ run'[messages'[x][i].run].input = i - 1 BY <1>6 DEF TurnInv, TurnsInOrder
  <2>3. \A q \in Runs : run'[q].conv = x /\ run'[q].state = "completed" =>
          \E i \in DOMAIN messages'[x] : messages'[x][i].run = q BY <1>1, <2>1 DEF TurnInv, TurnsInOrder
  <2>4. projected'[x] = Len(messages'[x]) BY <1>1 DEF TurnInv, TurnsInOrder
  <2> QED BY <2>2, <2>3, <2>4, <2>1, <1>1 DEF OrderedNext, TurnInv, TurnsInOrder, Active
<1>8. QuestionsAsked'
  <2>1. ASSUME NEW q \in Runs, Active(q)', run'[q].conv # None
        PROVE  /\ run'[q].input \in DOMAIN messages'[run'[q].conv]
               /\ messages'[run'[q].conv][run'[q].input].role = "user"
    BY <1>1, <2>1, <1>4 DEF TurnInv, QuestionsAsked, Active, TypeOK, RunRows
  <2> QED BY <1>6, <2>1 DEF QuestionsAsked
<1>9. RepliesKept'
  <2>1. \A p \in replies : p.conv \in Conversations /\ p.run \in Runs BY DEF TypeOK, Replies
  <2>2. ASSUME NEW p \in replies, conv'[p.conv] = "active"
        PROVE  SameTurn(p.run, p.conv, p.sub, p.print)' BY <1>1, <2>1, <1>3, <2>2 DEF SameTurn, TurnInv, RepliesKept
  <2> QED BY <1>1, <2>2, <1>4 DEF RepliesKept, TurnInv
<1> QED BY <1>5, <1>7, <1>8, <1>9, <1>1 DEF TurnInv, DeletesKnow, SubmissionIdempotent

\* complete_run: the answer joins the conversation behind its question.
LEMMA AnswerTurns ==
  ASSUME TypeOK, TurnInv, NEW e \in Executors, Answers(e)
  PROVE  TurnInv'
<1> DEFINE r == e[1]
           c == run[r].conv
           m == Message("assistant", r, mem[e].recv)
           n == Len(messages[c])
<1>1. /\ r \in Runs /\ Active(r) /\ run'[r].state = "completed"
      /\ SameTurnRow(r) /\ \A q \in Runs \ {r} : SamePhase(q)
      /\ c \in Conversations /\ InsertMessage(c, m)
      /\ UNCHANGED <<conv, replies, deletes>> BY ExecutorParts DEF Answers
<1>2. m.role = "assistant" /\ m.run = r BY DEF Message
<1> HIDE DEF m
<1>3. /\ Len(messages'[c]) = n + 1 /\ DOMAIN messages[c] = 1..n
      /\ DOMAIN messages'[c] = 1..(n + 1) /\ messages'[c][n + 1] = m /\ n \in Nat BY <1>1, AppendParts
<1>4. /\ run[r].input = n /\ n \in DOMAIN messages[c] /\ messages[c][n].role = "user"
      /\ \A q \in Runs : run[q].conv = c /\ Active(q) => q = r
  BY <1>1, NullAssumption DEF TurnInv, TurnsInOrder, QuestionsAsked, None
<1>5. /\ \A q \in Runs : SameTurnRow(q) /\ (q # r => run'[q].state = run[q].state)
      /\ run[r].state \notin {"absent", "deleted", "completed"} /\ ~Active(r)'
  BY <1>1 DEF SamePhase, Active, ActiveStates
<1>6. \A x \in Conversations : \A i \in DOMAIN messages'[x] :
        \/ i \in DOMAIN messages[x] /\ messages'[x][i] = messages[x][i]
        \/ x = c /\ i = n + 1
  <2>1. \A i \in 1..(n + 1) : i \in 1..n \/ i = n + 1 BY <1>3
  <2>2. /\ \A i \in DOMAIN messages[c] : messages'[c][i] = messages[c][i]
        /\ \A x \in Conversations \ {c} : messages'[x] = messages[x] BY <1>1, AppendParts
  <2>3. DOMAIN messages'[c] = 1..(n + 1) /\ DOMAIN messages[c] = 1..n BY <1>3
  <2> HIDE DEF n, c
  <2> QED BY <2>1, <2>2, <2>3
<1>7. \A x \in Conversations : \A i \in DOMAIN messages[x] :
        i \in DOMAIN messages'[x] /\ messages'[x][i] = messages[x][i] BY <1>1, AppendParts
<1>8. \A x \in Conversations : \A i \in DOMAIN messages[x] :
        i > 1 => i - 1 \in DOMAIN messages[x] BY DEF TypeOK
<1>9. /\ \A x \in Conversations \ {c} : messages'[x] = messages[x]
      /\ \A x \in Conversations \ {c} : projected'[x] = projected[x]
      /\ projected'[c] = Len(messages'[c]) BY <1>1, AppendParts
<1>10. n >= 1 /\ n + 1 > 1 /\ (n + 1) - 1 = n /\ n + 1 \in 1..(n + 1) BY <1>3, <1>4
<1> HIDE DEF n, c, r
<1>11. TurnsInOrder'
  <2> SUFFICES ASSUME NEW x \in Conversations PROVE OrderedNext(x) BY DEF TurnsInOrder, OrderedNext
  <2>1. ASSUME NEW i \in DOMAIN messages'[x], messages'[x][i].role = "assistant"
        PROVE  /\ i > 1 /\ messages'[x][i - 1].role = "user"
               /\ run'[messages'[x][i].run].state = "completed"
               /\ run'[messages'[x][i].run].input = i - 1
    <3>1. CASE x = c /\ i = n + 1 BY <1>1, <1>4, <1>5, <1>10, <3>1, <1>2, <1>3, <1>7 DEF SameTurnRow
    <3>2. CASE i \in DOMAIN messages[x] /\ messages'[x][i] = messages[x][i]
      BY <1>5, <1>7, <1>8, <3>2, <2>1 DEF SameTurnRow, TurnInv, TurnsInOrder, QuestionsAsked
    <3> QED BY <1>6, <3>1, <3>2
  <2>2. \A q \in Runs : run'[q].conv = x /\ run'[q].state = "completed" =>
          \E i \in DOMAIN messages'[x] : messages'[x][i].run = q
    <3>1. ASSUME NEW q \in Runs \ {r}, run'[q].conv = x, run'[q].state = "completed"
          PROVE  \E i \in DOMAIN messages'[x] : messages'[x][i].run = q
      BY <1>5, <1>7, <3>1 DEF TurnInv, TurnsInOrder, SameTurnRow
    <3> QED BY <1>2, <1>3, <1>10, <3>1, <1>1 DEF SameTurnRow, c
  <2>3. projected'[x] = Len(messages'[x]) BY <1>9 DEF TurnInv, TurnsInOrder
  <2> QED BY <2>1, <2>2, <2>3, <1>5, <1>4, <1>9 DEF OrderedNext, TurnInv, TurnsInOrder, Active, SameTurnRow
<1>12. QuestionsAsked'
  <2>1. ASSUME NEW q \in Runs, Active(q)', run'[q].conv # None
        PROVE  /\ run'[q].input \in DOMAIN messages'[run'[q].conv]
               /\ messages'[run'[q].conv][run'[q].input].role = "user"
    <3>1. Active(q) /\ run'[q].conv = run[q].conv /\ run'[q].input = run[q].input
      BY <1>5, <2>1 DEF Active, SameTurnRow
    <3> QED BY <1>7, <2>1, <3>1 DEF TurnInv, QuestionsAsked, TypeOK, RunRows
  <2>2. ASSUME NEW x \in Conversations, NEW i \in DOMAIN messages'[x],
               messages'[x][i].role = "assistant"
        PROVE  messages'[x][i].run \in Runs /\ run'[messages'[x][i].run].conv = x
    <3>1. CASE x = c /\ i = n + 1 BY <1>1, <1>2, <1>3, <3>1 DEF SameTurnRow, c
    <3>2. CASE i \in DOMAIN messages[x] /\ messages'[x][i] = messages[x][i]
      BY <1>5, <2>2, <3>2 DEF TurnInv, QuestionsAsked, SameTurnRow
    <3> QED BY <1>6, <3>1, <3>2
  <2> QED BY <2>1, <2>2 DEF QuestionsAsked
<1>13. DeletesKnow' BY <1>1, <1>5 DEF TurnInv, DeletesKnow, SameTurnRow, TypeOK, Deletes
<1>14. RepliesKept'
  <2>1. \A p \in replies : p.run \in Runs BY DEF TypeOK, Replies
  <2> QED BY <1>1, <1>5, <2>1 DEF TurnInv, RepliesKept, SameTurn, SameTurnRow
<1> QED BY <1>11, <1>12, <1>13, <1>14, <1>1, <1>5, <1>9 DEF TurnInv, RowsPlaced, SameTurnRow, c, SubmissionIdempotent

\* A turn is taken once, in its place, whatever order copies of requests,
\* executors and their crashes come in.
LEMMA TurnStep ==
  ASSUME FencingInv, TurnInv, [Next]_vars
  PROVE  TurnInv'
<1>1. TypeOK BY DEF FencingInv
<1>2. Kind BY Kinds
<1> QED
  BY <1>1, <1>2, QuietTurns, StartTurns, RepeatTurns, AppendTurns, BeginTurns, StartRuns, DeleteTurns, AnswerTurns DEF
    Kind

\* start_turn, start_run, append_message and complete_run: a conversation has
\* one active run, about its latest message; an answer follows its question;
\* copies of a submission are told of one run.
THEOREM TurnsTakenOnce == Spec => []TurnsSound
<1>1. FencingInv /\ TurnInv /\ FencingInv' /\ [Next]_vars => TurnInv' BY TurnStep
<1>2. TurnInv => TurnsSound BY DEF TurnInv, TurnsSound
<1> QED BY <1>1, <1>2, TurnInit, Fencing, PTL DEF Spec

(***************************************************************************)
(* Logs                                                                    *)
(***************************************************************************)
\* The steps of an executor after its reset, if it needs one.
Started == PCs \ {"none", "reset", "release", "done"}

\* A log has no events of claims that are still to come, and a run's token is
\* that of its last claim.
ClaimsBound ==
  \A r \in Runs :
    /\ run[r].token \in {0, run[r].attempts}
    /\ \A i \in DOMAIN log[r] : log[r][i].by <= run[r].attempts

HasEvent(r, type, by) == \E i \in DOMAIN log[r] : log[r][i].type = type /\ log[r][i].by = by

\* An executor that took its run over has published the reset, and one that is
\* about to store a tool call has published the result.
PublishedBefore ==
  \A e \in Executors : run[e[1]].state # "deleted" =>
    /\ e[2] > 1 /\ pc[e] \in Started => HasEvent(e[1], "run.output_reset", e[2])
    /\ pc[e] = "tool_row" => HasEvent(e[1], "tool.result", e[2])

DeletedRunsEmpty ==
  \A r \in Runs : run[r].state = "deleted" =>
    log[r] = << >> /\ \A row \in toolCalls : row.run # r

LogInv == ClaimsBound /\ EventsInOrder /\ PublishedBefore /\ ToolCallsPublished
          /\ DeletedRunsEmpty

\* What one log says of how its run ended, and of whose events it has.
NoEnd(l) == \A i \in DOMAIN l : l[i].type \notin TerminalEvents
OneEnd(l, state) ==
  \E i \in DOMAIN l : /\ l[i].type = TerminalEventOf[state]
                      /\ \A j \in DOMAIN l : l[j].type \in TerminalEvents => j = i
                      /\ \A j \in DOMAIN l : j > i => l[j].type = "token_metrics"
InOrder(l) ==
  \A j \in DOMAIN l :
    /\ \A i \in 1..(j - 1) : l[j].by # 0 => l[i].by <= l[j].by
    /\ l[j].by > 1 => \E i \in 1..j : l[i].by = l[j].by /\ l[i].type = "run.output_reset"

LEMMA EndFacts ==
  \A state \in TerminalStates : TerminalEventOf[state] \in TerminalEvents
  BY DEF TerminalStates, TerminalEventOf, TerminalEvents

LEMMA EndForm ==
  ASSUME NEW l, NEW state \in TerminalStates
  PROVE  (LET ends == {i \in DOMAIN l : l[i].type \in TerminalEvents} IN
          \E i \in ends : /\ ends = {i}
                          /\ l[i].type = TerminalEventOf[state]
                          /\ \A j \in DOMAIN l : j > i => l[j].type = "token_metrics")
         <=> OneEnd(l, state)
  BY EndFacts DEF OneEnd

\* EventsInOrder is a matter of each log.
LEMMA PerLog ==
  /\ OneTerminalEvent <=>
       \A r \in Runs : IF Terminal(r) THEN OneEnd(log[r], run[r].state) ELSE NoEnd(log[r])
  /\ GenerationsInOrder <=> \A r \in Runs : InOrder(log[r])
  BY EndForm DEF GenerationsInOrder, InOrder, OneTerminalEvent, Terminal, NoEnd

LEMMA PerLogNext ==
  /\ OneTerminalEvent' <=>
       \A r \in Runs : IF Terminal(r)' THEN OneEnd(log'[r], run'[r].state) ELSE NoEnd(log'[r])
  /\ GenerationsInOrder' <=> \A r \in Runs : InOrder(log'[r])
  BY EndForm DEF GenerationsInOrder, InOrder, OneTerminalEvent, Terminal, NoEnd

\* One event more, before the end, at the end and behind it.
LEMMA EndGrows ==
  ASSUME NEW l \in Seq(Events), NEW ev \in Events, NEW state \in TerminalStates
  PROVE  /\ NoEnd(l) /\ ev.type \notin TerminalEvents => NoEnd(Append(l, ev))
         /\ NoEnd(l) /\ ev.type = TerminalEventOf[state] => OneEnd(Append(l, ev), state)
         /\ OneEnd(l, state) /\ ev.type = "token_metrics" => OneEnd(Append(l, ev), state)
<1>1. /\ DOMAIN Append(l, ev) = 1..(Len(l) + 1) /\ DOMAIN l = 1..Len(l)
      /\ Append(l, ev)[Len(l) + 1] = ev /\ Len(l) \in Nat
      /\ \A i \in 1..Len(l) : Append(l, ev)[i] = l[i] OBVIOUS
<1> DEFINE m == Append(l, ev)
           n == Len(l)
<1>2. \A i \in 1..(n + 1) : i \in 1..n \/ i = n + 1 BY <1>1
<1> HIDE DEF m, n
<1>3. /\ DOMAIN m = 1..(n + 1) /\ DOMAIN l = 1..n /\ m[n + 1] = ev /\ n \in Nat
      /\ \A i \in 1..n : m[i] = l[i] BY <1>1 DEF m, n
<1>4. NoEnd(l) /\ ev.type = TerminalEventOf[state] => OneEnd(m, state)
  <2> SUFFICES ASSUME NoEnd(l), ev.type = TerminalEventOf[state] PROVE OneEnd(m, state) OBVIOUS
  <2>1. \A j \in DOMAIN m : ~(j > n + 1) BY <1>3
  <2> QED BY <2>1, <1>3, <1>2 DEF OneEnd, NoEnd
<1>5. OneEnd(l, state) /\ ev.type = "token_metrics" => OneEnd(m, state)
  <2> SUFFICES ASSUME OneEnd(l, state), ev.type = "token_metrics" PROVE OneEnd(m, state) OBVIOUS
  <2>1. PICK i \in DOMAIN l : /\ l[i].type = TerminalEventOf[state]
                              /\ \A j \in DOMAIN l : l[j].type \in TerminalEvents => j = i
                              /\ \A j \in DOMAIN l : j > i => l[j].type = "token_metrics" BY DEF OneEnd
  <2>2. \A j \in DOMAIN m : j > i => m[j].type = "token_metrics" BY <1>2, <1>3, <2>1
  <2> QED BY <2>1, <2>2, <1>3, <1>2 DEF OneEnd, TerminalEvents
<1> QED BY <1>4, <1>5, <1>2, <1>3 DEF m, NoEnd

\* An event of the last claim, behind the reset if it is a takeover, or of none.
LEMMA OrderGrows ==
  ASSUME NEW l \in Seq(Events), NEW ev \in Events, NEW n \in Nat, InOrder(l),
         \A i \in DOMAIN l : l[i].by <= n,
         ev.by \in {0, n},
         \/ ev.by <= 1 \/ ev.type = "run.output_reset"
         \/ \E i \in DOMAIN l : l[i].by = ev.by /\ l[i].type = "run.output_reset"
  PROVE  InOrder(Append(l, ev)) /\ \A i \in DOMAIN Append(l, ev) : Append(l, ev)[i].by <= n
<1> DEFINE m == Append(l, ev)
           k == Len(l)
<1>1. /\ DOMAIN m = 1..(k + 1) /\ DOMAIN l = 1..k /\ m[k + 1] = ev /\ k \in Nat
      /\ \A i \in 1..k : m[i] = l[i] OBVIOUS
<1>2. \A i \in 1..(k + 1) : i \in 1..k \/ i = k + 1 BY <1>1
<1>3. /\ \A j \in 1..k : \A i \in 1..(j - 1) : i \in 1..k
      /\ \A j \in 1..k : \A i \in 1..j : i \in 1..k
      /\ \A i \in 1..(k + 1 - 1) : i \in 1..k
      /\ \A i \in 1..k : i \in 1..(k + 1)
      /\ k + 1 \in 1..(k + 1) BY <1>1
<1> HIDE DEF m, k
<1>4. ASSUME NEW j \in DOMAIN m
      PROVE  /\ \A i \in 1..(j - 1) : m[j].by # 0 => m[i].by <= m[j].by
             /\ m[j].by > 1 =>
                  \E i \in 1..j : m[i].by = m[j].by /\ m[i].type = "run.output_reset"
  <2>1. CASE j \in 1..k BY <1>1, <1>3, <2>1 DEF InOrder
  <2>2. CASE j = k + 1
    <3>1. m[j] = ev BY <1>1, <2>2
    <3>2. ASSUME m[j].by > 1
          PROVE  \E i \in 1..j : m[i].by = m[j].by /\ m[i].type = "run.output_reset"
      <4>1. CASE ev.type = "run.output_reset" BY <1>3, <2>2, <3>1, <4>1
      <4>2. CASE \E i \in DOMAIN l : l[i].by = ev.by /\ l[i].type = "run.output_reset" BY <1>1, <1>3, <2>2, <3>1, <4>2
      <4> QED BY <3>1, <3>2, <4>1, <4>2 DEF Events
    <3> QED BY <3>2, <1>1, <1>3, <2>2, <3>1
  <2> QED BY <1>1, <1>2, <2>1, <2>2
<1> QED BY <1>1, <1>2, <1>4 DEF m, InOrder

\* A token is dropped or kept, unless a claim writes a fresh one.
TokenChange(q) ==
  \/ run'[q].token \in {0, run[q].token} /\ run'[q].attempts = run[q].attempts
  \/ /\ run'[q].token = run'[q].attempts /\ run'[q].attempts > run[q].attempts
     /\ UNCHANGED log
  \/ run'[q].state = "deleted" /\ run'[q].token = 0 /\ run'[q].attempts = 0

LEMMA TokenRow ==
  ASSUME TypeOK, NEW r \in Runs, NEW row, Update(r, row),
         row.token \in {0, run[r].token}, row.attempts = run[r].attempts
  PROVE  \A q \in Runs : TokenChange(q)
  BY DEF Update, TypeOK, TokenChange

LEMMA TokenSame ==
  ASSUME UNCHANGED run
  PROVE  \A q \in Runs : TokenChange(q)
  BY DEF TokenChange

LEMMA TokenFinish ==
  ASSUME TypeOK, NEW r \in Runs, NEW state, Finish(r, state)
  PROVE  \A q \in Runs : TokenChange(q)
<1> DEFINE row == [run[r] EXCEPT !.state = state, !.token = 0, !.lease = 0]
<1>1. row.token = 0 /\ row.attempts = run[r].attempts BY RowParts DEF TypeOK
<1>2. Update(r, row) BY DEF Finish
<1> HIDE DEF row
<1> QED BY <1>1, <1>2, TokenRow

LEMMA TokenInsert ==
  ASSUME TypeOK, RowsOK, NEW r \in Runs, NEW c, NEW ordinal, NEW s, NEW f,
         InsertRun(r, c, ordinal, s, f)
  PROVE  \A q \in Runs : TokenChange(q)
<1> DEFINE row == [AbsentRun EXCEPT !.state = "queued", !.conv = c, !.input = ordinal,
                                    !.sub = s, !.print = f]
<1>1. row.token = 0 /\ row.attempts = 0 BY DEF AbsentRun
<1>2. Update(r, row) /\ run[r].attempts = 0 BY DEF InsertRun, RowsOK
<1> HIDE DEF row
<1> QED BY <1>1, <1>2, TokenRow

LEMMA TokenClaim ==
  ASSUME TypeOK, NEW r \in Runs, Claim(r)
  PROVE  \A q \in Runs : TokenChange(q)
<1> DEFINE a == run[r].attempts + 1
           row == [run[r] EXCEPT !.token = a, !.attempts = a, !.lease = LeaseTicks]
<1>1. run[r] \in RunRows BY DEF TypeOK
<1>2. a > run[r].attempts BY BoundsAssumption, <1>1, RowParts
<1>3. Update(r, row) BY DEF Claim
<1> HIDE DEF a
<1>4. row.token = a /\ row.attempts = a BY <1>1, RowParts
<1> HIDE DEF row
<1>5. run'[r] = row /\ \A q \in Runs \ {r} : run'[q] = run[q] BY <1>3 DEF Update, TypeOK
<1>6. UNCHANGED log BY DEF Claim
<1> QED BY <1>2, <1>4, <1>5, <1>6 DEF TokenChange

LEMMA TokenDelete ==
  ASSUME TypeOK, NEW d \in deletes, ApplyDelete(d)
  PROVE  \A q \in Runs : TokenChange(q)
<1> SUFFICES ASSUME NEW q \in Runs PROVE TokenChange(q) OBVIOUS
<1> DEFINE gone == [AbsentRun EXCEPT !.state = "deleted"]
           orphan == [run[q] EXCEPT !.conv = None, !.input = 0]
<1>1. orphan.token = run[q].token /\ orphan.attempts = run[q].attempts BY RowParts DEF TypeOK
<1>2. gone.token = 0 /\ gone.attempts = 0 /\ gone.state = "deleted" BY DEF AbsentRun
<1>3. run'[q] \in {gone, orphan, run[q]} BY DEF ApplyDelete
<1> HIDE DEF gone, orphan
<1> QED BY <1>1, <1>2, <1>3 DEF TokenChange

\* Every step changes tokens that way only.
LEMMA TokenStep ==
  ASSUME FencingInv, [Next]_vars
  PROVE  \A q \in Runs : TokenChange(q)
<1> USE DEF execVars, clientVars, rowVars
<1>1. TypeOK /\ RowsOK BY DEF FencingInv
<1>2. \A r \in Runs : run[r] \in RunRows BY <1>1 DEF TypeOK
<1>3. ASSUME NEW r \in Runs, CancelRun(r) PROVE \A q \in Runs : TokenChange(q)
  <2>1. CASE Abandoned(r)
    <3> DEFINE row == [run[r] EXCEPT !.cancel = TRUE, !.state = "canceled", !.token = 0,
                                     !.lease = 0]
    <3>1. row.token = 0 /\ row.attempts = run[r].attempts BY <1>2, RowParts
    <3>2. Update(r, row) BY <1>3, <2>1 DEF CancelRun
    <3> HIDE DEF row
    <3> QED BY <1>1, <3>1, <3>2, TokenRow
  <2>2. CASE ~Abandoned(r)
    <3> DEFINE row == [run[r] EXCEPT !.cancel = TRUE]
    <3>1. row.token = run[r].token /\ row.attempts = run[r].attempts BY <1>2, RowParts
    <3>2. Update(r, row) BY <1>3, <2>2 DEF CancelRun
    <3> HIDE DEF row
    <3> QED BY <1>1, <3>1, <3>2, TokenRow
  <2> QED BY <2>1, <2>2
<1>4. ASSUME NEW r \in Runs, Tick(r) PROVE \A q \in Runs : TokenChange(q)
  <2> DEFINE row == [run[r] EXCEPT !.lease = @ - 1]
  <2>1. row.token = run[r].token /\ row.attempts = run[r].attempts BY <1>2, RowParts
  <2>2. Update(r, row) BY <1>4 DEF Tick
  <2> HIDE DEF row
  <2> QED BY <1>1, <2>1, <2>2, TokenRow
<1>5. ASSUME NEW e \in Executors, Renew(e) \/ Release(e) PROVE \A q \in Runs : TokenChange(q)
  <2> DEFINE renewed == [run[e[1]] EXCEPT !.lease = Renewed(e)]
             released == [run[e[1]] EXCEPT !.token = 0, !.lease = 0]
  <2>1. e[1] \in Runs BY ExecutorParts
  <2>2. /\ renewed.token = run[e[1]].token /\ renewed.attempts = run[e[1]].attempts
        /\ released.token = 0 /\ released.attempts = run[e[1]].attempts BY <1>2, <2>1, RowParts
  <2>3. Update(e[1], renewed) \/ Update(e[1], released) \/ UNCHANGED run BY <1>5 DEF Renew, Release
  <2> HIDE DEF renewed, released
  <2> QED BY <1>1, <2>1, <2>2, <2>3, TokenRow, TokenSame
<1>6. ASSUME NEW e \in Executors, NEW ack \in BOOLEAN, CommitTransition(e, ack)
      PROVE  \A q \in Runs : TokenChange(q)
  <2> DEFINE row == [run[e[1]] EXCEPT !.state = Transitions[pc[e]].state]
  <2>1. e[1] \in Runs BY ExecutorParts
  <2>2. row.token = run[e[1]].token /\ row.attempts = run[e[1]].attempts BY <1>2, <2>1, RowParts
  <2>3. Update(e[1], row) BY <1>6 DEF CommitTransition
  <2> HIDE DEF row
  <2> QED BY <1>1, <2>1, <2>2, <2>3, TokenRow
<1>7. CASE Client
  BY <1>1, <1>3, <1>7, TokenSame, TokenInsert, TokenDelete DEF Client, StartTurn, RepeatTurn, AppendMessage,
    BeginDelete, StartRun, RevokeAccess
<1>8. CASE Worker BY <1>1, <1>4, <1>8, TokenClaim, TokenFinish DEF Worker, FinalizeCancellation
<1>9. ASSUME NEW e \in Executors, Transact(e) PROVE \A q \in Runs : TokenChange(q)
  BY <1>1, <1>6, <1>9, TokenSame, TokenFinish, ExecutorParts DEF Transact, Begin, Acquire, Refused, CommitAppend,
    CommitFlush, CommitComplete, CommitCancel, CommitFail
<1>10. ASSUME NEW e \in Executors, Proceed(e) PROVE \A q \in Runs : TokenChange(q)
  <2>1. CASE Release(e) BY <1>5, <2>1
  <2>2. CASE ~Release(e)
    <3>1. UNCHANGED run
      BY <1>10, <2>2 DEF Proceed, CheckCanceled, PollCanceled, ReadAccess, LoadRoutes, WriteOwned, OpenProvider,
        ReceiveText, ReceiveUsage, ReceiveToolCall, StreamEnds, FlushTimer, FlushDone, Decide, Authorize, RunTool,
        StoreToolCall, NextTool, StepFails, Step
    <3> QED BY <3>1, TokenSame
  <2> QED BY <2>1, <2>2
<1>11. ASSUME NEW e \in Executors, Interrupt(e) PROVE \A q \in Runs : TokenChange(q)
  BY <1>5, <1>11, TokenSame DEF Interrupt, Shutdown, Crash
<1>12. CASE UNCHANGED vars BY <1>12, TokenSame DEF vars
<1> QED BY <1>7, <1>8, <1>9, <1>10, <1>11, <1>12 DEF Next

\* Where a step may take an executor: nowhere; into being; out of the run; on
\* through execute_inner; or past an append, which it publishes.
Move(f) ==
  \/ pc'[f] = pc[f]
  \/ pc'[f] = FirstStep(f[2]) /\ run'[f[1]].attempts > run[f[1]].attempts
  \/ pc'[f] \in {"release", "done"}
  \/ pc[f] \in Started /\ pc'[f] # "tool_row"
  \/ /\ pc[f] \in AppendPcs /\ pc'[f] = Appends[pc[f]].next
     /\ log' = [log EXCEPT ![f[1]] = @ \o <<Event(Appends[pc[f]].event, f[2], 0)>>]

\* An executor that goes on from inside execute_inner, or drops out of it.
LEMMA MoveAlone ==
  ASSUME TypeOK, NEW e \in Executors, NEW p, Goto(e, p),
         \/ pc[e] \in Started /\ p # "tool_row"
         \/ p \in {"release", "done"}
         \/ p = pc[e]
  PROVE  \A f \in Executors : Move(f)
  BY DEF Goto, TypeOK, Move

LEMMA MoveNowhere ==
  ASSUME UNCHANGED pc
  PROVE  \A f \in Executors : Move(f)
  BY DEF Move

\* The steps that are inside execute_inner and not the reset.
LEMMA StartedFacts ==
  /\ (TxPcs \cup PlainPcs) \ {"reset"} \subseteq Started
  /\ InnerPcs \subseteq Started
  /\ TransitionPcs \cup FlushPcs \cup CheckPcs \subseteq Started
  /\ \A p \in TransitionPcs : Transitions[p].next # "tool_row"
  /\ \A p \in FlushPcs : Flushes[p] # "tool_row" /\ p # "tool_row"
  /\ \A p \in CheckPcs : Checks[p] # "tool_row"
  BY AppendFacts, TransitionFacts, FlushFacts, CheckFacts DEF Started, PCs, TxPcs, PlainPcs, InnerPcs, FinishPcs,
    Transitions, Flushes, Checks

LEMMA MoveAbort ==
  ASSUME TypeOK, NEW e \in Executors, Abort(e)
  PROVE  \A f \in Executors : Move(f)
  BY MoveAlone, StartedFacts DEF Abort, End

\* Every step moves every executor that way only.
LEMMA MoveStep ==
  ASSUME TypeOK, [Next]_vars
  PROVE  \A f \in Executors : Move(f)
<1> USE DEF execVars, clientVars, rowVars
<1>1. CASE Client \/ UNCHANGED vars
  <2>1. UNCHANGED pc
    BY <1>1, ZenonT(40) DEF Client, StartTurn, RepeatTurn, AppendMessage, StartRun, CancelRun, BeginDelete,
      ApplyDelete, RevokeAccess, vars
  <2> QED BY <2>1, MoveNowhere
<1>2. CASE Worker
  <2>1. ASSUME NEW r \in Runs, Claim(r) PROVE \A f \in Executors : Move(f)
    <3>1. PICK a \in Attempts : a = run[r].attempts + 1 BY <2>1 DEF Claim
    <3>2. Goto(<<r, a>>, FirstStep(a)) BY <2>1, <3>1 DEF Claim
    <3>3. run[r] \in RunRows /\ run[r].attempts < a BY <3>1, BoundsAssumption DEF TypeOK, RunRows
    <3>4. run'[r].attempts = a
      <4> DEFINE row == [run[r] EXCEPT !.token = a, !.attempts = a, !.lease = LeaseTicks]
      <4>1. row.attempts = a BY <3>3, RowParts
      <4> HIDE DEF row
      <4> QED BY <4>1, <2>1, <3>1 DEF Update, TypeOK, Claim
    <3> QED BY <3>3, <3>4, <3>2 DEF Move, Goto, TypeOK
  <2> QED BY <1>2, <2>1, MoveNowhere DEF Worker, FinalizeCancellation, Tick
<1>3. ASSUME NEW e \in Executors, Transact(e) PROVE \A f \in Executors : Move(f)
  <2>1. CASE Begin(e) \/ Acquire(e) \/ Refused(e) BY <2>1, MoveNowhere, MoveAbort DEF Begin, Acquire, Refused
  <2>2. ASSUME NEW ack \in BOOLEAN, CommitAppend(e, ack) PROVE \A f \in Executors : Move(f)
    <3>1. CASE ack BY <2>2, <3>1 DEF Move, TypeOK, CommitAppend, Continue, Publish, Goto
    <3>2. CASE ~ack BY <2>2, <3>2, MoveAbort DEF CommitAppend, Continue
    <3> QED BY <3>1, <3>2
  <2>3. ASSUME NEW ack \in BOOLEAN, CommitTransition(e, ack) PROVE \A f \in Executors : Move(f)
    BY <2>3, MoveAbort, MoveAlone, StartedFacts DEF CommitTransition, Continue
  <2>4. ASSUME NEW ack \in BOOLEAN, CommitFlush(e, ack) PROVE \A f \in Executors : Move(f)
    BY <2>4, MoveAlone, StartedFacts DEF CommitFlush
  <2>5. ASSUME NEW ack \in BOOLEAN, CommitComplete(e, ack) \/ CommitCancel(e, ack)
        PROVE  \A f \in Executors : Move(f) BY <2>5, MoveAbort, MoveAlone DEF CommitComplete, CommitCancel, End
  <2>6. CASE CommitFail(e) BY <2>6, MoveAlone DEF CommitFail, End
  <2> QED BY <1>3, <2>1, <2>2, <2>3, <2>4, <2>5, <2>6 DEF Transact
<1>4. ASSUME NEW e \in Executors, NEW from \in PlainPcs \cup FlushPcs, NEW next,
             next # "tool_row", Step(e, from, next)
      PROVE  \A f \in Executors : Move(f)
  BY <1>4, MoveAlone, AppendFacts, StartedFacts, TransitionFacts, CheckFacts DEF Step, PlainPcs
<1>5. ASSUME NEW e \in Executors, Proceed(e) PROVE \A f \in Executors : Move(f)
  <2>1. CASE CheckCanceled(e) \/ PollCanceled(e) \/ FlushDone(e)
    BY <1>4, <2>1, StartedFacts DEF CheckCanceled, PollCanceled, FlushDone, PlainPcs
  <2>2. CASE ReadAccess(e) \/ LoadRoutes(e) \/ WriteOwned(e) \/ OpenProvider(e)
    BY <1>4, <2>2 DEF ReadAccess, LoadRoutes, WriteOwned, OpenProvider, PlainPcs
  <2>3. CASE \/ ReceiveText(e) \/ ReceiveUsage(e)
             \/ \E call \in CallIds : ReceiveToolCall(e, call)
    BY <1>4, <2>3 DEF ReceiveText, ReceiveUsage, ReceiveToolCall, PlainPcs
  <2>4. CASE \/ StreamEnds(e) \/ FlushTimer(e) \/ Decide(e) \/ Authorize(e)
             \/ RunTool(e) \/ NextTool(e)
    BY <1>4, <2>4 DEF StreamEnds, FlushTimer, Decide, Authorize, RunTool, NextTool, PlainPcs
  <2>5. CASE StoreToolCall(e) BY <2>5, MoveAlone, StartedFacts DEF StoreToolCall, PlainPcs, Started, PCs
  <2>6. CASE StepFails(e) \/ Release(e) BY <2>6, MoveAbort, MoveAlone DEF StepFails, Release, End
  <2> QED BY <1>5, <2>1, <2>2, <2>3, <2>4, <2>5, <2>6 DEF Proceed
<1>6. ASSUME NEW e \in Executors, Interrupt(e) PROVE \A f \in Executors : Move(f)
  BY <1>6, MoveAlone, MoveNowhere DEF Interrupt, Shutdown, Crash, Renew, End
<1> QED BY <1>1, <1>2, <1>3, <1>5, <1>6 DEF Next

\* An event of nobody, or of the executor that holds its run.
Writes(q, ev) ==
  /\ ev \in Events
  /\ \/ ev.by = 0
     \/ \E e \in Executors : /\ e[1] = q /\ e[2] = ev.by /\ tx[e] = "held"
                             /\ pc[e] = "reset" => ev.type = "run.output_reset"

\* What a step may do to a run and its log: nothing; delete them; publish one
\* event; or two of which the first does not end the run or the second is the
\* accounting behind the end.
LogMove(q) ==
  \/ log'[q] = log[q] /\ run'[q].state = run[q].state
  \/ log'[q] = << >> /\ run'[q].state = "deleted"
  \/ /\ run[q].state \in ActiveStates \cup {"absent"}
     /\ \E ev : /\ Writes(q, ev) /\ log'[q] = Append(log[q], ev)
                /\ \/ ev.type \notin TerminalEvents /\ run'[q].state \in ActiveStates
                   \/ /\ run'[q].state \in TerminalStates
                      /\ ev.type = TerminalEventOf[run'[q].state]
  \/ /\ Active(q) /\ run'[q].state \in TerminalStates
     /\ \E ev, x : /\ Writes(q, ev) /\ Writes(q, x)
                   /\ log'[q] = Append(Append(log[q], ev), x)
                   /\ \/ /\ ev.type \notin TerminalEvents
                         /\ x.type = TerminalEventOf[run'[q].state]
                      \/ /\ ev.type = TerminalEventOf[run'[q].state]
                         /\ x.type = "token_metrics"

\* The events of the engine.
LEMMA EventFacts ==
  /\ \A p \in AppendPcs : Appends[p].event \in EventTypes \ TerminalEvents
  /\ \A p \in TransitionPcs : Transitions[p].event \in EventTypes \ TerminalEvents
  /\ Appends["reset"].event = "run.output_reset"
  /\ TerminalEvents \subseteq EventTypes
  /\ {"run.queued", "run.cancel_requested", "model.text_delta", "token_metrics"}
       \subseteq EventTypes \ TerminalEvents
  /\ \A state \in TerminalStates : TerminalEventOf[state] \in TerminalEvents
  /\ TerminalEventOf["completed"] = "run.completed"
  /\ TerminalEventOf["canceled"] = "run.canceled"
  BY DEF EventTypes, TerminalEvents, AppendPcs, Appends, TransitionPcs, Transitions, TerminalStates, TerminalEventOf

LEMMA EventParts ==
  ASSUME NEW type \in EventTypes, NEW by \in 0..MaxAttempts, NEW chunks \in Nat
  PROVE  /\ Event(type, by, chunks) \in Events
         /\ Event(type, by, chunks).type = type /\ Event(type, by, chunks).by = by
         /\ Event(type, by, chunks).chunks = chunks
  BY DEF Event, Events

\* Publishing one event or two, as appending.
LEMMA PublishOne ==
  ASSUME TypeOK, NEW r \in Runs, NEW ev, log' = [log EXCEPT ![r] = @ \o <<ev>>]
  PROVE  log'[r] = Append(log[r], ev) /\ \A q \in Runs \ {r} : log'[q] = log[q]
  BY DEF TypeOK

LEMMA PublishTwo ==
  ASSUME TypeOK, NEW r \in Runs, NEW ev, NEW x, log' = [log EXCEPT ![r] = @ \o <<ev, x>>]
  PROVE  log'[r] = Append(Append(log[r], ev), x) /\ \A q \in Runs \ {r} : log'[q] = log[q]
  BY DEF TypeOK

LEMMA LogMoveInsert ==
  ASSUME TypeOK, NEW c \in Conversations, NEW r \in Runs, NEW n \in Nat, NEW s, NEW f,
         InsertRun(r, c, n, s, f)
  PROVE  \A q \in Runs : LogMove(q)
<1> DEFINE ev == Event("run.queued", 0, 0)
<1>1. Writes(r, ev) /\ ev.type \notin TerminalEvents BY EventFacts, EventParts, Ranges DEF Writes
<1>2. log' = [log EXCEPT ![r] = @ \o <<ev>>] BY DEF InsertRun, Publish
<1> HIDE DEF ev
<1>3. /\ run[r].state = "absent" /\ run'[r].state = "queued"
      /\ \A q \in Runs \ {r} : run'[q] = run[q] BY InsertParts
<1> QED BY <1>1, <1>3, <1>2, PublishOne DEF LogMove, ActiveStates

LEMMA LogMoveSpeaks ==
  ASSUME FencingInv, NEW r \in Runs, NEW ev, Speaks(r, ev)
  PROVE  \A q \in Runs : LogMove(q)
<1>1. TypeOK BY DEF FencingInv
<1>2. Writes(r, ev) /\ ev.type \notin TerminalEvents
  <2>1. CASE ev = Event("run.cancel_requested", 0, 0) BY <2>1, EventFacts, EventParts, Ranges DEF Writes
  <2>2. ASSUME NEW e \in Executors, e[1] = r, SpeaksAs(e, ev)
        PROVE  Writes(r, ev) /\ ev.type \notin TerminalEvents
    <3>1. e[2] \in 0..MaxAttempts /\ NextBatch(e) \in Nat /\ tx[e] = "held"
      BY <1>1, <2>2, ExecutorParts, BoundsAssumption, NextBatchType DEF FencingInv, SpeaksAs
    <3>2. CASE pc[e] \in AppendPcs /\ ev = Event(Appends[pc[e]].event, e[2], 0)
      BY <2>2, <3>1, <3>2, EventFacts, EventParts DEF Writes
    <3>3. CASE pc[e] \in TransitionPcs /\ ev = Event(Transitions[pc[e]].event, e[2], 0)
      BY <2>2, <3>1, <3>3, EventFacts, EventParts, TransitionFacts DEF Writes
    <3>4. CASE pc[e] \in FlushPcs /\ ev = Event("model.text_delta", e[2], NextBatch(e))
      BY <2>2, <3>1, <3>4, EventFacts, EventParts, FlushFacts DEF Writes
    <3> QED BY <2>2, <3>2, <3>3, <3>4 DEF SpeaksAs
  <2> QED BY <2>1, <2>2 DEF Speaks
<1> QED BY <1>2, <1>1, PublishOne DEF LogMove, Speaks, SamePhase, Active

LEMMA LogMoveGivesUp ==
  ASSUME FencingInv, NEW r \in Runs, NEW by \in 0..MaxAttempts,
         NEW outcome \in {"failed", "canceled"}, GivesUp(r, by, outcome)
  PROVE  \A q \in Runs : LogMove(q)
<1>1. TypeOK /\ outcome \in TerminalStates BY DEF FencingInv, TerminalStates
<1>2. \A q \in Runs \ {r} : run'[q].state = run[q].state BY DEF GivesUp, SamePhase
<1>3. CASE log' = [log EXCEPT ![r] = @ \o <<Event(TerminalEventOf[outcome], by, 0)>>]
  <2> DEFINE ev == Event(TerminalEventOf[outcome], by, 0)
  <2>1. ev \in Events /\ ev.by = by /\ ev.type = TerminalEventOf[outcome] BY <1>1, EventFacts, EventParts
  <2>2. log' = [log EXCEPT ![r] = @ \o <<ev>>] BY <1>3
  <2> HIDE DEF ev
  <2>3. log'[r] = Append(log[r], ev) /\ \A q \in Runs \ {r} : log'[q] = log[q] BY <1>1, <2>2, PublishOne
  <2>4. Writes(r, ev) BY <2>1 DEF Writes, GivesUp
  <2> QED BY <1>1, <1>2, <2>1, <2>3, <2>4 DEF LogMove, GivesUp, Active
<1>4. CASE /\ log' = [log EXCEPT ![r] = @ \o <<Event("run.cancel_requested", 0, 0),
                                               Event("run.canceled", 0, 0)>>]
           /\ outcome = "canceled"
  <2> DEFINE ev == Event("run.cancel_requested", 0, 0)
             x == Event("run.canceled", 0, 0)
  <2>1. /\ Writes(r, ev) /\ Writes(r, x) /\ ev.type \notin TerminalEvents
        /\ x.type = TerminalEventOf[outcome] BY <1>1, <1>4, EventFacts, EventParts, Ranges DEF Writes
  <2>2. log' = [log EXCEPT ![r] = @ \o <<ev, x>>] BY <1>4
  <2> HIDE DEF ev, x
  <2>3. log'[r] = Append(Append(log[r], ev), x) /\ \A q \in Runs \ {r} : log'[q] = log[q] BY <1>1, <2>2, PublishTwo
  <2> QED BY <1>1, <1>2, <2>1, <2>3, ZenonT(40) DEF LogMove, GivesUp
<1> QED BY <1>3, <1>4 DEF GivesUp

LEMMA LogMoveAnswers ==
  ASSUME FencingInv, NEW e \in Executors, Answers(e)
  PROVE  \A q \in Runs : LogMove(q)
<1> DEFINE r == e[1]
           ev == Event("run.completed", e[2], 0)
           x == Event("token_metrics", e[2], 0)
<1>1. TypeOK /\ "completed" \in TerminalStates BY DEF FencingInv, TerminalStates
<1>2. r \in Runs /\ e[2] \in 0..MaxAttempts BY ExecutorParts, BoundsAssumption
<1>3. /\ ev \in Events /\ ev.by = e[2] /\ ev.type = TerminalEventOf["completed"]
      /\ x \in Events /\ x.by = e[2] /\ x.type = "token_metrics" BY <1>1, <1>2, EventFacts, EventParts
<1>4. log' = [log EXCEPT ![r] = @ \o <<ev, x>>] BY DEF Answers
<1> HIDE DEF ev, x
<1>5. log'[r] = Append(Append(log[r], ev), x) /\ \A q \in Runs \ {r} : log'[q] = log[q]
  BY <1>1, <1>2, <1>4, PublishTwo
<1>6. Writes(r, ev) /\ Writes(r, x) BY <1>2, <1>3 DEF Writes, Answers
<1>7. /\ Active(r) /\ run'[r].state = "completed"
      /\ \A q \in Runs \ {r} : run'[q].state = run[q].state BY DEF Answers, SamePhase
<1> HIDE DEF r
<1>8. LogMove(r) BY <1>1, <1>3, <1>5, <1>6, <1>7 DEF LogMove
<1>9. \A q \in Runs \ {r} : LogMove(q) BY <1>5, <1>7 DEF LogMove
<1> QED BY <1>8, <1>9

LEMMA LogMoveStep ==
  ASSUME FencingInv, TurnInv, [Next]_vars
  PROVE  \A q \in Runs : LogMove(q)
<1>1. TypeOK BY DEF FencingInv
<1>2. Kind BY Kinds
<1>3. CASE Internal BY <1>3 DEF Internal, SamePhase, LogMove
<1>4. ASSUME NEW c \in Conversations, NEW r \in Runs, NEW s \in Submissions,
             NEW f \in Fingerprints, StartTurn(c, r, s, f)
      PROVE  \A q \in Runs : LogMove(q) BY <1>1, <1>4, LogMoveInsert DEF StartTurn, TypeOK
<1>5. ASSUME NEW c \in Conversations, NEW r \in Runs, StartRun(c, r)
      PROVE  \A q \in Runs : LogMove(q)
  <2>1. Len(messages[c]) \in Nat BY <1>1 DEF TypeOK
  <2> QED BY <1>1, <1>5, <2>1, LogMoveInsert DEF StartRun
<1>6. ASSUME UNCHANGED <<run, log>> PROVE \A q \in Runs : LogMove(q) BY <1>6 DEF LogMove
<1>7. CASE \/ RevokeAccess
           \/ \E c \in Conversations : AppendMessage(c) \/ BeginDelete(c)
           \/ \E c \in Conversations, r \in Runs, s \in Submissions, f \in Fingerprints :
                RepeatTurn(c, r, s, f)
           \/ \E e \in Executors : StoreToolCall(e)
  BY <1>6, <1>7 DEF RevokeAccess, AppendMessage, BeginDelete, RepeatTurn, StoreToolCall
<1>8. ASSUME NEW d \in deletes, ApplyDelete(d) PROVE \A q \in Runs : LogMove(q)
  <2> SUFFICES ASSUME NEW q \in Runs PROVE LogMove(q) OBVIOUS
  <2> QED BY <1>1, <1>8, DeleteParts DEF LogMove, ApplyDelete
<1> QED BY <1>2, <1>3, <1>4, <1>5, <1>7, <1>8, LogMoveSpeaks, LogMoveGivesUp, LogMoveAnswers DEF Kind

LEMMA LogInit == Init => LogInv
<1> SUFFICES ASSUME Init PROVE LogInv OBVIOUS
<1>1. /\ \A r \in Runs : log[r] = << >>
      /\ \A r \in Runs : /\ run[r].state = "absent" /\ run[r].token = 0
                         /\ run[r].attempts = 0
  <2> HIDE DEF AbsentRun
  <2> QED BY DEF Init, AbsentRun
<1>2. \A i \in DOMAIN << >> : FALSE OBVIOUS
<1>3. EventsInOrder
  <2>1. FencingInv BY FencingInit
  <2> QED BY <2>1, PerLog, <1>1, <1>2 DEF FencingInv, EventsInOrder, Terminal, TerminalStates, NoEnd, InOrder
<1>4. PublishedBefore BY DEF PublishedBefore, Started, Init, None
<1> QED BY <1>3, <1>4, <1>1, <1>2 DEF LogInv, ClaimsBound, Init, ToolCallsPublished, DeletedRunsEmpty

\* A log that has an event keeps it, unless the run is deleted.
LEMMA EventsKept ==
  ASSUME TypeOK, NEW q \in Runs, LogMove(q), run'[q].state # "deleted", NEW i \in DOMAIN log[q]
  PROVE  i \in DOMAIN log'[q] /\ log'[q][i] = log[q][i]
<1>1. log[q] \in Seq(Events) BY DEF TypeOK
<1> QED BY <1>1 DEF LogMove

\* The events of one step keep a log in order.
LEMMA OrderMove ==
  ASSUME FencingInv, LogInv, NEW q \in Runs, LogMove(q)
  PROVE  InOrder(log'[q])
         /\ (run'[q].state # "deleted" =>
               \A i \in DOMAIN log'[q] : log'[q][i].by <= run[q].attempts)
<1> DEFINE n == run[q].attempts
           l == log[q]
<1>1. TypeOK /\ GenerationsInOrder BY DEF FencingInv, LogInv, EventsInOrder
<1>2. run[q] \in RunRows /\ l \in Seq(Events) BY <1>1 DEF TypeOK
<1>3. n \in Nat /\ run[q].token \in {0, n} /\ \A i \in DOMAIN l : l[i].by <= n
  BY <1>2, BoundsAssumption, RowParts DEF LogInv, ClaimsBound
<1>4. InOrder(l) BY <1>1, PerLog
<1>5. ASSUME NEW ev, Writes(q, ev)
      PROVE  /\ ev \in Events /\ ev.by \in {0, n}
             /\ \/ ev.by <= 1 \/ ev.type = "run.output_reset"
                \/ \E i \in DOMAIN l : l[i].by = ev.by /\ l[i].type = "run.output_reset"
  <2>1. CASE ev.by = 0 BY <1>5, <2>1 DEF Writes
  <2>2. CASE ev.by # 0
    <3>1. PICK e \in Executors : /\ e[1] = q /\ e[2] = ev.by /\ tx[e] = "held"
                                 /\ pc[e] = "reset" => ev.type = "run.output_reset" BY <1>5, <2>2 DEF Writes
    <3>2. e[2] = n /\ pc[e] \in TxPcs /\ Active(q)
      BY <1>3, <2>2, <3>1, NullAssumption DEF FencingInv, OwnedUntilCommit, LocalsOK, None
    <3>3. pc[e] # "reset" /\ e[2] > 1 => HasEvent(q, "run.output_reset", e[2])
      BY <3>1, <3>2, StartedFacts DEF LogInv, PublishedBefore, Active, ActiveStates
    <3> QED BY <1>5, <3>1, <3>2, <3>3, <1>3 DEF HasEvent, Writes
  <2> QED BY <2>1, <2>2
<1> HIDE DEF n, l
<1>6. CASE log'[q] = l BY <1>3, <1>4, <1>6 DEF n
<1>7. CASE log'[q] = << >> /\ run'[q].state = "deleted" BY <1>7 DEF InOrder
<1>8. ASSUME NEW ev, Writes(q, ev), log'[q] = Append(l, ev)
      PROVE  InOrder(log'[q]) /\ \A i \in DOMAIN log'[q] : log'[q][i].by <= n
  <2>1. /\ ev \in Events /\ ev.by \in {0, n}
        /\ \/ ev.by <= 1 \/ ev.type = "run.output_reset"
           \/ \E i \in DOMAIN l : l[i].by = ev.by /\ l[i].type = "run.output_reset" BY <1>5, <1>8
  <2> QED BY <1>2, <1>3, <1>4, <1>8, <2>1, OrderGrows
<1>9. ASSUME NEW ev, NEW x, Writes(q, ev), Writes(q, x), log'[q] = Append(Append(l, ev), x)
      PROVE  InOrder(log'[q]) /\ \A i \in DOMAIN log'[q] : log'[q][i].by <= n
  <2> DEFINE m == Append(l, ev)
  <2>1. /\ ev \in Events /\ ev.by \in {0, n}
        /\ \/ ev.by <= 1 \/ ev.type = "run.output_reset"
           \/ \E i \in DOMAIN l : l[i].by = ev.by /\ l[i].type = "run.output_reset" BY <1>5, <1>9
  <2>2. /\ x \in Events /\ x.by \in {0, n}
        /\ \/ x.by <= 1 \/ x.type = "run.output_reset"
           \/ \E i \in DOMAIN l : l[i].by = x.by /\ l[i].type = "run.output_reset" BY <1>5, <1>9
  <2>3. InOrder(m) /\ \A i \in DOMAIN m : m[i].by <= n BY <1>2, <1>3, <1>4, <2>1, OrderGrows
  <2>4. m \in Seq(Events) /\ \A i \in DOMAIN l : i \in DOMAIN m /\ m[i] = l[i] BY <1>2, <2>1
  <2>5. log'[q] = Append(m, x) BY <1>9
  <2> HIDE DEF m
  <2>6. \/ x.by <= 1 \/ x.type = "run.output_reset"
        \/ \E i \in DOMAIN m : m[i].by = x.by /\ m[i].type = "run.output_reset" BY <2>2, <2>4
  <2> QED BY <1>3, <2>2, <2>3, <2>4, <2>5, <2>6, OrderGrows
<1> QED BY <1>6, <1>7, <1>8, <1>9 DEF LogMove, n, l

\* The events of one step keep a run's end the only one.
LEMMA EndMove ==
  ASSUME FencingInv, LogInv, NEW q \in Runs, LogMove(q)
  PROVE  IF run'[q].state \in TerminalStates THEN OneEnd(log'[q], run'[q].state)
                                             ELSE NoEnd(log'[q])
<1> DEFINE l == log[q]
<1>1. TypeOK /\ OneTerminalEvent BY DEF FencingInv, LogInv, EventsInOrder
<1>2. l \in Seq(Events) BY <1>1 DEF TypeOK
<1>3. IF run[q].state \in TerminalStates THEN OneEnd(l, run[q].state) ELSE NoEnd(l) BY <1>1, PerLog DEF Terminal
<1>4. \A s \in ActiveStates \cup {"absent", "deleted"} : s \notin TerminalStates BY DEF ActiveStates, TerminalStates
<1> HIDE DEF l
<1>5. CASE log'[q] = l /\ run'[q].state = run[q].state BY <1>3, <1>5
<1>6. CASE log'[q] = << >> /\ run'[q].state = "deleted" BY <1>4, <1>6 DEF NoEnd
<1>7. ASSUME NEW ev, Writes(q, ev), log'[q] = Append(l, ev),
             run[q].state \in ActiveStates \cup {"absent"},
             \/ ev.type \notin TerminalEvents /\ run'[q].state \in ActiveStates
             \/ /\ run'[q].state \in TerminalStates
                /\ ev.type = TerminalEventOf[run'[q].state]
      PROVE  IF run'[q].state \in TerminalStates THEN OneEnd(log'[q], run'[q].state)
                                                 ELSE NoEnd(log'[q])
  <2>1. NoEnd(l) /\ ev \in Events BY <1>3, <1>4, <1>7 DEF Writes
  <2>2. CASE ev.type \notin TerminalEvents /\ run'[q].state \in ActiveStates
    BY <1>2, <1>4, <1>7, <2>1, <2>2, EndGrows DEF TerminalStates
  <2>3. CASE run'[q].state \in TerminalStates /\ ev.type = TerminalEventOf[run'[q].state]
    BY <1>2, <1>7, <2>1, <2>3, EndGrows
  <2> QED BY <1>7, <2>2, <2>3
<1>8. ASSUME NEW ev, NEW x, Writes(q, ev), Writes(q, x), Active(q),
             run'[q].state \in TerminalStates, log'[q] = Append(Append(l, ev), x),
             \/ ev.type \notin TerminalEvents /\ x.type = TerminalEventOf[run'[q].state]
             \/ ev.type = TerminalEventOf[run'[q].state] /\ x.type = "token_metrics"
      PROVE  OneEnd(log'[q], run'[q].state)
  <2>1. NoEnd(l) /\ ev \in Events /\ x \in Events BY <1>3, <1>4, <1>8 DEF Writes, Active
  <2>2. PICK state \in TerminalStates : state = run'[q].state BY <1>8
  <2> DEFINE m == Append(l, ev)
  <2>3. m \in Seq(Events) /\ log'[q] = Append(m, x) BY <1>2, <1>8, <2>1
  <2>4. /\ ev.type \notin TerminalEvents => NoEnd(m)
        /\ ev.type = TerminalEventOf[state] => OneEnd(m, state) BY <1>2, <2>1, EndGrows
  <2> HIDE DEF m
  <2>5. \/ NoEnd(m) /\ x.type = TerminalEventOf[state]
        \/ OneEnd(m, state) /\ x.type = "token_metrics" BY <1>8, <2>2, <2>4
  <2> QED BY <1>8, <2>2, <2>3, <2>1, <2>5, EndGrows
<1> QED BY <1>5, <1>6, <1>7, <1>8 DEF LogMove, l

\* A deleted run stays deleted.
LEMMA StaysDeleted ==
  ASSUME FencingInv, [Next]_vars, NEW r \in Runs, run[r].state = "deleted"
  PROVE  run'[r].state = "deleted"
<1>1. RowChange(r) /\ run[r] \in RunRows BY RowStep DEF FencingInv, TypeOK
<1>2. CASE run'[r] = [run[r] EXCEPT !.conv = None, !.input = 0] BY <1>1, <1>2, RowParts
<1> QED BY <1>1, <1>2 DEF RowChange, Active, ActiveStates

\* A row of tool_calls is new only by the step that stores it.
LEMMA ToolCallMove ==
  ASSUME FencingInv, [Next]_vars, NEW row \in toolCalls', row \notin toolCalls
  PROVE  \E e \in Executors : /\ row.run = e[1] /\ row.by = e[2] /\ pc[e] = "tool_row"
                              /\ Exists(e[1]) /\ UNCHANGED <<run, log>>
<1>1. Kind BY Kinds
<1>2. PICK e \in Executors : StoreToolCall(e)
  BY <1>1, ZenonT(40) DEF Kind, Internal, Speaks, GivesUp, Answers, turnRows, StartTurn, RepeatTurn, AppendMessage,
    BeginDelete, StartRun, ApplyDelete, RevokeAccess
<1> QED BY <1>2 DEF StoreToolCall

\* Every step keeps the logs in order and the tool calls published.
LEMMA LogInvStep ==
  ASSUME FencingInv, TurnInv, LogInv, [Next]_vars
  PROVE  LogInv'
<1>1. TypeOK /\ TypeOK' BY TypeStep DEF FencingInv
<1>2. \A q \in Runs : LogMove(q) /\ TokenChange(q) BY LogMoveStep, TokenStep
<1>3. \A q \in Runs : /\ run[q] \in RunRows /\ run'[q] \in RunRows
                      /\ log'[q] \in Seq(Events) BY <1>1 DEF TypeOK
<1>4. \A q \in Runs : run'[q].state = "deleted" => log'[q] = << >>
  BY <1>2 DEF LogMove, LogInv, DeletedRunsEmpty, ActiveStates, TerminalStates
<1>5. ClaimsBound'
  <2> SUFFICES ASSUME NEW q \in Runs
               PROVE  /\ run'[q].token \in {0, run'[q].attempts}
                      /\ \A i \in DOMAIN log'[q] : log'[q][i].by <= run'[q].attempts BY DEF ClaimsBound
  <2>1. /\ run[q].attempts \in Nat /\ run'[q].attempts \in Nat
        /\ run[q].token \in {0, run[q].attempts} BY <1>3, RowParts, BoundsAssumption DEF LogInv, ClaimsBound
  <2>2. run'[q].token \in {0, run'[q].attempts} BY <1>2, <2>1 DEF TokenChange
  <2>3. CASE run'[q].state = "deleted" BY <1>4, <2>2, <2>3
  <2>4. CASE run'[q].state # "deleted"
    <3>1. \A i \in DOMAIN log'[q] : log'[q][i].by \in Nat
      <4>1. \A i \in DOMAIN log'[q] : log'[q][i] \in Events BY <1>3
      <4> QED BY <4>1, BoundsAssumption DEF Events
    <3> QED BY <2>1, <2>2, <3>1, <1>2, <2>4, OrderMove DEF TokenChange
  <2> QED BY <2>3, <2>4
<1>6. EventsInOrder' BY PerLogNext, <1>2, OrderMove, EndMove DEF EventsInOrder, Terminal
<1>7. ASSUME NEW q \in Runs, run'[q].state # "deleted", NEW type, NEW by,
             HasEvent(q, type, by)
      PROVE  HasEvent(q, type, by)' BY <1>1, <1>2, <1>7, EventsKept DEF HasEvent
<1>8. PublishedBefore'
  <2> SUFFICES ASSUME NEW e \in Executors, run'[e[1]].state # "deleted"
               PROVE  /\ e[2] > 1 /\ pc'[e] \in Started =>
                           HasEvent(e[1], "run.output_reset", e[2])'
                      /\ pc'[e] = "tool_row" => HasEvent(e[1], "tool.result", e[2])' BY DEF PublishedBefore
  <2>1. e[1] \in Runs /\ Move(e) /\ e[2] \in Attempts BY <1>1, MoveStep, ExecutorParts
  <2>2. /\ e[2] > 1 /\ pc[e] \in Started => HasEvent(e[1], "run.output_reset", e[2])'
        /\ pc[e] = "tool_row" => HasEvent(e[1], "tool.result", e[2])'
    BY <1>7, <2>1, StaysDeleted DEF LogInv, PublishedBefore
  <2>3. CASE pc'[e] = pc[e] BY <2>2, <2>3
  <2>4. CASE pc'[e] = FirstStep(e[2]) BY <2>1, <2>4 DEF FirstStep, Started
  <2>5. CASE pc'[e] \in {"release", "done"} BY <2>5 DEF Started
  <2>6. CASE pc[e] \in Started /\ pc'[e] # "tool_row" BY <2>2, <2>6
  <2>7. CASE /\ pc[e] \in AppendPcs /\ pc'[e] = Appends[pc[e]].next
             /\ log' = [log EXCEPT ![e[1]] =
                                     @ \o <<Event(Appends[pc[e]].event, e[2], 0)>>]
    <3> PICK p \in AppendPcs : p = pc[e] BY <2>7
    <3> DEFINE ev == Event(Appends[p].event, e[2], 0)
    <3>1. log' = [log EXCEPT ![e[1]] = @ \o <<ev>>] /\ pc'[e] = Appends[p].next BY <2>7
    <3>2. ev.type = Appends[p].event /\ ev.by = e[2] BY DEF Event
    <3> HIDE DEF ev
    <3>3. HasEvent(e[1], Appends[p].event, e[2])'
      <4>1. Len(log[e[1]]) + 1 \in DOMAIN log'[e[1]]
            /\ log'[e[1]][Len(log[e[1]]) + 1] = ev BY <1>1, <2>1, <3>1, PublishOne DEF TypeOK
      <4> QED BY <3>2, <4>1 DEF HasEvent
    <3>4. CASE p = "reset" BY <3>1, <3>3, <3>4 DEF Appends
    <3>5. CASE p # "reset" BY <2>2, <3>1, <3>3, <3>5, StartedFacts, AppendFacts DEF TxPcs, Appends
    <3> QED BY <3>4, <3>5
  <2> QED BY <2>1, <2>3, <2>4, <2>5, <2>6, <2>7 DEF Move
<1>9. ASSUME NEW row \in toolCalls'
      PROVE  run'[row.run].state # "deleted" /\ HasEvent(row.run, "tool.result", row.by)'
  <2>1. row.run \in Runs BY <1>1, <1>9 DEF TypeOK, ToolRows
  <2>2. CASE row \in toolCalls
    <3>1. HasEvent(row.run, "tool.result", row.by) /\ run[row.run].state # "deleted"
      BY <2>1, <2>2 DEF LogInv, ToolCallsPublished, HasEvent, DeletedRunsEmpty
    <3>2. CASE run'[row.run].state # "deleted" BY <1>7, <2>1, <3>1, <3>2
    <3>3. CASE run'[row.run].state = "deleted"
      <4>1. Kind BY Kinds
      <4>2. PICK d \in deletes : ApplyDelete(d)
        <5>1. ASSUME UNCHANGED run PROVE FALSE BY <3>1, <3>3, <5>1
        <5>2. ASSUME \A q \in Runs : SamePhase(q) PROVE FALSE BY <2>1, <3>1, <3>3, <5>2 DEF SamePhase
        <5>3. ASSUME NEW r \in Runs, \A q \in Runs \ {r} : SamePhase(q),
                     run'[r].state \in ActiveStates \cup TerminalStates
              PROVE FALSE BY <2>1, <3>1, <3>3, <5>3 DEF SamePhase, ActiveStates, TerminalStates
        <5>4. ASSUME NEW c \in Conversations, NEW r \in Runs, NEW n \in Nat, NEW s, NEW f,
                     InsertRun(r, c, n, s, f)
              PROVE FALSE BY <1>1, <2>1, <3>1, <3>3, <5>4, InsertParts
        <5>5. \A c \in Conversations : Len(messages[c]) \in Nat /\ Len(messages[c]) + 1 \in Nat BY <1>1 DEF TypeOK
        <5>6. \A r \in Runs, by \in 0..MaxAttempts, outcome \in {"failed", "canceled"} :
                ~GivesUp(r, by, outcome) BY <5>3 DEF GivesUp, TerminalStates
        <5>7. \A e \in Executors : ~Answers(e) BY <5>3, ExecutorParts DEF Answers, TerminalStates
        <5>8. ~\E c \in Conversations, r \in Runs, s \in Submissions, f \in Fingerprints :
                 StartTurn(c, r, s, f) \/ RepeatTurn(c, r, s, f) BY <5>1, <5>4, <5>5 DEF StartTurn, RepeatTurn
        <5>9. ~\E c \in Conversations, r \in Runs : StartRun(c, r) BY <5>4, <5>5 DEF StartRun
        <5>10. /\ ~\E c \in Conversations : AppendMessage(c) \/ BeginDelete(c)
               /\ ~RevokeAccess /\ ~\E e \in Executors : StoreToolCall(e)
          BY <5>1 DEF AppendMessage, BeginDelete, RevokeAccess, StoreToolCall
        <5> QED BY <4>1, <5>6, <5>7, <5>8, <5>9, <5>10, <5>2, <5>3 DEF Kind, Internal, Speaks
      <4> QED BY <3>1, <3>3, <1>1, <2>1, <4>2, DeleteParts, <1>9 DEF ApplyDelete
    <3> QED BY <3>2, <3>3
  <2>3. CASE row \notin toolCalls
    <3>1. PICK e \in Executors : /\ row.run = e[1] /\ row.by = e[2] /\ pc[e] = "tool_row"
                                 /\ Exists(e[1]) /\ UNCHANGED <<run, log>> BY <1>9, <2>3, ToolCallMove
    <3> QED BY <3>1 DEF HasEvent, LogInv, PublishedBefore, Exists, Active, Terminal, ActiveStates, TerminalStates
  <2> QED BY <2>2, <2>3
<1> QED BY <1>5, <1>6, <1>8, <1>9, <1>4 DEF LogInv, ToolCallsPublished, HasEvent, DeletedRunsEmpty

\* FencingInv, TurnInv and LogInv together are inductive.
LEMMA History == Spec => [](FencingInv /\ TurnInv /\ LogInv)
<1>1. FencingInv /\ TurnInv /\ [Next]_vars => TurnInv' BY TurnStep
<1>2. FencingInv /\ TurnInv /\ LogInv /\ [Next]_vars => LogInv' BY LogInvStep
<1> QED BY <1>1, <1>2, TurnInit, LogInit, Fencing, PTL DEF Spec

\* The log of a run reads as one history: complete_run, fail_run,
\* check_canceled, cancel_run and the reaper publish one end between them, the
\* one the row tells, and no claim publishes behind a later one's events or,
\* if it took the run over, before its reset.
THEOREM LogsReadAsOneHistory == Spec => []EventsInOrder
<1>1. LogInv => EventsInOrder BY DEF LogInv
<1> QED BY <1>1, History, PTL

\* A row of tool_calls has its tool.result event, though its INSERT is not
\* fenced: only an executor that published the result stores the call, and the
\* event goes only together with the row.
THEOREM StoredCallsArePublished == Spec => []ToolCallsPublished
<1>1. LogInv => ToolCallsPublished BY DEF LogInv
<1> QED BY <1>1, History, PTL

\* Behind delete_conversation nothing comes back: no message, no run, no event
\* and no tool call, whatever executors and clients still do.
THEOREM DeletionIsFinal == Spec => []DeletedStaysEmpty
<1>1. TurnInv /\ LogInv => DeletedStaysEmpty BY DEF TurnInv, RowsPlaced, LogInv, DeletedRunsEmpty, DeletedStaysEmpty
<1> QED BY <1>1, History, PTL

\* complete_run stores no answer of a requester who lost the access: it read
\* the access FOR SHARE, which makes a revocation wait for its COMMIT.
THEOREM RevokedGetNoAnswer == Spec => NoAnswerAfterRevocation
<1>1. ASSUME FencingInv, TurnInv, [Next]_vars, ~access
      PROVE  \A c \in Conversations : Len(messages'[c]) <= Len(messages[c])
  <2>1. TypeOK BY <1>1 DEF FencingInv
  <2>2. \A c \in Conversations : Len(messages[c]) \in Nat BY <2>1 DEF TypeOK
  <2>3. ASSUME UNCHANGED messages
        PROVE  \A c \in Conversations : Len(messages'[c]) <= Len(messages[c]) BY <2>2, <2>3
  <2>4. ASSUME NEW d \in deletes, ApplyDelete(d)
        PROVE  \A c \in Conversations : Len(messages'[c]) <= Len(messages[c]) BY <2>2, <1>1, <2>1, <2>4, DeleteParts
  <2>5. Kind BY <1>1, Kinds
  <2> QED
    BY <1>1, <2>3, <2>4, <2>5, ZenonT(40) DEF Kind, Internal, Speaks, GivesUp, Answers, turnRows, StartTurn,
      RepeatTurn, AppendMessage, TakesMessages, BeginDelete, StartRun, RevokeAccess, StoreToolCall
<1>2. FencingInv /\ TurnInv /\ [Next]_vars =>
        [\A c \in Conversations : ~access => Len(messages'[c]) <= Len(messages[c])]_vars BY <1>1
<1>3. FencingInv /\ TurnInv /\ LogInv => FencingInv /\ TurnInv OBVIOUS
<1> QED BY <1>2, <1>3, History, PTL DEF Spec, NoAnswerAfterRevocation

(***************************************************************************)
(* Induction over the natural numbers, for sets                            *)
(***************************************************************************)
LEMMA LeastElement ==
  ASSUME NEW T \in SUBSET Nat, T # {}
  PROVE  \E n \in T : \A m \in T : n <= m
<1> DEFINE R == OpToRel(<, Nat)
<1>1. IsWellFoundedOn(R, Nat) BY NatLessThanWellFounded
<1>2. \A x, y \in Nat : <<y, x>> \in R <=> y < x BY DEF OpToRel
<1> HIDE DEF R
<1>3. PICK n \in T : \A m \in T : ~(<<m, n>> \in R) BY <1>1, WFMin
<1>4. \A m \in T : ~(m < n) BY <1>2, <1>3
<1> QED BY <1>4

LEMMA SetInduction ==
  ASSUME NEW S, 0 \in S, \A n \in Nat : n \in S => n + 1 \in S
  PROVE  Nat \subseteq S
<1> SUFFICES ASSUME Nat \ S # {} PROVE FALSE OBVIOUS
<1>1. PICK n \in Nat \ S : \A m \in Nat \ S : n <= m BY LeastElement
<1> QED BY <1>1

(***************************************************************************)
(* What a client sees                                                      *)
(***************************************************************************)
\* The screen after each of the first n events of a log.
Replay(l, n, f) ==
  /\ f \in [0..n -> Nat] /\ f[0] = 0
  /\ \A i \in 1..n : f[i] = OnScreen(l[i], f[i - 1])

LEMMA OnScreenNat ==
  ASSUME NEW ev \in Events, NEW n \in Nat
  PROVE  OnScreen(ev, n) \in Nat
  BY DEF OnScreen, Events

\* There is one, whatever the log.
LEMMA ReplayExists ==
  ASSUME NEW l \in Seq(Events)
  PROVE  \E f : Replay(l, Len(l), f)
<1> DEFINE S == {n \in Nat : n <= Len(l) => \E f : Replay(l, n, f)}
<1>1. 0 \in S
  <2>1. Replay(l, 0, [i \in 0..0 |-> 0]) BY DEF Replay
  <2> QED BY <2>1
<1>2. ASSUME NEW n \in Nat, n \in S PROVE n + 1 \in S
  <2> SUFFICES ASSUME n + 1 <= Len(l) PROVE \E f : Replay(l, n + 1, f) OBVIOUS
  <2>1. n <= Len(l) /\ n + 1 \in 1..Len(l) OBVIOUS
  <2>2. PICK f : Replay(l, n, f) BY <1>2, <2>1
  <2> DEFINE v == OnScreen(l[n + 1], f[n])
             g == [i \in 0..(n + 1) |-> IF i = n + 1 THEN v ELSE f[i]]
  <2>3. v \in Nat
    <3>1. l[n + 1] \in Events BY <2>1
    <3>2. f[n] \in Nat BY <2>2 DEF Replay
    <3> QED BY <3>1, <3>2, OnScreenNat
  <2> HIDE DEF v
  <2>4. g \in [0..(n + 1) -> Nat] /\ g[0] = 0 BY <2>2, <2>3 DEF Replay
  <2>5. g[n + 1] = v /\ \A i \in 0..n : g[i] = f[i] OBVIOUS
  <2> HIDE DEF g
  <2>6. ASSUME NEW i \in 1..(n + 1) PROVE g[i] = OnScreen(l[i], g[i - 1])
    <3>1. CASE i = n + 1 BY <2>5, <3>1 DEF v
    <3>2. CASE i # n + 1 BY <2>5, <2>2, <3>2 DEF Replay
    <3> QED BY <3>1, <3>2
  <2> QED BY <2>4, <2>6 DEF Replay
<1> HIDE DEF S
<1>3. Nat \subseteq S BY <1>1, <1>2, SetInduction
<1> QED BY <1>3 DEF S

\* The screen of a log is the last value of its replay.
LEMMA ScreenReplays ==
  ASSUME NEW l \in Seq(Events)
  PROVE  \E f : Replay(l, Len(l), f) /\ Screen(l) = f[Len(l)]
<1> DEFINE Same(f) == f = [i \in 0..Len(l) |-> IF i = 0 THEN 0 ELSE OnScreen(l[i], f[i - 1])]
           screen == CHOOSE f : Same(f)
<1>1. Screen(l) = screen[Len(l)] BY DEF Screen
<1>2. PICK f : Replay(l, Len(l), f) BY ReplayExists
<1>3. Same(f) BY <1>2 DEF Replay
<1>4. Same(screen)
  <2> HIDE DEF Same
  <2> QED BY <1>3
<1>5. Replay(l, Len(l), screen)
  <2> DEFINE S == {n \in Nat : n <= Len(l) => screen[n] \in Nat}
  <2> HIDE DEF screen
  <2>1. /\ screen[0] = 0 /\ \A i \in 1..Len(l) : screen[i] = OnScreen(l[i], screen[i - 1])
        /\ screen = [i \in 0..Len(l) |-> screen[i]] BY <1>4
  <2>2. 0 \in S BY <2>1
  <2>3. ASSUME NEW n \in Nat, n \in S PROVE n + 1 \in S
    <3> SUFFICES ASSUME n + 1 <= Len(l) PROVE screen[n + 1] \in Nat OBVIOUS
    <3>1. n + 1 \in 1..Len(l) /\ (n + 1) - 1 = n /\ screen[n] \in Nat BY <2>3
    <3>2. l[n + 1] \in Events BY <3>1
    <3> QED BY <2>1, <3>1, <3>2, OnScreenNat
  <2> HIDE DEF S
  <2>4. Nat \subseteq S BY <2>2, <2>3, SetInduction
  <2>5. \A n \in 0..Len(l) : screen[n] \in Nat BY <2>4 DEF S
  <2> QED BY <2>1, <2>5 DEF Replay
<1> HIDE DEF screen
<1> QED BY <1>1, <1>5

\* Two replays agree.
LEMMA ReplayUnique ==
  ASSUME NEW l \in Seq(Events), NEW m \in Seq(Events), NEW n \in Nat, NEW k \in Nat,
         n <= k, NEW f, NEW g, Replay(l, n, f), Replay(m, k, g),
         \A i \in 1..n : l[i] = m[i]
  PROVE  \A i \in 0..n : f[i] = g[i]
<1> DEFINE S == {i \in Nat : i <= n => f[i] = g[i]}
<1>1. 0 \in S BY DEF Replay
<1>2. ASSUME NEW i \in Nat, i \in S PROVE i + 1 \in S
  <2> SUFFICES ASSUME i + 1 <= n PROVE f[i + 1] = g[i + 1] OBVIOUS
  <2> QED BY <1>2 DEF Replay
<1> HIDE DEF S
<1>3. Nat \subseteq S BY <1>1, <1>2, SetInduction
<1> QED BY <1>3 DEF S

\* An empty log shows nothing, and an event changes what its log shows.
LEMMA ScreenEmpty == Screen(<< >>) = 0
<1>1. << >> \in Seq(Events) /\ Len(<< >>) = 0 OBVIOUS
<1>2. PICK f : Replay(<< >>, 0, f) /\ Screen(<< >>) = f[0] BY <1>1, ScreenReplays
<1> QED BY <1>2 DEF Replay

LEMMA ScreenNat ==
  ASSUME NEW l \in Seq(Events)
  PROVE  Screen(l) \in Nat
<1>1. PICK f : Replay(l, Len(l), f) /\ Screen(l) = f[Len(l)] BY ScreenReplays
<1> QED BY <1>1 DEF Replay

LEMMA ScreenAppend ==
  ASSUME NEW l \in Seq(Events), NEW ev \in Events
  PROVE  Screen(Append(l, ev)) = OnScreen(ev, Screen(l))
<1> DEFINE m == Append(l, ev)
           n == Len(l)
<1>1. /\ m \in Seq(Events) /\ Len(m) = n + 1 /\ n \in Nat /\ n + 1 \in Nat /\ n <= n + 1
      /\ m[n + 1] = ev /\ \A i \in 1..n : l[i] = m[i] OBVIOUS
<1> HIDE DEF m
<1>2. PICK f : Replay(l, n, f) /\ Screen(l) = f[n] BY ScreenReplays
<1>3. PICK g : Replay(m, n + 1, g) /\ Screen(m) = g[n + 1] BY <1>1, ScreenReplays
<1>4. n \in 0..n /\ n + 1 \in 1..(n + 1) /\ (n + 1) - 1 = n BY <1>1
<1> HIDE DEF n
<1>5. f[n] = g[n] BY <1>4, <1>1, <1>2, <1>3, ReplayUnique
<1> QED BY <1>1, <1>2, <1>3, <1>4, <1>5 DEF m, Replay

(***************************************************************************)
(* What an executor has received and published                             *)
(***************************************************************************)
\* From the last round's decision to the answer.
Finals == {"decide", "check_final", "access_final", "complete"}

KeepsText(f) == mem'[f].pub = mem[f].pub /\ mem'[f].recv = mem[f].recv
Advances(f) ==
  \/ pc'[f] = pc[f]
  \/ pc'[f] \notin Finals \cup {"none", "reset"}
  \/ pc[f] = "flush_end" /\ pc'[f] = "decide" /\ mem[f].recv = mem[f].pub
  \/ pc[f] = "decide" /\ pc'[f] = "check_final" /\ mem[f].recv > 0
  \/ pc[f] \in Finals \ {"decide"} /\ pc'[f] \in Finals \ {"decide"}

\* What a step may do to an executor and its text: leave the text; end it;
\* spawn it; receive some; or publish some.
TextMove(f) ==
  \/ KeepsText(f) /\ Advances(f)
  \/ mem'[f] = FreshMem /\ pc'[f] = "done"
  \/ /\ mem'[f] = FreshMem /\ pc'[f] = FirstStep(f[2])
     /\ run'[f[1]].attempts > run[f[1]].attempts
  \/ mem'[f].pub = mem[f].pub /\ pc[f] = "stream" /\ pc'[f] = "stream"
  \/ /\ tx[f] = "held" /\ pc[f] \in FlushPcs /\ pc'[f] \in FlushPcs \cup {"fail"}
     /\ log' = [log EXCEPT ![f[1]] = @ \o <<Event("model.text_delta", f[2], NextBatch(f))>>]
     /\ mem'[f].pub = mem[f].pub + NextBatch(f)

LEMMA TextNowhere ==
  ASSUME UNCHANGED <<pc, mem>>
  PROVE  \A f \in Executors : TextMove(f)
  BY DEF TextMove, KeepsText, Advances

LEMMA TextAlone ==
  ASSUME NEW e \in Executors, TextMove(e),
         \A f \in Executors : f # e => pc'[f] = pc[f] /\ mem'[f] = mem[f]
  PROVE  \A f \in Executors : TextMove(f)
  BY DEF TextMove, KeepsText, Advances

LEMMA TextGoto ==
  ASSUME TypeOK, NEW e \in Executors, NEW p, Goto(e, p), UNCHANGED mem,
         \/ p \notin Finals \cup {"none", "reset"}
         \/ p = pc[e]
         \/ pc[e] = "flush_end" /\ p = "decide" /\ mem[e].recv = mem[e].pub
         \/ pc[e] = "decide" /\ p = "check_final" /\ mem[e].recv > 0
         \/ pc[e] \in Finals \ {"decide"} /\ p \in Finals \ {"decide"}
  PROVE  \A f \in Executors : TextMove(f)
<1>1. pc'[e] = p /\ \A f \in Executors : f # e => pc'[f] = pc[f] /\ mem'[f] = mem[f] BY DEF Goto, TypeOK
<1>2. TextMove(e) BY <1>1 DEF TextMove, KeepsText, Advances
<1> QED BY <1>1, <1>2, TextAlone

LEMMA TextEnd ==
  ASSUME TypeOK, NEW e \in Executors, End(e)
  PROVE  \A f \in Executors : TextMove(f)
  BY TextAlone DEF TextMove, End, Goto, SetMem, TypeOK

LEMMA TextAbort ==
  ASSUME TypeOK, NEW e \in Executors, Abort(e)
  PROVE  \A f \in Executors : TextMove(f)
  BY TextEnd, TextGoto DEF Abort, Finals

\* The locals assigned by a step that leaves the text.
LEMMA TextSet ==
  ASSUME TypeOK, NEW e \in Executors, NEW p, NEW m, Goto(e, p), SetMem(e, m),
         p \notin Finals \cup {"none", "reset"},
         m.pub = mem[e].pub, m.recv = mem[e].recv
  PROVE  \A f \in Executors : TextMove(f)
  BY TextAlone DEF TextMove, KeepsText, Advances, Goto, SetMem, TypeOK

\* Where the tables of steps lead.
LEMMA NextFacts ==
  /\ \A p \in AppendPcs : Appends[p].next \notin Finals \cup {"none", "reset"}
  /\ \A p \in TransitionPcs : Transitions[p].next \notin Finals \cup {"none", "reset"}
  /\ \A p \in FlushPcs : \/ Flushes[p] \notin Finals \cup {"none", "reset"}
                         \/ p = "flush_end" /\ Flushes[p] = "decide"
  /\ \A p \in FlushPcs : p \notin Finals \cup {"none", "reset"}
  /\ \A p \in CheckPcs : \/ Checks[p] \notin Finals \cup {"none", "reset"}
                         \/ p = "check_final" /\ Checks[p] = "access_final"
<1>1. \A p \in FlushPcs : \/ Flushes[p] \notin Finals \cup {"none", "reset"}
                          \/ p = "flush_end" /\ Flushes[p] = "decide" BY FlushFacts DEF Flushes, Finals
<1>2. \A p \in FlushPcs : p \notin Finals \cup {"none", "reset"} BY FlushFacts DEF Finals
<1>3. \A p \in CheckPcs : \/ Checks[p] \notin Finals \cup {"none", "reset"}
                          \/ p = "check_final" /\ Checks[p] = "access_final" BY CheckFacts DEF Checks, Finals
<1> QED BY <1>1, <1>2, <1>3, AppendFacts, TransitionFacts DEF Appends, Finals, Transitions

\* Every step treats every executor and its text that way only.
LEMMA TextStep ==
  ASSUME TypeOK, [Next]_vars
  PROVE  \A f \in Executors : TextMove(f)
<1> USE DEF execVars, clientVars, rowVars
<1>1. CASE Client \/ UNCHANGED vars
  <2>1. UNCHANGED <<pc, mem>>
    BY <1>1, ZenonT(40) DEF Client, StartTurn, RepeatTurn, AppendMessage, StartRun, CancelRun, BeginDelete,
      ApplyDelete, RevokeAccess, vars
  <2> QED BY <2>1, TextNowhere
<1>2. CASE Worker
  <2>1. ASSUME NEW r \in Runs, Claim(r) PROVE \A f \in Executors : TextMove(f)
    <3>1. PICK a \in Attempts : a = run[r].attempts + 1 BY <2>1 DEF Claim
    <3>2. Goto(<<r, a>>, FirstStep(a)) /\ SetMem(<<r, a>>, FreshMem) /\ <<r, a>> \in Executors
      BY <2>1, <3>1 DEF Claim, Executors
    <3>3. run[r] \in RunRows /\ run[r].attempts < a BY <3>1, BoundsAssumption DEF TypeOK, RunRows
    <3>4. run'[r].attempts = a
      <4> DEFINE row == [run[r] EXCEPT !.token = a, !.attempts = a, !.lease = LeaseTicks]
      <4>1. row.attempts = a BY <3>3, RowParts
      <4> HIDE DEF row
      <4> QED BY <4>1, <2>1, <3>1 DEF Update, TypeOK, Claim
    <3> QED BY <3>2, TextAlone, <3>3, <3>4 DEF TextMove, Goto, SetMem, TypeOK
  <2> QED BY <1>2, <2>1, TextNowhere DEF Worker, FinalizeCancellation, Tick
<1>3. ASSUME NEW e \in Executors, Transact(e) PROVE \A f \in Executors : TextMove(f)
  <2>1. CASE Begin(e) \/ Acquire(e) \/ Refused(e) BY <2>1, TextNowhere, TextAbort DEF Begin, Acquire, Refused
  <2>2. ASSUME NEW ack \in BOOLEAN, CommitAppend(e, ack) \/ CommitTransition(e, ack)
        PROVE  \A f \in Executors : TextMove(f)
    BY <2>2, TextAbort, TextGoto, NextFacts DEF CommitAppend, CommitTransition, Continue
  <2>3. ASSUME NEW ack \in BOOLEAN, CommitFlush(e, ack)
        PROVE  \A f \in Executors : TextMove(f)
    <3>1. /\ pc[e] \in FlushPcs /\ tx[e] = "held" /\ Goto(e, IF ack THEN pc[e] ELSE "fail")
          /\ log' = [log EXCEPT ![e[1]] = @ \o <<Event("model.text_delta", e[2],
                                                        NextBatch(e))>>]
          /\ SetMem(e, [mem[e] EXCEPT !.pub = @ + NextBatch(e), !.count = @ + NextBatch(e)])
      BY <2>3 DEF CommitFlush, Publish
    <3> DEFINE m == [mem[e] EXCEPT !.pub = @ + NextBatch(e), !.count = @ + NextBatch(e)]
    <3>2. m.pub = mem[e].pub + NextBatch(e) BY MemParts DEF TypeOK
    <3>3. SetMem(e, m) BY <3>1
    <3> HIDE DEF m
    <3> QED BY TextAlone, <3>1, <3>2, <3>3 DEF TextMove, Goto, SetMem, TypeOK
  <2>4. ASSUME NEW ack \in BOOLEAN, CommitComplete(e, ack) \/ CommitCancel(e, ack)
        PROVE  \A f \in Executors : TextMove(f) BY <2>4, TextAbort, TextEnd DEF CommitComplete, CommitCancel
  <2>5. CASE CommitFail(e) BY <2>5, TextEnd DEF CommitFail
  <2> QED BY <1>3, <2>1, <2>2, <2>3, <2>4, <2>5 DEF Transact
<1>4. ASSUME NEW e \in Executors, Proceed(e) PROVE \A f \in Executors : TextMove(f)
  <2>1. mem[e] \in Mems BY DEF TypeOK
  <2>2. CASE CheckCanceled(e) \/ PollCanceled(e)
    BY <2>2, TextGoto, NextFacts DEF CheckCanceled, PollCanceled, Step, Finals
  <2>3. CASE FlushDone(e) BY TextGoto, NextFacts, <2>1, MemParts, <2>3 DEF FlushDone, Step, Flushed, Pending
  <2>4. CASE ReadAccess(e) \/ LoadRoutes(e) \/ WriteOwned(e) \/ StreamEnds(e)
             \/ FlushTimer(e) \/ Decide(e) \/ Authorize(e) \/ RunTool(e)
    BY <2>4, TextGoto DEF ReadAccess, LoadRoutes, WriteOwned, StreamEnds, FlushTimer, Decide, Authorize, RunTool,
      Step, Finals
  <2>5. CASE OpenProvider(e)
    <3> DEFINE m == [mem[e] EXCEPT !.count = 0, !.usage = FALSE]
    <3>1. m.pub = mem[e].pub /\ m.recv = mem[e].recv BY <2>1, MemParts
    <3>2. SetMem(e, m) /\ \E p \in {"select_model", "stream"} : Goto(e, p) BY <2>5 DEF OpenProvider, Step
    <3> HIDE DEF m
    <3> QED BY <3>1, <3>2, TextSet DEF Finals
  <2>6. CASE ReceiveText(e)
    <3> DEFINE m == [mem[e] EXCEPT !.recv = @ + 1]
    <3>1. m.pub = mem[e].pub BY <2>1, MemParts
    <3>2. SetMem(e, m) /\ Goto(e, "stream") /\ pc[e] = "stream" BY <2>6 DEF ReceiveText, Step
    <3> HIDE DEF m
    <3>3. /\ pc'[e] = "stream" /\ mem'[e] = m
          /\ \A f \in Executors : f # e => pc'[f] = pc[f] /\ mem'[f] = mem[f] BY <3>2 DEF Goto, SetMem, TypeOK
    <3> QED BY <3>3, TextAlone, <3>1, <3>2 DEF TextMove
  <2>7. CASE ReceiveUsage(e)
    <3> DEFINE m == [mem[e] EXCEPT !.usage = TRUE]
    <3>1. m.pub = mem[e].pub /\ m.recv = mem[e].recv BY <2>1, MemParts
    <3>2. SetMem(e, m) /\ Goto(e, "flush_usage") BY <2>7 DEF ReceiveUsage, Step
    <3> HIDE DEF m
    <3> QED BY <3>1, <3>2, TextSet DEF Finals
  <2>8. ASSUME NEW call \in CallIds, ReceiveToolCall(e, call)
        PROVE  \A f \in Executors : TextMove(f)
    <3> DEFINE m == [mem[e] EXCEPT !.calls = @ + 1, !.todo = Append(@, call)]
    <3>1. m.pub = mem[e].pub /\ m.recv = mem[e].recv BY <2>1, MemParts
    <3>2. SetMem(e, m) /\ Goto(e, "stream") BY <2>8 DEF ReceiveToolCall, Step
    <3> HIDE DEF m
    <3> QED BY <3>1, <3>2, TextSet DEF Finals
  <2>9. CASE NextTool(e)
    <3> DEFINE rest == Tail(mem[e].todo)
               more == [mem[e] EXCEPT !.todo = rest]
               again == [mem[e] EXCEPT !.todo = rest, !.round = @ + 1]
    <3>1. /\ more.pub = mem[e].pub /\ more.recv = mem[e].recv
          /\ again.pub = mem[e].pub /\ again.recv = mem[e].recv BY <2>1, MemParts
    <3>2. \/ SetMem(e, more) /\ Goto(e, "tool_call")
          \/ SetMem(e, again) /\ Goto(e, "open") BY <2>9 DEF NextTool, Step
    <3> HIDE DEF more, again
    <3> QED BY <3>1, <3>2, TextSet DEF Finals
  <2>10. CASE StoreToolCall(e) BY <2>10, TextGoto DEF StoreToolCall, Finals
  <2>11. CASE StepFails(e) \/ Release(e) BY <2>11, TextAbort, TextEnd DEF StepFails, Release
  <2> QED BY <1>4, <2>2, <2>3, <2>4, <2>5, <2>6, <2>7, <2>8, <2>9, <2>10, <2>11 DEF Proceed
<1>5. ASSUME NEW e \in Executors, Interrupt(e) PROVE \A f \in Executors : TextMove(f)
  BY <1>5, TextGoto, TextEnd, TextNowhere DEF Interrupt, Shutdown, Crash, Renew, Finals
<1> QED BY <1>1, <1>2, <1>3, <1>4, <1>5 DEF Next

(***************************************************************************)
(* The answer                                                              *)
(***************************************************************************)
\* Nothing shows before the first claim, and an executor starts with nothing
\* published; the executor that holds the run has published what is shown; it
\* decides on an answer when all it received is published.
AnswerInv ==
  /\ \A r \in Runs : run[r].attempts = 0 => Shown(r) = 0
  /\ \A e \in Executors : pc[e] \in {"none", "reset"} => mem[e].pub = 0
  /\ \A e \in Executors :
       run[e[1]].token = e[2] /\ pc[e] \in Started => Shown(e[1]) = mem[e].pub
  /\ \A e \in Executors : pc[e] \in Finals =>
       mem[e].recv = mem[e].pub /\ (pc[e] # "decide" => mem[e].recv > 0)
  /\ \A c \in Conversations : \A i \in DOMAIN messages[c] :
       messages[c][i].role = "user" => messages[c][i] = Message("user", None, 0)
  /\ AnswerIsWhatWasShown

LEMMA AnswerInit == Init => AnswerInv
<1> SUFFICES ASSUME Init PROVE AnswerInv OBVIOUS
<1>1. \A c \in Conversations : messages[c] = << >> BY DEF Init
<1> QED BY <1>1, ScreenEmpty DEF AnswerInv, AnswerIsWhatWasShown, Started, Finals, Init, Shown, None, FreshMem

\* One event on the screen.
LEMMA OneShown ==
  ASSUME TypeOK, NEW q \in Runs, NEW ev \in Events, log'[q] = Append(log[q], ev)
  PROVE  Screen(log'[q]) = OnScreen(ev, Shown(q)) /\ Shown(q) \in Nat
  BY ScreenAppend, ScreenNat DEF Shown, TypeOK

\* Events that leave the screen alone, and those that clear it.
LEMMA ScreenFacts ==
  ASSUME NEW by, NEW n \in Nat
  PROVE  /\ \A p \in AppendPcs : p # "reset" =>
              OnScreen(Event(Appends[p].event, by, 0), n) = n
         /\ OnScreen(Event(Appends["reset"].event, by, 0), n) = 0
         /\ \A p \in TransitionPcs : OnScreen(Event(Transitions[p].event, by, 0), n) = n
         /\ OnScreen(Event("run.cancel_requested", by, 0), n) = n
         /\ OnScreen(Event("run.queued", by, 0), n) = n
         /\ OnScreen(Event("run.completed", by, 0), n) = n
         /\ OnScreen(Event("token_metrics", by, 0), n) = n
         /\ \A outcome \in {"failed", "canceled"} :
              OnScreen(Event(TerminalEventOf[outcome], by, 0), n) = 0
         /\ OnScreen(Event("run.canceled", by, 0), n) = 0
         /\ \A k \in Nat : OnScreen(Event("model.text_delta", by, k), n) = n + k
<1> USE DEF OnScreen, Event
<1>1. \A p \in TransitionPcs : OnScreen(Event(Transitions[p].event, by, 0), n) = n BY TransitionFacts DEF Transitions
<1>2. \A outcome \in {"failed", "canceled"} :
        OnScreen(Event(TerminalEventOf[outcome], by, 0), n) = 0 BY DEF TerminalEventOf
<1> QED BY <1>1, <1>2, AppendFacts DEF Appends

\* The event a run publishes, and what it does to the screen.
LEMMA SpokenEvent ==
  ASSUME FencingInv, NEW r \in Runs, NEW ev, Speaks(r, ev)
  PROVE  /\ ev \in Events /\ log'[r] = Append(log[r], ev)
         /\ \A q \in Runs \ {r} : log'[q] = log[q]
         /\ Screen(log'[r]) = OnScreen(ev, Shown(r)) /\ Shown(r) \in Nat
<1>1. TypeOK BY DEF FencingInv
<1>2. ev \in Events
  <2>1. CASE ev = Event("run.cancel_requested", 0, 0) BY <2>1, EventFacts, EventParts, Ranges
  <2>2. ASSUME NEW e \in Executors, SpeaksAs(e, ev) PROVE ev \in Events
    <3>1. e[2] \in 0..MaxAttempts /\ NextBatch(e) \in Nat /\ 0 \in Nat
      BY ExecutorParts, NextBatchType, BoundsAssumption DEF FencingInv
    <3>2. CASE pc[e] \in AppendPcs /\ ev = Event(Appends[pc[e]].event, e[2], 0)
      <4>1. PICK type \in EventTypes : type = Appends[pc[e]].event BY <3>2, EventFacts
      <4> QED BY <3>1, <3>2, <4>1, EventParts
    <3>3. CASE pc[e] \in TransitionPcs /\ ev = Event(Transitions[pc[e]].event, e[2], 0)
      <4>1. PICK type \in EventTypes : type = Transitions[pc[e]].event BY <3>3, EventFacts
      <4> QED BY <3>1, <3>3, <4>1, EventParts
    <3>4. CASE ev = Event("model.text_delta", e[2], NextBatch(e)) BY <3>1, <3>4, EventFacts, EventParts
    <3> QED BY <2>2, <3>2, <3>3, <3>4 DEF SpeaksAs
  <2> QED BY <2>1, <2>2 DEF Speaks
<1> QED BY <1>1, <1>2, OneShown, PublishOne DEF Speaks

\* Who publishes to a run that was active and stays so.
LEMMA ActiveLog ==
  ASSUME FencingInv, TurnInv, [Next]_vars, NEW r \in Runs, Active(r),
         run'[r].state \in ActiveStates
  PROVE  log'[r] = log[r] \/ \E ev : Speaks(r, ev)
<1>1. TypeOK BY DEF FencingInv
<1>2. Kind BY Kinds
<1>3. ASSUME NEW q \in Runs, NEW ev, Speaks(q, ev), q # r PROVE log'[r] = log[r] BY <1>1, <1>3 DEF Speaks, TypeOK
<1>4. ASSUME NEW q \in Runs, NEW by \in 0..MaxAttempts,
             NEW outcome \in {"failed", "canceled"}, GivesUp(q, by, outcome)
      PROVE  log'[r] = log[r] BY <1>1, <1>4 DEF GivesUp, TypeOK, ActiveStates
<1>5. ASSUME NEW e \in Executors, Answers(e) PROVE log'[r] = log[r]
  BY <1>1, <1>5, ExecutorParts DEF Answers, TypeOK, ActiveStates
<1>6. ASSUME NEW c, NEW q \in Runs, NEW n, NEW s, NEW f, InsertRun(q, c, n, s, f)
      PROVE  log'[r] = log[r] BY <1>1, <1>6 DEF InsertRun, Publish, TypeOK, Active, ActiveStates
<1>7. ASSUME NEW d \in deletes, ApplyDelete(d) PROVE log'[r] = log[r]
  BY <1>7, <1>1, DeleteParts DEF ApplyDelete, ActiveStates
<1>8. ASSUME NEW c \in Conversations, NEW q \in Runs, NEW s \in Submissions,
             NEW f \in Fingerprints, StartTurn(c, q, s, f) \/ RepeatTurn(c, q, s, f)
      PROVE  log'[r] = log[r] BY <1>6, <1>8 DEF StartTurn, RepeatTurn
<1>9. ASSUME NEW c \in Conversations, NEW q \in Runs, StartRun(c, q) PROVE log'[r] = log[r] BY <1>6, <1>9 DEF StartRun
<1>10. RevokeAccess \/ (\E e \in Executors : StoreToolCall(e)) => log'[r] = log[r] BY DEF RevokeAccess, StoreToolCall
<1>11. ASSUME NEW q \in Runs, NEW ev, Speaks(q, ev)
       PROVE  log'[r] = log[r] \/ \E x : Speaks(r, x) BY <1>3, <1>11
<1> QED BY <1>2, <1>4, <1>5, <1>7, <1>8, <1>9, <1>10, <1>11 DEF Kind, Internal, AppendMessage, BeginDelete

\* What the executor that holds the run has published is what is shown.
LEMMA StreamedStep ==
  ASSUME FencingInv, TurnInv, LogInv, AnswerInv, [Next]_vars, NEW e \in Executors,
         run'[e[1]].token = e[2], pc'[e] \in Started
  PROVE  Screen(log'[e[1]]) = mem'[e].pub
<1> DEFINE r == e[1]
<1>1. /\ TypeOK /\ RowsOK /\ RowsOK'
      /\ r \in Runs /\ e[2] \in Attempts /\ e[2] \in 1..MaxAttempts /\ e = <<r, e[2]>>
  BY RowsStep, ExecutorParts DEF FencingInv
<1>2. Move(e) /\ TextMove(e) /\ TokenChange(r) BY <1>1, MoveStep, TextStep, TokenStep
<1>3. run[r] \in RunRows /\ mem[e] \in Mems /\ e[2] # 0 BY <1>1 DEF TypeOK
<1>4. run'[r].state \in ActiveStates BY <1>3, <1>1 DEF Active, RowsOK
<1>5. FreshMem.pub = 0 BY DEF FreshMem
<1>6. run[r].attempts \in Nat /\ e[2] \in Nat /\ MaxAttempts \in Nat BY <1>1, <1>3, RowParts, BoundsAssumption
<1> HIDE DEF r
<1>7. CASE run'[r].attempts > run[r].attempts
  <2>1. run'[r].attempts = e[2] /\ UNCHANGED log BY <1>2, <1>3, <1>6, <1>7 DEF TokenChange, r
  <2>2. pc[e] = "none" BY <1>1, <1>6, <1>7, <2>1, <1>4, StaysDeleted DEF RowsOK, ActiveStates
  <2> QED
    BY <1>1, <2>1, <1>2, <1>5, <2>2, FlushFacts, <1>6, <1>7, AppendFacts DEF AnswerInv, Shown, r, TextMove, KeepsText,
      FirstStep, Started, Move
<1>8. CASE ~(run'[r].attempts > run[r].attempts)
  <2>1. run[r].token = e[2] BY <1>2, <1>3, <1>6, <1>8 DEF TokenChange, r
  <2>2. CASE pc[e] = "reset"
    <3> DEFINE ev == Event(Appends["reset"].event, e[2], 0)
    <3>1. ev \in Events BY <1>1, <1>6, EventFacts, EventParts, AppendFacts
    <3>2. Screen(log'[r]) = OnScreen(ev, Shown(r)) /\ Shown(r) \in Nat
      BY <1>1, <3>1, OneShown, PublishOne, <1>2, <1>8, <2>2 DEF Move, Started, r
    <3>3. mem'[e].pub = 0 BY <1>2, <1>5, <2>2, FlushFacts DEF TextMove, KeepsText, AnswerInv
    <3> QED BY <3>3, <3>2, ScreenFacts DEF r
  <2>3. CASE pc[e] # "reset"
    <3>1. Shown(r) = mem[e].pub BY <2>1, <1>2, <1>8, <2>3, StartedFacts DEF AnswerInv, r, Move, Started, TxPcs
    <3>2. NextBatch(e) \in Nat BY NextBatchType DEF FencingInv
    <3>3. CASE /\ log' = [log EXCEPT ![e[1]] =
                                       @ \o <<Event("model.text_delta", e[2], NextBatch(e))>>]
               /\ mem'[e].pub = mem[e].pub + NextBatch(e)
      <4> DEFINE ev == Event("model.text_delta", e[2], NextBatch(e))
      <4>1. ev \in Events BY <1>1, <1>6, <3>2, EventFacts, EventParts
      <4>2. Screen(log'[r]) = OnScreen(ev, Shown(r)) /\ Shown(r) \in Nat
        BY <1>1, <4>1, OneShown, PublishOne, <3>3 DEF r
      <4>3. Screen(log'[r]) = Shown(r) + NextBatch(e) BY <3>2, <4>2, ScreenFacts
      <4> QED BY <3>1, <3>3, <4>3 DEF r
    <3>4. CASE mem'[e].pub = mem[e].pub
      <4>1. CASE log'[r] = log[r] BY <3>1, <3>4, <4>1 DEF Shown, r
      <4>2. ASSUME NEW ev, Speaks(r, ev) PROVE Screen(log'[r]) = mem'[e].pub
        <5>1. Screen(log'[r]) = OnScreen(ev, Shown(r)) /\ Shown(r) \in Nat BY <1>1, <4>2, SpokenEvent
        <5>2. CASE ev = Event("run.cancel_requested", 0, 0) BY <3>1, <3>4, <5>1, <5>2, ScreenFacts
        <5>3. ASSUME NEW f \in Executors, f[1] = r, SpeaksAs(f, ev)
              PROVE  Screen(log'[r]) = mem'[e].pub
          <6>1. f = e BY <1>1, <2>1, <5>3, ExecutorParts DEF SpeaksAs, FencingInv, OwnedUntilCommit
          <6>2. CASE pc[e] \in AppendPcs /\ ev = Event(Appends[pc[e]].event, e[2], 0)
            BY <2>3, <3>1, <3>4, <5>1, <6>2, ScreenFacts
          <6>3. CASE pc[e] \in TransitionPcs /\ ev = Event(Transitions[pc[e]].event, e[2], 0)
            BY <3>1, <3>4, <5>1, <6>3, ScreenFacts
          <6>4. CASE /\ pc[e] \in FlushPcs
                     /\ ev = Event("model.text_delta", e[2], NextBatch(e))
                     /\ mem' = [mem EXCEPT ![e].pub = @ + NextBatch(e),
                                           ![e].count = @ + NextBatch(e)]
            <7>1. OnScreen(ev, Shown(r)) = Shown(r) + NextBatch(e)
              <8>1. OnScreen(Event("model.text_delta", e[2], NextBatch(e)), Shown(r))
                      = Shown(r) + NextBatch(e) BY <3>2, ScreenFacts, <5>1
              <8> QED BY <8>1, <6>4
            <7>2. mem'[e].pub = mem[e].pub + NextBatch(e) BY <1>3, MemParts, <1>1, <6>4 DEF TypeOK
            <7> QED BY <3>1, <7>2, <5>1, <7>1
          <6> QED BY <5>3, <6>1, <6>2, <6>3, <6>4 DEF SpeaksAs
        <5> QED BY <4>2, <5>2, <5>3 DEF Speaks
      <4> QED BY <1>1, <1>4, <4>1, <4>2, ActiveLog, <1>3, <2>1 DEF r, RowsOK
    <3> QED BY <1>2, <1>8, <3>3, <3>4 DEF TextMove, KeepsText, Started, r
  <2> QED BY <2>2, <2>3
<1> QED BY <1>7, <1>8

\* What each kind of step does to the screens.
LEMMA SpeaksShown ==
  ASSUME FencingInv, NEW r \in Runs, NEW ev, Speaks(r, ev)
  PROVE  /\ \A q \in Runs \ {r} : log'[q] = log[q]
         /\ \/ Screen(log'[r]) \in {0, Shown(r)}
            \/ \E e \in Executors : /\ e[1] = r /\ tx[e] = "held" /\ pc[e] \in FlushPcs
                                    /\ Screen(log'[r]) = Shown(r) + NextBatch(e)
<1>1. /\ \A q \in Runs \ {r} : log'[q] = log[q]
      /\ Screen(log'[r]) = OnScreen(ev, Shown(r)) /\ Shown(r) \in Nat BY SpokenEvent
<1>2. CASE ev = Event("run.cancel_requested", 0, 0) BY <1>1, <1>2, ScreenFacts
<1>3. ASSUME NEW e \in Executors, e[1] = r, SpeaksAs(e, ev)
      PROVE  \/ Screen(log'[r]) \in {0, Shown(r)}
             \/ /\ tx[e] = "held" /\ pc[e] \in FlushPcs
                /\ Screen(log'[r]) = Shown(r) + NextBatch(e)
  <2>1. CASE pc[e] \in AppendPcs /\ ev = Event(Appends[pc[e]].event, e[2], 0)
    <3>1. CASE pc[e] = "reset" BY <1>1, <2>1, <3>1, ScreenFacts
    <3>2. CASE pc[e] # "reset" BY <1>1, <2>1, <3>2, ScreenFacts, SMTT(40)
    <3> QED BY <3>1, <3>2
  <2>2. CASE pc[e] \in TransitionPcs /\ ev = Event(Transitions[pc[e]].event, e[2], 0)
    BY <1>1, <2>2, ScreenFacts, ZenonT(40)
  <2>3. CASE pc[e] \in FlushPcs /\ ev = Event("model.text_delta", e[2], NextBatch(e))
    <3>1. NextBatch(e) \in Nat /\ Shown(r) \in Nat BY <1>1, NextBatchType DEF FencingInv
    <3>2. OnScreen(Event("model.text_delta", e[2], NextBatch(e)), Shown(r))
            = Shown(r) + NextBatch(e) BY <3>1, ScreenFacts
    <3> QED BY <1>1, <1>3, <2>3, <3>2 DEF SpeaksAs
  <2> QED BY <1>3, <2>1, <2>2, <2>3 DEF SpeaksAs
<1> QED BY <1>1, <1>2, <1>3 DEF Speaks

LEMMA GivesUpShown ==
  ASSUME FencingInv, NEW r \in Runs, NEW by \in 0..MaxAttempts,
         NEW outcome \in {"failed", "canceled"}, GivesUp(r, by, outcome)
  PROVE  Screen(log'[r]) = 0 /\ \A q \in Runs \ {r} : log'[q] = log[q]
<1>1. TypeOK /\ 0 \in 0..MaxAttempts /\ log[r] \in Seq(Events) BY BoundsAssumption DEF FencingInv, TypeOK
<1>2. CASE log' = [log EXCEPT ![r] = @ \o <<Event(TerminalEventOf[outcome], by, 0)>>]
  <2> DEFINE ev == Event(TerminalEventOf[outcome], by, 0)
  <2>1. ev \in Events BY EventParts, EventFacts DEF TerminalStates
  <2>2. OnScreen(ev, Shown(r)) = 0 BY <1>1, <2>1, ScreenNat, ScreenFacts DEF Shown
  <2>3. log' = [log EXCEPT ![r] = @ \o <<ev>>] BY <1>2
  <2> HIDE DEF ev
  <2> QED BY <1>1, <2>1, <2>2, OneShown, <2>3, PublishOne
<1>3. CASE log' = [log EXCEPT ![r] = @ \o <<Event("run.cancel_requested", 0, 0),
                                            Event("run.canceled", 0, 0)>>]
  <2> DEFINE ev == Event("run.cancel_requested", 0, 0)
             x == Event("run.canceled", 0, 0)
  <2>1. ev \in Events /\ x \in Events BY <1>1, EventFacts, EventParts DEF TerminalEvents
  <2>2. log' = [log EXCEPT ![r] = @ \o <<ev, x>>] BY <1>3
  <2>3. \A n \in Nat : OnScreen(x, n) = 0 BY ScreenFacts
  <2> HIDE DEF ev, x
  <2>4. log'[r] = Append(Append(log[r], ev), x) /\ \A q \in Runs \ {r} : log'[q] = log[q] BY <1>1, <2>2, PublishTwo
  <2>5. Append(log[r], ev) \in Seq(Events) BY <1>1, <2>1
  <2> QED BY <2>1, <2>3, <2>4, <2>5, ScreenAppend, ScreenNat
<1> QED BY <1>2, <1>3 DEF GivesUp

LEMMA AnswersShown ==
  ASSUME FencingInv, NEW e \in Executors, Answers(e)
  PROVE  Screen(log'[e[1]]) = Shown(e[1]) /\ \A q \in Runs \ {e[1]} : log'[q] = log[q]
<1> DEFINE r == e[1]
           ev == Event("run.completed", e[2], 0)
           x == Event("token_metrics", e[2], 0)
<1>1. TypeOK /\ r \in Runs /\ e[2] \in 0..MaxAttempts /\ log[r] \in Seq(Events)
  BY ExecutorParts, BoundsAssumption DEF FencingInv, TypeOK
<1>2. ev \in Events /\ x \in Events BY <1>1, EventFacts, EventParts DEF TerminalEvents
<1>3. log' = [log EXCEPT ![r] = @ \o <<ev, x>>] BY DEF Answers
<1>4. \A n \in Nat : OnScreen(ev, n) = n /\ OnScreen(x, n) = n BY ScreenFacts
<1> HIDE DEF ev, x
<1>5. log'[r] = Append(Append(log[r], ev), x) /\ \A q \in Runs \ {r} : log'[q] = log[q] BY <1>1, <1>3, PublishTwo
<1>6. Append(log[r], ev) \in Seq(Events) BY <1>1, <1>2
<1>7. Screen(log[r]) \in Nat BY <1>1, ScreenNat
<1> HIDE DEF r
<1>8. Screen(Append(log[r], ev)) = Screen(log[r]) BY <1>1, <1>2, <1>4, <1>7, ScreenAppend
<1> QED BY <1>2, <1>4, <1>5, <1>6, <1>7, <1>8, ScreenAppend DEF Shown, r

LEMMA InsertShown ==
  ASSUME FencingInv, NEW c, NEW r \in Runs, NEW n, NEW s, NEW f, InsertRun(r, c, n, s, f)
  PROVE  Screen(log'[r]) = Shown(r) /\ \A q \in Runs \ {r} : log'[q] = log[q]
<1> DEFINE ev == Event("run.queued", 0, 0)
<1>1. TypeOK BY DEF FencingInv
<1>2. ev \in Events BY EventFacts, EventParts, Ranges
<1>3. log' = [log EXCEPT ![r] = @ \o <<ev>>] BY DEF InsertRun, Publish
<1>4. \A k \in Nat : OnScreen(ev, k) = k BY ScreenFacts
<1> HIDE DEF ev
<1>5. log'[r] = Append(log[r], ev) /\ \A q \in Runs \ {r} : log'[q] = log[q] BY <1>1, <1>3, PublishOne
<1> QED BY <1>1, <1>2, <1>4, <1>5, OneShown

\* Where a message of the next state comes from.
LEMMA MessageMove ==
  ASSUME FencingInv, TurnInv, [Next]_vars, NEW x \in Conversations,
         NEW i \in DOMAIN messages'[x]
  PROVE  \/ i \in DOMAIN messages[x] /\ messages'[x][i] = messages[x][i]
         \/ messages'[x][i] = Message("user", None, 0)
         \/ \E e \in Executors : /\ Answers(e)
                                 /\ messages'[x][i] = Message("assistant", e[1], mem[e].recv)
<1>1. TypeOK BY DEF FencingInv
<1>2. Kind BY Kinds
<1>3. ASSUME NEW c \in Conversations, NEW m, InsertMessage(c, m)
      PROVE  \/ i \in DOMAIN messages[x] /\ messages'[x][i] = messages[x][i]
             \/ messages'[x][i] = m
  <2>1. CASE x # c BY <1>1, <1>3, <2>1, AppendParts
  <2>2. CASE x = c BY <2>2, <1>1, <1>3, AppendParts
  <2> QED BY <2>1, <2>2
<1>4. CASE UNCHANGED messages BY <1>4
<1>5. ASSUME NEW d \in deletes, ApplyDelete(d)
      PROVE  i \in DOMAIN messages[x] /\ messages'[x][i] = messages[x][i] BY <1>1, <1>5, DeleteParts
<1>6. ASSUME NEW e \in Executors, Answers(e)
      PROVE  \/ i \in DOMAIN messages[x] /\ messages'[x][i] = messages[x][i]
             \/ messages'[x][i] = Message("assistant", e[1], mem[e].recv) BY <1>3, <1>6 DEF Answers
<1>7. ASSUME NEW c \in Conversations, InsertMessage(c, Message("user", None, 0))
      PROVE  \/ i \in DOMAIN messages[x] /\ messages'[x][i] = messages[x][i]
             \/ messages'[x][i] = Message("user", None, 0) BY <1>3, <1>7
<1>8. \/ UNCHANGED messages
      \/ \E c \in Conversations : InsertMessage(c, Message("user", None, 0))
      \/ \E d \in deletes : ApplyDelete(d)
      \/ \E e \in Executors : Answers(e)
  BY <1>2, ZenonT(40) DEF Kind, Internal, Speaks, GivesUp, turnRows, StartTurn, RepeatTurn, AppendMessage,
    BeginDelete, StartRun, RevokeAccess, StoreToolCall
<1> QED BY <1>4, <1>5, <1>6, <1>7, <1>8

\* Before the first claim of a run nobody publishes text.
LEMMA NothingEarly ==
  ASSUME FencingInv, TurnInv, LogInv, AnswerInv, LogInv', [Next]_vars, NEW r \in Runs,
         run'[r].attempts = 0
  PROVE  Screen(log'[r]) = 0
<1>1. /\ TypeOK /\ TokenChange(r) /\ run[r] \in RunRows /\ run[r].attempts \in Nat
  BY TokenStep, RowParts, BoundsAssumption DEF FencingInv, TypeOK
<1>2. CASE run'[r].state = "deleted" BY ScreenEmpty, <1>2 DEF LogInv, DeletedRunsEmpty
<1>3. CASE run'[r].state # "deleted"
  <2>1. run[r].attempts = 0 /\ Shown(r) = 0 BY <1>1, <1>3 DEF TokenChange, AnswerInv
  <2>2. \A e \in Executors : e[1] = r => tx[e] # "held"
    <3> SUFFICES ASSUME NEW e \in Executors, e[1] = r, tx[e] = "held" PROVE FALSE OBVIOUS
    <3> QED BY BoundsAssumption, ExecutorParts, <2>1 DEF FencingInv, OwnedUntilCommit, LogInv, ClaimsBound
  <2>3. Kind BY Kinds
  <2>4. CASE log'[r] = log[r] BY <2>1, <2>4 DEF Shown
  <2>5. ASSUME NEW q \in Runs, NEW ev, Speaks(q, ev) PROVE Screen(log'[r]) = 0 BY <2>1, <2>2, <2>4, <2>5, SpeaksShown
  <2>6. ASSUME NEW q \in Runs, NEW by \in 0..MaxAttempts,
               NEW outcome \in {"failed", "canceled"}, GivesUp(q, by, outcome)
        PROVE  Screen(log'[r]) = 0 BY <2>4, <2>6, GivesUpShown
  <2>7. ASSUME NEW e \in Executors, Answers(e) PROVE Screen(log'[r]) = 0 BY <2>4, <2>7, AnswersShown, <2>2 DEF Answers
  <2>8. ASSUME NEW c, NEW q \in Runs, NEW n, NEW s, NEW f, InsertRun(q, c, n, s, f)
        PROVE  Screen(log'[r]) = 0 BY <2>1, <2>4, <2>8, InsertShown
  <2>9. ASSUME NEW d \in deletes, ApplyDelete(d) PROVE log'[r] = log[r]
    BY <2>9, <1>1, <1>3, DeleteParts DEF ApplyDelete, TurnInv
  <2>10. CASE Internal \/ RevokeAccess BY <2>4, <2>10 DEF Internal, RevokeAccess
  <2>11. ASSUME NEW c \in Conversations, NEW q \in Runs, NEW s \in Submissions,
                NEW f \in Fingerprints, StartTurn(c, q, s, f) \/ RepeatTurn(c, q, s, f)
         PROVE  Screen(log'[r]) = 0 BY <2>4, <2>8, <2>11 DEF StartTurn, RepeatTurn
  <2>12. ASSUME NEW c \in Conversations, NEW q \in Runs, StartRun(c, q)
         PROVE  Screen(log'[r]) = 0 BY <2>8, <2>12 DEF StartRun
  <2>13. ASSUME NEW c \in Conversations, AppendMessage(c) \/ BeginDelete(c)
         PROVE  Screen(log'[r]) = 0 BY <2>4, <2>13 DEF AppendMessage, BeginDelete
  <2>14. ASSUME NEW e \in Executors, StoreToolCall(e) PROVE Screen(log'[r]) = 0 BY <2>4, <2>14 DEF StoreToolCall
  <2> QED BY <2>3, <2>4, <2>5, <2>6, <2>7, <2>9, <2>10, <2>11, <2>12, <2>13, <2>14 DEF Kind
<1> QED BY <1>2, <1>3

\* Every step keeps what is shown, published and received together.
LEMMA AnswerInvStep ==
  ASSUME FencingInv, TurnInv, LogInv, AnswerInv, TurnInv', LogInv', [Next]_vars
  PROVE  AnswerInv'
<1>1. \A e \in Executors : TextMove(e) BY TextStep DEF FencingInv
<1>2. ASSUME NEW e \in Executors, pc'[e] \in {"none", "reset"} PROVE mem'[e].pub = 0
  <2>1. TextMove(e) /\ FreshMem.pub = 0 BY <1>1 DEF FreshMem
  <2>2. CASE KeepsText(e) /\ Advances(e) BY <1>2, <2>2 DEF KeepsText, Advances, Finals, AnswerInv
  <2> QED BY <1>2, <2>1, <2>2, FlushFacts DEF TextMove
<1>3. ASSUME NEW e \in Executors, pc'[e] \in Finals
      PROVE  mem'[e].recv = mem'[e].pub /\ (pc'[e] # "decide" => mem'[e].recv > 0)
  <2>1. KeepsText(e) /\ Advances(e) BY <1>3, FlushFacts, <1>1 DEF TextMove, Finals, FirstStep
  <2> QED BY <1>3, <2>1 DEF KeepsText, Advances, Finals, AnswerInv
<1>4. ASSUME NEW c \in Conversations, NEW i \in DOMAIN messages'[c],
             messages'[c][i].role = "user"
      PROVE  messages'[c][i] = Message("user", None, 0)
  <2>1. CASE i \in DOMAIN messages[c] /\ messages'[c][i] = messages[c][i] BY <1>4, <2>1 DEF AnswerInv
  <2>2. \A e \in Executors : Message("assistant", e[1], mem[e].recv).role # "user" BY DEF Message
  <2> QED BY <1>4, <2>1, <2>2, MessageMove
<1>5. ASSUME NEW c \in Conversations, NEW i \in DOMAIN messages'[c],
             messages'[c][i].role = "assistant"
      PROVE  /\ messages'[c][i].chunks > 0
             /\ messages'[c][i].chunks = Screen(log'[messages'[c][i].run])
  <2>1. CASE i \in DOMAIN messages[c] /\ messages'[c][i] = messages[c][i]
    <3> DEFINE r == messages[c][i].run
    <3>1. /\ messages[c][i].role = "assistant" /\ r \in Runs
          /\ run[r].state = "completed"
          /\ messages[c][i].chunks > 0 /\ messages[c][i].chunks = Shown(r)
      BY <1>5, <2>1 DEF TurnInv, TurnsInOrder, QuestionsAsked, AnswerInv, AnswerIsWhatWasShown
    <3>2. run'[r].state = "completed" BY <1>5, <2>1 DEF TurnInv, TurnsInOrder
    <3> HIDE DEF r
    <3>3. log'[r] = log[r] BY <3>1, <3>2, LogMoveStep DEF LogMove, Active, ActiveStates
    <3> QED BY <2>1, <3>1, <3>3 DEF Shown, r
  <2>2. ASSUME NEW e \in Executors, Answers(e),
               messages'[c][i] = Message("assistant", e[1], mem[e].recv)
        PROVE  /\ messages'[c][i].chunks > 0
               /\ messages'[c][i].chunks = Screen(log'[messages'[c][i].run])
    <3>1. Shown(e[1]) = mem[e].pub /\ mem[e].recv = mem[e].pub /\ mem[e].recv > 0
      BY <2>2, StartedFacts DEF AnswerInv, Answers, FencingInv, OwnedUntilCommit, TxPcs, FinishPcs, Finals
    <3> QED BY <3>1, <2>2, AnswersShown DEF Shown, Message
  <2>3. messages'[c][i] # Message("user", None, 0) BY <1>5 DEF Message
  <2> QED BY <2>1, <2>2, <2>3, MessageMove
<1>6. AnswerIsWhatWasShown' BY <1>5 DEF AnswerIsWhatWasShown, Shown
<1> QED BY <1>2, <1>3, <1>4, <1>6, NothingEarly, StreamedStep DEF AnswerInv, Shown

\* Everything the engine keeps.
LEMMA WholeEngine == Spec => [](FencingInv /\ TurnInv /\ LogInv /\ AnswerInv)
<1>1. FencingInv /\ TurnInv /\ LogInv /\ AnswerInv /\ TurnInv' /\ LogInv' /\ [Next]_vars
        => AnswerInv' BY AnswerInvStep
<1>2. Init => AnswerInv BY AnswerInit
<1> QED BY <1>1, <1>2, History, PTL DEF Spec

\* complete_run against append_events_batched, takeovers and retries: the
\* answer that is stored is the text the client saw streaming, and there is
\* some, whatever earlier executions of the run had published.
THEOREM AnswersAreAsShown == Spec => []AnswerIsWhatWasShown
<1>1. AnswerInv => AnswerIsWhatWasShown BY DEF AnswerInv
<1> QED BY <1>1, WholeEngine, PTL

(***************************************************************************)
(* The turns of a conversation                                             *)
(***************************************************************************)
\* What ConversationTurns sees of the rows and the logs.
Phase == [r \in Runs |-> IF Active(r) THEN "open" ELSE run[r].state]
About == [r \in Runs |-> run[r].conv]
Screens == [r \in Runs |-> Shown(r)]

LEMMA PhaseFacts ==
  ASSUME TypeOK, NEW r \in Runs
  PROVE  /\ Phase[r] = "open" <=> Active(r)
         /\ Phase[r] = "absent" <=> run[r].state = "absent"
<1>1. Phase[r] = IF Active(r) THEN "open" ELSE run[r].state BY DEF Phase
<1>2. CASE Active(r) BY <1>1, <1>2 DEF Active, ActiveStates
<1>3. CASE ~Active(r) BY <1>1, <1>3, RowParts DEF RunStates, TerminalStates, ActiveStates, TypeOK
<1> QED BY <1>2, <1>3

LEMMA QuietFacts ==
  ASSUME TypeOK, NEW c
  PROVE  Turns!Quiet(c) <=> ~ActiveIn(c)
  BY PhaseFacts DEF Turns!Quiet, Turns!Open, ActiveIn, Phase

\* One run's phase, or one run's screen, changes.
LEMMA PhaseChange ==
  ASSUME NEW r \in Runs, NEW p, \A q \in Runs \ {r} : run'[q].state = run[q].state,
         p = IF run'[r].state \in ActiveStates THEN "open" ELSE run'[r].state
  PROVE  Phase' = [Phase EXCEPT ![r] = p]
<1> DEFINE of(state) == IF state \in ActiveStates THEN "open" ELSE state
<1>1. p = of(run'[r].state) OBVIOUS
<1> HIDE DEF of
<1> QED BY <1>1 DEF Phase, Active

LEMMA ScreensChange ==
  ASSUME NEW r \in Runs, \A q \in Runs \ {r} : log'[q] = log[q]
  PROVE  Screens' = [Screens EXCEPT ![r] = Screen(log'[r])]
  BY DEF Screens, Shown

LEMMA SpeaksTurns ==
  ASSUME FencingInv, NEW r \in Runs, NEW ev, Speaks(r, ev)
  PROVE  Turns!TurnNext \/ UNCHANGED Turns!turnVars
<1>1. TypeOK /\ Active(r) /\ run'[r].state \in ActiveStates BY DEF FencingInv, Speaks
<1>2. /\ \A q \in Runs : Phase'[q] = Phase[q] /\ About'[q] = About[q]
      /\ UNCHANGED messages BY <1>1 DEF Speaks, SamePhase, SameTurnRow, Phase, About, Active, turnRows
<1>3. Phase' = Phase /\ About' = About BY <1>2 DEF Phase, About
<1>4. Screens' = [Screens EXCEPT ![r] = Screen(log'[r])] BY SpeaksShown, ScreensChange
<1>5. Turns!Open(r) BY <1>1, PhaseFacts DEF Turns!Open, Phase
<1>6. CASE Screen(log'[r]) = 0
  BY <1>2, <1>3, <1>4, <1>5, <1>6 DEF Turns!TurnNext, Turns!Withdraw, Phase, About, Screens
<1>7. CASE Screen(log'[r]) = Shown(r) BY <1>2, <1>3, <1>4, <1>7 DEF Turns!turnVars, Phase, About, Screens
<1>8. ASSUME NEW n \in 1..BatchSize, Screen(log'[r]) = Shown(r) + n
      PROVE  Turns!Show(r, n) BY <1>2, <1>3, <1>5, <1>4, <1>8 DEF Turns!Show, Phase, About, Screens
<1>9. ASSUME NEW e \in Executors, Screen(log'[r]) = Shown(r) + NextBatch(e)
      PROVE  Turns!TurnNext \/ UNCHANGED Turns!turnVars
  <2>1. NextBatch(e) \in Nat /\ NextBatch(e) <= BatchSize /\ BatchSize \in Nat
        /\ Shown(r) \in Nat
    <3>1. log[r] \in Seq(Events) BY <1>1 DEF TypeOK
    <3> QED
      BY <3>1, NextBatchType, LimitsAssumption, ScreenNat, MemParts, <1>1 DEF FencingInv, Shown, NextBatch, Pending,
        TypeOK
  <2>2. CASE NextBatch(e) = 0 BY <1>7, <1>9, <2>1, <2>2
  <2>3. CASE NextBatch(e) # 0 BY <1>8, <1>9, <2>1, <2>3 DEF Turns!TurnNext
  <2> QED BY <2>2, <2>3
<1> QED BY <1>6, <1>7, <1>9, SpeaksShown

LEMMA GivesUpTurns ==
  ASSUME FencingInv, NEW r \in Runs, NEW by \in 0..MaxAttempts,
         NEW outcome \in {"failed", "canceled"}, GivesUp(r, by, outcome)
  PROVE  Turns!Give(r, outcome)
<1>1. TypeOK /\ Active(r) /\ run'[r].state = outcome BY DEF FencingInv, GivesUp
<1>2. /\ \A q \in Runs : About'[q] = About[q]
      /\ \A q \in Runs \ {r} : run'[q].state = run[q].state
      /\ UNCHANGED messages BY DEF GivesUp, SamePhase, SameTurnRow, About, turnRows
<1>3. Screens' = [Screens EXCEPT ![r] = 0] BY GivesUpShown, ScreensChange
<1>4. Turns!Open(r) BY <1>1, PhaseFacts DEF Turns!Open, Phase
<1> QED BY <1>2, <1>3, <1>4, <1>1, PhaseChange DEF Turns!Give, Phase, About, Screens, ActiveStates

LEMMA AnswersTurns ==
  ASSUME FencingInv, AnswerInv, NEW e \in Executors, Answers(e)
  PROVE  Turns!Answer(e[1])
<1> DEFINE r == e[1]
<1>1. /\ TypeOK /\ r \in Runs /\ Active(r) /\ run'[r].state = "completed"
      /\ run[r].conv \in Conversations BY ExecutorParts DEF FencingInv, Answers
<1>2. /\ \A q \in Runs : About'[q] = About[q]
      /\ \A q \in Runs \ {r} : run'[q].state = run[q].state BY DEF Answers, SamePhase, SameTurnRow, About
<1>3. Screens' = Screens BY <1>1, AnswersShown, ScreensChange DEF Screens
<1>4. Turns!Open(r) BY <1>1, PhaseFacts DEF Turns!Open, Phase
<1>5. Shown(r) = mem[e].recv /\ Shown(r) > 0
  BY StartedFacts DEF AnswerInv, Answers, FencingInv, OwnedUntilCommit, TxPcs, FinishPcs, Finals
<1>6. run[r].conv # None BY <1>1, NullAssumption DEF None
<1>7. messages' = [messages EXCEPT ![run[r].conv] =
                                    Append(@, Message("assistant", r, Shown(r)))] BY <1>5 DEF Answers, InsertMessage
<1> HIDE DEF r
<1>8. Turns!AnswerOf(r) = Message("assistant", r, Shown(r)) BY <1>1 DEF Turns!AnswerOf, Message, r
<1> QED
  BY <1>1, <1>3, <1>4, <1>5, <1>6, <1>7, <1>8, <1>2, PhaseChange DEF Turns!Answer, Turns!NoConversation, None, Phase,
    About, Screens, r, ActiveStates

\* A question, and a run about the question at the end.
LEMMA QuestionForm == Turns!Question = Message("user", None, 0)
  BY DEF Turns!Question, Message, None

LEMMA AppendsTurns ==
  ASSUME FencingInv, NEW c \in Conversations, AppendMessage(c)
  PROVE  Turns!AskOnly(c)
<1>1. /\ Turns!Quiet(c) /\ UNCHANGED <<run, log>>
      /\ messages' = [messages EXCEPT ![c] = Append(@, Message("user", None, 0))]
  BY QuietFacts DEF AppendMessage, TakesMessages, InsertMessage, FencingInv
<1> QED BY <1>1, QuestionForm DEF Turns!AskOnly, Turns!Ask, Phase, About, Screens, Active, Shown

LEMMA InsertTurns ==
  ASSUME FencingInv, TurnInv, NEW c \in Conversations, NEW r \in Runs, NEW n \in Nat,
         NEW s, NEW f, InsertRun(r, c, n, s, f), ~ActiveIn(c),
         messages'[c] # << >>,
         messages'[c][Len(messages'[c])] = Message("user", None, 0)
  PROVE  Turns!OpenTurn(c, r)
<1>1. TypeOK BY DEF FencingInv
<1>2. /\ run[r].state = "absent" /\ run'[r].state = "queued" /\ run'[r].conv = c
      /\ \A q \in Runs \ {r} : run'[q] = run[q] BY <1>1, InsertParts
<1>3. Phase' = [Phase EXCEPT ![r] = "open"] BY <1>2, PhaseChange DEF ActiveStates
<1>4. Screens' = Screens BY InsertShown, ScreensChange DEF Screens
<1>5. Phase[r] = "absent" BY <1>1, <1>2, PhaseFacts
<1>6. Turns!Quiet(c) BY <1>1, QuietFacts
<1> QED BY <1>3, <1>4, <1>5, <1>6, QuestionForm, <1>2 DEF Turns!OpenTurn, Phase, About, Screens

LEMMA StartsTurns ==
  ASSUME FencingInv, TurnInv, NEW c \in Conversations, NEW r \in Runs,
         NEW s \in Submissions, NEW f \in Fingerprints, StartTurn(c, r, s, f)
  PROVE  Turns!AskAndOpen(c, r)
<1> DEFINE m == Message("user", None, 0)
<1>1. TypeOK /\ Len(messages[c]) + 1 \in Nat BY DEF FencingInv, TypeOK
<1>2. InsertMessage(c, m) /\ InsertRun(r, c, Len(messages[c]) + 1, s, f) /\ ~ActiveIn(c) BY DEF StartTurn
<1> HIDE DEF m
<1>3. Turns!OpenTurn(c, r) BY <1>1, <1>2, InsertTurns, AppendParts DEF m
<1> QED BY <1>3, <1>1, <1>2, QuietFacts, QuestionForm DEF Turns!AskAndOpen, Turns!Ask, InsertMessage, m

LEMMA StartsRuns ==
  ASSUME FencingInv, TurnInv, AnswerInv, NEW c \in Conversations, NEW r \in Runs,
         StartRun(c, r)
  PROVE  Turns!OpenLatest(c, r)
<1> DEFINE last == Len(messages[c])
<1>1. /\ last > 0 /\ messages[c][last].role = "user" /\ ~ActiveIn(c)
      /\ InsertRun(r, c, last, None, None) /\ UNCHANGED messages BY DEF StartRun
<1>2. last \in DOMAIN messages[c] /\ last \in Nat /\ messages[c] # << >> BY <1>1 DEF FencingInv, TypeOK
<1>3. Turns!OpenTurn(c, r) BY <1>1, <1>2, InsertTurns DEF AnswerInv
<1> QED BY <1>1, <1>3 DEF Turns!OpenLatest

LEMMA ErasesTurns ==
  ASSUME FencingInv, TurnInv, NEW d \in deletes, ApplyDelete(d)
  PROVE  \E lost \in SUBSET Runs : Turns!Erase(d.conv, lost)
<1> DEFINE c == d.conv
           lost == {r \in Runs \ d.seen : run[r].conv = c}
           gone == {r \in Runs : About[r] = c} \ lost
<1>1. TypeOK BY DEF FencingInv
<1>2. /\ d.seen \subseteq Runs /\ \A q \in d.seen : run[q].conv = c
      /\ \A q \in d.seen : run'[q].state = "deleted"
      /\ \A q \in Runs \ d.seen : run'[q].state = run[q].state
      /\ \A q \in Runs : IF run[q].conv = c THEN run'[q].conv = None ELSE run'[q] = run[q] BY <1>1, DeleteParts
<1>3. gone = d.seen BY <1>2 DEF About
<1>4. messages' = [messages EXCEPT ![c] = << >>] BY DEF ApplyDelete
<1> HIDE DEF c
<1>5. Phase' = [r \in Runs |-> IF r \in gone THEN "deleted" ELSE Phase[r]]
  BY <1>3, <1>2 DEF Phase, Active, ActiveStates
<1>6. Screens' = [r \in Runs |-> IF r \in gone THEN 0 ELSE Screens[r]]
  BY <1>3, ScreenEmpty DEF Screens, Shown, ApplyDelete
<1>7. Turns!Erase(c, lost)
  BY <1>4, <1>5, <1>6, <1>2 DEF Turns!Erase, Turns!NoConversation, None, Phase, About, Screens
<1>8. lost \in SUBSET Runs OBVIOUS
<1> HIDE DEF lost, gone
<1> QED BY <1>7, <1>8 DEF c, Turns!Erase

\* Every step of the engine is a step of the turns, or none.
LEMMA EngineTurns ==
  ASSUME FencingInv, TurnInv, AnswerInv, [Next]_vars
  PROVE  UNCHANGED <<run, messages, log>> \/ Turns!TurnNext \/ UNCHANGED Turns!turnVars
<1>1. Kind BY Kinds
<1>2. CASE Internal
  BY <1>2 DEF Turns!turnVars, Phase, About, Screens, SamePhase, SameTurnRow, Active, Shown, Internal, turnRows
<1>3. ASSUME NEW c \in Conversations, NEW r \in Runs, NEW s \in Submissions,
             NEW f \in Fingerprints, StartTurn(c, r, s, f)
      PROVE  Turns!TurnNext BY <1>3, StartsTurns DEF Turns!TurnNext
<1>4. ASSUME NEW c \in Conversations, AppendMessage(c) PROVE Turns!TurnNext BY <1>4, AppendsTurns DEF Turns!TurnNext
<1>5. ASSUME NEW c \in Conversations, NEW r \in Runs, StartRun(c, r)
      PROVE  Turns!TurnNext BY <1>5, StartsRuns DEF Turns!TurnNext
<1>6. ASSUME NEW d \in deletes, ApplyDelete(d) PROVE Turns!TurnNext
  BY <1>6, ErasesTurns DEF Turns!TurnNext, FencingInv, TypeOK, Deletes
<1>7. ASSUME NEW r \in Runs, NEW by \in 0..MaxAttempts,
             NEW outcome \in {"failed", "canceled"}, GivesUp(r, by, outcome)
      PROVE  Turns!TurnNext BY <1>7, GivesUpTurns DEF Turns!TurnNext
<1>8. ASSUME NEW e \in Executors, Answers(e) PROVE Turns!TurnNext
  BY <1>8, AnswersTurns, ExecutorParts DEF Turns!TurnNext
<1>9. CASE \/ RevokeAccess
           \/ \E c \in Conversations : BeginDelete(c)
           \/ \E c \in Conversations, r \in Runs, s \in Submissions, f \in Fingerprints :
                RepeatTurn(c, r, s, f)
           \/ \E e \in Executors : StoreToolCall(e) BY <1>9 DEF RevokeAccess, BeginDelete, RepeatTurn, StoreToolCall
<1> QED BY <1>1, <1>2, <1>3, <1>4, <1>5, <1>6, <1>7, <1>8, <1>9, SpeaksTurns DEF Kind

LEMMA EngineTurnInit == Init => Turns!TurnInit
<1> SUFFICES ASSUME Init PROVE Turns!TurnInit OBVIOUS
<1>1. About = [r \in Runs |-> None] BY DEF Init, About, AbsentRun
<1>2. Screens = [r \in Runs |-> 0] BY ScreenEmpty DEF Init, Screens, Shown
<1> QED
  BY <1>1, <1>2 DEF Turns!TurnInit, Turns!NoConversation, None, Phase, About, Screens, Init, Active, ActiveStates,
    AbsentRun

\* The engine, with its workers, takeovers, retries and crashes, implements the
\* turns of ConversationTurns: a turn opens on the latest question, shows text,
\* may withdraw it, and closes once, with what is shown or without an answer.
THEOREM EngineImplementsTurns == Spec => ImplementsTurns
<1>1. FencingInv /\ TurnInv /\ LogInv /\ AnswerInv /\ [Next]_vars
        => [UNCHANGED <<run, messages, log>> \/ Turns!TurnNext]_(Turns!turnVars) BY EngineTurns
<1>2. Init => Turns!TurnInit BY EngineTurnInit
<1> QED BY <1>1, <1>2, WholeEngine, PTL DEF Spec, ImplementsTurns
=============================================================================
