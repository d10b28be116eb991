# A TLA+ verification of GoBrowseOS

GoBrowseOS is a self-hosted assistant: a Rust server (`gobrowse-server`) over PostgreSQL, a domain crate
(`gobrowse-core`), a sandbox daemon (`gobrowse-sandboxd`), a web client (`gobrowse-web`) and a recovery tool.
This directory holds TLA+ models of its concurrent parts, the TLC runs that check them on small instances, and
TLAPS proofs, for every size of the instance, of every safety property that the passing runs check.
`PROJECT.json` lists components, runs, mutants, the map from definitions to source lines, findings, hazards and theorems.

## 1. Inventory of the system

Every request handler and worker is a tokio task. The server's state that matters is in PostgreSQL, under READ
COMMITTED; the daemon's is in memory, in a SQLite journal and in the file system; the browser's is in signals and
in the session storage of a tab. What is hard is therefore *between statements*: handlers, workers, tasks, other
servers, containers and clients interleave at every statement and every await, processes die, leases run out
while their holders go on, and answers get lost.

| Component | State | Operations | Interacts with | What is hard | What makes it correct |
|---|---|---|---|---|---|
| Run engine (`run_api.rs`) | `agent_runs`, `run_events`, `tool_calls`, locals of `execute_inner` | `start_turn`, `start_run`, `cancel_run`, `claim_runs`, heartbeat, `execute`, `complete_run`, `fail_run`, `check_canceled`, reaper | conversations, provider, tools, event readers | executors that lost their lease go on; five writers race to end a run; `now()` is fixed at BEGIN | a token fences every write; one terminal event; the stored answer is the streamed text; cancellation wins and takes effect; every run ends |
| Event delivery (`realtime.rs`, `list_run_events`) | cursor of each socket or client | upgrade, replay tick, polling | run engine, sessions | sequence order against commit order; broken connections; revoked sessions | no event skipped or repeated; nothing new after a revocation; all arrives |
| Conversations, workspaces (`conversation_api.rs`, `api.rs`) | rows, messages, pins, the projected book | create, fork, delete, pin, append, members | runs, library | handlers that authorise first and write later | a fork is a prefix; the library shows each conversation as it stands |
| Embedding queue (`embedding.rs`, `embedding_api.rs`) | `embedding_jobs`, `books.embedding_status`, vectors, the active model | enqueue, claim, reclaim, process, fail, retry, activate, seed | library edits, providers | edits while vectors are computed; model changes; late workers | a ready book has current vectors; no book is forgotten; every job ends |
| Library (`library_api.rs`, `library.rs`) | books, chunks, companion books | create, update, delete, search, load | embeddings, skills, MCP, plugins | five spellings of the same right; chunk boundaries | rights agree; chunks cover the text |
| Context, gateway, registry (`run_api.rs`, `context.rs`, `chat.rs`, `model_api.rs`) | the assembled request, the stream, models and routes | `build_messages`, open, read a stream, create/activate/delete models | run engine | budgets by integer division; streams cut anywhere; models deleted under a run | the request fits the model; a round is read to the line that finishes it |
| Tool authorization (`authorize.rs`) | policies, decision cache, audit rows | `authorize`, dispatch | run engine | stale decisions | nothing happens without a recorded decision that really was given |
| Webhooks (`webhook_scheduler.rs`, `webhooks.rs`) | deliveries with lease and token | receive, claim, deliver, recover, persist | outbound HTTP | a delivery given to a second worker while the first sends | the outcome is that of the last claim; every delivery settles |
| Sandbox daemon (`gobrowse-sandboxd`) | replay cache, journal, registry, sessions, recovery store, files | requests, terminals, output, file operations, `reconcile_restart` | server, podman | retries, restarts, deadlines, containers that change the same files | one execution per request id; true records; files changed as a whole |
| Sandbox client (`sandbox_client.rs`, `sandbox_api.rs`, tools) | calls, audit rows | provision, send, exec, audit | daemon | one send without a retry, answers lost | log and answers are true |
| Vault (`vault.rs`, `vault_api.rs`) | secrets, key state | create, replace, delete, rotate | every secret user | writes by servers with the old key during a rotation; two lock orders | one key after a rotation |
| Sign-in (`auth.rs`, `session_manager.rs`, `webauthn.rs`, `rate_limiter.rs`) | accounts, sessions, epoch, attempts, ceremonies, windows | setup, login, step-up, revoke, rotate | all handlers | passwords verified between check and write; clocks read before a lock is waited for; slots rounded down | ended sessions stay ended; the rate is held |
| Tasks, worktrees, ledger (`task_api.rs`, `worktree_api.rs`) | rows, ledger, sequence | create, update, record, page | workspaces | sequence order against commit order | the ledger is the history of the rows |
| Skills, autobiography | revisions, evaluations, proposals | evaluate, promote, roll back, propose, review, update after a run | runs | what is reviewed is not what is current; an update merges into a text it read without a lock | automatic promotion is never worse; a proposal changes what its author saw; every text there was is on record |
| Plugins, UI packages | rows, installations, directories, `active_ui` | preview, install, upgrade, activate, roll back, delete | release sources, browser | releases published again, tags moved; handlers dropped while a thread extracts or a COMMIT is answered; memory written after the COMMIT | the artifact that runs is one that was shown; what is served is what the database calls active |
| MCP (`mcp_client.rs`, `gobrowse-core/mcp`) | pool, connections, session, pending requests | connect, negotiate, request, reconnect, dispatch | processes | an answer that arrives after its request timed out | an answer goes to its own request |
| Web client (`app.rs`) | signals, session storage, tasks | chat page, terminals page | server | answers of earlier clicks arrive late | what is shown belongs to the selection; nothing waits for a task that is gone |

The full list, with the parts left out and why, is under `components` in `PROJECT.json`; the hazards, each at
its line, under `hazards`.

## 2. Modules

    ConversationTurns            abstract: what people in a conversation see
          ^ implemented by
    RunEngine                                                                       MCRunEngine
    EmbeddingJobs                                                                   MCEmbeddingJobs
    EventLog, WebhookDelivery, SandboxRequests, SandboxTerminal                     MCProgress
    SandboxRequests, SandboxTerminal, TerminalOutput, SandboxWorkspace,
      SandboxFiles, SandboxCalls, WebTerminal                                       MCSandbox
    Plugins, UiPackages, VaultKeys, Sessions, RateLimiter, TaskBoard, Skills,
      McpPool (with McpWire), McpLifecycle, Autobiography, Library, ProviderStream,
      ToolGate, RunContext, ModelRegistry, Conversations, WebChat                   MCServices

    theorems:  RunEngineProofs      RunEngine, and that it implements ConversationTurns
               QueueProofs          EventLog, WebhookDelivery, EmbeddingJobs
               TerminalProofs       SandboxTerminal, TerminalOutput, SandboxCalls, WebTerminal (over MCSandbox)
                 <- SandboxProofs   SandboxRequests, SandboxFiles, SandboxWorkspace, and MCSandbox as a whole
               ServicesProofs       ToolGate, McpLifecycle, McpPool, VaultKeys, Conversations, TaskBoard, Library
               GatewayProofs        RateLimiter, ModelRegistry, RunContext, ProviderStream
               ApprovalProofs       Skills, Autobiography, Plugins, UiPackages, Sessions, WebChat
                 these three <- CompositeProofs        MCServices as a whole

`ListOps` holds one operator, the members of a list at some of its places, for `Vec::retain` and the filters of the code.
An `MC...` module gives the constants values that a `.cfg` cannot spell, and symmetry. `MCProgress`, `MCSandbox` and
`MCServices` are sums: the initial state chooses one `part`, whose actions alone are taken. Their parts are about
different rows, so that a product would multiply states that do not influence each other. Where parts do
interact, one of the modules contains the interaction: `RunEngine` has the conversation, its deletion and the
requester's access; `EmbeddingJobs` the edits of a book; `SandboxTerminal` the requests that start, feed and end
a terminal; `SandboxWorkspace` the containers beside the file operations; `McpPool` the dispatcher at the other
end; `WebChat` and `WebTerminal` the server as far as they can see it.

### RunEngine

State: `run[r]` is the row of `agent_runs` (state, conversation, input message, submission and fingerprint,
execution token, lease, cancellation, attempts), `log[r]` the rows of `run_events` in sequence order, `messages`
and `projected` the conversation and its library book, `toolCalls` the table of that name. `pc`, `tx` and `mem`
are where an executor is in `execute`/`execute_inner`, its open transaction and its locals (text received and
published, fragments of the round, tool calls to do). An executor is a pair of a run and the number of its
claim; that number is its token (a random UUID in the code). `lock` is the profile's advisory lock.

A transaction that appends events is three steps: `Begin` fixes what its `now()` says of the lease (`tx` is
`"live"` or `"expired"`), `Acquire` takes the advisory lock and evaluates the guarded statement of the code
(`Guard`: token, lease, cancellation, state, access, which differ between the callers), and a `Commit...` action
writes everything the transaction writes. `Refused` is the guard that fails. Between these steps anything may
happen: ticks of the clock, other claims, cancellations, deletions. `ack = FALSE` is a COMMIT that succeeded
while its answer was lost, so the executor takes its error path with the rows written. `StepFails` is any
await that fails; `Shutdown` drops `execute_inner` and releases the lease; `Crash` is the death of the process.
`Abort` is what `execute` does with an error: `fail_run`, or `release_lease` when the reset failed.

Row locks matter in three places and are in the guards: `FOR UPDATE SKIP LOCKED` of `claim_runs` passes over a
row that an open transaction holds (`RowLocked`), `delete_conversation` waits for those rows (`DeleteMayGo`), and
a revocation waits for `complete_run`'s `FOR SHARE` (`AccessUnlocked`). `delete_conversation` is two steps,
because its snapshot is taken before the row lock is granted; a run that its snapshot does not show keeps its
row without a conversation (`ON DELETE SET NULL`).

Data left out: texts, prompts, the content of tool arguments and results, audit rows. Text is counted in
fragments, which is what "the answer is what was shown" needs.

### ConversationTurns

The promise, without workers, tokens or transactions: a transcript grows by questions and answers; a turn is
opened on the latest question, shows text, may start over, and closes once, either with the shown text as the
answer or without one. `RunEngine!Turns` instantiates it; what is shown is `Shown(r)`, the fold of the log
that the web client computes.

### EventLog

`run_events.sequence` is drawn at INSERT (`Insert`) and rows become visible at COMMIT (`Commit`); a rollback
leaves a gap. `LockEventSequence` is the advisory lock. Two kinds of readers: a socket (`Connect`, `Fetch`,
`CheckSession`, `Send`, with `Receive` and `Disconnect` as its network) and the web app's polling loop
(`PollEvents`, `ApplyPage`, `PollStatus`). Nothing is appended to a terminal run: this is RunEngine's
`TerminalIsFinal`, a guard here.

### EmbeddingJobs

One book (jobs of different books share nothing). `Edit` stands for `update_book`, `replace_book_body` and
`replace_book_snapshot`, which do the same to status, chunks and queue. `Activate` is `activate()`: its UPDATE
waits for the book's row lock unless the row already carries the model; then the statement passes by and the
COMMIT (`CommitActivation`) may come after an edit. A worker goes through `reclaim_expired` (three statements),
`claim`, `process` (revision, chunks, batches with a lease renewal each, publication) and `record_failure` (two
statements). `lease` is a Boolean `live`: a renewal extends a live lease, which may still expire at any moment.
`crashes` bounds crashes and failed statements of the loop.

### The sandbox

* `SandboxRequests`: a connection permit runs one task at a time (`conn`); `replay` and `order` are the bounded cache,
  `mutation` the journal's `protocol_mutations`. Operations are of three classes, as in `terminal_mutation` and
  `is_non_idempotent`. One action is one critical section: a call on the cache's mutex, a journal transaction, or
  the stretch between two of them. `executed` and `told` are history.
* `SandboxTerminal`: the record `term[t]` holds the journal row, the session and the tasks about it: the starter
  (which may be dropped at its deadline also while it waits for the registry to give its reservation back),
  the drain, the monitor, the three cleaners (request, timer, failed start) and the background retry; `sessions`,
  `active`, `activeIn` and `completed` are the registry. Output is counted. `reconcile_restart` is the restart.
* `TerminalOutput`: the same output byte by byte: chunks of the journal, cursors, acknowledgements in the middle of
  chunks, readers that register before they look again.
* `SandboxWorkspace`: `mutate_workspace` as the workspace lock, the recovery record, the pauses and resumes one container
  at a time, and the write or patch through a temporary file and `renameat2`: a look at the hash, another look whether
  the file is there, and the rename, with containers that write or delete the file at any point. A deadline frees the
  lock while the spawned task goes on; a request that failed or was dropped before its resume was done leaves a guard
  whose Drop spawns another one, beside whatever comes next. That a start of a terminal recovers the workspace first
  (`runtime.rs` 1391) is not modelled: it takes the same lock and does what the next request would do.
* `SandboxFiles`: copy, move, delete and search as sequences of system calls on a two-level tree of inodes.
* `SandboxCalls`: the server's handlers and tools over one send each; `exec` with its reading loop; the audit row.
* `WebTerminal`: the terminals page: a start with the loop that follows it, input, resize, interrupt, close, and the
  reconnect offer of a later visit. `remote[t]` is the server's terminal. Output is bytes, of which some pairs
  are one character (`TwoByte` names the first of each); every read is decoded alone, so that what it tears becomes marks.

### Deliveries and services

* `WebhookDelivery`: rows with status, attempts and token; a scan is three statements; a claimed row becomes a task that
  sends and then records under its token. Address check and transport are the outcomes they may have.
* `VaultKeys`: handlers as transactions with row locks on secrets and on `vault_key_state`, on servers with different keys;
  `BreakDeadlock` is PostgreSQL's. An envelope names the key it is sealed with.
* `Sessions`, `RateLimiter`: a login is a check, a verification and a transaction; sessions are rows with the epoch they
  were made in. The limiter's time has ticks smaller than its slots; a hit reads the clock and later gets the lock, once
  for its client's bucket and once for the common one, and its request may be dropped between the two. `prune` does the
  same; nothing in the server calls it. The clock is assumed not to go back.
* `TaskBoard`: transactions under the workspace's advisory lock; `sequenceNo` is shared by all workspaces; a reader pages
  with the last number seen.
* `Skills`, `Autobiography`: one action per handler, because each holds the row it decides on; the update after a run is
  three steps, because it reads without a lock and asks a model. It is reviewed by nobody and may overwrite what came
  between; a first promotion may be automatic. `merge_body` keeps the beginning of a text that is too long.
* `Plugins`, `UiPackages`: install holds no lock and is one step per await; the other plugin operations hold the row;
  `active_ui` is memory, written after the COMMIT. Handlers may be dropped at their awaits: an extraction then goes on
  on its thread and brings the staging directory back, and a UI package may be active with `active_ui` unwritten. A
  release may be published again under its tag, and the tag moved to a manifest of another version.
* `McpPool`, `McpWire`, `McpLifecycle`: a caller goes through the pool, the row, the process, negotiation and one request under
  the connection's lock; a timeout leaves what is in the pipe. Frames are records of what the code looks at.
  The lifecycle has one action per public operation.
* `Library`: the rights as each handler's query spells them, `chunk_text` on lengths, the triggers of migrations 0020 and
  0021, a search as its two queries.
* `RunContext`, `ModelRegistry`, `ProviderStream`, `ToolGate`: what a run does around the engine's steps: the budget, limits
  and routes read at different times, the stream in units smaller than a line, a call's decision. A line of a stream is one
  of the payloads that `parse_provider_line` tells apart, those that yield nothing included: a tool call without id or
  name, an error object in the middle of a stream, ollama's `message.tool_calls` (`mute`), arguments that are no
  JSON (`nullcall`, a call with Null).
* `Conversations`: handlers that authorise and write in different statements, with the schema's foreign keys.
* `WebChat`: the chat page's signals, its tasks with the generation and conversation they were started for, and the tab's
  storage. Every await is a step; a reload drops the tasks.

## 3. What the runs check

Bounds are named in the modules (`Max...`) and only cap how often something happens; deadlock checking is off
because a bounded instance ends when its bounds are used up.

| Run | Instance | Checks |
|---|---|---|
| `run_takeover` | 1 run, 2 claims, a lease of one tick, 1 text fragment, a deletable conversation | `FencingInv`, `EventsInOrder`, `DeletedStaysEmpty`, `TerminalIsFinal`, and the refinement `ImplementsTurns`: two executors of one run, one superseded, against a canceler, the reaper, deletion, crashes and lost answers |
| `run_turns` | 2 runs, 2 submissions, 2 fingerprints, 3 messages, symmetric | `TurnsSound`: one turn at a time, answers after questions; a repeated submission is the same turn |
| `run_tools` | 2 rounds, 2 tool calls, 2 text fragments of which 1 is allowed, usage events, revocable access | `ToolCallsPublished`, `AnswerIsWhatWasShown`, `NoAnswerAfterRevocation` |
| `run_progress` | 2 claims, a lease of 2 ticks | `CancelTakesEffect`, `EveryRunEnds` |
| `embeddings` | 1 model that may be seeded, 2 workers, 2 attempts, 2 revisions | `JobsAndBooksAgree`: a ready book has current vectors |
| `embedding_progress` | 2 models, 1 worker, a retry, a crash | `NothingForgotten`, `JobsSettle` |
| `progress` | 4 parts, see below | `DeliveredAsCommitted`, `EverythingArrives`, `PollingStops` (events); `OutcomeOfLastClaim`, `DeliveriesSettle` (webhooks); `EveryLineAnswered` (daemon); `TerminalsEnd` (terminals) |
| `sandbox` | 7 parts | `OncePerRequest`, `TerminalRecordsTrue`, `NeverRevived`, `PatchesRecoverable`, `FilesAllOrNothing`, `SandboxTypeOK` |
| `services` | 17 parts | `PackagesAsApproved`, `SignInsHeld`, `McpAnswersFenced`, `LimitsHeld`, `LibraryConsistent`, `OneKeyAfterRotation`, `LedgerIsHistory`, `LearningOnRecord`, `ChatPageTrue`, `RoundReadToItsEnd`, `GatedByPolicy`, `ForkIsPrefix`, `ServicesTypeOK` |
| `run_tool_fence`, `run_tool_answers`, `embedding_seed` | violations | the findings below |

The passing runs have between a hundred and fifty thousand and three million distinct states each (`services` 1.8
million, `sandbox` 1.7 million) and take one to three minutes with two workers.

Several properties are conjunctions of named parts, each stated at its definition: `FencingInv` = `TypeOK` /\
`LocalsOK` /\ `OwnedUntilCommit` /\ `RowsOK` /\ `CancelWins`; `EventsInOrder` = `OneTerminalEvent` /\ `GenerationsInOrder`;
`TurnsSound` = `TurnsInOrder` /\ `SubmissionIdempotent`; `DeliveredAsCommitted` = types, `NothingSkipped`,
`RevokedSeesNothingNew`; `JobsAndBooksAgree` = types, `ReadyIsCurrent`; `OncePerRequest` = `AtMostOnce` /\ `StableAnswers`;
`TerminalRecordsTrue` = `InputOnce`, `CompleteMeansAll`, `OutputIsStream`, `RegistryExact`, `SandboxLogTrue` and
`TerminalPageTrue`; `PatchesRecoverable` = `PatchConditional` /\ `PausedIsRecorded`; `PackagesAsApproved` = `PluginAsApproved` /\
`UiServesActive`; `SignInsHeld` = `EndedSessionsStayEnded`; `McpAnswersFenced` = `McpAnswerIsOwn` /\ `PendingIsFenced`; `LimitsHeld` =
`RateHeld` /\ `ContextFits` /\ `RequestFits`; `LibraryConsistent` = `RightsAgree` /\ `ChunksCoverText`;
`LearningOnRecord` = `AutomaticNeverWorse` /\ `ProposalsInPlace`; `ChatPageTrue` = `ChatShowsSelection` /\ `NothingOrphaned` /\
`ReloadFindsAll`.

**Why the bounds are enough.** Two claims give the superseded and the current executor; a third would repeat the
relation between the second and the first, and the theorems below hold for any number. With two text fragments
and one allowed (`run_tools`), text can be received and not published, and the fragment limit is reached. One tick of lease
is enough to be live and to be expired; the progress run has two, so that a renewal matters. Two runs and
three messages are needed for a second turn after a first. In the event log two rows per transaction and
pages of two make transactions straddle pages. Two embedding workers are the superseded and the current one, and
the initial states include a book embedded by another model, so that one activation reaches the statement that
skips the book. In the daemon two connections, two ids and a cache of one make a retry meet its running first
copy, an evicted entry and a restart; three lines are the first copy, the retry and the one that evicts. Two
containers are needed for a pause that fails half way, two file operations for one that finds what the first
left. Vault, sessions, packages and conversations have two concurrent requests, which is what each race is
between (two logins of which one reads the clock before the other and gets the lock after it), and as many requests
in all as it takes to set the race up. The page modules have two conversations
or terminals and one click more than the shortest way into the state that a late answer could spoil. One
character of two bytes and reads of one and two bytes make a read that tears it and one that does not.

Every property of a passing run has a mutant in `PROJECT.json`: an operator beside a mapped definition that
changes it as a plausible bug would (a guard without its cancellation, a claim that does not skip locked rows,
a cursor taken from what was sent), under which TLC finds the property violated.

### Fairness

A liveness property is stated as `Fairness => P` with exactly the fairness it needs:

* `ReaperFairness` (`CancelTakesEffect`): time passes, the reaper's scan comes back, and PostgreSQL does not keep a
  transaction open for ever. Nothing is assumed of the executor, which may hang. The scan of `run_worker` is
  gated by `tasks.len() < 4`, so this is about a server with a free slot.
* `WorkerFairness` (`EveryRunEnds`): in addition the scan claims what it can and an executor that is not dead goes on.
  Every await of `execute_inner` has a timeout (provider open and stream, tool execution, database), which
  makes it a step or a `StepFails`. Crashes are not fair.
* `Fairness` of EventLog: open transactions end, the replay interval fires, clients reconnect and poll again (the
  loop of the web app has no other exit), and what is not lost is delivered.
* `Fairness` of EmbeddingJobs: the clock goes on and the worker loop runs; every wait of `process` has a timeout.
* `DeliveryFairness`: a scheduler's interval fires, and a task that was spawned sends, under the client's timeout, and
  records; a backoff ends and a lease expires. Crashes and failed statements are bounded by name.
* `HandlersPolled`, `TasksPolled`: tokio polls a task that can go on. A container is not assumed to stop by itself:
  the execution timeout does that.

### Findings

1. `run_api.rs:1197` inserts into `tool_calls` with no token or lease check, although ADR 0011 says that the token
   fences every execution-owned write. TLC's trace: the lease runs out during the tool call, another executor
   claims the run, the first one stores its row. (The `tool.result` event before it *is* fenced.)
2. `run_api.rs:1175` says "Truncate oversized tool output." and skips the result instead, leaving a published
   `tool.call` without an answer, a row or a result for the model's next round.
3. `embedding.rs:843` activates the default model without marking books stale or queueing jobs, although
   `docs/library.md` says that a model change does both.

Two more comments that the code does not keep have no run of their own. The models follow the code in both, and no
property depends on them:

* `plugin_api.rs:924` writes the version of a manifest that `activate` has fetched again into the plugin's row and never
  compares it with the version that was staged. The comment at 735 says that `plugins.version` and
  `plugin_installations.version` always agree. A staged upgrade, a tag that is moved to a manifest of another version with
  the same artifact (`MoveTag`), and the activation make them differ.
* `autobiography_update.rs:309` keeps the beginning of the old text and drops its end, what was added last. The comment at
  301 says "Truncate oldest content to fit. Keep the newest content.", and `PLAN.md` 473 likewise.

### Exceptions that the properties state

Some properties hold except in cases the code does not handle; the exception is part of the property, and what
remains is what the code does guarantee:

* `EveryLineAnswered`: when an entry of the replay cache completes and is evicted between the two `begin` calls of the
  wait loop, the second call inserts a new entry that nobody completes, and the line waits for ever with every later
  copy; a copy that registers on a Notify that has already fired waits likewise (`daemon.rs` 388–397).
* `PatchConditional`: a file that is deleted between the two looks of `atomic_write` is put back, and the patch is told
  as applied although it replaced nothing (`filesystem.rs` 610-619, 705); a file written there meanwhile is not replaced.
* `PausedIsRecorded`: a container whose pause was not confirmed after another had been paused, and two requests on a
  workspace of which the first was dropped while its task was still pausing (`runtime.rs` 1318-1330), may leave a
  container paused without a record; a temporary file in the recovery directory keeps the daemon from starting
  (`filesystem.rs` 802).
* `RegistryExact`: a start that is dropped at its deadline while it waits to cancel its reservation (`runtime.rs` 1446,
  1465, 1484) is counted as active until the daemon is restarted.
* `UiServesActive`: two activations may write `active_ui` in the other order than they committed (`ui_api.rs` 854), and a
  handler dropped after its COMMIT, or told that it failed, does not write it at all (853, 971), until the next
  activation or restart.
* `PluginAsApproved` speaks of the artifact, not of the manifest, which is read where the tag is now (see above), and not
  of a staging directory that an extraction brought back after its handler was dropped (`plugin_api.rs` 1793-1810).
* `TerminalPageTrue`: the reading loop does not look at the generation again when its answer arrives (`app.rs` 5199); a
  second click on reconnect is possible; the answer of a close clears the storage of a later terminal. And a
  character that two reads have torn is shown as marks.
* `RateHeld`: a hit counts for the time that it read before it waited for the lock, so of the hits that *pass* in a
  window the limit holds only when the window is cut by the longest such wait; and slots round down by less than a second.
* `RoundReadToItsEnd`: what a payload says and `parse_provider_line` takes nothing from is lost in silence (`chat.rs`
  525-559); the round is read to the line that finishes it, and that is all it says.
* `LearningOnRecord`: the update after a run is unreviewed and may overwrite an edit or an accepted proposal that came
  between its read and its write (`autobiography_update.rs` 32-84). What it overwrote is in the history.
* `GatedByPolicy`: the decision cache is keyed without the profile and is never invalidated (`authorize.rs` 395), so the
  property speaks of decisions that some profile's policy gave since the server started.
* `RequestFits` is about a run that names its model, while that model exists: limits and routes are read apart.

### Observations

Met while modelling; none contradicts a statement of the repository, and no property depends on them. Claims and
the reaper run only while a server has fewer than four executors (`run_api.rs` 576). A denied tool call pushes its
result without the assistant's call before it (1064); a takeover runs the tools of a round again (1079). A book
created in a transaction that overlaps `activate()` may stay without a job of the new model. Deleting an embedding
configuration counts queued and running jobs, not those that wait for a retry. `delete_skill` names a column that
does not exist. Received webhooks have no target and are never delivered. A timed out MCP request makes later
requests on the pooled connection fail, though never with a wrong answer. A terminal read stops at the ended
state although output beyond the read limit may remain.

## 4. What is proved

Every theorem holds for all values of the constants: any number of runs, executors, clients, books, workers,
deliveries, requests, conversations, tasks and servers, any leases, limits and capacities, under the assumptions
below. Each inductive invariant is a conjunction of named parts; the proofs have one step per action and under it
one per part that the action can disturb.

### Assumptions

The typing assumptions (`LeaseAssumption`, `LimitsAssumption`, `EventLogAssumption`, `EmbeddingAssumption`,
`WebhookAssumption` and so on) say that limits are natural numbers and that a run has a profile. Some say more:

* `NullAssumption` (RunEngine): SQL's NULL is no id.
* `ClassAssumption` (SandboxRequests): no operation is in two of the classes that `terminal_mutation` and
  `is_non_idempotent` distinguish.
* `TerminalAssumption` (SandboxTerminal): terminals are finitely many, and none is called `"other"`, the word for
  the sessions of terminals that are not looked at.
* `OutputAssumption` (TerminalOutput): a chunk has room for a byte, as `journal.rs` has it.
* `FilesAssumption` (SandboxFiles): names are finite, and there are inodes enough for the initial tree.
* `VaultAssumption` (VaultKeys): configured key versions are at least 1; `"free"` names no request.
* `SessionsAssumption` (Sessions): ids of sessions are numbers, of which the next is drawn (random UUIDs in the code);
  the limits of failures and attempts are natural numbers.
* `LimiterAssumption` (RateLimiter): the key of the global bucket is the key of no client; a slot is at least one tick;
  windows and limits are natural numbers.
* `PageAssumption` (WebTerminal): no byte is in two characters.
* `RegistryAssumption` (ModelRegistry): no model has the id that stands for "no model"; windows are natural numbers.
* `ContextAssumption` (RunContext), `StreamAssumption` (ProviderStream): sizes, budgets and limits are natural numbers, and
  there is at least one route (`load_routes` fails otherwise) and room for a line.
* `ChatAssumption` (WebChat): "nobody" and "none" are no person and no conversation, and there is somebody.
* `GateAssumption` (ToolGate): the calls that a run is given are calls the server knows or "no such tool".
* `PluginsAssumption` (Plugins): a release is published at least once.
* `LifecycleAssumption`, `ConversationsAssumption`, `LoadsAssumption`: limits are natural numbers.
* `ChunkAssumption` (Library): the overlap of `chunk_text` is less than a chunk, as its two constants are.
* `UiAssumption` (UiPackages): the words for "no package", the built-in page and the recovery page are no ids of packages.
* `BoardAssumption` (TaskBoard): a task belongs to one workspace, which `task_api.rs` never changes; a request names
  states of the enumeration.
* `NoBookForgotten` has the hypothesis `~Seedable`. It is needed: with a seeding server the property fails, which is
  finding 3.

### RunEngine

* `Fencing` (`RunEngineProofs`): `Spec => []FencingInv`, with `TypeCorrect`, `Ownership` and `CancellationWins` as
  consequences, and `TerminalRunsAreFinal`: `Spec => TerminalIsFinal`. `OwnedUntilCommit` says that what a fenced
  transaction checked at `Acquire` is still true at its COMMIT: it alone holds the lock, the row has its token, the
  run is active, not canceled, accessible for `complete_run`. It is not inductive alone. A claim might hand the
  token of an old executor out again, so `RowsOK` is needed: a token is only on active rows, a lease only beside a
  token, and no executor exists of a claim that is still to come. `RowsOK` in turn, and `CancelWins`, need
  ownership: a COMMIT writes the row whose guard was checked a step earlier.
* `TurnsTakenOnce`, `LogsReadAsOneHistory`, `StoredCallsArePublished`, `DeletionIsFinal`, `RevokedGetNoAnswer`
  (`RunEngineProofs`): `TurnsSound`, `EventsInOrder`, `ToolCallsPublished`, `DeletedStaysEmpty`,
  `NoAnswerAfterRevocation`. `Kinds` sums up what a step that writes does to rows, logs and messages, so that the
  invariants need not look at the executors' many steps again. `TurnInv` adds that an active run is about a question
  that is there, that a DELETE under way knows its runs, and that a reply names the run with its submission. `LogInv`
  adds that a log has no events of claims to come, and what an executor has published before it is where it is: the
  reset of a takeover, and the `tool.result` before the unfenced INSERT into `tool_calls`. That INSERT is finding 1;
  the theorem says what remains true in spite of it.
* `AnswersAreAsShown`, `EngineImplementsTurns` (`RunEngineProofs`): the stored answer is what the client saw, and
  the engine implements `ConversationTurns`, step by step. What is shown is the recursive function `Screen` of the
  log; the first part proves by induction over the length that it exists and what one event more does to it, and
  `AnswerInv` relates it to the locals of the executor that holds the run.

### Around it

* `EveryEventOnceInOrder` (`QueueProofs`): `DeliveredAsCommitted`. The argument is about segments: a sequence of
  numbers that is, in order and without a gap, the part of a run's log after some position. The row that commits
  is above every row of its profile, because its transaction holds the lock (`WritersInv`), so no commit breaks a
  segment; what was received, what is in the pipe and the page at hand are segments that follow one another
  (`Position`). That a page is a segment is proved by induction over the numbers drawn.
* `LastClaimDecides` (`QueueProofs`): `OutcomeOfLastClaim`. A claim writes the number of its attempt into row and
  task, so no two tasks of a delivery share a token, no task is ahead of its row, and a row has a token only while
  it runs. A task that passes the fence is then the last claim's.
* `BooksAndJobs`, `NoBookForgotten` (`QueueProofs`): `JobsAndBooksAgree` and, without seeding, `NothingForgotten`.
  `EmbeddingInv` adds what a worker's locals say of the queue; in particular a worker about to cancel its job has
  read another revision than the job's, which is why `cancel_stale` never cancels the job that its own
  `enqueue_book` finds in place.
* `RetriesAreHarmless`, `CacheIsBounded`, `FilesWholeOrUntouched`, `PatchesRecover` (`SandboxProofs`): `OncePerRequest`,
  the bound of the replay cache, `FilesAllOrNothing` and `PatchesRecoverable`, each from the specification of its module;
  `DaemonKeepsItsWord` states the three properties for the composed `Spec` of MCSandbox. `RequestsInv`: an id has one owner at most and its entry is then pending; a
  row is PENDING exactly while its holder works or is gone for good; an outcome that is cached, about to be told or
  told is settled, that is, nothing can change the row it is read from any more. `FilesInv` says of an operation at
  each of its steps which of the two trees, the one before and the one after, is there, as long as no container
  interferes. `WorkspaceInv`: while a task is at work it is the task, in `paused` or in what it has left to resume, that
  knows what is paused, and the record knows it too (`PausesKnown`); a change told as applied has passed `Validate`,
  or was published where nothing was (`SettledTask`). At most one task is still pausing or changing the file
  (`OneChanges`); one that a guard's Drop spawned may go on beside it but only resumes.
* `ToolsAreGated`, `RequestsAreFenced`, `OneKeyForAll`, `ForksAreCopies`, `HistoryIsWritten` (`ServicesProofs`):
  `GatedByPolicy`, `PendingIsFenced`, `OneKeyAfterRotation`, `ForkIsPrefix`, `LedgerIsHistory`. `GateInv`: a decision on its
  way was given for its action, and a decided call has its row. `VaultInv`: what a transaction may rely on at each of
  its locks; one that rotates has every secret of another key in its rows. `ConvInv`: what the fork's row lock
  keeps true of the source (messages are only appended), and that the rows it copied are the source's first ones.
  `BoardInv`: under the workspace's lock the rows a transaction read are the rows it writes; numbers are unique and
  grow, so what is about to be written is later than all that was; `TaskHistory` reads row by row what the ledger's
  last event says.
* `LearningIsOnRecord` (`ApprovalProofs`, `CompositeProofs`): `LearningOnRecord`. `SkillsInv`: a skill for which an administrator chose a
  revision keeps an active one, and `CanAutoPromoteOver` is transitive (a comparison of success rates as products of
  naturals), so that a chain of automatic promotions is never worse than its start. `AutobiographyInv` gives every
  proposal its place in the history of the text: what was accepted is the revision after the one it was made of.
* `PackagesAreApproved` (`ApprovalProofs`, `CompositeProofs`): `PackagesAsApproved`. `PluginInv`: what an install or an installation has at
  hand at each of its awaits was shown with its digest (`AllShown`); what an operation that holds the row verified is
  still so when it commits (`PinHolds`), and the row, its installation and the companion book agree (`RowsAgree`). `UiInv`:
  `active_ui` follows the active row as long as no two requests have overtaken one another.
* `EndedStayEnded` (`ApprovalProofs`, `CompositeProofs`): `SignInsHeld`. A session that ended is deleted, revoked, expired or of an older
  epoch, and it stays so: the epoch only grows, no session and no login on its way is of an epoch to come
  (`EpochsPast`), and a new session takes an id that nobody has.
* `AnswersAreFenced` (`ServicesProofs`, `CompositeProofs`): `McpAnswersFenced`. `PoolInv`: the ids of the requests on a
  connection count its calls (`IdsCounted`), because a connection that is not yet in the pool is its maker's alone
  (`MakersAlone`) and nobody uses one that was killed (`UsedRuns`); so who asked is recorded under the id that a caller
  waits for, and under the id of the answer that it took (`AskedOwn`).
* `LibraryIsConsistent` (`ServicesProofs`, `CompositeProofs`): `LibraryConsistent`. That chunks cover the text and overlap is
  a fact about the set of starts: take the greatest start at or before a character, and the next one is beyond its end
  only if there is no next one. `RightsAgree` compares the four spellings case by case over what a row may
  be (`WrittenRow`), and a search that nothing disturbed with what is listed (`SearchStands`).

* `TerminalRecords`, `EndedStaysEnded`, `OutputReadsAsStream`, `CallsLogged`, `PageTold` (`TerminalProofs`), and `RecordsAreTrue` and
  `NoTerminalRevived`, which state `TerminalRecordsTrue` and `NeverRevived` of the composed daemon. `TerminalInv` has what the tasks
  about one terminal know of each other (`TasksFit`), where its bytes and inputs are (`OutputFits`, `InputFits`), and the
  registry (`RegistryFits`). The counts of active sessions are exact because a session holds its place (`Holding`) from
  its reservation to its release and at no other time (`CountsFit`); a start that was dropped while it waited to cancel
  holds its place for good. `OutputInv`: the bytes that nobody has acknowledged are
  kept (`KeptInv`), and a reader that waits although there is something to read has been woken, or the task that will wake
  it has not yet passed that point (`WokenSoon`). `CallsInv` says of a call at each of its steps whether the daemon has carried
  it out. `PageInv`: the screen of an open terminal is its output up to the cursor, read by read (`Shown`), and it has exactly one loop unless it
  ended or its loop was lost (`ScreenFits`); a button is off exactly while one task of its kind works (`ButtonsFit`).
* `DaemonShapes` (`SandboxProofs`): `SandboxTypeOK`, the type invariant of the composed daemon, with the limits in it.
* `ChatIsTrue` (`ApprovalProofs`) and `ChatPageIsTrue` (`CompositeProofs`): `ChatPageTrue`. `ChatInv` relates the page to the tasks under
  way: a task is no younger than the page and what it was answered is about its conversation (`ChatTaskFits`); for each thing
  the page waits for there is exactly one task that carries the current generation and conversation, and the text on the
  screen is what the events up to that task's cursor make (`WaitsForTasks`); what is shown belongs to the selection
  (`ShowsSelection`), and the tab has stored it (`StoredFits`). A click that starts something new moves the generation, after
  which no task is current; that is what makes late answers harmless. Pages of events compose: what two pages make one
  after the other is what their union makes.
* `RateIsHeld` (`GatewayProofs`): `RateHeld`. Slots are rounded down to whole seconds, pruned, and pushed in any order of
  their times, so what the slots count and what was admitted are different sets. `BucketFits`: for every window that begins
  now or later, the slots inside it count at least the admitted hits whose slot is inside it; no slot is ahead of the clock
  (`SlotsFit`). The slots are not in order and nothing needs them to be: a hit that is late keeps more of them, not fewer.
  `PassedFit` says that no admitted hit waited longer than `waited`, from which the bound by the time of passing follows.
* `RequestsFit` (`GatewayProofs`): `RequestFits`. `RegistryInv` has what the handlers keep of the tables (fallbacks exist, do not
  repeat and do not name the model itself), and `TurnFits` that the budget fits the window of the model and of every fallback
  it still has, then of every route that was loaded, then of the one that answers.
  `execute_inner` reads the row once (`ReadRow`) and keeps the model it names; a deletion clears it in the row of a run
  that is still queued. Fallbacks can only get fewer.
* `ContextsAreBest` (`GatewayProofs`): `ContextFits`. `NewestKept` and `EnoughKept` say that what is kept of the conversation is a
  suffix and the longest one that two thirds of the budget hold; `OffersBuilt`, that what was left out did not fit beside
  what has its priority or a higher one. The fold of `build_context` (`Chosen`) takes the offers in descending priority, and
  its facts are proved by induction over how far it has come.
* `RoundsReadToTheEnd` (`GatewayProofs`): `RoundReadToItsEnd`. `StreamInv`: until the stream is over, what the parsed lines
  yield is what the round has seen, then what is queued for it, then the data lines that wait for their blank line
  (`OnItsWay`); a stream that is over has an error at the head of its queue, or what was seen and is queued ends an answer
  that was finished (`OverWell`). A chunk boundary only moves the border between these three.
* `LimitsAreHeld`, `OthersKeepTheirWord`, `ServicesShapes` (`CompositeProofs`): the properties above for the composed services, and
  their type invariant `ServicesTypeOK`. The type invariants hold limits and cross references that are not types, and each of
  those needed its own strengthening: the key state is 0 or a server's key (`KeyOfServer`); pins name conversations and books
  that are there (`ConvStands`); a transaction that writes has read its user's right (`EditorsWrite`); loads add up and embedded
  revisions are not ahead of the book (`LibraryCounts`); only an account that exists is locked or being logged in
  (`LoginsCounted`); bodies of the autobiography, of proposals and of updates under way are within their limit (`BookBodies`).

### What proving changed

TLC takes the first arm of a CASE whose guard is true; the logic takes any. Proofs that did not go through for this
reason found overlapping arms in `EmbeddingJobs`, `ProviderStream`, `McpWire`, `SandboxRequests` and `SandboxTerminal`. They
are now disjoint, in the order the code tests its conditions. The assumptions above that are not typing were
likewise found missing by a proof.
`SignInsHeld` used to contain `RateHeld`; it now is one statement about sessions, and the rate is with the other limits in
`LimitsHeld`.

The prover does not have the definitions of `SelectSeq`, `FoldLeft` or `SortSeq`. Where a model used them, it now has a recursive
function of how far the list was read (`Picked` in `ListOps`, `Chosen` in RunContext, `WithoutSession` in SandboxTerminal,
`Streamed` and `Transcript` in WebChat) or says what the result is (`Orders` in ModelRegistry: an arrangement in which no route
comes before one that the code's comparison puts first). What each of these computes is the same.

### Only model-checked

* Liveness (`EveryRunEnds`, `CancelTakesEffect`, `JobsSettle`, `EverythingArrives`, `PollingStops`, `DeliveriesSettle`,
  `EveryLineAnswered`, `TerminalsEnd`): these need fairness and ENABLED, which the prover does not handle.
* That the mutants are caught, and that the three findings are reached.

Every invariant and action property of the passing runs, and the refinement, is stated by a theorem. Facts about what a
recursive function computes (`Picked`, `Chosen`, `Screen`, `Streamed`, `Transcript`, `SumFunction`, `WithoutSession`) are
proved by least counterexample over the sets of natural numbers (`WFMin`), one function at a time: a lemma that takes the
function's step as an operator parameter cannot be instantiated by the installed provers.

## 5. Not modelled, and limits

Not modelled: rendering, and the pages of the web client that are forms over single requests; URL parsing and
address ranges of outbound HTTP; server start, configuration and diagnostics (wiring and read-only requests);
single sign-on (behind a cargo feature that is off); the text heuristics of the task router; the recovery tool;
cryptography; podman's command lines, mounts, networks and path resolution (operating-system behaviour); SQL
ranking and vector distance; schemas, endpoints and tokens of MCP beyond the classes in `McpWire`; catalogue
search and artifact upload of plugins; `create_configuration` and `delete_configuration` of embeddings; the file
pane of the terminals page.

What the theorems do not say. They are about the specifications of single components and about the sums MCSandbox
and MCServices, whose parts do not share rows; the assumptions that one component makes about another (EventLog's guard that
nothing is appended to a terminal run, the server that WebChat and WebTerminal see) are stated in the modules and proved
on the other side where that side is modelled (`TerminalRunsAreFinal`, `EveryEventOnceInOrder`, `OutputReadsAsStream`), not
composed. The bounds `Max...` are constants like the others: the theorems hold for every value of them, not only for those of
the runs. Liveness is checked by TLC alone, on the instances of section 3.
Leaks and overwritten files, slots out of order, torn characters, dropped handlers and mute payloads were first left out,
and the properties that they weaken were stronger then than the code. They are now in the models, and the properties
say what the code keeps in spite of them.
