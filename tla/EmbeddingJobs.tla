--------------------------- MODULE EmbeddingJobs ---------------------------
(***************************************************************************)
(* The embedding queue of gobrowse-server: embedding.rs, the handlers of   *)
(* embedding_api.rs that share its rows and the book edits of              *)
(* library_api.rs that feed it.                                            *)
(*                                                                         *)
(* One book is modelled; jobs of different books share nothing.  Every     *)
(* edit gives the book a new revision with new chunks and queues a job for *)
(* the profile's active model.  A worker claims a job under a lease token, *)
(* reads the revision and the chunks, asks the provider for vectors, which *)
(* takes long, and publishes them in one transaction if it still holds the *)
(* lease and the book still has the revision.  A token is the number of    *)
(* the claim (a random UUID in the code), 0 is NULL.                       *)
(***************************************************************************)
EXTENDS Integers, Sequences

CONSTANTS
  Models,        \* embedding models of the profile
  Workers,       \* run_worker loops, of any number of servers
  MaxAttempts,   \* max_attempts of a job
  Batches,       \* provider requests one book needs
  DefaultModel,  \* the model seed_default_embedding_model knows
  Seedable,      \* the server has the key that seeding needs
  MaxRevision,   \* bound: revisions of the book
  MaxActivations,\* bound: changes of the active model
  MaxRetries,    \* bound: retry_job requests
  MaxCrashes     \* bound: crashes and failed statements of the workers' loops

ASSUME EmbeddingAssumption ==
  /\ MaxAttempts \in Nat \ {0} /\ Batches \in Nat \ {0}
  /\ DefaultModel \in Models /\ Seedable \in BOOLEAN
  /\ MaxRevision \in Nat \ {0} /\ MaxActivations \in Nat
  /\ MaxRetries \in Nat /\ MaxCrashes \in Nat

VARIABLES
  book,        \* [rev, status, model]: revision, embedding_status and
               \* embedding_model_id of the row of books
  vectors,     \* vectors[m]: the revision whose chunks have vectors of m, or 0
  active,      \* active_embedding_model_id of the profile
  jobs,        \* the rows of embedding_jobs, oldest first
  worker,      \* worker[w]: where a worker is, and its locals
  activation,  \* an activate() that skipped the book: its model and the
               \* revision its INSERT saw
  seeding,     \* a seed_default_embedding_model that found no active model
  activations, \* changes of the active model so far
  retries,     \* retry_job requests so far
  crashes      \* crashes and failed statements so far

embeddingVars == <<book, vectors, active, jobs, worker, activation, seeding,
                 activations, retries, crashes>>
counters == <<activations, retries, crashes>>

None == "none"
ActiveStatuses == {"queued", "running", "retry"}

Job(m, rev) == [model |-> m, rev |-> rev, status |-> "queued", attempts |-> 0,
                claims |-> 0, token |-> 0, live |-> FALSE]

IsActive(row) == row.status \in ActiveStatuses
Covered(m, rev) ==
  \E j \in DOMAIN jobs : jobs[j].model = m /\ jobs[j].rev = rev /\ IsActive(jobs[j])

\* Mutant: the index leaves out the revision.
EnqueuedPerModel(queue, m, rev) ==
  IF m = None \/ \E old \in DOMAIN jobs : jobs[old].model = m /\ IsActive(jobs[old])
  THEN queue ELSE Append(queue, Job(m, rev))
\* enqueue_book: one row, unless no model is active or the index
\* one_active_embedding_job_per_revision has one
Enqueued(queue, m, rev) ==
  IF m = None \/ Covered(m, rev) THEN queue ELSE Append(queue, Job(m, rev))

\* The locals of a worker: the claimed job with its token and attempts, the
\* revision and chunks read, the batches left, what now() said of the lease,
\* the books still to be marked failed
NoJob == [pc |-> "scan", job |-> 0, token |-> 0, attempts |-> 0, seen |-> 0,
         chunks |-> 0, left |-> 0, live |-> FALSE, lost |-> {}]

\* A book as create_book leaves it, one embedded by the active model, or one
\* embedded by another before the active one was activated
EmbeddingInit ==
  /\ active \in Models \cup {None}
  /\ \E m \in IF active = None THEN {None} ELSE Models \cup {None} :
       /\ book = [rev |-> 1, model |-> m,
                  status |-> CASE m = None -> "pending"
                               [] m # None /\ m = active -> "ready"
                               [] OTHER -> "stale"]
       /\ vectors = [n \in Models |-> IF n = m THEN 1 ELSE 0]
       /\ jobs = IF active = m THEN << >> ELSE <<Job(active, 1)>>
  /\ worker = [w \in Workers |-> NoJob]
  /\ activation = {}
  /\ seeding = FALSE
  /\ activations = 0 /\ retries = 0 /\ crashes = 0

----------------------------------------------------------------------------
(* Requests *)

\* The row after an edit.  Mutant: the status is left alone.
EditedInPlace == [book EXCEPT !.rev = @ + 1]
Edited == [book EXCEPT !.rev = @ + 1, !.status = "stale"]

\* update_book, replace_book_body and replace_book_snapshot: the old chunks go
\* and take their vectors with them
Edit ==
  /\ book.rev < MaxRevision
  /\ book' = Edited
  /\ vectors' = [m \in Models |-> 0]
  /\ jobs' = Enqueued(jobs, active, book.rev + 1)
  /\ UNCHANGED <<active, worker, activation, seeding, counters>>

\* activate(): the UPDATE of books waits for the book's row unless the row it
\* sees already carries the model; then edits and publications may come between
\* that statement and the COMMIT.
Activate(m) ==
  /\ activations < MaxActivations /\ activation = {}
  /\ IF book.model # m
     THEN /\ active' = m
          /\ book' = [book EXCEPT !.status = "stale"]
          /\ jobs' = Enqueued(jobs, m, book.rev)
          /\ UNCHANGED activation
     ELSE /\ activation' = {[model |-> m, rev |-> book.rev]}
          /\ UNCHANGED <<active, book, jobs>>
  /\ activations' = activations + 1
  /\ UNCHANGED <<vectors, worker, seeding, retries, crashes>>

CommitActivation(a) ==
  /\ active' = a.model
  /\ jobs' = Enqueued(jobs, a.model, a.rev)
  /\ activation' = activation \ {a}
  /\ UNCHANGED <<book, vectors, worker, seeding, counters>>

\* seed_default_embedding_model, after a run or from list_configurations: it
\* looks for an active model, creates the default one and activates it
FindNoModel ==
  /\ Seedable /\ active = None /\ ~seeding /\ activations < MaxActivations
  /\ seeding' = TRUE
  /\ activations' = activations + 1
  /\ UNCHANGED <<book, vectors, active, jobs, worker, activation, retries, crashes>>

ActivateDefault ==
  /\ seeding /\ activation = {}
  /\ active' = DefaultModel
  /\ seeding' = FALSE
  /\ UNCHANGED <<book, vectors, jobs, worker, activation, counters>>

\* What retry_job takes
Retryable(j) == jobs[j].status \in {"failed", "canceled"}

RetryJob(j) ==
  /\ retries < MaxRetries
  /\ Retryable(j) /\ ~Covered(jobs[j].model, jobs[j].rev)
  /\ jobs' = [jobs EXCEPT ![j].status = "retry", ![j].attempts = 0]
  /\ retries' = retries + 1
  /\ UNCHANGED <<book, vectors, active, worker, activation, seeding, activations, crashes>>

----------------------------------------------------------------------------
(* A worker's loop: reclaim_expired, claim, process, record_failure *)

At(w, pc) == worker[w].pc = pc
Set(w, locals) == worker' = [worker EXCEPT ![w] = locals]
Goto(w, pc) == Set(w, [worker[w] EXCEPT !.pc = pc])
JobOf(w) == jobs[worker[w].job]

\* WHERE id=$1 AND lease_token=$2
Holds(w) == JobOf(w).token = worker[w].token

\* status=..., lease_owner=NULL, lease_token=NULL, lease_expires_at=NULL
JobDropped(j, status) ==
  [jobs EXCEPT ![j].status = status, ![j].token = 0, ![j].live = FALSE]

\* The clock
Expire(j) ==
  /\ jobs[j].live
  /\ jobs' = [jobs EXCEPT ![j].live = FALSE]
  /\ UNCHANGED <<book, vectors, active, worker, activation, seeding, counters>>

ExpiredJobs == {j \in DOMAIN jobs : jobs[j].status = "running" /\ ~jobs[j].live}

\* The jobs whose worker is gone for good.  Mutant: the last attempt is kept.
ExhaustedBeyond == {j \in ExpiredJobs : jobs[j].attempts > MaxAttempts}
Exhausted == {j \in ExpiredJobs : jobs[j].attempts >= MaxAttempts}

\* reclaim_expired is three statements: fail what has no attempt left ...
ReclaimExhausted(w) ==
  /\ At(w, "scan")
  /\ jobs' = [j \in DOMAIN jobs |-> IF j \in Exhausted THEN JobDropped(j, "failed")[j]
                                    ELSE jobs[j]]
  /\ Set(w, [NoJob EXCEPT !.pc = "fail_books", !.lost = Exhausted])
  /\ UNCHANGED <<book, vectors, active, activation, seeding, counters>>

\* ... mark their books ...
MarkFailed(j) ==
  book' = IF book.rev = jobs[j].rev /\ active = jobs[j].model
          THEN [book EXCEPT !.status = "failed"] ELSE book

FailBooks(w) ==
  /\ At(w, "fail_books")
  /\ \E j \in worker[w].lost :
       /\ MarkFailed(j)
       /\ Set(w, [worker[w] EXCEPT !.lost = @ \ {j}])
  /\ UNCHANGED <<vectors, active, jobs, activation, seeding, counters>>

\* ... and queue the others again
ReclaimOthers(w) ==
  /\ At(w, "fail_books") /\ worker[w].lost = {}
  /\ jobs' = [j \in DOMAIN jobs |->
               IF j \in ExpiredJobs /\ jobs[j].attempts < MaxAttempts
               THEN JobDropped(j, "retry")[j] ELSE jobs[j]]
  /\ Goto(w, "claim")
  /\ UNCHANGED <<book, vectors, active, activation, seeding, counters>>

Claimable(j) == /\ jobs[j].status \in {"queued", "retry"}
                /\ jobs[j].attempts < MaxAttempts

\* claim; with nothing to claim the worker sleeps and scans again
Claim(w) ==
  /\ At(w, "claim")
  /\ \/ \E j \in DOMAIN jobs :
          /\ Claimable(j)
          /\ jobs' = [jobs EXCEPT ![j].status = "running", ![j].attempts = @ + 1,
                                  ![j].claims = @ + 1, ![j].token = jobs[j].claims + 1,
                                  ![j].live = TRUE]
          /\ Set(w, [NoJob EXCEPT !.pc = "revision", !.job = j,
                                 !.token = jobs[j].claims + 1,
                                 !.attempts = jobs[j].attempts + 1])
     \/ /\ ~\E j \in DOMAIN jobs : Claimable(j)
        /\ Set(w, NoJob)
        /\ UNCHANGED jobs
  /\ UNCHANGED <<book, vectors, active, activation, seeding, counters>>

\* process: the revision, then the chunks, in two statements
ReadRevision(w) ==
  /\ At(w, "revision")
  /\ Set(w, [worker[w] EXCEPT !.seen = book.rev,
                              !.pc = IF book.rev = JobOf(w).rev THEN "chunks" ELSE "stale"])
  /\ UNCHANGED <<book, vectors, active, jobs, activation, seeding, counters>>

\* cancel_stale: the job, if it is still held, and a job for the revision seen
CancelStale(w) ==
  LET canceled == IF Holds(w) THEN JobDropped(worker[w].job, "canceled") ELSE jobs IN
  /\ At(w, "stale")
  /\ jobs' = Enqueued(canceled, active, worker[w].seen)
  /\ Set(w, NoJob)
  /\ UNCHANGED <<book, vectors, active, activation, seeding, counters>>

ReadChunks(w) ==
  /\ At(w, "chunks")
  /\ Set(w, [worker[w] EXCEPT !.chunks = book.rev, !.left = Batches, !.pc = "batch"])
  /\ UNCHANGED <<book, vectors, active, jobs, activation, seeding, counters>>

\* renew_lease, which a lost or expired lease refuses
LeaseRenewed(w) == Holds(w) /\ JobOf(w).live

\* renew_lease and one batch; the extended lease may expire before it is done
EmbedBatch(w) ==
  /\ At(w, "batch") /\ LeaseRenewed(w)
  /\ Set(w, [worker[w] EXCEPT !.left = @ - 1,
                              !.pc = IF worker[w].left > 1 THEN "batch" ELSE "begin"])
  /\ UNCHANGED <<book, vectors, active, jobs, activation, seeding, counters>>

\* BEGIN of the publication, which fixes now()
BeginPublish(w) ==
  /\ At(w, "begin")
  /\ Set(w, [worker[w] EXCEPT !.live = Holds(w) /\ JobOf(w).live, !.pc = "publish"])
  /\ UNCHANGED <<book, vectors, active, jobs, activation, seeding, counters>>

\* The lease and the revision, under the locks of the book and of the job
MayPublish(w) == Holds(w) /\ worker[w].live /\ JobOf(w).rev = book.rev

\* Vectors, job and book in one transaction.  Chunks of an older revision are
\* gone and their vectors refused.  The answer to COMMIT may be lost.
Publish(w, ack) ==
  LET m == JobOf(w).model IN
  /\ At(w, "publish") /\ MayPublish(w) /\ worker[w].chunks = book.rev
  /\ vectors' = [vectors EXCEPT ![m] = book.rev]
  /\ jobs' = JobDropped(worker[w].job, "completed")
  /\ book' = IF active = m THEN [book EXCEPT !.status = "ready", !.model = m] ELSE book
  /\ IF ack THEN Set(w, NoJob) ELSE Goto(w, "failure")
  /\ UNCHANGED <<active, activation, seeding, counters>>

\* An error of process: the lease is lost, the provider fails, the
\* configuration is gone, the database does not answer
ProcessFails(w) ==
  /\ worker[w].pc \in {"revision", "stale", "chunks", "batch", "begin", "publish"}
  /\ Goto(w, "failure")
  /\ UNCHANGED <<book, vectors, active, jobs, activation, seeding, counters>>

\* record_failure: the job, while it is held, then the book in a second
\* statement when the failure is final
RecordFailure(w, retryable) ==
  LET final == ~retryable \/ worker[w].attempts >= MaxAttempts IN
  /\ At(w, "failure")
  /\ IF Holds(w)
     THEN /\ jobs' = JobDropped(worker[w].job, IF final THEN "failed" ELSE "retry")
          /\ IF final THEN Goto(w, "fail_book") ELSE Set(w, NoJob)
     ELSE Set(w, NoJob) /\ UNCHANGED jobs
  /\ UNCHANGED <<book, vectors, active, activation, seeding, counters>>

FailBook(w) ==
  /\ At(w, "fail_book")
  /\ MarkFailed(worker[w].job)
  /\ Set(w, NoJob)
  /\ UNCHANGED <<vectors, active, jobs, activation, seeding, counters>>

\* reclaim_expired fails, is logged, and the loop goes on to claim
ReclaimFails(w) ==
  /\ worker[w].pc \in {"scan", "fail_books"} /\ crashes < MaxCrashes
  /\ Set(w, [NoJob EXCEPT !.pc = "claim"])
  /\ crashes' = crashes + 1
  /\ UNCHANGED <<book, vectors, active, jobs, activation, seeding, activations, retries>>

\* claim or record_failure fails and is logged, or the process dies and
\* another one starts: what the worker was about to do is not done.
Restart(w) ==
  /\ worker[w] # NoJob /\ crashes < MaxCrashes
  /\ Set(w, NoJob)
  /\ crashes' = crashes + 1
  /\ UNCHANGED <<book, vectors, active, jobs, activation, seeding, activations, retries>>

----------------------------------------------------------------------------

Request ==
  \/ Edit
  \/ \E m \in Models : Activate(m)
  \/ FindNoModel \/ ActivateDefault
  \/ \E a \in activation : CommitActivation(a)
  \/ \E j \in DOMAIN jobs : RetryJob(j)

Loop(w) ==
  \/ ReclaimExhausted(w) \/ FailBooks(w) \/ ReclaimOthers(w) \/ Claim(w)
  \/ ReadRevision(w) \/ CancelStale(w) \/ ReadChunks(w) \/ EmbedBatch(w)
  \/ BeginPublish(w) \/ \E ack \in BOOLEAN : Publish(w, ack)
  \/ ProcessFails(w) \/ \E retryable \in BOOLEAN : RecordFailure(w, retryable)
  \/ FailBook(w)

EmbeddingNext ==
  \/ Request
  \/ \E w \in Workers : Loop(w) \/ ReclaimFails(w) \/ Restart(w)
  \/ \E j \in DOMAIN jobs : Expire(j)

EmbeddingSpec == EmbeddingInit /\ [][EmbeddingNext]_embeddingVars

\* The clock goes on and so do the workers, which start again when they die:
\* every wait of process has a timeout.
EmbeddingFairness ==
  /\ \A w \in Workers : WF_embeddingVars(Loop(w))
  /\ WF_embeddingVars(\E j \in DOMAIN jobs : Expire(j))

----------------------------------------------------------------------------
(* Properties *)

\* Books, jobs and workers are of the shapes the tables and the locals have,
\* and a job is running exactly when it has a lease token
\* (embedding_jobs_lease_check, which would refuse the UPDATE otherwise).
EmbeddingTypeOK ==
  /\ book \in [rev : Nat \ {0}, status : {"pending", "stale", "ready", "failed"},
               model : Models \cup {None}]
  /\ vectors \in [Models -> Nat]
  /\ active \in Models \cup {None}
  /\ jobs \in Seq([model : Models, rev : Nat \ {0},
                   status : ActiveStatuses \cup {"completed", "failed", "canceled"},
                   attempts : 0..MaxAttempts, claims : Nat, token : Nat, live : BOOLEAN])
  /\ \A j \in DOMAIN jobs : (jobs[j].token # 0) = (jobs[j].status = "running")
  /\ \A w \in Workers :
       /\ worker[w].job \in {0} \cup DOMAIN jobs
       /\ worker[w].lost \subseteq DOMAIN jobs
  /\ activation \subseteq [model : Models, rev : Nat \ {0}]
  /\ seeding \in BOOLEAN

\* A book that says "ready" has vectors of its current text for the model it
\* names, whatever edits, activations and late workers did in between
\* (process, update_book, activate).
ReadyIsCurrent == book.status = "ready" => vectors[book.model] = book.rev

\* Both: a claimed job has its lease, and a ready book its vectors.
JobsAndBooksAgree == EmbeddingTypeOK /\ ReadyIsCurrent

\* While a model is active and the current text has no vectors of it, a job of
\* that model is under way, or failed and waits for retry_job: no interleaving
\* of edits, activations, stale jobs and crashes loses the book (enqueue_book,
\* cancel_stale, activate).
NothingForgotten ==
  active # None /\ vectors[active] # book.rev =>
    \E j \in DOMAIN jobs : /\ jobs[j].model = active
                           /\ IsActive(jobs[j]) \/ jobs[j].status = "failed"

\* docs/library.md: "An embedding model change marks affected vectors stale
\* and schedules re-embedding."
ModelChangeSchedules ==
  [][active' # active /\ vectors'[active'] # book'.rev =>
       \E j \in DOMAIN jobs' : jobs'[j].model = active' /\ IsActive(jobs'[j])]_embeddingVars

\* Every queued job comes to an end, through crashes, lost leases and failing
\* providers, and so does every job queued in its place (reclaim_expired,
\* record_failure, cancel_stale).
JobsSettle ==
  EmbeddingFairness =>
    (\E j \in DOMAIN jobs : IsActive(jobs[j])) ~> (\A j \in DOMAIN jobs : ~IsActive(jobs[j]))
=============================================================================
