-------------------------- MODULE WebhookDelivery --------------------------
(***************************************************************************)
(* Webhook deliveries: receive_webhook (webhooks.rs) records what arrives, *)
(* and the scheduler (webhook_scheduler.rs) sends the rows that have a     *)
(* target.  Each server runs one scheduler: a scan is three statements of  *)
(* their own (the two of recover_stuck_deliveries and claim_deliveries),   *)
(* and every claimed row becomes a task that posts and then records what   *)
(* it got, under the token of its claim.                                   *)
(***************************************************************************)
EXTENDS Naturals, FiniteSets

CONSTANTS Deliveries,
          Schedulers,       \* servers that run the worker
          max_attempts,     \* features.webhook_scheduler_max_attempts
          MAX_CONCURRENT,
          MaxSchedulerCrashes,  \* bound: crashes of a server
          MaxPersistFaults  \* bound: statements that fail

ASSUME WebhookAssumption == max_attempts \in Nat \ {0} /\ MAX_CONCURRENT \in Nat \ {0}

VARIABLES delivery,   \* delivery[d]: the row, status "absent" when there is none
          tasks,      \* tasks[w]: the tasks of the JoinSet of a scheduler
          scan,       \* scan[w]: the statement the scan is at
          answers,    \* answers[d][n]: what the n-th claim of d got
          whFaults, whCrashes

whvars == <<delivery, tasks, scan, answers, whFaults, whCrashes>>

\* The token of a claim is fresh; the number of the attempt names it.
NoDelivery == [status |-> "absent", target |-> FALSE, attempts |-> 0,
               lease_token |-> 0, live |-> FALSE, due |-> FALSE]

WebhookInit ==
    /\ delivery = [d \in Deliveries |-> NoDelivery]
    /\ tasks = [w \in Schedulers |-> {}] /\ scan = [w \in Schedulers |-> "idle"]
    /\ answers = [d \in Deliveries |-> [n \in 1 .. max_attempts |-> "none"]]
    /\ whFaults = 0 /\ whCrashes = 0

Status(d)  == delivery[d].status
DeliverySettled(d) == Status(d) \in {"succeeded", "failed", "dead"}

-----------------------------------------------------------------------------
\* Headers, webhook row, clock skew and signature are one verdict.
Verified == {"signed"}

\* ON CONFLICT DO NOTHING: a second request with the id finds the row.  The
\* row has no target_url, so the scheduler never takes it.
ReceiveWebhook(d, verdict) ==
    /\ verdict \in Verified /\ Status(d) = "absent"
    /\ delivery' = [delivery EXCEPT ![d] = [NoDelivery EXCEPT !.status = "accepted", !.due = TRUE]]
    /\ UNCHANGED <<tasks, scan, answers, whFaults, whCrashes>>

\* Rows with a target are written by operators and by other programs.
Enqueue(d) ==
    /\ Status(d) = "absent"
    /\ delivery' = [delivery EXCEPT ![d] = [NoDelivery EXCEPT !.status = "queued",
                                                !.target = TRUE, !.due = TRUE]]
    /\ UNCHANGED <<tasks, scan, answers, whFaults, whCrashes>>

-----------------------------------------------------------------------------
Fault == whFaults < MaxPersistFaults /\ whFaults' = whFaults + 1

\* scan.tick(), if tasks.len() < MAX_CONCURRENT
Tick(w) ==
    /\ scan[w] = "idle" /\ Cardinality(tasks[w]) < MAX_CONCURRENT
    /\ scan' = [scan EXCEPT ![w] = "bury"]
    /\ UNCHANGED <<delivery, tasks, answers, whFaults, whCrashes>>

Expired(d) == Status(d) = "running" /\ ~delivery[d].live

\* First statement of recover_stuck_deliveries: out of attempts.  When it
\* fails the second one is not tried, and the scan goes on to claim.
\* Mutant: the row of a crashed last attempt is left running.
BuryNothing(w) ==
    /\ scan[w] = "bury" /\ scan' = [scan EXCEPT ![w] = "requeue"]
    /\ UNCHANGED <<delivery, tasks, answers, whFaults, whCrashes>>
BuryExpired(w) ==
    /\ scan[w] = "bury"
    /\ \/ /\ delivery' = [d \in Deliveries |->
                IF Expired(d) /\ delivery[d].attempts >= max_attempts
                THEN [delivery[d] EXCEPT !.status = "dead", !.lease_token = 0, !.due = FALSE]
                ELSE delivery[d]]
          /\ scan' = [scan EXCEPT ![w] = "requeue"] /\ UNCHANGED whFaults
       \/ Fault /\ scan' = [scan EXCEPT ![w] = "claim"] /\ UNCHANGED delivery
    /\ UNCHANGED <<tasks, answers, whCrashes>>

RequeueExpired(w) ==
    /\ scan[w] = "requeue"
    /\ \/ /\ delivery' = [d \in Deliveries |->
                IF Expired(d) /\ delivery[d].attempts < max_attempts
                THEN [delivery[d] EXCEPT !.status = "queued", !.lease_token = 0, !.due = TRUE]
                ELSE delivery[d]]
          /\ UNCHANGED whFaults
       \/ Fault /\ UNCHANGED delivery
    /\ scan' = [scan EXCEPT ![w] = "claim"]
    /\ UNCHANGED <<tasks, answers, whCrashes>>

ClaimableDeliveries ==
    {d \in Deliveries : Status(d) \in {"queued", "accepted"} /\ delivery[d].due /\ delivery[d].target}

\* LIMIT: as many as the JoinSet has room for.  Rows that another claim holds
\* are skipped (SKIP LOCKED); they are that claim's.
ClaimDeliveries(w, claimed) ==
    /\ scan[w] = "claim"
    /\ claimed \subseteq ClaimableDeliveries
    /\ LET limit == MAX_CONCURRENT - Cardinality(tasks[w]) IN
          \/ Cardinality(claimed) = limit
          \/ claimed = ClaimableDeliveries /\ Cardinality(claimed) < limit
    /\ delivery' = [d \in Deliveries |->
          IF d \in claimed
          THEN [delivery[d] EXCEPT !.status = "running", !.attempts = @ + 1, !.due = FALSE,
                                   !.lease_token = delivery[d].attempts + 1, !.live = TRUE]
          ELSE delivery[d]]
    /\ tasks' = [tasks EXCEPT ![w] = @ \cup
          {[d |-> d, token |-> delivery[d].attempts + 1, got |-> "none"] : d \in claimed}]
    /\ scan' = [scan EXCEPT ![w] = "idle"]
    /\ UNCHANGED <<answers, whFaults, whCrashes>>

-----------------------------------------------------------------------------
\* Scheme, user info, fragment, host, and addresses that are all public; a
\* name that does not resolve is denied like them.
TargetVerdicts == {"allowed", "denied"}
ResolveTarget(t, verdict) == t.got = "none" /\ verdict \in TargetVerdicts
\* What the transport brings back: an answer of some class, or an error.
SendResults == {"2xx", "408 429 5xx", "other status", "timeout", "connection"}
Outcome(verdict, sent) ==
    CASE verdict = "denied" -> "permanent"
      [] verdict = "allowed" /\ sent = "2xx" -> "success"
      [] verdict = "allowed" /\ sent = "other status" -> "permanent"
      [] OTHER -> "retryable"
Outcomes == {Outcome(v, r) : v \in TargetVerdicts, r \in SendResults}

DeliverOne(w, t, outcome) ==
    /\ t \in tasks[w]
    /\ \E verdict \in TargetVerdicts, sent \in SendResults :
          ResolveTarget(t, verdict) /\ outcome = Outcome(verdict, sent)
    /\ tasks' = [tasks EXCEPT ![w] = (@ \ {t}) \cup {[t EXCEPT !.got = outcome]}]
    /\ answers' = [answers EXCEPT ![t.d][t.token] = outcome]
    /\ UNCHANGED <<delivery, scan, whFaults, whCrashes>>

\* Mutant: an outcome is written without the token of its claim.
FenceByStatus(t) == Status(t.d) = "running"
OutcomeFence(t) ==
    Status(t.d) = "running" /\ delivery[t.d].lease_token = t.token /\ delivery[t.d].live

\* Where the outcome takes the row; the attempts are those of the claim.
StatusAfter(t) ==
    CASE t.got = "success" -> "succeeded"
      [] t.got = "permanent" -> "failed"
      [] t.got = "retryable" -> IF t.token >= max_attempts THEN "dead" ELSE "queued"

\* A retry is queued with a backoff: due later.
PersistOutcome(w, t) ==
    /\ t \in tasks[w] /\ t.got # "none"
    /\ \/ /\ delivery' = IF OutcomeFence(t)
                         THEN [delivery EXCEPT ![t.d].status = StatusAfter(t),
                                               ![t.d].lease_token = 0, ![t.d].live = FALSE]
                         ELSE delivery
          /\ UNCHANGED whFaults
       \/ Fault /\ UNCHANGED delivery
    /\ tasks' = [tasks EXCEPT ![w] = @ \ {t}]
    /\ UNCHANGED <<scan, answers, whCrashes>>

-----------------------------------------------------------------------------
BackoffEnds(d) ==
    /\ Status(d) = "queued" /\ ~delivery[d].due
    /\ delivery' = [delivery EXCEPT ![d].due = TRUE]
    /\ UNCHANGED <<tasks, scan, answers, whFaults, whCrashes>>

\* LEASE_SECONDS; a task that is stopped for that long goes on afterwards.
LeaseExpires(d) ==
    /\ Status(d) = "running" /\ delivery[d].live
    /\ delivery' = [delivery EXCEPT ![d].live = FALSE]
    /\ UNCHANGED <<tasks, scan, answers, whFaults, whCrashes>>

SchedulerCrash(w) ==
    /\ whCrashes < MaxSchedulerCrashes /\ whCrashes' = whCrashes + 1
    /\ tasks' = [tasks EXCEPT ![w] = {}] /\ scan' = [scan EXCEPT ![w] = "idle"]
    /\ UNCHANGED <<delivery, answers, whFaults>>

WebhookNext ==
    \/ \E d \in Deliveries : \/ \E v \in Verified : ReceiveWebhook(d, v)
                             \/ Enqueue(d) \/ BackoffEnds(d) \/ LeaseExpires(d)
    \/ \E w \in Schedulers :
          \/ Tick(w) \/ BuryExpired(w) \/ RequeueExpired(w) \/ SchedulerCrash(w)
          \/ \E claimed \in SUBSET Deliveries : ClaimDeliveries(w, claimed)
          \/ \E t \in tasks[w] : PersistOutcome(w, t) \/ \E o \in Outcomes : DeliverOne(w, t, o)

WebhookSpec == WebhookInit /\ [][WebhookNext]_whvars

\* Time passes and the workers run.
DeliveryFairness ==
    /\ \A d \in Deliveries : WF_whvars(BackoffEnds(d)) /\ WF_whvars(LeaseExpires(d))
    /\ \A w \in Schedulers :
          /\ WF_whvars(Tick(w)) /\ WF_whvars(BuryExpired(w)) /\ WF_whvars(RequeueExpired(w))
          /\ WF_whvars(\E c \in SUBSET Deliveries : ClaimDeliveries(w, c))
          /\ WF_whvars(\E t \in tasks[w] : PersistOutcome(w, t)
                                           \/ \E o \in Outcomes : DeliverOne(w, t, o))

-----------------------------------------------------------------------------
WebhookTypeOK ==
    /\ \A d \in Deliveries :
          /\ Status(d) \in {"absent", "accepted", "queued", "running", "succeeded", "failed", "dead"}
          /\ delivery[d].attempts \in 0 .. max_attempts
          /\ (Status(d) = "running") = (delivery[d].lease_token # 0)
    /\ \A w \in Schedulers : Cardinality(tasks[w]) <= MAX_CONCURRENT

(***************************************************************************)
(* However leases expire under workers that still send, what a row records *)
(* is what its last claim got: it has succeeded or failed only if that     *)
(* claim did, it is dead only when no attempt is left, and a claim is      *)
(* never made beyond max_attempts.                                         *)
(***************************************************************************)
OutcomeOfLastClaim ==
    \A d \in Deliveries : LET n == delivery[d].attempts IN
        /\ n <= max_attempts
        /\ Status(d) = "succeeded" => answers[d][n] = "success"
        /\ Status(d) = "failed" => answers[d][n] = "permanent"
        /\ Status(d) = "dead" => n = max_attempts

(***************************************************************************)
(* A row with a target reaches succeeded, failed or dead, through crashes  *)
(* of the server that sends it and statements that fail.                   *)
(***************************************************************************)
DeliveriesSettle ==
    DeliveryFairness => \A d \in Deliveries : delivery[d].target ~> DeliverySettled(d)
=============================================================================
